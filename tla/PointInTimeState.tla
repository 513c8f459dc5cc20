--------------------------- MODULE PointInTimeState ---------------------------
(***************************************************************************)
(* Time in the runtime state: when a realtime feed, an archive and the     *)
(* disruptions were observed and retrieved, what freshness that gave them, *)
(* what the snapshot for any moment shows of them afterwards, and what is  *)
(* counted in a snapshot and exported from it (processing/pipeline.py,     *)
(* ingestion/gtfs_realtime.py, api/state.py, analytics/state.py,           *)
(* integration/contracts.py).                                              *)
(*                                                                         *)
(* Instants are ticks, TicksPerSecond to the second: retrievals fall       *)
(* between seconds, the timestamp in a feed header does not, and int()     *)
(* truncates the difference.  The documents are inputs.                    *)
(***************************************************************************)
EXTENDS DisruptionFeed, MobilitySources, FiniteSets

CONSTANTS
  Keys,             \* what an observation is of
  Cancellations,    \* the keys without a stop, of trips that can be cancelled as a whole
  Feeds,            \* the lists of updates a feed can hold
  Archives,         \* lists of observations an archive can hold
  DisruptionLists,  \* the sets of features a disruption document can hold
  Zones,            \* Berlin's, near one of its transitions
  MaxTime,          \* bound: ticks modelled
  TicksPerSecond,
  FutureTolerance,  \* seconds a header may be ahead of the retrieval
  StaleAfter        \* stale_after_seconds

ASSUME ScaleAssumption ==
  /\ MaxTime \in Nat
  /\ TicksPerSecond \in Nat \ {0}
  /\ FutureTolerance \in Nat
  /\ StaleAfter \in Nat

Moments == 0..MaxTime
WholeSeconds == {t \in Moments : t % TicksPerSecond = 0}

TransitObservation ==
  [key : Keys, observed_at : Moments, retrieved_at : Moments,
   freshness : FreshnessStatus, quality : {"info", "warning"}]

(* What an observation is made of: an update of a stop, which can lack the *)
(* stop, or a cancelled trip without any.                                  *)
Update ==
  {u \in [key : Keys, of : {"stop", "trip"}] : u.of = "trip" => u.key \in Cancellations}

TrafficObservation == [key : Keys, observed_at : Moments, quality : {"info", "warning"}]
Disruption ==
  {d \in [valid_from : Nat \cup {NoTime}, valid_until : Nat \cup {NoTime},
          observation_at : Nat \cup {NoTime}, quality : {"info", "warning"}] :
     NoTime \notin {d.valid_from, d.valid_until} => d.valid_from <= d.valid_until}

ASSUME InputsAssumption ==
  /\ Cancellations \subseteq Keys
  /\ Feeds \subseteq Seq(Update)
  /\ Archives \subseteq Seq(TrafficObservation)
  /\ Zones \subseteq Zone
  /\ \A features \in DisruptionLists :
       /\ features \subseteq Feature /\ IsFiniteSet(features)
       /\ \A feature \in features, zone \in Zones :
            \A written \in {feature.from, feature.to} \ {NoTime} :
               SourceLocal(zone, written) \in Nat

VARIABLES
  zone,
  clock,                 \* the present
  transit_observations,
  traffic_observations,
  disruptions,
  source_status,
  source_errors,
  document               \* history: the disruption document last read to its end

vars == <<zone, clock, transit_observations, traffic_observations, disruptions,
          source_status, source_errors, document>>

Init ==
  /\ zone \in Zones /\ clock \in Moments /\ document = {}
  /\ transit_observations = <<>>
  /\ traffic_observations = <<>>
  /\ disruptions = {}
  /\ source_status = [s \in Sources |-> Absent]
  /\ source_errors = {}

-----------------------------------------------------------------------------

Tick ==
  /\ clock < MaxTime
  /\ clock' = clock + 1
  /\ UNCHANGED <<zone, transit_observations, traffic_observations, disruptions,
                 source_status, source_errors, document>>

(* int() of a number of seconds *)
Truncated(ticks) ==
  IF ticks >= 0 THEN ticks \div TicksPerSecond ELSE -((-ticks) \div TicksPerSecond)

(* Mutant: a header of the future passes for fresh. *)
FeedFreshness_NoFuture(header, retrieved_at) ==
  IF header = NoTime THEN "unknown"
  ELSE IF Truncated(retrieved_at - header) > StaleAfter THEN "stale" ELSE "fresh"

FeedFreshness(header, retrieved_at) ==
  LET age == Truncated(retrieved_at - header) IN
  IF header = NoTime \/ age < -FutureTolerance THEN "unknown"
  ELSE IF age > StaleAfter THEN "stale" ELSE "fresh"

(* parse_feed_message: every observation of a feed has the feed's instant  *)
(* and its freshness; those of stops carry a warning in a stale feed,      *)
(* those of trips cancelled as a whole do not.                             *)
ParsedFeed(header, updates, retrieved_at) ==
  LET freshness == FeedFreshness(header, retrieved_at) IN
  [i \in DOMAIN updates |->
     [key          |-> updates[i].key,
      observed_at  |-> IF header = NoTime THEN retrieved_at ELSE header,
      retrieved_at |-> retrieved_at,
      freshness    |-> freshness,
      quality      |-> IF freshness = "stale" /\ updates[i].of = "stop"
                       THEN "warning" ELSE "info"]]

RefreshRealtime(header, updates) ==
  /\ transit_observations' = ParsedFeed(header, updates, clock)
  /\ source_status' = [source_status EXCEPT ![Realtime] = FeedFreshness(header, clock)]
  /\ source_errors' = source_errors \ {Realtime}
  /\ UNCHANGED <<zone, clock, traffic_observations, disruptions, document>>

LoadArchive(observations) ==
  /\ traffic_observations' = observations
  /\ source_status' = [source_status EXCEPT ![TrafficArchive] = "unknown"]
  /\ source_errors' = source_errors \ {TrafficArchive}
  /\ UNCHANGED <<zone, clock, transit_observations, disruptions, document>>

(* Mutant: the failure puts the freshness of the source in doubt. *)
RefreshFails_StatusUnknown(s) ==
  /\ source_status' = [source_status EXCEPT ![s] = "unknown"]
  /\ source_errors' = source_errors \cup {s}
  /\ UNCHANGED <<zone, clock, transit_observations, traffic_observations, disruptions,
                 document>>

(* A live refresh of a source fails: only its error is recorded. *)
RefreshFails(s) ==
  /\ source_errors' = source_errors \cup {s}
  /\ UNCHANGED <<zone, clock, transit_observations, traffic_observations, disruptions,
                 source_status, document>>

(* The pipeline reads the document in the lenient mode: what is rejected   *)
(* is gone, and an alien feature fails the whole of it.                    *)
RefreshDisruptions(features) ==
  IF Raises(zone, features, FALSE) THEN RefreshFails(RoadDisruptions)
  ELSE /\ disruptions' = ParsedDisruptions(zone, features) /\ document' = features
       /\ source_status' = [source_status EXCEPT ![RoadDisruptions] = "unknown"]
       /\ source_errors' = source_errors \ {RoadDisruptions}
       /\ UNCHANGED <<zone, clock, transit_observations, traffic_observations>>

(* No disruption is stored by its provider after it is retrieved. *)
Next ==
  \/ Tick
  \/ \E header \in WholeSeconds \cup {NoTime}, updates \in Feeds :
        RefreshRealtime(header, updates)
  \/ \E observations \in Archives : LoadArchive(observations)
  \/ \E features \in DisruptionLists :
        /\ \A feature \in features : feature.stored <= clock
        /\ RefreshDisruptions(features)
  \/ \E s \in {Realtime, RoadDisruptions} : RefreshFails(s)

Spec == Init /\ [][Next]_vars

-----------------------------------------------------------------------------
(* RuntimeState.snapshot for a moment of the past, the present or the      *)
(* future                                                                  *)

(* Mutant: what is older than a feed may be is left out. *)
TransitAt_Recent(t) ==
  {o \in Latest(transit_observations, t) : Truncated(t - o.observed_at) <= StaleAfter}

TransitAt(t) == Latest(transit_observations, t)
TrafficAt(t) == Latest(traffic_observations, t)
DisruptionsAt(t) == {d \in disruptions : Active(d, t)}

-----------------------------------------------------------------------------
(* What is made of a snapshot *)

(* active_disruption_count, which has its own test of the validity and is  *)
(* applied to all the disruptions held.                                    *)
IsActive(disruption, t) ==
  /\ ~(disruption.valid_from # NoTime /\ disruption.valid_from > t)
  /\ disruption.valid_until = NoTime \/ disruption.valid_until >= t

ActiveDisruptionCount(t) == Cardinality({d \in disruptions : IsActive(d, t)})

(* mobility_state_summary; the observations counted differ in their keys.  *)
SourcesOf(status) == Cardinality({s \in Sources : source_status[s] = status})

MobilityStateSummary(t) ==
  LET warned(items) == Cardinality({item \in items : item.quality = "warning"}) IN
  [transit_observations  |-> Cardinality(TransitAt(t)),
   traffic_observations  |-> Cardinality(TrafficAt(t)),
   active_disruptions    |-> Cardinality(DisruptionsAt(t)),
   quality_warning_observations |->
     warned(TransitAt(t)) + warned(TrafficAt(t)) + warned(DisruptionsAt(t)),
   fresh_sources         |-> SourcesOf("fresh"),
   stale_sources         |-> SourcesOf("stale"),
   expired_sources       |-> SourcesOf("expired"),
   unknown_freshness_sources |-> SourcesOf("unknown"),
   missing_sources       |-> Cardinality({s \in RequiredSources : source_status[s] = Absent}),
   source_errors         |-> Cardinality(source_errors)]

(* Mutant: the export vouches for what it exports. *)
ExportMobilitySnapshot_Vouches(t) ==
  LET record(source, item) == [source |-> source, freshness |-> "fresh", quality |-> item.quality]
  IN  {record(Realtime, o) : o \in TransitAt(t)}
        \cup {record(TrafficArchive, o) : o \in TrafficAt(t)}
        \cup {record(RoadDisruptions, d) : d \in DisruptionsAt(t)}

(* export_mobility_snapshot: each record with the source, freshness and    *)
(* quality of what it is made of; the road sources' is always unknown.     *)
ExportMobilitySnapshot(t) ==
  {[source |-> Realtime, freshness |-> o.freshness, quality |-> o.quality] : o \in TransitAt(t)}
    \cup {[source |-> TrafficArchive, freshness |-> "unknown", quality |-> o.quality] :
             o \in TrafficAt(t)}
    \cup {[source |-> RoadDisruptions, freshness |-> "unknown", quality |-> d.quality] :
             d \in DisruptionsAt(t)}

-----------------------------------------------------------------------------
(* Properties *)

Ticks(seconds) == seconds * TicksPerSecond

TypeOK ==
  /\ zone \in Zones /\ clock \in Moments /\ document \in DisruptionLists \cup {{}}
  /\ transit_observations \in Seq(TransitObservation)
  /\ traffic_observations \in Seq(TrafficObservation)
  /\ disruptions \in SUBSET Disruption
  /\ source_status \in [Sources -> FreshnessStatus \cup {Absent}]
  /\ source_errors \subseteq {Realtime, RoadDisruptions}

(* A feed whose observations a snapshot of the present hides because they  *)
(* are of the future is reported unknown, unless the present is still      *)
(* within the tolerance, and the second int() cuts off, of its retrieval.  *)
HiddenFeedIsUnknown ==
  \A i \in DOMAIN transit_observations :
     LET o == transit_observations[i] IN
     o.observed_at > clock =>
       \/ source_status[Realtime] = "unknown"
       \/ o.observed_at < o.retrieved_at + Ticks(FutureTolerance + 1)

(* The freshness the state reports for the realtime source is the one in   *)
(* the provenance of every observation it holds; those of stops are marked *)
(* exactly when it is stale, and no other is marked when it is not,        *)
(* through failures, empty feeds, replacements.                            *)
StatusIsOfTheFeedHeld ==
  \A i \in DOMAIN transit_observations :
     LET o == transit_observations[i] IN
     /\ source_status[Realtime] = o.freshness
     /\ o.quality = "warning" => source_status[Realtime] = "stale"
     /\ source_status[Realtime] = "stale" /\ o.key \notin Cancellations =>
          o.quality = "warning"

(* A snapshot of a later moment shows everything that one of an earlier    *)
(* moment of the same state shows, in the same or a later observation.     *)
LaterMomentsKnowMore ==
  \A t, u \in Moments :
     t <= u =>
       /\ \A o \in TransitAt(t) : \E p \in TransitAt(u) :
             p.key = o.key /\ p.observed_at >= o.observed_at
       /\ \A o \in TrafficAt(t) : \E p \in TrafficAt(u) :
             p.key = o.key /\ p.observed_at >= o.observed_at

(* Every bound held is one a feature was given, in that feature's place,   *)
(* and is the first instant at which the clock reads it; a reading that    *)
(* does not occur is off by as much as the clock was advanced.             *)
BoundRead(t, written) ==
  LET readings == Readings(zone, written) IN
  IF written = NoTime THEN t = NoTime
  ELSE IF readings # {} THEN t \in readings /\ \A u \in readings : t <= u
  ELSE LocalAt(zone, t) = written + zone.after - zone.before

HeldBoundsAreRead ==
  \A d \in disruptions : \E feature \in document :
     /\ d.observation_at = feature.stored
     /\ BoundRead(d.valid_from, feature.from) /\ BoundRead(d.valid_until, feature.to)

(* Though the order of the bounds is checked after the conversion and what *)
(* is rejected is not shown: no sound feature whose start is a time that   *)
(* occurs, and whose end is not written before it, is lost, in either of   *)
(* the nights the clock is changed.                                        *)
OrderedIntervalsSurvive ==
  \A feature \in document :
     /\ feature.shape = "sound"
     /\ NoTime \notin {feature.from, feature.to} =>
          feature.from <= feature.to /\ Readings(zone, feature.from) # {}
     => ParsedFeature(zone, feature) \in disruptions

(* What a snapshot of any moment exports is not said to be fresher, or     *)
(* less fresh, than the envelope says of its source.                       *)
ExportedFreshnessIsTheStatus ==
  \A t \in Moments : \A record \in ExportMobilitySnapshot(t) :
     record.freshness = source_status[record.source]

(* A summary without quality warnings is earned: the feed is not reported  *)
(* stale while stops of it are counted, and every disruption counted has   *)
(* both its bounds.  The other count of active disruptions agrees.         *)
QuietSummaryIsEarned ==
  \A t \in Moments :
     LET summary == MobilityStateSummary(t) IN
     /\ summary.quality_warning_observations = 0 =>
          /\ source_status[Realtime] = "stale" => \A o \in TransitAt(t) : o.key \in Cancellations
          /\ \A d \in DisruptionsAt(t) : NoTime \notin {d.valid_from, d.valid_until}
     /\ summary.active_disruptions = ActiveDisruptionCount(t)

(* What the documents say, and the code does not do: observations shown    *)
(* for the present that are older than a feed may be are not shown as      *)
(* fresh.  The status is from the refresh and nobody revises it.           *)
StaleIsVisible ==
  \A o \in TransitAt(clock) :
     Truncated(clock - o.observed_at) > StaleAfter => source_status[Realtime] # "fresh"

(* What the documents say, and the code does not do: a snapshot shows no   *)
(* disruption whose record is from after its moment.                       *)
NoDisruptionFromTheFuture ==
  \A t \in Moments : \A d \in DisruptionsAt(t) :
     d.observation_at # NoTime => d.observation_at <= t

(* What the documents say, and the code does not do: a bound written in    *)
(* the hour that occurs twice or not at all is not resolved silently; it   *)
(* is what local_to_utc returns without a fold.                            *)
NoSilentFold ==
  \A feature \in document : ~Rejected(zone, feature) =>
     \A written \in {feature.from, feature.to} \ {NoTime} :
        SourceLocal(zone, written) \in LocalToUtc(zone, written, NoFold)

=============================================================================
