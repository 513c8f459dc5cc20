--------------------------- MODULE RefreshPipeline ---------------------------
(***************************************************************************)
(* processing/pipeline.py over api/state.py: one RuntimeState and a caller *)
(* that issues any sequence of the pipeline's functions on it.  A function *)
(* is a list of operations, one per source; an operation fetches, parses   *)
(* and only then assigns, and an exception leaves it at the fetch or at    *)
(* the parse.  refresh_live_sources catches the exception of an operation, *)
(* records it and goes on; every other function lets it propagate to the   *)
(* caller.                                                                 *)
(***************************************************************************)
EXTENDS MobilitySources, Naturals, Sequences

CONSTANTS Payloads,   \* datasets a provider can serve
          NoData,     \* "nothing loaded", and a FetchResult whose content is None
          CallsMade   \* the functions the caller uses

Live       == "refresh_live_sources"
LiveNoGtfs == "refresh_live_sources(include_static=False)"
RoadWrapper == "refresh_berlin_road_sources"
LoadGtfs    == "load_gtfs_static"
LoadArchive == "load_traffic_archive"

(* The operations of each function, in the order the code runs them. *)
Operations ==
  [c \in {Live, LiveNoGtfs, RoadWrapper, LoadGtfs, LoadArchive,
          "refresh_vbb_static", "refresh_vbb_realtime",
          "refresh_detector_locations", "refresh_disruptions"} |->
     CASE c = Live                         ->
            <<Static, Realtime, DetectorLocations, RoadDisruptions>>
       [] c = LiveNoGtfs                   ->
            <<Realtime, DetectorLocations, RoadDisruptions>>
       [] c = RoadWrapper                  -> <<DetectorLocations, RoadDisruptions>>
       [] c \in {LoadGtfs, "refresh_vbb_static"} -> <<Static>>
       [] c = LoadArchive                  -> <<TrafficArchive>>
       [] c = "refresh_vbb_realtime"       -> <<Realtime>>
       [] c = "refresh_detector_locations" -> <<DetectorLocations>>
       [] c = "refresh_disruptions"        -> <<RoadDisruptions>>]

Calls == DOMAIN Operations

ASSUME PayloadAssumption == NoData \notin Payloads
ASSUME CallsAssumption   == CallsMade \subseteq Calls

Attempts(c) == {Operations[c][i] : i \in DOMAIN Operations[c]}

(* Only refresh_live_sources has the try/except. *)
Catches(c) == c \in {Live, LiveNoGtfs}

(* The two load functions are handed the payload; the others fetch it. *)
Fetches(c) == c \notin {LoadGtfs, LoadArchive}

None == "none"

VARIABLES
  stops, routes, trips,    \* the schedule entities of RuntimeState
  transit_observations,
  traffic_detectors,
  traffic_observations,
  disruptions,
  source_status,           \* source -> freshness, Absent where there is no key
  source_errors,           \* the keys of the dict; the messages are abstracted
  call,                    \* the function running, or the last one
  position,                \* index of the operation it is at
  phase,                   \* where that operation is, or how the call ended
  hand,                    \* the content it works on
  succeeded, failed        \* the RefreshReport being built

schedule == <<stops, routes, trips>>
data == <<schedule, transit_observations, traffic_detectors,
          traffic_observations, disruptions>>
control == <<call, position, phase, hand, succeeded, failed>>
vars == <<data, source_status, source_errors, control>>

Init ==
  /\ stops = NoData /\ routes = NoData /\ trips = NoData
  /\ transit_observations = NoData
  /\ traffic_detectors = NoData
  /\ traffic_observations = NoData
  /\ disruptions = NoData
  /\ source_status = [s \in Sources |-> Absent]
  /\ source_errors = {}
  /\ call = None /\ position = 1 /\ phase = "returned" /\ hand = NoData
  /\ succeeded = {} /\ failed = {}

-----------------------------------------------------------------------------
(* What RuntimeState derives from its fields. *)

MissingSources == {s \in RequiredSources : source_status[s] = Absent}

(* Mutant: recorded errors do not count. *)
HealthStatus_MissingOnly == IF MissingSources # {} THEN "degraded" ELSE "ok"

HealthStatus ==
  IF MissingSources # {} \/ source_errors # {} THEN "degraded" ELSE "ok"

(* The warnings of a snapshot: one per missing source, per status that is  *)
(* not fresh, and per recorded error.                                      *)
(* Mutant: an unknown freshness is no reason to warn.                      *)
SnapshotWarnings_KnownStaleOnly ==
  [missing  : MissingSources]
    \cup [stale    : {s \in Sources : source_status[s] = "stale"}]
    \cup [erroring : source_errors]

SnapshotWarnings ==
  [missing  : MissingSources]
    \cup [stale    : {s \in Sources : source_status[s] \in NotFresh}]
    \cup [erroring : source_errors]

-----------------------------------------------------------------------------
(* Starting and finishing *)

(* No call runs: the last one returned, or ended by an exception. *)
Idle == phase \in {"returned", "raised"}

(* The source whose operation runs. *)
Current == Operations[call][position]

BeginCall(c) ==
  /\ Idle
  /\ call' = c /\ position' = 1
  /\ succeeded' = {} /\ failed' = {}
  /\ IF Fetches(c)
     THEN phase' = "fetch" /\ hand' = NoData
     ELSE phase' = "parse" /\ hand' \in Payloads
  /\ UNCHANGED <<data, source_status, source_errors>>

(* The operation is over; the next one, if any, starts with its fetch. *)
NextOperation ==
  /\ position' = position + 1
  /\ phase' = IF position = Len(Operations[call]) THEN "returned" ELSE "fetch"
  /\ hand' = NoData

(* Mutants: the error is only logged; a success clears every error; a      *)
(* success clears none.                                                    *)
RecordSourceError_NotKept(s) == UNCHANGED source_errors
ClearSourceError_All(s) == source_errors' = {}
ClearSourceError_Never(s) == UNCHANGED source_errors

RecordSourceError(s) == source_errors' = source_errors \cup {s}
ClearSourceError(s)  == source_errors' = source_errors \ {s}

(* An exception leaves the current operation.  Caught, it becomes the      *)
(* source's recorded error; not caught, it ends the call.                  *)
ExceptionLeaves ==
  /\ IF Catches(call)
     THEN /\ RecordSourceError(Current)
          /\ failed' = failed \cup {Current}
          /\ NextOperation
     ELSE /\ phase' = "raised" /\ hand' = NoData
          /\ UNCHANGED <<source_errors, failed, position>>
  /\ UNCHANGED <<source_status, call, succeeded>>

-----------------------------------------------------------------------------
(* The steps of an operation *)

(* MobilityHttpClient.fetch returns the content, ... *)
FetchAnswers ==
  /\ phase = "fetch"
  /\ hand' \in Payloads
  /\ phase' = "parse"
  /\ UNCHANGED <<data, source_status, source_errors, call, position, succeeded, failed>>

(* ... or a result without content (a 304 answer), ... *)
FetchNotModified ==
  /\ phase = "fetch"
  /\ hand' = NoData
  /\ phase' = "parse"
  /\ UNCHANGED <<data, source_status, source_errors, call, position, succeeded, failed>>

(* ... or raises: a timeout, no connection, an HTTP error status. *)
FetchRaises == phase = "fetch" /\ ExceptionLeaves /\ UNCHANGED data

(* Mutants: an answer without content is passed over in silence; it is     *)
(* asked for again, without limit.                                         *)
ContentMissing_PassedOver ==
  /\ phase = "parse" /\ hand = NoData
  /\ NextOperation
  /\ UNCHANGED <<data, source_status, source_errors, call, succeeded, failed>>
ContentMissing_FetchedAgain ==
  /\ phase = "parse" /\ hand = NoData
  /\ phase' = "fetch"
  /\ UNCHANGED <<data, source_status, source_errors, call, position, hand,
                 succeeded, failed>>

(* _content_or_raise *)
ContentMissing ==
  phase = "parse" /\ hand = NoData /\ ExceptionLeaves /\ UNCHANGED data

(* Mutant: the old realtime observations are dropped before the parse. *)
ParseRaises_DropsObservations ==
  /\ phase = "parse" /\ hand # NoData /\ ExceptionLeaves
  /\ transit_observations' = IF Current = Realtime THEN NoData ELSE transit_observations
  /\ UNCHANGED <<schedule, traffic_detectors, traffic_observations, disruptions>>

(* json.loads or the source's parser rejects the payload. *)
ParseRaises ==
  phase = "parse" /\ hand # NoData /\ ExceptionLeaves /\ UNCHANGED data

(* Mutant: the detector locations use the identifier of the archive. *)
MarkLoaded_ArchiveKey(s, status) ==
  /\ source_status' =
       [source_status EXCEPT ![IF s = DetectorLocations THEN TrafficArchive ELSE s] = status]
  /\ ClearSourceError(s)

MarkLoaded(s, status) ==
  /\ source_status' = [source_status EXCEPT ![s] = status]
  /\ ClearSourceError(s)

(* The parser's result is there: the status, the error cleared and, under  *)
(* the try, the source appended to succeeded.                              *)
Loaded(s, status) ==
  /\ phase = "parse" /\ hand # NoData /\ Current = s
  /\ MarkLoaded(s, status)
  /\ succeeded' = IF Catches(call) THEN succeeded \cup {s} ELSE succeeded
  /\ NextOperation
  /\ UNCHANGED <<call, failed>>

StoreStatic ==
  /\ Loaded(Static, "fresh")
  /\ stops' = hand /\ routes' = hand /\ trips' = hand
  /\ UNCHANGED <<transit_observations, traffic_detectors, traffic_observations, disruptions>>

(* The freshness of the feed is the parser's verdict on its header. *)
StoreRealtime ==
  /\ \E freshness \in FreshnessStatus : Loaded(Realtime, freshness)
  /\ transit_observations' = hand
  /\ UNCHANGED <<schedule, traffic_detectors, traffic_observations, disruptions>>

StoreDetectorLocations ==
  /\ Loaded(DetectorLocations, "unknown")
  /\ traffic_detectors' = hand
  /\ UNCHANGED <<schedule, transit_observations, traffic_observations, disruptions>>

StoreDisruptions ==
  /\ Loaded(RoadDisruptions, "unknown")
  /\ disruptions' = hand
  /\ UNCHANGED <<schedule, transit_observations, traffic_detectors, traffic_observations>>

StoreArchive ==
  /\ Loaded(TrafficArchive, "unknown")
  /\ traffic_observations' = hand
  /\ UNCHANGED <<schedule, transit_observations, traffic_detectors, disruptions>>

Stores ==
  \/ StoreStatic
  \/ StoreRealtime
  \/ StoreDetectorLocations
  \/ StoreDisruptions
  \/ StoreArchive

Fails == FetchRaises \/ ContentMissing \/ ParseRaises

(* The steps of a call that has begun. *)
Proceed == FetchAnswers \/ FetchNotModified \/ Fails \/ Stores

Next == Proceed \/ \E c \in CallsMade : BeginCall(c)

Spec == Init /\ [][Next]_vars

(* A call that has begun goes on: the HTTP client has a timeout and the    *)
(* parsers work through finite payloads.  Nothing obliges a new call.      *)
FairSpec == Spec /\ WF_vars(Proceed)

-----------------------------------------------------------------------------
(* Properties *)

(* The dataset the state holds for a source. *)
Held ==
  [s \in Sources |->
     CASE s = Static            -> trips
       [] s = Realtime          -> transit_observations
       [] s = DetectorLocations -> traffic_detectors
       [] s = TrafficArchive    -> traffic_observations
       [] s = RoadDisruptions   -> disruptions]

Datasets == Payloads \cup {NoData}

(* Every variable has its type. *)
TypeOK ==
  /\ stops \in Datasets /\ routes \in Datasets /\ trips \in Datasets
  /\ transit_observations \in Datasets
  /\ traffic_detectors \in Datasets
  /\ traffic_observations \in Datasets
  /\ disruptions \in Datasets
  /\ source_status \in [Sources -> FreshnessStatus \cup {Absent}]
  /\ source_errors \in SUBSET Sources
  /\ call \in CallsMade \cup {None}
  /\ position \in Nat \ {0}
  /\ phase \in {"fetch", "parse", "returned", "raised"}
  /\ hand \in Datasets
  /\ succeeded \in SUBSET Sources /\ failed \in SUBSET Sources

(* Stops, routes and trips always come from one GTFS archive, whatever     *)
(* failed, and however often the schedule was replaced.                    *)
OneSchedule == stops = routes /\ routes = trips

(* missing_sources and every status or health answer derived from it go by *)
(* the keys of source_status: a source has a key exactly when the state    *)
(* holds a dataset of it, so nothing loaded is reported missing and        *)
(* nothing missing is reported loaded.                                     *)
StatusMatchesData ==
  \A s \in Sources : source_status[s] = Absent <=> Held[s] = NoData

(* The sources of the call whose operations are over. *)
Completed == {Operations[call][i] : i \in 1..(position - 1)}

(* While a refresh_live_sources runs, and in the report it returns: the    *)
(* operations behind it are divided into succeeded and failed, a failed    *)
(* source has its error recorded in the state, and a succeeded one has a   *)
(* dataset and no error left.                                              *)
ReportMatchesState ==
  call # None /\ Catches(call) =>
    /\ phase # "raised"
    /\ succeeded \cap failed = {}
    /\ succeeded \cup failed = Completed
    /\ failed \subseteq source_errors
    /\ succeeded \cap source_errors = {}
    /\ \A s \in succeeded : source_status[s] # Absent /\ Held[s] # NoData

(* A call that returns normally and reports no failure has loaded every    *)
(* source it went for: no answer without content, no rejected payload and  *)
(* no HTTP error passes for a success.                                     *)
QuietReturnMeansLoaded ==
  phase = "returned" /\ call # None /\ failed = {} =>
    \A s \in Attempts(call) : Held[s] # NoData /\ s \notin source_errors

(* Health "ok" is earned: the whole of the required data is there, and no  *)
(* operation the last refresh_live_sources attempted has failed, down to   *)
(* the detector locations, which are not a required source.                *)
OkIsEarned ==
  HealthStatus = "ok" =>
    /\ \A s \in RequiredSources : Held[s] # NoData
    /\ failed = {}

(* A caller that never loads a traffic archive (the command line cannot)   *)
(* never sees health "ok", whatever the providers answer: the required set *)
(* names the archive and the detector locations do not stand in for it.    *)
DegradedWithoutArchive ==
  LoadArchive \notin CallsMade => HealthStatus = "degraded"

(* There is no state, however well every refresh went, whose snapshot      *)
(* carries no warning: a source is missing, or has a status other than     *)
(* fresh (the road sources can have no other), or an error.                *)
SnapshotAlwaysWarns == SnapshotWarnings # {}

(* The source a loaded record names in its provenance.  Detector locations *)
(* are stamped by the function that stamps the archived observations.      *)
NamedSource(s) == IF s = DetectorLocations THEN TrafficArchive ELSE s

(* "location metadata is distinct from archived detector observations"     *)
(* (ingestion/sources.py): a record's provenance names a source the state  *)
(* has loaded.                                                             *)
RecordsNameALoadedSource ==
  \A s \in Sources : Held[s] # NoData => source_status[NamedSource(s)] # Absent

(* A recorded error disappears only in the step that installs the dataset  *)
(* the provider has just answered with; no other source's success and no   *)
(* failure elsewhere takes it away.                                        *)
ErrorClearedByItsOwnData ==
  [][\A s \in source_errors \ source_errors' :
        hand # NoData /\ Held'[s] = hand /\ s = Current]_vars

(* No substitute data: a dataset changes only to the content in hand, for  *)
(* the source whose operation is running, and is never taken away.         *)
OnlyProviderDataIsShown ==
  [][\A s \in Sources : Held'[s] # Held[s] =>
        Held'[s] = hand /\ hand \in Payloads /\ s = Current]_vars

(* Source by source the pipeline is the ledger: one source per step, the   *)
(* dataset as a whole, the last good dataset kept through failures.        *)
Ledger == INSTANCE SourceLedger WITH held <- Held, failing <- source_errors
LedgerSpec == Ledger!Spec

(* Every call returns, even if every provider keeps failing. *)
EveryCallReturns == ~Idle ~> Idle

(* If from some time on no operation fails, and the full live refresh is   *)
(* called again and again, the errors of an earlier outage are gone for    *)
(* good in the end.                                                        *)
OutageIsForgotten ==
  <>[][~Fails]_vars /\ []<><<BeginCall(Live)>>_vars => <>[](source_errors = {})

=============================================================================
