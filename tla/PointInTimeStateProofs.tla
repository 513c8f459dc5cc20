------------------------ MODULE PointInTimeStateProofs ------------------------
(***************************************************************************)
(* Proofs about the runtime state in time, for every scale of the clock,   *)
(* every tolerance and every set of documents.                             *)
(***************************************************************************)
EXTENDS PointInTimeState, FiniteSetTheorems, WellFoundedInduction, TLAPS

-----------------------------------------------------------------------------
(* What the selection of the latest observations returns *)

LEMMA LeastNatural ==
  ASSUME NEW T, T \subseteq Nat, T # {}
  PROVE  \E x \in T : \A y \in T : x <= y
  <1> DEFINE R == OpToRel(<, Nat)
  <1>1. IsWellFoundedOn(R, Nat)
    BY NatLessThanWellFounded
  <1>2. PICK x \in T : \A y \in T : ~ (<<y, x>> \in R)
    BY <1>1, WFMin
  <1>3. \A y \in T : ~ (y < x)
    BY <1>2 DEF OpToRel
  <1> QED BY <1>3

LEMMA LatestExists ==
  ASSUME NEW observations,
         Len(observations) \in Nat,
         \A i \in 1..Len(observations) : observations[i].observed_at \in Int,
         NEW t \in Int,
         NEW k,
         Known(observations, Len(observations), t, k) # {}
  PROVE  \E j : IsLatest(observations, Len(observations), t, k, j)
  <1> DEFINE known == Known(observations, Len(observations), t, k)
             age(i) == t - observations[i].observed_at
             ages == {age(i) : i \in known}
  <1>1. \A i \in known : i \in Nat /\ observations[i].observed_at \in Int /\ age(i) \in Nat
    BY DEF Known
  <1>2. PICK youngest \in ages : \A a \in ages : youngest <= a
    <2>1. ages \subseteq Nat /\ ages # {}
      BY <1>1
    <2> QED BY <2>1, LeastNatural
  <1> DEFINE candidates == {i \in known : age(i) = youngest}
  <1>3. PICK j \in candidates : \A i \in candidates : j <= i
    <2>1. candidates \subseteq Nat /\ candidates # {}
      BY <1>1, <1>2
    <2> QED BY <2>1, LeastNatural
  <1>4. ASSUME NEW i \in known
        PROVE  \/ observations[i].observed_at < observations[j].observed_at
               \/ observations[i].observed_at = observations[j].observed_at /\ j <= i
    <2>1. age(j) <= age(i)
      BY <1>2, <1>3
    <2>2. age(j) = age(i) => j <= i
      BY <1>3
    <2>3. observations[i].observed_at \in Int /\ observations[j].observed_at \in Int
      BY <1>1, <1>3
    <2>4. observations[i].observed_at <= observations[j].observed_at
      BY <2>1, <2>3
    <2>5. observations[i].observed_at = observations[j].observed_at => j <= i
      BY <2>2
    <2> QED BY <2>3, <2>4, <2>5
  <1> QED BY <1>3, <1>4 DEF IsLatest

LEMMA LaterLatest ==
  ASSUME NEW observations,
         Len(observations) \in Nat,
         DOMAIN observations = 1..Len(observations),
         \A i \in 1..Len(observations) : observations[i].observed_at \in Int,
         NEW t \in Int, NEW u \in Int, t <= u,
         NEW o \in Latest(observations, t)
  PROVE  \E p \in Latest(observations, u) :
            p.key = o.key /\ p.observed_at >= o.observed_at
  <1>1. PICK i \in 1..Len(observations) :
           /\ o = observations[i]
           /\ IsLatest(observations, Len(observations), t, observations[i].key, i)
    BY DEF Latest
  <1>2. i \in Known(observations, Len(observations), u, o.key)
    BY <1>1 DEF IsLatest, Known
  <1>3. PICK j : IsLatest(observations, Len(observations), u, o.key, j)
    BY <1>2, LatestExists
  <1>4. j \in 1..Len(observations) /\ observations[j].key = o.key
    BY <1>3 DEF IsLatest, Known
  <1>5. observations[j] \in Latest(observations, u)
    BY <1>3, <1>4 DEF Latest
  <1>6. observations[j].observed_at >= o.observed_at
    BY <1>1, <1>2, <1>3, <1>4 DEF IsLatest
  <1> QED BY <1>4, <1>5, <1>6

(* There is one latest observation of a key, if any is known. *)
LEMMA OneLatest ==
  ASSUME NEW observations,
         Len(observations) \in Nat,
         DOMAIN observations = 1..Len(observations),
         \A i \in 1..Len(observations) : observations[i].observed_at \in Int,
         NEW t \in Int
  PROVE  /\ \A o, p \in Latest(observations, t) : o.key = p.key => o = p
         /\ \A i \in 1..Len(observations) : observations[i].observed_at <= t =>
              \E o \in Latest(observations, t) : o.key = observations[i].key
  <1>1. ASSUME NEW o \in Latest(observations, t), NEW p \in Latest(observations, t),
               o.key = p.key
        PROVE  o = p
    <2>1. PICK i \in 1..Len(observations) :
             o = observations[i] /\ IsLatest(observations, Len(observations), t, o.key, i)
      BY DEF Latest
    <2>2. PICK j \in 1..Len(observations) :
             p = observations[j] /\ IsLatest(observations, Len(observations), t, p.key, j)
      BY DEF Latest
    <2>3. i \in Known(observations, Len(observations), t, o.key)
          /\ j \in Known(observations, Len(observations), t, o.key)
      BY <1>1, <2>1, <2>2 DEF IsLatest
    <2>4. /\ \/ observations[j].observed_at < observations[i].observed_at
             \/ observations[j].observed_at = observations[i].observed_at /\ i <= j
          /\ \/ observations[i].observed_at < observations[j].observed_at
             \/ observations[i].observed_at = observations[j].observed_at /\ j <= i
      BY <1>1, <2>1, <2>2, <2>3 DEF IsLatest
    <2>5. i = j
      BY <2>4
    <2> QED BY <2>1, <2>2, <2>5
  <1>2. ASSUME NEW i \in 1..Len(observations), observations[i].observed_at <= t
        PROVE  \E o \in Latest(observations, t) : o.key = observations[i].key
    <2> DEFINE k == observations[i].key
    <2>1. i \in Known(observations, Len(observations), t, k)
      BY <1>2 DEF Known
    <2>2. PICK j : IsLatest(observations, Len(observations), t, k, j)
      BY <2>1, LatestExists
    <2>3. j \in 1..Len(observations) /\ observations[j].key = k
      BY <2>2 DEF IsLatest, Known
    <2> QED BY <2>2, <2>3 DEF Latest
  <1> QED BY <1>1, <1>2

-----------------------------------------------------------------------------
(* Types *)

LEMMA ElementsOfSequence ==
  ASSUME NEW S, NEW s \in Seq(S)
  PROVE  Len(s) \in Nat /\ DOMAIN s = 1..Len(s) /\ \A i \in 1..Len(s) : s[i] \in S
  OBVIOUS

LEMMA FreshnessType ==
  ASSUME NEW header, NEW retrieved_at
  PROVE  FeedFreshness(header, retrieved_at) \in FreshnessStatus
  BY DEF FeedFreshness, FreshnessStatus

LEMMA ParsedFeedType ==
  ASSUME NEW header \in WholeSeconds \cup {NoTime}, NEW updates \in Feeds,
         NEW retrieved_at \in Moments
  PROVE  /\ ParsedFeed(header, updates, retrieved_at) \in Seq(TransitObservation)
         /\ DOMAIN ParsedFeed(header, updates, retrieved_at) = DOMAIN updates
  <1> DEFINE feed == ParsedFeed(header, updates, retrieved_at)
  <1>1. updates \in Seq(Update) /\ \A u \in Update : u.key \in Keys
    BY InputsAssumption DEF Update
  <1>2. Len(updates) \in Nat /\ DOMAIN updates = 1..Len(updates)
    BY <1>1
  <1>3. \A i \in 1..Len(updates) : feed[i] \in TransitObservation
    BY <1>1, <1>2, FreshnessType DEF ParsedFeed, TransitObservation, WholeSeconds
  <1>4. feed \in [1..Len(updates) -> TransitObservation]
    BY <1>2, <1>3 DEF ParsedFeed
  <1> QED BY <1>2, <1>4

LEMMA ParsedDisruptionsType ==
  ASSUME NEW z \in Zones, NEW features \in DisruptionLists \cup {{}}
  PROVE  ParsedDisruptions(z, features) \in SUBSET Disruption
  <1> SUFFICES ASSUME NEW feature \in features, ~Rejected(z, feature)
               PROVE  ParsedFeature(z, feature) \in Disruption
    BY DEF ParsedDisruptions
  <1>1. /\ feature \in Feature
        /\ SourceLocal(z, feature.from) \in Nat \cup {NoTime}
        /\ SourceLocal(z, feature.to) \in Nat \cup {NoTime}
    BY InputsAssumption DEF SourceLocal
  <1>2. feature.from = NoTime => SourceLocal(z, feature.from) = NoTime
    BY DEF SourceLocal
  <1>3. feature.to = NoTime => SourceLocal(z, feature.to) = NoTime
    BY DEF SourceLocal
  <1>4. NoTime \notin {feature.from, feature.to} =>
           ~(SourceLocal(z, feature.to) < SourceLocal(z, feature.from))
    BY DEF Rejected
  <1> DEFINE d == ParsedFeature(z, feature)
  <1>5. d \in [valid_from : Nat \cup {NoTime}, valid_until : Nat \cup {NoTime},
              observation_at : Nat \cup {NoTime}, quality : {"info", "warning"}]
    BY <1>1 DEF ParsedFeature, Feature
  <1>6. NoTime \notin {d.valid_from, d.valid_until} => d.valid_from <= d.valid_until
    BY <1>1, <1>2, <1>3, <1>4 DEF ParsedFeature
  <1> QED BY <1>5, <1>6 DEF Disruption

THEOREM TypeCorrect == Spec => []TypeOK
  <1>1. Init => TypeOK
    BY DEF Init, TypeOK, FreshnessStatus
  <1>2. TypeOK /\ [Next]_vars => TypeOK'
    <2> SUFFICES ASSUME TypeOK, [Next]_vars PROVE TypeOK'
      OBVIOUS
    <2> USE DEF TypeOK
    <2>1. CASE Tick
      BY <2>1, ScaleAssumption DEF Tick, Moments
    <2>2. ASSUME NEW header \in WholeSeconds \cup {NoTime}, NEW updates \in Feeds,
                 RefreshRealtime(header, updates)
          PROVE  TypeOK'
      <3>1. ParsedFeed(header, updates, clock) \in Seq(TransitObservation)
        BY ParsedFeedType
      <3>2. FeedFreshness(header, clock) \in FreshnessStatus
        BY FreshnessType
      <3> QED BY <2>2, <3>1, <3>2 DEF RefreshRealtime
    <2>3. ASSUME NEW observations \in Archives, LoadArchive(observations)
          PROVE  TypeOK'
      BY <2>3, InputsAssumption DEF LoadArchive, FreshnessStatus
    <2>5. ASSUME NEW s \in {Realtime, RoadDisruptions}, RefreshFails(s)
          PROVE  TypeOK'
      BY <2>5 DEF RefreshFails
    <2>4. ASSUME NEW features \in DisruptionLists, RefreshDisruptions(features)
          PROVE  TypeOK'
      <3>1. CASE Raises(zone, features, FALSE)
        BY <2>4, <2>5, <3>1 DEF RefreshDisruptions
      <3>2. CASE ~Raises(zone, features, FALSE)
        <4>1. ParsedDisruptions(zone, features) \in SUBSET Disruption
          BY ParsedDisruptionsType
        <4> QED BY <2>4, <3>2, <4>1 DEF RefreshDisruptions, FreshnessStatus
      <3> QED BY <3>1, <3>2
    <2>6. CASE UNCHANGED vars
      BY <2>6 DEF vars
    <2> QED BY <2>1, <2>2, <2>3, <2>4, <2>5, <2>6 DEF Next
  <1> QED BY <1>1, <1>2, PTL DEF Spec

-----------------------------------------------------------------------------
(* The views of a state *)

LEMMA HeldObservations ==
  ASSUME TypeOK
  PROVE  /\ Len(transit_observations) \in Nat
         /\ DOMAIN transit_observations = 1..Len(transit_observations)
         /\ \A i \in 1..Len(transit_observations) : transit_observations[i].observed_at \in Int
         /\ Len(traffic_observations) \in Nat
         /\ DOMAIN traffic_observations = 1..Len(traffic_observations)
         /\ \A i \in 1..Len(traffic_observations) : traffic_observations[i].observed_at \in Int
  <1>1. transit_observations \in Seq(TransitObservation)
        /\ traffic_observations \in Seq(TrafficObservation)
    BY DEF TypeOK
  <1>2. /\ \A o \in TransitObservation : o.observed_at \in Int
        /\ \A o \in TrafficObservation : o.observed_at \in Int
    BY ScaleAssumption DEF TransitObservation, TrafficObservation, Moments
  <1> QED BY <1>1, <1>2, ElementsOfSequence

(* For any list of observations a feed or an archive can put there, a      *)
(* later moment shows every key an earlier one does, no older.             *)
THEOREM MomentsMonotone == Spec => []LaterMomentsKnowMore
  <1>1. TypeOK => LaterMomentsKnowMore
    <2> SUFFICES ASSUME TypeOK, NEW t \in Moments, NEW u \in Moments, t <= u
                 PROVE  /\ \A o \in TransitAt(t) : \E p \in TransitAt(u) :
                             p.key = o.key /\ p.observed_at >= o.observed_at
                        /\ \A o \in TrafficAt(t) : \E p \in TrafficAt(u) :
                             p.key = o.key /\ p.observed_at >= o.observed_at
      BY DEF LaterMomentsKnowMore
    <2>1. t \in Int /\ u \in Int
      BY ScaleAssumption DEF Moments
    <2>4. \A o \in TransitAt(t) : \E p \in TransitAt(u) :
             p.key = o.key /\ p.observed_at >= o.observed_at
      BY <2>1, HeldObservations, LaterLatest DEF TransitAt
    <2>5. \A o \in TrafficAt(t) : \E p \in TrafficAt(u) :
             p.key = o.key /\ p.observed_at >= o.observed_at
      BY <2>1, HeldObservations, LaterLatest DEF TrafficAt
    <2> QED BY <2>4, <2>5
  <1> QED BY <1>1, TypeCorrect, PTL

OneOfEach(observations, t) ==
  /\ \A o, p \in Latest(observations, t) : o.key = p.key => o = p
  /\ {o.key : o \in Latest(observations, t)} =
       {observations[i].key :
          i \in {i \in DOMAIN observations : observations[i].observed_at <= t}}

(* A snapshot of any moment shows one observation of each key known by     *)
(* then and no other, whatever the feed repeats or puts out of order: the  *)
(* counts of a summary are counts of keys.                                 *)
OneObservationPerKey ==
  \A t \in Moments : /\ OneOfEach(transit_observations, t)
                     /\ OneOfEach(traffic_observations, t)

(* It holds for every list of observations, in every state. *)
THEOREM OnePerKey == Spec => []OneObservationPerKey
  <1>1. ASSUME NEW observations,
               Len(observations) \in Nat,
               DOMAIN observations = 1..Len(observations),
               \A i \in 1..Len(observations) : observations[i].observed_at \in Int,
               NEW t \in Int
        PROVE  OneOfEach(observations, t)
    <2>1. \A o \in Latest(observations, t) : \E i \in DOMAIN observations :
             o = observations[i] /\ observations[i].observed_at <= t
      BY DEF Latest, IsLatest, Known
    <2>2. /\ \A o, p \in Latest(observations, t) : o.key = p.key => o = p
          /\ \A i \in 1..Len(observations) : observations[i].observed_at <= t =>
              \E o \in Latest(observations, t) : o.key = observations[i].key
      BY <1>1, OneLatest
    <2> QED BY <1>1, <2>1, <2>2 DEF OneOfEach
  <1>2. TypeOK => OneObservationPerKey
    <2> SUFFICES ASSUME TypeOK, NEW t \in Moments
                 PROVE  OneOfEach(transit_observations, t) /\ OneOfEach(traffic_observations, t)
      BY DEF OneObservationPerKey
    <2>1. t \in Int
      BY ScaleAssumption DEF Moments
    <2>2. OneOfEach(transit_observations, t)
      BY <1>1, <2>1, HeldObservations
    <2>3. OneOfEach(traffic_observations, t)
      BY <1>1, <2>1, HeldObservations
    <2> QED BY <2>2, <2>3
  <1> QED BY <1>2, TypeCorrect, PTL

-----------------------------------------------------------------------------
(* The freshness of the feed held *)

(* A feed not found to be of the future is ahead of its retrieval by less  *)
(* than the tolerance and one more second.                                 *)
LEMMA Cutoff ==
  ASSUME NEW n \in Nat, n \div TicksPerSecond <= FutureTolerance
  PROVE  n < Ticks(FutureTolerance + 1)
  <1> DEFINE q == n \div TicksPerSecond
  <1>1. q \in Nat /\ n < (q + 1) * TicksPerSecond
    BY ScaleAssumption
  <1>2. (q + 1) * TicksPerSecond <= (FutureTolerance + 1) * TicksPerSecond
    BY <1>1, ScaleAssumption
  <1> QED BY <1>1, <1>2, ScaleAssumption DEF Ticks

(* A feed found to be fresh is behind its retrieval by less than the       *)
(* threshold and one more second.                                          *)
LEMMA NotOfThePast ==
  ASSUME NEW header \in Moments, NEW retrieved_at \in Moments,
         FeedFreshness(header, retrieved_at) = "fresh"
  PROVE  retrieved_at < header + Ticks(StaleAfter + 1)
  <1> DEFINE age == retrieved_at - header
  <1>1. age \in Int /\ retrieved_at = header + age
    BY ScaleAssumption DEF Moments
  <1>2. ~ (Truncated(age) > StaleAfter)
    BY DEF FeedFreshness
  <1>3. Ticks(StaleAfter + 1) \in Nat /\ Ticks(StaleAfter + 1) > 0
    BY ScaleAssumption DEF Ticks
  <1>4. CASE age < 0
    BY <1>1, <1>3, <1>4, ScaleAssumption DEF Moments
  <1>5. CASE age >= 0
    <2> DEFINE q == age \div TicksPerSecond
    <2>1. q \in Nat /\ age < (q + 1) * TicksPerSecond
      BY <1>1, <1>5, ScaleAssumption
    <2>2. q <= StaleAfter
      BY <1>2, <1>5, <2>1, ScaleAssumption DEF Truncated
    <2>3. (q + 1) * TicksPerSecond <= (StaleAfter + 1) * TicksPerSecond
      BY <2>1, <2>2, ScaleAssumption
    <2>4. age < Ticks(StaleAfter + 1)
      BY <1>1, <2>1, <2>3, ScaleAssumption DEF Ticks
    <2> QED BY <1>1, <1>3, <2>4, ScaleAssumption DEF Moments
  <1> QED BY <1>1, <1>4, <1>5

LEMMA NotOfTheFuture ==
  ASSUME NEW header \in Moments, NEW retrieved_at \in Moments,
         FeedFreshness(header, retrieved_at) # "unknown"
  PROVE  header < retrieved_at + Ticks(FutureTolerance + 1)
  <1> DEFINE age == retrieved_at - header
  <1>1. age \in Int /\ header = retrieved_at - age
    BY ScaleAssumption DEF Moments
  <1>2. ~ (Truncated(age) < -FutureTolerance)
    BY DEF FeedFreshness
  <1>3. Ticks(FutureTolerance + 1) \in Nat /\ Ticks(FutureTolerance + 1) > 0
    BY ScaleAssumption DEF Ticks
  <1>4. CASE age >= 0
    BY <1>1, <1>3, <1>4, ScaleAssumption DEF Moments
  <1>5. CASE age < 0
    <2>1. -age \in Nat
      BY <1>1, <1>5
    <2>2. (-age) \div TicksPerSecond <= FutureTolerance
      BY <1>1, <1>2, <1>5, <2>1, ScaleAssumption DEF Truncated
    <2>3. -age < Ticks(FutureTolerance + 1)
      BY <2>1, <2>2, Cutoff
    <2> QED BY <1>1, <1>3, <2>3, ScaleAssumption DEF Moments
  <1> QED BY <1>1, <1>4, <1>5

(* What an observation held says of its feed and of the state, when the    *)
(* state has the status freshness for the source and now is the present.   *)
OriginOf(o, freshness, now) ==
  /\ freshness = o.freshness
  /\ o.quality = "warning" => o.freshness = "stale"
  /\ o.freshness = "stale" /\ o.key \notin Cancellations => o.quality = "warning"
  /\ o.freshness # "unknown" =>
        o.observed_at < o.retrieved_at + Ticks(FutureTolerance + 1)
  /\ o.freshness = "fresh" => o.retrieved_at < o.observed_at + Ticks(StaleAfter + 1)
  /\ o.retrieved_at <= now

HeldFeedOrigin ==
  \A i \in DOMAIN transit_observations :
     OriginOf(transit_observations[i], source_status[Realtime], clock)

LEMMA ParsedFeedOrigin ==
  ASSUME NEW header \in WholeSeconds \cup {NoTime}, NEW updates \in Feeds,
         NEW retrieved_at \in Moments,
         NEW i \in DOMAIN ParsedFeed(header, updates, retrieved_at)
  PROVE  OriginOf(ParsedFeed(header, updates, retrieved_at)[i],
                  FeedFreshness(header, retrieved_at), retrieved_at)
  <1> DEFINE o == ParsedFeed(header, updates, retrieved_at)[i]
             freshness == FeedFreshness(header, retrieved_at)
  <1>1. /\ o.key = updates[i].key
        /\ o.observed_at = IF header = NoTime THEN retrieved_at ELSE header
        /\ o.retrieved_at = retrieved_at
        /\ o.freshness = freshness
        /\ o.quality = IF freshness = "stale" /\ updates[i].of = "stop"
                       THEN "warning" ELSE "info"
    BY DEF ParsedFeed
  <1>2. header = NoTime => freshness = "unknown"
    BY DEF FeedFreshness
  <1>3. header # NoTime /\ freshness # "unknown" =>
          header < retrieved_at + Ticks(FutureTolerance + 1)
    BY NotOfTheFuture DEF WholeSeconds
  <1>8. header # NoTime /\ freshness = "fresh" => retrieved_at < header + Ticks(StaleAfter + 1)
    BY NotOfThePast DEF WholeSeconds
  <1> HIDE DEF freshness
  <1>4. o.freshness # "unknown" => o.observed_at < o.retrieved_at + Ticks(FutureTolerance + 1)
    BY <1>1, <1>2, <1>3
  <1>9. o.freshness = "fresh" => o.retrieved_at < o.observed_at + Ticks(StaleAfter + 1)
    BY <1>1, <1>2, <1>8
  <1>5. updates \in Seq(Update) /\ i \in DOMAIN updates
    BY InputsAssumption DEF ParsedFeed
  <1>6. updates[i].of = "stop" \/ updates[i].key \in Cancellations
    BY <1>5 DEF Update
  <1>7. /\ o.quality = "warning" => o.freshness = "stale"
        /\ o.freshness = "stale" /\ o.key \notin Cancellations => o.quality = "warning"
    BY <1>1, <1>6
  <1>10. o.freshness = freshness /\ o.retrieved_at <= retrieved_at
    BY <1>1, ScaleAssumption DEF Moments
  <1> HIDE DEF o
  <1>11. OriginOf(o, freshness, retrieved_at)
    BY <1>4, <1>7, <1>9, <1>10 DEF OriginOf
  <1> QED BY <1>11 DEF freshness, o

LEMMA OriginInvariant == Spec => []HeldFeedOrigin
  <1>1. Init => HeldFeedOrigin
    BY DEF Init, HeldFeedOrigin
  <1>2. TypeOK /\ HeldFeedOrigin /\ [Next]_vars => HeldFeedOrigin'
    <2> SUFFICES ASSUME TypeOK, HeldFeedOrigin, [Next]_vars PROVE HeldFeedOrigin'
      OBVIOUS
    <2>1. ASSUME NEW header \in WholeSeconds \cup {NoTime}, NEW updates \in Feeds,
                 RefreshRealtime(header, updates)
          PROVE  HeldFeedOrigin'
      <3>1. source_status'[Realtime] = FeedFreshness(header, clock)
        BY <2>1 DEF RefreshRealtime, TypeOK, Sources
      <3>2. transit_observations' = ParsedFeed(header, updates, clock)
        BY <2>1 DEF RefreshRealtime
      <3>3. clock \in Moments /\ clock' = clock
        BY <2>1 DEF RefreshRealtime, TypeOK
      <3> QED BY <3>1, <3>2, <3>3, ParsedFeedOrigin DEF HeldFeedOrigin
    <2>2. ASSUME UNCHANGED transit_observations, clock' = clock \/ clock' = clock + 1,
                 source_status'[Realtime] = source_status[Realtime]
          PROVE  HeldFeedOrigin'
      <3>1. transit_observations \in Seq(TransitObservation) /\ clock \in Nat
        BY ScaleAssumption DEF TypeOK, Moments
      <3>2. \A i \in DOMAIN transit_observations : transit_observations[i].retrieved_at \in Nat
        <4>1. \A o \in TransitObservation : o.retrieved_at \in Nat
          BY ScaleAssumption DEF TransitObservation, Moments
        <4> QED BY <3>1, <4>1, ElementsOfSequence
      <3>3. ASSUME NEW i \in DOMAIN transit_observations
            PROVE  OriginOf(transit_observations[i], source_status[Realtime], clock')
        <4>1. OriginOf(transit_observations[i], source_status[Realtime], clock)
          BY DEF HeldFeedOrigin
        <4>2. transit_observations[i].retrieved_at <= clock'
          BY <2>2, <3>1, <3>2, <4>1 DEF OriginOf
        <4> QED BY <4>1, <4>2 DEF OriginOf
      <3> QED BY <2>2, <3>3 DEF HeldFeedOrigin
    <2>3. CASE Tick \/ UNCHANGED vars
      BY <2>2, <2>3 DEF Tick, vars
    <2>4. ASSUME NEW observations \in Archives, LoadArchive(observations)
          PROVE  HeldFeedOrigin'
      BY <2>2, <2>4 DEF LoadArchive, TypeOK, Realtime, TrafficArchive
    <2>5. ASSUME NEW features \in DisruptionLists, RefreshDisruptions(features)
          PROVE  HeldFeedOrigin'
      <3>1. UNCHANGED <<transit_observations, clock>> /\ Realtime # RoadDisruptions
        BY <2>5 DEF RefreshDisruptions, RefreshFails, Realtime, RoadDisruptions
      <3>2. source_status'[Realtime] = source_status[Realtime]
        <4>1. CASE Raises(zone, features, FALSE)
          BY <2>5, <4>1 DEF RefreshDisruptions, RefreshFails
        <4>2. CASE ~Raises(zone, features, FALSE)
          <5>1. source_status' = [source_status EXCEPT ![RoadDisruptions] = "unknown"]
            BY <2>5, <4>2 DEF RefreshDisruptions
          <5> QED BY <3>1, <5>1 DEF TypeOK, Sources
        <4> QED BY <4>1, <4>2
      <3> QED BY <2>2, <3>1, <3>2
    <2>6. ASSUME NEW s \in {Realtime, RoadDisruptions}, RefreshFails(s)
          PROVE  HeldFeedOrigin'
      BY <2>2, <2>6 DEF RefreshFails
    <2> QED BY <2>1, <2>3, <2>4, <2>5, <2>6 DEF Next
  <1> QED BY <1>1, <1>2, TypeCorrect, PTL DEF Spec

(* The status reported for the realtime source is that of the feed whose   *)
(* observations are held.                                                  *)
THEOREM StatusCorrect == Spec => []StatusIsOfTheFeedHeld
  <1>1. HeldFeedOrigin => StatusIsOfTheFeedHeld
    BY DEF HeldFeedOrigin, OriginOf, StatusIsOfTheFeedHeld
  <1> QED BY <1>1, OriginInvariant, PTL

(* Whatever the scales and tolerances, a feed whose observations are still *)
(* hidden after the tolerance is known to be of unknown freshness.         *)
THEOREM HiddenCorrect == Spec => []HiddenFeedIsUnknown
  <1>1. HeldFeedOrigin => HiddenFeedIsUnknown
    BY DEF HeldFeedOrigin, OriginOf, HiddenFeedIsUnknown
  <1> QED BY <1>1, OriginInvariant, PTL

(* A feed reported fresh was: whatever fails afterwards, its observations  *)
(* were, when it was retrieved, no older than the threshold and no further *)
(* ahead than the tolerance, up to the second int() cuts off.  What is     *)
(* shown as fresh and is not (StaleIsVisible) has aged in the state since. *)
THEOREM FreshWhenRetrieved ==
  Spec => [](source_status[Realtime] = "fresh" =>
               \A o \in TransitAt(clock) :
                  /\ o.retrieved_at <= clock
                  /\ o.retrieved_at < o.observed_at + Ticks(StaleAfter + 1)
                  /\ o.observed_at < o.retrieved_at + Ticks(FutureTolerance + 1))
  <1>1. HeldFeedOrigin => (source_status[Realtime] = "fresh" =>
               \A o \in TransitAt(clock) :
                  /\ o.retrieved_at <= clock
                  /\ o.retrieved_at < o.observed_at + Ticks(StaleAfter + 1)
                  /\ o.observed_at < o.retrieved_at + Ticks(FutureTolerance + 1))
    BY DEF HeldFeedOrigin, OriginOf, TransitAt, Latest
  <1> QED BY <1>1, OriginInvariant, PTL

-----------------------------------------------------------------------------
(* Disruptions *)

(* The disruptions held are those of the last document read to its end.    *)
HeldDocument ==
  /\ disruptions = ParsedDisruptions(zone, document)
  /\ zone \in Zone /\ IsFiniteSet(document)
  /\ \A feature \in document :
       /\ feature \in Feature
       /\ \A written \in {feature.from, feature.to} \ {NoTime} :
            SourceLocal(zone, written) \in Nat

(* The road sources have no other status than unknown. *)
RoadStatus ==
  /\ disruptions # {} => source_status[RoadDisruptions] = "unknown"
  /\ traffic_observations # <<>> => source_status[TrafficArchive] = "unknown"

LEMMA DocumentInvariant == Spec => [](HeldDocument /\ RoadStatus)
  <1>1. Init => HeldDocument /\ RoadStatus
    BY InputsAssumption, FS_EmptySet DEF Init, HeldDocument, RoadStatus, ParsedDisruptions
  <1>2. TypeOK /\ HeldDocument /\ RoadStatus /\ [Next]_vars => HeldDocument' /\ RoadStatus'
    <2> SUFFICES ASSUME TypeOK, HeldDocument, RoadStatus, [Next]_vars
                 PROVE  HeldDocument' /\ RoadStatus'
      OBVIOUS
    <2>1. Realtime # RoadDisruptions /\ Realtime # TrafficArchive
          /\ RoadDisruptions # TrafficArchive
          /\ {Realtime, RoadDisruptions, TrafficArchive} \subseteq Sources
      BY DEF Realtime, RoadDisruptions, TrafficArchive, Sources
    <2>2. ASSUME UNCHANGED <<zone, disruptions, document, traffic_observations>>,
                 source_status'[RoadDisruptions] = source_status[RoadDisruptions],
                 source_status'[TrafficArchive] = source_status[TrafficArchive]
          PROVE  HeldDocument' /\ RoadStatus'
      BY <2>2 DEF HeldDocument, RoadStatus
    <2>3. CASE Tick \/ UNCHANGED vars
      BY <2>2, <2>3 DEF Tick, vars
    <2>4. ASSUME NEW header \in WholeSeconds \cup {NoTime}, NEW updates \in Feeds,
                 RefreshRealtime(header, updates)
          PROVE  HeldDocument' /\ RoadStatus'
      BY <2>1, <2>2, <2>4 DEF RefreshRealtime, TypeOK
    <2>5. ASSUME NEW observations \in Archives, LoadArchive(observations)
          PROVE  HeldDocument' /\ RoadStatus'
      <3>1. HeldDocument'
        BY <2>5 DEF LoadArchive, HeldDocument
      <3>2. RoadStatus'
        BY <2>1, <2>5 DEF LoadArchive, RoadStatus, TypeOK
      <3> QED BY <3>1, <3>2
    <2>6. ASSUME NEW s \in {Realtime, RoadDisruptions}, RefreshFails(s)
          PROVE  HeldDocument' /\ RoadStatus'
      BY <2>2, <2>6 DEF RefreshFails
    <2>7. ASSUME NEW features \in DisruptionLists, RefreshDisruptions(features)
          PROVE  HeldDocument' /\ RoadStatus'
      <3>1. CASE Raises(zone, features, FALSE)
        BY <2>6, <2>7, <3>1 DEF RefreshDisruptions
      <3>2. CASE ~Raises(zone, features, FALSE)
        <4>1. /\ disruptions' = ParsedDisruptions(zone, features) /\ document' = features
              /\ source_status' = [source_status EXCEPT ![RoadDisruptions] = "unknown"]
              /\ UNCHANGED <<zone, traffic_observations>>
          BY <2>7, <3>2 DEF RefreshDisruptions
        <4>2. RoadStatus'
          BY <2>1, <4>1 DEF RoadStatus, TypeOK
        <4>3. HeldDocument'
          BY <4>1, InputsAssumption DEF HeldDocument, TypeOK
        <4> QED BY <4>2, <4>3
      <3> QED BY <3>1, <3>2
    <2> QED BY <2>3, <2>4, <2>5, <2>6, <2>7 DEF Next
  <1> QED BY <1>1, <1>2, TypeCorrect, PTL DEF Spec

(* What a written bound is converted to, around any transition. *)
LEMMA SourceLocalReads ==
  ASSUME NEW z \in Zone, NEW written \in Nat
  PROVE  LET t == SourceLocal(z, written) IN
         /\ t \in Int
         /\ IF Readings(z, written) # {}
            THEN t \in Readings(z, written) /\ \A u \in Readings(z, written) : t <= u
            ELSE LocalAt(z, t) = written + z.after - z.before
  <1>1. z.transition \in Int /\ z.before \in Int /\ z.after \in Int /\ written # NoTime
    BY DEF Zone, NoTime
  <1> DEFINE t == SourceLocal(z, written)
  <1>2. t = written - UtcOffset(z, written, 0)
    BY <1>1 DEF SourceLocal
  <1>3. UtcOffset(z, written, 0) =
          IF written < z.transition + (IF z.before > z.after THEN z.before ELSE z.after)
          THEN z.before ELSE z.after
    BY DEF UtcOffset
  <1>4. t \in Int
    BY <1>1, <1>2, <1>3
  <1>5. \A u : u \in Readings(z, written) <=>
          \/ u = written - z.before /\ u < z.transition
          \/ u = written - z.after /\ ~(u < z.transition)
          \/ u = written - z.after /\ u < z.transition /\ z.before = z.after
          \/ u = written - z.before /\ ~(u < z.transition) /\ z.before = z.after
    BY <1>1 DEF Readings, LocalAt
  <1>6. CASE z.before > z.after
    <2>1. CASE written < z.transition + z.before
      <3>1. t = written - z.before /\ t < z.transition
        BY <1>1, <1>2, <1>3, <1>6, <2>1
      <3> QED BY <1>1, <1>4, <1>5, <1>6, <3>1
    <2>2. CASE ~(written < z.transition + z.before)
      <3>1. t = written - z.after /\ ~(t < z.transition)
        BY <1>1, <1>2, <1>3, <1>6, <2>2
      <3> QED BY <1>1, <1>4, <1>5, <1>6, <2>2, <3>1
    <2> QED BY <2>1, <2>2
  <1>7. CASE ~(z.before > z.after)
    <2>1. CASE written < z.transition + z.after
      <3>1. t = written - z.before
        BY <1>1, <1>2, <1>3, <1>7, <2>1
      <3>2. CASE written < z.transition + z.before
        BY <1>1, <1>4, <1>5, <1>7, <2>1, <3>1, <3>2
      <3>3. CASE ~(written < z.transition + z.before)
        <4>1. CASE z.before = z.after
          BY <1>1, <2>1, <3>3, <4>1
        <4>2. CASE z.before # z.after
          <5>1. Readings(z, written) = {}
            BY <1>1, <1>5, <1>7, <2>1, <3>3, <4>2
          <5>2. LocalAt(z, t) = written + z.after - z.before
            BY <1>1, <3>1, <3>3 DEF LocalAt
          <5> QED BY <1>4, <5>1, <5>2
        <4> QED BY <4>1, <4>2
      <3> QED BY <3>2, <3>3
    <2>2. CASE ~(written < z.transition + z.after)
      <3>1. t = written - z.after /\ ~(t < z.transition)
        BY <1>1, <1>2, <1>3, <1>7, <2>2
      <3> QED BY <1>1, <1>4, <1>5, <1>7, <2>2, <3>1
    <2> QED BY <2>1, <2>2
  <1> QED BY <1>6, <1>7

(* Around any transition of any zone: the bounds held are those written,   *)
(* read at their first occurrence.                                         *)
THEOREM BoundsCorrect == Spec => []HeldBoundsAreRead
  <1>1. HeldDocument => HeldBoundsAreRead
    <2> SUFFICES ASSUME HeldDocument, NEW feature \in document, ~Rejected(zone, feature)
                 PROVE  LET d == ParsedFeature(zone, feature) IN
                        /\ d.observation_at = feature.stored
                        /\ BoundRead(d.valid_from, feature.from)
                        /\ BoundRead(d.valid_until, feature.to)
      BY DEF HeldDocument, HeldBoundsAreRead, ParsedDisruptions
    <2>1. zone \in Zone /\ feature \in Feature
      BY DEF HeldDocument
    <2>2. ASSUME NEW written \in Nat \cup {NoTime}
          PROVE  BoundRead(SourceLocal(zone, written), written)
      <3>1. CASE written = NoTime
        BY <3>1 DEF BoundRead, SourceLocal
      <3>2. CASE written \in Nat
        <4>1. written # NoTime
          BY <3>2 DEF NoTime
        <4> QED BY <2>1, <3>2, <4>1, SourceLocalReads DEF BoundRead
      <3> QED BY <3>1, <3>2
    <2> QED BY <2>1, <2>2 DEF ParsedFeature, Feature
  <1> QED BY <1>1, DocumentInvariant, PTL

(* Around any transition of any zone: a sound feature is lost only if its  *)
(* start does not occur or its end is written before it.                   *)
THEOREM IntervalsCorrect == Spec => []OrderedIntervalsSurvive
  <1>1. HeldDocument => OrderedIntervalsSurvive
    <2> SUFFICES ASSUME HeldDocument, NEW feature \in document, feature.shape = "sound",
                        NoTime \notin {feature.from, feature.to} =>
                          feature.from <= feature.to /\ Readings(zone, feature.from) # {}
                 PROVE  ParsedFeature(zone, feature) \in disruptions
      BY DEF OrderedIntervalsSurvive
    <2>1. zone \in Zone /\ feature \in Feature
      BY DEF HeldDocument
    <2>2. ~Rejected(zone, feature)
      <3>1. CASE NoTime \in {feature.from, feature.to}
        BY <3>1 DEF Rejected
      <3>2. CASE NoTime \notin {feature.from, feature.to}
        <4> DEFINE from == feature.from
                   to == feature.to
        <4>1. from \in Nat /\ to \in Nat /\ from <= to /\ Readings(zone, from) # {}
          BY <2>1, <3>2 DEF Feature
        <4>2. SourceLocal(zone, from) \in Readings(zone, from) /\ SourceLocal(zone, from) \in Int
          BY <2>1, <4>1, SourceLocalReads
        <4>3. /\ zone.transition \in Int /\ zone.before \in Int /\ zone.after \in Int
              /\ SourceLocal(zone, from) = from - UtcOffset(zone, from, 0)
              /\ SourceLocal(zone, to) = to - UtcOffset(zone, to, 0)
          BY <2>1, <3>2 DEF Zone, SourceLocal
        <4>4. /\ UtcOffset(zone, from, 0) \in {zone.before, zone.after}
              /\ UtcOffset(zone, to, 0) \in {zone.before, zone.after}
          BY DEF UtcOffset
        <4>5. ~(SourceLocal(zone, to) < SourceLocal(zone, from))
          <5>1. CASE UtcOffset(zone, from, 0) = UtcOffset(zone, to, 0)
            BY <4>1, <4>3, <4>4, <5>1
          <5>2. CASE UtcOffset(zone, from, 0) # UtcOffset(zone, to, 0)
            <6>1. UtcOffset(zone, from, 0) = zone.before /\ UtcOffset(zone, to, 0) = zone.after
                  /\ zone.before # zone.after
              BY <4>1, <4>3, <5>2 DEF UtcOffset
            <6>2. to >= zone.transition + (IF zone.before > zone.after THEN zone.before
                                           ELSE zone.after)
              BY <4>1, <4>3, <6>1 DEF UtcOffset
            <6>3. SourceLocal(zone, from) = from - zone.before
              BY <4>3, <6>1
            <6>4. from - zone.before < zone.transition
              BY <4>1, <4>2, <4>3, <6>1, <6>3 DEF Readings, LocalAt
            <6>5. to - zone.after >= zone.transition
              BY <4>1, <4>3, <6>2
            <6> QED BY <4>1, <4>3, <6>1, <6>4, <6>5
          <5> QED BY <5>1, <5>2
        <4> QED BY <4>5 DEF Rejected
      <3> QED BY <3>1, <3>2
    <2> QED BY <2>2 DEF HeldDocument, ParsedDisruptions
  <1> QED BY <1>1, DocumentInvariant, PTL

(* Without a fold local_to_utc returns the reading of a local time that    *)
(* has one alone, and nothing for every other.                             *)
LEMMA WithoutFold ==
  ASSUME NEW z \in Zone, NEW naive \in Int, NEW t
  PROVE  t \in LocalToUtc(z, naive, NoFold) <=> Readings(z, naive) = {t}
  <1>1. z.transition \in Int /\ z.before \in Int /\ z.after \in Int
    BY DEF Zone
  <1>2. \A u \in Candidate(z, naive, 0) \cup Candidate(z, naive, 1) : u \in Readings(z, naive)
    BY <1>1 DEF Candidate, Readings, UtcOffset
  <1>3. \A u \in Readings(z, naive) : u \in Candidate(z, naive, 0) \cup Candidate(z, naive, 1)
    BY <1>1 DEF Candidate, Readings, UtcOffset, LocalAt, FoldAt
  <1>4. Candidate(z, naive, 0) \cup Candidate(z, naive, 1) = Readings(z, naive)
    BY <1>2, <1>3
  <1> QED BY <1>4 DEF LocalToUtc

(* Where the disruption parser resolves a bound silently, around any       *)
(* transition: a document has none exactly when every bound it has is a    *)
(* local time that occurs once.                                            *)
SilentFoldsAreTheUnclear ==
  NoSilentFold <=>
    \A feature \in document : ~Rejected(zone, feature) =>
       \A written \in {feature.from, feature.to} \ {NoTime} :
          \E t : Readings(zone, written) = {t}

(* The documents that violate NoSilentFold are these and no others.        *)
THEOREM SilentFoldsDelimited == Spec => []SilentFoldsAreTheUnclear
  <1>1. HeldDocument => SilentFoldsAreTheUnclear
    <2> SUFFICES ASSUME HeldDocument, NEW feature \in document,
                        NEW written \in {feature.from, feature.to} \ {NoTime}
                 PROVE  SourceLocal(zone, written) \in LocalToUtc(zone, written, NoFold) <=>
                          \E t : Readings(zone, written) = {t}
      BY DEF SilentFoldsAreTheUnclear, NoSilentFold
    <2>1. zone \in Zone /\ written \in Nat /\ written \in Int
      BY DEF HeldDocument, Feature
    <2>2. Readings(zone, written) # {} => SourceLocal(zone, written) \in Readings(zone, written)
      BY <2>1, SourceLocalReads
    <2>3. SourceLocal(zone, written) \in LocalToUtc(zone, written, NoFold) <=>
            Readings(zone, written) = {SourceLocal(zone, written)}
      BY <2>1, WithoutFold
    <2> QED BY <2>2, <2>3
  <1> QED BY <1>1, DocumentInvariant, PTL

-----------------------------------------------------------------------------
(* Source by source *)

(* What the state holds of a source: its records and the freshness they    *)
(* came with.  The schedule and the detector locations are not modelled.   *)
Records(s) ==
  CASE s = Realtime        -> transit_observations
    [] s = TrafficArchive  -> traffic_observations
    [] s = RoadDisruptions -> disruptions
    [] OTHER               -> {}

Held ==
  [s \in Sources |->
     IF source_status[s] = Absent THEN <<Absent, {}>> ELSE <<source_status[s], Records(s)>>]

Datasets ==
  FreshnessStatus \X
    (Seq(TransitObservation) \cup Seq(TrafficObservation) \cup SUBSET Disruption)

Ledger == INSTANCE SourceLedger WITH
            held <- Held, failing <- source_errors,
            Payloads <- Datasets, NoData <- <<Absent, {}>>
LedgerSpec == Ledger!Spec

LEMMA SameSources == Ledger!Sources = Sources
  BY DEF Ledger!Sources, Ledger!Static, Ledger!Realtime, Ledger!DetectorLocations,
         Ledger!TrafficArchive, Ledger!RoadDisruptions, Sources, Static, Realtime,
         DetectorLocations, TrafficArchive, RoadDisruptions

(* What a refresh brings is the records of one source with their status;   *)
(* without a status there are no records to lose.                          *)
LEMMA LoadStep ==
  ASSUME NEW s \in {Realtime, TrafficArchive, RoadDisruptions},
         NEW status \in FreshnessStatus, TypeOK,
         NEW records \in Seq(TransitObservation) \cup Seq(TrafficObservation)
                           \cup SUBSET Disruption,
         source_status' = [source_status EXCEPT ![s] = status],
         source_errors' = source_errors \ {s},
         transit_observations' = IF s = Realtime THEN records ELSE transit_observations,
         traffic_observations' = IF s = TrafficArchive THEN records ELSE traffic_observations,
         disruptions' = IF s = RoadDisruptions THEN records ELSE disruptions
  PROVE  Ledger!Next
  <1>1. Realtime # RoadDisruptions /\ Realtime # TrafficArchive
        /\ RoadDisruptions # TrafficArchive /\ s \in Sources
    BY DEF Realtime, RoadDisruptions, TrafficArchive, Sources
  <1>2. status # Absent
    BY DEF FreshnessStatus, Absent
  <1>3. Held' = [Held EXCEPT ![s] = <<status, records>>]
    <2>1. ASSUME NEW r \in Sources, r # s
          PROVE  Held'[r] = Held[r]
      <3>1. Records(r)' = Records(r)
        BY <2>1, <1>1 DEF Records
      <3>2. source_status'[r] = source_status[r]
        BY <2>1, <1>1 DEF TypeOK
      <3> QED BY <3>1, <3>2 DEF Held
    <2>2. Held'[s] = <<status, records>>
      <3>1. Records(s)' = records
        BY <1>1 DEF Records
      <3>2. source_status'[s] = status
        BY <1>1 DEF TypeOK
      <3> QED BY <1>1, <1>2, <3>1, <3>2 DEF Held
    <2>3. Held = [r \in Sources |-> Held[r]] /\ Held' = [r \in Sources |-> Held'[r]]
      BY DEF Held
    <2> QED BY <2>1, <2>2, <2>3
  <1>4. <<status, records>> \in Datasets
    BY DEF Datasets
  <1>5. Ledger!Load(s, <<status, records>>)
    BY <1>3 DEF Ledger!Load
  <1> QED BY <1>1, <1>4, <1>5, SameSources DEF Ledger!Next

LEMMA FailureStep ==
  ASSUME NEW s \in {Realtime, RoadDisruptions}, RefreshFails(s)
  PROVE  Ledger!Next
  <1>1. s \in Sources
    BY DEF Sources
  <1>2. Held' = Held
    BY DEF RefreshFails, Held, Records
  <1>3. Ledger!RecordFailure(s)
    BY <1>2 DEF RefreshFails, Ledger!RecordFailure
  <1> QED BY <1>1, <1>3, SameSources DEF Ledger!Next

(* The state in time keeps the ledger as well: the records of a source and *)
(* the freshness reported for it are replaced together, by that source's   *)
(* load alone; time passing, a failure or a rejected document leaves both. *)
THEOREM ImplementsLedger == Spec => LedgerSpec
  <1>1. Init => Ledger!Init
    BY SameSources DEF Init, Ledger!Init, Held
  <1>2. TypeOK /\ [Next]_vars => [Ledger!Next]_Ledger!vars
    <2> SUFFICES ASSUME TypeOK, [Next]_vars PROVE [Ledger!Next]_Ledger!vars
      OBVIOUS
    <2>1. CASE Tick \/ UNCHANGED vars
      <3>1. UNCHANGED <<transit_observations, traffic_observations, disruptions, source_status,
                        source_errors>>
        BY <2>1 DEF Tick, vars
      <3> QED BY <3>1 DEF Held, Records, Ledger!vars
    <2>2. ASSUME NEW header \in WholeSeconds \cup {NoTime}, NEW updates \in Feeds,
                 RefreshRealtime(header, updates)
          PROVE  Ledger!Next
      <3>1. /\ ParsedFeed(header, updates, clock) \in Seq(TransitObservation)
            /\ FeedFreshness(header, clock) \in FreshnessStatus
        BY ParsedFeedType, FreshnessType DEF TypeOK
      <3> QED BY <2>2, <3>1, LoadStep
              DEF RefreshRealtime, Realtime, RoadDisruptions, TrafficArchive
    <2>3. ASSUME NEW observations \in Archives, LoadArchive(observations)
          PROVE  Ledger!Next
      <3>1. observations \in Seq(TrafficObservation) /\ "unknown" \in FreshnessStatus
        BY InputsAssumption DEF FreshnessStatus
      <3> QED BY <2>3, <3>1, LoadStep
              DEF LoadArchive, Realtime, RoadDisruptions, TrafficArchive
    <2>4. ASSUME NEW features \in DisruptionLists, RefreshDisruptions(features)
          PROVE  Ledger!Next
      <3>1. CASE Raises(zone, features, FALSE)
        BY <2>4, <3>1, FailureStep DEF RefreshDisruptions
      <3>2. CASE ~Raises(zone, features, FALSE)
        <4>1. ParsedDisruptions(zone, features) \in SUBSET Disruption
              /\ "unknown" \in FreshnessStatus
          BY ParsedDisruptionsType DEF TypeOK, FreshnessStatus
        <4> QED BY <2>4, <3>2, <4>1, LoadStep
                DEF RefreshDisruptions, Realtime, RoadDisruptions, TrafficArchive
      <3> QED BY <3>1, <3>2
    <2>5. ASSUME NEW s \in {Realtime, RoadDisruptions}, RefreshFails(s)
          PROVE  Ledger!Next
      BY <2>5, FailureStep
    <2> QED BY <2>1, <2>2, <2>3, <2>4, <2>5 DEF Next
  <1> QED BY <1>1, <1>2, TypeCorrect, PTL DEF Spec, LedgerSpec, Ledger!Spec

-----------------------------------------------------------------------------
(* What is made of a snapshot *)

(* Whatever was refreshed, failed or replaced: exported records carry the  *)
(* status of their source.                                                 *)
THEOREM ExportCorrect == Spec => []ExportedFreshnessIsTheStatus
  <1>1. HeldFeedOrigin /\ RoadStatus => ExportedFreshnessIsTheStatus
    <2> SUFFICES ASSUME HeldFeedOrigin, RoadStatus, NEW t \in Moments,
                        NEW record \in ExportMobilitySnapshot(t)
                 PROVE  record.freshness = source_status[record.source]
      BY DEF ExportedFreshnessIsTheStatus
    <2>1. ASSUME NEW o \in TransitAt(t)
          PROVE  o.freshness = source_status[Realtime]
      BY <2>1 DEF TransitAt, Latest, HeldFeedOrigin, OriginOf
    <2>2. ASSUME NEW o \in TrafficAt(t)
          PROVE  source_status[TrafficArchive] = "unknown"
      BY <2>2 DEF TrafficAt, Latest, RoadStatus
    <2>3. ASSUME NEW d \in DisruptionsAt(t)
          PROVE  source_status[RoadDisruptions] = "unknown"
      BY <2>3 DEF DisruptionsAt, RoadStatus
    <2> QED BY <2>1, <2>2, <2>3 DEF ExportMobilitySnapshot
  <1> QED BY <1>1, OriginInvariant, DocumentInvariant, PTL

LEMMA LatestFinite ==
  ASSUME NEW observations, Len(observations) \in Nat,
         DOMAIN observations = 1..Len(observations), NEW t
  PROVE  IsFiniteSet(Latest(observations, t))
  <1> DEFINE chosen == {i \in DOMAIN observations :
                          IsLatest(observations, Len(observations), t, observations[i].key, i)}
  <1>1. IsFiniteSet(DOMAIN observations)
    BY FS_Interval
  <1>2. IsFiniteSet(chosen)
    BY <1>1, FS_Subset
  <1> HIDE DEF chosen
  <1> DEFINE pick == [i \in chosen |-> observations[i]]
  <1>3. pick \in Surjection(chosen, {observations[i] : i \in chosen})
    BY DEF Surjection
  <1>4. IsFiniteSet({observations[i] : i \in chosen})
    BY <1>2, <1>3, FS_Surjection
  <1> QED BY <1>4 DEF Latest, chosen

LEMMA NoneWarned ==
  ASSUME NEW items, IsFiniteSet(items)
  PROVE  LET warned == {item \in items : item.quality = "warning"} IN
         Cardinality(warned) \in Nat /\ (Cardinality(warned) = 0 => warned = {})
  <1> DEFINE warned == {item \in items : item.quality = "warning"}
  <1>1. IsFiniteSet(warned)
    BY FS_Subset
  <1> HIDE DEF warned
  <1>2. Cardinality(warned) \in Nat /\ (Cardinality(warned) = 0 => warned = {})
    BY <1>1, FS_CardinalityType, FS_EmptySet
  <1> QED BY <1>2 DEF warned

(* The counts of a summary tell of every open-ended disruption and of      *)
(* every stop shown from a stale feed, and count what is active.           *)
THEOREM SummaryCorrect == Spec => []QuietSummaryIsEarned
  <1>1. TypeOK /\ HeldFeedOrigin /\ HeldDocument => QuietSummaryIsEarned
    <2> SUFFICES ASSUME TypeOK, HeldFeedOrigin, HeldDocument, NEW t \in Moments
                 PROVE  LET summary == MobilityStateSummary(t) IN
                        /\ summary.quality_warning_observations = 0 =>
                             /\ source_status[Realtime] = "stale" =>
                                  \A o \in TransitAt(t) : o.key \in Cancellations
                             /\ \A d \in DisruptionsAt(t) :
                                  NoTime \notin {d.valid_from, d.valid_until}
                        /\ summary.active_disruptions = ActiveDisruptionCount(t)
      BY DEF QuietSummaryIsEarned
    <2> DEFINE warned(items) == {item \in items : item.quality = "warning"}
               summary == MobilityStateSummary(t)
    <2>1. IsFiniteSet(TransitAt(t)) /\ IsFiniteSet(TrafficAt(t))
      <3>1. /\ Len(transit_observations) \in Nat
            /\ DOMAIN transit_observations = 1..Len(transit_observations)
            /\ Len(traffic_observations) \in Nat
            /\ DOMAIN traffic_observations = 1..Len(traffic_observations)
        BY ElementsOfSequence DEF TypeOK
      <3> QED BY <3>1, LatestFinite DEF TransitAt, TrafficAt
    <2>2. IsFiniteSet(DisruptionsAt(t))
      <3> DEFINE read == {f \in document : ~Rejected(zone, f)}
      <3>1. IsFiniteSet(read)
        BY FS_Subset DEF HeldDocument
      <3> HIDE DEF read
      <3> DEFINE parsed == {ParsedFeature(zone, f) : f \in read}
                 parse == [f \in read |-> ParsedFeature(zone, f)]
      <3>2. parse \in Surjection(read, parsed)
        BY DEF Surjection
      <3>3. IsFiniteSet({ParsedFeature(zone, f) : f \in read})
        BY <3>1, <3>2, FS_Surjection
      <3> USE DEF read
      <3> QED BY <3>3, FS_Subset DEF HeldDocument, ParsedDisruptions, DisruptionsAt
    <2>3. summary.quality_warning_observations =
            Cardinality(warned(TransitAt(t))) + Cardinality(warned(TrafficAt(t)))
              + Cardinality(warned(DisruptionsAt(t)))
      BY DEF MobilityStateSummary
    <2>4. ASSUME summary.quality_warning_observations = 0
          PROVE  warned(TransitAt(t)) = {} /\ warned(DisruptionsAt(t)) = {}
      <3>1. /\ Cardinality(warned(TransitAt(t))) \in Nat
            /\ Cardinality(warned(TrafficAt(t))) \in Nat
            /\ Cardinality(warned(DisruptionsAt(t))) \in Nat
        BY <2>1, <2>2, NoneWarned
      <3>2. Cardinality(warned(TransitAt(t))) = 0 /\ Cardinality(warned(DisruptionsAt(t))) = 0
        BY <2>3, <2>4, <3>1
      <3> QED BY <2>1, <2>2, <3>2, NoneWarned
    <2>5. ASSUME NEW o \in TransitAt(t), o.key \notin Cancellations,
                 source_status[Realtime] = "stale"
          PROVE  o.quality = "warning"
      BY <2>5 DEF TransitAt, Latest, HeldFeedOrigin, OriginOf
    <2>6. ASSUME NEW d \in DisruptionsAt(t), NoTime \in {d.valid_from, d.valid_until}
          PROVE  d.quality = "warning"
      <3>1. PICK feature \in document : d = ParsedFeature(zone, feature)
        BY <2>6 DEF DisruptionsAt, HeldDocument, ParsedDisruptions
      <3>2. \A written \in {feature.from, feature.to} \ {NoTime} :
               SourceLocal(zone, written) # NoTime
        BY DEF HeldDocument, NoTime
      <3>3. /\ d.valid_from = SourceLocal(zone, feature.from)
            /\ d.valid_until = SourceLocal(zone, feature.to)
            /\ NoTime \in {feature.from, feature.to} => d.quality = "warning"
        BY <3>1 DEF ParsedFeature
      <3> QED BY <2>6, <3>2, <3>3
    <2>7. {d \in disruptions : IsActive(d, t)} = DisruptionsAt(t)
      <3>1. ASSUME NEW d \in disruptions PROVE IsActive(d, t) <=> Active(d, t)
        <4>1. d \in Disruption /\ t \in Int
          BY ScaleAssumption DEF TypeOK, Moments
        <4> QED BY <4>1 DEF IsActive, Active, Disruption, NoTime
      <3> QED BY <3>1 DEF DisruptionsAt
    <2>8. summary.active_disruptions = ActiveDisruptionCount(t)
      BY <2>7 DEF MobilityStateSummary, ActiveDisruptionCount
    <2> QED BY <2>4, <2>5, <2>6, <2>8
  <1> QED BY <1>1, TypeCorrect, OriginInvariant, DocumentInvariant, PTL

=============================================================================
