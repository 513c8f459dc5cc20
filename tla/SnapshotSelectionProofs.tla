----------------------- MODULE SnapshotSelectionProofs -----------------------
(***************************************************************************)
(* The selection loop computes the view of SnapshotView for every list of  *)
(* observations, every set of keys and every timestamp.                    *)
(***************************************************************************)
EXTENDS SnapshotSelection, TLAPS

(* Positions are positions of observations. *)
LEMMA ObservationType ==
  ASSUME TypeOK, NEW i \in 1..Len(observations)
  PROVE  /\ observations[i] \in Observations
         /\ observations[i].key \in Keys
         /\ observations[i].observed_at \in Int
  <1>1. observations[i] \in Observations
    BY DEF TypeOK
  <1> QED BY <1>1, TimesAssumption DEF Observations

LEMMA TypeOKInit == Init => TypeOK
  <1> SUFFICES ASSUME Init PROVE TypeOK
    OBVIOUS
  <1>1. PICK n \in 0..MaxLength : observations \in [1..n -> Observations]
    BY DEF Init
  <1>2. observations \in Seq(Observations)
    BY <1>1, LengthAssumption
  <1>3. index \in 1..(Len(observations) + 1)
    BY <1>2 DEF Init
  <1>4. latest \in [Keys -> 0..(index - 1)]
    BY DEF Init
  <1> QED BY <1>2, <1>3, <1>4 DEF Init, TypeOK

LEMMA TypeOKNext == TypeOK /\ [Next]_vars => TypeOK'
  <1> SUFFICES ASSUME TypeOK, [Next]_vars PROVE TypeOK'
    OBVIOUS
  <1>1. ASSUME index <= Len(observations), index' = index + 1,
               UNCHANGED <<observations, timestamp>>
        PROVE  /\ UNCHANGED latest => TypeOK'
               /\ latest' = [latest EXCEPT ![Observation.key] = index] => TypeOK'
    <2>1. index \in 1..Len(observations) /\ index' \in 1..(Len(observations) + 1)
      BY <1>1 DEF TypeOK
    <2>2. Observation.key \in Keys
      BY <2>1, ObservationType DEF Observation
    <2>3. 0..(index - 1) \subseteq 0..(index' - 1) /\ index \in 0..(index' - 1)
      BY <1>1, <2>1
    <2>4. ASSUME UNCHANGED latest
          PROVE  latest' \in [Keys -> 0..(index' - 1)]
      BY <2>3, <2>4 DEF TypeOK
    <2>5. ASSUME latest' = [latest EXCEPT ![Observation.key] = index]
          PROVE  latest' \in [Keys -> 0..(index' - 1)]
      BY <2>2, <2>3, <2>5 DEF TypeOK
    <2> QED BY <1>1, <2>1, <2>4, <2>5 DEF TypeOK
  <1>2. CASE UNCHANGED vars
    BY <1>2 DEF vars, TypeOK
  <1> QED BY <1>1, <1>2 DEF Next, Skip, Take

(* One more position: known observations of its own key gain it, if it is  *)
(* not after the timestamp; those of the other keys stay.                  *)
LEMMA KnownGrows ==
  ASSUME TypeOK, index <= Len(observations), NEW k \in Keys
  PROVE  Known(observations, index, timestamp, k) =
           IF Observation.key = k /\ Observation.observed_at <= timestamp
           THEN Known(observations, index - 1, timestamp, k) \cup {index}
           ELSE Known(observations, index - 1, timestamp, k)
  <1>1. 1..index = 1..(index - 1) \cup {index}
    BY DEF TypeOK
  <1> QED BY <1>1 DEF Known, Observation

(* The loop invariant is inductive. *)
LEMMA PrefixNext == TypeOK /\ LatestOfThePrefix /\ [Next]_vars => LatestOfThePrefix'
  <1> SUFFICES ASSUME TypeOK, LatestOfThePrefix, [Next]_vars
               PROVE  LatestOfThePrefix'
    OBVIOUS
  <1>1. CASE UNCHANGED vars
    BY <1>1 DEF vars, LatestOfThePrefix
  <1>2. ASSUME index <= Len(observations), index' = index + 1,
               UNCHANGED <<observations, timestamp>>,
               NEW k \in Keys
        PROVE  /\ ~Replaces(index) /\ UNCHANGED latest =>
                    IF Known(observations, index, timestamp, k) = {}
                    THEN latest'[k] = 0
                    ELSE IsLatest(observations, index, timestamp, k, latest'[k])
               /\ Replaces(index) /\ latest' = [latest EXCEPT ![Observation.key] = index] =>
                    IF Known(observations, index, timestamp, k) = {}
                    THEN latest'[k] = 0
                    ELSE IsLatest(observations, index, timestamp, k, latest'[k])
    <2> DEFINE before == Known(observations, index - 1, timestamp, k)
               after  == Known(observations, index, timestamp, k)
    <2>1. index \in 1..Len(observations) /\ Observation.key \in Keys
      BY <1>2, ObservationType DEF TypeOK, Observation
    <2>2. after = IF Observation.key = k /\ Observation.observed_at <= timestamp
                  THEN before \cup {index} ELSE before
      BY <1>2, KnownGrows
    <2>3. \A i \in before : i \in 1..(index - 1) /\ i \in 1..Len(observations)
                            /\ observations[i].observed_at \in Int
      BY <2>1, ObservationType DEF Known
    <2>4. Observation.observed_at \in Int /\ timestamp \in Int
      BY <2>1, ObservationType, TimesAssumption DEF Observation, TypeOK
    <2>5. IF before = {} THEN latest[k] = 0
          ELSE IsLatest(observations, index - 1, timestamp, k, latest[k])
      BY DEF LatestOfThePrefix
    <2>6. before # {} => latest[k] \in before /\ latest[k] # 0
      BY <2>3, <2>5 DEF IsLatest
    <2>7. latest \in [Keys -> 0..(index - 1)]
      BY DEF TypeOK
    <2>8. ASSUME ~Replaces(index), UNCHANGED latest
          PROVE  IF after = {} THEN latest'[k] = 0
                 ELSE IsLatest(observations, index, timestamp, k, latest'[k])
      <3>1. CASE after = before
        BY <2>5, <2>8, <3>1 DEF IsLatest
      <3>2. CASE after # before
        <4>1. Observation.key = k /\ Observation.observed_at <= timestamp
              /\ after = before \cup {index}
          BY <2>2, <3>2
        <4>2. latest[k] # 0 /\ ~(Observation.observed_at > observations[latest[k]].observed_at)
          BY <2>8, <4>1 DEF Replaces, Observation
        <4>3. before # {} /\ latest[k] \in before
          BY <2>5, <2>6, <4>2
        <4>4. \A j \in before : \/ observations[j].observed_at < observations[latest[k]].observed_at
                                \/ /\ observations[j].observed_at = observations[latest[k]].observed_at
                                   /\ latest[k] <= j
          BY <2>5, <4>3 DEF IsLatest
        <4>5. observations[index].observed_at <= observations[latest[k]].observed_at
              /\ latest[k] <= index
          BY <2>1, <2>3, <2>4, <4>2, <4>3 DEF Observation
        <4> QED BY <2>1, <2>3, <2>4, <2>8, <4>1, <4>3, <4>4, <4>5 DEF IsLatest, Observation
      <3> QED BY <3>1, <3>2
    <2>9. ASSUME Replaces(index), latest' = [latest EXCEPT ![Observation.key] = index]
          PROVE  IF after = {} THEN latest'[k] = 0
                 ELSE IsLatest(observations, index, timestamp, k, latest'[k])
      <3>1. CASE Observation.key # k
        <4>1. latest'[k] = latest[k] /\ after = before
          BY <2>1, <2>2, <2>7, <2>9, <3>1
        <4> QED BY <2>5, <4>1 DEF IsLatest
      <3>2. CASE Observation.key = k
        <4>1. latest'[k] = index /\ after = before \cup {index}
          BY <2>1, <2>2, <2>7, <2>9, <3>2 DEF Replaces, Observation
        <4>2. ASSUME NEW j \in before
              PROVE  observations[j].observed_at < observations[index].observed_at
          <5>1. latest[k] # 0 /\ latest[k] \in before
            BY <2>6
          <5>2. observations[index].observed_at > observations[latest[k]].observed_at
            BY <2>9, <3>2, <5>1 DEF Replaces, Observation
          <5>3. observations[j].observed_at <= observations[latest[k]].observed_at
            BY <2>3, <2>5, <5>1 DEF IsLatest
          <5> QED BY <2>3, <2>4, <5>1, <5>2, <5>3 DEF Observation
        <4> QED BY <2>1, <4>1, <4>2 DEF IsLatest
      <3> QED BY <3>1, <3>2
    <2> QED BY <2>8, <2>9
  <1>3. index \in Int
    BY DEF TypeOK
  <1>4. CASE Skip
    <2>1. index' - 1 = index
      BY <1>3, <1>4 DEF Skip
    <2> QED BY <1>2, <1>4, <2>1 DEF Skip, LatestOfThePrefix
  <1>5. CASE Take
    <2>1. index' - 1 = index
      BY <1>3, <1>5 DEF Take
    <2> QED BY <1>2, <1>5, <2>1 DEF Take, LatestOfThePrefix
  <1> QED BY <1>1, <1>4, <1>5 DEF Next

LEMMA PrefixInit == Init => LatestOfThePrefix
  <1> SUFFICES ASSUME Init, NEW k \in Keys
               PROVE  Known(observations, index - 1, timestamp, k) = {} /\ latest[k] = 0
    BY DEF LatestOfThePrefix
  <1> QED BY DEF Init, Known

LEMMA Invariants == Spec => [](TypeOK /\ LatestOfThePrefix)
  BY TypeOKInit, TypeOKNext, PrefixInit, PrefixNext, PTL DEF Spec

THEOREM TypeCorrect == Spec => []TypeOK
  BY Invariants, PTL

(* At every point of the pass the dictionary is right for the prefix. *)
THEOREM PrefixCorrect == Spec => []LatestOfThePrefix
  BY Invariants, PTL

(* The snapshot shows exactly the latest observations known by its moment. *)
THEOREM ViewCorrect == Spec => []ReturnsTheView
  <1>1. TypeOK /\ LatestOfThePrefix => ReturnsTheView
    <2> SUFFICES ASSUME TypeOK, LatestOfThePrefix, Finished
                 PROVE  {observations[latest[k]] : k \in {k \in Keys : latest[k] # 0}}
                          = Latest(observations, timestamp)
      BY DEF ReturnsTheView
    <2> DEFINE n == Len(observations)
    <2>1. index - 1 = n /\ n \in Nat /\ DOMAIN observations = 1..n
      BY DEF Finished, TypeOK
    <2>2. ASSUME NEW k \in Keys
          PROVE  IF Known(observations, n, timestamp, k) = {} THEN latest[k] = 0
                 ELSE IsLatest(observations, n, timestamp, k, latest[k])
      BY <2>1 DEF LatestOfThePrefix
    <2>3. ASSUME NEW k \in Keys, latest[k] # 0
          PROVE  observations[latest[k]] \in Latest(observations, timestamp)
      <3>1. IsLatest(observations, n, timestamp, k, latest[k])
        BY <2>2, <2>3
      <3>2. latest[k] \in 1..n /\ observations[latest[k]].key = k
        BY <3>1 DEF IsLatest, Known
      <3> QED BY <2>1, <3>1, <3>2 DEF Latest
    <2>4. ASSUME NEW i \in 1..n,
                 IsLatest(observations, n, timestamp, observations[i].key, i)
          PROVE  latest[observations[i].key] = i
      <3> DEFINE k == observations[i].key
      <3>1. k \in Keys
        BY ObservationType
      <3>2. i \in Known(observations, n, timestamp, k)
        BY <2>4 DEF IsLatest
      <3>3. IsLatest(observations, n, timestamp, k, latest[k])
        BY <2>2, <3>1, <3>2
      <3>4. latest[k] \in Known(observations, n, timestamp, k)
        BY <3>3 DEF IsLatest
      <3>5. i \in 1..n /\ latest[k] \in 1..n
            /\ observations[i].observed_at \in Int
            /\ observations[latest[k]].observed_at \in Int
        BY <3>4, ObservationType DEF Known
      <3>6. \/ observations[latest[k]].observed_at < observations[i].observed_at
            \/ observations[latest[k]].observed_at = observations[i].observed_at /\ i <= latest[k]
        BY <2>4, <3>4 DEF IsLatest
      <3>7. \/ observations[i].observed_at < observations[latest[k]].observed_at
            \/ observations[i].observed_at = observations[latest[k]].observed_at /\ latest[k] <= i
        BY <3>2, <3>3 DEF IsLatest
      <3> QED BY <2>1, <3>5, <3>6, <3>7
    <2>5. ASSUME NEW i \in 1..n,
                 IsLatest(observations, n, timestamp, observations[i].key, i)
          PROVE  /\ observations[i].key \in Keys
                 /\ latest[observations[i].key] # 0
                 /\ observations[latest[observations[i].key]] = observations[i]
      BY <2>1, <2>4, <2>5, ObservationType
    <2> QED BY <2>1, <2>3, <2>5 DEF Latest
  <1> QED BY <1>1, Invariants, PTL

=============================================================================
