------------------------- MODULE TrafficArchiveProofs -------------------------
(***************************************************************************)
(* Theorems about the reading of local times and of a traffic archive.     *)
(***************************************************************************)
EXTENDS TrafficArchive, FiniteSetTheorems, WellFoundedInduction, TLAPS

-----------------------------------------------------------------------------
(* Local time *)

(* Every instant at which the clock reads naive is among its readings. *)
THEOREM ReadingsAreAll ==
  ASSUME NEW z \in Zone, NEW naive \in Int, NEW t \in Int, LocalAt(z, t) = naive
  PROVE  t \in Readings(z, naive)
  BY DEF Zone, Readings, LocalAt

(* Each fold gives at most one instant, and both together all readings. *)
LEMMA CandidatesAreReadings ==
  ASSUME NEW z \in Zone, NEW naive \in Int
  PROVE  /\ Candidate(z, naive, 0) \cup Candidate(z, naive, 1) = Readings(z, naive)
         /\ \A t, u \in Candidate(z, naive, 0) : t = u
         /\ \A t, u \in Candidate(z, naive, 1) : t = u
  <1>1. z.transition \in Int /\ z.before \in Int /\ z.after \in Int
    BY DEF Zone
  <1>2. ASSUME NEW t \in Candidate(z, naive, 0) \cup Candidate(z, naive, 1)
        PROVE  t \in Readings(z, naive)
    BY <1>1, <1>2 DEF Candidate, Readings, UtcOffset
  <1>3. ASSUME NEW t \in Readings(z, naive)
        PROVE  t \in Candidate(z, naive, 0) \cup Candidate(z, naive, 1)
    BY <1>1, <1>3 DEF Candidate, Readings, UtcOffset, LocalAt, FoldAt
  <1>4. /\ \A t, u \in Candidate(z, naive, 0) : t = u
        /\ \A t, u \in Candidate(z, naive, 1) : t = u
    BY DEF Candidate
  <1> QED BY <1>2, <1>3, <1>4

(* local_to_utc returns one instant at most, at which the clock reads the  *)
(* local time, and without a fold only if it reads so at no other instant. *)
THEOREM LocalTimeReadsBack ==
  ASSUME NEW z \in Zone, NEW naive \in Int, NEW f \in Folds,
         NEW t \in LocalToUtc(z, naive, f)
  PROVE  /\ t \in Readings(z, naive) /\ t \in Int /\ LocalAt(z, t) = naive
         /\ LocalToUtc(z, naive, f) = {t}
         /\ f = NoFold => Readings(z, naive) = {t}
  <1>1. t \in Readings(z, naive) /\ LocalToUtc(z, naive, f) = {t}
    BY CandidatesAreReadings DEF LocalToUtc
  <1>2. f = NoFold => Readings(z, naive) = {t}
    BY CandidatesAreReadings DEF LocalToUtc
  <1>3. t \in Int /\ LocalAt(z, t) = naive
    BY <1>1 DEF Readings, Zone
  <1> QED BY <1>1, <1>2, <1>3

(* A local time that one instant alone reads as is resolved to it, with    *)
(* any fold and with none.                                                 *)
THEOREM OnlyReadingIsFound ==
  ASSUME NEW z \in Zone, NEW naive \in Int, NEW f \in Folds, NEW t,
         Readings(z, naive) = {t}
  PROVE  LocalToUtc(z, naive, f) = {t}
  BY CandidatesAreReadings DEF LocalToUtc

(* Of two instants that read the same, the folds give the earlier and the  *)
(* later one.                                                              *)
THEOREM FoldsTellReadingsApart ==
  ASSUME NEW z \in Zone, NEW naive \in Int,
         NEW t \in Readings(z, naive), NEW u \in Readings(z, naive), t < u
  PROVE  LocalToUtc(z, naive, 0) = {t} /\ LocalToUtc(z, naive, 1) = {u}
  <1>1. z.transition \in Int /\ z.before \in Int /\ z.after \in Int
    BY DEF Zone
  <1>2. t \in Int /\ u \in Int /\ t # u
    BY <1>1 DEF Readings
  <1>3. t = naive - z.before /\ u = naive - z.after /\ z.before > z.after
        /\ t < z.transition /\ u >= z.transition
    BY <1>1, <1>2 DEF Readings, LocalAt
  <1>4. UtcOffset(z, naive, 0) = z.before /\ UtcOffset(z, naive, 1) = z.after
    BY <1>1, <1>3 DEF UtcOffset
  <1>5. FoldAt(z, t) = 0 /\ FoldAt(z, u) = 1
    BY <1>1, <1>3 DEF FoldAt
  <1>6. t \in Candidate(z, naive, 0) /\ u \in Candidate(z, naive, 1)
    BY <1>3, <1>4, <1>5 DEF Candidate, Readings
  <1>7. Candidate(z, naive, 0) = {t} /\ Candidate(z, naive, 1) = {u}
    BY <1>6, CandidatesAreReadings
  <1>8. 0 # NoFold /\ 1 # NoFold
    BY DEF NoFold
  <1> QED BY <1>2, <1>7, <1>8 DEF LocalToUtc

-----------------------------------------------------------------------------
(* One row *)

(* A row's timestamp stands for at most one instant, which reads back. *)
LEMMA ObservedAtReadsBack ==
  ASSUME TypeOK, NEW row \in Rows, NEW t \in ObservedAt(row)
  PROVE  /\ row.timestamp \in Int /\ t \in Int
         /\ ObservedAt(row) = {t}
         /\ LocalAt(zone, t) = row.timestamp
         /\ fold = NoFold => Readings(zone, row.timestamp) = {t}
  <1>1. row.timestamp \notin {Missing, Text}
    BY DEF ObservedAt
  <1>2. row \in Row /\ zone \in Zone /\ fold \in Folds
    BY ArchiveAssumption DEF TypeOK
  <1>3. row.timestamp \in Int
    BY <1>1, <1>2 DEF Row
  <1>4. ObservedAt(row) = LocalToUtc(zone, row.timestamp, fold)
    BY <1>1 DEF ObservedAt
  <1> QED BY <1>2, <1>3, <1>4, LocalTimeReadsBack

(* A row whose timestamp resolves to nothing is not read by one instant. *)
LEMMA UnresolvedIsNotUnique ==
  ASSUME TypeOK, NEW row \in Rows, ObservedAt(row) = {},
         row.timestamp \notin {Missing, Text}
  PROVE  Cardinality(Readings(zone, row.timestamp)) # 1
  <1> SUFFICES ASSUME Cardinality(Readings(zone, row.timestamp)) = 1 PROVE FALSE
    OBVIOUS
  <1>1. row \in Row /\ zone \in Zone /\ fold \in Folds
    BY ArchiveAssumption DEF TypeOK
  <1>2. row.timestamp \in Int
    BY <1>1 DEF Row
  <1>3. IsFiniteSet(Readings(zone, row.timestamp))
    <2>1. IsFiniteSet({row.timestamp - zone.before} \cup {row.timestamp - zone.after})
      BY FS_Singleton, FS_Union
    <2>2. Readings(zone, row.timestamp)
            \subseteq {row.timestamp - zone.before} \cup {row.timestamp - zone.after}
      BY DEF Readings
    <2> QED BY <2>1, <2>2, FS_Subset
  <1>4. PICK t : Readings(zone, row.timestamp) = {t}
    BY <1>3, FS_Singleton
  <1>5. LocalToUtc(zone, row.timestamp, fold) = {t}
    BY <1>1, <1>2, <1>4, OnlyReadingIsFound
  <1> QED BY <1>5 DEF ObservedAt

(* A row without a reason for rejection has a detector and one instant. *)
LEMMA SoundRowHasAKey ==
  ASSUME TypeOK, NEW row \in Rows, RowReasons(row) = {}
  PROVE  /\ row.detector \in Detectors
         /\ \E t \in Int : ObservedAt(row) = {t} /\ Key(row) = {<<row.detector, t>>}
  <1>1. Given(row.detector = Missing, "detector") = {}
        /\ Given(ObservedAt(row) = {}, "timestamp") = {}
    BY DEF RowReasons
  <1>2. row.detector # Missing /\ ObservedAt(row) # {}
    BY <1>1 DEF Given
  <1>3. row \in Row
    BY ArchiveAssumption DEF TypeOK
  <1>4. row.detector \in Detectors
    BY <1>2, <1>3 DEF Row
  <1>5. PICK t \in ObservedAt(row) : TRUE
    BY <1>2
  <1>6. ObservedAt(row) = {t} /\ t \in Int
    BY ObservedAtReadsBack
  <1> QED BY <1>4, <1>6 DEF Key

(* A row is refused for its timestamp exactly if it has no instant. *)
LEMMA TimestampReason ==
  ASSUME NEW row
  PROVE  "timestamp" \in RowReasons(row) <=> ObservedAt(row) = {}
  BY DEF RowReasons, Given

-----------------------------------------------------------------------------
(* Types *)

LEMMA MessageTypes ==
  ASSUME NEW row
  PROVE  /\ QualityWarnings(row) \in SUBSET (RowWarnings \cup Kinds)
         /\ QualityWarnings(row) \cap Kinds = {}
         /\ RowReasons(row) \in SUBSET Reasons
         /\ \A c : Given(c, "duplicate") \in SUBSET Reasons
  <1>1. /\ QualityWarnings(row) \in SUBSET (RowWarnings \cup Kinds)
        /\ QualityWarnings(row) \cap Kinds = {}
    BY DEF QualityWarnings, Given, RowWarnings, Kinds
  <1>2. \A c : Given(c, "duplicate") \in SUBSET Reasons
    BY DEF Given, Reasons
  <1>3. RowReasons(row) \in SUBSET Reasons
    <2> DEFINE value == Measured(row)
               lacksDetector == row.detector = Missing
               lacksInstant == ObservedAt(row) = {}
               noNumber == Text \in {row.count, row.heavy, row.speed}
               negative == (value.count # Missing /\ value.count < 0)
                           \/ (value.heavy # Missing /\ value.heavy < 0)
               exceeds == Missing \notin {value.count, value.heavy} /\ value.heavy > value.count
               impossible == value.speed = Infinite
                             \/ (value.speed # Missing /\ (value.speed < 0 \/ value.speed > 250))
               nothing == {value.count, value.heavy, value.speed} = {Missing}
    <2>1. RowReasons(row) =
            Given(lacksDetector, "detector") \cup Given(lacksInstant, "timestamp")
            \cup Given(noNumber, "non-numeric") \cup Given(negative, "negative")
            \cup Given(exceeds, "heavy exceeds count") \cup Given(impossible, "speed")
            \cup Given(nothing, "all missing")
      BY Zenon DEF RowReasons
    <2> HIDE DEF lacksDetector, lacksInstant, noNumber, negative, exceeds, impossible, nothing
    <2> QED BY <2>1 DEF Given, Reasons
  <1> QED BY <1>1, <1>2, <1>3

LEMMA CurrentType ==
  ASSUME TypeOK, Reading
  PROVE  /\ row_number \in 1..Len(rows) /\ row_number + 1 \in 1..(Len(rows) + 1)
         /\ Current \in Rows
  BY DEF TypeOK, Reading, Current

LEMMA TypeOKInit == Init => TypeOK
  <1> SUFFICES ASSUME Init PROVE TypeOK
    OBVIOUS
  <1>1. PICK n \in 0..MaxRows : rows \in [1..n -> Rows]
    BY DEF Init
  <1>2. rows \in Seq(Rows)
    BY <1>1, ArchiveAssumption
  <1>3. Len(rows) \in Nat
    BY <1>2
  <1>4. previous \in [Detectors -> Int \cup {Missing}]
    BY DEF Init
  <1>5. observations \in Seq(Observation)
        /\ rejected_rows \in Seq(Rejection)
    BY DEF Init
  <1> QED BY <1>2, <1>3, <1>4, <1>5 DEF Init, TypeOK

(* Whatever does not change what a component's type depends on keeps it. *)
LEMMA RaiseTyped == TypeOK /\ Raise => TypeOK'
  BY DEF TypeOK, Raise, arguments, annotation, Observation, Rejection

LEMMA RejectTyped == TypeOK /\ Reject => TypeOK'
  <1> SUFFICES ASSUME TypeOK, Reject PROVE TypeOK'
    OBVIOUS
  <1>1. Reading /\ row_number' = row_number + 1 /\ UNCHANGED <<arguments, stage, observations, seen, annotation>>
    BY DEF Reject
  <1>2. row_number \in 1..Len(rows) /\ row_number' \in 1..(Len(rows) + 1) /\ stage = "rows"
    BY <1>1, CurrentType DEF Reading
  <1> DEFINE entry == [row |-> row_number,
                       reasons |-> RowReasons(Current) \cup Given(Duplicate(Current), "duplicate")]
  <1>3. RowReasons(Current) \cup Given(Duplicate(Current), "duplicate") \in SUBSET Reasons
    BY MessageTypes
  <1>4. entry \in Rejection
    BY <1>2, <1>3 DEF Rejection
  <1>5. rejected_rows' = Append(rejected_rows, entry) /\ rejected_rows \in Seq(Rejection)
    BY DEF Reject, TypeOK
  <1>6. rejected_rows' \in Seq(Rejection)
    <2> HIDE DEF entry
    <2> QED BY <1>4, <1>5
  <1> QED BY <1>1, <1>2, <1>6 DEF TypeOK, arguments, annotation, Observation, Rejection

LEMMA AcceptTyped == TypeOK /\ Accept => TypeOK'
  <1> SUFFICES ASSUME TypeOK, Accept PROVE TypeOK'
    OBVIOUS
  <1>1. Reading /\ row_number' = row_number + 1
        /\ UNCHANGED <<arguments, stage, rejected_rows, annotation>>
    BY DEF Accept
  <1>2. row_number \in 1..Len(rows) /\ row_number' \in 1..(Len(rows) + 1) /\ stage = "rows"
        /\ Current \in Rows
    BY <1>1, CurrentType DEF Reading
  <1>3. RowReasons(Current) = {}
    BY DEF Accept
  <1>4. PICK t \in Int : ObservedAt(Current) = {t} /\ Key(Current) = {<<Current.detector, t>>}
                         /\ Current.detector \in Detectors
    BY <1>2, <1>3, SoundRowHasAKey
  <1> DEFINE o == [row |-> row_number, detector |-> Current.detector, observed_at |-> t,
                   warnings |-> QualityWarnings(Current)]
  <1>5. o \in Observation
    BY <1>2, <1>4, MessageTypes DEF Observation
  <1>6. observations' = Append(observations, o) /\ observations \in Seq(Observation)
    BY <1>4 DEF Accept, TypeOK
  <1>7. observations' \in Seq(Observation)
    <2> HIDE DEF o
    <2> QED BY <1>5, <1>6
  <1>8. Observation' = Observation /\ Rejection' = Rejection
    BY <1>1 DEF Observation, Rejection, arguments
  <1>9. seen' \in SUBSET (Detectors \X Int)
    <2>1. seen' = seen \cup {<<Current.detector, t>>}
      BY <1>4 DEF Accept
    <2> QED BY <1>4, <2>1 DEF TypeOK
  <1> QED BY <1>1, <1>2, <1>7, <1>8, <1>9 DEF TypeOK, arguments, annotation

LEMMA EndRowsTyped == TypeOK /\ EndRows => TypeOK'
  <1> SUFFICES ASSUME TypeOK, EndRows PROVE TypeOK'
    OBVIOUS
  <1>1. Len(observations) \in Nat
    BY DEF TypeOK
  <1> QED BY <1>1 DEF TypeOK, EndRows, arguments, annotation, Observation, Rejection

LEMMA CompareOrderTyped == TypeOK /\ CompareOrder => TypeOK'
  <1> SUFFICES ASSUME TypeOK, CompareOrder PROVE TypeOK'
    OBVIOUS
  <1> DEFINE o == observations[row_number]
  <1>1. stage = "order" /\ row_number \in 1..Len(observations) /\ row_number' = row_number + 1
        /\ UNCHANGED <<arguments, stage, observations, rejected_rows, seen>>
    BY DEF CompareOrder, TypeOK
  <1>2. o \in Observation
    BY <1>1 DEF TypeOK
  <1>3. o.detector \in Detectors /\ o.observed_at \in Int
    BY <1>2 DEF Observation
  <1>4. issues' \in SUBSET Issues
    <2>1. Issue(o, "non_monotonic") \in Issues
      BY <1>3 DEF Issue, Issues, Kinds
    <2> QED BY <2>1 DEF CompareOrder, Given, TypeOK
  <1>5. previous' \in [Detectors -> Int \cup {Missing}] /\ by_detector' \in SUBSET Detectors
    BY <1>3 DEF CompareOrder, TypeOK
  <1>6. row_number' \in Nat \ {0} /\ row_number' <= Len(observations) + 1
    BY <1>1 DEF TypeOK
  <1> QED BY <1>1, <1>4, <1>5, <1>6 DEF TypeOK, arguments, Observation, Rejection

LEMMA EndOrderTyped == TypeOK /\ EndOrder => TypeOK'
  BY DEF TypeOK, EndOrder, arguments, annotation, Observation, Rejection

LEMMA FindGapsTyped == ASSUME TypeOK, NEW d \in Detectors, FindGaps(d) PROVE TypeOK'
  <1>1. UNCHANGED <<arguments, stage, row_number, observations, rejected_rows, seen, previous>>
        /\ by_detector' = by_detector \ {d}
    BY DEF FindGaps
  <1>2. ASSUME NEW i \in Of(d) PROVE Issue(observations[i], "gap") \in Issues
    <2>1. observations[i] \in Observation
      BY DEF Of, TypeOK
    <2> QED BY <2>1 DEF Observation, Issue, Issues, Kinds
  <1>3. issues' \in SUBSET Issues
    <2>1. PICK order \in SortedOrders(d) :
            issues' = issues \cup
              {Issue(observations[order[i]], "gap") : i \in
                 {i \in DOMAIN order : i > 1 /\
                    observations[order[i]].observed_at
                      - observations[order[i - 1]].observed_at > interval}}
      BY DEF FindGaps
    <2>2. \A i \in DOMAIN order : order[i] \in Of(d)
      BY DEF SortedOrders
    <2> QED BY <1>2, <2>1, <2>2 DEF TypeOK
  <1> QED BY <1>1, <1>3 DEF TypeOK, arguments, Observation, Rejection

(* The annotation adds kinds of issues to the warnings and changes nothing *)
(* else of an observation.                                                 *)
LEMMA AnnotateKeeps ==
  ASSUME TypeOK, Annotate
  PROVE  /\ observations' \in Seq(Observation)
         /\ Len(observations') = Len(observations) /\ DOMAIN observations' = DOMAIN observations
         /\ \A i \in DOMAIN observations :
              LET messages == {issue.kind : issue \in
                     {issue \in issues : /\ issue.detector = observations[i].detector
                                         /\ issue.observed_at = observations[i].observed_at}}
              IN  /\ observations'[i].row = observations[i].row
                  /\ observations'[i].detector = observations[i].detector
                  /\ observations'[i].observed_at = observations[i].observed_at
                  /\ observations'[i].warnings = observations[i].warnings \cup messages
  <1> DEFINE messages(i) == {issue.kind : issue \in
                     {issue \in issues : /\ issue.detector = observations[i].detector
                                         /\ issue.observed_at = observations[i].observed_at}}
             marked(i) == [observations[i] EXCEPT !.warnings = @ \cup messages(i)]
  <1>1. observations' = [i \in DOMAIN observations |-> marked(i)]
    BY DEF Annotate
  <1>2. observations \in Seq(Observation) /\ issues \subseteq Issues
    BY DEF TypeOK
  <1>3. ASSUME NEW i \in DOMAIN observations
        PROVE  /\ marked(i) \in Observation
               /\ marked(i).row = observations[i].row
               /\ marked(i).detector = observations[i].detector
               /\ marked(i).observed_at = observations[i].observed_at
               /\ marked(i).warnings = observations[i].warnings \cup messages(i)
    <2>1. observations[i] \in Observation
      BY <1>2
    <2>2. messages(i) \subseteq Kinds
      BY <1>2 DEF Issues
    <2> HIDE DEF messages
    <2> QED BY <2>1, <2>2 DEF Observation
  <1> HIDE DEF marked
  <1>4. DOMAIN observations = 1..Len(observations) /\ Len(observations) \in Nat
    BY <1>2
  <1>5. observations' \in Seq(Observation) /\ Len(observations') = Len(observations)
        /\ DOMAIN observations' = DOMAIN observations
    BY <1>1, <1>3, <1>4
  <1> QED BY <1>1, <1>3, <1>5

LEMMA AnnotateTyped == TypeOK /\ Annotate => TypeOK'
  <1> SUFFICES ASSUME TypeOK, Annotate PROVE TypeOK'
    OBVIOUS
  <1>1. observations' \in Seq(Observation)
    BY AnnotateKeeps
  <1>2. UNCHANGED <<arguments, row_number, rejected_rows, seen, annotation>> /\ stage' = "done"
    BY DEF Annotate
  <1>3. Observation' = Observation /\ Rejection' = Rejection
    BY <1>2 DEF Observation, Rejection, arguments
  <1> QED BY <1>1, <1>2, <1>3 DEF TypeOK, arguments, annotation

LEMMA TypeOKNext == TypeOK /\ [Next]_vars => TypeOK'
  <1>1. TypeOK /\ UNCHANGED vars => TypeOK'
    BY DEF TypeOK, vars, arguments, annotation, Observation, Rejection
  <1> QED BY <1>1, RaiseTyped, RejectTyped, AcceptTyped, EndRowsTyped, CompareOrderTyped,
             EndOrderTyped, FindGapsTyped, AnnotateTyped DEF Next

(* The state of a reading keeps its types, for any archive. *)
THEOREM TypeCorrect == Spec => []TypeOK
  BY TypeOKInit, TypeOKNext, PTL DEF Spec

-----------------------------------------------------------------------------
(* The row loop *)

Sound(i) == RowReasons(rows[i]) = {}
FirstSound(i) ==
  Sound(i) /\ \A j \in 1..(i - 1) : Sound(j) => Key(rows[j]) # Key(rows[i])

(* What the pass over the rows keeps: seen holds the keys of the sound     *)
(* rows read, the observations are of first sound rows and pairwise of     *)
(* different keys, and the timestamps were resolved as they read.          *)
KeptIsFirst ==
  stage # "raised" =>
    /\ Accepted = {i \in RowsRead : FirstSound(i)}
    /\ Rejected = RowsRead \ Accepted
SeenIsSound ==
  stage # "raised" => seen = UNION {Key(rows[i]) : i \in {i \in RowsRead : Sound(i)}}
KeysDiffer ==
  /\ \A i \in DOMAIN observations :
       <<observations[i].detector, observations[i].observed_at>> \in seen
  /\ \A i, j \in DOMAIN observations :
       observations[i].detector = observations[j].detector
       /\ observations[i].observed_at = observations[j].observed_at => i = j
Resolved ==
  /\ \A i \in DOMAIN observations :
       observations[i].observed_at \in ObservedAt(rows[observations[i].row])
  /\ \A i \in DOMAIN rejected_rows :
       "timestamp" \in rejected_rows[i].reasons
         => ObservedAt(rows[rejected_rows[i].row]) = {}

RowsInv == RaisesForCause /\ KeptIsFirst /\ SeenIsSound /\ KeysDiffer /\ Resolved

LEMMA ArgumentsFix ==
  ASSUME UNCHANGED arguments
  PROVE  /\ rows' = rows
         /\ \A row : ObservedAt(row)' = ObservedAt(row)
         /\ \A row : Key(row)' = Key(row)
         /\ \A row : RowReasons(row)' = RowReasons(row)
         /\ \A i : Sound(i)' = Sound(i)
         /\ \A i : FirstSound(i)' = FirstSound(i)
  <1>1. rows' = rows /\ zone' = zone /\ fold' = fold
    BY DEF arguments
  <1>2. ASSUME NEW row PROVE ObservedAt(row)' = ObservedAt(row)
    BY <1>1 DEF ObservedAt
  <1>3. ASSUME NEW row PROVE Key(row)' = Key(row)
    BY <1>2 DEF Key
  <1>4. ASSUME NEW row PROVE RowReasons(row)' = RowReasons(row)
    BY <1>2 DEF RowReasons
  <1>5. ASSUME NEW i PROVE Sound(i)' = Sound(i)
    BY <1>1, <1>4 DEF Sound
  <1>6. ASSUME NEW i PROVE FirstSound(i)' = FirstSound(i)
    BY <1>1, <1>3, <1>5 DEF FirstSound
  <1> QED BY <1>1, <1>2, <1>3, <1>4, <1>5, <1>6

LEMMA RowsInvInit == Init => RowsInv
  <1> SUFFICES ASSUME Init PROVE RowsInv
    OBVIOUS
  <1>1. RowsRead = {} /\ Accepted = {} /\ Rejected = {}
    BY DEF Init, RowsRead, Accepted, Rejected
  <1> QED BY <1>1 DEF Init, RowsInv, RaisesForCause, KeptIsFirst, SeenIsSound, KeysDiffer, Resolved

(* A sound row is a duplicate exactly if an earlier sound one has its key. *)
LEMMA DuplicateIsNotFirst ==
  ASSUME TypeOK, SeenIsSound, Reading, Sound(row_number)
  PROVE  Duplicate(Current) <=> ~FirstSound(row_number)
  <1>1. RowsRead = 1..(row_number - 1) /\ Current = rows[row_number] /\ Current \in Rows
        /\ stage # "raised"
    BY CurrentType DEF Reading, RowsRead, Current
  <1>2. PICK t \in Int : ObservedAt(Current) = {t} /\ Key(Current) = {<<Current.detector, t>>}
                         /\ Current.detector \in Detectors
    BY <1>1, SoundRowHasAKey DEF Sound
  <1>3. Duplicate(Current) <=> <<Current.detector, t>> \in seen
    BY <1>2, MarksAssumption DEF Duplicate
  <1>4. ASSUME NEW j \in 1..(row_number - 1), Sound(j)
        PROVE  Key(rows[j]) = Key(Current) <=> <<Current.detector, t>> \in Key(rows[j])
    <2>1. rows[j] \in Rows
      BY CurrentType DEF TypeOK, Reading
    <2>2. \E u \in Int : Key(rows[j]) = {<<rows[j].detector, u>>}
      BY <1>4, <2>1, SoundRowHasAKey DEF Sound
    <2> QED BY <1>2, <2>2
  <1>5. <<Current.detector, t>> \in seen
          <=> \E j \in 1..(row_number - 1) : Sound(j) /\ <<Current.detector, t>> \in Key(rows[j])
    BY <1>1 DEF SeenIsSound
  <1> QED BY <1>1, <1>3, <1>4, <1>5 DEF FirstSound

(* A row that is read without an overflow gives no cause for raising. *)
LEMMA OneMoreRowRead ==
  ASSUME TypeOK, RowsInv, stage = "rows", ~Overflows(rows[row_number]),
         UNCHANGED <<arguments, stage>>, RowsRead' = RowsRead \cup {row_number}
  PROVE  RaisesForCause'
  <1>1. rows' = rows /\ stage' = "rows"
    BY DEF arguments
  <1>2. \A i \in RowsRead' : ~Overflows(rows[i])
    BY DEF RowsInv, RaisesForCause
  <1> QED BY <1>1, <1>2 DEF RaisesForCause, Overflows

LEMMA RowsInvReject == TypeOK /\ RowsInv /\ Reject => RowsInv'
  <1> SUFFICES ASSUME TypeOK, RowsInv, Reject PROVE RowsInv'
    OBVIOUS
  <1> DEFINE entry == [row |-> row_number,
                       reasons |-> RowReasons(Current) \cup Given(Duplicate(Current), "duplicate")]
  <1>1. Reading /\ row_number' = row_number + 1
        /\ UNCHANGED <<arguments, stage, observations, seen, annotation>>
        /\ rejected_rows' = Append(rejected_rows, entry)
        /\ (~Sound(row_number) \/ Duplicate(Current)) /\ ~Overflows(Current)
    BY DEF Reject, Sound, Current
  <1>2. row_number \in 1..Len(rows) /\ stage = "rows" /\ Current = rows[row_number]
    BY <1>1, CurrentType DEF Reading, Current
  <1>3. RowsRead = 1..(row_number - 1) /\ RowsRead' = RowsRead \cup {row_number}
        /\ row_number \notin RowsRead
    BY <1>1, <1>2 DEF RowsRead
  <1>4. Accepted' = Accepted
    BY <1>1 DEF Accepted
  <1>5. rejected_rows \in Seq(Rejection)
    BY DEF TypeOK
  <1>6. /\ DOMAIN rejected_rows' = DOMAIN rejected_rows \cup {Len(rejected_rows) + 1}
        /\ \A i \in DOMAIN rejected_rows : rejected_rows'[i] = rejected_rows[i]
        /\ rejected_rows'[Len(rejected_rows) + 1] = entry
    <2> HIDE DEF entry
    <2> QED BY <1>1, <1>5
  <1>7. entry.row = row_number /\ entry.reasons = RowReasons(Current) \cup Given(Duplicate(Current), "duplicate")
    OBVIOUS
  <1> HIDE DEF entry
  <1>8. Rejected' = Rejected \cup {row_number}
    BY <1>6, <1>7 DEF Rejected
  <1>9. ~FirstSound(row_number)
    <2>1. CASE ~Sound(row_number)
      BY <2>1 DEF FirstSound
    <2>2. CASE Sound(row_number)
      BY <1>1, <2>2, DuplicateIsNotFirst DEF RowsInv
    <2> QED BY <2>1, <2>2
  <1>10. KeptIsFirst'
    <2>1. Accepted = {i \in RowsRead : FirstSound(i)} /\ Rejected = RowsRead \ Accepted
      BY <1>2 DEF RowsInv, KeptIsFirst
    <2>2. Accepted' = {i \in RowsRead' : FirstSound(i)}
      BY <1>3, <1>4, <1>9, <2>1
    <2>3. Rejected' = RowsRead' \ Accepted'
      BY <1>3, <1>4, <1>8, <2>1
    <2> QED BY <1>1, <2>2, <2>3, ArgumentsFix DEF KeptIsFirst
  <1>11. SeenIsSound'
    <2>1. seen = UNION {Key(rows[i]) : i \in {i \in RowsRead : Sound(i)}}
      BY <1>2 DEF RowsInv, SeenIsSound
    <2>2. Sound(row_number) => Key(rows[row_number]) \subseteq seen
      BY <1>1, <1>2 DEF Duplicate
    <2>3. seen = UNION {Key(rows[i]) : i \in {i \in RowsRead' : Sound(i)}}
      BY <1>3, <2>1, <2>2
    <2> QED BY <1>1, <2>3, ArgumentsFix DEF SeenIsSound
  <1>12. KeysDiffer'
    BY <1>1 DEF RowsInv, KeysDiffer
  <1>13. Resolved'
    <2>1. "timestamp" \in entry.reasons => ObservedAt(rows[entry.row]) = {}
      <3>1. "timestamp" \notin Given(Duplicate(Current), "duplicate")
        BY DEF Given
      <3> QED BY <1>2, <1>7, <3>1, TimestampReason
    <2>2. \A i \in DOMAIN rejected_rows' :
            "timestamp" \in rejected_rows'[i].reasons
              => ObservedAt(rows[rejected_rows'[i].row]) = {}
      BY <1>6, <2>1 DEF RowsInv, Resolved
    <2>3. \A i \in DOMAIN observations' :
            observations'[i].observed_at \in ObservedAt(rows[observations'[i].row])
      BY <1>1 DEF RowsInv, Resolved
    <2>4. UNCHANGED arguments
      BY <1>1
    <2> QED BY <2>2, <2>3, <2>4, ArgumentsFix DEF Resolved
  <1>14. RaisesForCause'
    BY <1>1, <1>2, <1>3, OneMoreRowRead
  <1> QED BY <1>10, <1>11, <1>12, <1>13, <1>14 DEF RowsInv

LEMMA RowsInvAccept == TypeOK /\ RowsInv /\ Accept => RowsInv'
  <1> SUFFICES ASSUME TypeOK, RowsInv, Accept PROVE RowsInv'
    OBVIOUS
  <1>1. Reading /\ row_number' = row_number + 1
        /\ UNCHANGED <<arguments, stage, rejected_rows, annotation>>
        /\ seen' = seen \cup Key(Current)
        /\ ~Duplicate(Current) /\ ~Overflows(Current)
        /\ RowReasons(Current) = {}
    BY DEF Accept
  <1>2. row_number \in 1..Len(rows) /\ stage = "rows" /\ Current = rows[row_number]
        /\ Current \in Rows
    BY <1>1, CurrentType DEF Reading, Current
  <1>3. PICK t \in Int : ObservedAt(Current) = {t} /\ Key(Current) = {<<Current.detector, t>>}
                         /\ Current.detector \in Detectors
    BY <1>1, <1>2, SoundRowHasAKey
  <1> DEFINE o == [row |-> row_number, detector |-> Current.detector, observed_at |-> t,
                   warnings |-> QualityWarnings(Current)]
  <1>4. RowsRead = 1..(row_number - 1) /\ RowsRead' = RowsRead \cup {row_number}
        /\ row_number \notin RowsRead
    BY <1>1, <1>2 DEF RowsRead
  <1>5. observations' = Append(observations, o) /\ observations \in Seq(Observation)
    BY <1>3 DEF Accept, TypeOK
  <1>6. o.row = row_number /\ o.detector = Current.detector /\ o.observed_at = t
    OBVIOUS
  <1> HIDE DEF o
  <1>7. /\ DOMAIN observations' = DOMAIN observations \cup {Len(observations) + 1}
        /\ Len(observations) + 1 \notin DOMAIN observations
        /\ \A i \in DOMAIN observations : observations'[i] = observations[i]
        /\ observations'[Len(observations) + 1] = o
    BY <1>5
  <1>8. Accepted' = Accepted \cup {row_number}
    BY <1>6, <1>7 DEF Accepted
  <1>9. Rejected' = Rejected
    BY <1>1 DEF Rejected
  <1>10. Sound(row_number) /\ FirstSound(row_number)
    BY <1>1, <1>2, DuplicateIsNotFirst DEF RowsInv, Sound
  <1>11. KeptIsFirst'
    <2>1. Accepted = {i \in RowsRead : FirstSound(i)} /\ Rejected = RowsRead \ Accepted
      BY <1>2 DEF RowsInv, KeptIsFirst
    <2>2. Accepted' = {i \in RowsRead' : FirstSound(i)}
      BY <1>4, <1>8, <1>10, <2>1
    <2>3. Rejected' = RowsRead' \ Accepted'
      BY <1>4, <1>8, <1>9, <2>1
    <2> QED BY <1>1, <2>2, <2>3, ArgumentsFix DEF KeptIsFirst
  <1>12. SeenIsSound'
    <2>1. seen = UNION {Key(rows[i]) : i \in {i \in RowsRead : Sound(i)}}
      BY <1>2 DEF RowsInv, SeenIsSound
    <2>2. seen' = UNION {Key(rows[i]) : i \in {i \in RowsRead' : Sound(i)}}
      BY <1>1, <1>2, <1>4, <1>10, <2>1
    <2> QED BY <1>1, <2>2, ArgumentsFix DEF SeenIsSound
  <1>13. KeysDiffer'
    <2>1. <<o.detector, o.observed_at>> \in seen' /\ <<o.detector, o.observed_at>> \notin seen
      BY <1>1, <1>3, <1>6, MarksAssumption DEF Duplicate
    <2>2. seen \subseteq seen'
      BY <1>1
    <2>3. ASSUME NEW i \in DOMAIN observations
          PROVE  /\ <<observations'[i].detector, observations'[i].observed_at>> \in seen'
                 /\ ~(observations'[i].detector = o.detector /\ observations'[i].observed_at = o.observed_at)
      <3>1. <<observations[i].detector, observations[i].observed_at>> \in seen
        BY DEF RowsInv, KeysDiffer
      <3> QED BY <1>7, <2>1, <2>2, <3>1
    <2>4. \A i, j \in DOMAIN observations :
            observations'[i].detector = observations'[j].detector
            /\ observations'[i].observed_at = observations'[j].observed_at => i = j
      BY <1>7 DEF RowsInv, KeysDiffer
    <2> QED BY <1>7, <2>1, <2>3, <2>4 DEF KeysDiffer
  <1>14. Resolved'
    <2>1. o.observed_at \in ObservedAt(rows[o.row])
      BY <1>2, <1>3, <1>6
    <2> QED BY <1>1, <1>7, <2>1, ArgumentsFix DEF RowsInv, Resolved
  <1>15. RaisesForCause'
    BY <1>1, <1>2, <1>4, OneMoreRowRead
  <1> QED BY <1>11, <1>12, <1>13, <1>14, <1>15 DEF RowsInv

(* The other steps leave the rows' outcome alone. *)
LEMMA RowsInvKept ==
  ASSUME TypeOK, RowsInv, UNCHANGED <<arguments, seen, rejected_rows>>,
         DOMAIN observations' = DOMAIN observations,
         \A i \in DOMAIN observations :
            /\ observations'[i].row = observations[i].row
            /\ observations'[i].detector = observations[i].detector
            /\ observations'[i].observed_at = observations[i].observed_at,
         stage' # "raised" => stage # "raised" /\ RowsRead' = RowsRead,
         RaisesForCause'
  PROVE  RowsInv'
  <1>1. Accepted' = Accepted /\ Rejected' = Rejected
    BY DEF Accepted, Rejected
  <1>2. KeptIsFirst' /\ SeenIsSound'
    BY <1>1, ArgumentsFix DEF RowsInv, KeptIsFirst, SeenIsSound
  <1>3. KeysDiffer'
    BY DEF RowsInv, KeysDiffer
  <1>4. Resolved'
    BY ArgumentsFix DEF RowsInv, Resolved
  <1> QED BY <1>2, <1>3, <1>4 DEF RowsInv

(* Nor does the annotation raise, once it has begun. *)
LEMMA RaisesKept ==
  ASSUME RowsInv, stage \in {"order", "gaps"}, stage' \in {"order", "gaps", "done"},
         UNCHANGED arguments, RowsRead' = RowsRead
  PROVE  RaisesForCause'
  BY DEF RowsInv, RaisesForCause, Refused, Overflows, arguments

LEMMA RowsInvNext == TypeOK /\ RowsInv /\ [Next]_vars => RowsInv'
  <1> SUFFICES ASSUME TypeOK, RowsInv, [Next]_vars PROVE RowsInv'
    OBVIOUS
  <1>1. CASE Reject
    BY <1>1, RowsInvReject
  <1>2. CASE Accept
    BY <1>2, RowsInvAccept
  <1>3. CASE Raise
    <2>1. RaisesForCause'
      BY <1>3, CurrentType DEF Raise, RaisesForCause, Current, Overflows, arguments
    <2> QED BY <1>3, <2>1, RowsInvKept DEF Raise
  <1>4. CASE EndRows
    <2>1. RowsRead = DOMAIN rows
      BY <1>4 DEF EndRows, RowsRead, TypeOK
    <2>2. stage' # "rows" /\ rows' = rows /\ stage # "raised"
      BY <1>4 DEF EndRows, arguments
    <2>3. RowsRead' = RowsRead
      BY <2>1, <2>2 DEF RowsRead
    <2>4. RaisesForCause'
      BY <1>4, <2>2, <2>3 DEF EndRows, RowsInv, RaisesForCause, Refused, Overflows, arguments, TypeOK
    <2> QED BY <1>4, <2>2, <2>3, <2>4, RowsInvKept DEF EndRows
  <1>5. CASE CompareOrder
    <2>1. RowsRead' = RowsRead /\ stage # "raised"
      BY <1>5 DEF CompareOrder, RowsRead, arguments
    <2>3. RaisesForCause'
      BY <1>5, <2>1, RaisesKept DEF CompareOrder
    <2> QED BY <1>5, <2>1, <2>3, RowsInvKept DEF CompareOrder
  <1>6. CASE EndOrder
    <2>1. RowsRead' = RowsRead /\ stage # "raised"
      BY <1>6 DEF EndOrder, RowsRead, arguments
    <2>3. RaisesForCause'
      BY <1>6, <2>1, RaisesKept DEF EndOrder
    <2> QED BY <1>6, <2>1, <2>3, RowsInvKept DEF EndOrder
  <1>7. ASSUME NEW d \in Detectors, FindGaps(d) PROVE RowsInv'
    <2>1. RowsRead' = RowsRead /\ stage # "raised"
      BY <1>7 DEF FindGaps, RowsRead, arguments
    <2>3. RaisesForCause'
      BY <1>7, <2>1, RaisesKept DEF FindGaps
    <2> QED BY <1>7, <2>1, <2>3, RowsInvKept DEF FindGaps
  <1>8. CASE Annotate
    <2>1. RowsRead' = RowsRead /\ stage # "raised"
      BY <1>8 DEF Annotate, RowsRead, arguments
    <2>2. /\ DOMAIN observations' = DOMAIN observations
          /\ \A i \in DOMAIN observations :
               /\ observations'[i].row = observations[i].row
               /\ observations'[i].detector = observations[i].detector
               /\ observations'[i].observed_at = observations[i].observed_at
      BY <1>8, AnnotateKeeps
    <2>3. RaisesForCause'
      BY <1>8, <2>1, RaisesKept DEF Annotate
    <2> QED BY <1>8, <2>1, <2>2, <2>3, RowsInvKept DEF Annotate
  <1>9. CASE UNCHANGED vars
    <2>1. RowsRead' = RowsRead
      BY <1>9 DEF vars, RowsRead, arguments
    <2>2. RaisesForCause'
      BY <1>9, <2>1 DEF vars, arguments, RowsInv, RaisesForCause, Refused, Overflows
    <2> QED BY <1>9, <2>1, <2>2, RowsInvKept DEF vars
  <1> QED BY <1>1, <1>2, <1>3, <1>4, <1>5, <1>6, <1>7, <1>8, <1>9 DEF Next

LEMMA RowsInvariant == Spec => [](TypeOK /\ RowsInv)
  BY TypeOKInit, TypeOKNext, RowsInvInit, RowsInvNext, PTL DEF Spec

(* Of the rows of one key the first sound one is kept, for any archive. *)
THEOREM FirstSoundCorrect == Spec => []FirstSoundRowIsKept
  <1>1. RowsInv => FirstSoundRowIsKept
    BY DEF RowsInv, KeptIsFirst, FirstSound, Sound, FirstSoundRowIsKept
  <1> QED BY <1>1, RowsInvariant, PTL

(* No instant is guessed and none withheld, for any zone and any archive. *)
THEOREM TimestampsCorrect == Spec => []TimestampsReadBack
  <1>1. TypeOK /\ RowsInv => TimestampsReadBack
    <2> SUFFICES ASSUME TypeOK, RowsInv PROVE TimestampsReadBack
      OBVIOUS
    <2>1. ASSUME NEW i \in DOMAIN observations
          PROVE  /\ LocalAt(zone, observations[i].observed_at) = rows[observations[i].row].timestamp
                 /\ fold = NoFold =>
                      Readings(zone, rows[observations[i].row].timestamp) = {observations[i].observed_at}
      <3>1. observations[i] \in Observation
        BY DEF TypeOK
      <3>2. rows[observations[i].row] \in Rows
        BY <3>1 DEF TypeOK, Observation
      <3>3. observations[i].observed_at \in ObservedAt(rows[observations[i].row])
        BY DEF RowsInv, Resolved
      <3> QED BY <3>2, <3>3, ObservedAtReadsBack
    <2>2. ASSUME NEW i \in DOMAIN rejected_rows,
                 "timestamp" \in rejected_rows[i].reasons,
                 rows[rejected_rows[i].row].timestamp \notin {Missing, Text}
          PROVE  Cardinality(Readings(zone, rows[rejected_rows[i].row].timestamp)) # 1
      <3>1. rejected_rows[i] \in Rejection
        BY DEF TypeOK
      <3>2. rows[rejected_rows[i].row] \in Rows
        BY <3>1 DEF TypeOK, Rejection
      <3>3. ObservedAt(rows[rejected_rows[i].row]) = {}
        BY <2>2 DEF RowsInv, Resolved
      <3> QED BY <2>2, <3>2, <3>3, UnresolvedIsNotUnique
    <2> QED BY <2>1, <2>2 DEF TimestampsReadBack
  <1> QED BY <1>1, RowsInvariant, PTL

-----------------------------------------------------------------------------
(* The annotation *)

OrderIssues(n) ==
  {Issue(observations[i], "non_monotonic") : i \in {i \in 1..n : OutOfOrder(i)}}
GapIssues(D) ==
  {Issue(observations[i], "gap") : i \in
     {i \in 1..Len(observations) : observations[i].detector \in D /\ AfterGap(i)}}

(* previous has the last of the first n observations of each detector. *)
PreviousIsLast(n) ==
  \A d \in Detectors :
     \/ previous[d] = Missing /\ \A i \in Of(d) : i > n
     \/ \E i \in Of(d) : /\ i <= n /\ previous[d] = observations[i].observed_at
                        /\ \A k \in Of(d) : k <= i \/ k > n

(* What the stages of the annotation have found so far. *)
BeforeIssues ==
  stage = "rows" => issues = {} /\ by_detector = {} /\ previous = [d \in Detectors |-> Missing]
OrderFound ==
  stage = "order" =>
    /\ issues = OrderIssues(row_number - 1)
    /\ PreviousIsLast(row_number - 1)
    /\ by_detector = {observations[i].detector : i \in 1..(row_number - 1)}
GapsFound ==
  stage = "gaps" =>
    issues = OrderIssues(Len(observations)) \cup GapIssues(Detectors \ by_detector)
NotMarkedYet ==
  stage # "done" =>
    \A i \in DOMAIN observations : observations[i].warnings \cap Kinds = {}
IntervalIsPositive ==
  stage \in {"order", "gaps"} => interval \in Int /\ interval > 0

MarksInv ==
  /\ BeforeIssues /\ OrderFound /\ GapsFound /\ NotMarkedYet /\ IntervalIsPositive
  /\ MarksAreOfNeighbours

LEMMA OfType ==
  ASSUME TypeOK, NEW d
  PROVE  /\ Cardinality(Of(d)) \in Nat
         /\ \A i \in Of(d) : /\ i \in 1..Len(observations) /\ i \in Int
                            /\ observations[i].detector = d
                            /\ observations[i].observed_at \in Int
  <1>1. Len(observations) \in Nat
    BY DEF TypeOK
  <1>2. IsFiniteSet(1..Len(observations))
    BY <1>1, FS_Interval
  <1>3. IsFiniteSet(Of(d))
    BY <1>2, FS_Subset DEF Of
  <1>4. ASSUME NEW i \in Of(d) PROVE observations[i].observed_at \in Int
    <2>1. observations[i] \in Observation
      BY DEF Of, TypeOK
    <2> QED BY <2>1 DEF Observation
  <1> QED BY <1>3, <1>4, FS_CardinalityType DEF Of

(* A nonempty set of positions has a least one. *)
LEMMA LeastPosition ==
  ASSUME NEW P \in SUBSET Nat, P # {}
  PROVE  \E m \in P : \A k \in P : m <= k
  <1> DEFINE less == OpToRel(<, Nat)
  <1>1. IsWellFoundedOn(less, Nat)
    BY NatLessThanWellFounded
  <1>2. PICK m \in P : \A k \in P : ~(<<k, m>> \in less)
    BY <1>1, WFMin
  <1>3. \A k \in P : ~(k < m)
    BY <1>2 DEF OpToRel
  <1> QED BY <1>3

(* In a sorted order the neighbours too far apart are those after a gap. *)
LEMMA NeighboursShowGaps ==
  ASSUME TypeOK, interval \in Int, interval > 0, NEW d \in Detectors,
         NEW order \in SortedOrders(d)
  PROVE  {Issue(observations[order[i]], "gap") : i \in
            {i \in DOMAIN order : i > 1 /\
               observations[order[i]].observed_at
                 - observations[order[i - 1]].observed_at > interval}}
         = GapIssues({d})
  <1> DEFINE n == Cardinality(Of(d))
             T(i) == observations[order[i]].observed_at
  <1>1. n \in Nat /\ DOMAIN order = 1..n
    BY OfType DEF SortedOrders
  <1>2. ASSUME NEW i \in 1..n PROVE order[i] \in Of(d) /\ T(i) \in Int
    BY <1>1, OfType DEF SortedOrders
  <1>3. \A i, j \in 1..n : i <= j => T(i) <= T(j)
    BY <1>1, <1>2 DEF SortedOrders
  <1>4. \A k \in Of(d) : \E m \in 1..n : order[m] = k
    BY <1>1 DEF SortedOrders
  <1>5. ASSUME NEW i \in 1..n, i > 1, T(i) - T(i - 1) > interval
        PROVE  Issue(observations[order[i]], "gap") \in GapIssues({d})
    <2>1. i - 1 \in 1..n
      BY <1>1, <1>5
    <2>2. order[i] \in Of(d) /\ order[i - 1] \in Of(d)
      BY <1>2, <2>1
    <2>3. ASSUME NEW k \in Of(d)
          PROVE  observations[k].observed_at <= T(i - 1) \/ observations[k].observed_at >= T(i)
      <3>1. PICK m \in 1..n : order[m] = k
        BY <1>4
      <3>2. m <= i - 1 \/ i <= m
        BY <1>1
      <3> QED BY <1>2, <1>3, <2>1, <3>1, <3>2
    <2>4. order[i] \in 1..Len(observations) /\ observations[order[i]].detector = d
      BY <2>2, OfType
    <2>5. AfterGap(order[i])
      BY <1>5, <2>2, <2>3, <2>4 DEF AfterGap
    <2> QED BY <2>4, <2>5 DEF GapIssues
  <1>6. ASSUME NEW k \in 1..Len(observations), observations[k].detector = d, AfterGap(k)
        PROVE  \E i \in 1..n : /\ i > 1 /\ T(i) - T(i - 1) > interval
                              /\ Issue(observations[order[i]], "gap") = Issue(observations[k], "gap")
    <2> DEFINE t == observations[k].observed_at
               P == {m \in 1..n : T(m) >= t}
    <2>1. k \in Of(d) /\ t \in Int
      BY <1>6, OfType DEF Of
    <2>2. PICK j \in Of(d) :
            /\ t - observations[j].observed_at > interval
            /\ \A l \in Of(d) : observations[l].observed_at <= observations[j].observed_at
                               \/ observations[l].observed_at >= t
      BY <1>6 DEF AfterGap
    <2>3. PICK at \in 1..n : order[at] = k
      BY <1>4, <2>1
    <2>4. PICK from \in 1..n : order[from] = j
      BY <1>4
    <2>5. at \in P /\ P \in SUBSET Nat
      BY <1>1, <2>1, <2>3
    <2>6. PICK m \in P : \A l \in P : m <= l
      BY <2>5, LeastPosition
    <2>7. T(m) = t
      BY <1>2, <1>3, <2>1, <2>3, <2>5, <2>6
    <2>8. T(from) = observations[j].observed_at /\ T(from) < t /\ T(from) \in Int
      BY <1>2, <2>1, <2>2, <2>4
    <2>9. from < m
      BY <1>1, <1>2, <1>3, <2>7, <2>8, <2>6
    <2>10. m > 1 /\ m - 1 \in 1..n /\ m - 1 \notin P
      BY <1>1, <2>6, <2>9
    <2>11. T(m - 1) < t /\ T(m - 1) \in Int /\ order[m - 1] \in Of(d)
      BY <1>2, <2>1, <2>10
    <2>12. T(m - 1) <= T(from)
      <3>1. T(m - 1) <= observations[j].observed_at \/ T(m - 1) >= t
        BY <2>2, <2>11
      <3> QED BY <2>1, <2>8, <2>11, <3>1
    <2>13. T(m) - T(m - 1) > interval
      BY <2>1, <2>2, <2>7, <2>8, <2>11, <2>12
    <2>14. Issue(observations[order[m]], "gap") = Issue(observations[k], "gap")
      BY <1>2, <1>6, <2>6, <2>7, OfType DEF Issue
    <2> QED BY <2>6, <2>10, <2>13, <2>14
  <1>7. \A i \in GapIssues({d}) : \E k \in 1..Len(observations) :
          observations[k].detector = d /\ AfterGap(k) /\ i = Issue(observations[k], "gap")
    BY DEF GapIssues
  <1> HIDE DEF n
  <1> QED BY <1>1, <1>5, <1>6, <1>7

(* The next observation is out of order exactly if previous is later. *)
LEMMA PreviousShowsOrder ==
  ASSUME TypeOK, NEW r \in 1..Len(observations), PreviousIsLast(r - 1)
  PROVE  OutOfOrder(r) <=>
           /\ previous[observations[r].detector] # Missing
           /\ observations[r].observed_at < previous[observations[r].detector]
  <1> DEFINE d == observations[r].detector
  <1>1. observations[r] \in Observation
    BY DEF TypeOK
  <1>2. d \in Detectors /\ observations[r].observed_at \in Int /\ r \in Int
    BY <1>1 DEF Observation
  <1>3. CASE previous[d] = Missing /\ \A i \in Of(d) : i > r - 1
    <2>1. \A i \in Of(d) : i \in Int /\ ~(i < r)
      BY <1>2, <1>3, OfType
    <2> QED BY <1>3, <2>1 DEF OutOfOrder
  <1>4. CASE \E i \in Of(d) : /\ i <= r - 1 /\ previous[d] = observations[i].observed_at
                             /\ \A k \in Of(d) : k <= i \/ k > r - 1
    <2>1. PICK i \in Of(d) : /\ i <= r - 1 /\ previous[d] = observations[i].observed_at
                             /\ \A k \in Of(d) : k <= i \/ k > r - 1
      BY <1>4
    <2>2. previous[d] # Missing /\ i \in Int
      BY <2>1, OfType, MarksAssumption
    <2>3. i < r /\ \A k \in Of(d) : k <= i \/ k >= r
      BY <1>2, <2>1, <2>2, OfType
    <2>4. ASSUME OutOfOrder(r) PROVE observations[r].observed_at < previous[d]
      <3>1. PICK j \in Of(d) : /\ j < r /\ observations[r].observed_at < observations[j].observed_at
                              /\ \A k \in Of(d) : k <= j \/ k >= r
        BY <2>4 DEF OutOfOrder
      <3>2. i = j
        BY <1>2, <2>2, <2>3, <3>1, OfType
      <3> QED BY <2>1, <3>1, <3>2
    <2>5. ASSUME observations[r].observed_at < previous[d] PROVE OutOfOrder(r)
      BY <2>1, <2>3, <2>5 DEF OutOfOrder
    <2> QED BY <2>2, <2>4, <2>5
  <1> QED BY <1>2, <1>3, <1>4 DEF PreviousIsLast

(* Detectors, instants and the interval decide the marks. *)
LEMMA MarksFix ==
  ASSUME TypeOK, interval' = interval, Len(observations') = Len(observations),
         DOMAIN observations' = DOMAIN observations,
         \A i \in DOMAIN observations :
            /\ observations'[i].detector = observations[i].detector
            /\ observations'[i].observed_at = observations[i].observed_at
  PROVE  /\ \A d : Of(d)' = Of(d)
         /\ \A i \in DOMAIN observations : AfterGap(i)' = AfterGap(i)
         /\ \A i \in DOMAIN observations : OutOfOrder(i)' = OutOfOrder(i)
  <1>1. DOMAIN observations = 1..Len(observations)
    BY DEF TypeOK
  <1>2. ASSUME NEW d PROVE Of(d)' = Of(d) /\ Of(d) \subseteq DOMAIN observations
    BY <1>1 DEF Of
  <1>3. ASSUME NEW i \in DOMAIN observations
        PROVE  AfterGap(i)' = AfterGap(i)
    BY <1>2 DEF AfterGap
  <1>4. ASSUME NEW i \in DOMAIN observations
        PROVE  OutOfOrder(i)' = OutOfOrder(i)
    BY <1>2 DEF OutOfOrder
  <1> QED BY <1>2, <1>3, <1>4

LEMMA MarksInvInit == Init => MarksInv
  BY DEF Init, MarksInv, BeforeIssues, OrderFound, GapsFound, NotMarkedYet,
         IntervalIsPositive, MarksAreOfNeighbours

LEMMA MarksInvRows ==
  ASSUME TypeOK, MarksInv, Raise \/ Reject \/ Accept
  PROVE  MarksInv'
  <1>1. stage = "rows" /\ stage' \in {"rows", "raised"} /\ UNCHANGED annotation
    BY DEF Raise, Reject, Accept, Reading
  <1>2. NotMarkedYet'
    <2>1. CASE UNCHANGED observations
      BY <1>1, <2>1 DEF MarksInv, NotMarkedYet
    <2>2. ASSUME NEW o, observations' = Append(observations, o), o.warnings \cap Kinds = {}
          PROVE  NotMarkedYet'
      <3>1. observations \in Seq(Observation)
        BY DEF TypeOK
      <3>2. /\ DOMAIN observations' = DOMAIN observations \cup {Len(observations) + 1}
            /\ \A i \in DOMAIN observations : observations'[i] = observations[i]
            /\ observations'[Len(observations) + 1] = o
        BY <2>2, <3>1
      <3> QED BY <1>1, <2>2, <3>2 DEF MarksInv, NotMarkedYet
    <2>3. CASE Accept
      <3>1. PICK t : observations' = Append(observations,
                       [row |-> row_number, detector |-> Current.detector, observed_at |-> t,
                        warnings |-> QualityWarnings(Current)])
        BY <2>3 DEF Accept
      <3>2. [row |-> row_number, detector |-> Current.detector, observed_at |-> t,
             warnings |-> QualityWarnings(Current)].warnings \cap Kinds = {}
        BY MessageTypes
      <3> QED BY <2>2, <3>1, <3>2
    <2> QED BY <2>1, <2>3 DEF Raise, Reject
  <1> QED BY <1>1, <1>2 DEF MarksInv, BeforeIssues, OrderFound, GapsFound,
             IntervalIsPositive, MarksAreOfNeighbours, annotation

LEMMA MarksInvEndRows ==
  ASSUME TypeOK, MarksInv, EndRows
  PROVE  MarksInv'
  <1>1. /\ stage = "rows" /\ UNCHANGED <<arguments, observations, annotation>>
        /\ stage' = IF interval = Missing THEN "done"
                    ELSE IF interval <= 0 THEN "raised" ELSE "order"
        /\ row_number' = 1
    BY DEF EndRows
  <1>2. interval \in Int \cup {Missing} /\ interval' = interval
    BY <1>1, ArchiveAssumption DEF TypeOK, arguments
  <1>3. OrderFound'
    <2>1. SUFFICES ASSUME stage' = "order" PROVE OrderFound'
      BY DEF OrderFound
    <2>2. issues' = {} /\ by_detector' = {} /\ previous' = [d \in Detectors |-> Missing]
      BY <1>1 DEF MarksInv, BeforeIssues, annotation
    <2>3. issues' = OrderIssues(row_number - 1)'
      BY <1>1, <2>2 DEF OrderIssues
    <2>4. PreviousIsLast(row_number - 1)'
      <3>1. \A d \in Detectors : \A i \in Of(d)' : i > 0
        BY <1>1 DEF Of, TypeOK
      <3> QED BY <1>1, <2>2, <3>1 DEF PreviousIsLast
    <2>5. by_detector' = {observations[i].detector : i \in 1..(row_number - 1)}'
      BY <1>1, <2>2
    <2> QED BY <2>3, <2>4, <2>5 DEF OrderFound
  <1>4. GapsFound' /\ BeforeIssues'
    BY <1>1 DEF GapsFound, BeforeIssues
  <1>5. IntervalIsPositive'
    BY <1>1, <1>2 DEF IntervalIsPositive
  <1>6. NotMarkedYet' /\ MarksAreOfNeighbours'
    BY <1>1, <1>2 DEF MarksInv, NotMarkedYet, MarksAreOfNeighbours
  <1> QED BY <1>3, <1>4, <1>5, <1>6 DEF MarksInv

LEMMA MarksInvCompareOrder ==
  ASSUME TypeOK, MarksInv, CompareOrder
  PROVE  MarksInv'
  <1>0. PICK r \in 1..Len(observations) : r = row_number
    BY DEF CompareOrder, TypeOK
  <1> DEFINE o == observations[r]
  <1>1. /\ stage = "order" /\ stage' = "order" /\ row_number' - 1 = r
        /\ observations' = observations /\ interval' = interval
        /\ issues' = issues \cup
             Given(previous[o.detector] # Missing /\ o.observed_at < previous[o.detector],
                   Issue(o, "non_monotonic"))
        /\ previous' = [previous EXCEPT ![o.detector] = o.observed_at]
        /\ by_detector' = by_detector \cup {o.detector}
    BY <1>0 DEF CompareOrder, TypeOK, arguments
  <1>2. issues = OrderIssues(r - 1) /\ PreviousIsLast(r - 1)
        /\ by_detector = {observations[i].detector : i \in 1..(r - 1)}
    BY <1>0, <1>1 DEF MarksInv, OrderFound
  <1>3. 1..r = 1..(r - 1) \cup {r} /\ r \in Int /\ DOMAIN observations = 1..Len(observations)
    BY <1>0 DEF TypeOK
  <1>4. o \in Observation
    BY <1>0 DEF TypeOK
  <1>5. o.detector \in Detectors /\ r \in Of(o.detector)
    BY <1>0, <1>4 DEF Observation, Of
  <1>6. \A d : Of(d)' = Of(d)
    BY <1>1 DEF Of
  <1>7. \A i : OutOfOrder(i)' = OutOfOrder(i)
    BY <1>1, <1>6 DEF OutOfOrder
  <1>8. issues' = OrderIssues(row_number - 1)'
    <2>1. OrderIssues(r) = OrderIssues(r - 1) \cup Given(OutOfOrder(r), Issue(o, "non_monotonic"))
      BY <1>3 DEF OrderIssues, Given
    <2>2. issues' = OrderIssues(r - 1) \cup Given(OutOfOrder(r), Issue(o, "non_monotonic"))
      BY <1>0, <1>1, <1>2, PreviousShowsOrder DEF Given
    <2>3. OrderIssues(row_number - 1)' = OrderIssues(r)
      BY <1>1, <1>7 DEF OrderIssues, Issue
    <2> QED BY <2>1, <2>2, <2>3
  <1>9. PreviousIsLast(row_number - 1)'
    <2>1. ASSUME NEW d \in Detectors
          PROVE  \/ previous'[d] = Missing /\ \A i \in Of(d) : i > r
                 \/ \E i \in Of(d) : /\ i <= r /\ previous'[d] = observations[i].observed_at
                                    /\ \A k \in Of(d) : k <= i \/ k > r
      <3>1. CASE d = o.detector
        <4>1. previous'[d] = observations[r].observed_at
          BY <1>1, <1>5, <3>1 DEF TypeOK
        <4>2. \A k \in Of(d) : k <= r \/ k > r
          BY <1>3, OfType
        <4> QED BY <1>3, <1>5, <3>1, <4>1, <4>2
      <3>2. CASE d # o.detector
        <4>1. previous'[d] = previous[d]
          BY <1>1, <3>2 DEF TypeOK
        <4>2. \A k \in Of(d) : k \in Int /\ k # r
          BY <3>2, OfType
        <4>3. CASE previous[d] = Missing /\ \A i \in Of(d) : i > r - 1
          BY <1>3, <4>1, <4>2, <4>3
        <4>4. CASE \E i \in Of(d) : /\ i <= r - 1 /\ previous[d] = observations[i].observed_at
                                   /\ \A k \in Of(d) : k <= i \/ k > r - 1
          <5>1. PICK i \in Of(d) : /\ i <= r - 1 /\ previous[d] = observations[i].observed_at
                                   /\ \A k \in Of(d) : k <= i \/ k > r - 1
            BY <4>4
          <5>2. i <= r /\ \A k \in Of(d) : k <= i \/ k > r
            BY <1>3, <4>2, <5>1
          <5> QED BY <4>1, <5>1, <5>2
        <4> QED BY <1>2, <4>3, <4>4 DEF PreviousIsLast
      <3> QED BY <3>1, <3>2
    <2> QED BY <1>1, <1>6, <2>1 DEF PreviousIsLast
  <1>10. by_detector' = {observations'[i].detector : i \in 1..(row_number' - 1)}
    BY <1>1, <1>2, <1>3
  <1>11. OrderFound' /\ GapsFound' /\ BeforeIssues'
    BY <1>1, <1>8, <1>9, <1>10 DEF OrderFound, GapsFound, BeforeIssues
  <1>12. NotMarkedYet' /\ IntervalIsPositive' /\ MarksAreOfNeighbours'
    BY <1>1 DEF MarksInv, NotMarkedYet, IntervalIsPositive, MarksAreOfNeighbours
  <1> QED BY <1>11, <1>12 DEF MarksInv

(* Steps that leave the observations alone leave their marks alone. *)
LEMMA MarksUnchanged ==
  ASSUME UNCHANGED <<interval, observations>>
  PROVE  /\ \A n : OrderIssues(n)' = OrderIssues(n)
         /\ \A D : GapIssues(D)' = GapIssues(D)
         /\ \A d : Of(d)' = Of(d)
         /\ \A i : AfterGap(i)' = AfterGap(i)
         /\ \A i : OutOfOrder(i)' = OutOfOrder(i)
  <1>1. \A d : Of(d)' = Of(d)
    BY DEF Of
  <1>2. \A i : AfterGap(i)' = AfterGap(i)
    BY <1>1 DEF AfterGap
  <1>3. \A i : OutOfOrder(i)' = OutOfOrder(i)
    BY <1>1 DEF OutOfOrder
  <1>4. \A n : OrderIssues(n)' = OrderIssues(n)
    BY <1>3 DEF OrderIssues, Issue
  <1>5. \A D : GapIssues(D)' = GapIssues(D)
    BY <1>2 DEF GapIssues, Issue
  <1> QED BY <1>1, <1>2, <1>3, <1>4, <1>5

LEMMA MarksInvEndOrder ==
  ASSUME TypeOK, MarksInv, EndOrder
  PROVE  MarksInv'
  <1>1. /\ stage = "order" /\ stage' = "gaps" /\ row_number = Len(observations) + 1
        /\ UNCHANGED <<interval, observations, annotation>>
    BY DEF EndOrder, arguments
  <1>2. Len(observations) \in Nat /\ row_number - 1 = Len(observations)
        /\ DOMAIN observations = 1..Len(observations)
    BY <1>1 DEF TypeOK
  <1>3. issues = OrderIssues(Len(observations))
        /\ by_detector = {observations[i].detector : i \in 1..Len(observations)}
    BY <1>1, <1>2 DEF MarksInv, OrderFound
  <1>4. GapIssues(Detectors \ by_detector) = {}
    BY <1>3 DEF GapIssues
  <1>5. issues' = OrderIssues(Len(observations))' \cup GapIssues(Detectors \ by_detector)'
    BY <1>1, <1>3, <1>4, MarksUnchanged DEF annotation
  <1>6. GapsFound'
    BY <1>5 DEF GapsFound
  <1> QED BY <1>1, <1>6 DEF MarksInv, BeforeIssues, OrderFound, NotMarkedYet,
             IntervalIsPositive, MarksAreOfNeighbours

LEMMA MarksInvFindGaps ==
  ASSUME TypeOK, MarksInv, NEW d \in Detectors, FindGaps(d)
  PROVE  MarksInv'
  <1>1. /\ stage = "gaps" /\ stage' = "gaps" /\ d \in by_detector
        /\ by_detector' = by_detector \ {d}
        /\ UNCHANGED <<interval, observations>>
    BY DEF FindGaps, arguments
  <1>2. interval \in Int /\ interval > 0
    BY <1>1 DEF MarksInv, IntervalIsPositive
  <1>3. issues' = issues \cup GapIssues({d})
    BY <1>2, NeighboursShowGaps DEF FindGaps
  <1>4. GapIssues(Detectors \ by_detector') = GapIssues(Detectors \ by_detector) \cup GapIssues({d})
    BY <1>1 DEF GapIssues
  <1>5. issues' = OrderIssues(Len(observations)) \cup GapIssues(Detectors \ by_detector')
    BY <1>1, <1>3, <1>4 DEF MarksInv, GapsFound
  <1>6. OrderIssues(Len(observations))' = OrderIssues(Len(observations))
        /\ GapIssues(Detectors \ by_detector)' = GapIssues(Detectors \ by_detector')
    <2>1. \A i : AfterGap(i)' = AfterGap(i) /\ OutOfOrder(i)' = OutOfOrder(i)
      BY <1>1, MarksUnchanged
    <2> QED BY <1>1, <2>1 DEF OrderIssues, GapIssues, Issue
  <1>7. GapsFound'
    BY <1>5, <1>6 DEF GapsFound
  <1> QED BY <1>1, <1>7 DEF MarksInv, BeforeIssues, OrderFound, NotMarkedYet,
             IntervalIsPositive, MarksAreOfNeighbours

(* The observation of a mark's key is the one the mark is for. *)
LEMMA MarksInvAnnotate ==
  ASSUME TypeOK, RowsInv, MarksInv, Annotate
  PROVE  MarksInv'
  <1>1. stage = "gaps" /\ stage' = "done" /\ by_detector = {} /\ interval' = interval
    BY DEF Annotate, arguments
  <1>2. issues = OrderIssues(Len(observations)) \cup GapIssues(Detectors)
    BY <1>1 DEF MarksInv, GapsFound
  <1>3. /\ Len(observations') = Len(observations) /\ DOMAIN observations' = DOMAIN observations
        /\ \A i \in DOMAIN observations :
             /\ observations'[i].detector = observations[i].detector
             /\ observations'[i].observed_at = observations[i].observed_at
    BY AnnotateKeeps
  <1>4. DOMAIN observations = 1..Len(observations)
    BY DEF TypeOK
  <1>5. ASSUME NEW i \in DOMAIN observations
        PROVE  /\ "gap" \in observations'[i].warnings <=> AfterGap(i)
               /\ "non_monotonic" \in observations'[i].warnings <=> OutOfOrder(i)
    <2> DEFINE key(issue) == /\ issue.detector = observations[i].detector
                             /\ issue.observed_at = observations[i].observed_at
    <2>1. observations'[i].warnings =
            observations[i].warnings \cup {issue.kind : issue \in {issue \in issues : key(issue)}}
      BY AnnotateKeeps
    <2>2. observations[i].warnings \cap Kinds = {}
      BY <1>1 DEF MarksInv, NotMarkedYet
    <2>3. \A kind \in Kinds : kind \in observations'[i].warnings
            <=> \E issue \in issues : key(issue) /\ issue.kind = kind
      BY <2>1, <2>2
    <2>4. observations[i] \in Observation
      BY DEF TypeOK
    <2>5. observations[i].detector \in Detectors
      BY <2>4 DEF Observation
    <2>6. (\E issue \in issues : key(issue) /\ issue.kind = "gap") <=> AfterGap(i)
      <3>1. ASSUME NEW j \in DOMAIN observations, AfterGap(j), key(Issue(observations[j], "gap"))
            PROVE  AfterGap(i)
        BY <3>1 DEF AfterGap, Issue
      <3>2. AfterGap(i) => Issue(observations[i], "gap") \in issues
        BY <1>2, <1>4, <2>5 DEF GapIssues
      <3>3. key(Issue(observations[i], "gap")) /\ Issue(observations[i], "gap").kind = "gap"
        BY DEF Issue
      <3>4. ASSUME NEW issue \in issues, issue.kind = "gap"
            PROVE  \E j \in DOMAIN observations : AfterGap(j) /\ issue = Issue(observations[j], "gap")
        <4>1. issue \notin OrderIssues(Len(observations))
          BY <3>4 DEF OrderIssues, Issue
        <4> QED BY <1>2, <1>4, <4>1 DEF GapIssues
      <3> HIDE DEF key
      <3> QED BY <3>1, <3>2, <3>3, <3>4
    <2>7. (\E issue \in issues : key(issue) /\ issue.kind = "non_monotonic") <=> OutOfOrder(i)
      <3>1. ASSUME NEW j \in DOMAIN observations, key(Issue(observations[j], "non_monotonic"))
            PROVE  i = j
        BY <3>1 DEF Issue, RowsInv, KeysDiffer
      <3>2. OutOfOrder(i) => Issue(observations[i], "non_monotonic") \in issues
        BY <1>2, <1>4 DEF OrderIssues
      <3>3. key(Issue(observations[i], "non_monotonic"))
            /\ Issue(observations[i], "non_monotonic").kind = "non_monotonic"
        BY DEF Issue
      <3>4. ASSUME NEW issue \in issues, issue.kind = "non_monotonic"
            PROVE  \E j \in DOMAIN observations :
                     OutOfOrder(j) /\ issue = Issue(observations[j], "non_monotonic")
        <4>1. issue \notin GapIssues(Detectors)
          BY <3>4 DEF GapIssues, Issue
        <4> QED BY <1>2, <1>4, <4>1 DEF OrderIssues
      <3> HIDE DEF key
      <3> QED BY <3>1, <3>2, <3>3, <3>4
    <2> QED BY <2>3, <2>6, <2>7 DEF Kinds
  <1>6. \A i \in DOMAIN observations :
          AfterGap(i)' = AfterGap(i) /\ OutOfOrder(i)' = OutOfOrder(i)
    BY <1>1, <1>3, MarksFix
  <1>7. MarksAreOfNeighbours'
    BY <1>3, <1>5, <1>6 DEF MarksAreOfNeighbours
  <1> QED BY <1>1, <1>7 DEF MarksInv, BeforeIssues, OrderFound, GapsFound, NotMarkedYet,
             IntervalIsPositive

LEMMA MarksInvStutter ==
  ASSUME MarksInv, UNCHANGED vars
  PROVE  MarksInv'
  <1>1. UNCHANGED <<interval, observations, stage, row_number, previous, by_detector, issues>>
    BY DEF vars, arguments, annotation
  <1>2. OrderFound' /\ GapsFound' /\ BeforeIssues'
    <2>1. \A i : AfterGap(i)' = AfterGap(i) /\ OutOfOrder(i)' = OutOfOrder(i)
      BY <1>1, MarksUnchanged
    <2>2. OrderIssues(row_number - 1)' = OrderIssues(row_number - 1)
          /\ OrderIssues(Len(observations))' = OrderIssues(Len(observations))
          /\ GapIssues(Detectors \ by_detector)' = GapIssues(Detectors \ by_detector)
      BY <1>1, <2>1 DEF OrderIssues, GapIssues, Issue
    <2>3. PreviousIsLast(row_number - 1)' <=> PreviousIsLast(row_number - 1)
      BY <1>1 DEF PreviousIsLast, Of
    <2> QED BY <1>1, <2>2, <2>3 DEF MarksInv, OrderFound, GapsFound, BeforeIssues
  <1>3. NotMarkedYet' /\ IntervalIsPositive' /\ MarksAreOfNeighbours'
    BY <1>1, MarksUnchanged DEF MarksInv, NotMarkedYet, IntervalIsPositive, MarksAreOfNeighbours
  <1> QED BY <1>2, <1>3 DEF MarksInv

LEMMA MarksInvNext == TypeOK /\ RowsInv /\ MarksInv /\ [Next]_vars => MarksInv'
  BY MarksInvRows, MarksInvEndRows, MarksInvCompareOrder, MarksInvEndOrder,
     MarksInvFindGaps, MarksInvAnnotate, MarksInvStutter DEF Next

(* Gap and order marks are of the neighbours in time and in the file, for  *)
(* any archive, any number of detectors and any interval.                  *)
THEOREM MarksCorrect == Spec => []MarksAreOfNeighbours
  <1>1. Spec => []MarksInv
    BY RowsInvariant, MarksInvInit, MarksInvNext, PTL DEF Spec
  <1>2. MarksInv => MarksAreOfNeighbours
    BY DEF MarksInv
  <1> QED BY <1>1, <1>2, PTL

=============================================================================
