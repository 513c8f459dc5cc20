---------------------------- MODULE TrafficArchive ----------------------------
(***************************************************************************)
(* The reading of a traffic archive: the row loop of parse_traffic_csv     *)
(* (ingestion/traffic.py) and annotate_temporal_quality                    *)
(* (processing/traffic_quality.py), as load_traffic_archive calls them.    *)
(*                                                                         *)
(* A row is what its fields parse to: a number, Missing, Text that is no   *)
(* number (or NaN, for a count) or Infinite.  Rows count from 1.  The      *)
(* header has all configured columns; whether it has not is known before   *)
(* the first row.  Times are whole seconds, as the format has them.        *)
(***************************************************************************)
EXTENDS LocalTime, Sequences, FiniteSets

CONSTANTS
  Detectors,
  Rows,       \* the rows an archive may have
  MaxRows,    \* bound: rows of an archive
  Zones,      \* the zone of the archive, near one of its transitions
  Intervals,  \* expected_interval_seconds, or Missing
  Missing, Text, Infinite

Field == Int \cup {Missing, Text, Infinite}

Row ==
  [detector : Detectors \cup {Missing}, timestamp : Int \cup {Missing, Text},
   count : Field, heavy : Field, speed : Field]

ASSUME MarksAssumption ==
  /\ {Missing, Text, Infinite} \cap Int = {} /\ Missing \notin Detectors
  /\ Missing # Text /\ Missing # Infinite /\ Text # Infinite
ASSUME ArchiveAssumption ==
  /\ Rows \subseteq Row /\ MaxRows \in Nat
  /\ Zones \subseteq Zone /\ Intervals \subseteq Int \cup {Missing}

VARIABLES
  rows, zone, fold, interval,   \* the call's arguments
  stage,         \* "rows", "order", "gaps", "done" or "raised"
  row_number,    \* the next row, then the next observation
  observations,
  rejected_rows,
  seen,          \* the pairs of detector and instant accepted
  previous,      \* previous_in_source_order
  by_detector,   \* the detectors whose gaps are still to be found
  issues

arguments == <<rows, zone, fold, interval>>
annotation == <<previous, by_detector, issues>>
vars == <<arguments, stage, row_number, observations, rejected_rows, seen, annotation>>

Init ==
  /\ rows \in UNION {[1..n -> Rows] : n \in 0..MaxRows}
  /\ zone \in Zones /\ fold \in Folds /\ interval \in Intervals
  /\ stage = "rows"
  /\ row_number = 1
  /\ observations = <<>> /\ rejected_rows = <<>>
  /\ seen = {}
  /\ previous = [d \in Detectors |-> Missing]
  /\ by_detector = {}
  /\ issues = {}

-----------------------------------------------------------------------------
(* One row by itself *)

(* The instant a row's timestamp stands for; nothing if it has none. *)
ObservedAt(row) ==
  IF row.timestamp \in {Missing, Text} THEN {} ELSE LocalToUtc(zone, row.timestamp, fold)

(* int() of an infinite number raises OverflowError, which nothing catches; *)
(* a field before it that is no number raises ValueError first.             *)
Overflows(row) == row.count = Infinite \/ (row.count # Text /\ row.heavy = Infinite)

(* A field that is no number makes all three missing. *)
Measured(row) ==
  IF Text \in {row.count, row.heavy, row.speed}
  THEN [count |-> Missing, heavy |-> Missing, speed |-> Missing]
  ELSE [count |-> row.count, heavy |-> row.heavy, speed |-> row.speed]

Given(condition, message) == IF condition THEN {message} ELSE {}

RowReasons(row) ==
  LET value == Measured(row)
      negative(n) == n # Missing /\ n < 0
  IN  Given(row.detector = Missing, "detector")
      \cup Given(ObservedAt(row) = {}, "timestamp")
      \cup Given(Text \in {row.count, row.heavy, row.speed}, "non-numeric")
      \cup Given(negative(value.count) \/ negative(value.heavy), "negative")
      \cup Given(Missing \notin {value.count, value.heavy} /\ value.heavy > value.count,
                 "heavy exceeds count")
      \cup Given(value.speed = Infinite
                 \/ (value.speed # Missing /\ (value.speed < 0 \/ value.speed > 250)), "speed")
      \cup Given({value.count, value.heavy, value.speed} = {Missing}, "all missing")

QualityWarnings(row) ==
  LET value == Measured(row) IN
  Given(value.speed # Missing /\ value.speed > 160, "suspicious speed")
  \cup Given(value.count = Missing, "missing count")
  \cup Given(value.speed = Missing, "missing speed")

Key(row) == {row.detector} \X ObservedAt(row)

(* A row that has a key, and one that is accepted already. *)
Duplicate(row) ==
  row.detector # Missing /\ ObservedAt(row) # {} /\ Key(row) \subseteq seen

-----------------------------------------------------------------------------
(* The row loop *)

Current == rows[row_number]

Reading == stage = "rows" /\ row_number <= Len(rows)

Raise ==
  /\ Reading /\ Overflows(Current)
  /\ stage' = "raised"
  /\ UNCHANGED <<arguments, row_number, observations, rejected_rows, seen, annotation>>

(* Mutant: a rejected row makes a later one of its key a duplicate. *)
Reject_Remembers ==
  /\ Reading /\ ~Overflows(Current)
  /\ RowReasons(Current) # {} \/ Duplicate(Current)
  /\ rejected_rows' = Append(rejected_rows,
       [row |-> row_number,
        reasons |-> RowReasons(Current) \cup Given(Duplicate(Current), "duplicate")])
  /\ seen' = seen \cup Key(Current)
  /\ row_number' = row_number + 1
  /\ UNCHANGED <<arguments, stage, observations, annotation>>

Reject ==
  /\ Reading /\ ~Overflows(Current)
  /\ RowReasons(Current) # {} \/ Duplicate(Current)
  /\ rejected_rows' = Append(rejected_rows,
       [row |-> row_number,
        reasons |-> RowReasons(Current) \cup Given(Duplicate(Current), "duplicate")])
  /\ row_number' = row_number + 1
  /\ UNCHANGED <<arguments, stage, observations, seen, annotation>>

Accept ==
  /\ Reading /\ ~Overflows(Current)
  /\ RowReasons(Current) = {} /\ ~Duplicate(Current)
  /\ \E t \in ObservedAt(Current) :
       observations' = Append(observations,
         [row |-> row_number, detector |-> Current.detector, observed_at |-> t,
          warnings |-> QualityWarnings(Current)])
  /\ seen' = seen \cup Key(Current)
  /\ row_number' = row_number + 1
  /\ UNCHANGED <<arguments, stage, rejected_rows, annotation>>

(* All rows are read: the annotation is optional, and refuses an interval  *)
(* that is not positive.                                                   *)
EndRows ==
  /\ stage = "rows" /\ row_number = Len(rows) + 1
  /\ stage' = IF interval = Missing THEN "done"
              ELSE IF interval <= 0 THEN "raised" ELSE "order"
  /\ row_number' = 1
  /\ UNCHANGED <<arguments, observations, rejected_rows, seen, annotation>>

-----------------------------------------------------------------------------
(* annotate_temporal_quality *)

Issue(o, kind) == [detector |-> o.detector, observed_at |-> o.observed_at, kind |-> kind]

CompareOrder ==
  /\ stage = "order" /\ row_number <= Len(observations)
  /\ LET o == observations[row_number] IN
     /\ issues' = issues \cup
          Given(previous[o.detector] # Missing /\ o.observed_at < previous[o.detector],
                Issue(o, "non_monotonic"))
     /\ previous' = [previous EXCEPT ![o.detector] = o.observed_at]
     /\ by_detector' = by_detector \cup {o.detector}
  /\ row_number' = row_number + 1
  /\ UNCHANGED <<arguments, stage, observations, rejected_rows, seen>>

EndOrder ==
  /\ stage = "order" /\ row_number = Len(observations) + 1
  /\ stage' = "gaps"
  /\ UNCHANGED <<arguments, row_number, observations, rejected_rows, seen, annotation>>

Of(d) == {i \in 1..Len(observations) : observations[i].detector = d}

(* Mutant: the observations are compared in the order of the file. *)
SortedOrders_AsInTheFile(d) ==
  {order \in [1..Cardinality(Of(d)) -> Of(d)] :
     /\ {order[i] : i \in DOMAIN order} = Of(d)
     /\ \A i, j \in DOMAIN order : i < j => order[i] < order[j]}

(* The orders that list a detector's observations by their instants. *)
SortedOrders(d) ==
  {order \in [1..Cardinality(Of(d)) -> Of(d)] :
     /\ {order[i] : i \in DOMAIN order} = Of(d)
     /\ \A i, j \in DOMAIN order :
          i < j => observations[order[i]].observed_at <= observations[order[j]].observed_at}

(* Neighbours in such an order that are further apart than expected. *)
FindGaps(d) ==
  /\ stage = "gaps" /\ d \in by_detector
  /\ \E order \in SortedOrders(d) :
       issues' = issues \cup
         {Issue(observations[order[i]], "gap") : i \in
            {i \in DOMAIN order : i > 1 /\
               observations[order[i]].observed_at
                 - observations[order[i - 1]].observed_at > interval}}
  /\ by_detector' = by_detector \ {d}
  /\ UNCHANGED <<arguments, stage, row_number, observations, rejected_rows, seen, previous>>

(* The messages of all issues go to the observations of their key. *)
Annotate ==
  /\ stage = "gaps" /\ by_detector = {}
  /\ observations' =
       [i \in DOMAIN observations |->
          [observations[i] EXCEPT !.warnings = @ \cup
             {issue.kind : issue \in
                {issue \in issues : /\ issue.detector = observations[i].detector
                                    /\ issue.observed_at = observations[i].observed_at}}]]
  /\ stage' = "done"
  /\ UNCHANGED <<arguments, row_number, rejected_rows, seen, annotation>>

Next ==
  \/ Raise \/ Reject \/ Accept \/ EndRows
  \/ CompareOrder \/ EndOrder
  \/ \E d \in Detectors : FindGaps(d)
  \/ Annotate

Spec == Init /\ [][Next]_vars

-----------------------------------------------------------------------------
(* Properties *)

Kinds == {"non_monotonic", "gap"}
Reasons == {"detector", "timestamp", "non-numeric", "negative", "heavy exceeds count",
            "speed", "all missing", "duplicate"}
RowWarnings == {"suspicious speed", "missing count", "missing speed"}

Observation ==
  [row : 1..Len(rows), detector : Detectors, observed_at : Int,
   warnings : SUBSET (RowWarnings \cup Kinds)]
Rejection == [row : 1..Len(rows), reasons : SUBSET Reasons]
Issues == [detector : Detectors, observed_at : Int, kind : Kinds]

TypeOK ==
  /\ rows \in Seq(Rows) /\ zone \in Zones /\ fold \in Folds /\ interval \in Intervals
  /\ stage \in {"rows", "order", "gaps", "done", "raised"}
  /\ row_number \in Nat \ {0}
  /\ stage = "rows" => row_number <= Len(rows) + 1
  /\ stage = "order" => row_number <= Len(observations) + 1
  /\ observations \in Seq(Observation)
  /\ rejected_rows \in Seq(Rejection)
  /\ seen \in SUBSET (Detectors \X Int)
  /\ previous \in [Detectors -> Int \cup {Missing}]
  /\ by_detector \in SUBSET Detectors
  /\ issues \in SUBSET Issues

RowsRead == IF stage = "rows" THEN 1..(row_number - 1) ELSE DOMAIN rows
Accepted == {observations[i].row : i \in DOMAIN observations}
Rejected == {rejected_rows[i].row : i \in DOMAIN rejected_rows}

Refused == interval # Missing /\ interval <= 0

(* The call raises for an infinite count in any of the rows, and for the   *)
(* interval once all are read; where it has not, it has met neither.       *)
RaisesForCause ==
  /\ stage = "raised" => Refused \/ \E i \in DOMAIN rows : Overflows(rows[i])
  /\ stage # "raised" => \A i \in RowsRead : ~Overflows(rows[i])
  /\ stage \notin {"rows", "raised"} => ~Refused

(* Of the rows of one detector and instant the first that is sound by      *)
(* itself is kept, and it alone: a rejected row shuts out no later one.    *)
(* Every row read is accepted or rejected, never both, never lost; and the *)
(* whole archive is lost with one infinite count, wherever it stands.      *)
FirstSoundRowIsKept ==
  /\ RaisesForCause
  /\ stage # "raised" =>
       /\ Accepted = {i \in RowsRead :
            /\ RowReasons(rows[i]) = {}
            /\ \A j \in 1..(i - 1) : RowReasons(rows[j]) = {} => Key(rows[j]) # Key(rows[i])}
       /\ Rejected = RowsRead \ Accepted

(* No instant is guessed and none withheld: the clock reads what the row   *)
(* says at the instant recorded, without a fold at no other one; and a row *)
(* is not refused for its timestamp if one instant alone reads so.         *)
TimestampsReadBack ==
  /\ \A i \in DOMAIN observations :
       LET o == observations[i]
           local == rows[o.row].timestamp
       IN  /\ LocalAt(zone, o.observed_at) = local
           /\ fold = NoFold => Readings(zone, local) = {o.observed_at}
  /\ \A i \in DOMAIN rejected_rows :
       LET local == rows[rejected_rows[i].row].timestamp IN
       "timestamp" \in rejected_rows[i].reasons /\ local \notin {Missing, Text} =>
          Cardinality(Readings(zone, local)) # 1

(* The nearest earlier observation of the detector is too far away. *)
AfterGap(i) ==
  LET o == observations[i] IN
  \E j \in Of(o.detector) :
     /\ o.observed_at - observations[j].observed_at > interval
     /\ \A k \in Of(o.detector) : \/ observations[k].observed_at <= observations[j].observed_at
                                  \/ observations[k].observed_at >= o.observed_at

(* The one before it in the file, of the same detector, is later. *)
OutOfOrder(i) ==
  LET o == observations[i] IN
  \E j \in Of(o.detector) :
     /\ j < i /\ o.observed_at < observations[j].observed_at
     /\ \A k \in Of(o.detector) : k <= j \/ k >= i

(* Whatever the order of the file, an observation is marked with a gap     *)
(* exactly if the nearest earlier one of its detector is too far away, and *)
(* as out of order exactly if the one before it in the file is later.      *)
MarksAreOfNeighbours ==
  stage = "done" /\ interval # Missing =>
    \A i \in DOMAIN observations :
      /\ "gap" \in observations[i].warnings <=> AfterGap(i)
      /\ "non_monotonic" \in observations[i].warnings <=> OutOfOrder(i)

=============================================================================
