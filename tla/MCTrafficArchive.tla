--------------------------- MODULE MCTrafficArchive ---------------------------
(* Archives of a few rows around a clock going back and one going forward. *)
EXTENDS TrafficArchive

CONSTANTS d1, d2

MCDetectors == {d1, d2}

(* The reading 5 occurs twice in the first zone and never in the second. *)
MCZones == {[transition |-> 4, before |-> 2, after |-> 1],
            [transition |-> 4, before |-> 1, after |-> 2]}

MCIntervals == {Missing, 0, 1}

MCRow(d, time, count, heavy, speed) ==
  [detector |-> d, timestamp |-> time, count |-> count, heavy |-> heavy, speed |-> speed]

MCRows ==
  {MCRow(d1, time, 9, 1, 50) : time \in {3, 5, 6, 8}} \cup
  {MCRow(d2, 5, Missing, Missing, 200), MCRow(d2, 6, 9, 1, Missing),
   MCRow(Missing, 5, 9, 1, 50), MCRow(d1, Text, 9, 1, 50),
   MCRow(d1, 6, 1, 9, Infinite), MCRow(d1, 5, Infinite, 1, 50),
   MCRow(d2, 5, Text, Infinite, 50), MCRow(d1, 3, Missing, Missing, Missing)}

=============================================================================
