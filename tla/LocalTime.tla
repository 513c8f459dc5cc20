------------------------------ MODULE LocalTime ------------------------------
(***************************************************************************)
(* Local time around one transition of a zone (processing/temporal.py).    *)
(* A zone has the offset before until the instant transition and after     *)
(* from then on; when after is the smaller one, local times occur twice,   *)
(* and when it is the greater one, some do not occur.  Two transitions of  *)
(* a zone are months apart, so that one local time meets one of them.      *)
(* The offset of a local time is zoneinfo's, the fold that of PEP 495.     *)
(***************************************************************************)
EXTENDS Integers

Zone == [transition : Int, before : Int, after : Int]

NoFold == -1
Folds == {NoFold, 0, 1}

(* What the clock reads at instant t, and whether for the second time. *)
LocalAt(zone, t) ==
  t + (IF t < zone.transition THEN zone.before ELSE zone.after)
FoldAt(zone, t) ==
  IF zone.transition <= t /\ t < zone.transition + zone.before - zone.after
  THEN 1 ELSE 0

(* utcoffset(): the two folds differ where a reading occurs twice or never. *)
UtcOffset(zone, naive, fold) ==
  LET shifted == IF (fold = 0) = (zone.before > zone.after)
                 THEN zone.before ELSE zone.after IN
  IF naive < zone.transition + shifted THEN zone.before ELSE zone.after

(* Mutant: the conversion is not checked by converting back. *)
Candidate_NoRoundTrip(zone, naive, fold) ==
  {naive - UtcOffset(zone, naive, fold)}

(* The instant of a local time and fold, if there is one. *)
Candidate(zone, naive, fold) ==
  {t \in {naive - UtcOffset(zone, naive, fold)} :
     /\ LocalAt(zone, t) = naive
     /\ \/ FoldAt(zone, t) = fold
        \/ UtcOffset(zone, naive, fold) = UtcOffset(zone, naive, 1 - fold)}

(* The instant local_to_utc returns; nothing where it raises. *)
LocalToUtc(zone, naive, fold) ==
  LET first  == Candidate(zone, naive, 0)
      second == Candidate(zone, naive, 1)
      unique == first \cup second
  IN  IF \A t, u \in unique : t = u THEN unique
      ELSE IF fold = NoFold THEN {}
      ELSE IF fold = 0 THEN first ELSE second

-----------------------------------------------------------------------------

(* What there is to find: the instants at which the clock reads naive. *)
Readings(zone, naive) ==
  {t \in {naive - zone.before, naive - zone.after} : LocalAt(zone, t) = naive}

=============================================================================
