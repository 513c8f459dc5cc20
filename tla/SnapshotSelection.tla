-------------------------- MODULE SnapshotSelection --------------------------
(***************************************************************************)
(* The loop of _latest_transit and _latest_traffic                         *)
(* (processing/snapshot.py): one pass over a list of observations that     *)
(* keeps, per key, the latest one not after the timestamp.  The two        *)
(* functions differ only in the key.  The dictionary latest maps a key to  *)
(* the position of the observation it holds, 0 where it has no entry.      *)
(***************************************************************************)
EXTENDS SnapshotView

CONSTANTS Keys, Times, MaxLength

ASSUME TimesAssumption == Times \subseteq Int
ASSUME LengthAssumption == MaxLength \in Nat

Observations == [key : Keys, observed_at : Times]

VARIABLES observations, timestamp, index, latest

vars == <<observations, timestamp, index, latest>>

Init ==
  /\ observations \in UNION {[1..n -> Observations] : n \in 0..MaxLength}
  /\ timestamp \in Times
  /\ index = 1
  /\ latest = [k \in Keys |-> 0]

Observation == observations[index]

(* Mutants: a later duplicate replaces an equally late one; an observation *)
(* of the future is kept when nothing else is known.                       *)
Replaces_Ties(i) ==
  LET current == latest[observations[i].key] IN
  /\ observations[i].observed_at <= timestamp
  /\ current # 0 => observations[i].observed_at >= observations[current].observed_at
Replaces_FutureIfAlone(i) ==
  LET current == latest[observations[i].key] IN
  current # 0 =>
    /\ observations[i].observed_at <= timestamp
    /\ observations[i].observed_at > observations[current].observed_at

(* Whether the observation at position i takes the entry of its key. *)
Replaces(i) ==
  LET current == latest[observations[i].key] IN
  /\ observations[i].observed_at <= timestamp
  /\ current # 0 => observations[i].observed_at > observations[current].observed_at

Skip ==
  /\ index <= Len(observations)
  /\ ~Replaces(index)
  /\ index' = index + 1
  /\ UNCHANGED <<observations, timestamp, latest>>

Take ==
  /\ index <= Len(observations)
  /\ Replaces(index)
  /\ latest' = [latest EXCEPT ![Observation.key] = index]
  /\ index' = index + 1
  /\ UNCHANGED <<observations, timestamp>>

Next == Skip \/ Take

Spec == Init /\ [][Next]_vars

Finished == index = Len(observations) + 1

-----------------------------------------------------------------------------
(* Properties *)

TypeOK ==
  /\ observations \in Seq(Observations)
  /\ timestamp \in Times
  /\ index \in 1..(Len(observations) + 1)
  /\ latest \in [Keys -> 0..(index - 1)]

(* Of the observations passed so far the dictionary holds, for each key,   *)
(* the first of the latest ones known by the timestamp, and an entry for   *)
(* no other key.                                                           *)
LatestOfThePrefix ==
  \A k \in Keys :
     IF Known(observations, index - 1, timestamp, k) = {}
     THEN latest[k] = 0
     ELSE IsLatest(observations, index - 1, timestamp, k, latest[k])

(* What the loop returns is the view: nothing of the future, nothing       *)
(* outdated, every known key once, ties resolved to the first in the list. *)
ReturnsTheView ==
  Finished =>
    {observations[latest[k]] : k \in {k \in Keys : latest[k] # 0}}
      = Latest(observations, timestamp)

=============================================================================
