----------------------------- MODULE SourceLedger -----------------------------
(***************************************************************************)
(* What the refresh pipeline promises, source by source: the state holds   *)
(* one dataset of each source, replaced as a whole by a load of that       *)
(* source and by nothing else, and a set of sources whose recorded failure *)
(* no later load has answered.                                             *)
(***************************************************************************)
EXTENDS MobilitySources

CONSTANTS Payloads, NoData

VARIABLES held, failing

vars == <<held, failing>>

Init ==
  /\ held = [s \in Sources |-> NoData]
  /\ failing = {}

Load(s, p) ==
  /\ held' = [held EXCEPT ![s] = p]
  /\ failing' = failing \ {s}

(* A failure leaves every dataset as it was: the last good one stays. *)
RecordFailure(s) ==
  /\ failing' = failing \cup {s}
  /\ UNCHANGED held

Next ==
  \E s \in Sources :
     \/ \E p \in Payloads : Load(s, p)
     \/ RecordFailure(s)

Spec == Init /\ [][Next]_vars

=============================================================================
