----------------------------- MODULE SnapshotFile -----------------------------
(***************************************************************************)
(* What the snapshot store promises its users: one file that is absent or  *)
(* holds one whole snapshot, replaced in one step, and reads that return   *)
(* what the file held at one moment of the read.                           *)
(***************************************************************************)
CONSTANTS Readers, Versions, NoFile, NoView

VARIABLES current,   \* the snapshot in the file
          view       \* what a read in progress is going to return

vars == <<current, view>>

Init ==
  /\ current = NoFile
  /\ view = [r \in Readers |-> NoView]

Publish(v) ==
  /\ current' = v
  /\ UNCHANGED view

Look(r) ==
  /\ view[r] = NoView
  /\ view' = [view EXCEPT ![r] = current]
  /\ UNCHANGED current

Return(r) ==
  /\ view[r] # NoView
  /\ view' = [view EXCEPT ![r] = NoView]
  /\ UNCHANGED current

Next ==
  \/ \E v \in Versions : Publish(v)
  \/ \E r \in Readers : Look(r) \/ Return(r)

Spec == Init /\ [][Next]_vars

=============================================================================
