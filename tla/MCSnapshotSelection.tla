------------------------- MODULE MCSnapshotSelection -------------------------
(* Lists of up to MaxLength observations of two keys at three instants. *)
EXTENDS SnapshotSelection

MCTimes == 0..2

=============================================================================
