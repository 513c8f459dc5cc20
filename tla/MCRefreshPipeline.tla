-------------------------- MODULE MCRefreshPipeline --------------------------
(* Instances of RefreshPipeline for TLC: which functions the caller uses. *)
EXTENDS RefreshPipeline

MCAllCalls  == Calls
MCLiveCalls == {Live, LiveNoGtfs}

=============================================================================
