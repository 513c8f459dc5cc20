----------------------------- MODULE MCCommandLine -----------------------------
(* The calls of the command line. *)
EXTENDS CommandLine

MCCalls == {Live, LiveNoGtfs}

=============================================================================
