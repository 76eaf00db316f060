-------------------------- MODULE MCEntryExecution --------------------------
(* Two entries of two shares; fewer polls and checks than the code's six   *)
(* and three.                                                              *)
EXTENDS EntryExecution

=============================================================================
