---------------------------- MODULE MCRunStatus -----------------------------
(* Instances of RunStatus for TLC.                                         *)
EXTENDS RunStatus, TLC
=============================================================================
