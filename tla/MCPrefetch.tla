----------------------------- MODULE MCPrefetch -----------------------------
(* Instances of Prefetch for TLC.                                          *)
EXTENDS Prefetch, TLC

(* A resumed stream with three batches left: one of a unit, one larger    *)
(* than the budget, one that fills it exactly.                             *)
MCSizes == 3 :> 1 @@ 4 :> 5 @@ 5 :> 2
=============================================================================
