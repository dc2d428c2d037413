----------------------------- MODULE MCPlanCache -----------------------------
(* Instances of PlanCache for TLC.                                         *)
EXTENDS PlanCache, TLC

(* The query changes its answer: the first build has two batches, those    *)
(* after it have one, the second of the first.  Both requests are for that *)
(* one, the later comes back to it by repeating.                           *)
MCQueryThree == <<<<1, 2>>, <<2>>, <<2>>>>
MCSequence == [r \in Requests |-> IF r = "r1" THEN 1 ELSE 3]
MCNeed == [b \in Batches |-> b]
=============================================================================
