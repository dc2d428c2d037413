--------------------------- MODULE MCCacheBudget ----------------------------
(* Instances of CacheBudget for TLC.                                       *)
EXTENDS CacheBudget, TLC

(* A plan of two pieces, a batch and an input.                             *)
MCThree == 1 .. 3
MCPlan == {1}
MCInput == {3}

MCChunk == [e \in Entries |-> 1]
MCChunks == [e \in Entries |-> IF e = 1 THEN 2 ELSE 1]
MCSmall == [x \in Loose |-> 1]

(* Two plans of two pieces each.                                           *)
MCTwo == 1 .. 2
MCTwoPieces == [e \in Entries |-> 2]
=============================================================================
