----------------------------- MODULE MCDelivery -----------------------------
(* Instances of Delivery for TLC.                                          *)
EXTENDS Delivery, TLC

(* Batches of two samples and of one, so that parts of one batch race on   *)
(* two workers and the worker of a batch changes.                          *)
MCSamples == 1 :> 2 @@ 2 :> 1 @@ 3 :> 1
=============================================================================
