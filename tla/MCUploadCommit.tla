---------------------------- MODULE MCUploadCommit ----------------------------
(* Instances of UploadCommit for TLC: two saves under one name, or under   *)
(* two.                                                                    *)
EXTENDS UploadCommit, TLC

CONSTANTS a1, a2

MCSaves == <<a1, a2>>
MCOneName == a1 :> "model" @@ a2 :> "model"
MCTwoNames == a1 :> "model" @@ a2 :> "best"
=============================================================================
