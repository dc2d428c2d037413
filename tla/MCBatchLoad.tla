----------------------------- MODULE MCBatchLoad -----------------------------
(* Instances of BatchLoad for TLC.                                         *)
EXTENDS BatchLoad, TLC

MCObjectSize == <<3, 2>>

Row(b, s, w, v, refs) == [batch |-> b, sample |-> s, width |-> w, valid |-> v, blobs |-> refs]
Ref(o, f, l) == [object |-> o, offset |-> f, length |-> l]

(* Any three rows of three batches, out of order and invalid ones too.     *)
MCRows == {Row(b, s, w, v, <<Ref(2, Whole, 0)>>) :
            b \in 0 .. 2, s \in 0 .. 1, w \in 1 .. 2, v \in BOOLEAN}
PlanQueries == UNION {[1 .. n -> MCRows] : n \in 0 .. 3}

(* One batch of two samples with three blobs: whole objects, neighbouring, *)
(* overlapping and equal ranges, and ranges past the end.                  *)
Refs == {Ref(o, Whole, 0) : o \in 1 .. 2} \cup {Ref(2, 0, 1), Ref(2, 1, 1)}
            \cup {Ref(1, f, l) : f \in 0 .. 2, l \in 1 .. 2}
BlobQueries == {<<Row(0, 0, 1, TRUE, <<x, y>>), Row(0, 1, 1, TRUE, <<z>>)>> :
                   x \in Refs, y \in Refs, z \in Refs}

MCQueries == PlanQueries \cup BlobQueries
=============================================================================
