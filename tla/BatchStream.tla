---------------------------- MODULE BatchStream -----------------------------
(***************************************************************************)
(* What one session of a stream promises to the training code: rank r gets *)
(* exactly the batches n with n % Ranks = r from Start on, in order,       *)
(* without a gap and without a repetition, and its loop ends only after    *)
(* the last of them.  Ranks advance independently of each other.           *)
(***************************************************************************)
EXTENDS Naturals

CONSTANTS
    Ranks,  \* number of ranks, at least one
    Start,  \* first batch of the session
    EndAt   \* first batch number past the end of the stream

Rank == 0 .. Ranks - 1

VARIABLES
    next,   \* per rank, the batch its loop receives next
    ended   \* the ranks whose loop is over

vars == <<next, ended>>

(* The first batch from Start on that belongs to rank r.                   *)
FirstOf(r) == Start + ((r + Ranks - (Start % Ranks)) % Ranks)

TypeOK == next \in [Rank -> Nat] /\ ended \subseteq Rank

Init ==
    /\ next = [r \in Rank |-> FirstOf(r)]
    /\ ended = {}

Return(r) ==
    /\ next[r] < EndAt
    /\ next' = [next EXCEPT ![r] = @ + Ranks]
    /\ UNCHANGED ended

End(r) ==
    /\ next[r] >= EndAt
    /\ ended' = ended \cup {r}
    /\ UNCHANGED next

Next == \E r \in Rank : Return(r) \/ End(r)

Spec == Init /\ [][Next]_vars
=============================================================================
