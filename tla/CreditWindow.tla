---------------------------- MODULE CreditWindow ----------------------------
(***************************************************************************)
(* What the prefetcher of one stream promises to the rest of a training    *)
(* job: a window of at most Capacity batches between "requested from the   *)
(* server" and "returned to the training code", passed on in order, and    *)
(* one End after the last batch.  Batches are counted from the first one   *)
(* of the session.  The module says nothing of threads, HTTP requests,     *)
(* memory or cancellation: Prefetch does, and implements it.               *)
(***************************************************************************)
EXTENDS Naturals

CONSTANTS
    Capacity,   \* ranks * prefetch_factor, a number
    Length      \* how many batches the session's stream has left, a number

VARIABLES
    active,     \* the first reader is there: requests may start
    requested,  \* batches asked of the server
    emitted,    \* batches handed to the transform workers
    returned,   \* batches the training code received
    phase       \* "open", then "ended" (End was sent) or "stopped"

vars == <<active, requested, emitted, returned, phase>>

TypeOK ==
    /\ active \in BOOLEAN
    /\ requested \in Nat
    /\ emitted \in Nat
    /\ returned \in Nat
    /\ phase \in {"open", "ended", "stopped"}

Init ==
    /\ active = FALSE
    /\ requested = 0
    /\ emitted = 0
    /\ returned = 0
    /\ phase = "open"

(* The stream's first reader opens the window.                             *)
Activate ==
    /\ ~active
    /\ active' = TRUE
    /\ UNCHANGED <<requested, emitted, returned, phase>>

(* A batch is requested only while the window has room.                    *)
Request ==
    /\ active
    /\ phase # "ended"
    /\ requested - returned < Capacity
    /\ requested' = requested + 1
    /\ UNCHANGED <<active, emitted, returned, phase>>

(* The next batch, if it was requested and exists, goes to the workers.    *)
Emit ==
    /\ phase = "open"
    /\ emitted < requested
    /\ emitted < Length
    /\ emitted' = emitted + 1
    /\ UNCHANGED <<active, requested, returned, phase>>

(* The training code received one more of the emitted batches.             *)
Return ==
    /\ returned < emitted
    /\ returned' = returned + 1
    /\ UNCHANGED <<active, requested, emitted, phase>>

(* End follows the last batch.                                             *)
End ==
    /\ phase = "open"
    /\ emitted = Length
    /\ phase' = "ended"
    /\ UNCHANGED <<active, requested, emitted, returned>>

(* The stream is given up: an error, or the end of the session.            *)
Stop ==
    /\ phase = "open"
    /\ phase' = "stopped"
    /\ UNCHANGED <<active, requested, emitted, returned>>

Next == Activate \/ Request \/ Emit \/ Return \/ End \/ Stop

Spec == Init /\ [][Next]_vars

=============================================================================
