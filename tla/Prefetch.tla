------------------------------ MODULE Prefetch ------------------------------
(***************************************************************************)
(* The prefetcher of one stream (client/src/data.rs) with the two POSIX    *)
(* semaphores it shares with other processes (client/src/semaphore.rs) and *)
(* the part of the HTTP client that reserves memory for a batch            *)
(* (client/src/transport.rs).                                              *)
(*                                                                         *)
(* Who runs concurrently, and is therefore interleaved here:               *)
(*   - the request thread: takes a credit, sends a sequence number;        *)
(*   - the prefetch task (pump), which polls up to Capacity fetches;       *)
(*   - the blocking thread that waits for the memory of one batch;         *)
(*   - the callers of BatchBudget::cancel: the prefetch task itself and    *)
(*     the daemon's supervisor;                                            *)
(*   - the batch readers, which post memory and credits from elsewhere.    *)
(*                                                                         *)
(* A payload is its size in memory units.  Sequence numbers are absolute,  *)
(* turns are relative to Start, as in the code.                            *)
(***************************************************************************)
EXTENDS Integers, FiniteSets

CONSTANTS
    Start,      \* first batch of the session (0, or a checkpoint's cursor)
    EndAt,      \* first batch number the server answers with 204
    Capacity,   \* ranks * prefetch_factor
    Memory,     \* memory units of the stream's budget, at least one
    Sizes,      \* units each batch asks for (content length, rounded up)
    Rejects,    \* may the server refuse a batch for good, or send garbage
    Stops       \* may the supervisor shut the stream down

Batches == Start .. EndAt - 1

ASSUME PrefetchAssumption ==
    /\ Start \in Nat
    /\ EndAt \in Nat /\ Start <= EndAt
    /\ Capacity \in Nat \ {0}
    /\ Memory \in Nat \ {0}
    /\ Sizes \in [Batches -> Nat]
    /\ Rejects \in BOOLEAN
    /\ Stops \in BOOLEAN

VARIABLES
    active,        \* the collator has posted the stream's first credits
    credits,       \* value of the batch semaphore
    producer,      \* request thread: "wait", "send" (credit in hand), "done"
    sequence,      \* next sequence number the request thread sends
    taken,         \* next sequence number the pump takes from the channel
    fetch,         \* per sequence number: where its fetch is
    memory,        \* value of the memory semaphore
    turn,          \* whose turn it is to reserve memory, or Closed
    job,           \* the blocking thread that waits for memory
    memCancelled,  \* MemoryBudget::cancelled
    cancelled,     \* BatchBudget::cancelled
    cancel,        \* per caller: where its call of BatchBudget::cancel is
    pump,          \* the prefetch task
    emitted,       \* next batch the pump hands to the transform workers
    out,           \* emitted batches whose memory was not given back
    owed,          \* batches whose memory was given back, their credit not
    returned       \* credits the batch readers posted

vars == <<active, credits, producer, sequence, taken, fetch, memory, turn, job,
          memCancelled, cancelled, cancel, pump, emitted, out, owed, returned>>

None == -1      \* no batch
Closed == -1    \* u64::MAX: the turn of no batch
Callers == {"prefetch", "supervisor"}

(* Credits bound the sequence numbers that are ever sent: see CreditBound. *)
Sequences == Start .. EndAt + Capacity - 1

FetchState ==
    {"none",        \* not taken from the channel
     "sent",        \* HTTP request sent, retried or answered 202
     "turn",        \* success headers arrived, waiting for the memory turn
     "reserving",   \* waiting for the blocking thread
     "body",        \* holds its memory, reads the body
     "again",       \* the body broke off: sent again, still holds its memory
     "done",        \* completed, waiting for its place in the order
     "error",       \* failed, waiting for its place in the order
     "emitted",     \* handed to the transform workers
     "dropped"}     \* the future or its result was dropped

HasLease == {"body", "again", "done"}
Alive == HasLease \cup {"sent", "turn", "reserving", "error"}

NoJob == [batch |-> None, got |-> 0, refused |-> FALSE]

TypeOK ==
    /\ active \in BOOLEAN
    /\ credits \in Nat
    /\ producer \in {"wait", "send", "done"}
    /\ sequence \in Nat
    /\ taken \in Nat
    /\ fetch \in [Sequences -> FetchState]
    /\ memory \in Nat
    /\ turn \in Nat \cup {Closed}
    /\ job \in [batch : Sequences \cup {None}, got : Nat, refused : BOOLEAN]
    /\ memCancelled \in BOOLEAN
    /\ cancelled \in BOOLEAN
    /\ cancel \in [Callers -> {"idle", "start", "turn", "units", "credit", "done"}]
    /\ pump \in {"running", "eof", "dropping", "ended", "failed"}
    /\ emitted \in Nat
    /\ out \subseteq Batches
    /\ owed \subseteq Batches
    /\ returned \in Nat

Init ==
    /\ active = FALSE
    /\ credits = 0
    /\ producer = "wait"
    /\ sequence = Start
    /\ taken = Start
    /\ fetch = [s \in Sequences |-> "none"]
    /\ memory = Memory
    /\ turn = 0
    /\ job = NoJob
    /\ memCancelled = FALSE
    /\ cancelled = FALSE
    /\ cancel = [c \in Callers |-> "idle"]
    /\ pump = "running"
    /\ emitted = Start
    /\ out = {}
    /\ owed = {}
    /\ returned = 0

(* Units a batch reserves: its size, capped to the budget so that a batch  *)
(* larger than the budget runs alone; the 204 at the end reserves none.    *)
Cost(s) ==
    IF s \notin Batches THEN 0
    ELSE IF Sizes[s] < Memory THEN Sizes[s] ELSE Memory

-----------------------------------------------------------------------------
(* Credits and the request thread.                                         *)

(* The collator posts the stream's credits when its first reader connects. *)
Activate ==
    /\ ~active
    /\ active' = TRUE
    /\ credits' = credits + Capacity
    /\ UNCHANGED <<producer, sequence, taken, fetch, memory, turn, job, memCancelled,
                   cancelled, cancel, pump, emitted, out, owed, returned>>

(* BatchBudget::acquire: one credit is gone whatever the flag says.  The   *)
(* wait and the load of the flag are one step: a cancel between them acts  *)
(* as one before the wait.                                                 *)
Acquire ==
    /\ producer = "wait"
    /\ credits > 0
    /\ credits' = credits - 1
    /\ producer' = IF cancelled THEN "done" ELSE "send"
    /\ UNCHANGED <<active, sequence, taken, fetch, memory, turn, job, memCancelled,
                   cancelled, cancel, pump, emitted, out, owed, returned>>

(* The channel is closed once the pump drops its fetches.                  *)
Send ==
    /\ producer = "send"
    /\ IF pump = "dropping"
         THEN producer' = "done" /\ UNCHANGED sequence
         ELSE producer' = "wait" /\ sequence' = sequence + 1
    /\ UNCHANGED <<active, credits, taken, fetch, memory, turn, job, memCancelled,
                   cancelled, cancel, pump, emitted, out, owed, returned>>

-----------------------------------------------------------------------------
(* Fetches.  Their futures advance only while the pump polls them.         *)

SetFetch(s, state) == fetch' = [fetch EXCEPT ![s] = state]

(* buffered(capacity): fetches in progress and completed ones not yet      *)
(* yielded share the Capacity places.                                      *)
Take ==
    /\ pump = "running"
    /\ taken < sequence
    /\ taken - emitted < Capacity
    /\ SetFetch(taken, "sent")
    /\ taken' = taken + 1
    /\ UNCHANGED <<active, credits, producer, sequence, memory, turn, job, memCancelled,
                   cancelled, cancel, pump, emitted, out, owed, returned>>

(* Success headers, 200 or 204.  Every other answer worth a retry (202,    *)
(* 408, 429, 5xx, a broken connection) leaves the fetch as it is.          *)
Respond(s) ==
    /\ pump = "running"
    /\ \/ fetch[s] = "sent" /\ SetFetch(s, "turn")
       \/ fetch[s] = "again" /\ SetFetch(s, "body")
    /\ UNCHANGED <<active, credits, producer, sequence, taken, memory, turn, job, memCancelled,
                   cancelled, cancel, pump, emitted, out, owed, returned>>

(* Any other 4xx ends the fetch; a lease it holds is dropped with it.      *)
Reject(s) ==
    /\ Rejects
    /\ pump = "running"
    /\ fetch[s] \in {"sent", "again"}
    /\ SetFetch(s, "error")
    /\ memory' = IF fetch[s] = "again" THEN memory + Cost(s) ELSE memory
    /\ UNCHANGED <<active, credits, producer, sequence, taken, turn, job, memCancelled,
                   cancelled, cancel, pump, emitted, out, owed, returned>>

(* Mutants: no turns; turns that forget that a resumed stream starts late. *)
AnyTurn(s) == TRUE
AbsoluteTurn(s) == turn = s

(* MemoryBudget::acquire waits until the turn is this batch's.             *)
MyTurn(s) == turn = s - Start

(* It then starts a blocking thread that waits unit by unit.               *)
TakeTurn(s) ==
    /\ pump = "running"
    /\ fetch[s] = "turn"
    /\ MyTurn(s)
    /\ SetFetch(s, "reserving")
    /\ job' = [batch |-> s, got |-> 0, refused |-> FALSE]
    /\ UNCHANGED <<active, credits, producer, sequence, taken, memory, turn, memCancelled,
                   cancelled, cancel, pump, emitted, out, owed, returned>>

(* A waiter for a later turn wakes up when the turn changes and finds the  *)
(* budget cancelled.                                                       *)
RefuseTurn(s) ==
    /\ pump = "running"
    /\ fetch[s] = "turn"
    /\ ~MyTurn(s)
    /\ memCancelled
    /\ SetFetch(s, "error")
    /\ UNCHANGED <<active, credits, producer, sequence, taken, memory, turn, job, memCancelled,
                   cancelled, cancel, pump, emitted, out, owed, returned>>

JobFinished == job.batch # None /\ (job.refused \/ job.got = Cost(job.batch))

(* Mutants: a thread that does not wait; one that ignores the cancel.      *)
UnitAssumed == TRUE
CancelIgnored == [job EXCEPT !.got = @ + 1]

UnitFree == memory > 0

JobAfterUnit ==
    IF memCancelled THEN [job EXCEPT !.refused = TRUE] ELSE [job EXCEPT !.got = @ + 1]

(* The blocking thread gets a unit and then looks at the flag.             *)
WaitUnit ==
    /\ job.batch # None
    /\ ~JobFinished
    /\ UnitFree
    /\ memory' = memory - 1
    /\ job' = JobAfterUnit
    /\ UNCHANGED <<active, credits, producer, sequence, taken, fetch, turn, memCancelled,
                   cancelled, cancel, pump, emitted, out, owed, returned>>

(* The fetch resumes: it passes the turn on (over whatever a cancel wrote  *)
(* there) and holds a lease, or it fails.  Without a future to resume, the *)
(* thread just ends, and the units it took are gone.                       *)
EndJob ==
    /\ JobFinished
    /\ job' = NoJob
    /\ IF pump = "running"
         THEN IF job.refused
                THEN SetFetch(job.batch, "error") /\ UNCHANGED turn
                ELSE SetFetch(job.batch, "body") /\ turn' = job.batch - Start + 1
         ELSE UNCHANGED <<fetch, turn>>
    /\ UNCHANGED <<active, credits, producer, sequence, taken, memory, memCancelled,
                   cancelled, cancel, pump, emitted, out, owed, returned>>

(* Mutant: the request is repeated as if nothing was reserved.             *)
ForgetLease == "sent"
AfterBreak == "again"

(* The body arrives, or breaks off and the request is repeated.            *)
ReadBody(s) ==
    /\ pump = "running"
    /\ fetch[s] = "body"
    /\ SetFetch(s, "done")
    /\ UNCHANGED <<active, credits, producer, sequence, taken, memory, turn, job, memCancelled,
                   cancelled, cancel, pump, emitted, out, owed, returned>>

BreakBody(s) ==
    /\ pump = "running"
    /\ fetch[s] = "body"
    /\ SetFetch(s, AfterBreak)
    /\ UNCHANGED <<active, credits, producer, sequence, taken, memory, turn, job, memCancelled,
                   cancelled, cancel, pump, emitted, out, owed, returned>>

-----------------------------------------------------------------------------
(* The pump: results in the order of the sequence numbers.                 *)

(* A batch goes to the transform workers and its lease with it.            *)
Emit ==
    /\ pump = "running"
    /\ emitted \in Batches
    /\ fetch[emitted] = "done"
    /\ SetFetch(emitted, "emitted")
    /\ emitted' = emitted + 1
    /\ out' = out \cup {emitted}
    /\ UNCHANGED <<active, credits, producer, sequence, taken, memory, turn, job, memCancelled,
                   cancelled, cancel, pump, owed, returned>>

(* 204: the pump stops polling and calls cancel.                           *)
ReachEnd ==
    /\ pump = "running"
    /\ emitted \in Sequences \ Batches
    /\ fetch[emitted] = "done"
    /\ SetFetch(emitted, "dropped")
    /\ pump' = "eof"
    /\ cancel' = [cancel EXCEPT !["prefetch"] = "start"]
    /\ UNCHANGED <<active, credits, producer, sequence, taken, memory, turn, job, memCancelled,
                   cancelled, emitted, out, owed, returned>>

(* An error, or a batch that does not decode, ends the task: its fetches   *)
(* and its end of the channel are dropped first.                           *)
Fail ==
    /\ pump = "running"
    /\ emitted \in Sequences
    /\ \/ fetch[emitted] = "error"
       \/ Rejects /\ emitted \in Batches /\ fetch[emitted] = "done"
    /\ pump' = "dropping"
    /\ UNCHANGED <<active, credits, producer, sequence, taken, fetch, memory, turn, job,
                   memCancelled, cancelled, cancel, emitted, out, owed, returned>>

Aborts == cancel["supervisor"] = "done"

(* pumps.abort_all() after the supervisor's cancel: the task is dropped at *)
(* its next await.  (A task that has seen the 204 has none left.)          *)
Abort ==
    /\ pump = "running"
    /\ Aborts
    /\ pump' = "dropping"
    /\ UNCHANGED <<active, credits, producer, sequence, taken, fetch, memory, turn, job,
                   memCancelled, cancelled, cancel, emitted, out, owed, returned>>

(* Dropping a fetch gives its lease back.                                  *)
Drop(s) ==
    /\ pump \in {"dropping", "ended"}
    /\ fetch[s] \in Alive
    /\ SetFetch(s, "dropped")
    /\ memory' = IF fetch[s] \in HasLease THEN memory + Cost(s) ELSE memory
    /\ UNCHANGED <<active, credits, producer, sequence, taken, turn, job, memCancelled,
                   cancelled, cancel, pump, emitted, out, owed, returned>>

(* Requests::drop, after the fetches.                                      *)
CancelDropped ==
    /\ pump = "dropping"
    /\ \A s \in Sequences : fetch[s] \notin Alive
    /\ cancel["prefetch"] = "idle"
    /\ cancel' = [cancel EXCEPT !["prefetch"] = "start"]
    /\ UNCHANGED <<active, credits, producer, sequence, taken, fetch, memory, turn, job,
                   memCancelled, cancelled, pump, emitted, out, owed, returned>>

(* Mutant: End is sent whatever made the pump stop.                        *)
EndsAnyway == "ended"
Outcome == IF pump = "eof" THEN "ended" ELSE "failed"

(* Requests::finish joins the request thread.  After a 204 the pump then   *)
(* sends End and returns.                                                  *)
Join ==
    /\ pump \in {"eof", "dropping"}
    /\ cancel["prefetch"] = "done"
    /\ producer = "done"
    /\ pump' = Outcome
    /\ UNCHANGED <<active, credits, producer, sequence, taken, fetch, memory, turn, job,
                   memCancelled, cancelled, cancel, emitted, out, owed, returned>>

-----------------------------------------------------------------------------
(* BatchBudget::cancel, in the order of its effects.                       *)

(* The supervisor shuts the stream down at any time.                       *)
Stop ==
    /\ Stops
    /\ cancel["supervisor"] = "idle"
    /\ cancel' = [cancel EXCEPT !["supervisor"] = "start"]
    /\ UNCHANGED <<active, credits, producer, sequence, taken, fetch, memory, turn, job,
                   memCancelled, cancelled, pump, emitted, out, owed, returned>>

(* The first caller to swap the flag does the rest of MemoryBudget::cancel,*)
(* another one overtakes it.                                               *)
CancelMemory(c) ==
    /\ cancel[c] = "start"
    /\ memCancelled' = TRUE
    /\ cancel' = [cancel EXCEPT ![c] = IF memCancelled THEN "credit" ELSE "turn"]
    /\ UNCHANGED <<active, credits, producer, sequence, taken, fetch, memory, turn, job,
                   cancelled, pump, emitted, out, owed, returned>>

CloseTurns(c) ==
    /\ cancel[c] = "turn"
    /\ turn' = Closed
    /\ cancel' = [cancel EXCEPT ![c] = "units"]
    /\ UNCHANGED <<active, credits, producer, sequence, taken, fetch, memory, job,
                   memCancelled, cancelled, pump, emitted, out, owed, returned>>

(* A full budget of units wakes the blocking thread.                       *)
PostUnits(c) ==
    /\ cancel[c] = "units"
    /\ memory' = memory + Memory
    /\ cancel' = [cancel EXCEPT ![c] = "credit"]
    /\ UNCHANGED <<active, credits, producer, sequence, taken, fetch, turn, job,
                   memCancelled, cancelled, pump, emitted, out, owed, returned>>

(* Mutants: every caller posts a credit; no caller does.                   *)
EveryCallerWakes == 1
NobodyWakes == 0
WakingCredits == IF cancelled THEN 0 ELSE 1

(* One credit wakes the request thread, posted by the first caller only.   *)
CancelCredits(c) ==
    /\ cancel[c] = "credit"
    /\ cancelled' = TRUE
    /\ credits' = credits + WakingCredits
    /\ cancel' = [cancel EXCEPT ![c] = "done"]
    /\ UNCHANGED <<active, producer, sequence, taken, fetch, memory, turn, job,
                   memCancelled, pump, emitted, out, owed, returned>>

-----------------------------------------------------------------------------
(* BatchReader.__next__ gives back the memory, then the credit.            *)

ReturnMemory(s) ==
    /\ s \in out
    /\ out' = out \ {s}
    /\ owed' = owed \cup {s}
    /\ memory' = memory + Cost(s)
    /\ UNCHANGED <<active, credits, producer, sequence, taken, fetch, turn, job,
                   memCancelled, cancelled, cancel, pump, emitted, returned>>

ReturnCredit(s) ==
    /\ s \in owed
    /\ owed' = owed \ {s}
    /\ credits' = credits + 1
    /\ returned' = returned + 1
    /\ UNCHANGED <<active, producer, sequence, taken, fetch, memory, turn, job,
                   memCancelled, cancelled, cancel, pump, emitted, out>>

-----------------------------------------------------------------------------

(* Everything has ended and the readers have taken what was emitted.       *)
Finished ==
    /\ pump \in {"ended", "failed"}
    /\ producer = "done"
    /\ job = NoJob
    /\ out = {} /\ owed = {}
    /\ \A c \in Callers : cancel[c] \in {"idle", "done"}
    /\ \A s \in Sequences : fetch[s] \notin Alive

Terminated == Finished /\ UNCHANGED vars

Fetching(s) ==
    \/ Respond(s)
    \/ Reject(s)
    \/ TakeTurn(s)
    \/ RefuseTurn(s)
    \/ ReadBody(s)
    \/ BreakBody(s)

Cancelling(c) ==
    \/ CancelMemory(c)
    \/ CloseTurns(c)
    \/ PostUnits(c)
    \/ CancelCredits(c)

Next ==
    \/ Activate
    \/ Acquire
    \/ Send
    \/ Take
    \/ \E s \in Sequences : Fetching(s) \/ Drop(s)
    \/ WaitUnit
    \/ EndJob
    \/ Emit
    \/ ReachEnd
    \/ Fail
    \/ Abort
    \/ CancelDropped
    \/ Join
    \/ Stop
    \/ \E c \in Callers : Cancelling(c)
    \/ \E s \in Batches : ReturnMemory(s) \/ ReturnCredit(s)
    \/ Terminated

Spec == Init /\ [][Next]_vars

(* What keeps a thread or the server from being stuck forever.  Every      *)
(* thread is scheduled; the server answers in the end (the client retries  *)
(* without limit); a body that is read again and again arrives once, hence *)
(* strong fairness; the ranks open their reader and keep taking batches.   *)
Fairness ==
    /\ WF_vars(Activate)
    /\ WF_vars(Acquire) /\ WF_vars(Send) /\ WF_vars(Take)
    /\ \A s \in Sequences :
        /\ WF_vars(Respond(s))
        /\ WF_vars(TakeTurn(s) \/ RefuseTurn(s))
        /\ SF_vars(ReadBody(s))
        /\ WF_vars(Drop(s))
    /\ WF_vars(WaitUnit) /\ WF_vars(EndJob)
    /\ WF_vars(Emit) /\ WF_vars(ReachEnd) /\ WF_vars(Fail)
    /\ WF_vars(Abort) /\ WF_vars(CancelDropped) /\ WF_vars(Join)
    /\ \A c \in Callers : WF_vars(Cancelling(c))
    /\ \A s \in Batches : WF_vars(ReturnMemory(s)) /\ WF_vars(ReturnCredit(s))

FairSpec == Spec /\ Fairness

-----------------------------------------------------------------------------
(* Safety.                                                                 *)

(* The batch semaphore never loses or invents a credit: those in it, the   *)
(* one in the request thread's hand and one per sequence number sent add   *)
(* up to what the collator, the readers and cancel posted.                 *)
CreditConservation ==
    credits + (IF producer = "wait" THEN 0 ELSE 1) + (sequence - Start)
        = (IF active THEN Capacity ELSE 0) + returned + (IF cancelled THEN 1 ELSE 0)

(* "Requests batches ahead of training: up to ranks * prefetch_factor":    *)
(* also while cancel's extra credit is in the semaphore, since only a      *)
(* thread that saw no cancel sends.                                        *)
CreditBound == sequence - Start <= Capacity + returned

Reserved ==
    {s \in Sequences : s \in out \/ fetch[s] \in HasLease}

(* The units that belong to some batches, the nth of batch s being <<s, n>>.*)
Units(S) == UNION {{s} \X (1 .. Cost(s)) : s \in S}

(* Units with fetches, transform workers, collator and readers, and those  *)
(* the blocking thread has gathered.                                       *)
InHand == Cardinality(Units(Reserved)) + job.got

(* "... and 2 GiB of memory": they never exceed the budget, not even after *)
(* cancel posted a second budget.                                          *)
MemoryBound == InHand <= Memory

(* While the stream runs no unit is lost, so the whole budget comes back   *)
(* whatever retries and broken bodies happened on the way.                 *)
MemoryConserved == pump = "running" /\ ~memCancelled => memory + InHand = Memory

(* Memory is reserved in batch order: a batch that holds memory, or has    *)
(* been emitted, is behind no batch that still has to reserve.  Otherwise  *)
(* later batches could fill the budget while the earliest, which has to be *)
(* emitted first, waits for it forever.                                    *)
Unreserved == {"none", "sent", "turn", "reserving"}

ReserveInOrder ==
    \A s \in Sequences : fetch[s] \in HasLease \cup {"emitted"} =>
        \A q \in Start .. s - 1 : fetch[q] \notin Unreserved

(* Readers give back exactly the batches that were emitted.                *)
ReturnsAccounted ==
    returned + Cardinality(out) + Cardinality(owed) = emitted - Start

(* The flow-control window that the rest of the job relies on.             *)
Window == INSTANCE CreditWindow WITH
    Length <- EndAt - Start,
    requested <- sequence - Start,
    emitted <- emitted - Start,
    phase <- CASE pump \in {"running", "eof"} -> "open"
               [] pump = "ended" -> "ended"
               [] OTHER -> "stopped"

(* The prefetcher implements the window: never more than Capacity batches  *)
(* between the server and the training code, in order, End once and last.  *)
ImplementsWindow == Window!Spec

-----------------------------------------------------------------------------
(* Liveness.                                                               *)

(* The supervisor leaves the stream alone and the task has not failed.     *)
Undisturbed == cancel["supervisor"] = "idle" /\ pump \in {"running", "eof", "ended"}

(* With no refusal and no shutdown every batch gets through, however tight *)
(* the memory and whatever bodies break off, and then End is sent.         *)
EventuallyEnded ==
    []Undisturbed => <>[](pump = "ended" /\ returned = EndAt - Start)

(* After a cancel no thread stays behind: the request thread ends, the     *)
(* blocking thread ends for good, and so does the task once the supervisor *)
(* aborts it (its destructor joins the request thread, so it could hang).  *)
CancelEndsThreads ==
    /\ cancelled ~> producer = "done"
    /\ memCancelled ~> [](job = NoJob)
    /\ cancel["supervisor"] = "done" ~> pump \in {"ended", "failed"}
=============================================================================
