------------------------------ MODULE Delivery ------------------------------
(***************************************************************************)
(* One stream of one session, from the prefetcher's output to the training *)
(* code: the daemon's distribute task (client/src/worker/execution.rs),    *)
(* the transform workers and the collator (client/tensorlane/_process.py)  *)
(* and the batch readers of the ranks (client/tensorlane/reader.py).       *)
(*                                                                         *)
(* The prefetcher itself is CreditWindow, the window that Prefetch         *)
(* implements.  A batch is its number; what travels through the workers is *)
(* the set of its sample indices.  A transform worker handles its messages *)
(* one by one, so its socket, the worker and its pipe to the collator are  *)
(* one FIFO queue.                                                         *)
(***************************************************************************)
EXTENDS Integers, Sequences, FiniteSets, Functions

CONSTANTS
    Ranks,          \* ranks of the session
    Factor,         \* prefetch_factor
    Workers,        \* number of transform workers
    Start,          \* first batch of the session
    EndAt,          \* first batch number past the end of the stream
    Samples,        \* how many samples each batch has
    MaxCloses,      \* how often readers are closed early (bound)
    MaxInterrupts,  \* how often an exception leaves __next__ (bound)
    InterruptAt     \* where in __next__ it may come from

Rank == 0 .. Ranks - 1
Worker == 0 .. Workers - 1
Batches == Start .. EndAt - 1

ASSUME DeliveryAssumption ==
    /\ Ranks \in Nat \ {0} /\ Factor \in Nat \ {0} /\ Workers \in Nat \ {0}
    /\ Start \in Nat /\ EndAt \in Nat /\ Start <= EndAt
    /\ Samples \in [Batches -> Nat \ {0}]
    /\ MaxCloses \in Nat /\ MaxInterrupts \in Nat
    /\ InterruptAt \subseteq {"waiting", "took", "written"}

VARIABLES
    active, requested, emitted, returned, phase,    \* the prefetcher's window
    nextWorker,     \* distribute: the worker that gets the next sample
    queue,          \* per worker: messages on their way to the collator
    assembling,     \* collator: per batch, the samples that arrived
    finished,       \* collator: complete batches not yet released
    nextBatch,      \* collator: next batch to release
    endCount,       \* collator: End messages seen
    outbox,         \* collator: per rank, messages to send
    wanted,         \* collator: ranks that asked for a batch
    conn,           \* collator: per rank, "none", "open", "half" (peer closed)
    asks,           \* per rank: "next" messages the collator has not read
    wire,           \* per rank: messages the reader has not read
    reader,         \* per rank: where its BatchReader is
    current,        \* per rank: the batch __next__ holds, or None
    progress,       \* per rank: its progress file
    delivered,      \* per rank: batches returned to the training code, in order
    ended,          \* ranks whose loop saw StopIteration
    closes, interrupts  \* how often it happened so far

window == <<active, requested, emitted, returned, phase>>
collating == <<assembling, finished, nextBatch, endCount>>
sockets == <<conn, asks, wire, wanted>>
reading == <<reader, current, progress, delivered, ended>>
counts == <<closes, interrupts>>
vars == <<window, nextWorker, queue, collating, outbox, sockets, reading, counts>>

Window == INSTANCE CreditWindow WITH Capacity <- Ranks * Factor, Length <- EndAt - Start

End == -1   \* the end message, in place of a batch number
None == -2  \* no batch

(* A message to the collator: some samples of a batch, or End.             *)
Message == [batch : Batches \cup {End}, samples : SUBSET Nat]
EndMessage == [batch |-> End, samples |-> {}]

Indices(n) == 0 .. Samples[n] - 1

TypeOK ==
    /\ Window!TypeOK
    /\ nextWorker \in Worker
    /\ queue \in [Worker -> Seq(Message)]
    /\ assembling \in [Batches -> SUBSET Nat]
    /\ finished \subseteq Batches
    /\ nextBatch \in Start .. EndAt
    /\ endCount \in 0 .. Workers
    /\ outbox \in [Rank -> Seq(Batches \cup {End})]
    /\ wanted \subseteq Rank
    /\ conn \in [Rank -> {"none", "open", "half"}]
    /\ asks \in [Rank -> Nat]
    /\ wire \in [Rank -> Seq(Batches \cup {End})]
    /\ reader \in [Rank -> {"closed", "listening", "open", "waiting", "took", "written"}]
    /\ current \in [Rank -> Batches \cup {None}]
    /\ progress \in [Rank -> Nat]
    /\ delivered \in [Rank -> Seq(Batches)]
    /\ ended \subseteq Rank
    /\ closes \in 0 .. MaxCloses
    /\ interrupts \in 0 .. MaxInterrupts

(* Mutant: right only if Start is a multiple of Ranks.                     *)
UnalignedFirst(r) == Start + r

(* The progress file of rank r at the start: its first batch from Start on.*)
FirstOf(r) == Start + ((r + Ranks - (Start % Ranks)) % Ranks)

Init ==
    /\ Window!Init
    /\ nextWorker = 0
    /\ queue = [w \in Worker |-> <<>>]
    /\ assembling = [n \in Batches |-> {}]
    /\ finished = {}
    /\ nextBatch = Start
    /\ endCount = 0
    /\ outbox = [r \in Rank |-> <<>>]
    /\ wanted = {}
    /\ conn = [r \in Rank |-> "none"]
    /\ asks = [r \in Rank |-> 0]
    /\ wire = [r \in Rank |-> <<>>]
    /\ reader = [r \in Rank |-> "closed"]
    /\ current = [r \in Rank |-> None]
    /\ progress = [r \in Rank |-> FirstOf(r)]
    /\ delivered = [r \in Rank |-> <<>>]
    /\ ended = {}
    /\ closes = 0
    /\ interrupts = 0

-----------------------------------------------------------------------------
(* The daemon: prefetcher and distribute.                                  *)

RequestBatch ==
    /\ Window!Request
    /\ UNCHANGED <<nextWorker, queue, collating, outbox, sockets, reading, counts>>

(* The samples of batch n that go to worker w: round robin, going on where *)
(* the previous batch stopped.                                             *)
Part(n, w) == {i \in Indices(n) : (nextWorker + i) % Workers = w}

WorkerAfter(n) == (nextWorker + Samples[n]) % Workers

(* The prefetcher emits a batch and distribute sends each worker its part; *)
(* a worker without samples gets no message.                               *)
DistributeBatch ==
    LET n == Start + emitted IN
    /\ Window!Emit
    /\ nextWorker' = WorkerAfter(n)
    /\ queue' = [w \in Worker |->
         IF Part(n, w) = {} THEN queue[w]
         ELSE Append(queue[w], [batch |-> n, samples |-> Part(n, w)])]
    /\ UNCHANGED <<collating, outbox, sockets, reading, counts>>

(* End goes to every worker.                                               *)
DistributeEnd ==
    /\ Window!End
    /\ queue' = [w \in Worker |-> Append(queue[w], EndMessage)]
    /\ UNCHANGED <<nextWorker, collating, outbox, sockets, reading, counts>>

-----------------------------------------------------------------------------
(* The collator's side of the workers.                                     *)

(* Mutant: the first worker's End is taken for the stream's.               *)
AnyWorkerEnded(count) == count = 1

EveryWorkerEnded(count) == count = Workers

(* End is passed to the ranks when the last worker has sent it.            *)
ReceiveEnd(w) ==
    /\ queue[w] # <<>> /\ Head(queue[w]) = EndMessage
    /\ queue' = [queue EXCEPT ![w] = Tail(@)]
    /\ endCount' = endCount + 1
    /\ outbox' = IF EveryWorkerEnded(endCount')
                   THEN [r \in Rank |-> Append(outbox[r], End)]
                   ELSE outbox
    /\ UNCHANGED <<window, nextWorker, assembling, finished, nextBatch, sockets, reading,
                   counts>>

(* The first batch from nextBatch on that is not complete yet.             *)
ReleasedUpTo(complete) ==
    CHOOSE n \in nextBatch .. EndAt :
        n \notin complete /\ nextBatch .. n - 1 \subseteq complete

(* How many of the batches before n are of rank r: every Ranks-th from r.  *)
Passed(r, n) == (n + Ranks - 1 - r) \div Ranks

(* Mutant: the last batch released is left out.                            *)
AllButLast(r, lo, hi) ==
    [i \in 1 .. Passed(r, hi - 1) - Passed(r, lo) |-> (Passed(r, lo) + i - 1) * Ranks + r]

(* The batches lo .. hi-1 of rank r, in order.                             *)
ForRank(r, lo, hi) ==
    [i \in 1 .. Passed(r, hi) - Passed(r, lo) |-> (Passed(r, lo) + i - 1) * Ranks + r]

(* Samples join their batch; a batch that is complete is collated, and the *)
(* batches that are now next in order go to the outboxes of their ranks.   *)
ReceiveSamples(w) ==
    /\ queue[w] # <<>> /\ Head(queue[w]) # EndMessage
    /\ queue' = [queue EXCEPT ![w] = Tail(@)]
    /\ LET n == Head(queue[w]).batch
           arrived == assembling[n] \cup Head(queue[w]).samples
           complete == IF arrived = Indices(n) THEN finished \cup {n} ELSE finished
           upTo == ReleasedUpTo(complete)
       IN /\ assembling' = [assembling EXCEPT ![n] = IF n \in complete THEN {} ELSE arrived]
          /\ finished' = {m \in complete : m >= upTo}
          /\ nextBatch' = upTo
          /\ outbox' = [r \in Rank |-> outbox[r] \o ForRank(r, nextBatch, upTo)]
    /\ UNCHANGED <<window, nextWorker, endCount, sockets, reading, counts>>

-----------------------------------------------------------------------------
(* The collator's side of the readers.                                     *)

(* The collator looks for listeners of the ranks it has no connection to;  *)
(* the first reader of the stream starts the prefetcher.                   *)
Connect(r) ==
    /\ conn[r] = "none"
    /\ reader[r] = "listening"
    /\ conn' = [conn EXCEPT ![r] = "open"]
    /\ reader' = [reader EXCEPT ![r] = "open"]
    /\ IF active THEN UNCHANGED window ELSE Window!Activate
    /\ UNCHANGED <<nextWorker, queue, collating, outbox, asks, wire, wanted, current,
                   progress, delivered, ended, counts>>

HearNext(r) ==
    /\ asks[r] > 0
    /\ asks' = [asks EXCEPT ![r] = @ - 1]
    /\ wanted' = wanted \cup {r}
    /\ UNCHANGED <<window, nextWorker, queue, collating, outbox, conn, wire, reading, counts>>

(* End of file, after whatever the reader had sent before it closed.       *)
HearClose(r) ==
    /\ conn[r] = "half"
    /\ asks[r] = 0
    /\ conn' = [conn EXCEPT ![r] = "none"]
    /\ wanted' = wanted \ {r}
    /\ UNCHANGED <<window, nextWorker, queue, collating, outbox, asks, wire, reading, counts>>

(* Mutants: End is taken like a batch; nothing is taken.                   *)
TakenLikeABatch(r) == Tail(outbox[r])
NeverTaken(r) == outbox[r]

(* Only a message that was sent is taken from the outbox, and End stays    *)
(* for readers that are opened later.                                      *)
AfterSend(r) == IF Head(outbox[r]) = End THEN outbox[r] ELSE Tail(outbox[r])

Unanswered(r) == wanted \ {r}

(* Requests are answered in the order of the outbox; a send that fails     *)
(* gives the connection up and keeps the message.                          *)
Serve(r) ==
    /\ r \in wanted
    /\ outbox[r] # <<>>
    /\ wanted' = Unanswered(r)
    /\ IF conn[r] = "open"
         THEN /\ wire' = [wire EXCEPT ![r] = Append(@, Head(outbox[r]))]
              /\ outbox' = [outbox EXCEPT ![r] = AfterSend(r)]
              /\ UNCHANGED <<conn, asks>>
         ELSE \* OSError: the peer has closed its end
              /\ conn' = [conn EXCEPT ![r] = "none"]
              /\ asks' = [asks EXCEPT ![r] = 0]
              /\ UNCHANGED <<wire, outbox>>
    /\ UNCHANGED <<window, nextWorker, queue, collating, reading, counts>>

-----------------------------------------------------------------------------
(* The batch reader of a rank.                                             *)

(* BatchReader.__init__ listens until the collator connects.  A rank opens *)
(* a reader until its loop is over; after an early close it opens another. *)
Open(r) ==
    /\ reader[r] = "closed"
    /\ r \notin ended
    /\ reader' = [reader EXCEPT ![r] = "listening"]
    /\ UNCHANGED <<window, nextWorker, queue, collating, outbox, sockets, current, progress,
                   delivered, ended, counts>>

AskNext(r) ==
    /\ reader[r] = "open"
    /\ reader' = [reader EXCEPT ![r] = "waiting"]
    /\ asks' = [asks EXCEPT ![r] = @ + 1]
    /\ UNCHANGED <<window, nextWorker, queue, collating, outbox, conn, wire, wanted, current,
                   progress, delivered, ended, counts>>

(* __next__ receives a batch.                                              *)
TakeBatch(r) ==
    /\ reader[r] = "waiting"
    /\ wire[r] # <<>> /\ Head(wire[r]) # End
    /\ wire' = [wire EXCEPT ![r] = Tail(@)]
    /\ current' = [current EXCEPT ![r] = Head(wire[r])]
    /\ reader' = [reader EXCEPT ![r] = "took"]
    /\ UNCHANGED <<window, nextWorker, queue, collating, outbox, conn, asks, wanted, progress,
                   delivered, ended, counts>>

(* It replaces the progress file ...                                       *)
WriteProgress(r) ==
    /\ reader[r] = "took"
    /\ progress' = [progress EXCEPT ![r] = current[r] + Ranks]
    /\ reader' = [reader EXCEPT ![r] = "written"]
    /\ UNCHANGED <<window, nextWorker, queue, collating, outbox, sockets, current, delivered,
                   ended, counts>>

(* ... gives memory and credit back and returns the batch.                 *)
ReturnBatch(r) ==
    /\ reader[r] = "written"
    /\ Window!Return
    /\ delivered' = [delivered EXCEPT ![r] = Append(@, current[r])]
    /\ current' = [current EXCEPT ![r] = None]
    /\ reader' = [reader EXCEPT ![r] = "open"]
    /\ UNCHANGED <<nextWorker, queue, collating, outbox, sockets, progress, ended, counts>>

(* Closing drops what the reader has not read; the collator finds out.     *)
Shut(r) ==
    /\ reader' = [reader EXCEPT ![r] = "closed"]
    /\ conn' = [conn EXCEPT ![r] = "half"]
    /\ wire' = [wire EXCEPT ![r] = <<>>]

(* End closes the reader and ends the loop.                                *)
TakeEnd(r) ==
    /\ reader[r] = "waiting"
    /\ wire[r] # <<>> /\ Head(wire[r]) = End
    /\ Shut(r)
    /\ ended' = ended \cup {r}
    /\ UNCHANGED <<window, nextWorker, queue, collating, outbox, asks, wanted, current,
                   progress, delivered, counts>>

(* The training code closes a reader between two batches.                  *)
CloseEarly(r) ==
    /\ closes < MaxCloses
    /\ reader[r] = "open"
    /\ closes' = closes + 1
    /\ Shut(r)
    /\ UNCHANGED <<window, nextWorker, queue, collating, outbox, asks, wanted, current,
                   progress, delivered, ended, interrupts>>

(* An exception (Ctrl-C, a signal handler that raises) leaves __next__;    *)
(* the reader stays open and the batch it may hold is gone.                *)
Interrupt(r) ==
    /\ interrupts < MaxInterrupts
    /\ reader[r] \in InterruptAt
    /\ interrupts' = interrupts + 1
    /\ reader' = [reader EXCEPT ![r] = "open"]
    /\ current' = [current EXCEPT ![r] = None]
    /\ UNCHANGED <<window, nextWorker, queue, collating, outbox, sockets, progress, delivered,
                   ended, closes>>

(* Every loop is over.                                                     *)
Terminated == ended = Rank /\ UNCHANGED vars

-----------------------------------------------------------------------------

Daemon == RequestBatch \/ DistributeBatch \/ DistributeEnd

Collator ==
    \/ \E w \in Worker : ReceiveEnd(w) \/ ReceiveSamples(w)
    \/ \E r \in Rank : Connect(r) \/ HearNext(r) \/ HearClose(r) \/ Serve(r)

Reader(r) ==
    \/ Open(r)
    \/ AskNext(r)
    \/ TakeBatch(r)
    \/ WriteProgress(r)
    \/ ReturnBatch(r)
    \/ TakeEnd(r)

Next ==
    \/ Daemon
    \/ Collator
    \/ \E r \in Rank : Reader(r) \/ CloseEarly(r) \/ Interrupt(r)
    \/ Terminated

Spec == Init /\ [][Next]_vars

(* Every process is scheduled; the collator's loop visits every connection *)
(* and every slot; ranks go on asking, but nothing makes them close.       *)
Fairness ==
    /\ WF_vars(RequestBatch) /\ WF_vars(DistributeBatch) /\ WF_vars(DistributeEnd)
    /\ \A w \in Worker : WF_vars(ReceiveEnd(w) \/ ReceiveSamples(w))
    /\ \A r \in Rank :
        /\ WF_vars(Connect(r)) /\ WF_vars(HearNext(r))
        /\ WF_vars(HearClose(r)) /\ WF_vars(Serve(r))
        /\ WF_vars(Reader(r))

FairSpec == Spec /\ Fairness

-----------------------------------------------------------------------------
(* Safety.                                                                 *)

(* The batch a rank's loop receives next: the progress file runs ahead of  *)
(* the loop while __next__ has written it but not returned.                *)
NextOf(r) == IF reader[r] = "written" THEN current[r] ELSE progress[r]

Stream == INSTANCE BatchStream WITH next <- [r \in Rank |-> NextOf(r)]

(* However the workers race and whenever readers are closed between two    *)
(* batches and opened again, every rank gets its batches in order, without *)
(* gap or repetition, and its loop ends only after the last one, until the *)
(* first exception leaves __next__.                                        *)
ImplementsStream ==
    /\ Stream!Init
    /\ [][interrupts' = 0 => [Stream!Next]_Stream!vars]_vars

(* The collator answers every request of a rank it is connected to with    *)
(* one message: a reader never has two batches on the wire, so that a      *)
(* close between two batches loses none; as long as no exception has left  *)
(* __next__.                                                               *)
OneAnswerPerAsk ==
    \A r \in Rank :
        interrupts = 0 /\ conn[r] = "open" =>
            asks[r] + (IF r \in wanted THEN 1 ELSE 0) + Len(wire[r])
                = (IF reader[r] = "waiting" THEN 1 ELSE 0)

(* The batches in the workers, in the collator, on a wire or in a reader's *)
(* hands.                                                                  *)
InFlight ==
    {n \in Batches :
        \/ \E w \in Worker : n \in {m.batch : m \in Range(queue[w])}
        \/ assembling[n] # {}
        \/ n \in finished
        \/ \E r \in Rank : n \in Range(outbox[r]) \cup Range(wire[r]) \cup {current[r]}}

(* Every batch emitted and not returned is in flight, and its credit with  *)
(* it; an exception in __next__ costs at most one batch, and with none no  *)
(* batch is lost however often readers are closed and opened again.  A     *)
(* batch that is missing makes the window smaller for good.                *)
LossBounded == emitted - returned - Cardinality(InFlight) <= interrupts

(* Whatever is closed or interrupted, a rank never receives a batch twice, *)
(* nor an earlier one after a later one, nor another rank's.               *)
ReturnsAdvance ==
    \A r \in Rank :
        /\ \A i \in DOMAIN delivered[r] : delivered[r][i] % Ranks = r
        /\ \A i, j \in DOMAIN delivered[r] : i < j => delivered[r][i] < delivered[r][j]

(* The cursor client.py saves with a checkpoint: the least progress file.  *)
IsCursor(c) ==
    /\ \E r \in Rank : progress[r] = c
    /\ \A r \in Rank : c <= progress[r]

(* No rank is receiving a batch, as the README asks for when a checkpoint  *)
(* is saved.                                                               *)
Synchronized == \A r \in Rank : reader[r] \notin {"took", "written"}

Returned(n) == \E r \in Rank : n \in Range(delivered[r])

(* "Checkpoint metadata records batches returned to training code,         *)
(* excluding prefetched batches" (README.md): a cursor saved while ranks   *)
(* are synchronized has every batch before it behind it ...                *)
CursorSkipsNothing ==
    Synchronized =>
        \A n \in Batches : (\A c \in {progress[r] : r \in Rank} : n < c) => Returned(n)

(* ... and is itself the first batch that was not returned, so that a run  *)
(* resumed with any number of ranks replays as little as it can.           *)
CursorIsFirstUnreturned ==
  interrupts = 0 =>
    /\ CursorSkipsNothing
    /\ Synchronized =>
         \A n \in Batches : IsCursor(n) => ~Returned(n)

(* The loop of every rank ends.                                            *)
EveryLoopEnds == <>(ended = Rank)
=============================================================================
