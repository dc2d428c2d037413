------------------------------- MODULE Uploads -------------------------------
(***************************************************************************)
(* What happens to metrics, artifacts and saved assets between the call in *)
(* the training process and the request to the server: one UploadClient    *)
(* (src/client/src/upload_client.rs), its connection, and the daemon's end *)
(* of it (src/client/src/uploads.rs).                                      *)
(*                                                                         *)
(* Calls put commands into a bounded queue.  forward() writes them to the  *)
(* daemon's socket one by one; for a flush it waits for the reply.  The    *)
(* daemon collects metrics in batches that one task sends in order, starts *)
(* one task per artifact and per saved asset (each save waits for the one  *)
(* before), and on a flush, at the end of the connection and when the      *)
(* daemon stops it waits for all of them and reports what failed.          *)
(*                                                                         *)
(* An upload is the number of its call.  A request to the server commits   *)
(* or fails as a whole: UploadCommit.tla models what is behind it.  A      *)
(* reply is the set of failures it reports, {} for Ok(()), with Connection *)
(* for an error of the connection itself.                                  *)
(***************************************************************************)
EXTENDS Naturals, Sequences, FiniteSets, SequencesExt

CONSTANTS
  Kinds,        \* kinds of upload the training process makes
  MaxUploads,   \* bound on the uploads
  MaxCalls,     \* bound on the calls of flush() and close()
  QueueSize,    \* commands the queue holds: 1024 in the code
  Permits,      \* artifacts uploaded at once: 16 in the code
  BatchSize,    \* metrics in a batch: 500 in the code
  MaxFailures,  \* bound on the requests that fail
  MaxTimeouts   \* bound on the calls whose timeout expires

VARIABLES
  app,       \* the training process: "open", "closed" or "dead"
  kind,      \* the kind of every upload, in the order of the calls
  calls,     \* every flush() and close(): what it covers and how it stands
  commands,  \* the queue of the UploadClient
  forward,   \* the forward task: its pc, the call it serves, the dirty flag
  inbound,   \* messages on the socket, to the daemon
  replies,   \* replies on the socket, to the client
  daemon,    \* process(): its pc, the batch, the tasks, the failures
  metrics,   \* send_metrics(): its queue and the failures it keeps
  status,    \* where every upload is
  stopping,  \* the daemon's stopping token
  faults,    \* failed requests and expired timeouts so far
  told,      \* failures a waiting call was given
  lost,      \* failures given to a call that had stopped waiting
  saved      \* saved assets in the order the server committed them

vars == <<app, kind, calls, commands, forward, inbound, replies, daemon,
          metrics, status, stopping, faults, told, lost, saved>>
client == <<app, kind, calls, commands, forward, told, lost>>
server == <<daemon, metrics, status, saved>>

Connection == 0
Upload(u) == [type |-> "upload", of |-> u]
Flush(c) == [type |-> "flush", of |-> c]
Cut == [type |-> "cut", of |-> 0]
Sent == DOMAIN kind
Finished(u) == status[u] \in {"committed", "failed"}

Init ==
  /\ app = "open" /\ kind = <<>> /\ calls = <<>> /\ commands = <<>>
  /\ forward = [pc |-> "idle", call |-> 0, dirty |-> FALSE]
  /\ inbound = <<>> /\ replies = <<>>
  /\ daemon \in [pc : {"receive"}, ending : {FALSE}, batch : {<<>>},
                 tasks : {{}}, failures : {{}}, automatic : BOOLEAN,
                 result : {"none"}]
  /\ metrics = [queue |-> <<>>, failures |-> {}]
  /\ status = <<>> /\ stopping = FALSE
  /\ faults = [failed |-> 0, expired |-> 0]
  /\ told = {} /\ lost = {} /\ saved = <<>>

-----------------------------------------------------------------------------
(* The training process.                                                   *)

\* The reply reaches the call if it still waits, and nobody otherwise.
Answered(c, reply) ==
  IF c \in DOMAIN calls /\ calls[c].state = "waiting"
    THEN /\ calls' = [calls EXCEPT ![c].state =
                        IF reply = {} THEN "ok" ELSE "err"]
         /\ told' = told \cup reply
         /\ UNCHANGED lost
    ELSE lost' = lost \cup reply /\ UNCHANGED <<calls, told>>

\* metric(), metric_artifact() and save_asset() wait for room in the queue
\* and nothing else: a failure is not theirs to report.
Send(k) ==
  /\ app = "open" /\ forward.pc # "done"
  /\ daemon.automatic => k \in {"metric", "invalid"}
  /\ Len(kind) < MaxUploads /\ Len(commands) < QueueSize
  /\ kind' = Append(kind, k)
  /\ status' = Append(status, "queued")
  /\ commands' = Append(commands, Upload(Len(kind')))
  /\ UNCHANGED <<app, calls, forward, inbound, replies, daemon, metrics,
                 stopping, faults, told, lost, saved>>

\* flush(), and close(), which also takes the sender away.
Call(closing) ==
  /\ app = "open" /\ Len(calls) < MaxCalls
  /\ Len(commands) < QueueSize \/ forward.pc = "done"
  /\ app' = IF closing THEN "closed" ELSE app
  /\ calls' = Append(calls, [covers |-> Len(kind), closing |-> closing,
                             state |-> IF forward.pc = "done" THEN "err"
                                                              ELSE "waiting"])
  /\ commands' = IF forward.pc = "done" THEN commands
                 ELSE Append(commands, Flush(Len(calls')))
  /\ UNCHANGED <<kind, forward, inbound, replies, daemon, metrics, status,
                 stopping, faults, told, lost, saved>>

\* The caller stops waiting.  Its command stays where it is.
Expire(c) ==
  /\ calls[c].state = "waiting" /\ ~calls[c].closing
  /\ faults.expired < MaxTimeouts
  /\ calls' = [calls EXCEPT ![c].state = "gone"]
  /\ faults' = [faults EXCEPT !.expired = @ + 1]
  /\ UNCHANGED <<app, kind, commands, forward, inbound, replies, daemon,
                 metrics, status, stopping, told, lost, saved>>

\* The process dies, perhaps in the middle of writing a message.
Die ==
  /\ app # "dead" /\ forward.pc # "done"
  /\ app' = "dead"
  /\ calls' = [c \in DOMAIN calls |->
                 IF calls[c].state = "waiting"
                   THEN [calls[c] EXCEPT !.state = "gone"] ELSE calls[c]]
  /\ forward' = [forward EXCEPT !.pc = "done"]
  /\ \/ UNCHANGED inbound
     \/ /\ forward.pc = "idle" /\ commands # <<>>
        /\ inbound' = Append(inbound, Cut)
  /\ commands' = <<>>
  /\ lost' = lost \cup UNION Range(replies)
  /\ UNCHANGED <<kind, replies, daemon, metrics, status, stopping, faults, told,
                 saved>>

\* The handle closes, the run is interrupted, a process of it died.
Stop ==
  /\ ~stopping /\ stopping' = TRUE
  /\ UNCHANGED <<client, server, inbound, replies, faults>>

-----------------------------------------------------------------------------
(* forward().                                                              *)

Closed == daemon.pc = "ended"

\* The write fails: the task ends, and with it the socket and the queue.
Broken ==
  /\ forward' = [forward EXCEPT !.pc = "done"]
  /\ calls' = [c \in DOMAIN calls |->
                 IF calls[c].state = "waiting"
                   THEN [calls[c] EXCEPT !.state = "err"] ELSE calls[c]]
  /\ commands' = <<>>
  /\ UNCHANGED <<inbound, told, lost>>

ForwardUpload ==
  /\ forward.pc = "idle" /\ commands # <<>> /\ Head(commands).type = "upload"
  /\ IF Closed THEN Broken
     ELSE /\ inbound' = Append(inbound, Head(commands))
          /\ commands' = Tail(commands)
          /\ forward' = [forward EXCEPT !.dirty = TRUE]
          /\ UNCHANGED <<calls, told, lost>>
  /\ UNCHANGED <<app, kind, replies, server, stopping, faults>>

\* Without an upload since the last Ok there is nothing to ask for.
Asks == forward.dirty

ForwardFlush ==
  /\ forward.pc = "idle" /\ commands # <<>> /\ Head(commands).type = "flush"
  /\ commands' = Tail(commands)
  /\ IF Asks
       THEN /\ forward' = [forward EXCEPT !.pc = "reply",
                                          !.call = Head(commands).of]
            /\ inbound' = IF Closed THEN inbound
                                    ELSE Append(inbound, Head(commands))
            /\ UNCHANGED <<calls, told, lost>>
       ELSE Answered(Head(commands).of, {}) /\ UNCHANGED <<forward, inbound>>
  /\ UNCHANGED <<app, kind, replies, server, stopping, faults>>

\* A mutation of StillDirty: any reply is taken for a clean flush.
CleanAfterAny(reply) == FALSE

\* After a failure the next flush asks again.
StillDirty(reply) == reply # {}

ForwardReply ==
  /\ forward.pc = "reply" /\ (replies # <<>> \/ Closed)
  /\ LET reply == IF replies = <<>> THEN {Connection} ELSE Head(replies) IN
       /\ Answered(forward.call, reply)
       /\ forward' = [pc |-> "idle", call |-> 0, dirty |-> StillDirty(reply)]
  /\ replies' = IF replies = <<>> THEN replies ELSE Tail(replies)
  /\ UNCHANGED <<app, kind, commands, inbound, server, stopping, faults>>

\* The last sender is gone and the queue is empty.
ForwardEnd ==
  /\ forward.pc = "idle" /\ app = "closed" /\ commands = <<>>
  /\ forward' = [forward EXCEPT !.pc = "done"]
  /\ UNCHANGED <<app, kind, calls, commands, inbound, replies, server,
                 stopping, faults, told, lost>>

-----------------------------------------------------------------------------
(* process(), the daemon's end of the connection.                          *)

Moved(us, where) ==
  status' = [u \in Sent |-> IF u \in us THEN where ELSE status[u]]

\* select! is biased: the reader comes first, the rest when it has nothing.
Receives == daemon.pc = "receive" /\ inbound # <<>>
Idle == daemon.pc = "receive" /\ inbound = <<>>

Full(batch) == Len(batch) >= BatchSize

ReceiveMetric ==
  /\ Receives /\ Head(inbound).type = "upload"
  /\ LET u == Head(inbound).of
         batch == Append(daemon.batch, u) IN
       \/ /\ kind[u] = "invalid" /\ Moved({u}, "skipped")
          /\ UNCHANGED <<daemon, metrics>>
       \/ /\ kind[u] = "metric" /\ Moved({u}, "batched")
          /\ IF Full(batch)
               THEN /\ daemon' = [daemon EXCEPT !.batch = <<>>]
                    /\ metrics' = [metrics EXCEPT !.queue = Append(@, batch)]
               ELSE /\ daemon' = [daemon EXCEPT !.batch = batch]
                    /\ UNCHANGED metrics
  /\ inbound' = Tail(inbound)
  /\ UNCHANGED <<client, replies, stopping, faults, saved>>

ReceiveFile ==
  /\ Receives /\ Head(inbound).type = "upload"
  /\ LET u == Head(inbound).of IN
       /\ kind[u] \in {"artifact", "asset"}
       /\ Moved({u}, "spawned")
       /\ daemon' = [daemon EXCEPT !.tasks = @ \cup {u}]
  /\ inbound' = Tail(inbound)
  /\ UNCHANGED <<client, replies, metrics, stopping, faults, saved>>

Over == forward.pc = "done" \/ stopping

\* A flush; the end of the connection and the end of the daemon are treated
\* as one, after which the loop is left.
ReceiveFlush ==
  /\ \/ /\ Receives /\ Head(inbound).type = "flush"
        /\ inbound' = Tail(inbound)
        /\ daemon' = [daemon EXCEPT !.pc = "join"]
     \/ /\ Idle /\ Over
        /\ daemon' = [daemon EXCEPT !.pc = "join", !.ending = TRUE]
        /\ UNCHANGED inbound
  /\ UNCHANGED <<client, replies, metrics, status, stopping, faults, saved>>

\* A message was cut off: process() fails, which drops the tasks and lets the
\* metric task finish its queue.  A request under way may still be committed.
ReceiveCut ==
  /\ Receives /\ Head(inbound) = Cut
  /\ \E done \in SUBSET {u \in daemon.tasks : status[u] = "running"} :
       /\ status' = [u \in Sent |->
         IF u \in done THEN "committed"
         ELSE IF u \in daemon.tasks /\ ~Finished(u) THEN "failed"
         ELSE status[u]]
       /\ \E order \in SetToSeqs({u \in done : kind[u] = "asset"}) :
            saved' = saved \o order
  /\ daemon' = [daemon EXCEPT !.pc = "ended", !.tasks = {},
                              !.result = IF daemon.automatic THEN "ok" ELSE "err"]
  /\ UNCHANGED <<client, inbound, replies, metrics, stopping, faults>>

\* Mutations of Joined: a task is not waited for; one that failed never ends.
NotAwaited(u) == TRUE
OnlyCommitted(u) == status[u] = "committed"

\* A task that has ended is joined, in the loop or while a flush waits.
Joined(u) == Finished(u)
Join(u) ==
  /\ u \in daemon.tasks /\ Joined(u)
  /\ Idle \/ daemon.pc = "join"
  /\ daemon' = [daemon EXCEPT !.tasks = @ \ {u},
       !.failures = IF status[u] = "failed" THEN @ \cup {u} ELSE @]
  /\ UNCHANGED <<client, inbound, replies, metrics, status, stopping, faults,
                 saved>>

\* Once a second what has been collected goes to the metric task.
Tick ==
  /\ Idle /\ daemon.batch # <<>>
  /\ metrics' = [metrics EXCEPT !.queue = Append(@, daemon.batch)]
  /\ daemon' = [daemon EXCEPT !.batch = <<>>]
  /\ UNCHANGED <<client, inbound, replies, status, stopping, faults, saved>>

\* Every task is joined: the rest of the metrics, and a mark behind them.
Rest == daemon.batch
FlushMetrics ==
  /\ daemon.pc = "join" /\ daemon.tasks = {}
  /\ metrics' = [metrics EXCEPT !.queue = @ \o <<Rest, <<>>>>]
  /\ daemon' = [daemon EXCEPT !.pc = "flushed", !.batch = <<>>]
  /\ UNCHANGED <<client, inbound, replies, status, stopping, faults, saved>>

\* A mutation of Fails: failures that nobody asked for are dropped.
NeverFails(failures) == FALSE

\* The mark comes out of the queue and the flush is answered.  Writing the
\* reply fails when the client is gone, and then the connection ends.
Fails(failures) == failures # {}

Reply ==
  /\ daemon.pc = "flushed" /\ metrics.queue = <<<<>>>>
  /\ LET failures == daemon.failures \cup metrics.failures
         gone == ~daemon.ending /\ forward.pc = "done"
         ends == daemon.ending \/ gone
         err == gone \/ (ends /\ Fails(failures)) IN
       /\ replies' = IF gone \/ (ends /\ ~err) THEN replies
                     ELSE Append(replies, failures)
       /\ daemon' = [daemon EXCEPT
            !.pc = IF ends THEN "ended" ELSE "receive",
            !.failures = IF ends THEN failures ELSE {},
            !.result = IF ~ends THEN "none"
                       ELSE IF err /\ ~daemon.automatic THEN "err" ELSE "ok"]
  /\ metrics' = [queue |-> <<>>, failures |-> {}]
  /\ UNCHANGED <<client, inbound, status, stopping, faults, saved>>

-----------------------------------------------------------------------------
(* The tasks.                                                              *)

Outcome(us, done) ==
  /\ Moved(us, IF done THEN "committed" ELSE "failed")
  /\ ~done => faults.failed < MaxFailures
  /\ faults' = [faults EXCEPT !.failed = IF done THEN @ ELSE @ + 1]

\* send_metrics(): one batch at a time, in order; an empty one is passed over.
SendMetrics ==
  /\ metrics.queue # <<>>
  /\ LET batch == Head(metrics.queue)
         us == ToSet(batch) IN
       \/ /\ batch # <<>>
          /\ \E done \in BOOLEAN :
               /\ Outcome(us, done)
               /\ metrics' = [queue |-> Tail(metrics.queue),
                    failures |-> IF done THEN metrics.failures
                                         ELSE metrics.failures \cup us]
       \/ /\ batch = <<>> /\ Len(metrics.queue) > 1
          /\ metrics' = [metrics EXCEPT !.queue = Tail(@)]
          /\ UNCHANGED <<status, faults>>
  /\ UNCHANGED <<client, inbound, replies, daemon, stopping, saved>>

\* A mutation of Before: a save does not wait for the one before it.
AtOnce(u) == TRUE

\* A save waits until the save before it has ended, well or not.  An artifact
\* waits for a permit.
Before(u) == \A v \in daemon.tasks : v < u /\ kind[v] = "asset" => Finished(v)
Uploading == {u \in Sent : kind[u] = "artifact" /\ status[u] = "running"}

Start(u) ==
  /\ status[u] = "spawned"
  /\ kind[u] = "asset" => Before(u)
  /\ kind[u] = "artifact" => Cardinality(Uploading) < Permits
  /\ Moved({u}, "running")
  /\ UNCHANGED <<client, inbound, replies, daemon, metrics, stopping, faults,
                 saved>>

\* The file is read, sent and committed, or one of these fails.
Finish(u) ==
  /\ status[u] = "running"
  /\ \E done \in BOOLEAN :
       /\ Outcome({u}, done)
       /\ saved' = IF done /\ kind[u] = "asset" THEN Append(saved, u) ELSE saved
  /\ UNCHANGED <<client, inbound, replies, daemon, metrics, stopping>>

Forward == ForwardUpload \/ ForwardFlush \/ ForwardReply \/ ForwardEnd
Process == \/ ReceiveMetric \/ ReceiveFile \/ ReceiveFlush \/ ReceiveCut
           \/ \E u \in Sent : Join(u)
           \/ FlushMetrics \/ Reply
Tasks == SendMetrics \/ \E u \in Sent : Start(u) \/ Finish(u)

Next ==
  \/ \E k \in Kinds : Send(k)
  \/ \E closing \in BOOLEAN : Call(closing)
  \/ \E c \in DOMAIN calls : Expire(c)
  \/ Die \/ Stop \/ Tick \/ Forward \/ Process \/ Tasks

Spec == Init /\ [][Next]_vars

\* The tasks of the two runtimes are scheduled, and a request ends: it is
\* retried without a deadline (transport.rs), so a server that stays away for
\* ever is left out here.
FairSpec == Spec /\ WF_vars(Forward) /\ WF_vars(Process) /\ WF_vars(Tasks)

-----------------------------------------------------------------------------

TypeOK ==
  /\ app \in {"open", "closed", "dead"}
  /\ kind \in Seq(Kinds) /\ Len(kind) <= MaxUploads
  /\ \A c \in DOMAIN calls :
       /\ calls[c].state \in {"waiting", "ok", "err", "gone"}
       /\ calls[c].covers \in 0 .. Len(kind)
  /\ Len(commands) <= QueueSize
  /\ forward.pc \in {"idle", "reply", "done"} /\ forward.dirty \in BOOLEAN
  /\ daemon.pc \in {"receive", "join", "flushed", "ended"}
  /\ daemon.tasks \subseteq Sent /\ daemon.failures \subseteq Sent
  /\ daemon.result \in {"none", "ok", "err"}
  /\ Len(daemon.batch) < BatchSize /\ metrics.failures \subseteq Sent
  /\ \A u \in Sent : status[u] \in {"queued", "batched", "skipped", "spawned",
                                    "running", "committed", "failed"}

\* A flush or close that returns Ok covers every upload called before it: each
\* is on the server (or was a metric that is not sent at all), unless its
\* failure was given to an earlier call, or to one that no longer waited
\* (uploads.rs `Flush`, upload_client.rs `dirty`).
FlushCovers ==
  \A c \in DOMAIN calls : calls[c].state = "ok" =>
    \A u \in 1 .. calls[c].covers :
      status[u] \in {"committed", "skipped"} \/ u \in told \cup lost

\* The same without the exception: what a call is not told is not failed.
FlushReports ==
  \A c \in DOMAIN calls : calls[c].state = "ok" =>
    \A u \in 1 .. calls[c].covers :
      status[u] \in {"committed", "skipped"} \/ u \in told

\* When flush() comes back by itself, Ok or not, no upload called before it is
\* still to read its file: save_asset() of an object removes the temporary file
\* right after its flush (client.py:203-206).
FlushWaits ==
  \A c \in DOMAIN calls : calls[c].state \in {"ok", "err"} =>
    \A u \in 1 .. calls[c].covers : status[u] \notin {"spawned", "running"}

\* Saves reach the server in the order of the calls, over the queue, the socket
\* and concurrent tasks: a later save of a name is the later one there.
SavesInOrder == \A i, j \in DOMAIN saved : i < j => saved[i] < saved[j]

\* Once the connection has ended, each failure was given to a call, or is why
\* the daemon fails the run; only automatic metrics may fail unseen.
NoSilentFailure ==
  daemon.pc = "ended" =>
    \A u \in Sent : status[u] = "failed" =>
      u \in told \cup lost \/ u \in UNION ToSet(replies)
      \/ daemon.result = "err" \/ daemon.automatic

\* Every flush and close comes back, and a closed or dead client's connection
\* ends.
CallsEnd == <>[](\A c \in DOMAIN calls : calls[c].state # "waiting")
ConnectionEnds == (app # "open" \/ stopping) ~> daemon.pc = "ended"
EverythingEnds == CallsEnd /\ ConnectionEnds
=============================================================================
