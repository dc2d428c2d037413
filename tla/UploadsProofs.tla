---------------------------- MODULE UploadsProofs ----------------------------
(***************************************************************************)
(* What holds of the uploads of one connection for any kinds of uploads,   *)
(* sizes of queue and batch, failures, timeouts and times of death.        *)
(***************************************************************************)
EXTENDS Uploads, FiniteSetTheorems, TLAPS

(***************************************************************************)
(* The inductive invariant                                                 *)
(***************************************************************************)
Places == {"queued", "batched", "skipped", "spawned", "running", "committed", "failed"}
Message == [type : {"upload", "flush", "cut"}, of : Nat]
CallRecord == [covers : Nat, closing : BOOLEAN,
               state : {"waiting", "ok", "err", "gone"}]

Typed ==
  /\ kind \in Seq(Kinds) /\ status \in Seq(Places) /\ Len(status) = Len(kind)
  /\ calls \in Seq(CallRecord)
  /\ \A c \in DOMAIN calls : calls[c].covers <= Len(kind)
  /\ commands \in Seq(Message) /\ inbound \in Seq(Message)
  /\ forward \in [pc : {"idle", "reply", "done"}, call : Nat, dirty : BOOLEAN]
  /\ replies \in Seq(SUBSET Nat)
  /\ daemon \in [pc : {"receive", "join", "flushed", "ended"}, ending : BOOLEAN,
                 batch : Seq(Nat), tasks : SUBSET Sent, failures : SUBSET Nat,
                 automatic : BOOLEAN, result : {"none", "ok", "err"}]
  /\ metrics \in [queue : Seq(Seq(Nat)), failures : SUBSET Nat]
  /\ told \subseteq Nat /\ lost \subseteq Nat /\ saved \in Seq(Nat)

(* The uploads in a queue, and that they are in the order of the calls.    *)
Holds(queue, u) == \E i \in DOMAIN queue : queue[i] = Upload(u)
IsUpload(message) == message.type = "upload"
InOrder(queue) ==
  \A i, j \in DOMAIN queue :
    i < j /\ IsUpload(queue[i]) /\ IsUpload(queue[j]) => queue[i].of < queue[j].of
After(queue, u) == \A i \in DOMAIN queue : IsUpload(queue[i]) => u < queue[i].of
AllQueued(queue) ==
  \A i \in DOMAIN queue : IsUpload(queue[i]) =>
    queue[i].of \in Sent /\ status[queue[i].of] = "queued"

(* Uploads reach the daemon in the order of the calls: what it received is *)
(* a beginning, what is on the socket comes next, and then the commands.   *)
PipeRight ==
  /\ InOrder(inbound) /\ InOrder(commands)
  /\ AllQueued(inbound) /\ AllQueued(commands)
  /\ \A i \in DOMAIN inbound : IsUpload(inbound[i]) => After(commands, inbound[i].of)
  /\ \A u \in Sent : status[u] = "queued" =>
       /\ Holds(inbound, u) \/ Holds(commands, u) \/ forward.pc = "done"
       /\ Holds(inbound, u) \/ \A i \in DOMAIN inbound :
                                 IsUpload(inbound[i]) => inbound[i].of < u
       /\ \A v \in Sent : u < v => status[v] = "queued"

(* A flush has the uploads it covers before it in the queue, and behind    *)
(* them there is nothing left of them.                                     *)
CommandsCover ==
  /\ \A i \in DOMAIN commands : commands[i].type # "cut"
  /\ \A i \in DOMAIN commands : commands[i].type = "flush" =>
       /\ commands[i].of \in DOMAIN calls
       /\ \A j \in DOMAIN commands : i < j /\ IsUpload(commands[j]) =>
            calls[commands[i].of].covers < commands[j].of
  /\ forward.pc = "reply" =>
       forward.call \in DOMAIN calls /\ After(commands, calls[forward.call].covers)

(* Every metric that is collected is in one batch, and every file has a    *)
(* task until it is joined.                                                *)
MetricsRight ==
  /\ \A u \in ToSet(daemon.batch) : u \in Sent /\ status[u] = "batched"
  /\ \A k \in DOMAIN metrics.queue : \A u \in ToSet(metrics.queue[k]) :
       /\ u \in Sent /\ status[u] = "batched" /\ u \notin ToSet(daemon.batch)
       /\ \A l \in DOMAIN metrics.queue : l # k => u \notin ToSet(metrics.queue[l])
  /\ \A u \in Sent : status[u] = "batched" =>
       u \in ToSet(daemon.batch) \/ \E k \in DOMAIN metrics.queue : u \in ToSet(metrics.queue[k])

TasksRight ==
  /\ \A u \in Sent : status[u] \in {"spawned", "running"} => u \in daemon.tasks
  /\ \A u \in daemon.tasks : status[u] \in {"spawned", "running", "committed", "failed"}
  /\ daemon.pc \in {"flushed", "ended"} => daemon.tasks = {}
  /\ daemon.pc = "flushed" => daemon.batch = <<>>

(* Only failures are reported, and while the connection lives each is kept *)
(* by somebody.                                                            *)
Failure(u) == u = Connection \/ (u \in Sent /\ status[u] = "failed")
FailuresRight ==
  /\ \A u \in told \cup lost \cup daemon.failures \cup metrics.failures : Failure(u)
  /\ \A i \in DOMAIN replies : \A u \in replies[i] : Failure(u)
  /\ daemon.pc # "ended" => \A u \in Sent : status[u] = "failed" =>
       \/ u \in told \cup lost \cup daemon.failures \cup metrics.failures \cup daemon.tasks
       \/ \E i \in DOMAIN replies : u \in replies[i]
  /\ daemon.pc = "ended" /\ metrics.queue # <<>> => daemon.result = "err" \/ daemon.automatic

(* A flush is in one place: behind the uploads on the socket, with the     *)
(* daemon, or on its way back.                                             *)
Serving == daemon.pc \in {"join", "flushed"} /\ ~daemon.ending
FlushRight ==
  /\ \A i \in DOMAIN inbound : inbound[i].type = "cut" => forward.pc = "done"
  /\ app = "dead" => forward.pc = "done"
  /\ app = "open" /\ forward.pc = "done" => daemon.pc = "ended"
  /\ forward.pc # "done" /\ daemon.pc # "ended" =>
       /\ \A i \in DOMAIN inbound : inbound[i].type = "flush" =>
            i = Len(inbound) /\ forward.pc = "reply" /\ replies = <<>>
       /\ Serving => forward.pc = "reply" /\ inbound = <<>> /\ replies = <<>>
       /\ replies # <<>> => /\ forward.pc = "reply" /\ inbound = <<>>
                            /\ daemon.tasks = {} /\ Len(replies) = 1

(* After a clean reply, and until the next upload, all that was written to *)
(* the socket is settled.                                                  *)
Settled(u) == status[u] \in {"committed", "skipped"} \/ u \in told \cup lost
AllSettled == \A u \in Sent : Holds(commands, u) \/ Settled(u)
CleanRight ==
  forward.pc # "done" =>
    /\ ~forward.dirty => AllSettled
    /\ \A i \in DOMAIN replies : replies[i] = {} =>
         i = 1 /\ forward.pc = "reply" /\ AllSettled

(* What a call that came back covers was at the daemon and has ended, or   *)
(* the connection has.                                                     *)
CallsRight ==
  \A c \in DOMAIN calls : calls[c].state \in {"ok", "err"} =>
    \A u \in 1 .. calls[c].covers :
      /\ status[u] \notin {"spawned", "running"}
      /\ status[u] = "queued" => daemon.pc = "ended"

(* A save runs only when the saves before it have ended.                   *)
SavesRight ==
  /\ \A u, v \in Sent : u < v /\ kind[u] = "asset" /\ kind[v] = "asset"
                          /\ status[v] \notin {"queued", "spawned"} =>
       status[u] \notin {"queued", "spawned", "running"}
  /\ \A i \in DOMAIN saved :
       saved[i] \in Sent /\ kind[saved[i]] = "asset" /\ status[saved[i]] = "committed"

IInv ==
  /\ Typed /\ PipeRight /\ CommandsCover /\ MetricsRight /\ TasksRight
  /\ FailuresRight /\ FlushRight /\ CleanRight /\ CallsRight /\ SavesRight
  /\ FlushCovers /\ NoSilentFailure /\ SavesInOrder

(***************************************************************************)
(* Lemmas about sequences                                                  *)
(***************************************************************************)
LEMMA Longer ==
  ASSUME NEW S, NEW s \in Seq(S), NEW x \in S
  PROVE  /\ Append(s, x) \in Seq(S) /\ Len(Append(s, x)) = Len(s) + 1
         /\ DOMAIN s = 1 .. Len(s) /\ Len(s) \in Nat
         /\ DOMAIN Append(s, x) = 1 .. Len(s) + 1
         /\ \A i \in 1 .. Len(s) : Append(s, x)[i] = s[i]
         /\ Append(s, x)[Len(s) + 1] = x
OBVIOUS

LEMMA Shorter ==
  ASSUME NEW S, NEW s \in Seq(S), s # <<>>
  PROVE  /\ Tail(s) \in Seq(S) /\ Len(Tail(s)) = Len(s) - 1
         /\ DOMAIN s = 1 .. Len(s) /\ Len(s) \in Nat \ {0}
         /\ DOMAIN Tail(s) = 1 .. Len(s) - 1
         /\ \A i \in 1 .. Len(s) - 1 : Tail(s)[i] = s[i + 1]
         /\ Head(s) = s[1] /\ s[1] \in S
OBVIOUS

LEMMA Elements ==
  ASSUME NEW s, NEW x
  PROVE  x \in ToSet(s) <=> \E i \in DOMAIN s : s[i] = x
BY DEF ToSet

(***************************************************************************)
(* The training process                                                    *)
(***************************************************************************)
LEMMA PointTypes ==
  ASSUME Typed
  PROVE  /\ Len(kind) \in Nat /\ Sent = 1 .. Len(kind) /\ DOMAIN status = Sent
         /\ \A c \in DOMAIN calls :
              calls[c] \in CallRecord /\ calls[c].covers \in Nat /\ calls[c].covers <= Len(kind)
         /\ \A i \in DOMAIN inbound : inbound[i] \in Message /\ inbound[i].of \in Nat
         /\ \A i \in DOMAIN commands : commands[i] \in Message /\ commands[i].of \in Nat
<1>1. ASSUME NEW s \in Seq(Message), NEW i \in DOMAIN s
      PROVE  s[i] \in Message /\ s[i].of \in Nat
  <2>1. s[i] \in Message
    OBVIOUS
  <2>2. QED
    BY <2>1 DEF Message
<1>2. \A c \in DOMAIN calls : calls[c] \in CallRecord
  BY DEF Typed
<1>3. \A c \in DOMAIN calls : calls[c].covers \in Nat
  BY <1>2 DEF CallRecord
<1>4. Len(kind) \in Nat /\ Sent = 1 .. Len(kind) /\ DOMAIN status = Sent
  BY DEF Typed, Sent
<1>5. QED
  BY <1>1, <1>2, <1>3, <1>4 DEF Typed

(* Batches stay right while they and what is in them stay.                 *)
LEMMA MetricsStay ==
  ASSUME MetricsRight, daemon'.batch = daemon.batch, metrics'.queue = metrics.queue,
         Sent \subseteq Sent',
         \A u \in Sent' : status'[u] = "batched" <=> u \in Sent /\ status[u] = "batched"
  PROVE  MetricsRight'
<1>1. \A u \in ToSet(daemon'.batch) : u \in Sent' /\ status'[u] = "batched"
  BY DEF MetricsRight
<1>2. ASSUME NEW k \in DOMAIN metrics'.queue, NEW u \in ToSet(metrics'.queue[k])
      PROVE  /\ u \in Sent' /\ status'[u] = "batched" /\ u \notin ToSet(daemon'.batch)
             /\ \A l \in DOMAIN metrics'.queue : l # k => u \notin ToSet(metrics'.queue[l])
  BY <1>2 DEF MetricsRight
<1>3. ASSUME NEW u \in Sent', status'[u] = "batched"
      PROVE  u \in ToSet(daemon'.batch) \/ \E k \in DOMAIN metrics'.queue : u \in ToSet(metrics'.queue[k])
  BY <1>3 DEF MetricsRight
<1>4. QED
  BY <1>1, <1>2, <1>3 DEF MetricsRight

LEMMA SendStep ==
  ASSUME IInv, NEW k \in Kinds, Send(k)
  PROVE  IInv'
<1> PICK n \in Nat \ {0} : n = Len(kind) + 1
  BY PointTypes DEF IInv
<1> PICK last \in Nat \ {0} : last = Len(commands) + 1
  BY DEF IInv, Typed
<1>0. /\ Sent = 1 .. n - 1
      /\ \A c \in DOMAIN calls : calls[c].covers \in Nat /\ calls[c].covers <= n - 1
  BY PointTypes DEF IInv
<1>1. /\ n \in Nat \ {0} /\ Sent = 1 .. n - 1 /\ Sent' = 1 .. n /\ Len(kind') = n
      /\ kind' \in Seq(Kinds) /\ \A u \in Sent : kind'[u] = kind[u]
  BY Longer DEF Send, IInv, Typed, Sent
<1>2. /\ status' \in Seq(Places) /\ Len(status') = n
      /\ status'[n] = "queued" /\ \A u \in Sent : status'[u] = status[u]
  <2>1. status \in Seq(Places) /\ Len(status) = Len(kind) /\ status' = Append(status, "queued")
    BY DEF Send, IInv, Typed
  <2>2. "queued" \in Places
    BY DEF Places
  <2>3. QED
    BY <1>1, <2>1, <2>2, Longer
<1>3. /\ Upload(n) \in Message /\ Upload(n).of = n /\ Upload(n).type = "upload"
      /\ \A u : Upload(u) = Upload(n) => u = n
  BY <1>1 DEF Upload, Message
<1>4. /\ last \in Nat \ {0} /\ DOMAIN commands = 1 .. last - 1
      /\ commands' \in Seq(Message) /\ DOMAIN commands' = 1 .. last
      /\ commands'[last] = Upload(n) /\ \A i \in 1 .. last - 1 : commands'[i] = commands[i]
  <2>1. commands \in Seq(Message) /\ commands' = Append(commands, Upload(n))
    BY DEF Send, IInv, Typed
  <2>2. QED
    BY <1>3, <2>1, Longer
<1>5. /\ UNCHANGED <<app, calls, forward, inbound, replies, daemon, metrics, stopping,
                     faults, told, lost, saved>>
      /\ forward.pc # "done" /\ app = "open"
  BY DEF Send
<1>6. Typed'
  <2>2. \A c \in DOMAIN calls : calls[c].covers <= n
    BY <1>0, <1>1
  <2>3. daemon' \in [pc : {"receive", "join", "flushed", "ended"}, ending : BOOLEAN,
                     batch : Seq(Nat), tasks : SUBSET Sent', failures : SUBSET Nat,
                     automatic : BOOLEAN, result : {"none", "ok", "err"}]
    <3>1. \A t \in SUBSET Sent : t \in SUBSET Sent'
      BY <1>1
    <3>2. QED
      BY <1>5, <3>1 DEF IInv, Typed
  <2>4. QED
    BY <1>1, <1>2, <1>4, <1>5, <2>2, <2>3 DEF IInv, Typed
<1>7. IsUpload(Upload(n)) /\ commands'[last].type # "flush" /\ commands'[last].of = n
  BY <1>3, <1>4 DEF IsUpload
<1>8. PipeRight'
  <2>1. InOrder(inbound)' /\ AllQueued(inbound)'
    BY <1>1, <1>2, <1>5 DEF IInv, PipeRight, InOrder, AllQueued
  <2>2. AllQueued(commands)'
    BY <1>1, <1>2, <1>4, <1>7 DEF IInv, PipeRight, AllQueued
  <2>3. InOrder(commands)'
    BY <1>1, <1>4, <1>7 DEF IInv, PipeRight, InOrder, AllQueued
  <2>4. \A i \in DOMAIN inbound' : IsUpload(inbound'[i]) => After(commands, inbound[i].of)'
    BY <1>1, <1>4, <1>5, <1>7 DEF IInv, PipeRight, After, AllQueued
  <2>5. \A u \in Sent' : status'[u] = "queued" =>
           /\ Holds(inbound, u)' \/ Holds(commands, u)' \/ forward'.pc = "done"
           /\ Holds(inbound, u)' \/ \A i \in DOMAIN inbound' :
                                      IsUpload(inbound'[i]) => inbound'[i].of < u
           /\ \A v \in Sent' : u < v => status'[v] = "queued"
    <3>1. ASSUME NEW u \in Sent, status[u] = "queued"
          PROVE  /\ Holds(inbound, u)' \/ Holds(commands, u)'
                 /\ Holds(inbound, u)' \/ \A i \in DOMAIN inbound' :
                                            IsUpload(inbound'[i]) => inbound'[i].of < u
                 /\ \A v \in Sent' : u < v => status'[v] = "queued"
      <4>1. Holds(inbound, u)' <=> Holds(inbound, u)
        BY <1>5 DEF Holds
      <4>2. Holds(commands, u) => Holds(commands, u)'
        BY <1>4 DEF Holds
      <4>3. \A v \in Sent' : u < v => status'[v] = "queued"
        BY <1>1, <1>2, <3>1 DEF IInv, PipeRight
      <4>4. QED
        BY <1>5, <3>1, <4>1, <4>2, <4>3 DEF IInv, PipeRight
    <3>2. /\ Holds(commands, n)' /\ \A v \in Sent' : ~(n < v)
          /\ \A i \in DOMAIN inbound' : IsUpload(inbound'[i]) => inbound'[i].of < n
      <4>1. Holds(commands, n)'
        BY <1>4 DEF Holds
      <4>2. \A i \in DOMAIN inbound' : IsUpload(inbound'[i]) => inbound'[i].of < n
        BY <1>1, <1>5 DEF IInv, PipeRight, AllQueued
      <4>3. QED
        BY <1>1, <4>1, <4>2
    <3>3. ASSUME NEW u \in Sent', status'[u] = "queued"
          PROVE  u = n \/ (u \in Sent /\ status[u] = "queued")
      BY <1>1, <1>2, <3>3
    <3>4. ASSUME NEW u \in Sent', status'[u] = "queued"
          PROVE  /\ Holds(inbound, u)' \/ Holds(commands, u)'
                 /\ Holds(inbound, u)' \/ \A i \in DOMAIN inbound' :
                                            IsUpload(inbound'[i]) => inbound'[i].of < u
                 /\ \A v \in Sent' : u < v => status'[v] = "queued"
      <4>1. CASE u = n
        BY <3>2, <4>1
      <4>2. CASE u \in Sent /\ status[u] = "queued"
        BY <3>1, <4>2
      <4>3. QED
        BY <3>3, <3>4, <4>1, <4>2
    <3>5. QED
      BY <3>4
  <2>6. QED
    BY <2>1, <2>2, <2>3, <2>4, <2>5 DEF PipeRight
<1>9. CommandsCover'
  <2>1. \A c \in DOMAIN calls : calls[c].covers < n
    BY <1>0, <1>1
  <2>2. \A i \in DOMAIN commands' : commands'[i].type # "cut"
    BY <1>3, <1>4 DEF IInv, CommandsCover
  <2>3. ASSUME NEW i \in DOMAIN commands', commands'[i].type = "flush"
        PROVE  /\ commands'[i].of \in DOMAIN calls'
               /\ \A j \in DOMAIN commands' : i < j /\ IsUpload(commands'[j]) =>
                    calls'[commands'[i].of].covers < commands'[j].of
    <3>1. i \in DOMAIN commands /\ commands'[i] = commands[i]
      BY <1>4, <1>7, <2>3
    <3>2. QED
      BY <1>4, <1>5, <1>7, <2>1, <2>3, <3>1 DEF IInv, CommandsCover
  <2>4. forward'.pc = "reply" => /\ forward'.call \in DOMAIN calls'
                                 /\ After(commands, calls[forward.call].covers)'
    BY <1>4, <1>5, <1>7, <2>1 DEF IInv, CommandsCover, After
  <2>5. QED
    BY <2>2, <2>3, <2>4 DEF CommandsCover
<1>10. MetricsRight' /\ TasksRight'
  <2>1. MetricsRight'
    <3>1. \A u \in Sent' : status'[u] = "batched" <=> u \in Sent /\ status[u] = "batched"
      BY <1>1, <1>2
    <3>2. Sent \subseteq Sent'
      BY <1>1
    <3>3. QED
      BY <1>5, <3>1, <3>2, MetricsStay DEF IInv
  <2>2. daemon.tasks \subseteq Sent
    BY DEF IInv, Typed
  <2>3. TasksRight'
    BY <1>1, <1>2, <1>5, <2>2 DEF IInv, TasksRight
  <2>4. QED
    BY <2>1, <2>3
<1>11. FailuresRight'
  BY <1>1, <1>2, <1>5 DEF IInv, FailuresRight, Failure
<1>12. FlushRight'
  BY <1>5 DEF IInv, FlushRight, Serving
<1>13. CleanRight'
  <2>1. AllSettled => AllSettled'
    <3>1. ASSUME AllSettled, NEW u \in Sent' PROVE Holds(commands, u)' \/ Settled(u)'
      <4>1. u = n => Holds(commands, u)'
        BY <1>4 DEF Holds
      <4>2. u \in Sent /\ Holds(commands, u) => Holds(commands, u)'
        BY <1>4 DEF Holds
      <4>3. u \in Sent /\ Settled(u) => Settled(u)'
        BY <1>2, <1>5 DEF Settled
      <4>4. QED
        BY <1>1, <3>1, <4>1, <4>2, <4>3 DEF AllSettled
    <3>2. QED
      BY <3>1 DEF AllSettled
  <2>2. QED
    BY <1>5, <2>1 DEF IInv, CleanRight
<1>14. CallsRight' /\ FlushCovers'
  <2>1. \A c \in DOMAIN calls : \A u \in 1 .. calls[c].covers : u \in Sent
    BY <1>0, <1>1
  <2>2. CallsRight'
    BY <1>2, <1>5, <2>1 DEF IInv, CallsRight
  <2>3. FlushCovers'
    BY <1>2, <1>5, <2>1 DEF IInv, FlushCovers
  <2>4. QED
    BY <2>2, <2>3
<1>15. SavesRight' /\ SavesInOrder'
  BY <1>1, <1>2, <1>5 DEF IInv, SavesRight, SavesInOrder
<1>16. NoSilentFailure'
  BY <1>1, <1>2, <1>5 DEF IInv, NoSilentFailure
<1> QED
  BY <1>6, <1>8, <1>9, <1>10, <1>11, <1>12, <1>13, <1>14, <1>15, <1>16 DEF IInv

(* What a step that leaves the daemon and the tasks alone leaves alone.    *)
LEMMA ServerStays ==
  ASSUME IInv, UNCHANGED <<kind, server>>
  PROVE  MetricsRight' /\ TasksRight' /\ SavesRight' /\ SavesInOrder'
<1>1. UNCHANGED <<kind, daemon, metrics, status, saved, Sent>>
  BY DEF server, Sent
<1>2. MetricsRight' /\ TasksRight'
  BY <1>1 DEF IInv, MetricsRight, TasksRight
<1>3. SavesRight' /\ SavesInOrder'
  BY <1>1 DEF IInv, SavesRight, SavesInOrder
<1>4. QED
  BY <1>2, <1>3

(* A call comes back when what it covers has ended, and without an error   *)
(* only when all of it is settled.                                         *)
EndedBefore(c) ==
  \A u \in 1 .. calls[c].covers : /\ status[u] \notin {"spawned", "running"}
                                  /\ status[u] = "queued" => daemon.pc = "ended"

LEMMA CallsMove ==
  ASSUME IInv, UNCHANGED <<status, daemon>>, told \cup lost \subseteq told' \cup lost',
         DOMAIN calls' = DOMAIN calls,
         \A c \in DOMAIN calls :
           /\ calls'[c].covers = calls[c].covers
           /\ \/ calls'[c].state = calls[c].state
              \/ calls'[c].state = "gone"
              \/ calls'[c].state = "err" /\ EndedBefore(c)
              \/ /\ calls'[c].state = "ok" /\ EndedBefore(c)
                 /\ \A u \in 1 .. calls[c].covers : Settled(u)
  PROVE  CallsRight' /\ FlushCovers'
<1>1. ASSUME NEW c \in DOMAIN calls', calls'[c].state \in {"ok", "err"},
             NEW u \in 1 .. calls'[c].covers
      PROVE  /\ status'[u] \notin {"spawned", "running"}
             /\ status'[u] = "queued" => daemon'.pc = "ended"
  BY <1>1 DEF IInv, CallsRight, EndedBefore
<1>2. ASSUME NEW c \in DOMAIN calls', calls'[c].state = "ok",
             NEW u \in 1 .. calls'[c].covers
      PROVE  status'[u] \in {"committed", "skipped"} \/ u \in told' \cup lost'
  BY <1>2 DEF IInv, FlushCovers, Settled
<1>3. QED
  BY <1>1, <1>2 DEF CallsRight, FlushCovers

LEMMA CallStep ==
  ASSUME IInv, NEW closing \in BOOLEAN, Call(closing)
  PROVE  IInv'
<1> PICK n \in Nat \ {0} : n = Len(calls) + 1
  BY DEF IInv, Typed
<1> PICK last \in Nat \ {0} : last = Len(commands) + 1
  BY DEF IInv, Typed
<1> PICK call : call = [covers |-> Len(kind), closing |-> closing,
                        state |-> IF forward.pc = "done" THEN "err" ELSE "waiting"]
  OBVIOUS
<1>1. UNCHANGED <<kind, forward, inbound, replies, daemon, metrics, status, stopping,
                  faults, told, lost, saved, server, Sent>>
  BY DEF Call, server, Sent
<1>2. app = "open" /\ app' \in {"open", "closed"}
  BY DEF Call
<1>3. /\ Len(kind) \in Nat /\ Sent = 1 .. Len(kind) /\ call \in CallRecord
      /\ call.covers = Len(kind)
      /\ call.state # "waiting" => call.state = "err" /\ forward.pc = "done"
  BY PointTypes DEF CallRecord, IInv
<1>4. /\ calls' \in Seq(CallRecord) /\ DOMAIN calls = 1 .. n - 1 /\ DOMAIN calls' = 1 .. n
      /\ calls'[n] = call /\ \A c \in 1 .. n - 1 : calls'[c] = calls[c]
  <2>1. calls \in Seq(CallRecord) /\ calls' = Append(calls, call) /\ n = Len(calls')
    BY DEF Call, IInv, Typed
  <2>2. QED
    BY <1>3, <2>1, Longer
<1>5. /\ Flush(n) \in Message /\ Flush(n).type = "flush" /\ Flush(n).of = n
      /\ ~IsUpload(Flush(n)) /\ \A u : Upload(u) # Flush(n)
  BY DEF Flush, Message, IsUpload, Upload
<1>6. /\ commands \in Seq(Message) /\ DOMAIN commands = 1 .. last - 1
      /\ \/ commands' = commands
         \/ /\ commands' \in Seq(Message) /\ DOMAIN commands' = 1 .. last
            /\ commands'[last] = Flush(n)
            /\ \A i \in 1 .. last - 1 : commands'[i] = commands[i]
  <2>1. commands \in Seq(Message) /\ n = Len(calls')
    BY DEF Call, IInv, Typed
  <2>2. commands' = commands \/ commands' = Append(commands, Flush(n))
    BY <2>1 DEF Call
  <2>3. QED
    BY <1>5, <2>1, <2>2, Longer
<1>7. Typed'
  <2>0. \A c \in DOMAIN calls : calls[c].covers <= Len(kind)
    BY DEF IInv, Typed
  <2>1. \A c \in DOMAIN calls' : calls'[c].covers <= Len(kind)
    BY <1>3, <1>4, <2>0
  <2>2. QED
    BY <1>1, <1>4, <1>6, <2>1 DEF IInv, Typed
<1>8. PipeRight'
  <2>1. InOrder(inbound)' /\ AllQueued(inbound)'
    BY <1>1 DEF IInv, PipeRight, InOrder, AllQueued
  <2>2. InOrder(commands)' /\ AllQueued(commands)'
    <3>1. \A i \in DOMAIN commands' : IsUpload(commands'[i]) =>
            i \in DOMAIN commands /\ commands'[i] = commands[i]
      BY <1>5, <1>6
    <3>2. InOrder(commands) /\ AllQueued(commands)
      BY DEF IInv, PipeRight
    <3>3. QED
      BY <1>1, <3>1, <3>2 DEF InOrder, AllQueued
  <2>3. \A u : After(commands, u) => After(commands, u)'
    BY <1>5, <1>6 DEF After
  <2>4. \A u : Holds(commands, u) => Holds(commands, u)'
    BY <1>6 DEF Holds
  <2>5. \A i \in DOMAIN inbound' : IsUpload(inbound'[i]) => After(commands, inbound[i].of)'
    BY <1>1, <2>3 DEF IInv, PipeRight
  <2>6. \A u : Holds(inbound, u)' <=> Holds(inbound, u)
    BY <1>1 DEF Holds
  <2>7. QED
    BY <1>1, <2>1, <2>2, <2>4, <2>5, <2>6 DEF IInv, PipeRight
<1>9. CommandsCover'
  <2>1. \A i \in DOMAIN commands' : commands'[i].type # "cut"
    BY <1>5, <1>6 DEF IInv, CommandsCover
  <2>2. ASSUME NEW i \in DOMAIN commands', commands'[i].type = "flush"
        PROVE  /\ commands'[i].of \in DOMAIN calls'
               /\ \A j \in DOMAIN commands' : i < j /\ IsUpload(commands'[j]) =>
                    calls'[commands'[i].of].covers < commands'[j].of
    <3>1. CASE i \in DOMAIN commands /\ commands'[i] = commands[i]
      <4>1. /\ commands[i].of \in DOMAIN calls
            /\ calls'[commands[i].of].covers = calls[commands[i].of].covers
        BY <1>4, <2>2, <3>1 DEF IInv, CommandsCover
      <4>2. \A j \in DOMAIN commands' : IsUpload(commands'[j]) =>
              j \in DOMAIN commands /\ commands'[j] = commands[j]
        BY <1>5, <1>6
      <4>3. QED
        BY <1>4, <2>2, <3>1, <4>1, <4>2 DEF IInv, CommandsCover
    <3>2. CASE i = last /\ DOMAIN commands' = 1 .. last /\ commands'[i] = Flush(n)
      BY <1>4, <1>5, <3>2
    <3>3. QED
      BY <1>6, <2>2, <3>1, <3>2
  <2>3. forward'.pc = "reply" => /\ forward'.call \in DOMAIN calls'
                                 /\ After(commands, calls[forward.call].covers)'
    <3>1. \A i \in DOMAIN commands' : IsUpload(commands'[i]) =>
            i \in DOMAIN commands /\ commands'[i] = commands[i]
      BY <1>5, <1>6
    <3>2. forward.pc = "reply" =>
            forward.call \in DOMAIN calls /\ After(commands, calls[forward.call].covers)
      BY DEF IInv, CommandsCover
    <3>3. QED
      BY <1>1, <1>4, <3>1, <3>2 DEF After
  <2>4. QED
    BY <2>1, <2>2, <2>3 DEF CommandsCover
<1>10. FailuresRight' /\ NoSilentFailure'
  BY <1>1 DEF IInv, FailuresRight, Failure, NoSilentFailure
<1>11. FlushRight'
  BY <1>1, <1>2 DEF IInv, FlushRight, Serving
<1>12. CleanRight'
  <2>1. \A u : Holds(commands, u) => Holds(commands, u)'
    BY <1>6 DEF Holds
  <2>2. AllSettled => AllSettled'
    BY <1>1, <2>1 DEF AllSettled, Settled
  <2>3. QED
    BY <1>1, <2>2 DEF IInv, CleanRight
<1>13. CallsRight' /\ FlushCovers'
  <2>1. call.state = "err" => daemon.pc = "ended"
    BY <1>2, <1>3 DEF IInv, FlushRight
  <2>2. daemon.pc = "ended" => \A u \in Sent : status[u] \notin {"spawned", "running"}
    BY DEF IInv, TasksRight
  <2>3. CallsRight'
    BY <1>1, <1>3, <1>4, <2>1, <2>2 DEF IInv, CallsRight
  <2>4. FlushCovers'
    BY <1>1, <1>3, <1>4 DEF IInv, FlushCovers
  <2>5. QED
    BY <2>3, <2>4
<1>14. QED
  BY <1>1, <1>7, <1>8, <1>9, <1>10, <1>11, <1>12, <1>13, ServerStays DEF IInv

LEMMA ExpireStep ==
  ASSUME IInv, NEW c \in DOMAIN calls, Expire(c)
  PROVE  IInv'
<1>1. UNCHANGED <<app, kind, commands, forward, inbound, replies, daemon, metrics,
                  status, stopping, told, lost, saved, server, Sent>>
  BY DEF Expire, server, Sent
<1>2. /\ calls' \in Seq(CallRecord) /\ DOMAIN calls' = DOMAIN calls
      /\ \A d \in DOMAIN calls : /\ calls'[d].covers = calls[d].covers
                                 /\ calls'[d].state \in {calls[d].state, "gone"}
  <2>1. calls' = [calls EXCEPT ![c].state = "gone"] /\ calls \in Seq(CallRecord)
    BY DEF Expire, IInv, Typed
  <2>2. calls[c] \in CallRecord
    BY <2>1
  <2> PICK call : call = [calls[c] EXCEPT !.state = "gone"]
    OBVIOUS
  <2>3. call \in CallRecord /\ call.covers = calls[c].covers /\ call.state = "gone"
    BY <2>2 DEF CallRecord
  <2>4. calls' = [calls EXCEPT ![c] = call]
    BY <2>1
  <2>5. QED
    BY <2>1, <2>3, <2>4
<1>3. Typed'
  BY <1>1, <1>2 DEF IInv, Typed
<1>4. PipeRight' /\ FlushRight'
  BY <1>1 DEF IInv, PipeRight, InOrder, AllQueued, After, Holds, FlushRight, Serving
<1>5. CommandsCover'
  BY <1>1, <1>2 DEF IInv, CommandsCover, After
<1>6. FailuresRight' /\ NoSilentFailure'
  BY <1>1 DEF IInv, FailuresRight, Failure, NoSilentFailure
<1>7. CleanRight'
  BY <1>1 DEF IInv, CleanRight, AllSettled, Settled, Holds
<1>8. CallsRight' /\ FlushCovers'
  BY <1>1, <1>2, CallsMove
<1>9. QED
  BY <1>1, <1>3, <1>4, <1>5, <1>6, <1>7, <1>8, ServerStays DEF IInv

LEMMA StopStep ==
  ASSUME IInv, Stop
  PROVE  IInv'
<1>1. UNCHANGED <<app, kind, calls, commands, forward, inbound, replies, daemon, metrics,
                  status, told, lost, saved, server, Sent>>
  BY DEF Stop, server, client, Sent
<1>2. Typed'
  BY <1>1 DEF IInv, Typed
<1>3. PipeRight' /\ FlushRight'
  BY <1>1 DEF IInv, PipeRight, InOrder, AllQueued, After, Holds, FlushRight, Serving
<1>4. CommandsCover'
  BY <1>1 DEF IInv, CommandsCover, After
<1>5. FailuresRight' /\ NoSilentFailure'
  BY <1>1 DEF IInv, FailuresRight, Failure, NoSilentFailure
<1>6. CleanRight'
  BY <1>1 DEF IInv, CleanRight, AllSettled, Settled, Holds
<1>7. CallsRight' /\ FlushCovers'
  BY <1>1 DEF IInv, CallsRight, FlushCovers
<1>8. QED
  BY <1>1, <1>2, <1>3, <1>4, <1>5, <1>6, <1>7, ServerStays DEF IInv

(* The end of the forward task, however it comes about.                    *)
LEMMA ForwardEnds ==
  ASSUME IInv, forward' = [forward EXCEPT !.pc = "done"], commands' = <<>>,
         inbound' = inbound \/ inbound' = Append(inbound, Cut),
         app' = "open" => daemon.pc = "ended",
         calls' \in Seq(CallRecord), DOMAIN calls' = DOMAIN calls,
         \A c \in DOMAIN calls : /\ calls'[c].covers = calls[c].covers
                                 /\ \/ calls'[c].state \in {calls[c].state, "gone"}
                                    \/ calls'[c].state = "err" /\ daemon.pc = "ended",
         lost' \in {lost, lost \cup UNION Range(replies)},
         UNCHANGED <<kind, replies, daemon, metrics, status, told, saved>>
  PROVE  IInv'
<1>1. UNCHANGED <<server, Sent>>
  BY DEF server, Sent
<1>2. /\ forward' \in [pc : {"idle", "reply", "done"}, call : Nat, dirty : BOOLEAN]
      /\ forward'.pc = "done"
  <2>1. forward \in [pc : {"idle", "reply", "done"}, call : Nat, dirty : BOOLEAN]
    BY DEF IInv, Typed
  <2>2. QED
    BY <2>1
<1>3. Cut \in Message /\ ~IsUpload(Cut) /\ Cut.type # "flush" /\ \A u : Upload(u) # Cut
  BY DEF Cut, Message, IsUpload, Upload
<1>4. /\ inbound' \in Seq(Message)
      /\ \A i \in DOMAIN inbound : i \in DOMAIN inbound' /\ inbound'[i] = inbound[i]
      /\ \A i \in DOMAIN inbound' : IsUpload(inbound'[i]) =>
           i \in DOMAIN inbound /\ inbound'[i] = inbound[i]
  <2>0. inbound \in Seq(Message)
    BY DEF IInv, Typed
  <2> PICK n \in Nat : n = Len(inbound)
    BY <2>0
  <2>1. inbound \in Seq(Message) /\ DOMAIN inbound = 1 .. n
    BY <2>0
  <2>2. CASE inbound' = Append(inbound, Cut)
    <3>1. /\ inbound' \in Seq(Message) /\ DOMAIN inbound' = 1 .. n + 1
          /\ inbound'[n + 1] = Cut /\ \A i \in 1 .. n : inbound'[i] = inbound[i]
      BY <1>3, <2>1, <2>2, Longer
    <3>2. QED
      BY <1>3, <2>1, <3>1
  <2>3. CASE inbound' = inbound
    BY <2>1, <2>3
  <2>4. QED
    BY <2>2, <2>3
<1>5. /\ \A u \in UNION Range(replies) : u \in Nat /\ Failure(u)
      /\ told \cup lost \subseteq told' \cup lost' /\ lost' \subseteq Nat
      /\ \A u \in lost' : Failure(u)
  <2>1. ASSUME NEW u \in UNION Range(replies)
        PROVE  u \in Nat /\ Failure(u)
    <3>1. PICK i \in DOMAIN replies : u \in replies[i]
      BY <2>1 DEF Range
    <3>2. replies[i] \in SUBSET Nat
      BY DEF IInv, Typed
    <3>3. QED
      BY <3>1, <3>2 DEF IInv, FailuresRight
  <2>2. lost \subseteq Nat /\ \A u \in lost : Failure(u)
    BY DEF IInv, Typed, FailuresRight
  <2>3. QED
    BY <2>1, <2>2
<1>6. Typed'
  <2>1. <<>> \in Seq(Message)
    OBVIOUS
  <2>2. \A c \in DOMAIN calls' : calls'[c].covers <= Len(kind)
    BY PointTypes DEF IInv
  <2>3. QED
    BY <1>1, <1>2, <1>4, <1>5, <2>1, <2>2 DEF IInv, Typed
<1>7. PipeRight'
  <2>1. InOrder(inbound)' /\ AllQueued(inbound)'
    BY <1>1, <1>4 DEF IInv, PipeRight, InOrder, AllQueued
  <2>2. \A u : Holds(inbound, u) => Holds(inbound, u)'
    BY <1>4 DEF Holds
  <2>3. InOrder(commands)' /\ AllQueued(commands)' /\ \A u : After(commands', u)
    BY DEF InOrder, AllQueued, After
  <2>4. \A u \in Sent : status[u] = "queued" =>
          /\ Holds(inbound, u)' \/ \A i \in DOMAIN inbound' :
                                     IsUpload(inbound'[i]) => inbound'[i].of < u
          /\ \A v \in Sent : u < v => status[v] = "queued"
    BY <1>4, <2>2 DEF IInv, PipeRight
  <2>5. QED
    BY <1>1, <1>2, <2>1, <2>3, <2>4 DEF PipeRight
<1>8. CommandsCover' /\ CleanRight'
  BY <1>2 DEF CommandsCover, CleanRight
<1>9. FailuresRight' /\ NoSilentFailure'
  <2>1. \A u : Failure(u)' <=> Failure(u)
    BY <1>1 DEF Failure
  <2>2. FailuresRight'
    BY <1>1, <1>5, <2>1 DEF IInv, FailuresRight
  <2>3. NoSilentFailure'
    BY <1>1, <1>5 DEF IInv, NoSilentFailure
  <2>4. QED
    BY <2>2, <2>3
<1>10. FlushRight'
  BY <1>2 DEF IInv, FlushRight
<1>11. CallsRight' /\ FlushCovers'
  <2>1. ASSUME NEW c \in DOMAIN calls, daemon.pc = "ended"
        PROVE  EndedBefore(c)
    <3>1. \A u \in 1 .. calls[c].covers : u \in Sent
      BY PointTypes DEF IInv
    <3>2. \A u \in Sent : status[u] \notin {"spawned", "running"}
      BY <2>1 DEF IInv, TasksRight
    <3>3. QED
      BY <2>1, <3>1, <3>2 DEF EndedBefore
  <2>2. QED
    BY <1>5, <2>1, CallsMove
<1>12. QED
  BY <1>1, <1>6, <1>7, <1>8, <1>9, <1>10, <1>11, ServerStays DEF IInv

LEMMA CallsChanged ==
  ASSUME Typed, NEW state \in {"err", "gone"},
         calls' = [c \in DOMAIN calls |->
                     IF calls[c].state = "waiting"
                       THEN [calls[c] EXCEPT !.state = state] ELSE calls[c]]
  PROVE  /\ calls' \in Seq(CallRecord) /\ DOMAIN calls' = DOMAIN calls
         /\ \A c \in DOMAIN calls : /\ calls'[c].covers = calls[c].covers
                                    /\ calls'[c].state \in {calls[c].state, state}
<1>1. \A c \in DOMAIN calls : calls[c] \in CallRecord
  BY DEF Typed
<1>2. ASSUME NEW c \in DOMAIN calls
      PROVE  /\ calls'[c] \in CallRecord /\ calls'[c].covers = calls[c].covers
             /\ calls'[c].state \in {calls[c].state, state}
  BY <1>1 DEF CallRecord
<1>3. DOMAIN calls' = 1 .. Len(calls) /\ Len(calls) \in Nat
  BY DEF Typed
<1>4. calls' = [c \in 1 .. Len(calls) |-> calls'[c]]
  BY <1>3
<1>5. calls' \in Seq(CallRecord)
  BY <1>2, <1>3, <1>4
<1>6. QED
  BY <1>2, <1>5

LEMMA DieStep ==
  ASSUME IInv, Die
  PROVE  IInv'
<1>1. /\ app' = "dead" /\ forward' = [forward EXCEPT !.pc = "done"] /\ commands' = <<>>
      /\ inbound' = inbound \/ inbound' = Append(inbound, Cut)
      /\ lost' = lost \cup UNION Range(replies)
      /\ UNCHANGED <<kind, replies, daemon, metrics, status, told, saved>>
  BY DEF Die
<1>2. /\ calls' \in Seq(CallRecord) /\ DOMAIN calls' = DOMAIN calls
      /\ \A c \in DOMAIN calls : /\ calls'[c].covers = calls[c].covers
                                 /\ calls'[c].state \in {calls[c].state, "gone"}
  BY CallsChanged DEF Die, IInv
<1>3. QED
  BY <1>1, <1>2, ForwardEnds

LEMMA BrokenStep ==
  ASSUME IInv, Closed, Broken, UNCHANGED <<app, kind, replies, server, stopping, faults>>
  PROVE  IInv'
<1>1. /\ forward' = [forward EXCEPT !.pc = "done"] /\ commands' = <<>>
      /\ daemon.pc = "ended"
      /\ UNCHANGED <<kind, inbound, lost, replies, daemon, metrics, status, told, saved>>
  BY DEF Broken, Closed, server
<1>2. /\ calls' \in Seq(CallRecord) /\ DOMAIN calls' = DOMAIN calls
      /\ \A c \in DOMAIN calls : /\ calls'[c].covers = calls[c].covers
                                 /\ calls'[c].state \in {calls[c].state, "err"}
  BY CallsChanged DEF Broken, IInv
<1>3. QED
  BY <1>1, <1>2, ForwardEnds

LEMMA ForwardEndStep ==
  ASSUME IInv, ForwardEnd
  PROVE  IInv'
<1>1. /\ app' = "closed" /\ forward' = [forward EXCEPT !.pc = "done"] /\ commands' = <<>>
      /\ UNCHANGED <<kind, calls, inbound, lost, replies, daemon, metrics, status, told, saved>>
  BY DEF ForwardEnd, server
<1>2. calls' \in Seq(CallRecord)
  BY <1>1 DEF IInv, Typed
<1>3. QED
  BY <1>1, <1>2, ForwardEnds

(***************************************************************************)
(* The forward task                                                        *)
(***************************************************************************)
LEMMA FirstTaken ==
  ASSUME NEW S, NEW s \in Seq(S), NEW t, s # <<>>, t = Tail(s)
  PROVE  /\ t \in Seq(S) /\ 1 \in DOMAIN s /\ Head(s) = s[1] /\ s[1] \in S
         /\ \A i \in DOMAIN t : i \in Nat \ {0} /\ i + 1 \in DOMAIN s /\ t[i] = s[i + 1]
         /\ \A i \in DOMAIN s : i = 1 \/ (i - 1 \in DOMAIN t /\ t[i - 1] = s[i] /\ 1 < i)
BY Shorter

LEMMA LastPut ==
  ASSUME NEW S, NEW s \in Seq(S), NEW x \in S, NEW t, t = Append(s, x)
  PROVE  /\ t \in Seq(S) /\ Len(t) \in DOMAIN t /\ t[Len(t)] = x
         /\ \A i \in DOMAIN s : i \in DOMAIN t /\ t[i] = s[i] /\ i < Len(t)
         /\ \A i \in DOMAIN t : i = Len(t) \/ (i \in DOMAIN s /\ t[i] = s[i] /\ i < Len(t))
BY Longer

LEMMA MessageIs ==
  ASSUME NEW m \in Message
  PROVE  /\ m.of \in Nat /\ m.type \in {"upload", "flush", "cut"}
         /\ m.type = "upload" => m = Upload(m.of) /\ IsUpload(m)
         /\ m.type # "upload" => ~IsUpload(m) /\ \A u : m # Upload(u)
         /\ \A u : Upload(u).of = u /\ IsUpload(Upload(u))
BY DEF Message, Upload, IsUpload

(* What the commands hold when a flush is taken from them.                 *)
LEMMA FlushTaken ==
  ASSUME IInv, commands # <<>>, Head(commands).type = "flush", commands' = Tail(commands)
  PROVE  LET c == Head(commands).of IN
           /\ commands' \in Seq(Message)
           /\ \A u : Holds(commands', u) <=> Holds(commands, u)
           /\ InOrder(commands') /\ AllQueued(commands')
           /\ \A u : After(commands, u) => After(commands', u)
           /\ c \in DOMAIN calls /\ c \in Nat /\ After(commands', calls[c].covers)
           /\ \A u \in 1 .. calls[c].covers : u \in Sent /\ ~Holds(commands, u)
<1> DEFINE c == Head(commands).of
<1>0. commands \in Seq(Message)
  BY DEF IInv, Typed
<1>1. /\ commands' \in Seq(Message) /\ 1 \in DOMAIN commands /\ Head(commands) = commands[1]
      /\ commands[1] \in Message
      /\ \A i \in DOMAIN commands' : /\ i \in Nat \ {0} /\ i + 1 \in DOMAIN commands
                                     /\ commands'[i] = commands[i + 1]
      /\ \A i \in DOMAIN commands :
           i = 1 \/ (i - 1 \in DOMAIN commands' /\ commands'[i - 1] = commands[i] /\ 1 < i)
  BY <1>0, FirstTaken
<1>2. ~IsUpload(commands[1]) /\ \A u : commands[1] # Upload(u)
  BY <1>1, MessageIs
<1>3. c \in Nat /\ c \in DOMAIN calls
  BY <1>1, MessageIs DEF IInv, CommandsCover
<1>4. \A u : Holds(commands', u) <=> Holds(commands, u)
  <2>1. ASSUME NEW u, Holds(commands', u)
        PROVE  Holds(commands, u)
    BY <1>1, <2>1 DEF Holds
  <2>2. ASSUME NEW u, Holds(commands, u)
        PROVE  Holds(commands', u)
    <3>1. PICK i \in DOMAIN commands : commands[i] = Upload(u)
      BY <2>2 DEF Holds
    <3>2. i # 1
      BY <1>2, <3>1
    <3>3. i - 1 \in DOMAIN commands' /\ commands'[i - 1] = Upload(u)
      BY <1>1, <3>1, <3>2
    <3>4. QED
      BY <3>3 DEF Holds
  <2>3. QED
    BY <2>1, <2>2
<1>5. InOrder(commands') /\ AllQueued(commands')
  <2>1. InOrder(commands) /\ AllQueued(commands)
    BY DEF IInv, PipeRight
  <2>2. AllQueued(commands')
    BY <1>1, <2>1 DEF AllQueued
  <2>3. ASSUME NEW i \in DOMAIN commands', NEW j \in DOMAIN commands', i < j,
               IsUpload(commands'[i]), IsUpload(commands'[j])
        PROVE  commands'[i].of < commands'[j].of
    <3>1. i + 1 < j + 1
      BY <1>1, <2>3
    <3>2. QED
      BY <1>1, <2>1, <2>3, <3>1 DEF InOrder
  <2>4. QED
    BY <2>2, <2>3 DEF InOrder
<1>6. \A u : After(commands, u) => After(commands', u)
  BY <1>1 DEF After
<1>7. \A j \in DOMAIN commands : IsUpload(commands[j]) => calls[c].covers < commands[j].of
  BY <1>1, <1>2 DEF IInv, CommandsCover
<1>8. After(commands', calls[c].covers)
  BY <1>6, <1>7 DEF After
<1>9. ASSUME NEW u \in 1 .. calls[c].covers
      PROVE  u \in Sent /\ ~Holds(commands, u)
  <2>1. calls[c].covers \in Nat /\ u \in Sent
    BY <1>3, PointTypes DEF IInv
  <2>2. \A j \in DOMAIN commands : commands[j] = Upload(u) => calls[c].covers < u
    BY <1>1, <1>7, MessageIs
  <2>3. QED
    BY <2>1, <2>2 DEF Holds
<1>10. QED
  BY <1>1, <1>3, <1>4, <1>5, <1>6, <1>8, <1>9

LEMMA ForwardUploadStep ==
  ASSUME IInv, ForwardUpload
  PROVE  IInv'
<1>1. CASE Closed
  BY <1>1, BrokenStep DEF ForwardUpload
<1>2. CASE ~Closed
  <2> PICK m : m = Head(commands)
    OBVIOUS
  <2>1. /\ commands # <<>> /\ commands' = Tail(commands) /\ inbound' = Append(inbound, m)
        /\ m.type = "upload" /\ forward.pc = "idle"
        /\ forward' = [forward EXCEPT !.dirty = TRUE]
        /\ UNCHANGED <<app, calls, told, lost, kind, replies, daemon, metrics, status, saved,
                       stopping, faults, server, Sent>>
    BY <1>2 DEF ForwardUpload, server, Sent
  <2>2. commands \in Seq(Message) /\ inbound \in Seq(Message)
    BY DEF IInv, Typed
  <2>3. /\ commands' \in Seq(Message) /\ 1 \in DOMAIN commands /\ m = commands[1]
        /\ m \in Message
        /\ \A i \in DOMAIN commands' : /\ i \in Nat \ {0} /\ i + 1 \in DOMAIN commands
                                       /\ commands'[i] = commands[i + 1]
        /\ \A i \in DOMAIN commands :
             i = 1 \/ (i - 1 \in DOMAIN commands' /\ commands'[i - 1] = commands[i] /\ 1 < i)
    BY <2>1, <2>2, FirstTaken
  <2> PICK n : n = Len(inbound')
    OBVIOUS
  <2>4. /\ inbound' \in Seq(Message) /\ n \in DOMAIN inbound' /\ inbound'[n] = m
        /\ \A i \in DOMAIN inbound : i \in DOMAIN inbound' /\ inbound'[i] = inbound[i] /\ i < n
        /\ \A i \in DOMAIN inbound' :
             i = n \/ (i \in DOMAIN inbound /\ inbound'[i] = inbound[i] /\ i < n)
    BY <2>1, <2>2, <2>3, LastPut
  <2>5. m.of \in Nat /\ m = Upload(m.of) /\ IsUpload(m) /\ \A u : Upload(u).of = u
    BY <2>1, <2>3, MessageIs
  <2>6. /\ forward' \in [pc : {"idle", "reply", "done"}, call : Nat, dirty : BOOLEAN]
        /\ forward'.pc = "idle" /\ forward'.dirty
    BY <2>1 DEF IInv, Typed
  <2>7. Typed'
    BY <2>1, <2>3, <2>4, <2>6 DEF IInv, Typed
  <2>8. /\ InOrder(inbound) /\ InOrder(commands) /\ AllQueued(inbound) /\ AllQueued(commands)
        /\ \A i \in DOMAIN inbound : IsUpload(inbound[i]) => inbound[i].of < m.of
        /\ \A i \in DOMAIN inbound : IsUpload(inbound[i]) => After(commands, inbound[i].of)
    BY <2>3, <2>5 DEF IInv, PipeRight, After
  <2>9. \A j \in DOMAIN commands : IsUpload(commands[j]) => j = 1 \/ m.of < commands[j].of
    BY <2>3, <2>5, <2>8 DEF InOrder
  <2>10. PipeRight'
    <3>1. InOrder(inbound')
      <4> SUFFICES ASSUME NEW i \in DOMAIN inbound', NEW j \in DOMAIN inbound', i < j,
                          IsUpload(inbound'[i]), IsUpload(inbound'[j])
                   PROVE  inbound'[i].of < inbound'[j].of
        BY DEF InOrder
      <4>1. i \in DOMAIN inbound /\ inbound'[i] = inbound[i]
        BY <2>2, <2>4
      <4>2. CASE j = n
        BY <2>4, <2>8, <4>1, <4>2
      <4>3. CASE j # n
        BY <2>4, <2>8, <4>1, <4>3 DEF InOrder
      <4>4. QED
        BY <4>2, <4>3
    <3>2. InOrder(commands')
      <4> SUFFICES ASSUME NEW i \in DOMAIN commands', NEW j \in DOMAIN commands', i < j,
                          IsUpload(commands'[i]), IsUpload(commands'[j])
                   PROVE  commands'[i].of < commands'[j].of
        BY DEF InOrder
      <4>1. i + 1 < j + 1
        BY <2>3
      <4>2. QED
        BY <2>3, <2>8, <4>1 DEF InOrder
    <3>3. AllQueued(inbound)' /\ AllQueued(commands)'
      BY <2>1, <2>3, <2>4, <2>8, <2>5 DEF AllQueued
    <3>4. \A i \in DOMAIN inbound' : IsUpload(inbound'[i]) => After(commands', inbound'[i].of)
      <4>1. \A u : After(commands, u) => After(commands', u)
        BY <2>3 DEF After
      <4>2. After(commands', m.of)
        BY <2>3, <2>9 DEF After
      <4>3. QED
        BY <2>4, <2>8, <4>1, <4>2
    <3>5. ASSUME NEW u \in Sent, status[u] = "queued"
          PROVE  /\ Holds(inbound', u) \/ Holds(commands', u)
                 /\ Holds(inbound', u) \/ \A i \in DOMAIN inbound' :
                                            IsUpload(inbound'[i]) => inbound'[i].of < u
      <4>1. Holds(inbound, u) => Holds(inbound', u)
        BY <2>4 DEF Holds
      <4>2. u = m.of => Holds(inbound', u)
        BY <2>4, <2>5 DEF Holds
      <4>3. ASSUME ~Holds(inbound, u), u # m.of
            PROVE  /\ Holds(commands', u)
                   /\ \A i \in DOMAIN inbound' : IsUpload(inbound'[i]) => inbound'[i].of < u
        <5>1. Holds(commands, u) /\ \A i \in DOMAIN inbound :
                                      IsUpload(inbound[i]) => inbound[i].of < u
          BY <2>1, <3>5, <4>3 DEF IInv, PipeRight
        <5>2. PICK j \in DOMAIN commands : commands[j] = Upload(u)
          BY <5>1 DEF Holds
        <5>3. j # 1 /\ IsUpload(commands[j]) /\ commands[j].of = u
          BY <2>3, <2>5, <4>3, <5>2, MessageIs
        <5>4. Holds(commands', u)
          BY <2>3, <5>2, <5>3 DEF Holds
        <5>5. m.of < u
          BY <2>9, <5>3
        <5>6. QED
          BY <2>4, <5>1, <5>4, <5>5
      <4>4. QED
        BY <4>1, <4>2, <4>3
    <3>6. \A u \in Sent : status[u] = "queued" => \A v \in Sent : u < v => status[v] = "queued"
      BY DEF IInv, PipeRight
    <3>7. \A u : (Holds(inbound, u)' <=> Holds(inbound', u)) /\ (Holds(commands, u)' <=> Holds(commands', u))
      BY DEF Holds
    <3>8. QED
      BY <2>1, <3>1, <3>2, <3>3, <3>4, <3>5, <3>6, <3>7 DEF PipeRight
  <2>11. CommandsCover'
    <3>1. \A i \in DOMAIN commands' : commands'[i].type # "cut"
      BY <2>3 DEF IInv, CommandsCover
    <3>2. ASSUME NEW i \in DOMAIN commands', commands'[i].type = "flush",
                 NEW j \in DOMAIN commands', i < j, IsUpload(commands'[j])
          PROVE  calls[commands'[i].of].covers < commands'[j].of
      <4>1. i + 1 < j + 1
        BY <2>3, <3>2
      <4>2. QED
        BY <2>3, <3>2, <4>1 DEF IInv, CommandsCover
    <3>3. \A i \in DOMAIN commands' : commands'[i].type = "flush" => commands'[i].of \in DOMAIN calls
      BY <2>3 DEF IInv, CommandsCover
    <3>4. QED
      BY <2>1, <2>6, <3>1, <3>2, <3>3 DEF CommandsCover
  <2>12. FailuresRight' /\ NoSilentFailure'
    BY <2>1 DEF IInv, FailuresRight, Failure, NoSilentFailure
  <2>13. FlushRight'
    <3>1. daemon.pc # "ended" => replies = <<>> /\ ~Serving /\ \A i \in DOMAIN inbound : inbound[i].type # "flush"
      BY <2>1 DEF IInv, FlushRight
    <3>2. \A i \in DOMAIN inbound : inbound[i].type # "cut"
      BY <2>1 DEF IInv, FlushRight
    <3>3. \A i \in DOMAIN inbound' : /\ inbound'[i].type # "cut"
                                     /\ daemon.pc # "ended" => inbound'[i].type # "flush"
      BY <2>1, <2>4, <3>1, <3>2
    <3>4. QED
      BY <2>1, <2>6, <3>1, <3>3 DEF IInv, FlushRight, Serving
  <2>14. CleanRight'
    BY <2>1, <2>6 DEF IInv, CleanRight
  <2>15. CallsRight' /\ FlushCovers'
    BY <2>1 DEF IInv, CallsRight, FlushCovers
  <2>16. QED
    BY <2>1, <2>7, <2>10, <2>11, <2>12, <2>13, <2>14, <2>15, ServerStays DEF IInv
<1>3. QED
  BY <1>1, <1>2

(* A reply to a call that may come back so.                                *)
LEMMA AnsweredStep ==
  ASSUME IInv, NEW c \in DOMAIN calls, NEW reply \in SUBSET Nat, Answered(c, reply),
         UNCHANGED <<status, daemon>>, EndedBefore(c), \A u \in reply : Failure(u),
         reply = {} => \A u \in 1 .. calls[c].covers : Settled(u)
  PROVE  /\ calls' \in Seq(CallRecord) /\ DOMAIN calls' = DOMAIN calls
         /\ \A d \in DOMAIN calls : calls'[d].covers = calls[d].covers
         /\ told' \cup lost' = told \cup lost \cup reply
         /\ told' \subseteq Nat /\ lost' \subseteq Nat
         /\ \A u \in told' \cup lost' : Failure(u)
         /\ CallsRight' /\ FlushCovers'
<1>1. told \subseteq Nat /\ lost \subseteq Nat /\ \A u \in told \cup lost : Failure(u)
  BY DEF IInv, Typed, FailuresRight
<1>2. \/ told' = told \cup reply /\ lost' = lost
      \/ lost' = lost \cup reply /\ told' = told
  BY DEF Answered
<1>3. /\ told' \cup lost' = told \cup lost \cup reply
      /\ told' \subseteq Nat /\ lost' \subseteq Nat
      /\ \A u \in told' \cup lost' : Failure(u)
  BY <1>1, <1>2
<1> PICK call : call = [calls[c] EXCEPT !.state = IF reply = {} THEN "ok" ELSE "err"]
  OBVIOUS
<1>4. calls \in Seq(CallRecord) /\ calls[c] \in CallRecord
  BY PointTypes DEF IInv, Typed
<1>5. /\ call \in CallRecord /\ call.covers = calls[c].covers
      /\ reply = {} => call.state = "ok"
      /\ reply # {} => call.state = "err"
  BY <1>4 DEF CallRecord
<1>6. calls' = calls \/ calls' = [calls EXCEPT ![c] = call]
  BY <1>4 DEF Answered
<1>7. /\ calls' \in Seq(CallRecord) /\ DOMAIN calls' = DOMAIN calls
      /\ \A d \in DOMAIN calls : calls'[d] = calls[d] \/ (d = c /\ calls'[d] = call)
  BY <1>4, <1>5, <1>6
<1>8. \A d \in DOMAIN calls :
        /\ calls'[d].covers = calls[d].covers
        /\ \/ calls'[d].state = calls[d].state
           \/ calls'[d].state = "err" /\ EndedBefore(d)
           \/ /\ calls'[d].state = "ok" /\ EndedBefore(d)
              /\ \A u \in 1 .. calls[d].covers : Settled(u)
  BY <1>5, <1>7
<1>9. CallsRight' /\ FlushCovers'
  BY <1>3, <1>7, <1>8, CallsMove
<1>10. QED
  BY <1>3, <1>7, <1>8, <1>9

LEMMA SettledEnded ==
  ASSUME IInv, NEW u \in Sent, Settled(u)
  PROVE  status[u] \notin {"spawned", "running", "queued", "batched"}
<1>1. u \in told \cup lost => status[u] = "failed"
  BY DEF IInv, FailuresRight, Failure, Connection, Sent, Typed
<1>2. QED
  BY <1>1 DEF Settled

LEMMA ForwardFlushStep ==
  ASSUME IInv, ForwardFlush
  PROVE  IInv'
<1> PICK c : c = Head(commands).of
  OBVIOUS
<1>1. /\ commands # <<>> /\ Head(commands).type = "flush" /\ commands' = Tail(commands)
      /\ forward.pc = "idle"
      /\ UNCHANGED <<app, kind, replies, daemon, metrics, status, saved, server, Sent>>
  BY DEF ForwardFlush, server, Sent
<1>2. /\ commands' \in Seq(Message)
      /\ \A u : Holds(commands', u) <=> Holds(commands, u)
      /\ InOrder(commands') /\ AllQueued(commands')
      /\ \A u : After(commands, u) => After(commands', u)
      /\ c \in DOMAIN calls /\ c \in Nat /\ After(commands', calls[c].covers)
      /\ \A u \in 1 .. calls[c].covers : u \in Sent /\ ~Holds(commands, u)
  BY <1>1, FlushTaken
<1>3. /\ \A i \in DOMAIN commands' : commands'[i].type # "cut"
      /\ \A i \in DOMAIN commands' : commands'[i].type = "flush" =>
           /\ commands'[i].of \in DOMAIN calls
           /\ \A j \in DOMAIN commands' : i < j /\ IsUpload(commands'[j]) =>
                calls[commands'[i].of].covers < commands'[j].of
  <2>1. commands \in Seq(Message)
    BY DEF IInv, Typed
  <2>2. \A i \in DOMAIN commands' : /\ i \in Nat \ {0} /\ i + 1 \in DOMAIN commands
                                    /\ commands'[i] = commands[i + 1]
    BY <1>1, <2>1, FirstTaken
  <2>3. \A i, j \in DOMAIN commands' : i < j => i + 1 < j + 1
    BY <2>2
  <2>4. QED
    BY <2>2, <2>3 DEF IInv, CommandsCover
<1>4. ASSUME inbound' \in Seq(Message),
             \A i \in DOMAIN inbound : i \in DOMAIN inbound' /\ inbound'[i] = inbound[i],
             \A i \in DOMAIN inbound' : IsUpload(inbound'[i]) =>
               i \in DOMAIN inbound /\ inbound'[i] = inbound[i]
      PROVE  PipeRight'
  <2>1. InOrder(inbound)' /\ AllQueued(inbound)'
    BY <1>1, <1>4 DEF IInv, PipeRight, InOrder, AllQueued
  <2>2. InOrder(commands)' /\ AllQueued(commands)'
    BY <1>1, <1>2 DEF InOrder, AllQueued
  <2>3. \A i \in DOMAIN inbound' : IsUpload(inbound'[i]) => After(commands', inbound'[i].of)
    BY <1>2, <1>4 DEF IInv, PipeRight
  <2>4. \A u : (Holds(commands, u)' <=> Holds(commands, u)) /\ (Holds(inbound, u) => Holds(inbound, u)')
    BY <1>2, <1>4 DEF Holds
  <2>5. \A i \in DOMAIN inbound' : IsUpload(inbound'[i]) => After(commands, inbound[i].of)'
    BY <2>3 DEF After
  <2>6. \A u \in Sent : status[u] = "queued" =>
          /\ Holds(inbound, u)' \/ Holds(commands, u)'
          /\ Holds(inbound, u)' \/ \A i \in DOMAIN inbound' :
                                     IsUpload(inbound'[i]) => inbound'[i].of < u
          /\ \A v \in Sent : u < v => status[v] = "queued"
    BY <1>1, <1>4, <2>4 DEF IInv, PipeRight
  <2>7. QED
    BY <1>1, <2>1, <2>2, <2>5, <2>6 DEF PipeRight
<1>5. CASE Asks
  <2>1. /\ forward' = [forward EXCEPT !.pc = "reply", !.call = c]
        /\ inbound' = IF Closed THEN inbound ELSE Append(inbound, Head(commands))
        /\ UNCHANGED <<calls, told, lost>>
    BY <1>5 DEF ForwardFlush
  <2>2. /\ forward' \in [pc : {"idle", "reply", "done"}, call : Nat, dirty : BOOLEAN]
        /\ forward'.pc = "reply" /\ forward'.call = c /\ forward'.dirty
    BY <1>2, <1>5, <2>1 DEF IInv, Typed, Asks
  <2> PICK n : n = Len(inbound')
    OBVIOUS
  <2>3. commands \in Seq(Message) /\ Head(commands) \in Message /\ ~IsUpload(Head(commands))
    BY <1>1, Shorter, MessageIs DEF IInv, Typed
  <2>4. /\ inbound' \in Seq(Message)
        /\ \A i \in DOMAIN inbound : i \in DOMAIN inbound' /\ inbound'[i] = inbound[i]
        /\ \A i \in DOMAIN inbound' :
             \/ i \in DOMAIN inbound /\ inbound'[i] = inbound[i]
             \/ i = n /\ inbound'[i] = Head(commands)
    <3>1. inbound \in Seq(Message)
      BY DEF IInv, Typed
    <3>2. CASE Closed
      BY <2>1, <3>1, <3>2
    <3>3. CASE ~Closed
      <4>1. inbound' = Append(inbound, Head(commands))
        BY <2>1, <3>3
      <4>2. QED
        BY <2>3, <3>1, <4>1, LastPut
    <3>4. QED
      BY <3>2, <3>3
  <2>5. Typed'
    BY <1>1, <1>2, <2>1, <2>2, <2>4 DEF IInv, Typed
  <2>6. PipeRight'
    BY <1>4, <2>3, <2>4
  <2>7. CommandsCover'
    <3>1. After(commands, calls[forward.call].covers)'
      BY <1>2, <2>1, <2>2 DEF After
    <3>2. QED
      BY <1>2, <1>3, <2>1, <2>2, <3>1 DEF CommandsCover
  <2>8. FailuresRight' /\ NoSilentFailure'
    BY <1>1, <2>1 DEF IInv, FailuresRight, Failure, NoSilentFailure
  <2>9. FlushRight'
    <3>1. daemon.pc # "ended" => replies = <<>> /\ ~Serving /\ \A i \in DOMAIN inbound : inbound[i].type # "flush"
      BY <1>1 DEF IInv, FlushRight
    <3>2. \A i \in DOMAIN inbound' : inbound'[i].type # "cut"
      BY <1>1, <2>4 DEF IInv, FlushRight
    <3>3. \A i \in DOMAIN inbound' : daemon.pc # "ended" /\ inbound'[i].type = "flush" => i = n
      BY <2>4, <3>1
    <3>4. QED
      BY <1>1, <2>2, <3>1, <3>2, <3>3 DEF IInv, FlushRight, Serving
  <2>10. CleanRight'
    BY <1>1, <2>2 DEF IInv, CleanRight
  <2>11. CallsRight' /\ FlushCovers'
    BY <1>1, <2>1 DEF IInv, CallsRight, FlushCovers
  <2>12. QED
    BY <1>1, <2>5, <2>6, <2>7, <2>8, <2>9, <2>10, <2>11, ServerStays DEF IInv
<1>6. CASE ~Asks
  <2>1. Answered(c, {}) /\ UNCHANGED <<forward, inbound>>
    BY <1>6 DEF ForwardFlush
  <2>2. AllSettled
    BY <1>1, <1>6 DEF IInv, CleanRight, Asks, Typed
  <2>3. \A u \in 1 .. calls[c].covers : u \in Sent /\ Settled(u)
    BY <1>2, <2>2 DEF AllSettled
  <2>4. EndedBefore(c)
    BY <2>3, SettledEnded DEF EndedBefore
  <2>5. /\ calls' \in Seq(CallRecord) /\ DOMAIN calls' = DOMAIN calls
        /\ \A d \in DOMAIN calls : calls'[d].covers = calls[d].covers
        /\ told' \cup lost' = told \cup lost
        /\ told' \subseteq Nat /\ lost' \subseteq Nat
        /\ \A u \in told' \cup lost' : Failure(u)
        /\ CallsRight' /\ FlushCovers'
    BY <1>1, <1>2, <2>1, <2>3, <2>4, AnsweredStep
  <2>6. Typed'
    <3>1. \A d \in DOMAIN calls' : calls'[d].covers <= Len(kind)
      BY <2>5, PointTypes DEF IInv
    <3>2. QED
      BY <1>1, <1>2, <2>1, <2>5, <3>1 DEF IInv, Typed
  <2>7. PipeRight'
    <3>1. inbound \in Seq(Message)
      BY DEF IInv, Typed
    <3>2. QED
      BY <1>4, <2>1, <3>1
  <2>8. CommandsCover'
    BY <1>1, <1>3, <2>1, <2>5 DEF CommandsCover
  <2>9. FailuresRight' /\ NoSilentFailure'
    BY <1>1, <2>5 DEF IInv, FailuresRight, Failure, NoSilentFailure
  <2>10. FlushRight'
    BY <1>1, <2>1 DEF IInv, FlushRight, Serving
  <2>11. CleanRight'
    <3>1. AllSettled'
      <4>1. \A u : Holds(commands, u)' <=> Holds(commands, u)
        BY <1>2 DEF Holds
      <4>2. QED
        BY <1>1, <2>2, <2>5, <4>1 DEF AllSettled, Settled
    <3>2. QED
      BY <1>1, <2>1, <3>1 DEF IInv, CleanRight
  <2>12. QED
    BY <1>1, <2>5, <2>6, <2>7, <2>8, <2>9, <2>10, <2>11, ServerStays DEF IInv
<1>7. QED
  BY <1>5, <1>6

LEMMA Reported ==
  ASSUME NEW s, NEW u
  PROVE  u \in UNION ToSet(s) <=> \E i \in DOMAIN s : u \in s[i]
BY DEF ToSet

LEMMA ForwardReplyStep ==
  ASSUME IInv, ForwardReply
  PROVE  IInv'
<1> PICK c : c = forward.call
  OBVIOUS
<1> PICK reply : reply = IF replies = <<>> THEN {Connection} ELSE Head(replies)
  OBVIOUS
<1>1. /\ forward.pc = "reply"
      /\ replies # <<>> \/ daemon.pc = "ended"
      /\ Answered(c, reply)
      /\ forward' = [pc |-> "idle", call |-> 0, dirty |-> reply # {}]
      /\ replies' = IF replies = <<>> THEN replies ELSE Tail(replies)
      /\ UNCHANGED <<app, kind, commands, inbound, daemon, metrics, status, saved, server, Sent>>
  BY DEF ForwardReply, StillDirty, Closed, server, Sent
<1>2. /\ c \in DOMAIN calls /\ After(commands, calls[c].covers)
      /\ \A u \in 1 .. calls[c].covers : u \in Sent /\ ~Holds(commands, u)
  <2>1. c \in DOMAIN calls /\ After(commands, calls[c].covers)
    BY <1>1 DEF IInv, CommandsCover
  <2>2. calls[c].covers \in Nat /\ \A u \in 1 .. calls[c].covers : u \in Sent
    BY <2>1, PointTypes DEF IInv
  <2>3. ASSUME NEW u \in 1 .. calls[c].covers
        PROVE  ~Holds(commands, u)
    <3>1. \A j \in DOMAIN commands : commands[j] = Upload(u) => calls[c].covers < u
      BY <2>1, MessageIs DEF After, Upload, IsUpload
    <3>2. QED
      BY <2>2, <3>1 DEF Holds
  <2>4. QED
    BY <2>1, <2>2, <2>3
<1>3. replies \in Seq(SUBSET Nat) /\ replies' \in Seq(SUBSET Nat)
  BY <1>1 DEF IInv, Typed
<1>4. /\ reply \in SUBSET Nat
      /\ reply = {} => replies # <<>> /\ 1 \in DOMAIN replies /\ replies[1] = {}
      /\ \A i \in DOMAIN replies' : i \in Nat \ {0} /\ i + 1 \in DOMAIN replies /\ replies'[i] = replies[i + 1]
      /\ \A i \in DOMAIN replies : \/ replies[i] = reply
                                   \/ i - 1 \in DOMAIN replies' /\ replies'[i - 1] = replies[i]
      /\ \A u \in reply : Failure(u)
  <2>1. CASE replies = <<>>
    BY <1>1, <2>1 DEF Connection, Failure
  <2>2. CASE replies # <<>>
    <3>1. reply = Head(replies) /\ replies' = Tail(replies)
      BY <1>1, <2>2
    <3>2. /\ 1 \in DOMAIN replies /\ reply = replies[1] /\ replies[1] \in SUBSET Nat
          /\ \A i \in DOMAIN replies' : i \in Nat \ {0} /\ i + 1 \in DOMAIN replies /\ replies'[i] = replies[i + 1]
          /\ \A i \in DOMAIN replies :
               i = 1 \/ (i - 1 \in DOMAIN replies' /\ replies'[i - 1] = replies[i] /\ 1 < i)
      BY <1>3, <2>2, <3>1, FirstTaken
    <3>3. QED
      BY <2>2, <3>2 DEF IInv, FailuresRight
  <2>3. QED
    BY <2>1, <2>2
<1>5. reply = {} => AllSettled
  BY <1>1, <1>4 DEF IInv, CleanRight
<1>6. reply = {} => \A u \in 1 .. calls[c].covers : Settled(u)
  BY <1>2, <1>5 DEF AllSettled
<1>7. EndedBefore(c)
  <2>1. CASE daemon.pc = "ended"
    BY <1>2, <2>1 DEF EndedBefore, IInv, TasksRight
  <2>2. CASE daemon.pc # "ended"
    <3>1. inbound = <<>> /\ daemon.tasks = {}
      BY <1>1, <2>2 DEF IInv, FlushRight
    <3>2. \A u : ~Holds(inbound, u)
      BY <3>1 DEF Holds
    <3>3. \A u \in Sent : status[u] \notin {"spawned", "running"}
      BY <3>1 DEF IInv, TasksRight
    <3>4. \A u \in Sent : status[u] = "queued" => Holds(commands, u)
      BY <1>1, <3>2 DEF IInv, PipeRight
    <3>5. QED
      BY <1>2, <3>3, <3>4 DEF EndedBefore
  <2>3. QED
    BY <2>1, <2>2
<1>8. /\ calls' \in Seq(CallRecord) /\ DOMAIN calls' = DOMAIN calls
      /\ \A d \in DOMAIN calls : calls'[d].covers = calls[d].covers
      /\ told' \cup lost' = told \cup lost \cup reply
      /\ told' \subseteq Nat /\ lost' \subseteq Nat
      /\ \A u \in told' \cup lost' : Failure(u)
      /\ CallsRight' /\ FlushCovers'
  BY <1>1, <1>2, <1>4, <1>6, <1>7, AnsweredStep
<1>9. /\ forward' \in [pc : {"idle", "reply", "done"}, call : Nat, dirty : BOOLEAN]
      /\ forward'.pc = "idle" /\ (forward'.dirty <=> reply # {})
  BY <1>1
<1>10. Typed'
  <2>1. \A d \in DOMAIN calls' : calls'[d].covers <= Len(kind)
    BY <1>8, PointTypes DEF IInv
  <2>2. QED
    BY <1>1, <1>3, <1>8, <1>9, <2>1 DEF IInv, Typed
<1>11. PipeRight'
  BY <1>1, <1>9 DEF IInv, PipeRight, InOrder, AllQueued, After, Holds
<1>12. CommandsCover'
  BY <1>1, <1>8, <1>9 DEF IInv, CommandsCover
<1>13. \A u : (\E i \in DOMAIN replies : u \in replies[i]) =>
          u \in told' \cup lost' \/ \E i \in DOMAIN replies' : u \in replies'[i]
  BY <1>4, <1>8
<1>14. FailuresRight'
  <2>1. \A u : Failure(u)' <=> Failure(u)
    BY <1>1 DEF Failure
  <2>2. \A u \in told' \cup lost' \cup daemon.failures \cup metrics.failures : Failure(u)
    BY <1>8 DEF IInv, FailuresRight
  <2>3. \A i \in DOMAIN replies' : \A u \in replies'[i] : Failure(u)
    BY <1>4 DEF IInv, FailuresRight
  <2>4. ASSUME daemon.pc # "ended", NEW u \in Sent, status[u] = "failed"
        PROVE  \/ u \in told' \cup lost' \cup daemon.failures \cup metrics.failures \cup daemon.tasks
               \/ \E i \in DOMAIN replies' : u \in replies'[i]
    <3>1. \/ u \in told \cup lost \cup daemon.failures \cup metrics.failures \cup daemon.tasks
          \/ \E i \in DOMAIN replies : u \in replies[i]
      BY <2>4 DEF IInv, FailuresRight
    <3>2. QED
      BY <1>8, <1>13, <3>1
  <2>5. daemon.pc = "ended" /\ metrics.queue # <<>> => daemon.result = "err" \/ daemon.automatic
    BY DEF IInv, FailuresRight
  <2>6. QED
    BY <1>1, <2>1, <2>2, <2>3, <2>4, <2>5 DEF FailuresRight
<1>15. NoSilentFailure'
  <2>1. ASSUME daemon.pc = "ended", NEW u \in Sent, status[u] = "failed"
        PROVE  \/ u \in told' \cup lost' \/ u \in UNION ToSet(replies')
               \/ daemon.result = "err" \/ daemon.automatic
    <3>1. \/ u \in told \cup lost \/ u \in UNION ToSet(replies)
          \/ daemon.result = "err" \/ daemon.automatic
      BY <2>1 DEF IInv, NoSilentFailure
    <3>2. u \in UNION ToSet(replies) => u \in told' \cup lost' \/ u \in UNION ToSet(replies')
      BY <1>13, Reported
    <3>3. QED
      BY <1>8, <3>1, <3>2
  <2>2. QED
    BY <1>1, <2>1 DEF NoSilentFailure
<1>16. FlushRight'
  <2>1. daemon.pc # "ended" => ~Serving /\ Len(replies) = 1 /\ \A i \in DOMAIN inbound : inbound[i].type # "flush"
    BY <1>1 DEF IInv, FlushRight
  <2>2. daemon.pc # "ended" => replies' = <<>>
    BY <1>1, <1>3, <2>1
  <2>3. QED
    BY <1>1, <1>9, <2>1, <2>2 DEF IInv, FlushRight, Serving
<1>17. CleanRight'
  <2>1. AllSettled => AllSettled'
    BY <1>1, <1>8 DEF AllSettled, Settled, Holds
  <2>2. \A i \in DOMAIN replies' : replies'[i] # {}
    <3>1. \A i \in DOMAIN replies : replies[i] = {} => i = 1
      BY <1>1 DEF IInv, CleanRight
    <3>2. \A i \in DOMAIN replies' : i + 1 # 1
      BY <1>4
    <3>3. QED
      BY <1>4, <3>1, <3>2
  <2>3. QED
    BY <1>5, <1>9, <2>1, <2>2 DEF CleanRight
<1>18. QED
  BY <1>1, <1>8, <1>10, <1>11, <1>12, <1>14, <1>15, <1>16, <1>17, ServerStays DEF IInv

(***************************************************************************)
(* The daemon                                                              *)
(***************************************************************************)
(* What has ended stays as it is, and only the daemon starts a file.       *)
Advances ==
  /\ status' \in Seq(Places) /\ Len(status') = Len(kind)
  /\ \A u \in Sent :
       /\ status[u] \in {"committed", "skipped", "failed"} => status'[u] = status[u]
       /\ status'[u] = "queued" => status[u] = "queued"
       /\ status'[u] \in {"spawned", "running"} =>
            \/ status[u] \in {"spawned", "running"}
            \/ status[u] = "queued" /\ daemon.pc # "ended"

LEMMA ClientStays ==
  ASSUME IInv, UNCHANGED client, Advances, daemon.pc = "ended" => daemon'.pc = "ended"
  PROVE  /\ CommandsCover' /\ CallsRight' /\ FlushCovers'
         /\ AllSettled => AllSettled'
         /\ UNCHANGED <<app, kind, calls, commands, forward, told, lost, Sent>>
<1>1. UNCHANGED <<app, kind, calls, commands, forward, told, lost, Sent>>
  BY DEF client, Sent
<1>2. CommandsCover'
  BY <1>1 DEF IInv, CommandsCover, After
<1>3. \A c \in DOMAIN calls : \A u \in 1 .. calls[c].covers : u \in Sent
  BY PointTypes DEF IInv
<1>4. CallsRight'
  BY <1>1, <1>3 DEF IInv, CallsRight, Advances
<1>5. FlushCovers'
  BY <1>1, <1>3 DEF IInv, FlushCovers, Advances
<1>6. AllSettled => AllSettled'
  BY <1>1 DEF AllSettled, Settled, Holds, Advances
<1>7. QED
  BY <1>1, <1>2, <1>4, <1>5, <1>6

LEMMA MovedTo ==
  ASSUME Typed, NEW us, NEW where \in Places, Moved(us, where)
  PROVE  /\ status' \in Seq(Places) /\ Len(status') = Len(kind)
         /\ \A u \in Sent : status'[u] = IF u \in us THEN where ELSE status[u]
<1>1. Len(kind) \in Nat /\ Sent = 1 .. Len(kind) /\ DOMAIN status = Sent
  BY PointTypes
<1>2. \A u \in Sent : status[u] \in Places
  BY DEF Typed, Sent
<1>3. status' = [u \in 1 .. Len(kind) |-> IF u \in us THEN where ELSE status[u]]
  BY <1>1 DEF Moved
<1>4. status' \in [1 .. Len(kind) -> Places]
  BY <1>1, <1>2, <1>3
<1>5. QED
  BY <1>1, <1>3, <1>4

(* The daemon takes an upload from the socket.                             *)
LEMMA UploadReceived ==
  ASSUME IInv, inbound # <<>>, Head(inbound).type = "upload", inbound' = Tail(inbound),
         daemon.pc = "receive", daemon'.pc = "receive", UNCHANGED <<client, replies, saved>>,
         NEW where \in {"skipped", "batched", "spawned"},
         Moved({Head(inbound).of}, where)
  PROVE  LET u == Head(inbound).of IN
           /\ u \in Sent /\ status[u] = "queued"
           /\ status' \in Seq(Places) /\ Len(status') = Len(kind)
           /\ \A v \in Sent : status'[v] = IF v = u THEN where ELSE status[v]
           /\ inbound' \in Seq(Message)
           /\ PipeRight' /\ CommandsCover' /\ FlushRight' /\ CleanRight'
           /\ CallsRight' /\ FlushCovers'
           /\ where = "spawned" \/ kind[u] # "asset" => SavesRight'
           /\ UNCHANGED <<app, kind, calls, commands, forward, told, lost, Sent>>
<1> PICK u : u = Head(inbound).of
  OBVIOUS
<1>1. inbound \in Seq(Message)
  BY DEF IInv, Typed
<1>2. /\ inbound' \in Seq(Message) /\ 1 \in DOMAIN inbound /\ Head(inbound) = inbound[1]
      /\ inbound[1] \in Message
      /\ \A i \in DOMAIN inbound' : /\ i \in Nat \ {0} /\ i + 1 \in DOMAIN inbound
                                    /\ inbound'[i] = inbound[i + 1]
      /\ \A i \in DOMAIN inbound :
           i = 1 \/ (i - 1 \in DOMAIN inbound' /\ inbound'[i - 1] = inbound[i] /\ 1 < i)
  BY <1>1, FirstTaken
<1>3. inbound[1].of = u /\ inbound[1] = Upload(u) /\ IsUpload(inbound[1])
  BY <1>2, MessageIs
<1>4. u \in Sent /\ status[u] = "queued" /\ After(commands, u)
  BY <1>2, <1>3 DEF IInv, PipeRight, AllQueued
<1>5. /\ status' \in Seq(Places) /\ Len(status') = Len(kind)
      /\ \A v \in Sent : status'[v] = IF v = u THEN where ELSE status[v]
  BY MovedTo DEF Places, IInv
<1>6. Advances
  BY <1>4, <1>5 DEF Advances
<1>7. /\ CommandsCover' /\ CallsRight' /\ FlushCovers'
      /\ AllSettled => AllSettled'
      /\ UNCHANGED <<app, kind, calls, commands, forward, told, lost, Sent>>
  BY <1>6, ClientStays
<1>8. Sent \subseteq Nat
  BY PointTypes DEF IInv
<1>9. \A i \in DOMAIN inbound : IsUpload(inbound[i]) => i = 1 \/ u < inbound[i].of
  BY <1>2, <1>3 DEF IInv, PipeRight, InOrder
<1>10. PipeRight'
  <2>1. InOrder(inbound')
    <3> SUFFICES ASSUME NEW i \in DOMAIN inbound', NEW j \in DOMAIN inbound', i < j,
                        IsUpload(inbound'[i]), IsUpload(inbound'[j])
                 PROVE  inbound'[i].of < inbound'[j].of
      BY DEF InOrder
    <3>1. i + 1 < j + 1
      BY <1>2
    <3>2. QED
      BY <1>2, <3>1 DEF IInv, PipeRight, InOrder
  <2>2. AllQueued(inbound)'
    <3> SUFFICES ASSUME NEW i \in DOMAIN inbound', IsUpload(inbound'[i])
                 PROVE  inbound'[i].of \in Sent /\ status'[inbound'[i].of] = "queued"
      BY <1>7 DEF AllQueued
    <3>1. inbound'[i].of \in Sent /\ status[inbound'[i].of] = "queued"
      BY <1>2 DEF IInv, PipeRight, AllQueued
    <3> PICK x : x = inbound'[i].of
      OBVIOUS
    <3>2. u < x
      BY <1>2, <1>9
    <3>3. x # u
      BY <1>4, <1>8, <3>1, <3>2
    <3>4. QED
      BY <1>5, <3>1, <3>3
  <2>3. AllQueued(commands)'
    <3> SUFFICES ASSUME NEW i \in DOMAIN commands, IsUpload(commands[i])
                 PROVE  commands[i].of \in Sent /\ status'[commands[i].of] = "queued"
      BY <1>7 DEF AllQueued
    <3>1. commands[i].of \in Sent /\ status[commands[i].of] = "queued"
      BY DEF IInv, PipeRight, AllQueued
    <3> PICK x : x = commands[i].of
      OBVIOUS
    <3>2. u < x
      BY <1>4 DEF After
    <3>3. x # u
      BY <1>4, <1>8, <3>1, <3>2
    <3>4. QED
      BY <1>5, <3>1, <3>3
  <2>4. \A i \in DOMAIN inbound' : IsUpload(inbound'[i]) => After(commands, inbound'[i].of)
    BY <1>2 DEF IInv, PipeRight
  <2>5. ASSUME NEW v \in Sent, status'[v] = "queued"
        PROVE  /\ Holds(inbound', v) \/ Holds(commands, v) \/ forward.pc = "done"
               /\ Holds(inbound', v) \/ \A i \in DOMAIN inbound' :
                                          IsUpload(inbound'[i]) => inbound'[i].of < v
               /\ \A w \in Sent : v < w => status'[w] = "queued"
    <3>1. v # u /\ status[v] = "queued"
      BY <1>5, <2>5
    <3>2. Upload(v) # Upload(u)
      BY <3>1 DEF Upload
    <3>3. Holds(inbound, v) => Holds(inbound', v)
      BY <1>2, <1>3, <3>2 DEF Holds
    <3>4. \A i \in DOMAIN inbound' : (\A j \in DOMAIN inbound : IsUpload(inbound[j]) => inbound[j].of < v)
            => (IsUpload(inbound'[i]) => inbound'[i].of < v)
      BY <1>2
    <3>5. u < v
      <4>1. CASE Holds(inbound, v)
        <5>1. PICK i \in DOMAIN inbound : inbound[i] = Upload(v)
          BY <4>1 DEF Holds
        <5>2. IsUpload(inbound[i]) /\ inbound[i].of = v /\ i # 1
          BY <1>3, <3>2, <5>1 DEF Upload, IsUpload
        <5>3. QED
          BY <1>9, <5>2
      <4>2. CASE ~Holds(inbound, v)
        BY <1>2, <1>3, <3>1, <4>2 DEF IInv, PipeRight
      <4>3. QED
        BY <4>1, <4>2
    <3>6. ASSUME NEW w \in Sent, v < w
          PROVE  status'[w] = "queued"
      <4>1. status[w] = "queued" /\ w # u
        BY <1>4, <1>8, <3>1, <3>5, <3>6 DEF IInv, PipeRight
      <4>2. QED
        BY <1>5, <4>1
    <3>7. QED
      BY <3>1, <3>3, <3>4, <3>6 DEF IInv, PipeRight
  <2>6. \A v : (Holds(inbound, v)' <=> Holds(inbound', v)) /\ (Holds(commands, v)' <=> Holds(commands, v))
    BY <1>7 DEF Holds
  <2>7. InOrder(commands)' /\ \A v : After(commands, v)' <=> After(commands, v)
    BY <1>7 DEF IInv, PipeRight, InOrder, After
  <2>8. \A i \in DOMAIN inbound' : IsUpload(inbound'[i]) => After(commands, inbound[i].of)'
    BY <1>7, <2>4 DEF After
  <2>9. InOrder(inbound)'
    BY <2>1 DEF InOrder
  <2>10. QED
    BY <1>7, <2>2, <2>3, <2>5, <2>6, <2>7, <2>8, <2>9 DEF PipeRight
<1>11. FlushRight'
  <2>1. \A i \in DOMAIN inbound' : inbound'[i].type = "cut" => forward.pc = "done"
    BY <1>2 DEF IInv, FlushRight
  <2>2. forward.pc # "done" => replies = <<>>
    BY DEF IInv, FlushRight
  <2>3. ASSUME forward.pc # "done", NEW i \in DOMAIN inbound', inbound'[i].type = "flush"
        PROVE  i = Len(inbound') /\ forward.pc = "reply"
    <3>1. i + 1 = Len(inbound) /\ forward.pc = "reply"
      BY <1>2, <2>3 DEF IInv, FlushRight
    <3>2. QED
      BY <1>1, <1>2, <3>1
  <2>4. QED
    BY <1>7, <2>1, <2>2, <2>3 DEF IInv, FlushRight, Serving
<1>12. CleanRight'
  BY <1>7 DEF IInv, CleanRight
<1>13. where = "spawned" \/ kind[u] # "asset" => SavesRight'
  <2>1. ASSUME where = "spawned" \/ kind[u] # "asset", NEW a \in Sent, NEW b \in Sent, a < b,
               kind[a] = "asset", kind[b] = "asset", status'[b] \notin {"queued", "spawned"}
        PROVE  status'[a] \notin {"queued", "spawned", "running"}
    <3>1. b # u /\ status[b] \notin {"queued", "spawned"}
      BY <1>5, <2>1
    <3>2. a # u
      BY <1>4, <2>1, <3>1 DEF IInv, PipeRight
    <3>3. QED
      BY <1>5, <2>1, <3>1, <3>2 DEF IInv, SavesRight
  <2>2. \A i \in DOMAIN saved : saved[i] \in Sent /\ kind[saved[i]] = "asset" /\ status'[saved[i]] = "committed"
    BY <1>4, <1>5 DEF IInv, SavesRight
  <2>3. QED
    BY <1>7, <2>1, <2>2 DEF SavesRight
<1>14. QED
  BY <1>2, <1>4, <1>5, <1>7, <1>10, <1>11, <1>12, <1>13

LEMMA ElementsOf ==
  ASSUME NEW S, NEW s \in Seq(S), NEW x \in S
  PROVE  /\ \A y : y \in ToSet(Append(s, x)) <=> y = x \/ y \in ToSet(s)
         /\ ToSet(<<>>) = {} /\ ToSet(s) \subseteq S
<1>1. \A y : y \in ToSet(Append(s, x)) <=> \E i \in DOMAIN Append(s, x) : Append(s, x)[i] = y
  BY DEF ToSet
<1>2. \A y : y \in ToSet(s) <=> \E i \in DOMAIN s : s[i] = y
  BY DEF ToSet
<1>3. \A y : (\E i \in DOMAIN Append(s, x) : Append(s, x)[i] = y)
              <=> y = x \/ \E i \in DOMAIN s : s[i] = y
  <2> PICK t : t = Append(s, x)
    OBVIOUS
  <2>1. /\ Len(t) \in DOMAIN t /\ t[Len(t)] = x
        /\ \A i \in DOMAIN s : i \in DOMAIN t /\ t[i] = s[i]
        /\ \A i \in DOMAIN t : i = Len(t) \/ (i \in DOMAIN s /\ t[i] = s[i])
    BY LastPut
  <2>2. QED
    BY <2>1
<1>4. ToSet(<<>>) = {}
  BY DEF ToSet
<1>5. ToSet(s) \subseteq S
  BY <1>2
<1>6. QED
  BY <1>1, <1>2, <1>3, <1>4, <1>5

(* Failures are not touched by what has not failed yet and does not now.   *)
LEMMA FailuresStay ==
  ASSUME IInv, UNCHANGED <<told, lost, replies, Sent>>,
         \A u \in Sent : status'[u] = "failed" <=> status[u] = "failed",
         daemon.pc # "ended", daemon'.pc # "ended",
         daemon'.failures = daemon.failures, metrics'.failures = metrics.failures,
         daemon.tasks \subseteq daemon'.tasks
  PROVE  FailuresRight' /\ NoSilentFailure'
<1>1. \A u : Failure(u)' <=> Failure(u)
  BY DEF Failure
<1>2. FailuresRight'
  BY <1>1 DEF IInv, FailuresRight
<1>3. NoSilentFailure'
  BY DEF NoSilentFailure
<1>4. QED
  BY <1>2, <1>3

LEMMA ReceiveFileStep ==
  ASSUME IInv, ReceiveFile
  PROVE  IInv'
<1> PICK u : u = Head(inbound).of
  OBVIOUS
<1>1. /\ inbound # <<>> /\ Head(inbound).type = "upload" /\ inbound' = Tail(inbound)
      /\ Moved({u}, "spawned") /\ daemon.pc = "receive"
      /\ daemon' = [daemon EXCEPT !.tasks = @ \cup {u}]
      /\ UNCHANGED <<client, replies, metrics, saved>>
  BY DEF ReceiveFile, Receives
<1>2. daemon'.pc = "receive"
  BY <1>1 DEF IInv, Typed
<1>3. /\ u \in Sent /\ status[u] = "queued"
      /\ status' \in Seq(Places) /\ Len(status') = Len(kind)
      /\ \A v \in Sent : status'[v] = IF v = u THEN "spawned" ELSE status[v]
      /\ inbound' \in Seq(Message)
      /\ PipeRight' /\ CommandsCover' /\ FlushRight' /\ CleanRight'
      /\ CallsRight' /\ FlushCovers' /\ SavesRight'
      /\ UNCHANGED <<app, kind, calls, commands, forward, told, lost, Sent>>
  BY <1>1, <1>2, UploadReceived
<1>4. /\ daemon' \in [pc : {"receive", "join", "flushed", "ended"}, ending : BOOLEAN,
                      batch : Seq(Nat), tasks : SUBSET Sent, failures : SUBSET Nat,
                      automatic : BOOLEAN, result : {"none", "ok", "err"}]
      /\ daemon'.batch = daemon.batch /\ daemon'.tasks = daemon.tasks \cup {u}
      /\ daemon'.failures = daemon.failures /\ daemon'.pc = "receive"
  BY <1>1, <1>3 DEF IInv, Typed
<1>5. Typed'
  BY <1>1, <1>3, <1>4 DEF IInv, Typed
<1>6. MetricsRight'
  BY <1>1, <1>3, <1>4, MetricsStay DEF IInv
<1>7. TasksRight'
  <2>1. daemon.tasks \subseteq Sent
    BY DEF IInv, Typed
  <2>2. QED
    BY <1>1, <1>3, <1>4, <2>1 DEF IInv, TasksRight
<1>8. FailuresRight' /\ NoSilentFailure'
  BY <1>1, <1>3, <1>4, FailuresStay
<1>9. SavesInOrder'
  BY <1>1 DEF IInv, SavesInOrder
<1>10. QED
  BY <1>3, <1>5, <1>6, <1>7, <1>8, <1>9 DEF IInv

LEMMA ReceiveMetricStep ==
  ASSUME IInv, ReceiveMetric
  PROVE  IInv'
<1> PICK u : u = Head(inbound).of
  OBVIOUS
<1> PICK batch : batch = Append(daemon.batch, u)
  OBVIOUS
<1>1. /\ inbound # <<>> /\ Head(inbound).type = "upload" /\ inbound' = Tail(inbound)
      /\ daemon.pc = "receive"
      /\ UNCHANGED <<client, replies, saved>>
      /\ \/ kind[u] = "invalid" /\ Moved({u}, "skipped") /\ UNCHANGED <<daemon, metrics>>
         \/ /\ kind[u] = "metric" /\ Moved({u}, "batched")
            /\ \/ /\ daemon' = [daemon EXCEPT !.batch = <<>>]
                  /\ metrics' = [metrics EXCEPT !.queue = Append(@, batch)]
               \/ daemon' = [daemon EXCEPT !.batch = batch] /\ UNCHANGED metrics
  BY DEF ReceiveMetric, Receives
<1>2. daemon'.pc = "receive"
  BY <1>1 DEF IInv, Typed
<1>3. SavesInOrder'
  BY <1>1 DEF IInv, SavesInOrder
<1>4. CASE Moved({u}, "skipped") /\ kind[u] = "invalid" /\ UNCHANGED <<daemon, metrics>>
  <2>1. /\ u \in Sent /\ status[u] = "queued"
        /\ status' \in Seq(Places) /\ Len(status') = Len(kind)
        /\ \A v \in Sent : status'[v] = IF v = u THEN "skipped" ELSE status[v]
        /\ inbound' \in Seq(Message)
        /\ PipeRight' /\ CommandsCover' /\ FlushRight' /\ CleanRight'
        /\ CallsRight' /\ FlushCovers' /\ SavesRight'
        /\ UNCHANGED <<app, kind, calls, commands, forward, told, lost, Sent>>
    BY <1>1, <1>2, <1>4, UploadReceived
  <2>2. Typed'
    BY <1>1, <1>4, <2>1 DEF IInv, Typed
  <2>3. MetricsRight' /\ TasksRight'
    <3>1. MetricsRight'
      BY <1>4, <2>1, MetricsStay DEF IInv
    <3>2. TasksRight'
      <4>1. daemon.tasks \subseteq Sent
        BY DEF IInv, Typed
      <4>2. QED
        BY <1>4, <2>1, <4>1 DEF IInv, TasksRight
    <3>3. QED
      BY <3>1, <3>2
  <2>4. FailuresRight' /\ NoSilentFailure'
    BY <1>1, <1>2, <1>4, <2>1, FailuresStay
  <2>5. QED
    BY <1>3, <2>1, <2>2, <2>3, <2>4 DEF IInv
<1>5. CASE kind[u] = "metric" /\ Moved({u}, "batched")
  <2>1. /\ u \in Sent /\ status[u] = "queued"
        /\ status' \in Seq(Places) /\ Len(status') = Len(kind)
        /\ \A v \in Sent : status'[v] = IF v = u THEN "batched" ELSE status[v]
        /\ inbound' \in Seq(Message)
        /\ PipeRight' /\ CommandsCover' /\ FlushRight' /\ CleanRight'
        /\ CallsRight' /\ FlushCovers' /\ SavesRight'
        /\ UNCHANGED <<app, kind, calls, commands, forward, told, lost, Sent>>
    BY <1>1, <1>2, <1>5, UploadReceived
  <2>2. daemon.batch \in Seq(Nat) /\ u \in Nat
    BY <2>1, PointTypes DEF IInv, Typed
  <2>3. batch \in Seq(Nat) /\ \A y : y \in ToSet(batch) <=> y = u \/ y \in ToSet(daemon.batch)
    BY <2>2, ElementsOf, Longer
  <2>5. CASE /\ daemon' = [daemon EXCEPT !.batch = <<>>]
             /\ metrics' = [metrics EXCEPT !.queue = Append(@, batch)]
    <3> PICK n : n = Len(metrics'.queue)
      OBVIOUS
    <3>1. /\ daemon' \in [pc : {"receive", "join", "flushed", "ended"}, ending : BOOLEAN,
                          batch : Seq(Nat), tasks : SUBSET Sent, failures : SUBSET Nat,
                          automatic : BOOLEAN, result : {"none", "ok", "err"}]
          /\ daemon'.batch = <<>> /\ daemon'.tasks = daemon.tasks
          /\ daemon'.failures = daemon.failures
      <4>1. daemon \in [pc : {"receive", "join", "flushed", "ended"}, ending : BOOLEAN,
                        batch : Seq(Nat), tasks : SUBSET Sent, failures : SUBSET Nat,
                        automatic : BOOLEAN, result : {"none", "ok", "err"}]
        BY DEF IInv, Typed
      <4>2. <<>> \in Seq(Nat)
        OBVIOUS
      <4>3. QED
        BY <2>5, <4>1, <4>2
    <3>2. /\ metrics.queue \in Seq(Seq(Nat)) /\ metrics.failures \subseteq Nat
          /\ metrics'.queue = Append(metrics.queue, batch)
          /\ metrics'.failures = metrics.failures
          /\ metrics' = [queue |-> metrics'.queue, failures |-> metrics'.failures]
      <4>1. metrics \in [queue : Seq(Seq(Nat)), failures : SUBSET Nat]
        BY DEF IInv, Typed
      <4>2. metrics' = [metrics EXCEPT !.queue = Append(metrics.queue, batch)]
        BY <2>5
      <4>3. QED
        BY <4>1, <4>2
    <3>3. /\ metrics'.queue \in Seq(Seq(Nat)) /\ n \in DOMAIN metrics'.queue
          /\ metrics'.queue[n] = batch
          /\ \A i \in DOMAIN metrics.queue :
               i \in DOMAIN metrics'.queue /\ metrics'.queue[i] = metrics.queue[i] /\ i < n
          /\ \A i \in DOMAIN metrics'.queue :
               i = n \/ (i \in DOMAIN metrics.queue /\ metrics'.queue[i] = metrics.queue[i] /\ i < n)
      <4>1. batch \in Seq(Nat) /\ metrics.queue \in Seq(Seq(Nat))
        BY <2>3, <3>2
      <4>2. QED
        BY ONLY <4>1, <3>2, n = Len(metrics'.queue), LastPut, SMTT(30)
    <3>4. Typed'
      BY <1>1, <2>1, <3>1, <3>2, <3>3 DEF IInv, Typed
    <3>5. MetricsRight'
      <4>1. \A v : v \in ToSet(daemon'.batch) => FALSE
        BY <3>1 DEF ToSet
      <4>2. ASSUME NEW k \in DOMAIN metrics'.queue, NEW v \in ToSet(metrics'.queue[k])
            PROVE  /\ v \in Sent /\ status'[v] = "batched"
                   /\ \A l \in DOMAIN metrics'.queue : l # k => v \notin ToSet(metrics'.queue[l])
        <5>1. CASE k = n
          <6>1. v = u \/ v \in ToSet(daemon.batch)
            BY <2>3, <3>3, <4>2, <5>1
          <6>2. v \in Sent /\ status'[v] = "batched"
            BY <2>1, <6>1 DEF IInv, MetricsRight
          <6>3. ASSUME NEW l \in DOMAIN metrics.queue
                PROVE  v \notin ToSet(metrics.queue[l])
            BY <2>1, <6>1 DEF IInv, MetricsRight
          <6>4. QED
            BY <3>3, <5>1, <6>2, <6>3
        <5>2. CASE k # n
          <6>1. k \in DOMAIN metrics.queue /\ v \in ToSet(metrics.queue[k])
            BY <3>3, <4>2, <5>2
          <6>2. v \in Sent /\ status[v] = "batched" /\ v \notin ToSet(daemon.batch) /\ v # u
            BY <2>1, <6>1 DEF IInv, MetricsRight
          <6>3. QED
            BY <2>1, <2>3, <3>3, <6>1, <6>2 DEF IInv, MetricsRight
        <5>3. QED
          BY <5>1, <5>2
      <4>3. ASSUME NEW v \in Sent, status'[v] = "batched"
            PROVE  \E k \in DOMAIN metrics'.queue : v \in ToSet(metrics'.queue[k])
        <5>1. v = u \/ v \in ToSet(daemon.batch) \/ \E k \in DOMAIN metrics.queue : v \in ToSet(metrics.queue[k])
          BY <2>1, <4>3 DEF IInv, MetricsRight
        <5>2. QED
          BY <2>3, <3>3, <5>1
      <4>4. QED
        BY <2>1, <4>1, <4>2, <4>3 DEF MetricsRight
    <3>6. TasksRight'
      BY <1>1, <1>2, <2>1, <3>1 DEF IInv, TasksRight
    <3>7. FailuresRight' /\ NoSilentFailure'
      BY <1>1, <1>2, <2>1, <3>1, <3>2, FailuresStay
    <3>8. QED
      BY <1>3, <2>1, <3>4, <3>5, <3>6, <3>7 DEF IInv
  <2>6. CASE daemon' = [daemon EXCEPT !.batch = batch] /\ UNCHANGED metrics
    <3>1. /\ daemon' \in [pc : {"receive", "join", "flushed", "ended"}, ending : BOOLEAN,
                          batch : Seq(Nat), tasks : SUBSET Sent, failures : SUBSET Nat,
                          automatic : BOOLEAN, result : {"none", "ok", "err"}]
          /\ daemon'.batch = batch /\ daemon'.tasks = daemon.tasks
          /\ daemon'.failures = daemon.failures
      BY <2>3, <2>6 DEF IInv, Typed
    <3>2. Typed'
      BY <1>1, <2>1, <2>6, <3>1 DEF IInv, Typed
    <3>3. MetricsRight'
      <4>1. \A v \in ToSet(batch) : v \in Sent /\ status'[v] = "batched"
        <5>1. \A v \in ToSet(daemon.batch) : v \in Sent /\ status[v] = "batched"
          BY DEF IInv, MetricsRight
        <5>2. \A v \in ToSet(batch) : v = u \/ v \in ToSet(daemon.batch)
          BY <2>3
        <5>3. QED
          BY <2>1, <5>1, <5>2
      <4>2. ASSUME NEW k \in DOMAIN metrics.queue, NEW v \in ToSet(metrics.queue[k])
            PROVE  /\ v \in Sent /\ status'[v] = "batched" /\ v \notin ToSet(batch)
                   /\ \A l \in DOMAIN metrics.queue : l # k => v \notin ToSet(metrics.queue[l])
        BY <2>1, <2>3 DEF IInv, MetricsRight
      <4>3. \A v \in Sent : status'[v] = "batched" =>
              v \in ToSet(batch) \/ \E k \in DOMAIN metrics.queue : v \in ToSet(metrics.queue[k])
        BY <2>1, <2>3 DEF IInv, MetricsRight
      <4>4. QED
        <5>1. daemon'.batch = batch /\ metrics'.queue = metrics.queue /\ Sent' = Sent
          BY <2>1, <2>6, <3>1
        <5>2. QED
          BY ONLY <4>1, <4>2, <4>3, <5>1 DEF MetricsRight
    <3>4. TasksRight'
      BY <1>1, <1>2, <2>1, <3>1 DEF IInv, TasksRight
    <3>5. FailuresRight' /\ NoSilentFailure'
      BY <1>1, <1>2, <2>1, <2>6, <3>1, FailuresStay
    <3>6. QED
      BY <1>3, <2>1, <3>2, <3>3, <3>4, <3>5 DEF IInv
  <2>7. QED
    BY <1>1, <1>5, <2>5, <2>6
<1>6. QED
  BY <1>1, <1>4, <1>5

(* A batch is queued, empty ones beside it.                                *)
LEMMA BatchQueued ==
  ASSUME MetricsRight, UNCHANGED <<status, Sent>>, NEW n \in DOMAIN metrics'.queue,
         ToSet(daemon'.batch) = {}, metrics'.queue[n] = daemon.batch,
         \A i \in DOMAIN metrics.queue :
           i \in DOMAIN metrics'.queue /\ i # n /\ metrics'.queue[i] = metrics.queue[i],
         \A i \in DOMAIN metrics'.queue :
           \/ i = n \/ ToSet(metrics'.queue[i]) = {}
           \/ i \in DOMAIN metrics.queue /\ metrics'.queue[i] = metrics.queue[i]
  PROVE  MetricsRight'
<1>1. ASSUME NEW k \in DOMAIN metrics'.queue, NEW v \in ToSet(metrics'.queue[k])
      PROVE  /\ v \in Sent /\ status[v] = "batched"
             /\ \A l \in DOMAIN metrics'.queue : l # k => v \notin ToSet(metrics'.queue[l])
  <2>1. CASE k = n
    <3>1. v \in ToSet(daemon.batch)
      BY <1>1, <2>1
    <3>2. /\ v \in Sent /\ status[v] = "batched"
          /\ \A l \in DOMAIN metrics.queue : v \notin ToSet(metrics.queue[l])
      BY <3>1 DEF MetricsRight
    <3>3. QED
      BY <2>1, <3>2
  <2>2. CASE k # n
    <3>1. k \in DOMAIN metrics.queue /\ v \in ToSet(metrics.queue[k])
      BY <1>1, <2>2
    <3>2. /\ v \in Sent /\ status[v] = "batched" /\ v \notin ToSet(daemon.batch)
          /\ \A l \in DOMAIN metrics.queue : l # k => v \notin ToSet(metrics.queue[l])
      BY <3>1 DEF MetricsRight
    <3>3. QED
      BY <3>2
  <2>3. QED
    BY <2>1, <2>2
<1>2. ASSUME NEW v \in Sent, status[v] = "batched"
      PROVE  \E k \in DOMAIN metrics'.queue : v \in ToSet(metrics'.queue[k])
  <2>1. v \in ToSet(daemon.batch) \/ \E k \in DOMAIN metrics.queue : v \in ToSet(metrics.queue[k])
    BY <1>2 DEF MetricsRight
  <2>2. QED
    BY <2>1
<1>3. QED
  BY <1>1, <1>2 DEF MetricsRight

(* A step of the daemon that moves no upload.                              *)
LEMMA DaemonStep ==
  ASSUME IInv, UNCHANGED <<client, status, saved>>, daemon.pc # "ended"
  PROVE  /\ CommandsCover' /\ CallsRight' /\ FlushCovers' /\ SavesRight' /\ SavesInOrder'
         /\ AllSettled => AllSettled'
         /\ UNCHANGED <<app, kind, calls, commands, forward, told, lost, Sent>>
         /\ inbound' = inbound => PipeRight'
<1>1. UNCHANGED <<app, kind, calls, commands, forward, told, lost, Sent>>
  BY DEF client, Sent
<1>2. Advances
  BY DEF Advances, IInv, Typed
<1>3. /\ CommandsCover' /\ CallsRight' /\ FlushCovers'
      /\ AllSettled => AllSettled'
  BY <1>2, ClientStays
<1>4. SavesRight' /\ SavesInOrder'
  BY <1>1 DEF IInv, SavesRight, SavesInOrder
<1>5. inbound' = inbound => PipeRight'
  BY <1>1 DEF IInv, PipeRight, InOrder, AllQueued, After, Holds
<1>6. QED
  BY <1>1, <1>3, <1>4, <1>5

LEMMA ReceiveFlushStep ==
  ASSUME IInv, ReceiveFlush
  PROVE  IInv'
<1>1. /\ daemon.pc = "receive" /\ UNCHANGED <<client, replies, metrics, status, saved>>
      /\ \/ /\ inbound # <<>> /\ Head(inbound).type = "flush" /\ inbound' = Tail(inbound)
            /\ daemon' = [daemon EXCEPT !.pc = "join"]
         \/ /\ inbound' = inbound /\ daemon' = [daemon EXCEPT !.pc = "join", !.ending = TRUE]
  BY DEF ReceiveFlush, Receives, Idle
<1>2. /\ CommandsCover' /\ CallsRight' /\ FlushCovers' /\ SavesRight' /\ SavesInOrder'
      /\ AllSettled => AllSettled'
      /\ UNCHANGED <<app, kind, calls, commands, forward, told, lost, Sent>>
      /\ inbound' = inbound => PipeRight'
  BY <1>1, DaemonStep
<1>3. /\ daemon' \in [pc : {"receive", "join", "flushed", "ended"}, ending : BOOLEAN,
                      batch : Seq(Nat), tasks : SUBSET Sent, failures : SUBSET Nat,
                      automatic : BOOLEAN, result : {"none", "ok", "err"}]
      /\ daemon'.batch = daemon.batch /\ daemon'.tasks = daemon.tasks
      /\ daemon'.failures = daemon.failures /\ daemon'.pc = "join"
      /\ daemon'.ending \/ daemon' = [daemon EXCEPT !.pc = "join"]
  BY <1>1 DEF IInv, Typed
<1>4. inbound \in Seq(Message)
  BY DEF IInv, Typed
<1>5. MetricsRight' /\ TasksRight'
  <2>1. MetricsRight'
    BY <1>1, <1>2, <1>3, MetricsStay DEF IInv
  <2>2. TasksRight'
    BY <1>1, <1>2, <1>3 DEF IInv, TasksRight
  <2>3. QED
    BY <2>1, <2>2
<1>6. FailuresRight' /\ NoSilentFailure'
  BY <1>1, <1>2, <1>3, FailuresStay
<1>7. CleanRight'
  BY <1>1, <1>2 DEF IInv, CleanRight
<1>8. CASE inbound' = inbound /\ daemon' = [daemon EXCEPT !.pc = "join", !.ending = TRUE]
  <2>1. Typed'
    BY <1>1, <1>2, <1>3, <1>8 DEF IInv, Typed
  <2>2. daemon'.ending
    BY <1>8 DEF IInv, Typed
  <2>3. FlushRight'
    BY <1>1, <1>2, <1>3, <1>8, <2>2 DEF IInv, FlushRight, Serving
  <2>4. QED
    BY <1>2, <1>5, <1>6, <1>7, <1>8, <2>1, <2>3 DEF IInv
<1>9. CASE /\ inbound # <<>> /\ Head(inbound).type = "flush" /\ inbound' = Tail(inbound)
           /\ daemon' = [daemon EXCEPT !.pc = "join"]
  <2>1. /\ inbound' \in Seq(Message) /\ 1 \in DOMAIN inbound /\ Head(inbound) = inbound[1]
        /\ inbound[1] \in Message
        /\ \A i \in DOMAIN inbound' : /\ i \in Nat \ {0} /\ i + 1 \in DOMAIN inbound
                                      /\ inbound'[i] = inbound[i + 1]
        /\ \A i \in DOMAIN inbound :
             i = 1 \/ (i - 1 \in DOMAIN inbound' /\ inbound'[i - 1] = inbound[i] /\ 1 < i)
    BY <1>4, <1>9, FirstTaken
  <2>2. inbound[1].type = "flush" /\ ~IsUpload(inbound[1]) /\ \A u : inbound[1] # Upload(u)
    BY <1>9, <2>1, MessageIs
  <2>3. Typed'
    BY <1>1, <1>2, <1>3, <2>1 DEF IInv, Typed
  <2>4. PipeRight'
    <3>1. InOrder(inbound)'
      <4> SUFFICES ASSUME NEW i \in DOMAIN inbound', NEW j \in DOMAIN inbound', i < j,
                          IsUpload(inbound'[i]), IsUpload(inbound'[j])
                   PROVE  inbound'[i].of < inbound'[j].of
        BY DEF InOrder
      <4>1. i + 1 < j + 1
        BY <2>1
      <4>2. QED
        BY <2>1, <4>1 DEF IInv, PipeRight, InOrder
    <3>2. AllQueued(inbound)' /\ AllQueued(commands)' /\ InOrder(commands)'
      BY <1>1, <1>2, <2>1 DEF IInv, PipeRight, AllQueued, InOrder
    <3>3. \A i \in DOMAIN inbound' : IsUpload(inbound'[i]) => After(commands, inbound[i].of)'
      BY <1>2, <2>1 DEF IInv, PipeRight, After
    <3>4. \A u : (Holds(inbound, u) <=> Holds(inbound, u)') /\ (Holds(commands, u) <=> Holds(commands, u)')
      BY <1>2, <2>1, <2>2 DEF Holds
    <3>5. \A u : (\A i \in DOMAIN inbound : IsUpload(inbound[i]) => inbound[i].of < u) =>
                 (\A i \in DOMAIN inbound' : IsUpload(inbound'[i]) => inbound'[i].of < u)
      BY <2>1
    <3>6. QED
      BY <1>1, <1>2, <3>1, <3>2, <3>3, <3>4, <3>5 DEF IInv, PipeRight
  <2>5. FlushRight'
    <3>1. forward.pc # "done" => 1 = Len(inbound) /\ forward.pc = "reply" /\ replies = <<>>
      BY <1>1, <2>1, <2>2 DEF IInv, FlushRight
    <3>2. forward.pc # "done" => inbound' = <<>>
      BY <1>4, <1>9, <3>1
    <3>3. QED
      BY <1>1, <1>2, <1>3, <2>1, <3>1, <3>2 DEF IInv, FlushRight, Serving
  <2>6. QED
    BY <1>2, <1>5, <1>6, <1>7, <2>3, <2>4, <2>5 DEF IInv
<1>10. QED
  BY <1>1, <1>8, <1>9

LEMMA JoinStep ==
  ASSUME IInv, NEW u \in Sent, Join(u)
  PROVE  IInv'
<1>1. /\ u \in daemon.tasks /\ status[u] \in {"committed", "failed"}
      /\ daemon.pc \in {"receive", "join"}
      /\ daemon' = [daemon EXCEPT !.tasks = @ \ {u},
                      !.failures = IF status[u] = "failed" THEN @ \cup {u} ELSE @]
      /\ UNCHANGED <<client, inbound, replies, metrics, status, saved>>
  BY DEF Join, Joined, Finished, Idle
<1>2. /\ CommandsCover' /\ CallsRight' /\ FlushCovers' /\ SavesRight' /\ SavesInOrder'
      /\ AllSettled => AllSettled'
      /\ UNCHANGED <<app, kind, calls, commands, forward, told, lost, Sent>>
      /\ inbound' = inbound => PipeRight'
  BY <1>1, DaemonStep
<1> PICK failures : failures = IF status[u] = "failed" THEN daemon.failures \cup {u}
                                                       ELSE daemon.failures
  OBVIOUS
<1>3. u \in Nat
  BY PointTypes DEF IInv
<1>4. /\ failures \subseteq Nat /\ daemon.failures \subseteq failures
      /\ \A v \in failures : v \in daemon.failures \/ (v = u /\ status[u] = "failed")
      /\ status[u] = "failed" => u \in failures
  BY <1>3 DEF IInv, Typed
<1>5. /\ daemon' \in [pc : {"receive", "join", "flushed", "ended"}, ending : BOOLEAN,
                      batch : Seq(Nat), tasks : SUBSET Sent, failures : SUBSET Nat,
                      automatic : BOOLEAN, result : {"none", "ok", "err"}]
      /\ daemon'.batch = daemon.batch /\ daemon'.tasks = daemon.tasks \ {u}
      /\ daemon'.failures = failures /\ daemon'.pc = daemon.pc /\ daemon'.ending = daemon.ending
  <2>1. daemon \in [pc : {"receive", "join", "flushed", "ended"}, ending : BOOLEAN,
                    batch : Seq(Nat), tasks : SUBSET Sent, failures : SUBSET Nat,
                    automatic : BOOLEAN, result : {"none", "ok", "err"}]
    BY DEF IInv, Typed
  <2>2. daemon' = [daemon EXCEPT !.tasks = daemon.tasks \ {u}, !.failures = failures]
    BY <1>1
  <2>3. daemon.tasks \ {u} \in SUBSET Sent
    BY <2>1
  <2>4. QED
    BY <1>4, <2>1, <2>2, <2>3
<1>6. Typed'
  BY <1>1, <1>2, <1>5 DEF IInv, Typed
<1>7. MetricsRight'
  BY <1>1, <1>2, <1>5, MetricsStay DEF IInv
<1>8. TasksRight'
  BY <1>1, <1>2, <1>5 DEF IInv, TasksRight
<1>9. FailuresRight'
  <2>1. \A v : Failure(v)' <=> Failure(v)
    BY <1>1, <1>2 DEF Failure
  <2>2. Failure(u) \/ status[u] # "failed"
    BY DEF Failure
  <2>3. \A v \in told \cup lost \cup failures \cup metrics.failures : Failure(v)
    BY <1>4, <2>2 DEF IInv, FailuresRight
  <2>4. \A i \in DOMAIN replies : \A v \in replies[i] : Failure(v)
    BY DEF IInv, FailuresRight
  <2>5. \A v \in Sent : status[v] = "failed" =>
          \/ v \in told \cup lost \cup failures \cup metrics.failures \cup (daemon.tasks \ {u})
          \/ \E i \in DOMAIN replies : v \in replies[i]
    BY <1>1, <1>4 DEF IInv, FailuresRight
  <2>6. QED
    BY <1>1, <1>2, <1>5, <2>1, <2>3, <2>4, <2>5 DEF FailuresRight
<1>10. NoSilentFailure'
  BY <1>1, <1>5 DEF NoSilentFailure
<1>11. FlushRight'
  BY <1>1, <1>2, <1>5 DEF IInv, FlushRight, Serving
<1>12. CleanRight'
  BY <1>1, <1>2 DEF IInv, CleanRight
<1>13. QED
  BY <1>1, <1>2, <1>6, <1>7, <1>8, <1>9, <1>10, <1>11, <1>12 DEF IInv

LEMMA TickStep ==
  ASSUME IInv, Tick
  PROVE  IInv'
<1>1. /\ daemon.pc = "receive" /\ daemon' = [daemon EXCEPT !.batch = <<>>]
      /\ metrics' = [metrics EXCEPT !.queue = Append(@, daemon.batch)]
      /\ UNCHANGED <<client, inbound, replies, status, saved>>
  BY DEF Tick, Idle
<1>2. /\ CommandsCover' /\ CallsRight' /\ FlushCovers' /\ SavesRight' /\ SavesInOrder'
      /\ AllSettled => AllSettled'
      /\ UNCHANGED <<app, kind, calls, commands, forward, told, lost, Sent>>
      /\ inbound' = inbound => PipeRight'
  BY <1>1, DaemonStep
<1>3. daemon \in [pc : {"receive", "join", "flushed", "ended"}, ending : BOOLEAN,
                  batch : Seq(Nat), tasks : SUBSET Sent, failures : SUBSET Nat,
                  automatic : BOOLEAN, result : {"none", "ok", "err"}]
  BY DEF IInv, Typed
<1>4. <<>> \in Seq(Nat) /\ ToSet(<<>>) = {}
  BY DEF ToSet
<1>5. /\ daemon' \in [pc : {"receive", "join", "flushed", "ended"}, ending : BOOLEAN,
                      batch : Seq(Nat), tasks : SUBSET Sent, failures : SUBSET Nat,
                      automatic : BOOLEAN, result : {"none", "ok", "err"}]
      /\ daemon'.batch = <<>> /\ daemon'.tasks = daemon.tasks /\ daemon'.pc = "receive"
      /\ daemon'.failures = daemon.failures /\ daemon'.ending = daemon.ending
  BY <1>1, <1>3, <1>4
<1>6. metrics \in [queue : Seq(Seq(Nat)), failures : SUBSET Nat]
  BY DEF IInv, Typed
<1> PICK queue : queue = Append(metrics.queue, daemon.batch)
  OBVIOUS
<1>7. /\ queue \in Seq(Seq(Nat)) /\ Len(queue) \in DOMAIN queue
      /\ queue[Len(queue)] = daemon.batch
      /\ \A i \in DOMAIN metrics.queue :
           i \in DOMAIN queue /\ queue[i] = metrics.queue[i] /\ i < Len(queue)
      /\ \A i \in DOMAIN queue : i = Len(queue) \/ (i \in DOMAIN metrics.queue
                                   /\ queue[i] = metrics.queue[i] /\ i < Len(queue))
  <2>1. metrics.queue \in Seq(Seq(Nat)) /\ daemon.batch \in Seq(Nat)
    BY <1>3, <1>6
  <2>2. QED
    BY <2>1, LastPut
<1>8. /\ metrics' \in [queue : Seq(Seq(Nat)), failures : SUBSET Nat]
      /\ metrics'.queue = queue /\ metrics'.failures = metrics.failures
  BY <1>1, <1>6, <1>7
<1>9. Typed'
  BY <1>1, <1>2, <1>5, <1>8 DEF IInv, Typed
<1>10. MetricsRight'
  <2> PICK n : n = Len(queue)
    OBVIOUS
  <2>1. /\ UNCHANGED <<status, Sent>> /\ n \in DOMAIN metrics'.queue
        /\ ToSet(daemon'.batch) = {} /\ metrics'.queue[n] = daemon.batch
    BY <1>1, <1>2, <1>4, <1>5, <1>7, <1>8
  <2>2. \A i \in DOMAIN metrics.queue :
          i \in DOMAIN metrics'.queue /\ i # n /\ metrics'.queue[i] = metrics.queue[i]
    BY <1>6, <1>7, <1>8
  <2>3. \A i \in DOMAIN metrics'.queue :
          \/ i = n \/ ToSet(metrics'.queue[i]) = {}
          \/ i \in DOMAIN metrics.queue /\ metrics'.queue[i] = metrics.queue[i]
    BY <1>7, <1>8
  <2>4. MetricsRight
    BY DEF IInv
  <2>5. QED
    BY ONLY <2>1, <2>2, <2>3, <2>4, BatchQueued
<1>11. TasksRight'
  BY <1>1, <1>2, <1>5 DEF IInv, TasksRight
<1>12. FailuresRight' /\ NoSilentFailure'
  BY <1>1, <1>2, <1>5, <1>8, FailuresStay
<1>13. FlushRight' /\ CleanRight'
  BY <1>1, <1>2, <1>5 DEF IInv, FlushRight, Serving, CleanRight
<1>14. QED
  BY <1>1, <1>2, <1>9, <1>10, <1>11, <1>12, <1>13 DEF IInv

LEMMA FlushMetricsStep ==
  ASSUME IInv, FlushMetrics
  PROVE  IInv'
<1>1. /\ daemon.pc = "join" /\ daemon.tasks = {}
      /\ daemon' = [daemon EXCEPT !.pc = "flushed", !.batch = <<>>]
      /\ metrics' = [metrics EXCEPT !.queue = @ \o <<daemon.batch, <<>>>>]
      /\ UNCHANGED <<client, inbound, replies, status, saved>>
  BY DEF FlushMetrics, Rest
<1>2. /\ CommandsCover' /\ CallsRight' /\ FlushCovers' /\ SavesRight' /\ SavesInOrder'
      /\ AllSettled => AllSettled'
      /\ UNCHANGED <<app, kind, calls, commands, forward, told, lost, Sent>>
      /\ inbound' = inbound => PipeRight'
  BY <1>1, DaemonStep
<1>3. daemon \in [pc : {"receive", "join", "flushed", "ended"}, ending : BOOLEAN,
                  batch : Seq(Nat), tasks : SUBSET Sent, failures : SUBSET Nat,
                  automatic : BOOLEAN, result : {"none", "ok", "err"}]
  BY DEF IInv, Typed
<1>4. <<>> \in Seq(Nat) /\ ToSet(<<>>) = {}
  BY DEF ToSet
<1>5. /\ daemon' \in [pc : {"receive", "join", "flushed", "ended"}, ending : BOOLEAN,
                      batch : Seq(Nat), tasks : SUBSET Sent, failures : SUBSET Nat,
                      automatic : BOOLEAN, result : {"none", "ok", "err"}]
      /\ daemon'.batch = <<>> /\ daemon'.tasks = daemon.tasks /\ daemon'.pc = "flushed"
      /\ daemon'.failures = daemon.failures /\ daemon'.ending = daemon.ending
  BY <1>1, <1>3, <1>4
<1>6. metrics \in [queue : Seq(Seq(Nat)), failures : SUBSET Nat]
  BY DEF IInv, Typed
<1> PICK queue : queue = metrics.queue \o <<daemon.batch, <<>>>>
  OBVIOUS
<1> PICK n : n = Len(metrics.queue) + 1
  OBVIOUS
<1>7. /\ queue \in Seq(Seq(Nat)) /\ n \in DOMAIN queue /\ queue[n] = daemon.batch
      /\ \A i \in DOMAIN metrics.queue : i \in DOMAIN queue /\ i # n /\ queue[i] = metrics.queue[i]
      /\ \A i \in DOMAIN queue :
           \/ i = n \/ queue[i] = <<>>
           \/ i \in DOMAIN metrics.queue /\ queue[i] = metrics.queue[i]
  <2> PICK s, b : s = metrics.queue /\ b = daemon.batch
    OBVIOUS
  <2>1. s \in Seq(Seq(Nat)) /\ b \in Seq(Nat) /\ n = Len(s) + 1 /\ queue = s \o <<b, <<>>>>
    BY <1>3, <1>6
  <2>2. <<b, <<>>>> \in Seq(Seq(Nat)) /\ Len(<<b, <<>>>>) = 2
    BY <1>4, <2>1
  <2>3. /\ queue \in Seq(Seq(Nat)) /\ Len(queue) = Len(s) + 2
        /\ \A i \in 1 .. Len(s) + 2 : queue[i] = IF i <= Len(s) THEN s[i] ELSE <<b, <<>>>>[i - Len(s)]
    BY <2>1, <2>2
  <2>4. DOMAIN queue = 1 .. Len(s) + 2 /\ DOMAIN s = 1 .. Len(s) /\ Len(s) \in Nat
    BY <2>1, <2>3
  <2>5. queue[Len(s) + 1] = b /\ queue[Len(s) + 2] = <<>>
    BY <2>3, <2>4
  <2>6. \A i \in DOMAIN s : i \in DOMAIN queue /\ i # n /\ queue[i] = s[i]
    BY <2>1, <2>3, <2>4
  <2>7. \A i \in DOMAIN queue : i = Len(s) + 1 \/ i = Len(s) + 2 \/ i \in DOMAIN s
    BY <2>4, SMTT(30)
  <2>8. n \in DOMAIN queue /\ queue[n] = b
    BY <2>1, <2>4, <2>5
  <2>9. \A i \in DOMAIN queue :
          i = n \/ queue[i] = <<>> \/ (i \in DOMAIN s /\ queue[i] = s[i])
    BY <2>1, <2>5, <2>6, <2>7
  <2>10. QED
    BY <2>3, <2>6, <2>8, <2>9
<1>8. /\ metrics' \in [queue : Seq(Seq(Nat)), failures : SUBSET Nat]
      /\ metrics'.queue = queue /\ metrics'.failures = metrics.failures
  BY <1>1, <1>6, <1>7
<1>9. Typed'
  BY <1>1, <1>2, <1>5, <1>8 DEF IInv, Typed
<1>10. MetricsRight'
  <2>1. /\ UNCHANGED <<status, Sent>> /\ n \in DOMAIN metrics'.queue
        /\ ToSet(daemon'.batch) = {} /\ metrics'.queue[n] = daemon.batch
    BY <1>1, <1>2, <1>4, <1>5, <1>7, <1>8
  <2>2. \A i \in DOMAIN metrics.queue :
          i \in DOMAIN metrics'.queue /\ i # n /\ metrics'.queue[i] = metrics.queue[i]
    BY <1>7, <1>8
  <2>3. \A i \in DOMAIN metrics'.queue :
          \/ i = n \/ ToSet(metrics'.queue[i]) = {}
          \/ i \in DOMAIN metrics.queue /\ metrics'.queue[i] = metrics.queue[i]
    BY <1>4, <1>7, <1>8
  <2>4. MetricsRight
    BY DEF IInv
  <2>5. QED
    BY ONLY <2>1, <2>2, <2>3, <2>4, BatchQueued
<1>11. TasksRight'
  BY <1>1, <1>2, <1>5 DEF IInv, TasksRight
<1>12. FailuresRight' /\ NoSilentFailure'
  BY <1>1, <1>2, <1>5, <1>8, FailuresStay
<1>13. FlushRight' /\ CleanRight'
  BY <1>1, <1>2, <1>5 DEF IInv, FlushRight, Serving, CleanRight
<1>14. QED
  BY <1>1, <1>2, <1>9, <1>10, <1>11, <1>12, <1>13 DEF IInv

LEMMA ReplyStep ==
  ASSUME IInv, Reply
  PROVE  IInv'
<1> PICK failures : failures = daemon.failures \cup metrics.failures
  OBVIOUS
<1> PICK gone \in BOOLEAN : gone <=> ~daemon.ending /\ forward.pc = "done"
  OBVIOUS
<1> PICK ends \in BOOLEAN : ends <=> daemon.ending \/ gone
  OBVIOUS
<1> PICK err \in BOOLEAN : err <=> gone \/ (ends /\ failures # {})
  OBVIOUS
<1>1. /\ daemon.pc = "flushed" /\ metrics.queue = <<<<>>>>
      /\ metrics' = [queue |-> <<>>, failures |-> {}]
      /\ replies' = IF gone \/ (ends /\ ~err) THEN replies ELSE Append(replies, failures)
      /\ daemon' = [daemon EXCEPT
            !.pc = IF ends THEN "ended" ELSE "receive",
            !.failures = IF ends THEN failures ELSE {},
            !.result = IF ~ends THEN "none"
                       ELSE IF err /\ ~daemon.automatic THEN "err" ELSE "ok"]
      /\ UNCHANGED <<client, inbound, status, saved>>
  BY DEF Reply, Fails
<1>2. /\ CommandsCover' /\ CallsRight' /\ FlushCovers' /\ SavesRight' /\ SavesInOrder'
      /\ AllSettled => AllSettled'
      /\ UNCHANGED <<app, kind, calls, commands, forward, told, lost, Sent>>
      /\ inbound' = inbound => PipeRight'
  BY <1>1, DaemonStep
<1>3. daemon \in [pc : {"receive", "join", "flushed", "ended"}, ending : BOOLEAN,
                  batch : Seq(Nat), tasks : SUBSET Sent, failures : SUBSET Nat,
                  automatic : BOOLEAN, result : {"none", "ok", "err"}]
  BY DEF IInv, Typed
<1>4. failures \subseteq Nat /\ \A u \in failures : Failure(u)
  BY DEF IInv, Typed, FailuresRight
<1>5. /\ daemon' \in [pc : {"receive", "join", "flushed", "ended"}, ending : BOOLEAN,
                      batch : Seq(Nat), tasks : SUBSET Sent, failures : SUBSET Nat,
                      automatic : BOOLEAN, result : {"none", "ok", "err"}]
      /\ daemon'.batch = daemon.batch /\ daemon'.tasks = daemon.tasks
      /\ daemon'.ending = daemon.ending /\ daemon'.automatic = daemon.automatic
      /\ ends => daemon'.pc = "ended" /\ daemon'.failures = failures
      /\ ~ends => daemon'.pc = "receive" /\ daemon'.failures = {}
      /\ ends /\ failures # {} /\ ~daemon.automatic => daemon'.result = "err"
  <2> PICK pc, fs, result : /\ pc = IF ends THEN "ended" ELSE "receive"
                            /\ fs = IF ends THEN failures ELSE {}
                            /\ result = IF ~ends THEN "none"
                                        ELSE IF err /\ ~daemon.automatic THEN "err" ELSE "ok"
    OBVIOUS
  <2>1. daemon' = [daemon EXCEPT !.pc = pc, !.failures = fs, !.result = result]
    BY <1>1
  <2>2. /\ pc \in {"receive", "ended"} /\ fs \subseteq Nat /\ result \in {"none", "ok", "err"}
        /\ ends => pc = "ended" /\ fs = failures
        /\ ~ends => pc = "receive" /\ fs = {}
        /\ ends /\ failures # {} /\ ~daemon.automatic => result = "err"
    BY <1>4
  <2>3. QED
    BY <1>3, <2>1, <2>2
<1>6. metrics' \in [queue : Seq(Seq(Nat)), failures : SUBSET Nat]
      /\ metrics'.queue = <<>> /\ metrics'.failures = {}
  BY <1>1
<1>7. replies \in Seq(SUBSET Nat)
  BY DEF IInv, Typed
<1>8. /\ replies' \in Seq(SUBSET Nat)
      /\ \A i \in DOMAIN replies : i \in DOMAIN replies' /\ replies'[i] = replies[i]
      /\ \A i \in DOMAIN replies' :
           \/ i \in DOMAIN replies /\ replies'[i] = replies[i]
           \/ /\ replies'[i] = failures /\ i = Len(replies')
              /\ ~ends \/ failures # {}
      /\ ~ends => Len(replies') \in DOMAIN replies' /\ replies'[Len(replies')] = failures
                  /\ Len(replies') = Len(replies) + 1
  <2>1. CASE gone \/ (ends /\ ~err)
    BY <1>1, <1>7, <2>1
  <2>2. CASE ~(gone \/ (ends /\ ~err))
    <3>1. replies' = Append(replies, failures) /\ failures \in SUBSET Nat
      BY <1>1, <1>4, <2>2
    <3>2. ~ends \/ failures # {}
      BY <2>2
    <3>3. Len(replies') = Len(replies) + 1
      BY <1>7, <3>1
    <3>4. /\ replies' \in Seq(SUBSET Nat) /\ Len(replies') \in DOMAIN replies'
          /\ replies'[Len(replies')] = failures
          /\ \A i \in DOMAIN replies : i \in DOMAIN replies' /\ replies'[i] = replies[i]
          /\ \A i \in DOMAIN replies' : i = Len(replies') \/ (i \in DOMAIN replies /\ replies'[i] = replies[i])
      BY <1>7, <3>1, LastPut
    <3>5. QED
      BY <3>2, <3>3, <3>4
  <2>3. QED
    BY <2>1, <2>2
<1>9. Typed'
  BY <1>1, <1>2, <1>5, <1>6, <1>8 DEF IInv, Typed
<1>10. daemon.tasks = {} /\ daemon.batch = <<>>
  BY <1>1 DEF IInv, TasksRight
<1>11. \A u \in Sent : status[u] \notin {"batched", "spawned", "running"}
  <2>1. \A u : u \notin ToSet(daemon.batch)
    BY <1>10 DEF ToSet
  <2>2. \A k \in DOMAIN metrics.queue : metrics.queue[k] = <<>>
    BY <1>1
  <2>3. \A k \in DOMAIN metrics.queue : \A u : u \notin ToSet(metrics.queue[k])
    BY <2>2 DEF ToSet
  <2>4. \A u \in Sent : status[u] # "batched"
    BY <2>1, <2>3 DEF IInv, MetricsRight
  <2>5. QED
    BY <1>10, <2>4 DEF IInv, TasksRight
<1>12. MetricsRight'
  <2>1. \A u : u \notin ToSet(daemon'.batch)
    BY <1>5, <1>10 DEF ToSet
  <2>2. DOMAIN metrics'.queue = {}
    BY <1>6
  <2>3. QED
    BY <1>1, <1>2, <1>11, <2>1, <2>2 DEF MetricsRight
<1>13. TasksRight'
  BY <1>1, <1>2, <1>5, <1>10 DEF IInv, TasksRight
<1>14. \A u \in Sent : status[u] = "failed" =>
          u \in told \cup lost \cup failures \/ \E i \in DOMAIN replies : u \in replies[i]
  BY <1>1, <1>10 DEF IInv, FailuresRight
<1>15. FailuresRight'
  <2>1. \A u : Failure(u)' <=> Failure(u)
    BY <1>1, <1>2 DEF Failure
  <2>2. \A u \in told \cup lost \cup daemon'.failures \cup metrics'.failures : Failure(u)
    BY <1>4, <1>5, <1>6 DEF IInv, FailuresRight
  <2>3. \A i \in DOMAIN replies' : \A u \in replies'[i] : Failure(u)
    BY <1>4, <1>8 DEF IInv, FailuresRight
  <2>4. ASSUME daemon'.pc # "ended", NEW u \in Sent, status[u] = "failed"
        PROVE  u \in told \cup lost \/ \E i \in DOMAIN replies' : u \in replies'[i]
    BY <1>5, <1>8, <1>14, <2>4
  <2>5. QED
    BY <1>1, <1>2, <1>6, <2>1, <2>2, <2>3, <2>4 DEF FailuresRight
<1>16. NoSilentFailure'
  <2>1. ASSUME daemon'.pc = "ended", NEW u \in Sent, status[u] = "failed"
        PROVE  \/ u \in told \cup lost \/ u \in UNION ToSet(replies')
               \/ daemon'.result = "err" \/ daemon'.automatic
    <3>1. CASE u \in failures
      BY <1>5, <2>1, <3>1
    <3>2. CASE \E i \in DOMAIN replies : u \in replies[i]
      BY <1>8, <3>2, Reported
    <3>3. QED
      BY <1>14, <2>1, <3>1, <3>2
  <2>2. QED
    BY <1>1, <1>2, <2>1 DEF NoSilentFailure
<1>17. ASSUME forward.pc # "done", ~ends
       PROVE  forward.pc = "reply" /\ inbound = <<>> /\ replies = <<>>
  BY <1>1, <1>17 DEF IInv, FlushRight, Serving
<1>18. FlushRight'
  <2>1. forward.pc # "done" /\ daemon'.pc # "ended" =>
          /\ forward.pc = "reply" /\ inbound = <<>> /\ daemon'.pc = "receive"
          /\ Len(replies') = 1
    <3>1. SUFFICES ASSUME forward.pc # "done", daemon'.pc # "ended"
                   PROVE  /\ forward.pc = "reply" /\ inbound = <<>> /\ daemon'.pc = "receive"
                          /\ Len(replies') = 1
      OBVIOUS
    <3>2. ~ends /\ daemon'.pc = "receive"
      BY <1>5, <3>1
    <3>3. forward.pc = "reply" /\ inbound = <<>> /\ replies = <<>>
      BY <1>17, <3>1, <3>2
    <3>4. Len(replies') = Len(replies) + 1 /\ Len(replies) = 0
      BY <1>8, <3>2, <3>3
    <3>5. QED
      BY <3>2, <3>3, <3>4
  <2>2. /\ \A i \in DOMAIN inbound : inbound[i].type = "cut" => forward.pc = "done"
        /\ app = "dead" => forward.pc = "done"
        /\ ~(app = "open" /\ forward.pc = "done")
    BY <1>1 DEF IInv, FlushRight
  <2>3. QED
    BY <1>1, <1>2, <1>5, <1>10, <2>1, <2>2 DEF FlushRight, Serving
<1>19. CleanRight'
  <2>1. ASSUME forward.pc # "done", ~ends, failures = {}
        PROVE  AllSettled
    <3>1. \A u : ~Holds(inbound, u)
      BY <1>17, <2>1 DEF Holds
    <3>2. \A u \in Sent : status[u] = "queued" => Holds(commands, u)
      BY <2>1, <3>1 DEF IInv, PipeRight
    <3>3. \A u \in Sent : status[u] = "failed" => u \in told \cup lost
      BY <1>14, <1>17, <2>1
    <3>4. \A u \in Sent : status[u] \in Places
      BY PointTypes DEF IInv, Typed
    <3>5. QED
      BY <1>11, <3>2, <3>3, <3>4 DEF AllSettled, Settled, Places
  <2>2. ASSUME forward.pc # "done", NEW i \in DOMAIN replies', replies'[i] = {}
        PROVE  i = 1 /\ forward.pc = "reply" /\ AllSettled
    <3>1. CASE i \in DOMAIN replies /\ replies'[i] = replies[i]
      BY <2>2, <3>1 DEF IInv, CleanRight
    <3>2. CASE replies'[i] = failures /\ i = Len(replies') /\ (~ends \/ failures # {})
      BY <1>8, <1>17, <2>1, <2>2, <3>2
    <3>3. QED
      BY <1>8, <3>1, <3>2
  <2>3. QED
    BY <1>2, <2>2 DEF IInv, CleanRight
<1>20. QED
  BY <1>1, <1>2, <1>9, <1>12, <1>13, <1>15, <1>16, <1>18, <1>19 DEF IInv

(***************************************************************************)
(* The tasks                                                               *)
(***************************************************************************)
(* The pipe stays right while its uploads stay in it.                      *)
LEMMA PipeStays ==
  ASSUME IInv, UNCHANGED <<inbound, commands, forward, Sent>>,
         \A u \in Sent : status'[u] = "queued" <=> status[u] = "queued"
  PROVE  PipeRight'
<1>1. AllQueued(inbound)' /\ AllQueued(commands)'
  BY DEF IInv, PipeRight, AllQueued
<1>2. InOrder(inbound)' /\ InOrder(commands)'
  BY DEF IInv, PipeRight, InOrder
<1>3. \A i \in DOMAIN inbound' : IsUpload(inbound'[i]) => After(commands, inbound[i].of)'
  BY DEF IInv, PipeRight, After
<1>4. \A u : (Holds(inbound, u)' <=> Holds(inbound, u)) /\ (Holds(commands, u)' <=> Holds(commands, u))
  BY DEF Holds
<1>5. ASSUME NEW u \in Sent, status'[u] = "queued"
      PROVE  /\ Holds(inbound, u) \/ Holds(commands, u) \/ forward.pc = "done"
             /\ Holds(inbound, u) \/ \A i \in DOMAIN inbound :
                                       IsUpload(inbound[i]) => inbound[i].of < u
             /\ \A v \in Sent : u < v => status'[v] = "queued"
  BY <1>5 DEF IInv, PipeRight
<1>6. QED
  BY <1>1, <1>2, <1>3, <1>4, <1>5 DEF PipeRight

(* A task or the metric task moves uploads of its own.                     *)
LEMMA TaskStep ==
  ASSUME IInv, UNCHANGED <<client, inbound, replies, daemon>>,
         NEW us \in SUBSET Sent, NEW where \in {"running", "committed", "failed"},
         Moved(us, where),
         where = "running" => \A u \in us : status[u] = "spawned",
         where # "running" => \A u \in us : status[u] \in {"batched", "running"}
  PROVE  /\ status' \in Seq(Places) /\ Len(status') = Len(kind)
         /\ \A u \in Sent : status'[u] = IF u \in us THEN where ELSE status[u]
         /\ PipeRight' /\ CommandsCover' /\ TasksRight' /\ FlushRight' /\ CleanRight'
         /\ CallsRight' /\ FlushCovers'
         /\ UNCHANGED <<app, kind, calls, commands, forward, told, lost, Sent>>
<1>1. /\ status' \in Seq(Places) /\ Len(status') = Len(kind)
      /\ \A u \in Sent : status'[u] = IF u \in us THEN where ELSE status[u]
  BY MovedTo DEF Places, IInv
<1>2. \A u \in us : u \in Sent /\ status[u] \in {"batched", "spawned", "running"}
  OBVIOUS
<1>3. ASSUME NEW u \in Sent
      PROVE  /\ status'[u] = "queued" <=> status[u] = "queued"
             /\ status[u] \in {"committed", "skipped", "failed"} => status'[u] = status[u]
             /\ status'[u] = "queued" => status[u] = "queued"
             /\ status'[u] \in {"spawned", "running"} => status[u] \in {"spawned", "running"}
             /\ status[u] \in {"spawned", "running", "committed", "failed"} =>
                  status'[u] \in {"spawned", "running", "committed", "failed"}
  <2>1. CASE u \in us
    BY <1>1, <1>2, <2>1
  <2>2. CASE u \notin us
    BY <1>1, <2>2
  <2>3. QED
    BY <2>1, <2>2
<1>4. Advances
  BY <1>1, <1>3 DEF Advances
<1>5. /\ CommandsCover' /\ CallsRight' /\ FlushCovers'
      /\ AllSettled => AllSettled'
      /\ UNCHANGED <<app, kind, calls, commands, forward, told, lost, Sent>>
  BY <1>4, ClientStays
<1>6. PipeRight'
  BY <1>3, <1>5, PipeStays
<1>7. TasksRight'
  <2>1. daemon.tasks \subseteq Sent
    BY DEF IInv, Typed
  <2>2. QED
    BY <1>3, <1>5, <2>1 DEF IInv, TasksRight
<1>8. FlushRight'
  BY <1>5 DEF IInv, FlushRight, Serving
<1>9. CleanRight'
  BY <1>5 DEF IInv, CleanRight
<1>10. QED
  BY <1>1, <1>5, <1>6, <1>7, <1>8, <1>9

(* A failure is kept by the task or by the metric task.                    *)
LEMMA FailuresGrow ==
  ASSUME IInv, UNCHANGED <<told, lost, replies, daemon, Sent>>,
         metrics.failures \subseteq metrics'.failures,
         \A u \in metrics'.failures : u \in metrics.failures \/ (u \in Sent /\ status'[u] = "failed"),
         \A u \in Sent : status[u] = "failed" => status'[u] = "failed",
         \A u \in Sent : status'[u] = "failed" =>
           \/ status[u] = "failed" \/ u \in daemon.tasks
           \/ u \in metrics'.failures /\ metrics.queue # <<>>,
         metrics'.queue # <<>> => metrics.queue # <<>>
  PROVE  FailuresRight' /\ NoSilentFailure'
<1>1. \A u : Failure(u) => Failure(u)'
  BY DEF Failure
<1>2. \A u \in told \cup lost \cup daemon.failures \cup metrics'.failures : Failure(u)'
  <2>1. \A u \in told \cup lost \cup daemon.failures \cup metrics.failures : Failure(u)'
    BY <1>1 DEF IInv, FailuresRight
  <2>2. \A u \in Sent : status'[u] = "failed" => Failure(u)'
    BY DEF Failure
  <2>3. QED
    BY <2>1, <2>2
<1>3. \A i \in DOMAIN replies : \A u \in replies[i] : Failure(u)'
  BY <1>1 DEF IInv, FailuresRight
<1>4. ASSUME daemon.pc # "ended", NEW u \in Sent, status'[u] = "failed"
      PROVE  \/ u \in told \cup lost \cup daemon.failures \cup metrics'.failures \cup daemon.tasks
             \/ \E i \in DOMAIN replies : u \in replies[i]
  BY <1>4 DEF IInv, FailuresRight
<1>5. FailuresRight'
  BY <1>2, <1>3, <1>4 DEF IInv, FailuresRight
<1>6. ASSUME daemon.pc = "ended", NEW u \in Sent, status'[u] = "failed"
      PROVE  \/ u \in told \cup lost \/ u \in UNION ToSet(replies)
             \/ daemon.result = "err" \/ daemon.automatic
  <2>1. u \notin daemon.tasks
    BY <1>6 DEF IInv, TasksRight
  <2>2. CASE status[u] = "failed"
    BY <1>6, <2>2 DEF IInv, NoSilentFailure
  <2>3. CASE metrics.queue # <<>>
    BY <1>6, <2>3 DEF IInv, FailuresRight
  <2>4. QED
    BY <1>6, <2>1, <2>2, <2>3
<1>7. NoSilentFailure'
  BY <1>6 DEF NoSilentFailure
<1>8. QED
  BY <1>5, <1>7

(* A save that has started or ended never goes back.                       *)
LEMMA SavesStay ==
  ASSUME IInv, UNCHANGED <<kind, Sent>>, NEW us \in SUBSET Sent,
         NEW where \in {"committed", "failed"},
         \A u \in us : status[u] \in {"batched", "running"},
         \A u \in Sent : status'[u] = IF u \in us THEN where ELSE status[u]
  PROVE  /\ \A u, v \in Sent : u < v /\ kind[u] = "asset" /\ kind[v] = "asset"
                          /\ status'[v] \notin {"queued", "spawned"} =>
              status'[u] \notin {"queued", "spawned", "running"}
         /\ \A i \in DOMAIN saved :
              saved[i] \in Sent /\ kind[saved[i]] = "asset" /\ status'[saved[i]] = "committed"
<1>1. ASSUME NEW u \in Sent, NEW v \in Sent, u < v, kind[u] = "asset", kind[v] = "asset",
             status'[v] \notin {"queued", "spawned"}
      PROVE  status'[u] \notin {"queued", "spawned", "running"}
  <2>1. status[v] \notin {"queued", "spawned"}
    BY <1>1
  <2>2. status[u] \notin {"queued", "spawned", "running"}
    BY <1>1, <2>1 DEF IInv, SavesRight
  <2>3. QED
    BY <2>2
<1>2. \A i \in DOMAIN saved :
        saved[i] \in Sent /\ kind[saved[i]] = "asset" /\ status'[saved[i]] = "committed"
  BY DEF IInv, SavesRight
<1>3. QED
  BY <1>1, <1>2

LEMMA StartStep ==
  ASSUME IInv, NEW u \in Sent, Start(u)
  PROVE  IInv'
<1>1. /\ status[u] = "spawned" /\ (kind[u] = "asset" => Before(u))
      /\ Moved({u}, "running")
      /\ UNCHANGED <<client, inbound, replies, daemon, metrics, saved>>
  BY DEF Start
<1>2. {u} \in SUBSET Sent /\ \A v \in {u} : status[v] = "spawned"
  BY <1>1
<1>3. /\ status' \in Seq(Places) /\ Len(status') = Len(kind)
      /\ \A v \in Sent : status'[v] = IF v \in {u} THEN "running" ELSE status[v]
      /\ PipeRight' /\ CommandsCover' /\ TasksRight' /\ FlushRight' /\ CleanRight'
      /\ CallsRight' /\ FlushCovers'
      /\ UNCHANGED <<app, kind, calls, commands, forward, told, lost, Sent>>
  BY <1>1, <1>2, TaskStep
<1>4. status'[u] = "running" /\ \A v \in Sent : v # u => status'[v] = status[v]
  BY <1>3
<1>5. Typed'
  BY <1>1, <1>3 DEF IInv, Typed
<1>6. MetricsRight'
  <2>1. \A v \in Sent' : status'[v] = "batched" <=> v \in Sent /\ status[v] = "batched"
    BY <1>1, <1>3, <1>4
  <2>2. QED
    BY <1>1, <1>3, <2>1, MetricsStay DEF IInv
<1>7. FailuresRight' /\ NoSilentFailure'
  <2>1. \A v \in Sent : status'[v] = "failed" <=> status[v] = "failed"
    BY <1>1, <1>4
  <2>2. \A v \in metrics'.failures : v \in metrics.failures
    BY <1>1
  <2>3. QED
    BY <1>1, <1>3, <2>1, <2>2, FailuresGrow
<1>8. SavesRight'
  <2>1. ASSUME NEW a \in Sent, a < u, kind[a] = "asset", kind[u] = "asset"
        PROVE  status[a] \notin {"queued", "spawned", "running"}
    <3>1. status[a] # "queued"
      BY <1>1, <2>1 DEF IInv, PipeRight
    <3>2. a \in daemon.tasks => Finished(a)
      BY <1>1, <2>1 DEF Before
    <3>3. status[a] \in {"spawned", "running"} => a \in daemon.tasks
      BY DEF IInv, TasksRight
    <3>4. QED
      BY <3>1, <3>2, <3>3 DEF Finished
  <2>2. ASSUME NEW a \in Sent, NEW b \in Sent, a < b, kind[a] = "asset", kind[b] = "asset",
               status'[b] \notin {"queued", "spawned"}
        PROVE  status'[a] \notin {"queued", "spawned", "running"}
    <3>1. status[a] \notin {"queued", "spawned", "running"}
      <4>1. CASE b = u
        BY <2>1, <2>2, <4>1
      <4>2. CASE b # u
        BY <1>4, <2>2, <4>2 DEF IInv, SavesRight
      <4>3. QED
        BY <4>1, <4>2
    <3>2. QED
      BY <1>1, <1>4, <3>1
  <2>3. \A i \in DOMAIN saved :
          saved[i] \in Sent /\ kind[saved[i]] = "asset" /\ status'[saved[i]] = "committed"
    BY <1>1, <1>4 DEF IInv, SavesRight
  <2>4. QED
    BY <1>1, <1>3, <2>2, <2>3 DEF SavesRight
<1>9. SavesInOrder'
  BY <1>1 DEF IInv, SavesInOrder
<1>10. QED
  BY <1>3, <1>5, <1>6, <1>7, <1>8, <1>9 DEF IInv

LEMMA FinishStep ==
  ASSUME IInv, NEW u \in Sent, Finish(u)
  PROVE  IInv'
<1> PICK done \in BOOLEAN :
      /\ Outcome({u}, done)
      /\ saved' = IF done /\ kind[u] = "asset" THEN Append(saved, u) ELSE saved
  BY DEF Finish
<1> PICK where \in {"committed", "failed"} : where = IF done THEN "committed" ELSE "failed"
  OBVIOUS
<1>1. /\ status[u] = "running" /\ Moved({u}, where)
      /\ UNCHANGED <<client, inbound, replies, daemon, metrics>>
  BY DEF Finish, Outcome
<1>2. {u} \in SUBSET Sent /\ \A v \in {u} : status[v] \in {"batched", "running"}
  BY <1>1
<1>3. /\ status' \in Seq(Places) /\ Len(status') = Len(kind)
      /\ \A v \in Sent : status'[v] = IF v \in {u} THEN where ELSE status[v]
      /\ PipeRight' /\ CommandsCover' /\ TasksRight' /\ FlushRight' /\ CleanRight'
      /\ CallsRight' /\ FlushCovers'
      /\ UNCHANGED <<app, kind, calls, commands, forward, told, lost, Sent>>
  BY <1>1, <1>2, TaskStep
<1>4. status'[u] = where /\ \A v \in Sent : v # u => status'[v] = status[v]
  BY <1>3
<1>5. saved \in Seq(Nat) /\ u \in Nat /\ Sent \subseteq Nat
  <2>1. saved \in Seq(Nat)
    BY DEF IInv, Typed
  <2>2. Sent \subseteq Nat
    BY PointTypes DEF IInv
  <2>3. QED
    BY <2>1, <2>2
<1>6. /\ saved' \in Seq(Nat)
      /\ \A i \in DOMAIN saved : i \in DOMAIN saved' /\ saved'[i] = saved[i]
      /\ \A i \in DOMAIN saved' :
           \/ i \in DOMAIN saved /\ saved'[i] = saved[i]
           \/ /\ saved'[i] = u /\ kind[u] = "asset" /\ where = "committed"
              /\ \A j \in DOMAIN saved' : ~(i < j)
  <2>1. CASE done /\ kind[u] = "asset"
    <3>1. saved' = Append(saved, u)
      BY <2>1
    <3>2. /\ saved' \in Seq(Nat) /\ Len(saved') \in DOMAIN saved' /\ saved'[Len(saved')] = u
          /\ \A i \in DOMAIN saved : i \in DOMAIN saved' /\ saved'[i] = saved[i]
          /\ \A i \in DOMAIN saved' : i = Len(saved') \/ (i \in DOMAIN saved /\ saved'[i] = saved[i])
      BY <1>5, <3>1, LastPut
    <3>3. \A j \in DOMAIN saved' : ~(Len(saved') < j)
      BY <3>2
    <3>4. QED
      BY <2>1, <3>2, <3>3
  <2>2. CASE ~(done /\ kind[u] = "asset")
    BY <1>5, <2>2
  <2>3. QED
    BY <2>1, <2>2
<1>7. Typed'
  BY <1>1, <1>3, <1>6 DEF IInv, Typed
<1>8. MetricsRight'
  <2>1. \A v \in Sent' : status'[v] = "batched" <=> v \in Sent /\ status[v] = "batched"
    BY <1>1, <1>3, <1>4
  <2>2. QED
    BY <1>1, <1>3, <2>1, MetricsStay DEF IInv
<1>9. FailuresRight' /\ NoSilentFailure'
  <2>1. \A v \in Sent : status[v] = "failed" => status'[v] = "failed"
    BY <1>1, <1>4
  <2>2. u \in daemon.tasks
    BY <1>1 DEF IInv, TasksRight
  <2>3. \A v \in Sent : status'[v] = "failed" => status[v] = "failed" \/ v \in daemon.tasks
    BY <1>4, <2>2
  <2>4. QED
    BY <1>1, <1>3, <2>1, <2>3, FailuresGrow
<1>10. /\ \A a, b \in Sent : a < b /\ kind[a] = "asset" /\ kind[b] = "asset"
                          /\ status'[b] \notin {"queued", "spawned"} =>
            status'[a] \notin {"queued", "spawned", "running"}
       /\ \A i \in DOMAIN saved :
            saved[i] \in Sent /\ kind[saved[i]] = "asset" /\ status'[saved[i]] = "committed"
  BY <1>2, <1>3, SavesStay
<1>11. SavesRight'
  <2>1. \A i \in DOMAIN saved' :
          saved'[i] \in Sent /\ kind[saved'[i]] = "asset" /\ status'[saved'[i]] = "committed"
    BY <1>4, <1>6, <1>10
  <2>2. QED
    BY <1>3, <1>10, <2>1 DEF SavesRight
<1>12. SavesInOrder'
  <2>1. ASSUME NEW i \in DOMAIN saved', NEW j \in DOMAIN saved', i < j
        PROVE  saved'[i] < saved'[j]
    <3>1. i \in DOMAIN saved /\ saved'[i] = saved[i]
      BY <1>6, <2>1
    <3>2. CASE j \in DOMAIN saved /\ saved'[j] = saved[j]
      BY <2>1, <3>1, <3>2 DEF IInv, SavesInOrder
    <3>3. CASE saved'[j] = u /\ kind[u] = "asset"
      <4> PICK a : a = saved[i]
        OBVIOUS
      <4>1. a \in Sent /\ kind[a] = "asset" /\ status[a] = "committed"
        BY <3>1 DEF IInv, SavesRight
      <4>2. ~(u < a)
        BY <1>1, <3>3, <4>1 DEF IInv, SavesRight
      <4>3. a # u /\ a \in Nat
        BY <1>1, <1>5, <4>1
      <4>4. QED
        BY <1>5, <3>1, <3>3, <4>2, <4>3
    <3>4. QED
      BY <1>6, <3>2, <3>3
  <2>2. QED
    BY <2>1 DEF SavesInOrder
<1>13. QED
  BY <1>3, <1>7, <1>8, <1>9, <1>11, <1>12 DEF IInv

LEMMA SendMetricsStep ==
  ASSUME IInv, SendMetrics
  PROVE  IInv'
<1> PICK batch : batch = Head(metrics.queue)
  OBVIOUS
<1> PICK us : us = ToSet(batch)
  OBVIOUS
<1> PICK queue : queue = Tail(metrics.queue)
  OBVIOUS
<1>1. metrics \in [queue : Seq(Seq(Nat)), failures : SUBSET Nat]
  BY DEF IInv, Typed
<1>2. /\ metrics.queue # <<>>
      /\ UNCHANGED <<client, inbound, replies, daemon, saved>>
  BY DEF SendMetrics
<1>3. metrics.queue \in Seq(Seq(Nat))
  BY <1>1
<1>4. /\ queue \in Seq(Seq(Nat)) /\ 1 \in DOMAIN metrics.queue /\ batch = metrics.queue[1]
      /\ \A k \in DOMAIN queue : k + 1 \in DOMAIN metrics.queue /\ queue[k] = metrics.queue[k + 1] /\ k \in Nat \ {0}
      /\ \A k \in DOMAIN metrics.queue :
           k = 1 \/ (k - 1 \in DOMAIN queue /\ queue[k - 1] = metrics.queue[k] /\ 1 < k)
  <2> PICK s, S : s = metrics.queue /\ S = Seq(Nat)
    OBVIOUS
  <2>1. s \in Seq(S) /\ s # <<>> /\ queue = Tail(s) /\ batch = Head(s)
    BY <1>2, <1>3
  <2>2. /\ queue \in Seq(S) /\ 1 \in DOMAIN s /\ batch = s[1]
        /\ \A k \in DOMAIN queue : k \in Nat \ {0} /\ k + 1 \in DOMAIN s /\ queue[k] = s[k + 1]
        /\ \A k \in DOMAIN s : k = 1 \/ (k - 1 \in DOMAIN queue /\ queue[k - 1] = s[k] /\ 1 < k)
    BY ONLY <2>1, FirstTaken
  <2>3. QED
    BY <2>2
<1>5. \A u \in us : /\ u \in Sent /\ status[u] = "batched" /\ u \notin ToSet(daemon.batch)
                    /\ \A k \in DOMAIN queue : u \notin ToSet(queue[k])
  <2>1. \A u \in us : /\ u \in Sent /\ status[u] = "batched" /\ u \notin ToSet(daemon.batch)
                      /\ \A l \in DOMAIN metrics.queue : l # 1 => u \notin ToSet(metrics.queue[l])
    BY <1>4 DEF IInv, MetricsRight
  <2>2. \A k \in DOMAIN queue : k + 1 # 1
    BY <1>4
  <2>3. QED
    BY <1>4, <2>1, <2>2
<1>6. ASSUME metrics'.queue = queue, Sent' = Sent,
             \A u \in Sent : status'[u] = "batched" <=> status[u] = "batched" /\ u \notin us
      PROVE  MetricsRight'
  <2>1. \A u \in ToSet(daemon'.batch) : u \in Sent /\ status'[u] = "batched"
    BY <1>2, <1>5, <1>6 DEF IInv, MetricsRight
  <2>2. ASSUME NEW k \in DOMAIN queue, NEW u \in ToSet(queue[k])
        PROVE  /\ u \in Sent /\ status'[u] = "batched" /\ u \notin ToSet(daemon.batch)
               /\ \A l \in DOMAIN queue : l # k => u \notin ToSet(queue[l])
    <3>1. k + 1 \in DOMAIN metrics.queue /\ u \in ToSet(metrics.queue[k + 1])
      BY <1>4, <2>2
    <3>2. /\ u \in Sent /\ status[u] = "batched" /\ u \notin ToSet(daemon.batch)
          /\ \A l \in DOMAIN metrics.queue : l # k + 1 => u \notin ToSet(metrics.queue[l])
      BY <3>1 DEF IInv, MetricsRight
    <3>3. \A l \in DOMAIN queue : l # k => l + 1 # k + 1
      BY <1>4
    <3>4. u \notin us
      BY <1>5, <2>2
    <3>5. QED
      BY <1>4, <1>6, <3>2, <3>3, <3>4
  <2>3. ASSUME NEW u \in Sent, status'[u] = "batched"
        PROVE  u \in ToSet(daemon.batch) \/ \E k \in DOMAIN queue : u \in ToSet(queue[k])
    <3>1. status[u] = "batched" /\ u \notin ToSet(metrics.queue[1])
      BY <1>4, <1>6, <2>3
    <3>2. u \in ToSet(daemon.batch) \/ \E k \in DOMAIN metrics.queue : u \in ToSet(metrics.queue[k])
      BY <3>1 DEF IInv, MetricsRight
    <3>3. QED
      BY <1>4, <3>1, <3>2
  <2>4. QED
    BY <1>2, <1>6, <2>1, <2>2, <2>3 DEF MetricsRight
<1>7. CASE batch # <<>> /\ \E done \in BOOLEAN :
               /\ Outcome(us, done)
               /\ metrics' = [queue |-> queue,
                    failures |-> IF done THEN metrics.failures
                                         ELSE metrics.failures \cup us]
  <2>1. PICK done \in BOOLEAN :
          /\ Outcome(us, done)
          /\ metrics' = [queue |-> queue,
               failures |-> IF done THEN metrics.failures ELSE metrics.failures \cup us]
    BY <1>7
  <2> PICK where \in {"committed", "failed"} : where = IF done THEN "committed" ELSE "failed"
    OBVIOUS
  <2>2. Moved(us, where) /\ us \in SUBSET Sent /\ \A u \in us : status[u] \in {"batched", "running"}
    BY <1>5, <2>1 DEF Outcome
  <2>3. /\ status' \in Seq(Places) /\ Len(status') = Len(kind)
        /\ \A u \in Sent : status'[u] = IF u \in us THEN where ELSE status[u]
        /\ PipeRight' /\ CommandsCover' /\ TasksRight' /\ FlushRight' /\ CleanRight'
        /\ CallsRight' /\ FlushCovers'
        /\ UNCHANGED <<app, kind, calls, commands, forward, told, lost, Sent>>
    BY <1>2, <2>2, TaskStep
  <2>4. Sent \subseteq Nat
    BY PointTypes DEF IInv
  <2>5. /\ metrics' \in [queue : Seq(Seq(Nat)), failures : SUBSET Nat]
        /\ metrics'.queue = queue /\ metrics.failures \subseteq metrics'.failures
        /\ \A u \in metrics'.failures : u \in metrics.failures \/ (u \in us /\ where = "failed")
        /\ where = "failed" => us \subseteq metrics'.failures
    <3> PICK fs : fs = IF done THEN metrics.failures ELSE metrics.failures \cup us
      OBVIOUS
    <3>1. metrics' = [queue |-> queue, failures |-> fs]
      BY <2>1
    <3>2. us \subseteq Nat /\ metrics.failures \subseteq Nat
      BY <1>1, <2>2, <2>4
    <3>3. fs \subseteq Nat
      BY <3>2
    <3>4. QED
      BY <1>4, <3>1, <3>3
  <2>6. Typed'
    BY <1>2, <2>3, <2>5 DEF IInv, Typed
  <2>7. MetricsRight'
    <3>1. \A u \in Sent : status'[u] = "batched" <=> status[u] = "batched" /\ u \notin us
      BY <2>3
    <3>2. QED
      BY <1>6, <2>3, <2>5, <3>1
  <2>8. FailuresRight' /\ NoSilentFailure'
    <3>1. \A u \in metrics'.failures : u \in metrics.failures \/ (u \in Sent /\ status'[u] = "failed")
      BY <2>2, <2>3, <2>5
    <3>2. \A u \in Sent : status[u] = "failed" => status'[u] = "failed"
      BY <1>5, <2>3
    <3>3. \A u \in Sent : status'[u] = "failed" => status[u] = "failed" \/ u \in metrics'.failures
      BY <2>3, <2>5
    <3>4. QED
      BY <1>2, <2>3, <2>5, <3>1, <3>2, <3>3, FailuresGrow
  <2>9. SavesRight' /\ SavesInOrder'
    <3>1. /\ \A a, b \in Sent : a < b /\ kind[a] = "asset" /\ kind[b] = "asset"
                            /\ status'[b] \notin {"queued", "spawned"} =>
               status'[a] \notin {"queued", "spawned", "running"}
          /\ \A i \in DOMAIN saved :
               saved[i] \in Sent /\ kind[saved[i]] = "asset" /\ status'[saved[i]] = "committed"
      BY <2>2, <2>3, SavesStay
    <3>2. QED
      BY <1>2, <2>3, <3>1 DEF SavesRight, IInv, SavesInOrder
  <2>10. QED
    BY <2>3, <2>6, <2>7, <2>8, <2>9 DEF IInv
<1>8. CASE /\ batch = <<>>
           /\ metrics' = [metrics EXCEPT !.queue = queue]
           /\ UNCHANGED status
  <2>1. UNCHANGED <<app, kind, calls, commands, forward, told, lost, Sent, status>>
    BY <1>2, <1>8 DEF client, Sent
  <2>2. /\ metrics' \in [queue : Seq(Seq(Nat)), failures : SUBSET Nat]
        /\ metrics'.queue = queue /\ metrics'.failures = metrics.failures
    BY <1>1, <1>4, <1>8
  <2>3. Typed'
    BY <1>2, <2>1, <2>2 DEF IInv, Typed
  <2>4. us = {}
    BY <1>8 DEF ToSet
  <2>5. MetricsRight'
    BY <1>6, <2>1, <2>2, <2>4
  <2>6. FailuresRight' /\ NoSilentFailure'
    BY <1>2, <2>1, <2>2, FailuresGrow
  <2>7. PipeRight' /\ CommandsCover' /\ TasksRight'
    BY <1>2, <2>1 DEF IInv, PipeRight, InOrder, AllQueued, After, Holds, CommandsCover, TasksRight
  <2>8. FlushRight' /\ CleanRight'
    BY <1>2, <2>1 DEF IInv, FlushRight, Serving, CleanRight, AllSettled, Settled, Holds
  <2>9. CallsRight' /\ FlushCovers' /\ SavesRight' /\ SavesInOrder'
    BY <1>2, <2>1 DEF IInv, CallsRight, FlushCovers, SavesRight, SavesInOrder
  <2>10. QED
    BY <2>3, <2>5, <2>6, <2>7, <2>8, <2>9 DEF IInv
<1>9. QED
  BY <1>7, <1>8 DEF SendMetrics

(***************************************************************************)
(* A message that was cut off                                              *)
(***************************************************************************)
LEMMA SequenceOver ==
  ASSUME NEW S, NEW n \in Nat, NEW s \in [1 .. n -> S]
  PROVE  s \in Seq(S) /\ DOMAIN s = 1 .. n
OBVIOUS

LEMMA OrderOfOne ==
  ASSUME NEW S, \A x, y \in S : x = y, NEW order \in SetToSeqs(S)
  PROVE  order \in Seq(S) /\ \A i, j \in DOMAIN order : i = j
<1>1. CASE S = {}
  <2>1. Cardinality(S) = 0
    BY <1>1, FS_EmptySet
  <2>2. order \in [1 .. 0 -> {}]
    BY <1>1, <2>1 DEF SetToSeqs
  <2>3. QED
    BY <1>1, <2>2
<1>2. CASE S # {}
  <2>1. PICK x : S = {x}
    BY <1>2
  <2>2. Cardinality(S) = 1
    BY <2>1, FS_Singleton
  <2>3. order \in [1 .. 1 -> S]
    BY <2>2 DEF SetToSeqs
  <2>4. order \in Seq(S) /\ DOMAIN order = 1 .. 1
    BY <2>3, SequenceOver
  <2>5. QED
    BY <2>4
<1>3. QED
  BY <1>1, <1>2

LEMMA ReceiveCutStep ==
  ASSUME IInv, ReceiveCut
  PROVE  IInv'
<1>0. /\ daemon.pc = "receive" /\ inbound # <<>> /\ Head(inbound) = Cut
      /\ daemon' = [daemon EXCEPT !.pc = "ended", !.tasks = {},
                      !.result = IF daemon.automatic THEN "ok" ELSE "err"]
      /\ UNCHANGED <<client, inbound, replies, metrics>>
  BY DEF ReceiveCut, Receives
<1> PICK done \in SUBSET {u \in daemon.tasks : status[u] = "running"} :
      /\ status' = [u \in Sent |->
           IF u \in done THEN "committed"
           ELSE IF u \in daemon.tasks /\ ~Finished(u) THEN "failed" ELSE status[u]]
      /\ \E order \in SetToSeqs({u \in done : kind[u] = "asset"}) : saved' = saved \o order
  BY DEF ReceiveCut
<1> PICK assets : assets = {u \in done : kind[u] = "asset"}
  OBVIOUS
<1> PICK order \in SetToSeqs(assets) : saved' = saved \o order
  OBVIOUS
<1>1. UNCHANGED <<app, kind, calls, commands, forward, told, lost, Sent>>
  BY <1>0 DEF client, Sent
<1>2. daemon \in [pc : {"receive", "join", "flushed", "ended"}, ending : BOOLEAN,
                  batch : Seq(Nat), tasks : SUBSET Sent, failures : SUBSET Nat,
                  automatic : BOOLEAN, result : {"none", "ok", "err"}]
  BY DEF IInv, Typed
<1>3. /\ daemon' \in [pc : {"receive", "join", "flushed", "ended"}, ending : BOOLEAN,
                      batch : Seq(Nat), tasks : SUBSET Sent, failures : SUBSET Nat,
                      automatic : BOOLEAN, result : {"none", "ok", "err"}]
      /\ daemon'.batch = daemon.batch /\ daemon'.tasks = {} /\ daemon'.pc = "ended"
      /\ daemon'.failures = daemon.failures
      /\ daemon'.result = "err" \/ daemon'.automatic
  BY <1>0, <1>2
<1>4. /\ Len(kind) \in Nat /\ Sent = 1 .. Len(kind) /\ Sent \subseteq Nat
      /\ \A u \in Sent : status[u] \in Places
  BY PointTypes DEF IInv, Typed
<1>5. \A u \in done : u \in Sent /\ u \in daemon.tasks /\ status[u] = "running"
  BY <1>2
<1>6. ASSUME NEW u \in Sent
      PROVE  /\ status'[u] \in Places
             /\ u \in done => status'[u] = "committed"
             /\ status[u] \in {"committed", "skipped", "failed"} => status'[u] = status[u]
             /\ status'[u] = "queued" <=> status[u] = "queued"
             /\ status'[u] = "batched" <=> status[u] = "batched"
             /\ status'[u] \notin {"spawned", "running"}
  <2>1. status[u] \in {"spawned", "running"} <=> u \in daemon.tasks /\ ~Finished(u)
    BY DEF IInv, TasksRight, Finished
  <2>2. CASE u \in done
    <3>1. status'[u] = "committed" /\ status[u] = "running"
      BY <1>5, <2>2
    <3>2. QED
      BY <3>1 DEF Places
  <2>3. CASE u \notin done /\ status[u] \in {"spawned", "running"}
    <3>1. status'[u] = "failed"
      BY <2>1, <2>3
    <3>2. QED
      BY <2>3, <3>1 DEF Places
  <2>4. CASE u \notin done /\ status[u] \notin {"spawned", "running"}
    <3>1. status'[u] = status[u]
      BY <2>1, <2>4
    <3>2. QED
      BY <1>4, <2>4, <3>1
  <2>5. QED
    BY <2>2, <2>3, <2>4
<1>7. status' \in Seq(Places) /\ Len(status') = Len(kind)
  <2>1. status' \in [1 .. Len(kind) -> Places]
    BY <1>4, <1>6
  <2>2. QED
    BY <1>4, <2>1
<1>8. Advances
  BY <1>6, <1>7 DEF Advances
<1>9. CommandsCover' /\ CallsRight' /\ FlushCovers'
  BY <1>0, <1>3, <1>8, ClientStays
<1>10. PipeRight'
  BY <1>0, <1>1, <1>6, PipeStays
<1>11. MetricsRight'
  BY <1>0, <1>1, <1>3, <1>6, MetricsStay DEF IInv
<1>12. TasksRight'
  BY <1>1, <1>3, <1>6 DEF TasksRight
<1>13. FailuresRight' /\ NoSilentFailure'
  <2>1. \A u : Failure(u) => Failure(u)'
    BY <1>1, <1>6 DEF Failure
  <2>2. FailuresRight'
    BY <1>0, <1>1, <1>3, <2>1 DEF IInv, FailuresRight
  <2>3. QED
    BY <1>3, <2>2 DEF NoSilentFailure
<1>14. forward.pc = "done"
  <2>1. inbound \in Seq(Message)
    BY DEF IInv, Typed
  <2>2. 1 \in DOMAIN inbound /\ inbound[1].type = "cut"
    BY <1>0, <2>1 DEF Cut
  <2>3. QED
    BY <2>2 DEF IInv, FlushRight
<1>15. FlushRight' /\ CleanRight'
  BY <1>0, <1>1, <1>3, <1>14 DEF IInv, FlushRight, CleanRight
<1>16. /\ assets \subseteq Sent /\ \A u, v \in assets : u = v
       /\ \A u \in assets : kind[u] = "asset" /\ status[u] = "running" /\ status'[u] = "committed"
  <2>1. \A u \in assets : /\ u \in Sent /\ kind[u] = "asset" /\ status[u] = "running"
                          /\ status'[u] = "committed"
    BY <1>5, <1>6
  <2>2. ASSUME NEW u \in assets, NEW v \in assets
        PROVE  u = v
    <3>1. ~(u < v) /\ ~(v < u)
      BY <2>1 DEF IInv, SavesRight
    <3>2. u \in Sent /\ v \in Sent
      BY <2>1
    <3>3. u \in Nat /\ v \in Nat
      BY <1>4, <3>2
    <3>4. QED
      BY <3>1, <3>3
  <2>3. QED
    BY <2>1, <2>2
<1>17. order \in Seq(assets) /\ \A i, j \in DOMAIN order : i = j
  BY <1>16, OrderOfOne
<1>18. saved \in Seq(Nat) /\ order \in Seq(Nat)
  <2>1. assets \subseteq Nat
    BY <1>4, <1>16
  <2>2. order \in Seq(Nat)
    <3>1. Len(order) \in Nat /\ order \in [1 .. Len(order) -> assets]
      BY <1>17
    <3>2. order \in [1 .. Len(order) -> Nat]
      BY <2>1, <3>1
    <3>3. QED
      BY <3>1, <3>2, SequenceOver
  <2>3. saved \in Seq(Nat)
    BY DEF IInv, Typed
  <2>4. QED
    BY <2>2, <2>3
<1>19. /\ saved' \in Seq(Nat)
       /\ \A i \in DOMAIN saved' : i \in Nat
       /\ \A i \in DOMAIN saved' :
            \/ i \in DOMAIN saved /\ saved'[i] = saved[i]
            \/ i > Len(saved) /\ i - Len(saved) \in DOMAIN order /\ saved'[i] = order[i - Len(saved)]
  BY <1>18
<1>20. \A i \in DOMAIN order : order[i] \in assets
  BY <1>17
<1>21. Typed'
  BY <1>0, <1>1, <1>3, <1>7, <1>19 DEF IInv, Typed
<1>22. SavesRight'
  <2>1. ASSUME NEW a \in Sent, NEW b \in Sent, a < b, status'[b] \notin {"queued", "spawned"}
        PROVE  status'[a] \notin {"queued", "spawned", "running"}
    <3>1. status[b] # "queued"
      BY <1>6, <2>1
    <3>2. status[a] # "queued"
      BY <2>1, <3>1 DEF IInv, PipeRight
    <3>3. QED
      BY <1>6, <3>2
  <2>2. \A i \in DOMAIN saved :
          saved[i] \in Sent /\ kind[saved[i]] = "asset" /\ status'[saved[i]] = "committed"
    BY <1>6 DEF IInv, SavesRight
  <2>3. \A i \in DOMAIN saved' :
          saved'[i] \in Sent /\ kind[saved'[i]] = "asset" /\ status'[saved'[i]] = "committed"
    <3>1. \A u \in assets : u \in Sent /\ kind[u] = "asset" /\ status'[u] = "committed"
      BY <1>16
    <3>2. ASSUME NEW i \in DOMAIN saved'
          PROVE  (i \in DOMAIN saved /\ saved'[i] = saved[i]) \/ saved'[i] \in assets
      BY <1>19, <1>20
    <3>3. QED
      BY ONLY <2>2, <3>1, <3>2
  <2>4. QED
    BY <1>1, <2>1, <2>3 DEF SavesRight
<1>23. SavesInOrder'
  <2>1. ASSUME NEW i \in DOMAIN saved', NEW j \in DOMAIN saved', i < j
        PROVE  saved'[i] < saved'[j]
    <3>0. DOMAIN saved = 1 .. Len(saved) /\ Len(saved) \in Nat
      BY <1>18
    <3>1. CASE j \in DOMAIN saved /\ saved'[j] = saved[j]
      <4>1. i \in DOMAIN saved /\ saved'[i] = saved[i]
        BY <1>19, <2>1, <3>0, <3>1
      <4>2. QED
        BY <2>1, <3>1, <4>1 DEF IInv, SavesInOrder
    <3>2. CASE /\ j > Len(saved) /\ j - Len(saved) \in DOMAIN order
               /\ saved'[j] = order[j - Len(saved)]
      <4>1. saved'[j] \in assets
        BY <1>20, <3>2
      <4>2. ~(i - Len(saved) \in DOMAIN order)
        <5>1. i - Len(saved) # j - Len(saved)
          BY <1>19, <2>1, <3>0
        <5>2. QED
          BY <1>17, <3>2, <5>1
      <4>3. i \in DOMAIN saved /\ saved'[i] = saved[i]
        BY <1>19, <4>2
      <4> PICK a, u : a = saved[i] /\ u = saved'[j]
        OBVIOUS
      <4>4. a \in Sent /\ kind[a] = "asset" /\ status[a] = "committed"
        BY <4>3 DEF IInv, SavesRight
      <4>5. u \in Sent /\ kind[u] = "asset" /\ status[u] = "running"
        BY <1>16, <4>1
      <4>6. ~(u < a)
        BY <4>4, <4>5 DEF IInv, SavesRight
      <4>7. a # u /\ a \in Nat /\ u \in Nat
        BY <1>4, <4>4, <4>5
      <4>8. QED
        BY <4>3, <4>6, <4>7
    <3>3. QED
      BY <1>19, <3>1, <3>2
  <2>2. QED
    BY <2>1 DEF SavesInOrder
<1>24. QED
  BY <1>9, <1>10, <1>11, <1>12, <1>13, <1>15, <1>21, <1>22, <1>23 DEF IInv

(***************************************************************************)
(* The theorems                                                            *)
(***************************************************************************)
(* What is on its way is in order and covered by the flushes behind it,    *)
(* every failure is kept, and a clean reply means that all of it is        *)
(* settled: in every state of every connection.                            *)
THEOREM Inductive == Spec => []IInv
<1>1. Init => IInv
  <2> SUFFICES ASSUME Init PROVE IInv
    OBVIOUS
  <2>1. /\ kind = <<>> /\ calls = <<>> /\ commands = <<>> /\ inbound = <<>> /\ replies = <<>>
        /\ status = <<>> /\ saved = <<>> /\ told = {} /\ lost = {} /\ app = "open"
        /\ forward = [pc |-> "idle", call |-> 0, dirty |-> FALSE]
        /\ metrics = [queue |-> <<>>, failures |-> {}] /\ Sent = {}
    BY DEF Init, Sent
  <2>2. /\ daemon \in [pc : {"receive", "join", "flushed", "ended"}, ending : BOOLEAN,
                       batch : Seq(Nat), tasks : SUBSET Sent, failures : SUBSET Nat,
                       automatic : BOOLEAN, result : {"none", "ok", "err"}]
        /\ daemon.pc = "receive" /\ daemon.batch = <<>> /\ daemon.tasks = {}
        /\ daemon.failures = {}
    <3>1. daemon \in [pc : {"receive"}, ending : {FALSE}, batch : {<<>>}, tasks : {{}},
                      failures : {{}}, automatic : BOOLEAN, result : {"none"}]
      BY DEF Init
    <3>2. <<>> \in Seq(Nat)
      OBVIOUS
    <3>3. QED
      BY <3>1, <3>2
  <2>3. Typed
    BY <2>1, <2>2 DEF Typed
  <2>4. PipeRight /\ CommandsCover
    BY <2>1 DEF PipeRight, InOrder, AllQueued, CommandsCover
  <2>5. MetricsRight /\ TasksRight
    BY <2>1, <2>2 DEF MetricsRight, TasksRight, ToSet
  <2>6. FailuresRight /\ FlushRight /\ CleanRight
    BY <2>1, <2>2 DEF FailuresRight, FlushRight, Serving, CleanRight, AllSettled
  <2>7. CallsRight /\ SavesRight /\ FlushCovers /\ NoSilentFailure /\ SavesInOrder
    BY <2>1, <2>2 DEF CallsRight, SavesRight, FlushCovers, NoSilentFailure, SavesInOrder
  <2>8. QED
    BY <2>3, <2>4, <2>5, <2>6, <2>7 DEF IInv
<1>2. IInv /\ [Next]_vars => IInv'
  <2> SUFFICES ASSUME IInv, [Next]_vars PROVE IInv'
    OBVIOUS
  <2>1. CASE \E k \in Kinds : Send(k)
    BY <2>1, SendStep
  <2>2. CASE \E closing \in BOOLEAN : Call(closing)
    BY <2>2, CallStep
  <2>3. CASE \E c \in DOMAIN calls : Expire(c)
    BY <2>3, ExpireStep
  <2>4. CASE Die \/ Stop \/ Tick
    BY <2>4, DieStep, StopStep, TickStep
  <2>5. CASE Forward
    BY <2>5, ForwardUploadStep, ForwardFlushStep, ForwardReplyStep, ForwardEndStep DEF Forward
  <2>6. CASE Process
    BY <2>6, ReceiveMetricStep, ReceiveFileStep, ReceiveFlushStep, ReceiveCutStep, JoinStep,
       FlushMetricsStep, ReplyStep DEF Process
  <2>7. CASE Tasks
    BY <2>7, SendMetricsStep, StartStep, FinishStep DEF Tasks
  <2>8. CASE UNCHANGED vars
    <3>1. /\ UNCHANGED <<app, kind, calls, commands, forward, inbound, replies, daemon>>
          /\ UNCHANGED <<metrics, status, told, lost, saved, Sent>>
      BY <2>8 DEF vars, Sent
    <3>2. Typed'
      BY <3>1 DEF IInv, Typed
    <3>3. PipeRight' /\ CommandsCover'
      BY <3>1 DEF IInv, PipeRight, InOrder, AllQueued, After, Holds, CommandsCover
    <3>4. MetricsRight' /\ TasksRight'
      BY <3>1 DEF IInv, MetricsRight, TasksRight
    <3>5. FailuresRight' /\ FlushRight'
      BY <3>1 DEF IInv, FailuresRight, Failure, FlushRight, Serving
    <3>6. CleanRight' /\ CallsRight'
      BY <3>1 DEF IInv, CleanRight, AllSettled, Settled, Holds, CallsRight
    <3>7. SavesRight' /\ SavesInOrder'
      BY <3>1 DEF IInv, SavesRight, SavesInOrder
    <3>8. FlushCovers' /\ NoSilentFailure'
      BY <3>1 DEF IInv, FlushCovers, NoSilentFailure
    <3>9. QED
      BY <3>2, <3>3, <3>4, <3>5, <3>6, <3>7, <3>8 DEF IInv
  <2>9. QED
    BY <2>1, <2>2, <2>3, <2>4, <2>5, <2>6, <2>7, <2>8 DEF Next
<1>3. QED
  BY <1>1, <1>2, PTL DEF Spec

(* A flush that returns Ok covers every upload called before it, up to the *)
(* failures an earlier call was given (uploads.rs `Flush`,                 *)
(* upload_client.rs `dirty`).                                              *)
COROLLARY FlushesCover == Spec => []FlushCovers
<1>1. IInv => FlushCovers
  BY DEF IInv
<1>2. QED
  BY <1>1, Inductive, PTL

(* A flush that comes back by itself leaves no upload that is still to     *)
(* read its file (client.py:203-206).                                      *)
COROLLARY FlushesWait == Spec => []FlushWaits
<1>1. IInv => FlushWaits
  BY DEF IInv, CallsRight, FlushWaits
<1>2. QED
  BY <1>1, Inductive, PTL

(* Saved assets are committed in the order of the calls: at most one save  *)
(* of a connection runs (uploads.rs `Asset`).                              *)
COROLLARY SavesAreInOrder == Spec => []SavesInOrder
<1>1. IInv => SavesInOrder
  BY DEF IInv
<1>2. QED
  BY <1>1, Inductive, PTL

(* When the connection has ended, each failure was given to a call or      *)
(* fails the run (uploads.rs `process`).                                   *)
COROLLARY FailuresAreReported == Spec => []NoSilentFailure
<1>1. IInv => NoSilentFailure
  BY DEF IInv
<1>2. QED
  BY <1>1, Inductive, PTL

=============================================================================
