-------------------------- MODULE RunStatusProofs --------------------------
(***************************************************************************)
(* What holds of the status of a run for any number of handlers, replicas  *)
(* and sessions.                                                           *)
(***************************************************************************)
EXTENDS RunStatus, TLAPS

Ids == Handlers \cup Sweepers

HandlerType ==
    [op : Requests \cup {"sweep", "none"}, failed : BOOLEAN,
     step : {"free", "get", "select", "insert"}, status : Statuses, old : BOOLEAN]

ClientType ==
    [state : {"off", "starting", "running", "ending", "ended"},
     failed : BOOLEAN, waits : Handlers \cup {None}]

(* After a row has been inserted, the rows that are later than it are left *)
(* in their order; its own is not among them.                              *)
LEMMA AfterRow ==
    ASSUME pending \in Seq(Ids), IsInjective(pending), NEW h \in ToSet(pending)
    PROVE  /\ After(h) \in Seq(Ids)
           /\ IsInjective(After(h))
           /\ \A j \in DOMAIN After(h) :
                 /\ After(h)[j] # h
                 /\ \E i \in DOMAIN pending : pending[i] = After(h)[j]
<1> DEFINE k == CHOOSE i \in DOMAIN pending : pending[i] = h
<1>1. k \in 1 .. Len(pending) /\ pending[k] = h
  BY DEF ToSet
<1>2. After(h) = SubSeq(pending, 1 + k, Len(pending))
  BY DEF After
<1> HIDE DEF k
<1>3. /\ After(h) \in Seq(Ids)
      /\ Len(After(h)) = Len(pending) - k
      /\ \A j \in 1 .. Len(pending) - k : After(h)[j] = pending[k + j]
  BY <1>1, <1>2
<1>4. \A j \in DOMAIN After(h) : k + j \in DOMAIN pending /\ k + j # k
  BY <1>1, <1>3
<1>5. IsInjective(After(h))
  BY <1>1, <1>3, <1>4, SMTT(30) DEF IsInjective
<1>6. \A j \in DOMAIN After(h) : After(h)[j] # h
  <2>1. DOMAIN After(h) = 1 .. Len(pending) - k
    BY <1>1, <1>3
  <2>2. ASSUME NEW j \in DOMAIN After(h), After(h)[j] = h
        PROVE  FALSE
    <3>1. pending[k + j] = pending[k]
      BY <1>1, <1>3, <2>1, <2>2
    <3>2. k + j \in DOMAIN pending /\ k \in DOMAIN pending /\ k + j # k
      BY <1>1, <1>4, <2>2
    <3>3. QED
      BY <3>1, <3>2 DEF IsInjective
  <2>3. QED
    BY <2>2
<1>7. \A j \in DOMAIN After(h) : \E i \in DOMAIN pending : pending[i] = After(h)[j]
  <2>1. DOMAIN After(h) = 1 .. Len(pending) - k
    BY <1>1, <1>3
  <2>2. QED
    BY <1>3, <1>4, <2>1
<1> QED
  BY <1>3, <1>5, <1>6, <1>7

(* A row begun now comes after all others.                                 *)
LEMMA AppendRow ==
    ASSUME pending \in Seq(Ids), IsInjective(pending),
           NEW h \in Ids, \A i \in DOMAIN pending : pending[i] # h
    PROVE  /\ Append(pending, h) \in Seq(Ids)
           /\ IsInjective(Append(pending, h))
           /\ \A j \in DOMAIN Append(pending, h) :
                 \/ Append(pending, h)[j] = h
                 \/ \E i \in DOMAIN pending : pending[i] = Append(pending, h)[j]
<1> DEFINE q == Append(pending, h)
<1>1. /\ q \in Seq(Ids)
      /\ Len(q) = Len(pending) + 1
      /\ DOMAIN q = 1 .. Len(pending) + 1 /\ DOMAIN pending = 1 .. Len(pending)
      /\ \A j \in 1 .. Len(pending) : q[j] = pending[j]
      /\ q[Len(pending) + 1] = h
  OBVIOUS
<1> HIDE DEF q
<1>2. \A j \in DOMAIN q : j = Len(pending) + 1 \/ j \in DOMAIN pending
  BY <1>1
<1>3. IsInjective(q)
  BY <1>1, <1>2 DEF IsInjective
<1>4. \A j \in DOMAIN q : q[j] = h \/ \E i \in DOMAIN pending : pending[i] = q[j]
  BY <1>1, <1>2
<1> QED
  BY <1>1, <1>3, <1>4 DEF q

(* Every variable keeps its type: in particular every row begun belongs to *)
(* a handler that is inserting it, none to two, and the handler the client *)
(* waits for handles what the client asked for.                            *)
THEOREM TypeCorrect == Spec => []TypeOK
<1>1. Init => TypeOK
  <2> SUFFICES ASSUME Init PROVE TypeOK
    OBVIOUS
  <2>1. Idle \in HandlerType
    BY DEF Idle, HandlerType, Statuses
  <2>2. pending \in Seq(Ids) /\ IsInjective(pending) /\ DOMAIN pending = {}
    BY DEF Init, IsInjective
  <2>3. QED
    BY <2>1, <2>2, RunStatusAssumption DEF Init, TypeOK, Statuses, HandlerType, Ids, None
<1>2. TypeOK /\ [Next]_vars => TypeOK'
  <2> SUFFICES ASSUME TypeOK, [Next]_vars PROVE TypeOK'
    OBVIOUS
  <2> USE RunStatusAssumption
  <2>0. /\ latest \in [status : Statuses, old : BOOLEAN]
        /\ pending \in Seq(Ids) /\ IsInjective(pending)
        /\ \A i \in DOMAIN pending : pending[i] \in Ids /\ handler[pending[i]].step = "insert"
        /\ handler \in [Ids -> HandlerType]
        /\ client \in ClientType
        /\ Idle \in HandlerType
        /\ Handlers \subseteq Ids /\ Sweepers \subseteq Ids
    BY DEF TypeOK, Ids, HandlerType, ClientType, Idle, Statuses
  <2>1. CASE Start \/ Leave \/ Break
    <3>1. client' \in ClientType /\ client'.waits = None
      <4>1. CASE Break
        BY <2>0, <4>1 DEF Break, ClientType
      <4>2. CASE Start
        BY <4>2 DEF Start, ClientType
      <4>3. CASE Leave
        BY <4>3 DEF Leave, ClientType
      <4>4. QED
        BY <2>1, <4>1, <4>2, <4>3
    <3>2. sessions' \in 0 .. MaxSessions /\ breaks' \in 0 .. MaxBreaks
      BY <2>1 DEF TypeOK, Start, Leave, Break
    <3>3. UNCHANGED <<latest, pending, handler>>
      BY <2>1 DEF Start, Leave, Break
    <3>4. QED
      BY <3>1, <3>2, <3>3 DEF TypeOK, ClientType
  <2>2. ASSUME NEW h \in Handlers, Send(h)
        PROVE  TypeOK'
    <3>1. Request \in Requests
      BY <2>0, <2>2 DEF Send, Request, Requests, ClientType
    <3>2. handler' \in [Ids -> HandlerType]
      BY <2>0, <2>2, <3>1 DEF Send, HandlerType, ClientType, Idle
    <3>3. \A i \in DOMAIN pending : handler'[pending[i]] = handler[pending[i]]
      BY <2>0, <2>2 DEF Send
    <3>4. client' \in ClientType /\ handler'[client'.waits].op = Request'
      BY <2>0, <2>2 DEF Send, ClientType, Request, Idle
    <3>5. QED
      BY <2>0, <2>2, <3>2, <3>3, <3>4 DEF Send, TypeOK, Ids, HandlerType, ClientType
  <2>3. ASSUME NEW failed \in BOOLEAN, Finish(failed)
        PROVE  TypeOK'
    BY <2>0, <2>3 DEF TypeOK, Finish, None
  <2>4. ASSUME NEW h \in Handlers, Lose(h)
        PROVE  TypeOK'
    <3>1. handler' \in [Ids -> HandlerType]
      BY <2>0, <2>4 DEF Lose
    <3>2. \A i \in DOMAIN pending : handler'[pending[i]] = handler[pending[i]]
      BY <2>0, <2>4 DEF Lose
    <3>3. client.waits # None => handler'[client.waits].op = Request
      BY <2>0, <2>4 DEF Lose, TypeOK
    <3>4. QED
      BY <2>0, <2>4, <3>1, <3>2, <3>3 DEF Lose, TypeOK, Ids, HandlerType, Request
  <2>5. ASSUME NEW h \in Ids, Done(h)
        PROVE  /\ handler' \in [Ids -> HandlerType]
               /\ client' \in ClientType
               /\ client'.waits # None => handler'[client'.waits].op = Request'
    <3>1. handler' \in [Ids -> HandlerType]
      BY <2>0, <2>5 DEF Done
    <3>2. client' \in ClientType /\ (client.waits = h => client'.waits = None)
      BY <2>0, <2>5 DEF Done, Answered, ClientType
    <3>3. client.waits # h => client' = client
      BY <2>5 DEF Done, Answered
    <3>4. ASSUME client.waits # h, client.waits # None
          PROVE  handler'[client'.waits].op = Request'
      <4>1. handler'[client.waits] = handler[client.waits]
        BY <2>0, <2>5, <3>4 DEF Done, ClientType
      <4>2. QED
        BY <4>1, <3>3, <3>4 DEF TypeOK, Request
    <3>5. QED
      BY <3>1, <3>2, <3>3, <3>4
  <2>6. ASSUME NEW h \in Handlers, Get(h)
        PROVE  TypeOK'
    <3>1. CASE Status \in Settled(h)
      <4>1. Done(h)
        BY <2>6, <3>1 DEF Get
      <4>2. \A i \in DOMAIN pending : handler'[pending[i]] = handler[pending[i]]
        BY <2>0, <2>6, <4>1 DEF Get, Done
      <4>3. QED
        BY <2>0, <2>5, <2>6, <4>1, <4>2 DEF Get, TypeOK, Ids, HandlerType, ClientType
    <3>2. CASE Status \notin Settled(h)
      <4>1. handler' = [handler EXCEPT ![h].step = "select"] /\ client' = client
        BY <2>6, <3>2 DEF Get
      <4>2. handler' \in [Ids -> HandlerType]
        BY <2>0, <4>1 DEF HandlerType
      <4>3. \A i \in DOMAIN pending : handler'[pending[i]] = handler[pending[i]]
        BY <2>0, <2>6, <4>1 DEF Get
      <4>4. client'.waits # None => handler'[client'.waits].op = Request'
        BY <2>0, <4>1 DEF TypeOK, Request, HandlerType, ClientType
      <4>5. QED
        BY <2>0, <2>6, <4>1, <4>2, <4>3, <4>4 DEF Get, TypeOK, Ids, HandlerType, ClientType
    <3>3. QED
      BY <3>1, <3>2
  <2>7. ASSUME NEW h \in Ids, handler[h].step # "insert", pending' = Append(pending, h),
               handler'[h].step = "insert",
               \A j \in Ids : j # h => handler'[j] = handler[j]
        PROVE  /\ pending' \in Seq(Ids) /\ IsInjective(pending')
               /\ \A j \in DOMAIN pending' : handler'[pending'[j]].step = "insert"
    <3>1. \A i \in DOMAIN pending : pending[i] # h
      BY <2>0, <2>7
    <3>2. /\ pending' \in Seq(Ids) /\ IsInjective(pending')
          /\ \A j \in DOMAIN pending' :
                pending'[j] = h \/ \E i \in DOMAIN pending : pending[i] = pending'[j]
      BY <2>0, <2>7, <3>1, AppendRow
    <3>3. QED
      BY <2>0, <2>7, <3>1, <3>2
  <2>8. ASSUME NEW h \in Handlers, Select(h)
        PROVE  TypeOK'
    <3>1. CASE Done(h) /\ UNCHANGED pending
      <4>1. \A i \in DOMAIN pending : handler'[pending[i]] = handler[pending[i]]
        BY <2>0, <2>8, <3>1 DEF Select, Done
      <4>2. QED
        BY <2>0, <2>5, <2>8, <3>1, <4>1 DEF Select, TypeOK, Ids, HandlerType, ClientType
    <3>2. CASE /\ handler' = [handler EXCEPT ![h].step = "insert", ![h].status = NewStatus(h)]
               /\ pending' = Append(pending, h)
               /\ UNCHANGED client
      <4>1. NewStatus(h) \in Statuses
        BY DEF NewStatus, Outcome, Statuses
      <4>2. handler' \in [Ids -> HandlerType]
        BY <2>0, <3>2, <4>1, ZenonT(40) DEF HandlerType
      <4>3. handler'[h].step = "insert" /\ \A j \in Ids : j # h => handler'[j] = handler[j]
        BY <2>0, <3>2 DEF HandlerType
      <4>4. handler'[h].op = handler[h].op
        BY <2>0, <3>2 DEF HandlerType
      <4>5. client'.waits # None => handler'[client'.waits].op = Request'
        BY <2>0, <3>2, <4>3, <4>4 DEF TypeOK, Request, ClientType
      <4>6. /\ pending' \in Seq(Ids) /\ IsInjective(pending')
            /\ \A j \in DOMAIN pending' : handler'[pending'[j]].step = "insert"
        BY <2>0, <2>7, <2>8, <3>2, <4>3 DEF Select
      <4>7. QED
        BY <2>0, <2>8, <3>2, <4>2, <4>5, <4>6 DEF Select, TypeOK, Ids, HandlerType, ClientType
    <3>3. QED
      BY <2>8, <3>1, <3>2 DEF Select
  <2>9. ASSUME NEW h \in Ids, Insert(h)
        PROVE  TypeOK'
    <3>1. CASE h \in ToSet(pending)
      <4>1. /\ pending' \in Seq(Ids) /\ IsInjective(pending')
            /\ \A j \in DOMAIN pending' :
                  /\ pending'[j] # h
                  /\ \E i \in DOMAIN pending : pending[i] = pending'[j]
        BY <2>0, <2>9, <3>1, AfterRow DEF Insert
      <4>2. \A j \in DOMAIN pending' : handler'[pending'[j]].step = "insert"
        BY <2>0, <2>9, <4>1 DEF Insert, Done
      <4>3. latest' \in [status : Statuses, old : BOOLEAN]
        BY <2>0, <2>9, <3>1 DEF Insert, HandlerType
      <4>4. QED
        BY <2>0, <2>5, <2>9, <4>1, <4>2, <4>3 DEF Insert, TypeOK, Ids, HandlerType, ClientType
    <3>2. CASE h \notin ToSet(pending)
      <4>1. \A i \in DOMAIN pending : handler'[pending[i]] = handler[pending[i]]
        BY <2>0, <2>9, <3>2 DEF Insert, Done, ToSet
      <4>2. QED
        BY <2>0, <2>5, <2>9, <3>2, <4>1 DEF Insert, TypeOK, Ids, HandlerType, ClientType
    <3>3. QED
      BY <3>1, <3>2
  <2>10. ASSUME NEW s \in Sweepers, Sweep(s)
         PROVE  TypeOK'
    <3>1. handler' \in [Ids -> HandlerType]
      BY <2>0, <2>10 DEF Sweep, HandlerType, Idle, Statuses
    <3>2. handler'[s].step = "insert" /\ \A j \in Ids : j # s => handler'[j] = handler[j]
      BY <2>0, <2>10 DEF Sweep, Idle
    <3>3. /\ pending' \in Seq(Ids) /\ IsInjective(pending')
          /\ \A j \in DOMAIN pending' : handler'[pending'[j]].step = "insert"
      BY <2>0, <2>7, <2>10, <3>2 DEF Sweep
    <3>4. client.waits # None => client.waits \in Ids /\ client.waits # s
      BY <2>0 DEF ClientType
    <3>5. QED
      BY <2>0, <2>10, <3>1, <3>2, <3>3, <3>4 DEF Sweep, TypeOK, Ids, HandlerType, Request
  <2>11. CASE Tick
    <3>1. handler' \in [Ids -> HandlerType]
      BY <2>0, <2>11, ZenonT(40) DEF Tick, HandlerType
    <3>2. \A h \in Ids : handler'[h].step = handler[h].step /\ handler'[h].op = handler[h].op
      BY <2>0, <2>11 DEF Tick, HandlerType
    <3>3. QED
      <4>1. latest' \in [status : Statuses, old : BOOLEAN]
        BY <2>0, <2>11 DEF Tick
      <4>2. UNCHANGED <<pending, client, sessions, breaks>>
        BY <2>11 DEF Tick
      <4>3. \A i \in DOMAIN pending : handler'[pending[i]].step = "insert"
        BY <2>0, <3>2
      <4>4. client.waits # None => handler'[client.waits].op = Request
        BY <2>0, <3>2 DEF TypeOK, ClientType
      <4>5. QED
        BY <3>1, <4>1, <4>2, <4>3, <4>4 DEF TypeOK, Ids, HandlerType, Request
  <2>12. CASE Cancel
    <3>1. pending' \in Seq(Ids) /\ IsInjective(pending') /\ DOMAIN pending' = {}
      BY <2>12 DEF Cancel, IsInjective
    <3>2. QED
      BY <2>0, <2>12, <3>1 DEF Cancel, TypeOK, Statuses, Ids, HandlerType, Request
  <2>13. CASE UNCHANGED vars
    BY <2>13 DEF vars, TypeOK, Request
  <2>14. QED
    BY <2>1, <2>2, <2>3, <2>4, <2>6, <2>8, <2>9, <2>10, <2>11, <2>12, <2>13
    DEF Next, SendAny, Handle, Ids
<1>3. QED
  BY <1>1, <1>2, PTL DEF Spec

(* Nobody is about to write "cancelled".  The rows begun before a cancel   *)
(* are overtaken by it; those begun while it stands are of init and end.   *)
RowsInv ==
    /\ \A h \in Ids : handler[h].step = "insert" => handler[h].status # "cancelled"
    /\ \A h \in Handlers : handler[h].step # "free" => handler[h].op \in Requests
    /\ \A s \in Sweepers : handler[s].op \notin Requests
    /\ Status = "cancelled" =>
         \A i \in DOMAIN pending : handler[pending[i]].op \in {"init", "end"}

(* A cancelled run stays cancelled until an init or an end writes its row, *)
(* whatever heartbeats and sweeps read before, for any number of requests, *)
(* replicas and sessions.                                                  *)
THEOREM CancelHolds == Spec => CancelOutlivesHeartbeats
<1>1. Init => RowsInv
  BY DEF Init, RowsInv, Idle, Status, Requests, Ids
<1>2. TypeOK /\ RowsInv /\ [Next]_vars => RowsInv'
  <2> SUFFICES ASSUME TypeOK, RowsInv, [Next]_vars PROVE RowsInv'
    OBVIOUS
  <2> USE RunStatusAssumption
  <2>0. /\ pending \in Seq(Ids) /\ IsInjective(pending)
        /\ \A i \in DOMAIN pending : pending[i] \in Ids /\ handler[pending[i]].step = "insert"
        /\ handler \in [Ids -> HandlerType]
        /\ Handlers \subseteq Ids /\ Sweepers \subseteq Ids
        /\ \A h \in Handlers : h \notin Sweepers
    BY DEF TypeOK, Ids, HandlerType
  <2>1. CASE UNCHANGED <<latest, pending, handler>>
    BY <2>1 DEF RowsInv, Status
  <2>2. ASSUME NEW h \in Handlers,
               UNCHANGED <<latest, pending>>, handler[h].step # "insert",
               handler'[h].step # "insert",
               handler'[h].step # "free" => handler'[h].op \in Requests,
               \A j \in Ids : j # h => handler'[j] = handler[j]
        PROVE  RowsInv'
    <3>1. \A i \in DOMAIN pending : handler'[pending[i]] = handler[pending[i]]
      BY <2>0, <2>2
    <3>2. QED
      BY <2>0, <2>2, <3>1 DEF RowsInv, Status
  <2>3. ASSUME NEW h \in Handlers, Send(h)
        PROVE  RowsInv'
    <3>1. Request \in Requests
      BY <2>3 DEF Send, TypeOK, Request, Requests
    <3>2. QED
      BY <2>0, <2>2, <2>3, <3>1 DEF Send, Idle
  <2>4. ASSUME NEW h \in Handlers, Lose(h)
        PROVE  RowsInv'
    BY <2>0, <2>2, <2>4 DEF Lose, Idle
  <2>5. ASSUME NEW h \in Handlers, Get(h)
        PROVE  RowsInv'
    <3>1. handler[h].op \in Requests
      BY <2>5 DEF Get, RowsInv
    <3>2. QED
      BY <2>0, <2>2, <2>5, <3>1, SMTT(30) DEF Get, Done, Idle, HandlerType
  <2>6. ASSUME NEW h \in Handlers, Select(h)
        PROVE  RowsInv'
    <3>1. CASE Done(h) /\ UNCHANGED pending
      BY <2>0, <2>2, <2>6, <3>1 DEF Select, Done, Idle
    <3>2. CASE /\ handler' = [handler EXCEPT ![h].step = "insert", ![h].status = NewStatus(h)]
               /\ pending' = Append(pending, h)
               /\ ~(handler[h].op = "heartbeat" /\ ~Revivable)
      <4>1. /\ handler'[h].status = NewStatus(h) /\ handler'[h].op = handler[h].op
            /\ \A j \in Ids : j # h => handler'[j] = handler[j]
        BY <2>0, <3>2 DEF HandlerType
      <4>2. NewStatus(h) # "cancelled"
        BY DEF NewStatus, Outcome
      <4>3. Status = "cancelled" => handler[h].op # "heartbeat"
        BY <3>2 DEF Revivable
      <4>4. handler[h].step = "select" /\ UNCHANGED latest
        BY <2>6 DEF Select
      <4>5. QED
        <5>1. /\ \A j \in Ids : handler'[j].step = "insert" => handler'[j].status # "cancelled"
              /\ \A j \in Handlers : handler'[j].step # "free" => handler'[j].op \in Requests
              /\ \A s \in Sweepers : handler'[s].op \notin Requests
          BY <2>0, <2>6, <4>1, <4>2, <4>4 DEF RowsInv
        <5>2. \A i \in DOMAIN pending : pending[i] # h /\ handler'[pending[i]] = handler[pending[i]]
          BY <2>0, <2>6, <4>1, <4>4
        <5>3. \A j \in DOMAIN pending' :
                 pending'[j] = h \/ \E i \in DOMAIN pending : pending[i] = pending'[j]
          BY <2>0, <2>6, <3>2, <5>2, AppendRow
        <5>4. Status = "cancelled" => handler[h].op \in {"init", "end"}
          BY <4>3, <4>4 DEF RowsInv, Requests
        <5>5. QED
          BY <2>0, <4>1, <4>4, <5>1, <5>2, <5>3, <5>4 DEF RowsInv, Status
    <3>3. QED
      BY <2>6, <3>1, <3>2 DEF Select
  <2>7. ASSUME NEW h \in Ids, Insert(h)
        PROVE  RowsInv'
    <3>1. /\ handler[h].step = "insert" /\ handler'[h] = Idle
          /\ \A j \in Ids : j # h => handler'[j] = handler[j]
      BY <2>0, <2>7 DEF Insert, Done
    <3>2. /\ \A j \in Ids : handler'[j].step = "insert" => handler'[j].status # "cancelled"
          /\ \A j \in Handlers : handler'[j].step # "free" => handler'[j].op \in Requests
          /\ \A s \in Sweepers : handler'[s].op \notin Requests
      BY <2>0, <3>1 DEF RowsInv, Idle, Requests
    <3>3. CASE h \in ToSet(pending)
      <4>1. Status' # "cancelled"
        BY <2>7, <3>1, <3>3 DEF Insert, RowsInv, Status
      <4>2. QED
        BY <3>2, <4>1 DEF RowsInv
    <3>4. CASE h \notin ToSet(pending)
      <4>1. \A i \in DOMAIN pending : handler'[pending[i]] = handler[pending[i]]
        BY <2>0, <3>1, <3>4 DEF ToSet
      <4>2. QED
        BY <2>7, <3>2, <3>4, <4>1 DEF Insert, RowsInv, Status
    <3>5. QED
      BY <3>3, <3>4
  <2>8. ASSUME NEW s \in Sweepers, Sweep(s)
        PROVE  RowsInv'
    <3>1. Status' = "running"
      BY <2>8 DEF Sweep, Silent, Status
    <3>2. /\ handler'[s].op = "sweep" /\ handler'[s].status = "failed"
          /\ \A j \in Ids : j # s => handler'[j] = handler[j]
      BY <2>0, <2>8 DEF Sweep, Idle
    <3>3. QED
      BY <2>0, <3>1, <3>2 DEF RowsInv, Requests
  <2>9. CASE Tick
    <3>1. \A h \in Ids : /\ handler'[h].step = handler[h].step
                         /\ handler'[h].op = handler[h].op
                         /\ handler'[h].status = handler[h].status
      BY <2>0, <2>9 DEF Tick, HandlerType
    <3>2. Status' = Status
      BY <2>9 DEF Tick, TypeOK, Status
    <3>3. QED
      BY <2>0, <2>9, <3>1, <3>2 DEF Tick, RowsInv
  <2>10. CASE Cancel
    BY <2>10 DEF Cancel, RowsInv
  <2>11. QED
    BY <2>1, <2>3, <2>4, <2>5, <2>6, <2>7, <2>8, <2>9, <2>10
    DEF Next, SendAny, Handle, Ids, Start, Leave, Break, Finish, vars
<1>3. TypeOK /\ RowsInv /\ [Next]_vars =>
        [Status = "cancelled" /\ Status' # "cancelled" => ByClient("init") \/ ByClient("end")]_vars
  <2> SUFFICES ASSUME TypeOK, RowsInv, Next, Status = "cancelled", Status' # "cancelled"
               PROVE  ByClient("init") \/ ByClient("end")
    BY DEF Status, vars
  <2>1. \A h \in Ids : Insert(h) =>
           h \in Handlers /\ handler[h].op \in {"init", "end"}
    <3> SUFFICES ASSUME NEW h \in Ids, Insert(h)
                 PROVE  h \in Handlers /\ handler[h].op \in {"init", "end"}
      OBVIOUS
    <3>1. h \in ToSet(pending)
      BY DEF Insert, Status
    <3>2. handler[h].op \in {"init", "end"}
      BY <3>1 DEF RowsInv, ToSet
    <3>3. QED
      BY <3>2 DEF RowsInv, Ids, Requests
  <2>2. CASE \E h \in Ids : Insert(h)
    BY <2>1, <2>2 DEF ByClient
  <2>3. CASE UNCHANGED latest
    BY <2>3 DEF Status
  <2>4. CASE Tick
    BY <2>4 DEF Tick, TypeOK, Status
  <2>5. CASE Cancel
    BY <2>5 DEF Cancel
  <2>6. QED
    BY <2>2, <2>3, <2>4, <2>5
    DEF Next, SendAny, Handle, Ids, Start, Leave, Break, Finish, Send, Lose, Get, Select, Sweep
<1>4. QED
  BY <1>1, <1>2, <1>3, TypeCorrect, PTL DEF Spec, CancelOutlivesHeartbeats
=============================================================================
