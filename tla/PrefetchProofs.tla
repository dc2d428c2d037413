--------------------------- MODULE PrefetchProofs ---------------------------
(***************************************************************************)
(* What holds of the prefetcher for every stream length, window, memory    *)
(* budget and choice of batch sizes.                                       *)
(***************************************************************************)
EXTENDS Prefetch, FiniteSetTheorems, TLAPS

(* A batch never reserves more than the budget.                            *)
LEMMA CostBound == \A s : Cost(s) \in Nat /\ Cost(s) <= Memory
BY PrefetchAssumption DEF Cost, Batches

(* Every variable keeps its type; in particular neither semaphore value    *)
(* goes below zero.                                                        *)
THEOREM TypeCorrect == Spec => []TypeOK
<1>1. Init => TypeOK
  <2> SUFFICES ASSUME Init PROVE TypeOK
    OBVIOUS
  <2>1. job \in [batch : Sequences \cup {None}, got : Nat, refused : BOOLEAN]
    BY DEF Init, NoJob
  <2>2. fetch \in [Sequences -> FetchState]
    BY DEF Init, FetchState
  <2>3. cancel \in [Callers -> {"idle", "start", "turn", "units", "credit", "done"}]
    BY DEF Init
  <2>4. memory \in Nat /\ turn \in Nat \cup {Closed} /\ credits \in Nat
    BY PrefetchAssumption DEF Init
  <2>5. active \in BOOLEAN /\ memCancelled \in BOOLEAN /\ cancelled \in BOOLEAN
    BY DEF Init
  <2>6. QED
    BY <2>1, <2>2, <2>3, <2>4, <2>5, PrefetchAssumption DEF Init, TypeOK
<1>2. TypeOK /\ [Next]_vars => TypeOK'
  <2> SUFFICES ASSUME TypeOK, [Next]_vars PROVE TypeOK'
    OBVIOUS
  <2> USE PrefetchAssumption, CostBound DEF TypeOK
  <2>1. CASE Activate
    BY <2>1 DEF Activate
  <2>2. CASE Acquire
    BY <2>2 DEF Acquire
  <2>3. CASE Send
    BY <2>3 DEF Send
  <2>4. CASE Take
    <3>1. fetch' \in [Sequences -> FetchState]
      BY <2>4 DEF Take, SetFetch, FetchState
    <3>2. taken' \in Nat
      BY <2>4 DEF Take
    <3>3. QED
      BY <2>4, <3>1, <3>2 DEF Take
  <2>5. ASSUME NEW s \in Sequences, Fetching(s)
        PROVE  TypeOK'
    <3>1. CASE Respond(s)
      BY <3>1 DEF Respond, SetFetch, FetchState
    <3>2. CASE Reject(s)
      BY <3>2 DEF Reject, SetFetch, FetchState
    <3>3. CASE TakeTurn(s)
      BY <3>3 DEF TakeTurn, SetFetch, FetchState
    <3>4. CASE RefuseTurn(s)
      BY <3>4 DEF RefuseTurn, SetFetch, FetchState
    <3>5. CASE ReadBody(s)
      BY <3>5 DEF ReadBody, SetFetch, FetchState
    <3>6. CASE BreakBody(s)
      BY <3>6 DEF BreakBody, AfterBreak, SetFetch, FetchState
    <3>7. QED
      BY <2>5, <3>1, <3>2, <3>3, <3>4, <3>5, <3>6 DEF Fetching
  <2>6. ASSUME NEW s \in Sequences, Drop(s)
        PROVE  TypeOK'
    BY <2>6 DEF Drop, SetFetch, FetchState
  <2>7. CASE WaitUnit
    <3>1. job' \in [batch : Sequences \cup {None}, got : Nat, refused : BOOLEAN]
      <4>1. [job EXCEPT !.refused = TRUE]
              \in [batch : Sequences \cup {None}, got : Nat, refused : BOOLEAN]
        OBVIOUS
      <4>2. [job EXCEPT !.got = @ + 1]
              \in [batch : Sequences \cup {None}, got : Nat, refused : BOOLEAN]
        OBVIOUS
      <4>3. QED
        BY <2>7, <4>1, <4>2 DEF WaitUnit, JobAfterUnit
    <3>2. memory' \in Nat
      BY <2>7 DEF WaitUnit, UnitFree
    <3>3. QED
      BY <2>7, <3>1, <3>2 DEF WaitUnit
  <2>8. CASE EndJob
    <3>1. job.batch \in Sequences
      BY <2>8 DEF EndJob, JobFinished
    <3>2. turn' \in Nat \cup {Closed}
      BY <2>8, <3>1 DEF EndJob, Sequences
    <3>3. job' \in [batch : Sequences \cup {None}, got : Nat, refused : BOOLEAN]
      BY <2>8 DEF EndJob, NoJob
    <3>4. fetch' \in [Sequences -> FetchState]
      BY <2>8 DEF EndJob, SetFetch, FetchState
    <3>5. QED
      BY <2>8, <3>2, <3>3, <3>4 DEF EndJob
  <2>9. CASE Emit
    <3>1. fetch' \in [Sequences -> FetchState]
      BY <2>9 DEF Emit, SetFetch, FetchState
    <3>2. emitted' \in Nat /\ out' \subseteq Batches
      BY <2>9 DEF Emit
    <3>3. QED
      BY <2>9, <3>1, <3>2 DEF Emit
  <2>10. CASE ReachEnd
    BY <2>10 DEF ReachEnd, SetFetch, FetchState, Callers
  <2>11. CASE Fail \/ Abort \/ Join
    BY <2>11 DEF Fail, Abort, Join, Outcome
  <2>12. CASE CancelDropped \/ Stop
    BY <2>12 DEF CancelDropped, Stop, Callers
  <2>13. ASSUME NEW c \in Callers, Cancelling(c)
         PROVE  TypeOK'
    <3>1. CASE CancelMemory(c)
      BY <3>1 DEF CancelMemory
    <3>2. CASE CloseTurns(c)
      BY <3>2 DEF CloseTurns
    <3>3. CASE PostUnits(c)
      BY <3>3 DEF PostUnits
    <3>4. CASE CancelCredits(c)
      BY <3>4 DEF CancelCredits, WakingCredits
    <3>5. QED
      BY <2>13, <3>1, <3>2, <3>3, <3>4 DEF Cancelling
  <2>14. ASSUME NEW s \in Batches, ReturnMemory(s) \/ ReturnCredit(s)
         PROVE  TypeOK'
    <3>1. CASE ReturnMemory(s)
      <4>1. memory' \in Nat
        BY <3>1 DEF ReturnMemory
      <4>2. QED
        BY <3>1, <4>1 DEF ReturnMemory
    <3>2. CASE ReturnCredit(s)
      BY <3>2 DEF ReturnCredit
    <3>3. QED
      BY <2>14, <3>1, <3>2
  <2>15. CASE Terminated \/ UNCHANGED vars
    BY <2>15 DEF Terminated, vars
  <2>16. QED
    BY <2>1, <2>2, <2>3, <2>4, <2>5, <2>6, <2>7, <2>8, <2>9, <2>10, <2>11, <2>12, <2>13,
       <2>14, <2>15 DEF Next
<1>3. QED
  BY <1>1, <1>2, PTL DEF Spec

-----------------------------------------------------------------------------
(* The credit bound is not inductive by itself: that the request thread may*)
(* send follows from the conservation of credits when it took its credit,  *)
(* which was before any cancel.                                            *)
CreditInv ==
    /\ CreditConservation
    /\ CreditBound
    /\ producer = "send" => sequence - Start < Capacity + returned

(* The actions that touch no credit leave all of CreditInv alone.          *)
LEMMA CreditInvFrame ==
    ASSUME CreditInv,
           UNCHANGED <<active, credits, producer, sequence, cancelled, returned>>
    PROVE  CreditInv'
BY DEF CreditInv, CreditConservation, CreditBound

LEMMA CreditInvStep == TypeOK /\ CreditInv /\ [Next]_vars => CreditInv'
<1> SUFFICES ASSUME TypeOK, CreditInv, [Next]_vars PROVE CreditInv'
  OBVIOUS
<1> USE PrefetchAssumption
<1>1. CASE Activate
  BY <1>1 DEF Activate, TypeOK, CreditInv, CreditConservation, CreditBound
<1>2. CASE Acquire
  BY <1>2 DEF Acquire, TypeOK, CreditInv, CreditConservation, CreditBound
<1>3. CASE Send
  BY <1>3 DEF Send, TypeOK, CreditInv, CreditConservation, CreditBound
<1>4. ASSUME NEW c \in Callers, CancelCredits(c)
      PROVE  CreditInv'
  BY <1>4 DEF CancelCredits, WakingCredits, TypeOK, CreditInv, CreditConservation, CreditBound
<1>5. ASSUME NEW s \in Batches, ReturnCredit(s)
      PROVE  CreditInv'
  BY <1>5 DEF ReturnCredit, TypeOK, CreditInv, CreditConservation, CreditBound
<1>6. ASSUME UNCHANGED <<active, credits, producer, sequence, cancelled, returned>>
      PROVE  CreditInv'
  BY <1>6, CreditInvFrame
<1>7. CASE Take \/ WaitUnit \/ EndJob \/ Emit \/ ReachEnd
  BY <1>6, <1>7 DEF Take, WaitUnit, EndJob, Emit, ReachEnd
<1>8. CASE Fail \/ Abort \/ CancelDropped \/ Join \/ Stop
  BY <1>6, <1>8 DEF Fail, Abort, CancelDropped, Join, Stop
<1>9. ASSUME NEW s \in Sequences, Fetching(s) \/ Drop(s)
      PROVE  CreditInv'
  BY <1>6, <1>9 DEF Fetching, Respond, Reject, TakeTurn, RefuseTurn, ReadBody, BreakBody, Drop
<1>10. ASSUME NEW c \in Callers, CancelMemory(c) \/ CloseTurns(c) \/ PostUnits(c)
       PROVE  CreditInv'
  BY <1>6, <1>10 DEF CancelMemory, CloseTurns, PostUnits
<1>11. ASSUME NEW s \in Batches, ReturnMemory(s)
       PROVE  CreditInv'
  BY <1>6, <1>11 DEF ReturnMemory
<1>12. CASE Terminated \/ UNCHANGED vars
  BY <1>6, <1>12 DEF Terminated, vars
<1>13. QED
  BY <1>1, <1>2, <1>3, <1>4, <1>5, <1>7, <1>8, <1>9, <1>10, <1>11, <1>12
     DEF Next, Cancelling

LEMMA CreditInvariant == Spec => []CreditInv
<1>1. Init => CreditInv
  BY PrefetchAssumption DEF Init, CreditInv, CreditConservation, CreditBound
<1>2. QED
  BY <1>1, CreditInvStep, TypeCorrect, PTL DEF Spec

(* No credit is ever lost or invented, for any number of fetches, readers  *)
(* and cancels.                                                            *)
THEOREM CreditsConserved == Spec => []CreditConservation
<1>1. CreditInv => CreditConservation
  BY DEF CreditInv
<1>2. QED
  BY <1>1, CreditInvariant, PTL

(* At most Capacity batches are ever asked for ahead of the training code, *)
(* also while the stream is being cancelled.                               *)
THEOREM CreditsBoundRequests == Spec => []CreditBound
<1>1. CreditInv => CreditBound
  BY DEF CreditInv
<1>2. QED
  BY <1>1, CreditInvariant, PTL

-----------------------------------------------------------------------------
(* Reservations in batch order.  A batch that is being reserved, and every *)
(* batch before the one whose turn it is, has all its predecessors behind  *)
(* it; a batch not taken from the channel has no state.                    *)
TurnInv ==
    /\ \A s \in Sequences : s >= taken => fetch[s] = "none"
    /\ turn # Closed =>
         \A q \in Sequences : q - Start < turn => fetch[q] \notin Unreserved
    /\ job.batch # None =>
         \A q \in Sequences : q < job.batch => fetch[q] \notin Unreserved
    /\ job.batch # None /\ pump = "running" => fetch[job.batch] = "reserving"
    /\ ReserveInOrder

Held == HasLease \cup {"emitted"}

(* Fetches that move on without reserving or being taken keep it.          *)
LEMMA TurnInvFrame ==
    ASSUME TypeOK, TurnInv,
           taken' = taken, turn' \in {turn, Closed}, job'.batch \in {job.batch, None},
           pump' = "running" => pump = "running",
           \A s \in Sequences :
               /\ fetch'[s] \in Unreserved => fetch[s] \in Unreserved
               /\ fetch'[s] \in Held => fetch[s] \in Held
               /\ fetch[s] = "none" => fetch'[s] = "none"
               /\ job'.batch = s /\ pump' = "running" /\ fetch[s] = "reserving"
                    => fetch'[s] = "reserving"
    PROVE  TurnInv'
<1> USE PrefetchAssumption DEF TypeOK, TurnInv
<1>1. \A s \in Sequences : s >= taken' => fetch'[s] = "none"
  OBVIOUS
<1>2. turn' # Closed =>
        \A q \in Sequences : q - Start < turn' => fetch'[q] \notin Unreserved
  OBVIOUS
<1>3. job'.batch # None =>
        \A q \in Sequences : q < job'.batch => fetch'[q] \notin Unreserved
  OBVIOUS
<1>4. job'.batch # None /\ pump' = "running" => fetch'[job'.batch] = "reserving"
  OBVIOUS
<1>5. ReserveInOrder'
  BY DEF ReserveInOrder, Held, Sequences
<1>6. QED
  BY <1>1, <1>2, <1>3, <1>4, <1>5

LEMMA TurnInvStep == TypeOK /\ TurnInv /\ [Next]_vars => TurnInv'
<1> SUFFICES ASSUME TypeOK, TurnInv, [Next]_vars PROVE TurnInv'
  OBVIOUS
<1> USE PrefetchAssumption
<1>1. ASSUME UNCHANGED <<taken, turn, job, fetch>>, pump' = "running" => pump = "running"
      PROVE  TurnInv'
  BY <1>1, TurnInvFrame
<1>2. CASE Activate \/ Acquire \/ Send
  BY <1>1, <1>2 DEF Activate, Acquire, Send
<1>3. CASE Fail \/ Abort \/ CancelDropped \/ Join \/ Stop
  BY <1>1, <1>3 DEF Fail, Abort, CancelDropped, Join, Outcome, Stop
<1>4. ASSUME NEW c \in Callers, CancelMemory(c) \/ PostUnits(c) \/ CancelCredits(c)
      PROVE  TurnInv'
  BY <1>1, <1>4 DEF CancelMemory, PostUnits, CancelCredits
<1>5. ASSUME NEW c \in Callers, CloseTurns(c)
      PROVE  TurnInv'
  BY <1>5, TurnInvFrame DEF CloseTurns
<1>6. ASSUME NEW s \in Batches, ReturnMemory(s) \/ ReturnCredit(s)
      PROVE  TurnInv'
  BY <1>1, <1>6 DEF ReturnMemory, ReturnCredit
<1>7. CASE Terminated \/ UNCHANGED vars
  BY <1>1, <1>7 DEF Terminated, vars
<1>8. CASE WaitUnit
  <2>1. job'.batch = job.batch
    BY <1>8 DEF WaitUnit, JobAfterUnit, TypeOK
  <2>2. QED
    BY <2>1, <1>8, TurnInvFrame DEF WaitUnit
<1>9. CASE Take
  <2> USE <1>9 DEF Take, TypeOK, TurnInv
  <2>1. \A q \in Sequences : fetch'[q] \in Unreserved <=> fetch[q] \in Unreserved
    BY DEF SetFetch, Unreserved
  <2>2. \A q \in Sequences : fetch'[q] \in Held => fetch[q] \in Held
    BY DEF SetFetch, Held, HasLease
  <2>3. \A q \in Sequences : q >= taken' => fetch'[q] = "none"
    <3>1. \A q \in Sequences : q >= taken' => q >= taken /\ q # taken
      BY DEF Sequences
    <3>2. QED
      BY <3>1 DEF SetFetch
  <2>4. job.batch # None /\ pump = "running" => fetch'[job.batch] = "reserving"
    BY DEF SetFetch
  <2>5. ReserveInOrder'
    BY <2>1, <2>2 DEF ReserveInOrder, Held, Sequences
  <2>6. QED
    BY <2>1, <2>3, <2>4, <2>5
<1>10. CASE Emit \/ ReachEnd
  <2>1. emitted \in Sequences /\ fetch[emitted] = "done"
    BY <1>10 DEF Emit, ReachEnd, Batches, Sequences
  <2>2. /\ taken' = taken /\ turn' = turn /\ job' = job
        /\ fetch' = [fetch EXCEPT ![emitted] = "emitted"]
           \/ fetch' = [fetch EXCEPT ![emitted] = "dropped"]
        /\ pump' = "running" => pump = "running"
    BY <1>10 DEF Emit, ReachEnd, SetFetch
  <2>3. QED
    BY <2>1, <2>2, TurnInvFrame DEF TypeOK, Held, HasLease, Unreserved
<1>11. ASSUME NEW s \in Sequences, Drop(s)
       PROVE  TurnInv'
  <2>1. /\ taken' = taken /\ turn' = turn /\ job' = job
        /\ fetch[s] # "none" /\ fetch' = [fetch EXCEPT ![s] = "dropped"]
        /\ pump' # "running"
    BY <1>11 DEF Drop, SetFetch, Alive, HasLease
  <2>2. QED
    BY <2>1, TurnInvFrame DEF TypeOK, Held, HasLease, Unreserved
<1>12. ASSUME NEW s \in Sequences,
              Respond(s) \/ Reject(s) \/ RefuseTurn(s) \/ ReadBody(s) \/ BreakBody(s)
       PROVE  TurnInv'
  <2>1. taken' = taken /\ turn' = turn /\ job' = job /\ pump' = pump
    BY <1>12 DEF Respond, Reject, RefuseTurn, ReadBody, BreakBody
  <2>2. \A q \in Sequences :
          /\ fetch'[q] \in Unreserved => fetch[q] \in Unreserved
          /\ fetch'[q] \in Held => fetch[q] \in Held
          /\ fetch[q] = "none" => fetch'[q] = "none"
          /\ fetch[q] = "reserving" => fetch'[q] = "reserving"
    BY <1>12 DEF Respond, Reject, RefuseTurn, ReadBody, BreakBody, AfterBreak, SetFetch, TypeOK,
                 Held, HasLease, Unreserved
  <2>3. QED
    BY <2>1, <2>2, TurnInvFrame
<1>13. ASSUME NEW s \in Sequences, TakeTurn(s)
       PROVE  TurnInv'
  <2> USE <1>13 DEF TakeTurn, TypeOK, TurnInv
  <2>1. job'.batch = s /\ turn' = s - Start /\ turn = s - Start /\ taken' = taken
    BY DEF MyTurn
  <2>2. \A q \in Sequences : fetch'[q] \in Unreserved <=> fetch[q] \in Unreserved
    BY DEF SetFetch, Unreserved
  <2>3. \A q \in Sequences : fetch'[q] \in Held => fetch[q] \in Held
    BY DEF SetFetch, Held, HasLease
  <2>4. \A q \in Sequences : q < s => fetch'[q] \notin Unreserved
    BY <2>1, <2>2 DEF Sequences, Closed
  <2>5. ReserveInOrder'
    BY <2>2, <2>3 DEF ReserveInOrder, Held, Sequences
  <2>6. \A q \in Sequences : q >= taken' => fetch'[q] = "none"
    BY DEF SetFetch
  <2>7. \A q \in Sequences : q - Start < turn' => fetch'[q] \notin Unreserved
    BY <2>1, <2>4 DEF Sequences
  <2>8. fetch'[s] = "reserving"
    BY DEF SetFetch
  <2>9. QED
    BY <2>1, <2>4, <2>5, <2>6, <2>7, <2>8
<1>14. CASE EndJob
  <2> DEFINE s == job.batch
  <2>1. s \in Sequences /\ s # None
    BY <1>14 DEF EndJob, JobFinished, TypeOK
  <2>2. job'.batch = None /\ taken' = taken /\ pump' = pump
    BY <1>14 DEF EndJob, NoJob
  <2>3. CASE pump # "running"
    BY <2>2, <2>3, <1>14, TurnInvFrame DEF EndJob
  <2>4. CASE pump = "running" /\ job.refused
    <3>1. fetch[s] = "reserving"
      BY <2>1, <2>4 DEF TurnInv
    <3>2. turn' = turn /\ fetch' = [fetch EXCEPT ![s] = "error"]
      BY <2>4, <1>14 DEF EndJob, SetFetch
    <3>3. QED
      BY <3>1, <3>2, <2>1, <2>2, TurnInvFrame DEF TypeOK, Held, HasLease, Unreserved
  <2>5. CASE pump = "running" /\ ~job.refused
    <3> USE DEF TypeOK, TurnInv
    <3>1. turn' = s - Start + 1 /\ fetch' = [fetch EXCEPT ![s] = "body"]
      BY <2>5, <1>14 DEF EndJob, SetFetch
    <3>2. fetch[s] = "reserving"
      BY <2>1, <2>5
    <3>3. \A q \in Sequences : q <= s => fetch'[q] \notin Unreserved
      BY <3>1, <2>1 DEF Unreserved, Sequences
    <3>4. \A q \in Sequences : q # s => fetch'[q] = fetch[q]
      BY <3>1, <2>1
    <3>5. ReserveInOrder'
      BY <3>3, <3>4, <2>1 DEF ReserveInOrder, Held, Sequences
    <3>6. \A q \in Sequences : q - Start < turn' => fetch'[q] \notin Unreserved
      BY <3>1, <3>3, <2>1 DEF Sequences
    <3>7. \A q \in Sequences : q >= taken' => fetch'[q] = "none"
      BY <3>2, <3>4, <2>1, <2>2
    <3>8. QED
      BY <3>5, <3>6, <3>7, <2>2
  <2>6. QED
    BY <2>3, <2>4, <2>5
<1>15. QED
  BY <1>2, <1>3, <1>4, <1>5, <1>6, <1>7, <1>8, <1>9, <1>10, <1>11, <1>12, <1>13, <1>14
     DEF Next, Cancelling, Fetching

LEMMA TurnInvariant == Spec => []TurnInv
<1>1. Init => TurnInv
  BY PrefetchAssumption DEF Init, TurnInv, NoJob, ReserveInOrder, HasLease, Sequences
<1>2. QED
  BY <1>1, TurnInvStep, TypeCorrect, PTL DEF Spec

(* Memory is reserved strictly in batch order, through retries, broken     *)
(* bodies and a cancel at any point: the batch that must be emitted first  *)
(* never waits for memory that only later batches hold.                    *)
THEOREM ReservationsInOrder == Spec => []ReserveInOrder
<1>1. TurnInv => ReserveInOrder
  BY DEF TurnInv
<1>2. QED
  BY <1>1, TurnInvariant, PTL

-----------------------------------------------------------------------------
(* The prefetcher implements the flow-control window.  What its steps need *)
(* to map to steps of the window: the order of the positions in the stream,*)
(* the batches in the readers' hands, and which threads have ended.        *)
PositionInv ==
    /\ Start <= emitted /\ emitted <= taken /\ taken <= sequence
    /\ emitted <= EndAt
    /\ IsFiniteSet(out) /\ IsFiniteSet(owed) /\ out \cap owed = {}
    /\ out \cup owed \subseteq Start .. emitted - 1
    /\ ReturnsAccounted
    /\ pump \in {"eof", "ended"} => emitted = EndAt
    /\ pump \in {"ended", "failed"} => producer = "done"
    /\ ~active => sequence = Start /\ producer # "send"

(* Steps that touch no position keep it.                                   *)
LEMMA PositionInvFrame ==
    ASSUME PositionInv,
           UNCHANGED <<active, producer, sequence, taken, emitted, out, owed, returned>>,
           pump' = pump \/ pump' = "dropping"
    PROVE  PositionInv'
BY DEF PositionInv, ReturnsAccounted

(* Before the first reader nothing was emitted, so no credit is there but  *)
(* the one a cancel posted.                                                *)
LEMMA NoCreditBeforeActive ==
    TypeOK /\ CreditInv /\ PositionInv /\ ~active /\ ~cancelled => credits = 0
<1> SUFFICES ASSUME TypeOK, CreditInv, PositionInv, ~active, ~cancelled PROVE credits = 0
  OBVIOUS
<1> USE PrefetchAssumption DEF TypeOK, PositionInv
<1>1. emitted = Start /\ out = {} /\ owed = {}
  OBVIOUS
<1>2. returned = 0
  BY <1>1, FS_EmptySet DEF ReturnsAccounted
<1>3. QED
  BY <1>2 DEF CreditInv, CreditConservation

LEMMA PositionInvStep ==
    TypeOK /\ CreditInv /\ TurnInv /\ PositionInv /\ [Next]_vars => PositionInv'
<1> SUFFICES ASSUME TypeOK, CreditInv, TurnInv, PositionInv, [Next]_vars PROVE PositionInv'
  OBVIOUS
<1> USE PrefetchAssumption
<1>1. CASE Activate
  BY <1>1 DEF Activate, PositionInv, ReturnsAccounted
<1>2. CASE Acquire
  <2>1. ~active => producer' # "send"
    BY <1>2, NoCreditBeforeActive DEF Acquire, TypeOK
  <2>2. QED
    BY <1>2, <2>1 DEF Acquire, PositionInv, ReturnsAccounted
<1>3. CASE Send
  BY <1>3 DEF Send, TypeOK, PositionInv, ReturnsAccounted
<1>4. CASE Take
  BY <1>4 DEF Take, TypeOK, PositionInv, ReturnsAccounted
<1>5. CASE Emit
  <2> USE DEF Emit, TypeOK, PositionInv
  <2>1. emitted < taken
    BY <1>5 DEF TurnInv, Sequences, Batches
  <2>2. emitted \notin out \cup owed
    OBVIOUS
  <2>3. IsFiniteSet(out') /\ Cardinality(out') = Cardinality(out) + 1
    BY <1>5, <2>2, FS_AddElement
  <2>4. ReturnsAccounted'
    <3>1. Cardinality(out) \in Nat /\ Cardinality(owed) \in Nat
      BY FS_CardinalityType
    <3>2. owed' = owed /\ returned' = returned /\ emitted' = emitted + 1
      BY <1>5
    <3>3. QED
      BY <2>3, <3>1, <3>2 DEF ReturnsAccounted
  <2>5. out' \cap owed' = {} /\ out' \cup owed' \subseteq Start .. emitted' - 1
    BY <1>5, <2>2
  <2>6. emitted' <= taken' /\ emitted' <= EndAt /\ Start <= emitted'
    BY <1>5, <2>1 DEF Batches
  <2>7. QED
    BY <1>5, <2>3, <2>4, <2>5, <2>6
<1>6. CASE ReachEnd
  <2>1. emitted = EndAt
    BY <1>6 DEF ReachEnd, TypeOK, PositionInv, Sequences, Batches
  <2>2. QED
    BY <1>6, <2>1 DEF ReachEnd, PositionInv, ReturnsAccounted
<1>7. CASE Join
  BY <1>7 DEF Join, Outcome, PositionInv, ReturnsAccounted
<1>8. ASSUME NEW s \in Batches, ReturnMemory(s)
      PROVE  PositionInv'
  <2> USE DEF ReturnMemory, TypeOK, PositionInv
  <2>1. IsFiniteSet(out') /\ Cardinality(out') = Cardinality(out) - 1
    BY <1>8, FS_RemoveElement
  <2>2. IsFiniteSet(owed') /\ Cardinality(owed') = Cardinality(owed) + 1
    BY <1>8, FS_AddElement
  <2>3. ReturnsAccounted'
    BY <1>8, <2>1, <2>2, FS_CardinalityType, SMTT(30) DEF ReturnsAccounted
  <2>4. out' \cap owed' = {} /\ out' \cup owed' \subseteq Start .. emitted' - 1
    BY <1>8
  <2>5. QED
    BY <1>8, <2>1, <2>2, <2>3, <2>4
<1>9. ASSUME NEW s \in Batches, ReturnCredit(s)
      PROVE  PositionInv'
  <2> USE DEF ReturnCredit, TypeOK, PositionInv
  <2>1. IsFiniteSet(owed') /\ Cardinality(owed') = Cardinality(owed) - 1
    BY <1>9, FS_RemoveElement
  <2>2. ReturnsAccounted'
    <3>1. Cardinality(out) \in Nat /\ Cardinality(owed) \in Nat
      BY FS_CardinalityType
    <3>2. out' = out /\ returned' = returned + 1 /\ emitted' = emitted
      BY <1>9
    <3>3. QED
      BY <2>1, <3>1, <3>2 DEF ReturnsAccounted
  <2>3. out' \cap owed' = {} /\ out' \cup owed' \subseteq Start .. emitted' - 1
    BY <1>9
  <2>4. QED
    BY <1>9, <2>1, <2>2, <2>3
<1>10. CASE WaitUnit \/ EndJob \/ Fail \/ Abort \/ CancelDropped \/ Stop
  BY <1>10, PositionInvFrame DEF WaitUnit, EndJob, Fail, Abort, CancelDropped, Stop
<1>11. ASSUME NEW s \in Sequences, Fetching(s) \/ Drop(s)
       PROVE  PositionInv'
  BY <1>11, PositionInvFrame
     DEF Fetching, Respond, Reject, TakeTurn, RefuseTurn, ReadBody, BreakBody, Drop
<1>12. ASSUME NEW c \in Callers, Cancelling(c)
       PROVE  PositionInv'
  BY <1>12, PositionInvFrame DEF Cancelling, CancelMemory, CloseTurns, PostUnits, CancelCredits
<1>13. CASE Terminated \/ UNCHANGED vars
  BY <1>13, PositionInvFrame DEF Terminated, vars
<1>14. QED
  BY <1>1, <1>2, <1>3, <1>4, <1>5, <1>6, <1>7, <1>8, <1>9, <1>10, <1>11, <1>12, <1>13
     DEF Next

LEMMA PositionInvariant == Spec => []PositionInv
<1>1. Init => PositionInv
  BY PrefetchAssumption, FS_EmptySet DEF Init, PositionInv, ReturnsAccounted
<1>2. QED
  BY <1>1, PositionInvStep, TypeCorrect, CreditInvariant, TurnInvariant, PTL DEF Spec

(* The readers give back each emitted batch exactly once.                  *)
THEOREM ReturnsAreAccounted == Spec => []ReturnsAccounted
<1>1. PositionInv => ReturnsAccounted
  BY DEF PositionInv
<1>2. QED
  BY <1>1, PositionInvariant, PTL

(* Every behaviour of the prefetcher, with whatever errors, retries and    *)
(* cancels, is one of the window: no more than Capacity batches between    *)
(* the server and the training code, batches in order, End once and last.  *)
THEOREM PrefetchImplementsWindow == Spec => ImplementsWindow
<1> USE PrefetchAssumption DEF Window!vars
<1>1. Init => Window!Init
  BY DEF Init, Window!Init
<1>2. ASSUME TypeOK, CreditInv, TurnInv, PositionInv, [Next]_vars
      PROVE  [Window!Next]_(Window!vars)
  <2> USE <1>2 DEF TypeOK, PositionInv
  <2>1. ASSUME UNCHANGED <<active, sequence, emitted, returned, pump>>
        PROVE  UNCHANGED Window!vars
    BY <2>1
  <2>2. CASE Activate
    BY <2>2 DEF Activate, Window!Next, Window!Activate
  <2>3. CASE Send
    <3>1. CASE pump = "dropping"
      BY <2>1, <2>3, <3>1 DEF Send
    <3>2. CASE pump # "dropping"
      <4>1. active /\ pump # "ended" /\ sequence - Start - returned < Capacity
        BY <2>3 DEF Send, CreditInv
      <4>2. QED
        BY <2>3, <3>2, <4>1 DEF Send, Window!Next, Window!Request
    <3>3. QED
      BY <3>1, <3>2
  <2>4. CASE Emit
    <3>1. emitted + 1 <= sequence /\ emitted < EndAt
      BY <2>4 DEF Emit, TurnInv, Sequences, Batches
    <3>2. QED
      BY <2>4, <3>1 DEF Emit, Window!Next, Window!Emit
  <2>5. CASE ReachEnd
    BY <2>5 DEF ReachEnd
  <2>6. CASE Fail \/ Abort
    BY <2>6 DEF Fail, Abort, Window!Next, Window!Stop
  <2>7. CASE Join
    BY <2>7 DEF Join, Outcome, Window!Next, Window!End
  <2>8. ASSUME NEW s \in Batches, ReturnCredit(s)
        PROVE  Window!Return
    <3>1. Cardinality(owed) \in Nat /\ Cardinality(owed) # 0 /\ Cardinality(out) \in Nat
      BY <2>8, FS_EmptySet, FS_CardinalityType DEF ReturnCredit
    <3>2. returned < emitted - Start
      BY <3>1 DEF ReturnsAccounted
    <3>3. QED
      BY <2>8, <3>2 DEF ReturnCredit, Window!Return
  <2>9. CASE Acquire \/ Take \/ WaitUnit \/ EndJob \/ CancelDropped \/ Stop
    BY <2>1, <2>9 DEF Acquire, Take, WaitUnit, EndJob, CancelDropped, Stop
  <2>10. ASSUME NEW s \in Sequences, Fetching(s) \/ Drop(s)
         PROVE  UNCHANGED Window!vars
    BY <2>1, <2>10
       DEF Fetching, Respond, Reject, TakeTurn, RefuseTurn, ReadBody, BreakBody, Drop
  <2>11. ASSUME NEW c \in Callers, Cancelling(c)
         PROVE  UNCHANGED Window!vars
    BY <2>1, <2>11 DEF Cancelling, CancelMemory, CloseTurns, PostUnits, CancelCredits
  <2>12. ASSUME NEW s \in Batches, ReturnMemory(s)
         PROVE  UNCHANGED Window!vars
    BY <2>1, <2>12 DEF ReturnMemory
  <2>13. CASE Terminated \/ UNCHANGED vars
    BY <2>1, <2>13 DEF Terminated, vars
  <2>14. QED
    BY <2>2, <2>3, <2>4, <2>5, <2>6, <2>7, <2>8, <2>9, <2>10, <2>11, <2>12, <2>13
       DEF Next, Window!Next
<1>3. QED
  BY <1>1, <1>2, TypeCorrect, CreditInvariant, TurnInvariant, PositionInvariant, PTL
     DEF Spec, ImplementsWindow, Window!Spec

-----------------------------------------------------------------------------
(* The memory of the stream.  A unit is in the semaphore, with a batch that*)
(* holds its memory, or with the thread that gathers units for the next.   *)

LEMMA UnitsOfOne ==
    ASSUME NEW s
    PROVE  IsFiniteSet({s} \X (1 .. Cost(s))) /\ Cardinality({s} \X (1 .. Cost(s))) = Cost(s)
<1>1. Cost(s) \in Nat
  BY CostBound
<1>2. IsFiniteSet({s}) /\ Cardinality({s}) = 1
  BY FS_Singleton
<1>3. IsFiniteSet(1 .. Cost(s)) /\ Cardinality(1 .. Cost(s)) = Cost(s)
  BY <1>1, FS_Interval
<1>4. /\ IsFiniteSet({s} \X (1 .. Cost(s)))
      /\ Cardinality({s} \X (1 .. Cost(s))) = Cardinality({s}) * Cardinality(1 .. Cost(s))
  BY <1>2, <1>3, FS_Product
<1>5. QED
  BY <1>1, <1>2, <1>3, <1>4

LEMMA UnitsAdd ==
    ASSUME NEW S, IsFiniteSet(Units(S)), NEW s, s \notin S
    PROVE  /\ IsFiniteSet(Units(S \cup {s}))
           /\ Cardinality(Units(S \cup {s})) = Cardinality(Units(S)) + Cost(s)
<1> DEFINE U == {s} \X (1 .. Cost(s))
<1>1. IsFiniteSet(U) /\ Cardinality(U) = Cost(s)
  BY UnitsOfOne
<1>2. Units(S \cup {s}) = Units(S) \cup U /\ Units(S) \cap U = {}
  BY DEF Units
<1> HIDE DEF U
<1>3. Cost(s) \in Nat /\ Cardinality(Units(S)) \in Nat /\ Cardinality({}) = 0
  BY CostBound, FS_CardinalityType, FS_EmptySet
<1>4. /\ IsFiniteSet(Units(S) \cup U)
      /\ Cardinality(Units(S) \cup U)
           = Cardinality(Units(S)) + Cardinality(U) - Cardinality(Units(S) \cap U)
  BY <1>1, FS_Union
<1>5. Cardinality(Units(S) \cap U) = 0
  BY <1>2, <1>3
<1>6. Cardinality(Units(S) \cup U) = Cardinality(Units(S)) + Cost(s)
  BY <1>1, <1>3, <1>4, <1>5
<1>7. QED
  BY <1>2, <1>4, <1>6

LEMMA UnitsRemove ==
    ASSUME NEW S, IsFiniteSet(Units(S)), NEW s \in S
    PROVE  /\ IsFiniteSet(Units(S \ {s}))
           /\ Cardinality(Units(S \ {s})) = Cardinality(Units(S)) - Cost(s)
<1>1. IsFiniteSet(Units(S \ {s}))
  <2>1. Units(S \ {s}) \subseteq Units(S)
    BY DEF Units
  <2>2. QED
    BY <2>1, FS_Subset
<1>2. (S \ {s}) \cup {s} = S
  OBVIOUS
<1>3. Cardinality(Units(S)) = Cardinality(Units(S \ {s})) + Cost(s)
  BY <1>1, <1>2, UnitsAdd
<1>4. Cost(s) \in Nat /\ Cardinality(Units(S \ {s})) \in Nat
  BY <1>1, CostBound, FS_CardinalityType
<1>5. QED
  BY <1>1, <1>3, <1>4

(* The bound also needs that only a cancel posts units nobody gave back,   *)
(* after which the thread takes none for a batch; that one batch at a time *)
(* is reserved; and that what was emitted no longer belongs to its fetch.  *)
MemoryInv ==
    /\ IsFiniteSet(Units(Reserved))
    /\ InHand <= Memory
    /\ ~memCancelled => memory + InHand <= Memory
    /\ MemoryConserved
    /\ job.batch = None => job = NoJob
    /\ job.refused => memCancelled
    /\ \A c \in Callers : cancel[c] \in {"turn", "units"} => memCancelled
    /\ \A s \in out : fetch[s] = "emitted"

(* Steps that move no unit keep it.                                        *)
LEMMA MemoryInvFrame ==
    ASSUME MemoryInv, Reserved' = Reserved, UNCHANGED <<memory, job>>,
           memCancelled => memCancelled', pump' = "running" => pump = "running",
           \A c \in Callers : cancel'[c] \in {"turn", "units"}
                                => cancel[c] \in {"turn", "units"} \/ memCancelled',
           \A s \in out' : fetch'[s] = "emitted"
    PROVE  MemoryInv'
BY DEF MemoryInv, MemoryConserved, InHand

(* A batch gives its units back.                                           *)
LEMMA MemoryInvBack ==
    ASSUME TypeOK, MemoryInv, NEW s \in Reserved, Reserved' = Reserved \ {s},
           memory' = memory + Cost(s), UNCHANGED <<job, memCancelled, cancel, pump>>,
           \A q \in out' : fetch'[q] = "emitted"
    PROVE  MemoryInv'
<1>1. /\ IsFiniteSet(Units(Reserved'))
      /\ Cardinality(Units(Reserved')) = Cardinality(Units(Reserved)) - Cost(s)
  BY UnitsRemove DEF MemoryInv
<1>2. /\ Cost(s) \in Nat /\ memory \in Nat /\ job.got \in Nat /\ Memory \in Nat
      /\ Cardinality(Units(Reserved)) \in Nat
  BY CostBound, FS_CardinalityType, PrefetchAssumption DEF TypeOK, MemoryInv
<1>3. InHand' = InHand - Cost(s) /\ InHand \in Nat
  BY <1>1, <1>2 DEF InHand
<1>4. InHand' <= Memory /\ (~memCancelled' => memory' + InHand' <= Memory)
  BY <1>2, <1>3 DEF MemoryInv
<1>5. MemoryConserved'
  <2>1. SUFFICES ASSUME pump = "running", ~memCancelled
                 PROVE  memory' + InHand' = Memory
    BY DEF MemoryConserved, InHand
  <2>2. memory + InHand = Memory
    BY <1>2, <2>1 DEF MemoryInv, MemoryConserved, InHand
  <2>3. QED
    BY <1>2, <1>3, <2>2
<1>6. IsFiniteSet(Units(Reserved))'
  BY <1>1
<1>7. QED
  BY <1>4, <1>5, <1>6 DEF MemoryInv

LEMMA MemoryInvStep ==
    TypeOK /\ TurnInv /\ MemoryInv /\ [Next]_vars => MemoryInv'
<1> SUFFICES ASSUME TypeOK, TurnInv, MemoryInv, [Next]_vars PROVE MemoryInv'
  OBVIOUS
<1> USE PrefetchAssumption
<1>1. /\ memory \in Nat /\ job.got \in Nat /\ Memory \in Nat
      /\ Cardinality(Units(Reserved)) \in Nat /\ InHand \in Nat
  BY FS_CardinalityType DEF TypeOK, MemoryInv, InHand
<1>2. ASSUME UNCHANGED <<fetch, out, memory, job, memCancelled, cancel>>,
             pump' = "running" => pump = "running"
      PROVE  MemoryInv'
  BY <1>2, MemoryInvFrame DEF Reserved, MemoryInv
<1>3. CASE Activate \/ Acquire \/ Send \/ Fail \/ Abort \/ Join
  BY <1>2, <1>3 DEF Activate, Acquire, Send, Fail, Abort, Join, Outcome
<1>4. ASSUME NEW s \in Batches, ReturnCredit(s)
      PROVE  MemoryInv'
  BY <1>2, <1>4 DEF ReturnCredit
<1>5. CASE Terminated \/ UNCHANGED vars
  BY <1>2, <1>5 DEF Terminated, vars
<1>6. ASSUME UNCHANGED <<fetch, out, memory, job, pump>>, memCancelled => memCancelled',
             NEW c \in Callers, NEW to, cancel' = [cancel EXCEPT ![c] = to],
             to \in {"turn", "units"} => memCancelled'
      PROVE  MemoryInv'
  BY <1>6, MemoryInvFrame DEF Reserved, MemoryInv, TypeOK
<1>7. CASE CancelDropped \/ Stop
  BY <1>6, <1>7 DEF CancelDropped, Stop, Callers
<1>8. ASSUME NEW c \in Callers, CancelMemory(c) \/ CloseTurns(c) \/ CancelCredits(c)
      PROVE  MemoryInv'
  BY <1>6, <1>8 DEF CancelMemory, CloseTurns, CancelCredits, MemoryInv
<1>9. ASSUME NEW c \in Callers, PostUnits(c)
      PROVE  MemoryInv'
  <2>1. memCancelled /\ memCancelled'
    BY <1>9 DEF PostUnits, MemoryInv
  <2>2. Reserved' = Reserved /\ UNCHANGED <<fetch, out, job, pump>>
    BY <1>9 DEF PostUnits, Reserved
  <2>3. QED
    BY <2>1, <2>2, <1>9 DEF MemoryInv, MemoryConserved, InHand
<1>10. ASSUME NEW s \in Sequences, NEW to, fetch' = [fetch EXCEPT ![s] = to],
              to \in HasLease <=> fetch[s] \in HasLease, fetch[s] # "emitted",
              UNCHANGED <<out, memory, job, memCancelled, cancel, pump>>
       PROVE  MemoryInv'
  BY <1>10, MemoryInvFrame DEF Reserved, MemoryInv, TypeOK
<1>11. CASE Take
  <2>1. taken \in Sequences => fetch[taken] = "none"
    BY DEF TurnInv, Sequences
  <2>2. CASE taken \in Sequences
    BY <2>1, <2>2, <1>10, <1>11 DEF Take, SetFetch, HasLease
  <2>3. CASE taken \notin Sequences
    <3>1. fetch' = fetch
      BY <1>11, <2>3 DEF Take, SetFetch, TypeOK
    <3>2. QED
      BY <1>2, <1>11, <3>1 DEF Take
  <2>4. QED
    BY <2>2, <2>3
<1>12. ASSUME NEW s \in Sequences,
              Respond(s) \/ RefuseTurn(s) \/ ReadBody(s) \/ BreakBody(s)
       PROVE  MemoryInv'
  BY <1>10, <1>12 DEF Respond, RefuseTurn, ReadBody, BreakBody, AfterBreak, SetFetch, HasLease
<1>13. ASSUME NEW s \in Sequences, Reject(s)
       PROVE  MemoryInv'
  <2>1. CASE fetch[s] = "sent"
    BY <2>1, <1>10, <1>13 DEF Reject, SetFetch, HasLease
  <2>2. CASE fetch[s] = "again"
    <3>1. s \notin out /\ s \in Reserved
      BY <2>2 DEF MemoryInv, Reserved, HasLease
    <3>2. Reserved' = Reserved \ {s}
      BY <2>2, <3>1, <1>13 DEF Reject, SetFetch, Reserved, HasLease, TypeOK
    <3>3. /\ memory' = memory + Cost(s) /\ UNCHANGED <<job, memCancelled, cancel, pump>>
          /\ \A q \in out' : fetch'[q] = "emitted"
      BY <2>2, <3>1, <1>13 DEF Reject, SetFetch, MemoryInv, TypeOK
    <3>4. QED
      BY <3>1, <3>2, <3>3, MemoryInvBack
  <2>3. QED
    BY <2>1, <2>2, <1>13 DEF Reject
<1>14. ASSUME NEW s \in Sequences, Drop(s)
       PROVE  MemoryInv'
  <2>1. CASE fetch[s] \notin HasLease
    BY <2>1, <1>10, <1>14 DEF Drop, SetFetch, HasLease, Alive
  <2>2. CASE fetch[s] \in HasLease
    <3>1. s \notin out /\ s \in Reserved
      BY <2>2 DEF MemoryInv, Reserved, HasLease
    <3>2. Reserved' = Reserved \ {s}
      BY <2>2, <3>1, <1>14 DEF Drop, SetFetch, Reserved, HasLease, TypeOK
    <3>3. /\ memory' = memory + Cost(s) /\ UNCHANGED <<job, memCancelled, cancel, pump>>
          /\ \A q \in out' : fetch'[q] = "emitted"
      BY <2>2, <3>1, <1>14 DEF Drop, SetFetch, MemoryInv, TypeOK
    <3>4. QED
      BY <3>1, <3>2, <3>3, MemoryInvBack
  <2>3. QED
    BY <2>1, <2>2
<1>15. ASSUME NEW s \in Batches, ReturnMemory(s)
       PROVE  MemoryInv'
  <2>1. s \in Reserved /\ fetch[s] = "emitted"
    BY <1>15 DEF ReturnMemory, Reserved, MemoryInv, Batches, Sequences
  <2>2. Reserved' = Reserved \ {s}
    BY <2>1, <1>15 DEF ReturnMemory, Reserved, HasLease
  <2>3. /\ memory' = memory + Cost(s) /\ UNCHANGED <<job, memCancelled, cancel, pump>>
        /\ \A q \in out' : fetch'[q] = "emitted"
    BY <1>15 DEF ReturnMemory, MemoryInv
  <2>4. QED
    BY <2>1, <2>2, <2>3, MemoryInvBack
<1>16. CASE Emit
  <2>1. emitted \in Sequences /\ fetch[emitted] = "done"
    BY <1>16 DEF Emit, Batches, Sequences
  <2>2. Reserved' = Reserved
    BY <2>1, <1>16 DEF Emit, SetFetch, Reserved, HasLease, TypeOK
  <2>3. \A q \in out' : fetch'[q] = "emitted"
    BY <2>1, <1>16 DEF Emit, SetFetch, MemoryInv, TypeOK
  <2>4. QED
    BY <2>2, <2>3, <1>16, MemoryInvFrame DEF Emit
(* The 204 holds no unit, so its lease is dropped for nothing.             *)
<1>17. CASE ReachEnd
  <2>1. /\ emitted \in Sequences /\ emitted \notin Batches /\ fetch[emitted] = "done"
        /\ emitted \in Reserved /\ emitted \notin out /\ Cost(emitted) = 0
    BY <1>17 DEF ReachEnd, Cost, Reserved, HasLease, MemoryInv
  <2>2. Reserved' = Reserved \ {emitted}
    BY <2>1, <1>17 DEF ReachEnd, SetFetch, Reserved, HasLease, TypeOK
  <2>3. /\ IsFiniteSet(Units(Reserved'))
        /\ Cardinality(Units(Reserved')) = Cardinality(Units(Reserved))
    BY <1>1, <2>1, <2>2, UnitsRemove DEF MemoryInv
  <2>4. InHand' = InHand /\ UNCHANGED <<memory, job, memCancelled, out>> /\ pump' = "eof"
    BY <2>3, <1>17 DEF InHand, ReachEnd
  <2>5. \A q \in out' : fetch'[q] = "emitted"
    BY <2>1, <1>17 DEF ReachEnd, SetFetch, MemoryInv, TypeOK
  <2>6. \A c \in Callers : cancel'[c] \in {"turn", "units"} => cancel[c] \in {"turn", "units"}
    BY <1>17 DEF ReachEnd, TypeOK
  <2>7. IsFiniteSet(Units(Reserved))'
    BY <2>3
  <2>8. QED
    BY <2>4, <2>5, <2>6, <2>7 DEF MemoryInv, MemoryConserved
(* Only one batch reserves at a time.                                      *)
<1>18. ASSUME NEW s \in Sequences, TakeTurn(s)
       PROVE  MemoryInv'
  <2>1. job.batch = None
    <3>1. SUFFICES ASSUME job.batch # None
                   PROVE  FALSE
      OBVIOUS
    <3>2. job.batch \in Sequences /\ fetch[job.batch] = "reserving" /\ fetch[s] = "turn"
      BY <3>1, <1>18 DEF TakeTurn, TypeOK, TurnInv
    <3>3. ~(s < job.batch)
      BY <3>1, <3>2 DEF TurnInv, Unreserved
    <3>4. ~(job.batch - Start < s - Start)
      BY <3>2, <1>18 DEF TakeTurn, MyTurn, TurnInv, Unreserved, Closed, Sequences
    <3>5. QED
      BY <3>2, <3>3, <3>4 DEF Sequences
  <2>2. job.got = 0
    BY <2>1 DEF MemoryInv, NoJob
  <2>3. Reserved' = Reserved
    BY <1>18 DEF TakeTurn, SetFetch, Reserved, HasLease, TypeOK
  <2>4. /\ job' = [batch |-> s, got |-> 0, refused |-> FALSE] /\ s # None
        /\ UNCHANGED <<memory, memCancelled, cancel, pump, out>>
    BY <1>18 DEF TakeTurn, Sequences, None
  <2>5. \A q \in out' : fetch'[q] = "emitted"
    BY <1>18 DEF TakeTurn, SetFetch, MemoryInv, TypeOK
  <2>6. InHand' = InHand
    BY <2>2, <2>3, <2>4 DEF InHand
  <2>7. QED
    BY <2>3, <2>4, <2>5, <2>6 DEF MemoryInv, MemoryConserved, InHand
<1>19. CASE WaitUnit
  <2>1. /\ UNCHANGED <<fetch, out, memCancelled, cancel, pump>> /\ Reserved' = Reserved
        /\ memory' = memory - 1 /\ memory > 0 /\ job' = JobAfterUnit /\ job.batch # None
    BY <1>19 DEF WaitUnit, UnitFree, Reserved
  <2>2. CASE memCancelled
    <3>1. job'.got = job.got /\ job'.batch = job.batch
      BY <2>1, <2>2 DEF JobAfterUnit, TypeOK
    <3>2. InHand' = InHand
      BY <2>1, <3>1 DEF InHand
    <3>3. QED
      BY <2>1, <2>2, <3>1, <3>2 DEF MemoryInv, MemoryConserved
  <2>3. CASE ~memCancelled
    <3>1. job'.got = job.got + 1 /\ job'.batch = job.batch /\ job'.refused = job.refused
      BY <2>1, <2>3 DEF JobAfterUnit, TypeOK
    <3>2. InHand' = InHand + 1
      BY <1>1, <2>1, <3>1 DEF InHand
    <3>3. memory + InHand <= Memory
      BY <2>3 DEF MemoryInv
    <3>4. memory' + InHand' = memory + InHand /\ InHand' <= Memory
      BY <1>1, <2>1, <3>2, <3>3
    <3>5. pump = "running" => memory' + InHand' = Memory
      BY <1>1, <2>3, <3>4 DEF MemoryInv, MemoryConserved, InHand
    <3>6. MemoryConserved'
      BY <1>1, <2>1, <3>1, <3>5 DEF MemoryConserved, InHand
    <3>7. QED
      BY <2>1, <2>3, <3>1, <3>3, <3>4, <3>6 DEF MemoryInv
  <2>4. QED
    BY <2>2, <2>3
<1>20. CASE EndJob
  <2>1. /\ job' = NoJob /\ UNCHANGED <<memory, memCancelled, cancel, pump, out>>
        /\ job.batch \in Sequences /\ job.batch # None
        /\ job.refused \/ job.got = Cost(job.batch)
    BY <1>20 DEF EndJob, JobFinished, TypeOK
  <2>2. ASSUME Reserved' = Reserved, ~(pump = "running" /\ ~memCancelled),
               \A q \in out : fetch'[q] = "emitted"
        PROVE  MemoryInv'
    <3>1. InHand' = InHand - job.got
      BY <1>1, <2>1, <2>2 DEF InHand, NoJob
    <3>2. InHand' <= Memory /\ (~memCancelled => memory + InHand' <= Memory)
      BY <1>1, <3>1 DEF MemoryInv
    <3>3. QED
      BY <2>1, <2>2, <3>2 DEF MemoryInv, MemoryConserved, NoJob
  <2>3. CASE pump # "running"
    <3>1. fetch' = fetch
      BY <2>3, <1>20 DEF EndJob
    <3>2. QED
      BY <2>1, <2>2, <2>3, <3>1 DEF Reserved, MemoryInv
  <2>4. CASE pump = "running" /\ job.refused
    <3>1. fetch[job.batch] = "reserving" /\ fetch' = [fetch EXCEPT ![job.batch] = "error"]
      BY <2>1, <2>4, <1>20 DEF EndJob, SetFetch, TurnInv
    <3>2. memCancelled
      BY <2>4 DEF MemoryInv
    <3>3. Reserved' = Reserved
      BY <2>1, <3>1 DEF Reserved, HasLease, TypeOK
    <3>4. \A q \in out : fetch'[q] = "emitted"
      BY <2>1, <3>1 DEF MemoryInv, TypeOK
    <3>5. QED
      BY <2>2, <3>2, <3>3, <3>4
  <2>5. CASE pump = "running" /\ ~job.refused
    <3>1. fetch[job.batch] = "reserving" /\ fetch' = [fetch EXCEPT ![job.batch] = "body"]
      BY <2>1, <2>5, <1>20 DEF EndJob, SetFetch, TurnInv
    <3>2. Reserved' = Reserved \cup {job.batch} /\ job.batch \notin Reserved
      BY <2>1, <3>1 DEF Reserved, HasLease, TypeOK, MemoryInv
    <3>3. /\ IsFiniteSet(Units(Reserved'))
          /\ Cardinality(Units(Reserved')) = Cardinality(Units(Reserved)) + job.got
      BY <2>1, <2>5, <3>2, UnitsAdd DEF MemoryInv
    <3>4. InHand' = InHand
      BY <1>1, <2>1, <3>3 DEF InHand, NoJob
    <3>5. \A q \in out : fetch'[q] = "emitted"
      BY <2>1, <3>1 DEF MemoryInv, TypeOK
    <3>6. IsFiniteSet(Units(Reserved))'
      BY <3>3
    <3>7. QED
      BY <2>1, <3>4, <3>5, <3>6 DEF MemoryInv, MemoryConserved, InHand, NoJob
  <2>6. QED
    BY <2>3, <2>4, <2>5
<1>21. QED
  BY <1>3, <1>4, <1>5, <1>7, <1>8, <1>9, <1>11, <1>12, <1>13, <1>14, <1>15, <1>16, <1>17,
     <1>18, <1>19, <1>20 DEF Next, Cancelling, Fetching

LEMMA MemoryInvariant == Spec => []MemoryInv
<1>1. ASSUME Init
      PROVE  MemoryInv
  <2>1. Units(Reserved) = {}
    BY <1>1 DEF Init, Reserved, HasLease, Units
  <2>2. InHand = 0 /\ memory = Memory /\ Memory \in Nat
    BY <1>1, <2>1, FS_EmptySet, PrefetchAssumption DEF Init, InHand, NoJob
  <2>3. QED
    BY <1>1, <2>1, <2>2, FS_EmptySet DEF Init, MemoryInv, MemoryConserved, InHand, NoJob
<1>2. QED
  BY <1>1, MemoryInvStep, TypeCorrect, TurnInvariant, PTL DEF Spec

(* However fetches fail, are repeated, dropped or cancelled, the batches   *)
(* between the server and the training code never hold more memory than    *)
(* the budget.                                                             *)
THEOREM MemoryIsBounded == Spec => []MemoryBound
<1>1. MemoryInv => MemoryBound
  BY DEF MemoryInv, MemoryBound, InHand
<1>2. QED
  BY <1>1, MemoryInvariant, PTL

(* No unit of memory is lost while the stream runs, for any sizes of the   *)
(* batches and any number of repeated requests.                            *)
THEOREM MemoryIsConserved == Spec => []MemoryConserved
<1>1. MemoryInv => MemoryConserved
  BY DEF MemoryInv
<1>2. QED
  BY <1>1, MemoryInvariant, PTL
=============================================================================
