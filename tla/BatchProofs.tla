----------------------------- MODULE BatchProofs -----------------------------
(***************************************************************************)
(* The batch service.  First what holds of it for any number of requests,  *)
(* builds, batches, prunings, failures and crashes, and whatever the query *)
(* returns to each build (PlanCache); then what is in a batch, whatever    *)
(* the query returns and the bucket holds (BatchLoad).                     *)
(***************************************************************************)
EXTENDS PlanCache, BatchLoad, SequenceTheorems, FiniteSetTheorems, TLAPS

(***************************************************************************)
(* Which build is served: the inductive invariant                          *)
(***************************************************************************)
BatchKeys == Builds \X Batches
PlanFiles == {"ready", "plan", "index"}
Contents == Builds \cup {None}
RequestType == [at : {"ask", "read", "lock", "check", "wait", "index", "plan", "bcheck",
                      "block", "bwait", "open", "remove", "done"},
                back : {"ask", "check", "wait", "bcheck", "bwait"},
                gen : Contents, index : Contents, plan : Contents,
                batch : Batches \cup {None}]
AnswerType == [kind : {"none", "batch", "end", "error"}, build : Contents,
               batch : Batches \cup {None}]
JobType == [state : {"none", "size", "load"}, build : Contents, pool : 0 .. 2]

(* The types of what plans and batches depend on.                          *)
Typed ==
    /\ files \in [PlanFiles -> Contents] /\ data \in [BatchKeys -> Contents]
    /\ lock \in [Keys -> {"nobody", "job", "prune"} \cup Requests]
    /\ req \in [Requests -> RequestType] /\ served \in [Requests -> AnswerType]
    /\ builder \in {"none", "query", "index", "ready"} /\ built \in Contents
    /\ job \in [BatchKeys -> JobType] /\ pool \in 0 .. 2
    /\ prune \in [group : Keys, state : {"none", "scanned", "remove"},
                  listed : SUBSET Members]
    /\ mixed \in BOOLEAN /\ torn \in BOOLEAN

(* Where a request with these fields is: it holds the plan's lock, it has  *)
(* opened the plan, it has the number of the build its samples come from.  *)
In(q, places) == q.at \in places \/ (q.at = "remove" /\ q.back \in places)
Holds(q) == In(q, {"check"})
HasBatch(q) == In(q, {"bcheck", "bwait"}) \/ q.at \in {"block", "open"}
HasPlan(q) == In(q, {"bcheck"}) \/ q.at = "block"

(* A lock is a job's exactly while there is that job, and pruning's while  *)
(* it removes; a request that looks at the plan under its lock has it.     *)
LocksRight ==
    /\ lock[Plan] = "job" <=> builder # "none"
    /\ \A k \in BatchKeys : lock[k] = "job" <=> job[k].state # "none"
    /\ \A k \in Keys : lock[k] = "prune" <=> prune.state = "remove" /\ prune.group = k
    /\ \A r \in Requests : Holds(req[r]) => lock[Plan] = r

(* While a plan is built there is no "ready", and its files come one after *)
(* the other; what is there beside "ready" is of its build.  Pruning that  *)
(* does not list "ready" (any more) finds none, or else tears the plan.    *)
FilesRight ==
    /\ \A m \in PlanFiles : files[m] <= built
    /\ files["ready"] # None => /\ builder = "none"
                                /\ files["plan"] \in {None, files["ready"]}
                                /\ files["index"] \in {None, files["ready"]}
    /\ builder \in {"index", "ready"} => files["plan"] = built
    /\ builder = "ready" => files["index"] = built
    /\ prune.state = "remove" /\ prune.group = Plan /\ "ready" \notin prune.listed =>
          torn \/ files["ready"] = None

(* A request's generation is no newer than any plan it can find, and what  *)
(* it has read is of that generation unless a plan was replaced.           *)
RequestRight(r, q) ==
    /\ q.gen <= built
    /\ q.gen # None /\ files["plan"] # None => files["plan"] >= q.gen
    /\ q.at \in {"index", "plan"} \/ HasBatch(q) => q.gen # None
    /\ q.at = "plan" => q.index # None
    /\ HasBatch(q) => q.batch # None /\ (mixed \/ q.batch = BatchAt(q.gen, q.gen, Sequence[r]))
    /\ HasPlan(q) => q.plan >= q.gen /\ (mixed \/ q.plan = q.gen)

RequestsRight == \A r \in Requests : RequestRight(r, req[r])

(* The samples under a generation are of that build or a later one, of     *)
(* that build unless a plan was replaced; loads that run share a semaphore.*)
OfBuild(build, k) == build >= k[1] /\ (mixed \/ build = k[1])
BatchesRight ==
    \A k \in BatchKeys : /\ data[k] # None => OfBuild(data[k], k)
                         /\ job[k].state # "none" => OfBuild(job[k].build, k)
                                                     /\ job[k].pool = pool /\ pool # 0

(* What a request is served is right by one build, as Right says of served.*)
RightAnswer(r, s) ==
    s.kind \in {"batch", "end"} =>
        LET rows == Query[s.build]
            exists == rows # <<>> /\ (Repeat \/ Sequence[r] < Len(rows)) IN
        IF s.kind = "end" THEN ~exists
        ELSE exists /\ s.batch = rows[(Sequence[r] % Len(rows)) + 1]

AnswersRight == mixed \/ \A r \in Requests : RightAnswer(r, served[r])

IInv ==
    /\ Typed /\ LocksRight /\ FilesRight /\ ReadyIsComplete /\ RequestsRight
    /\ BatchesRight /\ AnswersRight

(***************************************************************************)
(* Lemmas about builds and their batches                                   *)
(***************************************************************************)
LEMMA Constants ==
    /\ Builds \subseteq Nat \ {0} /\ Contents \subseteq Nat /\ None = 0
    /\ Plan \notin BatchKeys /\ Keys = BatchKeys \cup {Plan}
    /\ \A k \in BatchKeys : k[1] \in Builds
    /\ \A g \in Builds : Query[g] \in Seq(Nat \ {0})
    /\ \A b \in Batches : b # None
    /\ \A g \in Builds : \A i \in 1 .. Len(Query[g]) : Query[g][i] \in Batches
<1>1. Query \in Seq(Seq(Nat \ {0})) /\ Builds = 1 .. Len(Query) /\ Len(Query) \in Nat
  BY PlanCacheAssumption DEF Builds
<1>2. \A g \in Builds : Query[g] \in Seq(Nat \ {0})
  BY <1>1
<1>3. \A g \in Builds : DOMAIN Query[g] = 1 .. Len(Query[g])
  BY <1>2
<1>4. \A g \in Builds : \A i \in DOMAIN Query[g] : Query[g][i] \in Nat \ {0}
  BY <1>2
<1>5. \A b \in Batches : b # None
  BY <1>4 DEF Batches, None
<1>6. \A g \in Builds : \A i \in 1 .. Len(Query[g]) : Query[g][i] \in Batches
  BY <1>3 DEF Batches
<1>7. Builds \subseteq Nat \ {0} /\ Contents \subseteq Nat
  BY <1>1 DEF Contents, None
<1>8. Plan \notin BatchKeys
  BY <1>7 DEF Plan, BatchKeys
<1> QED
  BY <1>2, <1>5, <1>6, <1>7, <1>8 DEF None, Keys, BatchKeys

LEMMA Modulo ==
    \A n \in Nat \ {0}, s \in Nat : s % n \in 0 .. n - 1 /\ (s < n => s % n = s)
<1> TAKE n \in Nat \ {0}, s \in Nat
<1>1. s % n \in 0 .. n - 1
  OBVIOUS
<1>2. s < n => s % n = s
  OBVIOUS
<1> QED
  BY <1>1, <1>2

LEMMA BatchAtType ==
    ASSUME NEW index \in Builds, NEW opened \in Builds, NEW number \in Nat
    PROVE  BatchAt(index, opened, number) \in Batches \cup {None}
<1> DEFINE n == Len(Query[index])
           m == Len(Query[opened])
           place == IF Repeat /\ n # 0 THEN number % n ELSE number
<1>1. n \in Nat /\ m \in Nat
  BY Constants
<1>2. place \in Nat
  <2> HIDE DEF n
  <2>1. n # 0 => number % n \in 0 .. n - 1
    BY <1>1, Modulo
  <2>2. QED
    BY <1>1, <2>1
<1>3. Min({n, m}) = IF n <= m THEN n ELSE m
  <2>1. \E x \in {n, m} : \A y \in {n, m} : x <= y
    BY <1>1
  <2>2. QED
    BY <1>1, <2>1 DEF Min
<1> HIDE DEF n, m, place
<1>4. place < Min({n, m}) => place + 1 \in 1 .. m
  BY <1>1, <1>2, <1>3
<1>5. BatchAt(index, opened, number) =
          IF place < Min({n, m}) THEN Query[opened][place + 1] ELSE None
  BY DEF BatchAt, n, m, place
<1>6. m = Len(Query[opened])
  BY DEF m
<1> QED
  BY <1>4, <1>5, <1>6, Constants

(* What one build says of a sequence number is what Right asks for.        *)
LEMMA BatchAtRight ==
    ASSUME NEW g \in Builds, NEW number \in Nat
    PROVE  LET rows == Query[g]
               exists == rows # <<>> /\ (Repeat \/ number < Len(rows))
           IN  /\ BatchAt(g, g, number) = None => ~exists
               /\ BatchAt(g, g, number) # None =>
                     exists /\ BatchAt(g, g, number) = rows[(number % Len(rows)) + 1]
<1> DEFINE rows == Query[g]
           n == Len(rows)
           place == IF Repeat /\ n # 0 THEN number % n ELSE number
           exists == rows # <<>> /\ (Repeat \/ number < n)
<1>1. rows \in Seq(Nat \ {0}) /\ n \in Nat
  BY Constants
<1>2. rows # <<>> <=> n # 0
  BY <1>1, EmptySeq
<1>3. Min({n, n}) = n
  BY <1>1 DEF Min
<1>4. n # 0 => number % n \in 0 .. n - 1
  BY <1>1, Modulo
<1>5. n # 0 /\ number < n => number % n = number
  BY <1>1, Modulo
<1>6. \A i \in 1 .. n : rows[i] # None
  BY Constants
<1>7. BatchAt(g, g, number) = IF place < Min({n, n}) THEN rows[place + 1] ELSE None
  BY DEF BatchAt
<1> HIDE DEF rows, n
<1>8. CASE exists
  <2>1. n # 0 /\ place = number % n /\ place \in 0 .. n - 1
    BY <1>1, <1>2, <1>4, <1>5, <1>8
  <2>2. place + 1 \in 1 .. n /\ place < n
    BY <1>1, <2>1, SMTT(30)
  <2>3. BatchAt(g, g, number) = rows[(number % n) + 1]
    BY <1>3, <1>7, <2>1, <2>2
  <2>4. BatchAt(g, g, number) # None
    BY <1>3, <1>6, <1>7, <2>2
  <2>5. QED
    BY <1>8, <2>3, <2>4 DEF n, rows
<1>9. CASE ~exists
  <2>1. ~ (place < n)
    BY <1>1, <1>2, <1>9
  <2>2. BatchAt(g, g, number) = None
    BY <1>3, <1>7, <2>1
  <2>3. QED
    BY <1>9, <2>2 DEF n, rows
<1> QED
  BY <1>8, <1>9

LEMMA AnswersOfBuild ==
    ASSUME NEW g \in Builds, NEW r \in Requests,
           NEW found, found = BatchAt(g, g, Sequence[r])
    PROVE  /\ found = None => RightAnswer(r, [kind |-> "end", build |-> g, batch |-> None])
           /\ found # None => RightAnswer(r, [kind |-> "batch", build |-> g, batch |-> found])
<1>1. Sequence[r] \in Nat
  BY PlanCacheAssumption
<1> QED
  BY <1>1, BatchAtRight DEF RightAnswer

(***************************************************************************)
(* Lemmas about the steps                                                  *)
(***************************************************************************)
(* One request goes on; it may take and drop locks that nobody else has,   *)
(* and be answered.                                                        *)
LEMMA RequestStep ==
    ASSUME IInv, NEW r \in Requests, NEW q \in RequestType,
           req' = [req EXCEPT ![r] = q],
           RequestRight(r, q)', Holds(q) => lock'[Plan] = r,
           lock' \in [Keys -> {"nobody", "job", "prune"} \cup Requests],
           \A k \in Keys : \/ lock'[k] = lock[k]
                           \/ lock[k] \in {r, "nobody"} /\ lock'[k] \in {r, "nobody"},
           UNCHANGED <<files, data, builder, built, job, pool, prune, torn>>,
           mixed' \in BOOLEAN, mixed => mixed',
           \/ served' = served
           \/ \E s \in AnswerType : /\ served' = [served EXCEPT ![r] = s]
                                    /\ mixed' \/ RightAnswer(r, s)
    PROVE  IInv'
<1>1. \A x \in Requests : req'[x] = IF x = r THEN q ELSE req[x]
  BY DEF IInv, Typed
<1>2. Typed'
  <2>1. served' \in [Requests -> AnswerType]
    BY DEF IInv, Typed
  <2>2. req' \in [Requests -> RequestType]
    BY DEF IInv, Typed
  <2>3. QED
    BY <2>1, <2>2 DEF IInv, Typed
<1>3. LocksRight'
  <2>1. r \notin {"nobody", "job", "prune"} /\ BatchKeys \subseteq Keys /\ Plan \in Keys
    BY PlanCacheAssumption, Constants
  <2>2. \A k \in Keys : /\ lock'[k] = "job" <=> lock[k] = "job"
                        /\ lock'[k] = "prune" <=> lock[k] = "prune"
                        /\ \A x \in Requests \ {r} : lock[k] = x => lock'[k] = x
    BY <2>1, PlanCacheAssumption
  <2>3. \A x \in Requests : Holds(req'[x]) => lock'[Plan] = x
    BY <1>1, <2>1, <2>2 DEF IInv, LocksRight
  <2>4. QED
    BY <2>1, <2>2, <2>3 DEF IInv, LocksRight
<1>4. FilesRight' /\ ReadyIsComplete'
  BY DEF IInv, FilesRight, ReadyIsComplete
<1>5. RequestsRight'
  <2>1. ASSUME NEW x \in Requests, x # r
        PROVE  RequestRight(x, req[x])'
    <3>1. RequestRight(x, req[x]) /\ req'[x] = req[x]
      BY <1>1, <2>1 DEF IInv, RequestsRight
    <3>2. QED
      BY <3>1 DEF RequestRight
  <2>2. QED
    BY <1>1, <2>1 DEF RequestsRight
<1>6. BatchesRight'
  BY DEF IInv, BatchesRight, OfBuild
<1>7. AnswersRight'
  <2>1. CASE mixed'
    BY <2>1 DEF AnswersRight
  <2>2. CASE ~mixed'
    <3>1. \A x \in Requests : RightAnswer(x, served[x])
      BY <2>2 DEF IInv, AnswersRight
    <3>2. \A x \in Requests : RightAnswer(x, served'[x])
      BY <2>2, <3>1 DEF IInv, Typed
    <3>3. QED
      BY <3>2 DEF AnswersRight
  <2>3. QED
    BY <2>1, <2>2
<1> QED
  BY <1>2, <1>3, <1>4, <1>5, <1>6, <1>7 DEF IInv

Rest == <<files, data, builder, built, job, pool, prune, torn>>

LEMMA MoveOn ==
    ASSUME IInv, NEW r \in Requests, NEW q \in RequestType,
           req' = [req EXCEPT ![r] = q],
           RequestRight(r, q), Holds(q) => lock'[Plan] = r,
           \/ lock' = lock
           \/ lock[Plan] \in {r, "nobody"} /\ lock' = [lock EXCEPT ![Plan] = r]
           \/ lock[Plan] = r /\ lock' = [lock EXCEPT ![Plan] = "nobody"],
           UNCHANGED <<Rest, served, mixed>>
    PROVE  IInv'
<1>1. RequestRight(r, q)'
  BY DEF RequestRight, Rest
<1>2. /\ lock' \in [Keys -> {"nobody", "job", "prune"} \cup Requests]
      /\ \A k \in Keys : \/ lock'[k] = lock[k]
                         \/ lock[k] \in {r, "nobody"} /\ lock'[k] \in {r, "nobody"}
  BY DEF IInv, Typed
<1>3. mixed' \in BOOLEAN /\ (mixed => mixed')
  BY DEF IInv, Typed
<1>4. UNCHANGED <<files, data, builder, built, job, pool, prune, torn>> /\ served' = served
  BY DEF Rest
<1> QED
  BY <1>1, <1>2, <1>3, <1>4, RequestStep

(* The locks of a request that ends are dropped.                           *)
LEMMA Dropped ==
    ASSUME IInv, NEW r \in Requests,
           lock' = [k \in Keys |-> IF lock[k] = r THEN "nobody" ELSE lock[k]]
    PROVE  /\ lock' \in [Keys -> {"nobody", "job", "prune"} \cup Requests]
           /\ \A k \in Keys : \/ lock'[k] = lock[k]
                              \/ lock[k] \in {r, "nobody"} /\ lock'[k] \in {r, "nobody"}
BY DEF IInv, Typed

LEMMA NewIsRight ==
    ASSUME IInv, NEW stage \in {"ask", "done"}
    PROVE  LET q == [NewRequest EXCEPT !.at = stage]
           IN  q \in RequestType /\ ~Holds(q) /\ \A r \in Requests : RequestRight(r, q)
<1> DEFINE q == [at |-> stage, back |-> "ask", gen |-> None, index |-> None,
                 plan |-> None, batch |-> None]
<1>1. q = [NewRequest EXCEPT !.at = stage]
  BY DEF NewRequest
<1>2. q \in RequestType
  BY DEF RequestType, Contents
<1>3. ~Holds(q) /\ ~HasBatch(q) /\ ~HasPlan(q)
  BY DEF Holds, HasBatch, HasPlan, In
<1>4. 0 <= built
  BY Constants DEF IInv, Typed
<1>5. \A r \in Requests : RequestRight(r, q)
  BY <1>3, <1>4 DEF RequestRight, None
<1> HIDE DEF q
<1> QED
  BY <1>1, <1>2, <1>3, <1>5

LEMMA PendingStep ==
    ASSUME IInv, NEW r \in Requests, Pending(r), UNCHANGED <<Rest, served>>,
           mixed' \in BOOLEAN, mixed => mixed'
    PROVE  IInv'
<1>1. PICK q : q = NewRequest
  OBVIOUS
<1>2. q = [NewRequest EXCEPT !.at = "ask"]
  BY <1>1 DEF NewRequest
<1>3. q \in RequestType /\ ~Holds(q) /\ RequestRight(r, q)
  BY <1>2, NewIsRight
<1>4. RequestRight(r, q)'
  BY <1>3 DEF RequestRight, Rest
<1>5. req' = [req EXCEPT ![r] = q] /\ UNCHANGED <<files, data, builder, built, job, pool, prune, torn>>
  BY <1>1 DEF Pending, Rest
<1> QED
  BY <1>3, <1>4, <1>5, Dropped, RequestStep DEF Pending

LEMMA AnswerStep ==
    ASSUME IInv, NEW r \in Requests, NEW kind \in {"batch", "end", "error"},
           NEW build \in Contents, NEW found \in Batches \cup {None},
           Answer(r, kind, build, found), UNCHANGED Rest,
           mixed' \in BOOLEAN, mixed => mixed',
           mixed' \/ RightAnswer(r, [kind |-> kind, build |-> build, batch |-> found])
    PROVE  IInv'
<1>1. PICK q : q = [NewRequest EXCEPT !.at = "done"]
  OBVIOUS
<1>2. q \in RequestType /\ ~Holds(q) /\ RequestRight(r, q)
  BY <1>1, NewIsRight
<1>3. RequestRight(r, q)'
  BY <1>2 DEF RequestRight, Rest
<1>4. req' = [req EXCEPT ![r] = q] /\ UNCHANGED <<files, data, builder, built, job, pool, prune, torn>>
  BY <1>1 DEF Answer, Rest
<1>5. PICK s : s = [kind |-> kind, build |-> build, batch |-> found]
  OBVIOUS
<1>6. s \in AnswerType
  BY <1>5 DEF AnswerType
<1>7. served' = [served EXCEPT ![r] = s] /\ (mixed' \/ RightAnswer(r, s))
  BY <1>5 DEF Answer
<1> QED
  BY <1>2, <1>3, <1>4, <1>6, <1>7, Dropped, RequestStep DEF Answer

Stages == {"ask", "read", "lock", "check", "wait", "index", "plan", "bcheck", "block",
           "bwait", "open", "remove", "done"}
Backs == {"ask", "check", "wait", "bcheck", "bwait"}

LEMMA RequestFields ==
    ASSUME IInv, NEW r \in Requests
    PROVE  /\ RequestType = [at : Stages, back : Backs, gen : Contents, index : Contents,
                             plan : Contents, batch : Batches \cup {None}]
           /\ req[r] \in RequestType
<1>1. RequestType = [at : Stages, back : Backs, gen : Contents, index : Contents,
                     plan : Contents, batch : Batches \cup {None}]
  BY DEF RequestType, Stages, Backs
<1> QED
  BY <1>1 DEF IInv, Typed

LEMMA GotoMoves ==
    ASSUME IInv, NEW r \in Requests, NEW stage \in Stages, Goto(r, stage)
    PROVE  \E q \in RequestType :
              /\ req' = [req EXCEPT ![r] = q]
              /\ q.at = stage /\ q.back = req[r].back /\ q.gen = req[r].gen
              /\ q.index = req[r].index /\ q.plan = req[r].plan /\ q.batch = req[r].batch
<1>1. PICK q : q = [req[r] EXCEPT !.at = stage]
  OBVIOUS
<1>2. /\ q \in RequestType
      /\ q.at = stage /\ q.back = req[r].back /\ q.gen = req[r].gen
      /\ q.index = req[r].index /\ q.plan = req[r].plan /\ q.batch = req[r].batch
  BY <1>1, RequestFields
<1>3. req' = [req EXCEPT ![r] = q]
  BY <1>1 DEF Goto
<1> QED
  BY <1>2, <1>3

(* The steps of a request that only lead it to the next.                   *)
LEMMA GotoStep ==
    ASSUME IInv, NEW r \in Requests,
           Ask(r) \/ LockPlan(r) \/ PlanAppears(r) \/ MissBatch(r)
    PROVE  IInv'
<1>1. RequestRight(r, req[r])
  BY DEF IInv, RequestsRight
<1>2. CASE Pending(r) /\ UNCHANGED <<served, JobVars>>
  BY <1>2, PendingStep DEF JobVars, History, Rest, IInv, Typed
<1>3. ASSUME NEW stage \in {"lock", "read"}, Goto(r, stage), lock' = lock,
             UNCHANGED <<served, JobVars>>
      PROVE  IInv'
  <2>1. PICK q \in RequestType :
           /\ req' = [req EXCEPT ![r] = q]
           /\ q.at = stage /\ q.back = req[r].back /\ q.gen = req[r].gen
           /\ q.index = req[r].index /\ q.plan = req[r].plan /\ q.batch = req[r].batch
    BY <1>3, GotoMoves DEF Stages
  <2>2. ~Holds(q) /\ ~HasBatch(q) /\ ~HasPlan(q)
    BY <2>1 DEF Holds, HasBatch, HasPlan, In
  <2>3. RequestRight(r, q)
    BY <1>1, <2>1, <2>2 DEF RequestRight
  <2>4. QED
    BY <1>3, <2>1, <2>2, <2>3, MoveOn DEF JobVars, History, Rest
<1>4. CASE /\ lock[Plan] = "nobody" /\ lock' = [lock EXCEPT ![Plan] = r]
           /\ Goto(r, "check") /\ UNCHANGED <<served, JobVars>>
  <2>1. PICK q \in RequestType :
           /\ req' = [req EXCEPT ![r] = q]
           /\ q.at = "check" /\ q.back = req[r].back /\ q.gen = req[r].gen
           /\ q.index = req[r].index /\ q.plan = req[r].plan /\ q.batch = req[r].batch
    BY <1>4, GotoMoves DEF Stages
  <2>2. ~HasBatch(q) /\ ~HasPlan(q)
    BY <2>1 DEF HasBatch, HasPlan, In
  <2>3. RequestRight(r, q)
    BY <1>1, <2>1, <2>2 DEF RequestRight
  <2>4. lock'[Plan] = r
    BY <1>4, Constants DEF IInv, Typed
  <2>5. QED
    BY <1>4, <2>1, <2>3, <2>4, MoveOn DEF JobVars, History, Rest
<1>5. CASE MissBatch(r)
  <2>1. PICK q \in RequestType :
           /\ req' = [req EXCEPT ![r] = q]
           /\ q.at = "block" /\ q.back = req[r].back /\ q.gen = req[r].gen
           /\ q.index = req[r].index /\ q.plan = req[r].plan /\ q.batch = req[r].batch
    BY <1>5, GotoMoves DEF MissBatch, Stages
  <2>2. ~Holds(q) /\ HasBatch(req[r]) /\ HasPlan(req[r])
    BY <1>5, <2>1 DEF MissBatch, Holds, HasBatch, HasPlan, In
  <2>3. RequestRight(r, q)
    BY <1>1, <2>1, <2>2 DEF RequestRight
  <2>4. QED
    BY <1>5, <2>1, <2>2, <2>3, MoveOn DEF MissBatch, JobVars, History, Rest
<1> QED
  BY <1>2, <1>3, <1>4, <1>5 DEF Ask, LockPlan, PlanAppears

(* The generation, and then the index of some build that is there.         *)
LEMMA ReadStep ==
    ASSUME IInv, NEW r \in Requests, ReadReady(r) \/ OpenIndex(r)
    PROVE  IInv'
<1>1. RequestRight(r, req[r])
  BY DEF IInv, RequestsRight
<1>2. CASE Pending(r)
  BY <1>2, PendingStep DEF ReadReady, OpenIndex, JobVars, History, Rest, IInv, Typed
<1>3. files["ready"] \in Contents /\ files["index"] \in Contents
  BY DEF IInv, Typed, PlanFiles
<1>4. CASE ReadReady(r) /\ ~Pending(r)
  <2>1. PICK q : q = [req[r] EXCEPT !.at = "index", !.gen = files["ready"]]
    OBVIOUS
  <2>2. q \in RequestType /\ q.at = "index" /\ q.gen = files["ready"]
    BY <1>3, <2>1, RequestFields DEF Stages
  <2>3. ~Holds(q) /\ ~HasBatch(q) /\ ~HasPlan(q)
    BY <2>2 DEF Holds, HasBatch, HasPlan, In
  <2>4. /\ files["ready"] # None /\ req' = [req EXCEPT ![r] = q]
        /\ UNCHANGED <<lock, served, JobVars>>
    BY <1>4, <2>1 DEF ReadReady
  <2>5. /\ files["ready"] <= built /\ files["ready"] \in Nat
        /\ files["plan"] # None => files["plan"] >= files["ready"]
    <3>1. files["ready"] \in Nat
      BY <1>3, Constants
    <3>2. files["ready"] <= built
      BY DEF IInv, FilesRight, PlanFiles
    <3>3. files["plan"] \in {None, files["ready"]}
      BY <2>4 DEF IInv, FilesRight
    <3>4. QED
      BY <3>1, <3>2, <3>3
  <2>6. RequestRight(r, q)
    BY <2>2, <2>3, <2>4, <2>5 DEF RequestRight
  <2>7. QED
    BY <2>2, <2>3, <2>4, <2>6, MoveOn DEF JobVars, History, Rest
<1>5. CASE OpenIndex(r) /\ ~Pending(r)
  <2>1. PICK q : q = [req[r] EXCEPT !.at = "plan", !.index = files["index"]]
    OBVIOUS
  <2>2. /\ q \in RequestType /\ q.at = "plan" /\ q.index = files["index"]
        /\ q.gen = req[r].gen
    BY <1>3, <2>1, RequestFields DEF Stages
  <2>3. ~Holds(q) /\ ~HasBatch(q) /\ ~HasPlan(q)
    BY <2>2 DEF Holds, HasBatch, HasPlan, In
  <2>4. /\ files["index"] # None /\ req[r].at = "index" /\ req' = [req EXCEPT ![r] = q]
        /\ UNCHANGED <<lock, served, JobVars>>
    BY <1>5, <2>1 DEF OpenIndex
  <2>5. RequestRight(r, q)
    BY <1>1, <2>2, <2>3, <2>4 DEF RequestRight
  <2>6. QED
    BY <2>2, <2>3, <2>4, <2>5, MoveOn DEF JobVars, History, Rest
<1> QED
  BY <1>2, <1>4, <1>5

(* What a request says of its sequence number is of its generation, unless *)
(* the plan that it has opened was published after it had read that.       *)
LEMMA OpenPlanStep ==
    ASSUME IInv, NEW r \in Requests, OpenPlan(r)
    PROVE  IInv'
<1>1. RequestRight(r, req[r]) /\ req[r].at = "plan"
  BY DEF OpenPlan, IInv, RequestsRight
<1>2. PICK opened, found : /\ opened = files["plan"]
                         /\ found = BatchAt(req[r].index, opened, Sequence[r])
  OBVIOUS
<1>3. opened \in Contents /\ Sequence[r] \in Nat /\ req[r].index \in Builds /\ req[r].gen \in Builds
  BY <1>1, <1>2, RequestFields, PlanCacheAssumption DEF IInv, Typed, PlanFiles, Contents, RequestRight
<1>4. UNCHANGED Rest
  BY DEF OpenPlan, Rest
<1>5. CASE opened = None
  BY <1>2, <1>4, <1>5, PendingStep DEF OpenPlan, IInv, Typed
<1>6. CASE opened # None
  <2>1. /\ mixed' = (mixed \/ {opened, req[r].index} # {req[r].gen})
        /\ \/ found = None /\ Answer(r, "end", opened, None)
           \/ /\ found # None
              /\ req' = [req EXCEPT ![r].at = "bcheck", ![r].index = None,
                                    ![r].plan = opened, ![r].batch = found]
              /\ UNCHANGED <<served, lock>>
    BY <1>2, <1>6 DEF OpenPlan
  <2>2. mixed' \in BOOLEAN /\ (mixed => mixed')
    BY <2>1
  <2>3. ~mixed' => opened = req[r].gen /\ req[r].index = req[r].gen
    BY <2>1
  <2>4. opened \in Builds /\ found \in Batches \cup {None} /\ opened >= req[r].gen
    BY <1>1, <1>2, <1>3, <1>6, BatchAtType DEF Contents, RequestRight
  <2>5. CASE found = None /\ Answer(r, "end", opened, None)
    <3>1. mixed' \/ RightAnswer(r, [kind |-> "end", build |-> opened, batch |-> None])
      BY <1>2, <2>3, <2>4, <2>5, AnswersOfBuild
    <3>2. QED
      BY <1>3, <1>4, <2>2, <2>5, <3>1, AnswerStep
  <2>6. CASE /\ found # None
             /\ req' = [req EXCEPT ![r].at = "bcheck", ![r].index = None,
                                   ![r].plan = opened, ![r].batch = found]
             /\ UNCHANGED <<served, lock>>
    <3>1. PICK q : q = [req[r] EXCEPT !.at = "bcheck", !.index = None, !.plan = opened,
                                      !.batch = found]
      OBVIOUS
    <3>2. /\ q \in RequestType /\ q.at = "bcheck" /\ q.plan = opened /\ q.batch = found
          /\ q.gen = req[r].gen
      BY <1>3, <2>4, <3>1, RequestFields DEF Stages, Contents
    <3>3. ~Holds(q)
      BY <3>2 DEF Holds, In
    <3>4. RequestRight(r, q)'
      <4>1. q.gen <= built /\ (files["plan"] # None => files["plan"] >= q.gen)
        BY <1>1, <3>2 DEF RequestRight
      <4>2. q.gen # None
        BY <1>3, <3>2, Constants
      <4>3. mixed' \/ q.batch = BatchAt(q.gen, q.gen, Sequence[r])
        BY <1>2, <2>3, <3>2
      <4>4. q.plan >= q.gen /\ (mixed' \/ q.plan = q.gen)
        BY <2>3, <2>4, <3>2
      <4>5. UNCHANGED <<files, built>>
        BY <1>4 DEF Rest
      <4>6. QED
        BY <2>6, <3>2, <4>1, <4>2, <4>3, <4>4, <4>5 DEF RequestRight
    <3>5. req' = [req EXCEPT ![r] = q] /\ served' = served
      BY <2>6, <3>1
    <3>6. /\ lock' \in [Keys -> {"nobody", "job", "prune"} \cup Requests]
          /\ \A k \in Keys : lock'[k] = lock[k]
      BY <2>6 DEF IInv, Typed
    <3>7. UNCHANGED <<files, data, builder, built, job, pool, prune, torn>>
      BY <1>4 DEF Rest
    <3>8. QED
      BY <2>2, <3>2, <3>3, <3>4, <3>5, <3>6, <3>7, RequestStep
  <2>7. QED
    BY <2>1, <2>5, <2>6
<1> QED
  BY <1>5, <1>6

(* What is served is what the directory of the request's generation holds. *)
LEMMA ServeStep ==
    ASSUME IInv, NEW r \in Requests, FindBatch(r) \/ ServeBatch(r)
    PROVE  IInv'
<1>1. RequestRight(r, req[r])
  BY DEF IInv, RequestsRight
<1>2. HasBatch(req[r])
  BY DEF FindBatch, ServeBatch, HasBatch, In
<1>3. /\ req[r].gen \in Builds /\ req[r].batch \in Batches
      /\ <<req[r].gen, req[r].batch>> \in BatchKeys
      /\ Group(r) = <<req[r].gen, req[r].batch>>
  BY <1>1, <1>2, RequestFields DEF RequestRight, Contents, BatchKeys, Group
<1>4. CASE FindBatch(r)
  <2>1. PICK q : q = [req[r] EXCEPT !.at = "open", !.plan = None]
    OBVIOUS
  <2>2. /\ q \in RequestType /\ q.at = "open" /\ q.gen = req[r].gen /\ q.batch = req[r].batch
    BY <2>1, RequestFields DEF Stages, Contents
  <2>3. ~Holds(q) /\ ~HasPlan(q)
    BY <2>2 DEF Holds, HasPlan, In
  <2>4. RequestRight(r, q)
    BY <1>1, <1>2, <2>2, <2>3 DEF RequestRight
  <2>5. req' = [req EXCEPT ![r] = q] /\ UNCHANGED <<lock, served, JobVars>>
    BY <1>4, <2>1 DEF FindBatch
  <2>6. QED
    BY <2>2, <2>3, <2>4, <2>5, MoveOn DEF JobVars, History, Rest
<1>5. CASE ServeBatch(r)
  <2>1. UNCHANGED <<Rest, mixed>>
    BY <1>5 DEF ServeBatch, JobVars, History, Rest
  <2>2. CASE Pending(r) /\ UNCHANGED served
    BY <2>1, <2>2, PendingStep DEF IInv, Typed
  <2>3. ASSUME NEW build, build = data[Group(r)], build # None,
               Answer(r, "batch", build, req[r].batch)
        PROVE  IInv'
    <3>1. build \in Builds /\ (mixed \/ build = req[r].gen)
      BY <1>3, <2>3 DEF IInv, Typed, BatchesRight, OfBuild, Contents
    <3>2. req[r].batch # None /\ (mixed \/ req[r].batch = BatchAt(req[r].gen, req[r].gen, Sequence[r]))
      BY <1>1, <1>2 DEF RequestRight
    <3>3. mixed \/ RightAnswer(r, [kind |-> "batch", build |-> build, batch |-> req[r].batch])
      BY <1>3, <3>1, <3>2, AnswersOfBuild
    <3>4. build \in Contents /\ req[r].batch \in Batches \cup {None}
      BY <1>3, <3>1 DEF Contents
    <3>5. mixed' = mixed /\ mixed \in BOOLEAN
      BY <2>1 DEF IInv, Typed
    <3>6. QED
      BY <2>1, <2>3, <3>3, <3>4, <3>5, AnswerStep
  <2>4. QED
    BY <1>5, <2>2, <2>3 DEF ServeBatch
<1> QED
  BY <1>4, <1>5

(* A failure is found, and removed when it is old.                         *)
LEMMA FailureStep ==
    ASSUME IInv, NEW r \in Requests, ReadFailure(r) \/ RemoveFailure(r) \/ TimeOut(r)
    PROVE  IInv'
<1>1. RequestRight(r, req[r]) /\ (Holds(req[r]) => lock[Plan] = r)
  BY DEF IInv, RequestsRight, LocksRight
<1>2. UNCHANGED <<Rest, mixed>> /\ mixed \in BOOLEAN
  BY DEF ReadFailure, RemoveFailure, TimeOut, JobVars, History, Rest, IInv, Typed
<1>3. CASE Pending(r) /\ UNCHANGED served
  BY <1>2, <1>3, PendingStep
<1>4. CASE Answer(r, "error", None, None)
  <2>1. RightAnswer(r, [kind |-> "error", build |-> None, batch |-> None])
    BY DEF RightAnswer
  <2>2. None \in Contents /\ None \in Batches \cup {None}
    BY DEF Contents
  <2>3. QED
    BY <1>2, <1>4, <2>1, <2>2, AnswerStep
<1>5. CASE /\ Checking(r) /\ UNCHANGED <<served, lock>>
           /\ req' = [req EXCEPT ![r].back = req[r].at, ![r].at = "remove"]
  <2>1. PICK q : q = [req[r] EXCEPT !.back = req[r].at, !.at = "remove"]
    OBVIOUS
  <2>2. req[r].at \in Backs
    BY <1>5 DEF Checking, Backs
  <2>3. /\ q \in RequestType /\ q.at = "remove" /\ q.back = req[r].at /\ q.gen = req[r].gen
        /\ q.plan = req[r].plan /\ q.batch = req[r].batch
    BY <2>1, <2>2, RequestFields DEF Stages
  <2>4. /\ Holds(q) => Holds(req[r])
        /\ HasBatch(q) => HasBatch(req[r])
        /\ HasPlan(q) => HasPlan(req[r])
    BY <2>2, <2>3 DEF Holds, HasBatch, HasPlan, In
  <2>5. RequestRight(r, q)
    BY <1>1, <2>3, <2>4 DEF RequestRight
  <2>6. req' = [req EXCEPT ![r] = q]
    BY <1>5, <2>1
  <2>7. QED
    BY <1>1, <1>2, <1>5, <2>3, <2>4, <2>5, <2>6, MoveOn
<1>6. CASE /\ req[r].at = "remove" /\ UNCHANGED <<served, lock>>
           /\ req' = [req EXCEPT ![r].at = req[r].back, ![r].back = "ask"]
  <2>1. PICK q : q = [req[r] EXCEPT !.at = req[r].back, !.back = "ask"]
    OBVIOUS
  <2>2. req[r].back \in Backs
    BY RequestFields
  <2>3. /\ q \in RequestType /\ q.at = req[r].back /\ q.back = "ask" /\ q.gen = req[r].gen
        /\ q.plan = req[r].plan /\ q.batch = req[r].batch
    BY <2>1, <2>2, RequestFields DEF Stages, Backs
  <2>4. /\ Holds(q) => Holds(req[r])
        /\ HasBatch(q) => HasBatch(req[r])
        /\ HasPlan(q) => HasPlan(req[r])
        /\ q.at \notin {"index", "plan"}
    BY <1>6, <2>2, <2>3 DEF Holds, HasBatch, HasPlan, In, Backs
  <2>5. RequestRight(r, q)
    BY <1>1, <2>3, <2>4 DEF RequestRight
  <2>6. req' = [req EXCEPT ![r] = q]
    BY <1>6, <2>1
  <2>7. QED
    BY <1>1, <1>2, <1>6, <2>3, <2>4, <2>5, <2>6, MoveOn
<1> QED
  BY <1>3, <1>4, <1>5, <1>6 DEF ReadFailure, RemoveFailure, TimeOut

(* Requests stay right while plans go, and when a newer one comes.         *)
LEMMA RequestsKept ==
    ASSUME IInv, UNCHANGED <<req, mixed>>, built' \in Nat, built <= built',
           files'["plan"] \in {None, files["plan"], built + 1}
    PROVE  RequestsRight'
<1> SUFFICES ASSUME NEW r \in Requests PROVE RequestRight(r, req[r])'
  BY DEF RequestsRight
<1>1. RequestRight(r, req[r])
  BY DEF IInv, RequestsRight
<1>2. req[r].gen \in Nat /\ built \in Nat
  BY RequestFields, Constants DEF IInv, Typed
<1>3. req[r].gen <= built' /\ (files'["plan"] # None /\ req[r].gen # None => files'["plan"] >= req[r].gen)
  BY <1>1, <1>2 DEF RequestRight
<1> QED
  BY <1>1, <1>3 DEF RequestRight

(* The lock of a request that finds no plan becomes its job's.             *)
LEMMA StartBuildStep ==
    ASSUME IInv, NEW r \in Requests, StartBuild(r)
    PROVE  IInv'
<1>1. RequestRight(r, req[r]) /\ lock[Plan] = r
  BY DEF StartBuild, IInv, RequestsRight, LocksRight, Holds, In
<1>2. PICK stage \in {"read", "wait"} : Goto(r, stage)
  BY DEF StartBuild
<1>3. PICK q \in RequestType :
         /\ req' = [req EXCEPT ![r] = q]
         /\ q.at = stage /\ q.back = req[r].back /\ q.gen = req[r].gen
         /\ q.index = req[r].index /\ q.plan = req[r].plan /\ q.batch = req[r].batch
  BY <1>2, GotoMoves DEF Stages
<1>4. ~Holds(q) /\ ~HasBatch(q) /\ ~HasPlan(q)
  BY <1>3 DEF Holds, HasBatch, HasPlan, In
<1>5. RequestRight(r, q)
  BY <1>1, <1>3, <1>4 DEF RequestRight
<1>6. CASE lock' = [lock EXCEPT ![Plan] = "nobody"] /\ UNCHANGED builder
  BY <1>1, <1>3, <1>4, <1>5, <1>6, MoveOn DEF StartBuild, History, Rest
<1>7. CASE /\ files["ready"] = None /\ lock' = [lock EXCEPT ![Plan] = "job"]
           /\ builder' = "query"
  <2>1. UNCHANGED <<files, data, error, served, built, job, pool, prune, mixed, torn>>
    BY DEF StartBuild, History
  <2>2. /\ \A x \in Requests : req'[x] = IF x = r THEN q ELSE req[x]
        /\ req' \in [Requests -> RequestType]
    BY <1>3 DEF IInv, Typed
  <2>3. /\ lock' \in [Keys -> {"nobody", "job", "prune"} \cup Requests]
        /\ lock'[Plan] = "job" /\ \A k \in BatchKeys : lock'[k] = lock[k]
    BY <1>7, Constants DEF IInv, Typed
  <2>4. r \notin {"nobody", "job", "prune"}
    BY PlanCacheAssumption
  <2>5. Typed'
    BY <1>7, <2>1, <2>2, <2>3 DEF IInv, Typed
  <2>6. LocksRight'
    <3>1. \A k \in Keys : lock'[k] = "prune" <=> lock[k] = "prune"
      BY <1>1, <2>3, <2>4, Constants
    <3>2. \A x \in Requests : ~Holds(req'[x])
      BY <1>1, <1>4, <2>2 DEF IInv, LocksRight
    <3>3. QED
      BY <1>7, <2>1, <2>3, <3>1, <3>2 DEF IInv, LocksRight
  <2>7. FilesRight' /\ ReadyIsComplete'
    BY <1>7, <2>1 DEF IInv, FilesRight, ReadyIsComplete
  <2>8. RequestsRight'
    <3>1. ASSUME NEW x \in Requests
          PROVE  RequestRight(x, req'[x])
      BY <1>5, <2>2 DEF IInv, RequestsRight
    <3>2. QED
      BY <2>1, <3>1 DEF RequestsRight, RequestRight
  <2>9. BatchesRight' /\ AnswersRight'
    BY <2>1 DEF IInv, BatchesRight, OfBuild, AnswersRight
  <2>10. QED
    BY <2>5, <2>6, <2>7, <2>8, <2>9 DEF IInv
<1> QED
  BY <1>6, <1>7 DEF StartBuild

(* A live load holds the stream's semaphore, so there is one alive at most.*)
LEMMA LoadingMemoryIs ==
    ASSUME IInv
    PROVE  /\ LoadingMemory \in 1 .. 2
           /\ \A k \in BatchKeys : job[k].state # "none" => job[k].pool = LoadingMemory
<1>1. \A k \in BatchKeys : job[k].state # "none" => job[k].pool = pool /\ pool # 0
  BY DEF IInv, BatchesRight
<1>2. DOMAIN job = BatchKeys /\ pool \in 0 .. 2
  BY DEF IInv, Typed
<1>3. \A p : Alive(p) => p = pool /\ pool # 0
  BY <1>1, <1>2 DEF Alive
<1>4. CASE Alive(pool)
  BY <1>1, <1>2, <1>3, <1>4 DEF LoadingMemory
<1>5. CASE ~Alive(pool)
  <2>1. {p \in 1 .. 2 : ~Alive(p)} = 1 .. 2
    BY <1>3, <1>5
  <2>2. \E x \in 1 .. 2 : \A y \in 1 .. 2 : x <= y
    OBVIOUS
  <2>3. Min(1 .. 2) \in 1 .. 2
    BY <2>2 DEF Min
  <2>4. \A k \in BatchKeys : job[k].state = "none"
    BY <1>1, <1>2, <1>5 DEF Alive
  <2>5. LoadingMemory = Min(1 .. 2)
    BY <1>5, <2>1 DEF LoadingMemory
  <2>6. QED
    BY <2>3, <2>4, <2>5
<1> QED
  BY <1>4, <1>5

LEMMA StartLoadStep ==
    ASSUME IInv, NEW r \in Requests, StartLoad(r)
    PROVE  IInv'
<1>1. RequestRight(r, req[r]) /\ HasBatch(req[r]) /\ HasPlan(req[r])
  BY DEF StartLoad, IInv, RequestsRight, HasBatch, HasPlan
<1>2. PICK k : k = Group(r)
  OBVIOUS
<1>3. /\ k \in BatchKeys /\ k[1] = req[r].gen /\ k \in Keys /\ k # Plan
  <2>1. req[r].gen \in Builds /\ req[r].batch \in Batches /\ req[r].batch # None
    BY <1>1, RequestFields DEF RequestRight, Contents
  <2>2. k = <<req[r].gen, req[r].batch>>
    BY <1>2, <2>1 DEF Group
  <2>3. k \in BatchKeys /\ k[1] = req[r].gen
    BY <2>1, <2>2 DEF BatchKeys
  <2>4. QED
    BY <2>3, Constants
<1>4. UNCHANGED <<files, data, error, served, builder, built, prune, mixed, torn>>
  BY DEF StartLoad, History
<1>5. CASE Pending(r) /\ UNCHANGED <<job, pool>>
  BY <1>4, <1>5, PendingStep DEF Rest, IInv, Typed
<1>6. CASE /\ lock[k] = "nobody" /\ lock' = [lock EXCEPT ![k] = "job"]
           /\ pool' = LoadingMemory
           /\ job' = [job EXCEPT ![k] = [state |-> "size", build |-> req[r].plan,
                                         pool |-> LoadingMemory]]
           /\ req' = [req EXCEPT ![r].at = "bwait", ![r].plan = None]
  <2>1. PICK q : q = [req[r] EXCEPT !.at = "bwait", !.plan = None]
    OBVIOUS
  <2>2. /\ q \in RequestType /\ q.at = "bwait" /\ q.gen = req[r].gen /\ q.batch = req[r].batch
    BY <2>1, RequestFields DEF Stages, Contents
  <2>3. ~Holds(q) /\ ~HasPlan(q)
    BY <2>2 DEF Holds, HasPlan, In
  <2>4. RequestRight(r, q)
    BY <1>1, <2>2, <2>3 DEF RequestRight
  <2>5. req' \in [Requests -> RequestType] /\ \A x \in Requests : req'[x] = IF x = r THEN q ELSE req[x]
    BY <1>6, <2>1, <2>2 DEF IInv, Typed
  <2>6. PICK new : new = [state |-> "size", build |-> req[r].plan, pool |-> LoadingMemory]
    OBVIOUS
  <2>7. /\ new \in JobType /\ new.state = "size" /\ new.build = req[r].plan
        /\ new.pool = LoadingMemory
    <3>1. req[r].plan \in Contents
      BY RequestFields
    <3>2. LoadingMemory \in 0 .. 2
      BY LoadingMemoryIs
    <3>3. QED
      BY <2>6, <3>1, <3>2 DEF JobType
  <2>8. job' \in [BatchKeys -> JobType] /\ \A x \in BatchKeys : job'[x] = IF x = k THEN new ELSE job[x]
    BY <1>3, <1>6, <2>6, <2>7 DEF IInv, Typed
  <2>9. /\ lock' \in [Keys -> {"nobody", "job", "prune"} \cup Requests]
        /\ \A x \in Keys : lock'[x] = IF x = k THEN "job" ELSE lock[x]
    BY <1>3, <1>6 DEF IInv, Typed
  <2>10. pool' \in 0 .. 2 /\ pool' # 0 /\ pool' = LoadingMemory
    BY <1>6, LoadingMemoryIs
  <2>11. Typed'
    BY <1>4, <2>5, <2>8, <2>9, <2>10 DEF IInv, Typed
  <2>12. LocksRight'
    <3>1. Plan \in Keys /\ BatchKeys \subseteq Keys
      BY Constants
    <3>2. \A x \in Requests : Holds(req'[x]) => lock'[Plan] = x
      BY <1>3, <2>3, <2>5, <2>9, <3>1 DEF IInv, LocksRight
    <3>3. \A x \in BatchKeys : lock'[x] = "job" <=> job'[x].state # "none"
      BY <2>7, <2>8, <2>9, <3>1 DEF IInv, LocksRight
    <3>4. \A x \in Keys : lock'[x] = "prune" <=> lock[x] = "prune"
      BY <1>6, <2>9
    <3>5. QED
      BY <1>3, <1>4, <2>9, <3>1, <3>2, <3>3, <3>4 DEF IInv, LocksRight
  <2>13. FilesRight' /\ ReadyIsComplete' /\ AnswersRight'
    BY <1>4 DEF IInv, FilesRight, ReadyIsComplete, AnswersRight
  <2>14. RequestsRight'
    <3>1. \A x \in Requests : RequestRight(x, req'[x])
      BY <2>4, <2>5 DEF IInv, RequestsRight
    <3>2. QED
      BY <1>4, <3>1 DEF RequestsRight, RequestRight
  <2>15. BatchesRight'
    <3> SUFFICES ASSUME NEW x \in BatchKeys
                 PROVE  /\ data[x] # None => OfBuild(data[x], x)
                        /\ job'[x].state # "none" => OfBuild(job'[x].build, x)
                                                     /\ job'[x].pool = pool' /\ pool' # 0
      BY <1>4 DEF BatchesRight, OfBuild
    <3>1. OfBuild(req[r].plan, k)
      BY <1>1, <1>3 DEF OfBuild, RequestRight
    <3>2. CASE x = k
      BY <2>7, <2>8, <2>10, <3>1, <3>2 DEF IInv, BatchesRight
    <3>3. CASE x # k
      BY <2>8, <2>10, <3>3, LoadingMemoryIs DEF IInv, BatchesRight
    <3>4. QED
      BY <3>2, <3>3
  <2>16. QED
    BY <2>11, <2>12, <2>13, <2>14, <2>15 DEF IInv
<1> QED
  BY <1>2, <1>5, <1>6 DEF StartLoad

(* The plan's files appear one after the other, under the job's lock.      *)
LEMMA BuildStep ==
    ASSUME IInv, Build
    PROVE  IInv'
<1>1. UNCHANGED <<data, error, req, served, job, pool, prune, mixed, torn>>
  BY DEF Build, PublishPlan, PublishIndex, PublishReady, RequestVars, History
<1>2. built \in Contents /\ built \in Nat /\ 0 <= built /\ PlanFiles = {"ready", "plan", "index"}
  BY Constants DEF IInv, Typed, PlanFiles
<1>3. files \in [PlanFiles -> Contents] /\ \A m \in PlanFiles : files[m] \in Nat /\ files[m] <= built
  BY Constants DEF IInv, Typed, FilesRight
<1>4. lock[Plan] = "job" /\ files["ready"] = None /\ builder # "none"
  BY DEF Build, PublishPlan, PublishIndex, PublishReady, IInv, LocksRight, FilesRight
<1>5. ~ (prune.state = "remove" /\ prune.group = Plan)
  BY <1>4, Constants DEF IInv, LocksRight
<1>6. BatchesRight' /\ AnswersRight'
  BY <1>1 DEF IInv, BatchesRight, OfBuild, AnswersRight
<1>7. CASE PublishPlan
  <2>1. /\ built' = built + 1 /\ built' \in Contents /\ built' \in Nat /\ built <= built'
        /\ builder' = "index" /\ lock' = lock
        /\ files' \in [PlanFiles -> Contents] /\ files'["plan"] = built + 1
        /\ files'["ready"] = files["ready"] /\ files'["index"] = files["index"]
    BY <1>2, <1>3, <1>7 DEF PublishPlan, Contents
  <2>2. Typed'
    BY <1>1, <2>1 DEF IInv, Typed
  <2>3. LocksRight'
    BY <1>1, <1>4, <2>1 DEF IInv, LocksRight
  <2>4. \A m \in PlanFiles : files'[m] <= built'
    BY <1>2, <1>3, <2>1
  <2>5. FilesRight' /\ ReadyIsComplete'
    BY <1>1, <1>4, <1>5, <2>1, <2>4 DEF FilesRight, ReadyIsComplete
  <2>6. RequestsRight'
    BY <1>1, <2>1, RequestsKept
  <2>7. QED
    BY <1>6, <2>2, <2>3, <2>5, <2>6 DEF IInv
<1>8. CASE PublishIndex
  <2>1. /\ built' = built /\ builder' = "ready" /\ lock' = lock
        /\ files' \in [PlanFiles -> Contents] /\ files'["index"] = built
        /\ files'["ready"] = files["ready"] /\ files'["plan"] = files["plan"]
        /\ files["plan"] = built
    BY <1>2, <1>3, <1>8 DEF PublishIndex, IInv, FilesRight
  <2>2. Typed'
    BY <1>1, <2>1 DEF IInv, Typed
  <2>3. LocksRight'
    BY <1>1, <1>4, <2>1 DEF IInv, LocksRight
  <2>4. \A m \in PlanFiles : files'[m] <= built'
    BY <1>2, <1>3, <2>1
  <2>5. FilesRight' /\ ReadyIsComplete'
    BY <1>1, <1>4, <1>5, <2>1, <2>4 DEF FilesRight, ReadyIsComplete
  <2>6. RequestsRight'
    BY <1>1, <1>2, <2>1, RequestsKept
  <2>7. QED
    BY <1>6, <2>2, <2>3, <2>5, <2>6 DEF IInv
<1>9. CASE PublishReady
  <2>1. /\ built' = built /\ builder' = "none" /\ lock' = [lock EXCEPT ![Plan] = "nobody"]
        /\ files' \in [PlanFiles -> Contents] /\ files'["ready"] = built
        /\ files'["index"] = built /\ files'["plan"] = built /\ files["plan"] = built
    BY <1>2, <1>3, <1>9 DEF PublishReady, IInv, FilesRight
  <2>2. /\ lock' \in [Keys -> {"nobody", "job", "prune"} \cup Requests]
        /\ lock'[Plan] = "nobody" /\ \A k \in BatchKeys : lock'[k] = lock[k]
    BY <2>1, Constants DEF IInv, Typed
  <2>3. Typed'
    BY <1>1, <1>2, <2>1, <2>2 DEF IInv, Typed
  <2>4. LocksRight'
    <3>1. \A k \in Keys : lock'[k] = "prune" <=> lock[k] = "prune"
      BY <1>4, <2>2, Constants
    <3>2. \A x \in Requests : ~Holds(req[x])
      BY <1>4, PlanCacheAssumption DEF IInv, LocksRight
    <3>3. QED
      BY <1>1, <2>1, <2>2, <3>1, <3>2 DEF IInv, LocksRight
  <2>5. \A m \in PlanFiles : files'[m] <= built'
    BY <1>2, <2>1
  <2>6. FilesRight' /\ ReadyIsComplete'
    BY <1>1, <1>5, <2>1, <2>5 DEF FilesRight, ReadyIsComplete
  <2>7. RequestsRight'
    BY <1>1, <1>2, <2>1, RequestsKept
  <2>8. QED
    BY <1>6, <2>3, <2>4, <2>6, <2>7 DEF IInv
<1> QED
  BY <1>7, <1>8, <1>9 DEF Build

(* Nothing but locks of jobs that end, and those jobs, changes.            *)
LEMMA JobsEnd ==
    ASSUME IInv,
           UNCHANGED <<files, data, req, served, built, pool, prune, mixed, torn>>,
           lock' \in [Keys -> {"nobody", "job", "prune"} \cup Requests],
           job' \in [BatchKeys -> JobType], builder' \in {"none", builder},
           \A k \in Keys : lock'[k] = lock[k] \/ (lock[k] = "job" /\ lock'[k] = "nobody"),
           lock'[Plan] = "job" <=> builder' # "none",
           \A k \in BatchKeys :
              /\ lock'[k] = "job" <=> job'[k].state # "none"
              /\ job'[k].state # "none" => /\ job[k].state # "none" /\ job'[k].pool = job[k].pool
                                           /\ job'[k].build = job[k].build
    PROVE  IInv'
<1>1. Plan \in Keys /\ BatchKeys \subseteq Keys /\ Requests \cap {"nobody", "job", "prune"} = {}
  BY Constants, PlanCacheAssumption
<1>2. Typed'
  BY DEF IInv, Typed
<1>3. LocksRight'
  <2>1. \A k \in Keys : lock'[k] = "prune" <=> lock[k] = "prune"
    OBVIOUS
  <2>2. \A r \in Requests : Holds(req[r]) => lock'[Plan] = r
    BY <1>1 DEF IInv, LocksRight
  <2>3. QED
    BY <2>1, <2>2 DEF IInv, LocksRight
<1>4. FilesRight' /\ ReadyIsComplete'
  BY DEF IInv, FilesRight, ReadyIsComplete
<1>5. RequestsRight' /\ AnswersRight'
  BY DEF IInv, RequestsRight, RequestRight, AnswersRight
<1>6. BatchesRight'
  BY DEF IInv, BatchesRight, OfBuild
<1> QED
  BY <1>2, <1>3, <1>4, <1>5, <1>6 DEF IInv

LEMMA FailStep ==
    ASSUME IInv, FailPlan \/ \E k \in BatchKeys : FailBatch(k) \/ AcquireMemory(k)
    PROVE  IInv'
<1>1. Plan \in Keys /\ BatchKeys \subseteq Keys /\ Plan \notin BatchKeys
  BY Constants
<1>2. UNCHANGED <<files, data, req, served, built, pool, prune, mixed, torn>>
  BY DEF FailPlan, FailBatch, AcquireMemory, RequestVars, History
<1>3. NoJob \in JobType
  BY DEF NoJob, JobType, Contents, None
<1>4. CASE FailPlan
  <2>1. lock' = [lock EXCEPT ![Plan] = "nobody"] /\ builder' = "none" /\ job' = job /\ builder # "none"
    BY <1>4 DEF FailPlan, Fail
  <2>2. /\ lock' \in [Keys -> {"nobody", "job", "prune"} \cup Requests] /\ job' \in [BatchKeys -> JobType]
        /\ lock'[Plan] = "nobody" /\ \A k \in Keys : k # Plan => lock'[k] = lock[k]
        /\ lock[Plan] = "job"
    BY <1>1, <2>1 DEF IInv, Typed, LocksRight
  <2>3. \A k \in BatchKeys : lock'[k] = "job" <=> job'[k].state # "none"
    BY <1>1, <2>1, <2>2 DEF IInv, LocksRight
  <2>4. QED
    BY <1>1, <1>2, <2>1, <2>2, <2>3, JobsEnd
<1>5. ASSUME NEW k \in BatchKeys, FailBatch(k)
      PROVE  IInv'
  <2>1. /\ lock' = [lock EXCEPT ![k] = "nobody"] /\ builder' = builder
        /\ job' = [job EXCEPT ![k] = NoJob] /\ job[k].state # "none"
    BY <1>5 DEF FailBatch, Fail
  <2>2. /\ lock' \in [Keys -> {"nobody", "job", "prune"} \cup Requests] /\ job' \in [BatchKeys -> JobType]
        /\ lock'[k] = "nobody" /\ \A x \in Keys : x # k => lock'[x] = lock[x]
        /\ lock[k] = "job" /\ job'[k].state = "none" /\ \A x \in BatchKeys : x # k => job'[x] = job[x]
    BY <1>1, <1>3, <2>1 DEF IInv, Typed, LocksRight, NoJob
  <2>3. lock'[Plan] = "job" <=> builder' # "none"
    BY <1>1, <2>1, <2>2 DEF IInv, LocksRight
  <2>4. \A x \in BatchKeys : lock'[x] = "job" <=> job'[x].state # "none"
    BY <1>1, <2>2 DEF IInv, LocksRight
  <2>5. QED
    BY <1>1, <1>2, <2>1, <2>2, <2>3, <2>4, JobsEnd
<1>6. ASSUME NEW k \in BatchKeys, AcquireMemory(k)
      PROVE  IInv'
  <2>1. /\ lock' = lock /\ builder' = builder
        /\ job' = [job EXCEPT ![k].state = "load"] /\ job[k].state = "size"
    BY <1>6 DEF AcquireMemory
  <2>2. /\ job' \in [BatchKeys -> JobType]
        /\ \A x \in BatchKeys : /\ job'[x].state # "none" <=> job[x].state # "none"
                                /\ job'[x].build = job[x].build /\ job'[x].pool = job[x].pool
    BY <2>1 DEF IInv, Typed, JobType
  <2>3. lock' \in [Keys -> {"nobody", "job", "prune"} \cup Requests]
    BY <2>1 DEF IInv, Typed
  <2>4. lock'[Plan] = "job" <=> builder' # "none"
    BY <2>1 DEF IInv, LocksRight
  <2>5. \A x \in BatchKeys : lock'[x] = "job" <=> job'[x].state # "none"
    BY <2>1, <2>2 DEF IInv, LocksRight
  <2>6. QED
    BY <1>2, <2>1, <2>2, <2>3, <2>4, <2>5, JobsEnd
<1> QED
  BY <1>4, <1>5, <1>6

LEMMA PublishBatchStep ==
    ASSUME IInv, NEW k \in BatchKeys, PublishBatch(k)
    PROVE  IInv'
<1>1. k \in Keys /\ k # Plan /\ Plan \in Keys /\ BatchKeys \subseteq Keys
  BY Constants
<1>2. /\ UNCHANGED <<files, error, req, served, builder, built, pool, prune, mixed, torn>>
      /\ job[k].state # "none" /\ lock[k] = "job"
  BY DEF PublishBatch, RequestVars, History, IInv, LocksRight
<1>3. NoJob \in JobType /\ NoJob.state = "none"
  BY DEF NoJob, JobType, Contents, None
<1>4. /\ job' \in [BatchKeys -> JobType] /\ job'[k].state = "none"
      /\ \A x \in BatchKeys : x # k => job'[x] = job[x]
  BY <1>3 DEF PublishBatch, IInv, Typed
<1>5. job[k] \in JobType
  BY DEF IInv, Typed
<1>6. job[k].build \in Contents
  BY <1>5 DEF JobType
<1>7. /\ data' \in [BatchKeys -> Contents] /\ data'[k] = job[k].build
      /\ \A x \in BatchKeys : x # k => data'[x] = data[x]
  BY <1>6 DEF PublishBatch, IInv, Typed
<1>8. /\ lock' \in [Keys -> {"nobody", "job", "prune"} \cup Requests]
      /\ lock'[k] = "nobody" /\ \A x \in Keys : x # k => lock'[x] = lock[x]
  BY <1>1 DEF PublishBatch, IInv, Typed
<1>9. Typed'
  BY <1>2, <1>4, <1>7, <1>8 DEF IInv, Typed
<1>10. LocksRight'
  <2>1. \A x \in Keys : lock'[x] = "prune" <=> lock[x] = "prune"
    BY <1>2, <1>8
  <2>2. \A x \in BatchKeys : lock'[x] = "job" <=> job'[x].state # "none"
    BY <1>1, <1>4, <1>8 DEF IInv, LocksRight
  <2>3. QED
    BY <1>1, <1>2, <1>8, <2>1, <2>2 DEF IInv, LocksRight
<1>11. FilesRight' /\ ReadyIsComplete'
  BY <1>2 DEF IInv, FilesRight, ReadyIsComplete
<1>12. RequestsRight' /\ AnswersRight'
  BY <1>2 DEF IInv, RequestsRight, RequestRight, AnswersRight
<1>13. BatchesRight'
  <2>1. OfBuild(data'[k], k)
    BY <1>2, <1>7 DEF IInv, BatchesRight
  <2>2. QED
    BY <1>2, <1>4, <1>7, <2>1 DEF IInv, BatchesRight, OfBuild
<1> QED
  BY <1>9, <1>10, <1>11, <1>12, <1>13 DEF IInv

(* Pruning begins and ends; it tears the plan if its list has no "ready".  *)
LEMMA VictimStep ==
    ASSUME IInv, LockVictim \/ UnlockVictim \/ \E k \in Keys : Scan(k)
    PROVE  IInv'
<1>1. UNCHANGED <<files, data, req, served, builder, built, job, pool, mixed>>
  BY DEF LockVictim, UnlockVictim, Scan, RequestVars, History
<1>2. Plan \in Keys /\ BatchKeys \subseteq Keys /\ Requests \cap {"nobody", "job", "prune"} = {}
  BY Constants, PlanCacheAssumption
<1>3. RequestsRight' /\ BatchesRight' /\ AnswersRight'
  BY <1>1 DEF IInv, RequestsRight, RequestRight, BatchesRight, OfBuild, AnswersRight
<1>4. prune.group \in Keys
  BY DEF IInv, Typed
<1>5. NoPrune \in [group : Keys, state : {"none", "scanned", "remove"}, listed : SUBSET Members]
      /\ NoPrune.state = "none"
  BY <1>2 DEF NoPrune
<1>6. ASSUME prune.state # "remove", prune'.state # "remove",
             UNCHANGED <<lock, torn>>,
             prune' \in [group : Keys, state : {"none", "scanned", "remove"}, listed : SUBSET Members]
      PROVE  IInv'
  <2>1. Typed'
    BY <1>1, <1>6 DEF IInv, Typed
  <2>2. LocksRight' /\ FilesRight' /\ ReadyIsComplete'
    BY <1>1, <1>6 DEF IInv, LocksRight, FilesRight, ReadyIsComplete
  <2>3. QED
    BY <1>3, <2>1, <2>2 DEF IInv
<1>7. ASSUME NEW k \in Keys, Scan(k)
      PROVE  IInv'
  <2>1. Present(k) \subseteq Members
    BY DEF Present, Members
  <2>2. /\ prune' \in [group : Keys, state : {"none", "scanned", "remove"}, listed : SUBSET Members]
        /\ prune'.state = "scanned" /\ prune.state = "none" /\ UNCHANGED <<lock, torn>>
    BY <1>7, <2>1 DEF Scan
  <2>3. QED
    BY <1>6, <2>2
<1>8. CASE LockVictim /\ prune' = NoPrune /\ UNCHANGED <<lock, torn>>
  <2>1. prune.state # "remove" /\ prune'.state # "remove"
    BY <1>5, <1>8 DEF LockVictim
  <2>2. QED
    BY <1>5, <1>6, <1>8, <2>1
<1>9. CASE /\ lock[prune.group] = "nobody" /\ prune.state = "scanned"
           /\ lock' = [lock EXCEPT ![prune.group] = "prune"]
           /\ prune' = [prune EXCEPT !.state = "remove"]
           /\ torn' = (torn \/ (prune.group = Plan /\ files["ready"] # None
                                    /\ "ready" \notin prune.listed))
  <2>1. /\ prune' \in [group : Keys, state : {"none", "scanned", "remove"}, listed : SUBSET Members]
        /\ prune'.state = "remove" /\ prune'.group = prune.group /\ prune'.listed = prune.listed
    BY <1>9 DEF IInv, Typed
  <2>2. /\ lock' \in [Keys -> {"nobody", "job", "prune"} \cup Requests]
        /\ \A x \in Keys : lock'[x] = IF x = prune.group THEN "prune" ELSE lock[x]
    BY <1>4, <1>9 DEF IInv, Typed
  <2>3. torn' \in BOOLEAN
    BY <1>9
  <2>4. Typed'
    BY <1>1, <2>1, <2>2, <2>3 DEF IInv, Typed
  <2>5. LocksRight'
    <3>1. \A x \in Keys : lock'[x] = "prune" <=> x = prune.group
      BY <1>9, <2>2 DEF IInv, LocksRight
    <3>2. \A x \in Keys : lock'[x] = "job" <=> lock[x] = "job"
      BY <1>9, <2>2
    <3>3. \A x \in Requests : Holds(req[x]) => lock'[Plan] = x
      BY <1>2, <1>9, <2>2 DEF IInv, LocksRight
    <3>4. QED
      BY <1>1, <1>2, <2>1, <3>1, <3>2, <3>3 DEF IInv, LocksRight
  <2>6. FilesRight'
    BY <1>1, <1>9, <2>1 DEF IInv, FilesRight
  <2>7. ReadyIsComplete'
    BY <1>1, <1>9 DEF IInv, ReadyIsComplete
  <2>8. QED
    BY <1>3, <2>4, <2>5, <2>6, <2>7 DEF IInv
<1>10. CASE UnlockVictim
  <2>1. /\ lock[prune.group] = "prune" /\ prune.state = "remove" /\ prune' = NoPrune
        /\ lock' = [lock EXCEPT ![prune.group] = "nobody"] /\ torn' = torn
    BY <1>4, <1>10 DEF UnlockVictim, History, IInv, LocksRight
  <2>2. /\ lock' \in [Keys -> {"nobody", "job", "prune"} \cup Requests]
        /\ \A x \in Keys : lock'[x] = IF x = prune.group THEN "nobody" ELSE lock[x]
    BY <1>4, <2>1 DEF IInv, Typed
  <2>3. Typed'
    BY <1>1, <1>5, <2>1, <2>2 DEF IInv, Typed
  <2>4. LocksRight'
    <3>1. \A x \in Keys : lock'[x] # "prune"
      BY <2>2 DEF IInv, LocksRight
    <3>2. \A x \in Keys : lock'[x] = "job" <=> lock[x] = "job"
      BY <2>1, <2>2
    <3>3. \A x \in Requests : Holds(req[x]) => lock'[Plan] = x
      BY <1>2, <2>1, <2>2 DEF IInv, LocksRight
    <3>4. QED
      BY <1>1, <1>2, <1>5, <2>1, <3>1, <3>2, <3>3 DEF IInv, LocksRight
  <2>5. FilesRight' /\ ReadyIsComplete'
    BY <1>1, <1>5, <2>1 DEF IInv, FilesRight, ReadyIsComplete
  <2>6. QED
    BY <1>3, <2>3, <2>4, <2>5 DEF IInv
<1> QED
  BY <1>7, <1>8, <1>9, <1>10 DEF LockVictim

(* "ready" goes before the other files of a plan.                          *)
LEMMA RemoveMemberStep ==
    ASSUME IInv, RemoveMember
    PROVE  IInv'
<1>1. PICK m \in Members :
         /\ MayGo(m) /\ prune' = [prune EXCEPT !.listed = @ \ {m}]
         /\ files' = IF prune.group = Plan /\ m # "error"
                     THEN [files EXCEPT ![m] = None] ELSE files
         /\ data' = IF prune.group # Plan /\ m # "error"
                    THEN [data EXCEPT ![prune.group] = None] ELSE data
  BY DEF RemoveMember
<1>2. UNCHANGED <<lock, req, served, builder, built, job, pool, mixed, torn>> /\ prune.state = "remove"
  BY DEF RemoveMember, RequestVars, History
<1>3. /\ prune' \in [group : Keys, state : {"none", "scanned", "remove"}, listed : SUBSET Members]
      /\ prune'.state = "remove" /\ prune'.group = prune.group /\ prune'.listed = prune.listed \ {m}
  BY <1>1, <1>2 DEF IInv, Typed
<1>4. /\ files \in [PlanFiles -> Contents] /\ data \in [BatchKeys -> Contents]
      /\ built \in Nat /\ None \in Contents /\ prune.group \in Keys
  BY Constants DEF IInv, Typed, Contents
<1>5. /\ files' \in [PlanFiles -> Contents]
      /\ \A f \in PlanFiles :
            files'[f] = IF prune.group = Plan /\ f = m THEN None ELSE files[f]
  BY <1>1, <1>4 DEF Members, PlanFiles
<1>6. /\ data' \in [BatchKeys -> Contents]
      /\ \A k \in BatchKeys : data'[k] = None \/ data'[k] = data[k]
  BY <1>1, <1>4
<1>7. Typed'
  BY <1>2, <1>3, <1>5, <1>6 DEF IInv, Typed
<1>8. LocksRight'
  BY <1>2, <1>3 DEF IInv, LocksRight
<1>9. prune.group = Plan => builder = "none"
  BY <1>2, <1>4 DEF IInv, LocksRight
<1>10. m = "ready" \/ "ready" \notin prune.listed
  BY <1>1 DEF MayGo
<1>11. files'["ready"] # None => files'["ready"] = files["ready"]
  BY <1>5 DEF PlanFiles
<1>12. prune.group = Plan => torn \/ files'["ready"] = None
  <2>1. CASE m = "ready"
    BY <1>5, <2>1 DEF PlanFiles
  <2>2. CASE m # "ready"
    BY <1>2, <1>10, <1>11, <2>2 DEF IInv, FilesRight
  <2>3. QED
    BY <2>1, <2>2
<1>13. FilesRight'
  <2>1. \A f \in PlanFiles : files'[f] <= built
    BY <1>4, <1>5, Constants DEF IInv, FilesRight
  <2>2. files'["ready"] # None => /\ builder = "none"
                                  /\ files'["plan"] \in {None, files'["ready"]}
                                  /\ files'["index"] \in {None, files'["ready"]}
    BY <1>5, <1>11 DEF IInv, FilesRight, PlanFiles
  <2>3. builder # "none" => files' = files
    BY <1>1, <1>9
  <2>4. QED
    BY <1>2, <1>3, <1>12, <2>1, <2>2, <2>3 DEF IInv, FilesRight
<1>14. ReadyIsComplete'
  <2>1. CASE prune.group = Plan
    BY <1>2, <1>12, <2>1 DEF ReadyIsComplete
  <2>2. CASE prune.group # Plan
    BY <1>1, <1>2, <2>2 DEF IInv, ReadyIsComplete
  <2>3. QED
    BY <2>1, <2>2
<1>15. RequestsRight'
  <2>1. files'["plan"] \in {None, files["plan"], built + 1}
    BY <1>5 DEF PlanFiles
  <2>2. built' \in Nat /\ built <= built'
    BY <1>2, <1>4
  <2>3. QED
    BY <1>2, <2>1, <2>2, RequestsKept
<1>16. BatchesRight'
  BY <1>2, <1>6 DEF IInv, BatchesRight, OfBuild
<1>17. AnswersRight'
  BY <1>2 DEF IInv, AnswersRight
<1> QED
  BY <1>7, <1>8, <1>13, <1>14, <1>15, <1>16, <1>17 DEF IInv

LEMMA CrashStep ==
    ASSUME IInv, Crash
    PROVE  IInv'
<1>1. UNCHANGED <<files, data, served, built, mixed, torn>>
  BY DEF Crash
<1>2. PICK new : new = NewRequest
  OBVIOUS
<1>3. new = [NewRequest EXCEPT !.at = "ask"]
  BY <1>2 DEF NewRequest
<1>4. new \in RequestType /\ ~Holds(new) /\ \A r \in Requests : RequestRight(r, new)
  BY <1>3, NewIsRight
<1>5. /\ req' \in [Requests -> RequestType]
      /\ \A r \in Requests : req'[r] = new \/ (req[r].at = "done" /\ req'[r] = req[r])
  BY <1>2, <1>4 DEF Crash, IInv, Typed
<1>6. /\ lock' \in [Keys -> {"nobody", "job", "prune"} \cup Requests]
      /\ \A k \in Keys : lock'[k] = "nobody"
  BY DEF Crash
<1>7. /\ job' \in [BatchKeys -> JobType] /\ \A k \in BatchKeys : job'[k].state = "none"
  <2>1. NoJob \in JobType /\ NoJob.state = "none"
    BY DEF NoJob, JobType, Contents, None
  <2>2. QED
    BY <2>1 DEF Crash, IInv, Typed
<1>8. /\ builder' = "none" /\ pool' \in 0 .. 2 /\ prune'.state = "none"
      /\ prune' \in [group : Keys, state : {"none", "scanned", "remove"}, listed : SUBSET Members]
  BY Constants DEF Crash, NoPrune
<1>9. Typed'
  BY <1>1, <1>5, <1>6, <1>7, <1>8 DEF IInv, Typed
<1>10. LocksRight'
  <2>1. \A r \in Requests : ~Holds(req'[r])
    BY <1>4, <1>5 DEF Holds, In
  <2>2. QED
    BY <1>6, <1>7, <1>8, <2>1, Constants DEF LocksRight
<1>11. FilesRight' /\ ReadyIsComplete'
  BY <1>1, <1>8 DEF IInv, FilesRight, ReadyIsComplete
<1>12. RequestsRight'
  <2>1. \A r \in Requests : RequestRight(r, req'[r])
    BY <1>4, <1>5 DEF IInv, RequestsRight
  <2>2. QED
    BY <1>1, <2>1 DEF RequestsRight, RequestRight
<1>13. BatchesRight' /\ AnswersRight'
  BY <1>1, <1>7 DEF IInv, BatchesRight, OfBuild, AnswersRight
<1> QED
  BY <1>9, <1>10, <1>11, <1>12, <1>13 DEF IInv

(***************************************************************************)
(* The theorems                                                            *)
(***************************************************************************)
(* Locks, plans, generations and batches stay related as the inductive     *)
(* invariant says, in every interleaving of requests, jobs and pruning.    *)
THEOREM Inductive == Spec => []IInv
<1>1. Init => IInv
  <2> SUFFICES ASSUME Init PROVE IInv
    OBVIOUS
  <2>1. None \in Contents /\ 0 \in Contents /\ None = 0
    BY Constants DEF Contents
  <2>2. /\ NewRequest \in RequestType /\ NewRequest.at = "ask" /\ NewRequest.gen = 0
    BY <2>1 DEF NewRequest, RequestType
  <2>3. NoServed \in AnswerType /\ NoServed.kind = "none"
    BY <2>1 DEF NoServed, AnswerType
  <2>4. NoJob \in JobType /\ NoJob.state = "none"
    BY <2>1 DEF NoJob, JobType
  <2>5. /\ NoPrune \in [group : Keys, state : {"none", "scanned", "remove"}, listed : SUBSET Members]
        /\ NoPrune.state = "none"
    BY Constants DEF NoPrune
  <2>6. Typed
    <3>1. files \in [PlanFiles -> Contents] /\ data \in [BatchKeys -> Contents]
      BY <2>1 DEF Init, PlanFiles, BatchKeys
    <3>2. lock \in [Keys -> {"nobody", "job", "prune"} \cup Requests]
      BY DEF Init
    <3>3. req \in [Requests -> RequestType] /\ served \in [Requests -> AnswerType]
      BY <2>2, <2>3 DEF Init
    <3>4. job \in [BatchKeys -> JobType]
      BY <2>4 DEF Init, BatchKeys
    <3>5. built \in Contents /\ pool \in 0 .. 2
      BY <2>1 DEF Init
    <3>6. builder \in {"none", "query", "index", "ready"} /\ mixed \in BOOLEAN /\ torn \in BOOLEAN
      BY DEF Init
    <3>7. QED
      BY <2>5, <3>1, <3>2, <3>3, <3>4, <3>5, <3>6 DEF Init, Typed
  <2>7. LocksRight
    BY <2>2, <2>4, <2>5, Constants DEF Init, LocksRight, Holds, In, BatchKeys
  <2>8. FilesRight /\ ReadyIsComplete
    BY <2>1, <2>5 DEF Init, FilesRight, ReadyIsComplete, PlanFiles
  <2>9. RequestsRight
    BY <2>1, <2>2 DEF Init, RequestsRight, RequestRight, HasBatch, HasPlan, In
  <2>10. BatchesRight /\ AnswersRight
    BY <2>3, <2>4 DEF Init, BatchesRight, AnswersRight, RightAnswer, BatchKeys
  <2>11. QED
    BY <2>6, <2>7, <2>8, <2>9, <2>10 DEF IInv
<1>2. IInv /\ [Next]_vars => IInv'
  <2> SUFFICES ASSUME IInv, [Next]_vars PROVE IInv'
    OBVIOUS
  <2>1. ASSUME NEW r \in Requests, Request(r) \/ TimeOut(r)
        PROVE  IInv'
    BY <2>1, GotoStep, ReadStep, StartBuildStep, FailureStep, OpenPlanStep, ServeStep,
       StartLoadStep DEF Request
  <2>2. ASSUME NEW k \in BatchKeys, BatchJob(k) \/ FailBatch(k)
        PROVE  IInv'
    BY <2>2, FailStep, PublishBatchStep DEF BatchJob
  <2>3. CASE Build \/ FailPlan \/ Crash
    BY <2>3, BuildStep, FailStep, CrashStep
  <2>4. CASE Pruning \/ \E k \in Keys : Scan(k)
    BY <2>4, VictimStep, RemoveMemberStep DEF Pruning
  <2>5. CASE (\E k \in Keys : Age(k)) \/ UNCHANGED vars
    <3>1. UNCHANGED <<files, data, lock, req, served, builder, built, job, pool, prune, mixed, torn>>
      BY <2>5 DEF Age, vars, History, RequestVars
    <3>2. QED
      BY <3>1 DEF IInv, Typed, LocksRight, FilesRight, ReadyIsComplete, RequestsRight,
                  RequestRight, BatchesRight, OfBuild, AnswersRight
  <2>6. QED
    BY <2>1, <2>2, <2>3, <2>4, <2>5 DEF Next, BatchKeys
<1>3. QED
  BY <1>1, <1>2, PTL DEF Spec

(* What a request is served is what one build says of its sequence number, *)
(* unless a plan was replaced between its reading of the generation and    *)
(* its opening of the plan; for all the queries and whatever is pruned.    *)
COROLLARY ServedByOnePlanAlways == Spec => []ServedByOnePlanUnlessReplaced
<1>1. IInv => ServedByOnePlanUnlessReplaced
  BY DEF IInv, AnswersRight, RightAnswer, ServedByOnePlanUnlessReplaced, ServedByOnePlan, Right
<1>2. QED
  BY <1>1, Inductive, PTL

(* The directory of a generation never holds samples of an older build.    *)
COROLLARY NeverOlderAlways == Spec => []NeverOlder
<1>1. IInv => NeverOlder
  BY DEF IInv, Typed, BatchesRight, OfBuild, NeverOlder
<1>2. QED
  BY <1>1, Inductive, PTL

(* "ready" promises plan and index of its build, unless pruning began from *)
(* a list made before it was there.                                        *)
COROLLARY ReadyIsCompleteAlways == Spec => []ReadyIsComplete
<1>1. IInv => ReadyIsComplete
  BY DEF IInv
<1>2. QED
  BY <1>1, Inductive, PTL

(***************************************************************************)
(* The memory of the loads that run together.  They share one semaphore    *)
(* (BatchesRight), so what is taken from it is what all of them hold.      *)
(***************************************************************************)
AllLoading == {k \in BatchKeys : job[k].state = "load"}
LoadsFit == IsFiniteSet(PermitsOf(AllLoading)) /\ Cardinality(PermitsOf(AllLoading)) <= Pool

LEMMA LoadingIs ==
    ASSUME IInv
    PROVE  /\ \A p : p # pool => Loading(p) = {}
           /\ pool # 0 => Loading(pool) = AllLoading
           /\ pool = 0 => AllLoading = {}
BY DEF IInv, Typed, BatchesRight, Loading, AllLoading

(* One more load takes no more permits than its own.                       *)
LEMMA PermitsAdd ==
    ASSUME NEW S, IsFiniteSet(PermitsOf(S)), NEW k \in BatchKeys
    PROVE  /\ IsFiniteSet(PermitsOf(S \cup {k}))
           /\ Cardinality(PermitsOf(S \cup {k})) <= Cardinality(PermitsOf(S)) + Permits(k[2])
<1> DEFINE U == {k} \X (1 .. Permits(k[2]))
<1>1. Permits(k[2]) \in Nat
  BY PlanCacheAssumption DEF Permits, BatchKeys
<1>2. IsFiniteSet({k}) /\ Cardinality({k}) = 1
  BY FS_Singleton
<1>3. IsFiniteSet(1 .. Permits(k[2])) /\ Cardinality(1 .. Permits(k[2])) = Permits(k[2])
  BY <1>1, FS_Interval
<1>4. IsFiniteSet(U) /\ Cardinality(U) = Cardinality({k}) * Cardinality(1 .. Permits(k[2]))
  BY <1>2, <1>3, FS_Product
<1>5. Cardinality(U) = Permits(k[2])
  BY <1>1, <1>2, <1>3, <1>4
<1>6. PermitsOf(S \cup {k}) = PermitsOf(S) \cup U
  BY DEF PermitsOf
<1> HIDE DEF U
<1>7. /\ IsFiniteSet(PermitsOf(S) \cup U)
      /\ Cardinality(PermitsOf(S) \cup U)
           = Cardinality(PermitsOf(S)) + Cardinality(U) - Cardinality(PermitsOf(S) \cap U)
  BY <1>4, FS_Union
<1>8. Cardinality(PermitsOf(S) \cap U) \in Nat /\ Cardinality(PermitsOf(S)) \in Nat
  BY FS_Intersection, FS_CardinalityType
<1>9. Cardinality(PermitsOf(S) \cup U) <= Cardinality(PermitsOf(S)) + Permits(k[2])
  BY <1>1, <1>5, <1>7, <1>8
<1> QED
  BY <1>6, <1>7, <1>9

(* Steps that start no load.                                               *)
LEMMA FewerLoads ==
    ASSUME LoadsFit, AllLoading' \subseteq AllLoading
    PROVE  LoadsFit'
<1>1. PermitsOf(AllLoading') \subseteq PermitsOf(AllLoading)
  BY DEF PermitsOf
<1>2. /\ IsFiniteSet(PermitsOf(AllLoading'))
      /\ Cardinality(PermitsOf(AllLoading')) <= Cardinality(PermitsOf(AllLoading))
  BY <1>1, FS_Subset DEF LoadsFit
<1>3. Cardinality(PermitsOf(AllLoading)) \in Nat /\ Pool \in Nat
  BY FS_CardinalityType, PlanCacheAssumption DEF LoadsFit
<1>4. Cardinality(PermitsOf(AllLoading')) \in Nat
  BY <1>2, FS_CardinalityType
<1>5. IsFiniteSet(PermitsOf(AllLoading')) /\ Cardinality(PermitsOf(AllLoading')) <= Pool
  BY <1>2, <1>3, <1>4 DEF LoadsFit
<1> QED
  BY <1>5 DEF LoadsFit

LEMMA AcquireStep ==
    ASSUME IInv, LoadsFit, NEW k \in BatchKeys, AcquireMemory(k)
    PROVE  LoadsFit'
<1>1. job[k].pool = pool /\ pool # 0
  BY DEF AcquireMemory, IInv, BatchesRight
<1>2. Cardinality(PermitsOf(AllLoading)) + Permits(k[2]) <= Pool
  BY <1>1, LoadingIs DEF AcquireMemory, Taken
<1>3. AllLoading' = AllLoading \cup {k}
  BY DEF AcquireMemory, AllLoading, IInv, Typed
<1>4. /\ IsFiniteSet(PermitsOf(AllLoading'))
      /\ Cardinality(PermitsOf(AllLoading')) <= Cardinality(PermitsOf(AllLoading)) + Permits(k[2])
  BY <1>3, PermitsAdd DEF LoadsFit
<1>5. /\ Cardinality(PermitsOf(AllLoading)) \in Nat /\ Permits(k[2]) \in Nat /\ Pool \in Nat
  BY FS_CardinalityType, PlanCacheAssumption DEF LoadsFit, Permits, BatchKeys
<1>6. Cardinality(PermitsOf(AllLoading')) \in Nat
  BY <1>4, FS_CardinalityType
<1>7. IsFiniteSet(PermitsOf(AllLoading')) /\ Cardinality(PermitsOf(AllLoading')) <= Pool
  BY <1>2, <1>4, <1>5, <1>6
<1> QED
  BY <1>7 DEF LoadsFit

(* The loads that run together never take more than the stream's share,    *)
(* for any sizes and numbers of loads, over failures and crashes and       *)
(* however often the semaphore is dropped and made again in between.       *)
THEOREM LoadingIsBounded == Spec => []LoadingBounded
<1>1. Init => LoadsFit
  <2> SUFFICES ASSUME Init PROVE LoadsFit
    OBVIOUS
  <2>1. PermitsOf(AllLoading) = {}
    BY DEF Init, AllLoading, NoJob, PermitsOf, BatchKeys
  <2>2. QED
    BY <2>1, FS_EmptySet, PlanCacheAssumption DEF LoadsFit
<1>2. IInv /\ LoadsFit /\ [Next]_vars => LoadsFit'
  <2> SUFFICES ASSUME IInv, LoadsFit, [Next]_vars PROVE LoadsFit'
    OBVIOUS
  <2> USE DEF AllLoading
  <2>0. job \in [BatchKeys -> JobType]
    BY DEF IInv, Typed
  <2>1. CASE job' = job
    BY <2>1, FewerLoads
  <2>2. ASSUME NEW r \in Requests, StartLoad(r)
        PROVE  LoadsFit'
    BY <2>0, <2>2, FewerLoads DEF StartLoad
  <2>3. ASSUME NEW r \in Requests, Request(r) \/ TimeOut(r), ~StartLoad(r)
        PROVE  job' = job
    BY <2>3 DEF Request, TimeOut, Ask, ReadReady, LockPlan, StartBuild, PlanAppears, ReadFailure,
                RemoveFailure, OpenIndex, OpenPlan, FindBatch, ServeBatch, MissBatch, JobVars
  <2>4. ASSUME NEW k \in BatchKeys, BatchJob(k) \/ FailBatch(k)
        PROVE  LoadsFit'
    <3>1. CASE AcquireMemory(k)
      BY <3>1, AcquireStep
    <3>2. CASE PublishBatch(k) \/ FailBatch(k)
      BY <2>0, <3>2, FewerLoads DEF PublishBatch, FailBatch, NoJob
    <3>3. QED
      BY <2>4, <3>1, <3>2 DEF BatchJob
  <2>5. CASE Crash
    BY <2>0, <2>5, FewerLoads DEF Crash, NoJob
  <2>6. CASE Build \/ FailPlan \/ Pruning \/ \E k \in Keys : Scan(k) \/ Age(k)
    <3>1. job' = job
      BY <2>6 DEF Build, PublishPlan, PublishIndex, PublishReady, FailPlan, Pruning, LockVictim,
                  RemoveMember, UnlockVictim, Scan, Age
    <3>2. QED
      BY <2>1, <3>1
  <2>7. CASE UNCHANGED vars
    BY <2>1, <2>7 DEF vars
  <2>8. QED
    BY <2>1, <2>2, <2>3, <2>4, <2>5, <2>6, <2>7 DEF Next, BatchKeys
<1>3. IInv /\ LoadsFit => LoadingBounded
  <2> SUFFICES ASSUME IInv, LoadsFit PROVE LoadingBounded
    OBVIOUS
  <2>1. PermitsOf({}) = {} /\ Cardinality({}) = 0
    BY FS_EmptySet DEF PermitsOf
  <2>2. pool \in 0 .. 2 /\ Pool \in Nat
    BY PlanCacheAssumption DEF IInv, Typed
  <2>3. Cardinality(PermitsOf(AllLoading)) \in Nat /\ Cardinality(PermitsOf(AllLoading)) <= Pool
    BY FS_CardinalityType DEF LoadsFit
  <2>4. \A p : p # pool => Taken(p) = 0
    BY <2>1, LoadingIs DEF Taken
  <2>5. pool # 0 => Taken(pool) = Cardinality(PermitsOf(AllLoading))
    BY LoadingIs DEF Taken
  <2>6. QED
    BY <2>2, <2>3, <2>4, <2>5 DEF LoadingBounded
<1>4. QED
  BY <1>1, <1>2, <1>3, Inductive, PTL DEF Spec

(***************************************************************************)
(* What is in a batch: the inductive invariant                             *)
(***************************************************************************)
(* The rows taken so far that were valid, and the batches they are of.     *)
TakenRows == {i \in 1 .. row : query[i].valid}
PlanRows == {plan[k].row : k \in DOMAIN plan}
PlanBatches == {plan[k].row.batch : k \in DOMAIN plan}

(* The plan has the valid rows in order, one record after another; nothing *)
(* is said of the row that fails the plan.                                 *)
PlanRight ==
    /\ step # "done" => PlanRows = {query[i] : i \in TakenRows} /\ Ordered(TakenRows)
    /\ \A k, l \in DOMAIN plan :
           k < l => /\ Before(plan[k].row, plan[l].row)
                    /\ plan[k].at + Width(plan[k].row) <= plan[l].at
    /\ \A k \in DOMAIN plan :
           plan[k].at + Width(plan[k].row) =
               IF k = Len(plan) THEN bytes ELSE plan[k + 1].at
    /\ IF plan = <<>> THEN previous = NoRow /\ bytes = 0 ELSE previous = plan[Len(plan)].row

(* The index has the first record of each batch, in order.                 *)
FirstOfBatch(k) == k > 1 => plan[k - 1].row.batch # plan[k].row.batch
Earlier(b) == {c \in PlanBatches : c < b}

IndexRight ==
    /\ Len(offsets) = Cardinality(PlanBatches)
    /\ \A n \in DOMAIN offsets : \E k \in DOMAIN plan :
           /\ plan[k].at = offsets[n] /\ FirstOfBatch(k)
           /\ Cardinality(Earlier(plan[k].row.batch)) = n - 1

(* What was read is the plan from the first record of that batch.          *)
ReadFrom(k) ==
    /\ FirstOfBatch(k)
    /\ Cardinality(Earlier(plan[k].row.batch)) = sequence % Cardinality(PlanBatches)
    /\ Len(batch) <= Len(plan) - k + 1
    /\ \A i \in DOMAIN batch : /\ batch[i] = plan[k + i - 1].row
                               /\ batch[i].batch = plan[k].row.batch
    /\ at = IF k + Len(batch) > Len(plan) THEN bytes ELSE plan[k + Len(batch)].at

BatchRight ==
    /\ step \in {"spool", "open"} => batch = <<>>
    /\ step = "read" => \E k \in DOMAIN plan : ReadFrom(k)
    /\ step \in {"load", "join"} =>
           /\ Range(batch) = {query[i] : i \in {j \in TakenRows : Its(query[j].batch)}}
           /\ Range(batch) # {} /\ row = Len(query) /\ Ordered(TakenRows)
           /\ \A i, j \in DOMAIN batch : i < j => Before(batch[i], batch[j])

(* A part of a read is where its reference is; a read ends with a part.    *)
PartRight(read, part) ==
    LET reference == Reference(part[1]) IN
    /\ part \in Places \X Nat \X Nat
    /\ reference.object = read.object
    /\ part[3] = Size(reference) /\ part[2] + part[3] <= read.size
    /\ IF read.offset = Whole THEN reference.offset = Whole /\ part[2] = 0
       ELSE reference.offset # Whole /\ reference.offset = read.offset + part[2]

ReadRight(read) ==
    /\ read.object \in Objects /\ read.offset \in {Whole} \cup Nat /\ read.size \in Nat
    /\ \A part \in read.parts : PartRight(read, part)
    /\ \E part \in read.parts : part[2] + part[3] = read.size

JoinRight ==
    /\ step \in {"spool", "open", "read", "load"} => queue = <<>> /\ reads = <<>>
    /\ \A n \in DOMAIN reads : ReadRight(reads[n])
    /\ step = "join" =>
           \A place \in Places :
               \/ \E i \in DOMAIN queue : queue[i] = place
               \/ \E n \in DOMAIN reads : \E part \in reads[n].parts : part[1] = place

LoadInv ==
    /\ LoadTypeOK /\ PlanRight /\ IndexRight /\ BatchRight /\ JoinRight
    /\ ReservedBeforeUse /\ ServesTheQuery
    /\ step \in {"open", "read", "load", "join"} => row = Len(query)
    /\ step # "done" => answer.kind = "none"

(***************************************************************************)
(* Rows, records and reservations                                          *)
(***************************************************************************)
LEMMA ReservationsHold ==
    ASSUME NEW n \in Nat
    PROVE  Reservations(n) \in Nat /\ n <= Reservations(n) * Reservation
<1>1. Reservation \in Nat \ {0}
  BY BatchLoadAssumption
<1> DEFINE a == n + Reservation - 1
           q == a \div Reservation
           m == a % Reservation
<1>2. a \in Nat
  BY <1>1
<1>3. q \in Nat /\ m \in 0 .. Reservation - 1 /\ a = q * Reservation + m
  <2> HIDE DEF a
  <2>1. QED
    BY <1>1, <1>2
<1>4. q * Reservation \in Nat
  <2> HIDE DEF q
  <2>1. QED
    BY <1>1, <1>3
<1>5. n <= q * Reservation
  <2> HIDE DEF q, m
  <2> DEFINE x == q * Reservation
  <2> HIDE DEF x
  <2>1. x \in Nat /\ n + Reservation - 1 = x + m
    BY <1>3, <1>4 DEF x
  <2>2. n <= x
    BY <1>1, <1>3, <2>1
  <2>3. QED
    BY <2>2 DEF x
<1> QED
  BY <1>3, <1>5 DEF Reservations

LEMMA MoreHoldMore ==
    ASSUME NEW n \in Nat, NEW m \in Nat, n <= m, NEW l \in Nat, l <= n * Reservation
    PROVE  l <= m * Reservation
<1>1. Reservation \in Nat
  BY BatchLoadAssumption
<1>2. n * Reservation <= m * Reservation
  BY <1>1
<1>3. n * Reservation \in Nat /\ m * Reservation \in Nat
  BY <1>1
<1> QED
  BY <1>2, <1>3

LEMMA ReservedForHolds ==
    ASSUME NEW record \in Rows, NEW entries \in Nat, bytes \in Nat, reserved \in Nat
    PROVE  /\ ReservedFor(record, entries) \in Nat
           /\ bytes + Width(record) + entries <= ReservedFor(record, entries) * Reservation
<1> DEFINE l == bytes + entries + Width(record)
<1>1. l \in Nat /\ l = bytes + Width(record) + entries
  BY DEF Rows, Width
<1> HIDE DEF l
<1>2. Reservations(l) \in Nat /\ l <= Reservations(l) * Reservation
  BY <1>1, ReservationsHold
<1>3. ReservedFor(record, entries) = AtLeast(Reservations(l), reserved)
  BY DEF ReservedFor, l
<1>4. AtLeast(Reservations(l), reserved) \in Nat /\ Reservations(l) <= AtLeast(Reservations(l), reserved)
  BY <1>2 DEF AtLeast
<1> QED
  BY <1>1, <1>2, <1>3, <1>4, MoreHoldMore

LEMMA SeqIn ==
    ASSUME NEW S, NEW T, NEW s \in Seq(S), \A i \in 1 .. Len(s) : s[i] \in T
    PROVE  s \in Seq(T)
BY SMT

LEMMA QueryTyped ==
    ASSUME LoadTypeOK
    PROVE  /\ query \in Seq(Rows) /\ \A i \in DOMAIN query : query[i] \in Rows
           /\ Range(query) \subseteq Rows
           /\ plan \in Seq([row : Rows, at : Nat])
           /\ \A k \in DOMAIN plan : plan[k].row \in Rows /\ plan[k].at \in Nat
           /\ batch \in Seq(Rows) /\ \A i \in DOMAIN batch : batch[i] \in Rows
<1>1. query \in Seq(Rows)
  BY BatchLoadAssumption DEF LoadTypeOK
<1>2. \A i \in DOMAIN query : query[i] \in Rows
  BY <1>1
<1>3. Range(query) \subseteq Rows
  BY <1>2 DEF Range
<1>4. plan \in Seq([row : Rows, at : Nat])
  <2> DEFINE S == [row : Range(query), at : Nat]
             T == [row : Rows, at : Nat]
  <2>1. plan \in Seq(S)
    BY DEF LoadTypeOK
  <2>2. S \subseteq T
    BY <1>3
  <2> HIDE DEF S, T
  <2>3. \A k \in 1 .. Len(plan) : plan[k] \in T
    BY <2>1, <2>2
  <2>4. plan \in Seq(T)
    BY <2>1, <2>3, SeqIn
  <2>5. QED
    BY <2>4 DEF T
<1>5. batch \in Seq(Rows)
  <2>1. batch \in Seq(Range(query))
    BY DEF LoadTypeOK
  <2> HIDE DEF Rows
  <2>2. QED
    BY <1>3, <2>1
<1>6. \A k \in DOMAIN plan : plan[k].row \in Rows /\ plan[k].at \in Nat
  <2> DEFINE R == [row : Rows, at : Nat]
  <2>1. plan \in Seq(R)
    BY <1>4
  <2>2. \A r \in R : r.row \in Rows /\ r.at \in Nat
    OBVIOUS
  <2> HIDE DEF R
  <2>3. \A k \in DOMAIN plan : plan[k] \in R
    BY <2>1
  <2>4. QED
    BY <2>2, <2>3
<1> QED
  BY <1>1, <1>2, <1>3, <1>4, <1>5, <1>6

LEMMA RowTypes ==
    \A r \in Rows : /\ r.batch \in Nat /\ r.sample \in Nat /\ r.width \in Nat
                    /\ r.blobs \in Seq(References) /\ Width(r) \in Nat \ {0}
                    /\ r # NoRow /\ r.valid \in BOOLEAN
BY DEF Rows, Width, NoRow

LEMMA BeforeIsOrder ==
    /\ \A a, b, c \in Rows : Before(a, b) /\ Before(b, c) => Before(a, c)
    /\ \A a, b \in Rows : Before(a, b) => a.batch <= b.batch
BY RowTypes DEF Before

(***************************************************************************)
(* Spooling the rows                                                       *)
(***************************************************************************)
LEMMA LoadStarts == LoadInit => LoadInv
<1> SUFFICES ASSUME LoadInit PROVE LoadInv
  OBVIOUS
<1>1. query \in Seq(Rows)
  BY BatchLoadAssumption DEF LoadInit
<1>2. LoadTypeOK
  BY <1>1 DEF LoadInit, LoadTypeOK, NoBlobs
<1>3. PlanRight
  BY DEF LoadInit, PlanRight, PlanRows, TakenRows, Ordered
<1>4. IndexRight
  <2>1. PlanBatches = {}
    BY DEF LoadInit, PlanBatches
  <2>2. QED
    BY <2>1, FS_EmptySet DEF LoadInit, IndexRight
<1>5. BatchRight /\ JoinRight /\ ServesTheQuery
  BY DEF LoadInit, BatchRight, JoinRight, ServesTheQuery, NoBlobs
<1>6. ReservedBeforeUse
  BY BatchLoadAssumption DEF LoadInit, ReservedBeforeUse
<1> QED
  BY <1>2, <1>3, <1>4, <1>5, <1>6 DEF LoadInit, LoadInv, NoBlobs

LEMMA PlanBatchesFinite ==
    ASSUME LoadTypeOK
    PROVE  IsFiniteSet(PlanBatches) /\ PlanBatches \subseteq Nat
<1>1. Len(plan) \in Nat /\ DOMAIN plan = 1 .. Len(plan)
  BY QueryTyped
<1>2. IsFiniteSet(1 .. Len(plan))
  BY <1>1, FS_Interval
<1>3. IsFiniteSet({plan[k].row.batch : k \in 1 .. Len(plan)})
  <2> DEFINE S == 1 .. Len(plan)
             T == {plan[k].row.batch : k \in S}
             f == [k \in S |-> plan[k].row.batch]
  <2>1. f \in Surjection(S, T)
    BY DEF Surjection
  <2>2. QED
    BY <1>2, <2>1, FS_Surjection
<1>4. PlanBatches \subseteq Nat
  BY QueryTyped, RowTypes DEF PlanBatches
<1> QED
  BY <1>1, <1>3, <1>4 DEF PlanBatches

(* The records of the plan are before the row that is written next.        *)
LEMMA PlanBefore ==
    ASSUME LoadInv, NEW next \in Rows, previous = NoRow \/ Before(previous, next)
    PROVE  \A k \in DOMAIN plan : /\ Before(plan[k].row, next)
                                  /\ plan[k].row.batch <= next.batch
                                  /\ plan[k].at + Width(plan[k].row) <= bytes
                                  /\ previous.batch # next.batch => plan[k].row.batch < next.batch
<1> SUFFICES ASSUME NEW k \in DOMAIN plan
             PROVE  /\ Before(plan[k].row, next)
                    /\ plan[k].row.batch <= next.batch
                    /\ plan[k].at + Width(plan[k].row) <= bytes
                    /\ previous.batch # next.batch => plan[k].row.batch < next.batch
  OBVIOUS
<1> DEFINE l == Len(plan)
<1>1. /\ l \in Nat /\ DOMAIN plan = 1 .. l /\ k \in 1 .. l /\ l \in DOMAIN plan
      /\ plan[k].row \in Rows /\ plan[l].row \in Rows
      /\ plan[k].at \in Nat /\ plan[l].at \in Nat /\ bytes \in Nat
  BY QueryTyped DEF LoadInv, LoadTypeOK
<1>2. previous = plan[l].row /\ previous # NoRow
  BY <1>1, RowTypes DEF LoadInv, PlanRight
<1>3. Before(plan[l].row, next)
  BY <1>2
<1>4. plan[l].at + Width(plan[l].row) = bytes
  BY <1>1 DEF LoadInv, PlanRight
<1>5. k # l => /\ Before(plan[k].row, plan[l].row)
               /\ plan[k].at + Width(plan[k].row) <= plan[l].at
  BY <1>1 DEF LoadInv, PlanRight
<1>6. Before(plan[k].row, next)
  BY <1>1, <1>3, <1>5, BeforeIsOrder
<1>7. plan[k].row.batch <= plan[l].row.batch /\ plan[l].row.batch <= next.batch
  BY <1>1, <1>3, <1>5, RowTypes, BeforeIsOrder
<1>8. plan[k].row.batch \in Nat /\ plan[l].row.batch \in Nat /\ next.batch \in Nat
      /\ Width(plan[k].row) \in Nat /\ Width(plan[l].row) \in Nat
  BY <1>1, RowTypes
<1>9. plan[k].at + Width(plan[k].row) <= bytes
  BY <1>1, <1>4, <1>5, <1>8
<1> QED
  BY <1>2, <1>6, <1>7, <1>8, <1>9

(* A row out of order: the plan fails, and the query is not ordered.       *)
LEMMA SpoolFails ==
    ASSUME LoadInv, step = "spool", row < Len(query), row' = row + 1,
           previous # NoRow, ~Before(previous, query[row + 1]),
           answer' = NoBlobs("failed"), step' = "done",
           UNCHANGED <<previous, plan, bytes, offsets, reserved>>,
           UNCHANGED <<query, sequence, repeat, at, batch, queue, reads>>
    PROVE  LoadInv'
<1>1. LoadTypeOK'
  BY DEF LoadInv, LoadTypeOK, Places, NoBlobs
<1>2. PlanRight' /\ IndexRight'
  <2>1. PlanRight'
    BY DEF LoadInv, PlanRight
  <2>2. PlanBatches' = PlanBatches /\ (\A b : Earlier(b)' = Earlier(b))
        /\ \A k : FirstOfBatch(k)' = FirstOfBatch(k)
    BY DEF Earlier, PlanBatches, FirstOfBatch
  <2>3. IndexRight'
    BY <2>2 DEF LoadInv, IndexRight
  <2>4. QED
    BY <2>1, <2>3
<1>3. BatchRight' /\ JoinRight' /\ ReservedBeforeUse'
  BY DEF LoadInv, BatchRight, JoinRight, ReservedBeforeUse
<1>4. ~Ordered(DOMAIN query)
  <2> DEFINE l == Len(plan)
  <2>1. l \in Nat /\ DOMAIN plan = 1 .. l /\ row \in Nat /\ Len(query) \in Nat
        /\ DOMAIN query = 1 .. Len(query)
    BY QueryTyped DEF LoadInv, LoadTypeOK
  <2>2. plan # <<>> /\ previous = plan[l].row
    BY DEF LoadInv, PlanRight
  <2>3. l \in DOMAIN plan
    BY <2>1, <2>2, QueryTyped DEF LoadInv
  <2>4. previous \in PlanRows
    BY <2>2, <2>3 DEF PlanRows
  <2>5. PICK i \in TakenRows : query[i] = previous
    BY <2>4 DEF LoadInv, PlanRight
  <2>6. i \in DOMAIN query /\ row + 1 \in DOMAIN query /\ i < row + 1
    BY <2>1, <2>5 DEF TakenRows
  <2>7. QED
    BY <2>5, <2>6 DEF Ordered
<1>5. ServesTheQuery'
  BY <1>4 DEF ServesTheQuery, NoBlobs, Ordered
<1> QED
  BY <1>1, <1>2, <1>3, <1>5 DEF LoadInv

LEMMA SpoolSkips ==
    ASSUME LoadInv, step = "spool", row < Len(query), row' = row + 1,
           ~query[row + 1].valid,
           UNCHANGED <<previous, plan, bytes, offsets, reserved, answer, step>>,
           UNCHANGED <<query, sequence, repeat, at, batch, queue, reads>>
    PROVE  LoadInv'
<1>0. row \in Nat /\ Len(query) \in Nat
  BY QueryTyped DEF LoadInv, LoadTypeOK
<1>1. LoadTypeOK'
  BY <1>0 DEF LoadInv, LoadTypeOK, Places
<1>2. TakenRows' = TakenRows
  BY <1>0 DEF TakenRows
<1>3. PlanRight' /\ IndexRight'
  <2>1. PlanRows' = PlanRows /\ {query[i] : i \in TakenRows}' = {query[i] : i \in TakenRows}
    BY <1>2 DEF PlanRows
  <2>2. Ordered(TakenRows)' = Ordered(TakenRows)
    BY <1>2 DEF Ordered
  <2>3. PlanRight'
    BY <2>1, <2>2 DEF LoadInv, PlanRight
  <2>4. PlanBatches' = PlanBatches /\ (\A b : Earlier(b)' = Earlier(b))
        /\ \A k : FirstOfBatch(k)' = FirstOfBatch(k)
    BY DEF Earlier, PlanBatches, FirstOfBatch
  <2>5. IndexRight'
    BY <2>4 DEF LoadInv, IndexRight
  <2>6. QED
    BY <2>3, <2>5
<1>4. BatchRight' /\ JoinRight' /\ ReservedBeforeUse' /\ ServesTheQuery'
  BY DEF LoadInv, BatchRight, JoinRight, ReservedBeforeUse, ServesTheQuery
<1> QED
  BY <1>1, <1>3, <1>4 DEF LoadInv

(* The plan with one record more.                                          *)
LEMMA PlanGrows ==
    ASSUME LoadInv, NEW next \in Rows, previous = NoRow \/ Before(previous, next),
           plan' = Append(plan, [row |-> next, at |-> bytes])
    PROVE  /\ Len(plan) \in Nat /\ Len(plan') = Len(plan) + 1
           /\ DOMAIN plan = 1 .. Len(plan) /\ DOMAIN plan' = 1 .. Len(plan) + 1
           /\ \A k \in DOMAIN plan : k \in DOMAIN plan' /\ plan'[k] = plan[k]
           /\ plan'[Len(plan) + 1].row = next /\ plan'[Len(plan) + 1].at = bytes
           /\ PlanRows' = PlanRows \cup {next}
           /\ PlanBatches' = PlanBatches \cup {next.batch}
<1> DEFINE l == Len(plan)
<1>1. plan \in Seq([row : Rows, at : Nat]) /\ bytes \in Nat
  BY QueryTyped DEF LoadInv, LoadTypeOK
<1>2. /\ l \in Nat /\ Len(plan') = l + 1
      /\ DOMAIN plan = 1 .. l /\ DOMAIN plan' = 1 .. l + 1
      /\ \A k \in 1 .. l : plan'[k] = plan[k]
      /\ plan'[l + 1] = [row |-> next, at |-> bytes]
  <2> DEFINE R == [row : Rows, at : Nat]
             r == [row |-> next, at |-> bytes]
  <2>1. plan \in Seq(R) /\ r \in R /\ plan' = Append(plan, r)
    BY <1>1
  <2> HIDE DEF R, r
  <2>2. /\ l \in Nat /\ Len(plan') = l + 1
        /\ DOMAIN plan = 1 .. l /\ DOMAIN plan' = 1 .. l + 1
        /\ \A k \in 1 .. l : plan'[k] = plan[k]
        /\ plan'[l + 1] = r
    BY <2>1
  <2>3. QED
    BY <2>2 DEF r
<1>3. 1 .. l + 1 = (1 .. l) \cup {l + 1}
  BY <1>2
<1>4. PlanRows' = PlanRows \cup {next} /\ PlanBatches' = PlanBatches \cup {next.batch}
  BY <1>2, <1>3 DEF PlanRows, PlanBatches
<1> QED
  BY <1>2, <1>3, <1>4

LEMMA SpoolWritesPlan ==
    ASSUME LoadInv, step = "spool", row < Len(query), row' = row + 1,
           NEW next \in Rows, next = query[row + 1], next.valid,
           previous = NoRow \/ Before(previous, next),
           plan' = Append(plan, [row |-> next, at |-> bytes]),
           bytes' = bytes + Width(next), previous' = next,
           UNCHANGED <<query, step>>
    PROVE  PlanRight'
<1> DEFINE l == Len(plan)
           D == DOMAIN plan
<1>1. /\ l \in Nat /\ Len(plan') = l + 1
      /\ D = 1 .. l /\ DOMAIN plan' = 1 .. l + 1
      /\ \A k \in D : plan'[k] = plan[k]
      /\ plan'[l + 1].row = next /\ plan'[l + 1].at = bytes
      /\ PlanRows' = PlanRows \cup {next}
  BY PlanGrows
<1>2. \A k \in D : Before(plan[k].row, next) /\ plan[k].at + Width(plan[k].row) <= bytes
  BY PlanBefore
<1>3. row \in Nat /\ Len(query) \in Nat
  BY QueryTyped DEF LoadInv, LoadTypeOK
<1>4. TakenRows' = TakenRows \cup {row + 1} /\ \A i \in TakenRows : i < row + 1 /\ i \in Nat
  BY <1>3 DEF TakenRows
<1>5. PlanRows = {query[i] : i \in TakenRows} /\ Ordered(TakenRows)
  BY DEF LoadInv, PlanRight
<1>6. PlanRows' = {query[i] : i \in TakenRows}'
  BY <1>1, <1>4, <1>5
<1>7. Ordered(TakenRows)'
  <2> SUFFICES ASSUME NEW i \in TakenRows \cup {row + 1}, NEW j \in TakenRows \cup {row + 1}, i < j
               PROVE  Before(query[i], query[j])
    BY <1>4 DEF Ordered
  <2>1. i \in TakenRows
    BY <1>3, <1>4
  <2>2. CASE j \in TakenRows
    BY <1>5, <2>1, <2>2 DEF Ordered
  <2>3. CASE j = row + 1
    <3>1. query[i] \in PlanRows
      BY <1>5, <2>1
    <3>2. PICK k \in D : plan[k].row = query[i]
      BY <3>1 DEF PlanRows
    <3>3. QED
      BY <1>2, <2>3, <3>2
  <2>4. QED
    BY <2>2, <2>3
<1>8. \A k, m \in DOMAIN plan' :
          k < m => /\ Before(plan'[k].row, plan'[m].row)
                   /\ plan'[k].at + Width(plan'[k].row) <= plan'[m].at
  <2> SUFFICES ASSUME NEW k \in DOMAIN plan', NEW m \in DOMAIN plan', k < m
               PROVE  /\ Before(plan'[k].row, plan'[m].row)
                      /\ plan'[k].at + Width(plan'[k].row) <= plan'[m].at
    OBVIOUS
  <2>1. k \in D /\ plan'[k] = plan[k]
    BY <1>1
  <2>2. CASE m \in D
    BY <1>1, <2>1, <2>2 DEF LoadInv, PlanRight
  <2>3. CASE m = l + 1
    BY <1>1, <1>2, <2>1, <2>3
  <2>4. QED
    BY <1>1, <2>2, <2>3
<1>9. \A k \in DOMAIN plan' :
          plan'[k].at + Width(plan'[k].row) = IF k = l + 1 THEN bytes' ELSE plan'[k + 1].at
  <2> SUFFICES ASSUME NEW k \in DOMAIN plan'
               PROVE  plan'[k].at + Width(plan'[k].row) = IF k = l + 1 THEN bytes' ELSE plan'[k + 1].at
    OBVIOUS
  <2>1. CASE k = l + 1
    BY <1>1, <2>1
  <2>2. CASE k \in D
    <3>1. plan[k].at + Width(plan[k].row) = IF k = l THEN bytes ELSE plan[k + 1].at
      BY <2>2 DEF LoadInv, PlanRight
    <3>2. k # l => k + 1 \in D
      BY <1>1, <2>2
    <3>3. k # l + 1
      BY <1>1, <2>2
    <3>4. QED
      BY <1>1, <2>2, <3>1, <3>2, <3>3
  <2>3. QED
    BY <1>1, <2>1, <2>2
<1>10. plan' # <<>>
  BY <1>1
<1> QED
  BY <1>1, <1>6, <1>7, <1>8, <1>9, <1>10 DEF PlanRight, Width

LEMMA SpoolWritesIndex ==
    ASSUME LoadInv, NEW next \in Rows, previous = NoRow \/ Before(previous, next),
           plan' = Append(plan, [row |-> next, at |-> bytes]),
           offsets' = IF previous = NoRow \/ previous.batch # next.batch
                      THEN Append(offsets, bytes) ELSE offsets
    PROVE  IndexRight'
<1>0. PICK l, o : l = Len(plan) /\ o = Len(offsets)
  OBVIOUS
<1> DEFINE D == DOMAIN plan
           Indexed(k, n) == /\ plan[k].at = offsets[n] /\ FirstOfBatch(k)
                            /\ Cardinality(Earlier(plan[k].row.batch)) = n - 1
           IndexedNext(k, n) == /\ plan'[k].at = offsets'[n] /\ FirstOfBatch(k)'
                                /\ Cardinality(Earlier(plan[k].row.batch))' = n - 1
<1>1. /\ l \in Nat /\ Len(plan') = l + 1
      /\ D = 1 .. l /\ DOMAIN plan' = 1 .. l + 1
      /\ \A k \in D : k \in DOMAIN plan' /\ plan'[k] = plan[k]
      /\ plan'[l + 1].row = next /\ plan'[l + 1].at = bytes
      /\ PlanBatches' = PlanBatches \cup {next.batch}
  BY <1>0, PlanGrows
<1>2. \A k \in D : /\ plan[k].row.batch <= next.batch
                   /\ previous.batch # next.batch => plan[k].row.batch < next.batch
  BY PlanBefore
<1>3. IsFiniteSet(PlanBatches) /\ PlanBatches \subseteq Nat /\ next.batch \in Nat
  BY PlanBatchesFinite, RowTypes DEF LoadInv
<1>4. o = Cardinality(PlanBatches) /\ \A n \in DOMAIN offsets : \E k \in D : Indexed(k, n)
  BY <1>0 DEF LoadInv, IndexRight
<1>5. offsets \in Seq(Nat) /\ o \in Nat /\ bytes \in Nat /\ DOMAIN offsets = 1 .. o
  BY <1>0 DEF LoadInv, LoadTypeOK
<1>6. \A k \in D : FirstOfBatch(k) => FirstOfBatch(k)'
  <2> SUFFICES ASSUME NEW k \in D, FirstOfBatch(k), k > 1
               PROVE  plan'[k - 1].row.batch # plan'[k].row.batch
    BY DEF FirstOfBatch
  <2>1. k - 1 \in D
    BY <1>1
  <2>2. QED
    BY <1>1, <2>1 DEF FirstOfBatch
<1>7. \A k \in D : Earlier(plan[k].row.batch)' = Earlier(plan[k].row.batch)
  <2> SUFFICES ASSUME NEW k \in D
               PROVE  Earlier(plan[k].row.batch)' = Earlier(plan[k].row.batch)
    OBVIOUS
  <2>1. plan'[k] = plan[k] /\ plan[k].row.batch <= next.batch /\ plan[k].row.batch \in Nat
    BY <1>1, <1>2, QueryTyped, RowTypes DEF LoadInv
  <2>2. ~(next.batch < plan[k].row.batch)
    BY <1>3, <2>1
  <2>3. QED
    BY <1>1, <2>1, <2>2 DEF Earlier
<1>8. CASE previous = NoRow \/ previous.batch # next.batch
  <2>1. offsets' = Append(offsets, bytes)
    BY <1>8
  <2>2. /\ Len(offsets') = o + 1 /\ DOMAIN offsets' = 1 .. o + 1
        /\ \A n \in 1 .. o : offsets'[n] = offsets[n]
        /\ offsets'[o + 1] = bytes
    BY <1>5, <2>1
  <2>3. \A k \in D : plan[k].row.batch < next.batch
    <3>1. CASE previous = NoRow
      <4>1. l \notin D
        BY <1>0, <3>1, QueryTyped, RowTypes DEF LoadInv, PlanRight
      <4>2. D = {}
        BY <1>1, <4>1
      <4>3. QED
        BY <4>2
    <3>2. CASE previous.batch # next.batch
      BY <1>2, <3>2
    <3>3. QED
      BY <1>8, <3>1, <3>2
  <2>4. \A c \in PlanBatches : c < next.batch
    BY <2>3 DEF PlanBatches
  <2>5. next.batch \notin PlanBatches
    BY <1>3, <2>4
  <2>6. Cardinality(PlanBatches') = o + 1
    <3>1. Cardinality(PlanBatches \cup {next.batch}) = Cardinality(PlanBatches) + 1
      BY <1>3, <2>5, FS_AddElement
    <3>2. QED
      BY <1>1, <1>4, <3>1
  <2>7. \A n \in 1 .. o : \E k \in D : IndexedNext(k, n)
    <3> TAKE n \in 1 .. o
    <3>1. PICK k \in D : Indexed(k, n)
      BY <1>4, <1>5
    <3>2. IndexedNext(k, n)
      BY <1>1, <1>6, <1>7, <2>2, <3>1
    <3>3. QED
      BY <3>2
  <2>8. IndexedNext(l + 1, o + 1)
    <3>1. FirstOfBatch(l + 1)'
      <4>1. CASE l = 0
        BY <4>1 DEF FirstOfBatch
      <4>2. CASE l # 0
        <5>1. l \in D /\ l + 1 - 1 = l
          BY <1>1, <4>2
        <5>2. plan'[l].row.batch < next.batch /\ plan[l].row.batch \in Nat
          BY <1>1, <2>3, <5>1, QueryTyped, RowTypes DEF LoadInv
        <5>3. plan'[l].row.batch # next.batch
          BY <1>1, <1>3, <5>1, <5>2
        <5>4. QED
          BY <1>1, <5>1, <5>3 DEF FirstOfBatch
      <4>3. QED
        BY <4>1, <4>2
    <3>2. Earlier(plan[l + 1].row.batch)' = PlanBatches
      <4>1. Earlier(plan[l + 1].row.batch)'
                = {c \in PlanBatches \cup {next.batch} : c < next.batch}
        BY <1>1 DEF Earlier
      <4>2. ~(next.batch < next.batch)
        BY <1>3
      <4>3. QED
        BY <2>4, <4>1, <4>2
    <3>3. QED
      BY <1>1, <1>4, <1>5, <2>2, <3>1, <3>2
  <2>9. \A n \in DOMAIN offsets' : \E k \in DOMAIN plan' : IndexedNext(k, n)
    <3> SUFFICES ASSUME NEW n \in DOMAIN offsets'
                 PROVE  \E k \in DOMAIN plan' : IndexedNext(k, n)
      OBVIOUS
    <3> HIDE DEF IndexedNext
    <3>1. CASE n \in 1 .. o
      BY <1>1, <2>7, <3>1
    <3>2. CASE n = o + 1
      BY <1>1, <2>8, <3>2
    <3>3. QED
      BY <1>5, <2>2, <3>1, <3>2
  <2>10. QED
    BY <2>2, <2>6, <2>9 DEF IndexRight
<1>9. CASE ~(previous = NoRow \/ previous.batch # next.batch)
  <2>1. offsets' = offsets
    BY <1>9
  <2>2. next.batch \in PlanBatches
    <3>1. plan # <<>> /\ previous = plan[l].row
      BY <1>0, <1>9 DEF LoadInv, PlanRight
    <3>2. l \in D
      BY <1>0, <1>1, <3>1, QueryTyped DEF LoadInv
    <3>3. QED
      BY <1>9, <3>1, <3>2 DEF PlanBatches
  <2>3. PlanBatches' = PlanBatches
    BY <1>1, <2>2
  <2>4. \A n \in DOMAIN offsets' : \E k \in DOMAIN plan' : IndexedNext(k, n)
    <3> SUFFICES ASSUME NEW n \in DOMAIN offsets
                 PROVE  \E k \in DOMAIN plan' : IndexedNext(k, n)
      BY <2>1
    <3>1. PICK k \in D : Indexed(k, n)
      BY <1>4
    <3>2. IndexedNext(k, n)
      BY <1>1, <1>6, <1>7, <2>1, <3>1
    <3>3. QED
      BY <1>1, <3>2
  <2>5. QED
    BY <1>0, <1>4, <2>1, <2>3, <2>4 DEF IndexRight
<1> QED
  BY <1>8, <1>9

LEMMA SpoolWrites ==
    ASSUME LoadInv, step = "spool", row < Len(query), row' = row + 1,
           NEW next, next = query[row + 1], next.valid,
           previous = NoRow \/ Before(previous, next),
           NEW entries,
           entries = IF previous = NoRow \/ previous.batch # next.batch
                     THEN Append(offsets, bytes) ELSE offsets,
           offsets' = entries, reserved' = ReservedFor(next, Len(entries)),
           plan' = Append(plan, [row |-> next, at |-> bytes]),
           bytes' = bytes + Width(next), previous' = next,
           UNCHANGED <<answer, step>>,
           UNCHANGED <<query, sequence, repeat, at, batch, queue, reads>>
    PROVE  LoadInv'
<1>1. /\ row \in Nat /\ Len(query) \in Nat /\ DOMAIN query = 1 .. Len(query)
      /\ offsets \in Seq(Nat) /\ bytes \in Nat /\ reserved \in Nat
  BY QueryTyped DEF LoadInv, LoadTypeOK
<1>2. next \in Range(query) /\ next \in Rows
  <2>1. row + 1 \in DOMAIN query
    BY <1>1
  <2>2. QED
    BY <2>1, QueryTyped DEF LoadInv, Range
<1>3. PlanRight' /\ IndexRight'
  BY <1>2, SpoolWritesPlan, SpoolWritesIndex
<1>4. entries \in Seq(Nat) /\ Len(entries) \in Nat
  BY <1>1
<1>5. /\ reserved' \in Nat
      /\ bytes + Width(next) + Len(entries) <= reserved' * Reservation
  BY <1>1, <1>2, <1>4, ReservedForHolds
<1>6. ReservedBeforeUse'
  BY <1>5 DEF ReservedBeforeUse
<1>7. LoadTypeOK'
  <2> DEFINE S == [row : Range(query), at : Nat]
             r == [row |-> next, at |-> bytes]
  <2>1. plan \in Seq(S) /\ r \in S /\ plan' = Append(plan, r)
    BY <1>1, <1>2 DEF LoadInv, LoadTypeOK
  <2>2. plan' \in Seq(S)
    <3> HIDE DEF S, r
    <3>1. QED
      BY <2>1
  <2>3. bytes' \in Nat
    BY <1>1, <1>2, RowTypes
  <2>4. Range(query)' = Range(query) /\ Places' = Places
    BY DEF Range, Places
  <2>5. QED
    BY <1>1, <1>2, <1>4, <1>5, <2>2, <2>3, <2>4 DEF LoadInv, LoadTypeOK
<1>8. BatchRight' /\ JoinRight' /\ ServesTheQuery'
  BY DEF LoadInv, BatchRight, JoinRight, ServesTheQuery
<1> QED
  BY <1>3, <1>6, <1>7, <1>8 DEF LoadInv

LEMMA SpoolSteps == LoadInv /\ Spool => LoadInv'
<1> SUFFICES ASSUME LoadInv, Spool PROVE LoadInv'
  OBVIOUS
<1> DEFINE next == query[row + 1]
           new == previous = NoRow \/ previous.batch # next.batch
           entries == IF new THEN Append(offsets, bytes) ELSE offsets
<1>1. /\ step = "spool" /\ row < Len(query) /\ row' = row + 1
      /\ UNCHANGED <<query, sequence, repeat, at, batch, queue, reads>>
  BY DEF Spool
<1>2. CASE /\ previous # NoRow /\ ~Before(previous, next)
           /\ answer' = NoBlobs("failed") /\ step' = "done"
           /\ UNCHANGED <<previous, plan, bytes, offsets, reserved>>
  BY <1>1, <1>2, SpoolFails
<1>3. CASE /\ ~next.valid
           /\ UNCHANGED <<previous, plan, bytes, offsets, reserved, answer, step>>
  BY <1>1, <1>3, SpoolSkips
<1>4. CASE /\ previous = NoRow \/ Before(previous, next)
           /\ next.valid
           /\ offsets' = entries
           /\ reserved' = ReservedFor(next, Len(entries))
           /\ plan' = Append(plan, [row |-> next, at |-> bytes])
           /\ bytes' = bytes + Width(next)
           /\ previous' = next
           /\ UNCHANGED <<answer, step>>
  BY <1>1, <1>4, SpoolWrites
<1> QED
  BY <1>2, <1>3, <1>4 DEF Spool

(***************************************************************************)
(* Looking up the batch                                                    *)
(***************************************************************************)
LEMMA PlanIsQuery ==
    ASSUME LoadInv, step # "done", row = Len(query)
    PROVE  TakenRows = Valid /\ PlanBatches = BatchIndexes
<1>1. TakenRows = Valid
  BY QueryTyped DEF LoadInv, TakenRows, Valid
<1>2. PlanRows = {query[i] : i \in Valid}
  BY <1>1 DEF LoadInv, PlanRight
<1>3. PlanBatches = {r.batch : r \in PlanRows}
  BY DEF PlanBatches, PlanRows
<1>4. BatchIndexes = {r.batch : r \in PlanRows}
  BY <1>2 DEF BatchIndexes
<1> QED
  BY <1>1, <1>3, <1>4

(* The invariants of the plan, while the plan is unchanged.                *)
LEMMA PlanStays ==
    ASSUME LoadInv, UNCHANGED Spooled, step # "done"
    PROVE  /\ PlanRight' /\ IndexRight' /\ ReservedBeforeUse'
           /\ TakenRows' = TakenRows /\ PlanBatches' = PlanBatches
           /\ BatchIndexes' = BatchIndexes /\ Valid' = Valid
           /\ \A b : Earlier(b)' = Earlier(b)
           /\ \A k : FirstOfBatch(k)' = FirstOfBatch(k)
           /\ \A b : Its(b)' = Its(b)
           /\ Ordered(TakenRows)' = Ordered(TakenRows) /\ Expected' = Expected
<1>1. /\ PlanBatches' = PlanBatches /\ \A b : Earlier(b)' = Earlier(b)
      /\ \A k : FirstOfBatch(k)' = FirstOfBatch(k)
  BY DEF Spooled, PlanBatches, Earlier, FirstOfBatch
<1>2. TakenRows' = TakenRows /\ Valid' = Valid /\ BatchIndexes' = BatchIndexes /\ PlanRows' = PlanRows
  BY DEF Spooled, TakenRows, Valid, BatchIndexes, PlanRows
<1>3. Ordered(TakenRows)' = Ordered(TakenRows) /\ \A b : Its(b)' = Its(b)
  BY <1>2 DEF Spooled, Ordered, Its
<1>4. {query[i] : i \in TakenRows}' = {query[i] : i \in TakenRows} /\ Expected' = Expected
  BY <1>2, <1>3 DEF Spooled, Expected
<1>5. PlanRight'
  BY <1>2, <1>3, <1>4 DEF Spooled, LoadInv, PlanRight
<1>6. IndexRight' /\ ReservedBeforeUse'
  BY <1>1 DEF Spooled, LoadInv, IndexRight, ReservedBeforeUse
<1> QED
  BY <1>1, <1>2, <1>3, <1>4, <1>5, <1>6

LEMMA PublishSteps == LoadInv /\ Publish => LoadInv'
<1> SUFFICES ASSUME LoadInv, Publish PROVE LoadInv'
  OBVIOUS
<1>1. PlanRight' /\ IndexRight' /\ ReservedBeforeUse'
  BY PlanStays DEF Publish
<1>2. LoadTypeOK'
  BY DEF LoadInv, LoadTypeOK, Publish, Spooled, Places
<1>3. BatchRight' /\ JoinRight' /\ ServesTheQuery'
  BY DEF LoadInv, BatchRight, JoinRight, ServesTheQuery, Publish, Spooled
<1> QED
  BY <1>1, <1>2, <1>3 DEF LoadInv, Publish, Spooled

LEMMA SeekSteps == LoadInv /\ Seek => LoadInv'
<1> SUFFICES ASSUME LoadInv, Seek PROVE LoadInv'
  OBVIOUS
<1> DEFINE o == Len(offsets)
<1>1. PlanRight' /\ IndexRight' /\ ReservedBeforeUse'
  BY PlanStays DEF Seek
<1>2. /\ step = "open" /\ row = Len(query) /\ batch = <<>> /\ queue = <<>> /\ reads = <<>>
      /\ UNCHANGED <<Spooled, batch, queue, reads>>
      /\ o = Cardinality(PlanBatches) /\ offsets \in Seq(Nat) /\ o \in Nat
      /\ sequence \in Nat
  BY BatchLoadAssumption DEF Seek, LoadInv, BatchRight, JoinRight, IndexRight, LoadTypeOK
<1>3. CASE /\ o = 0 \/ (~repeat /\ sequence >= o)
           /\ answer' = NoBlobs("end") /\ step' = "done" /\ UNCHANGED at
  <2>1. LoadTypeOK'
    BY <1>2, <1>3 DEF LoadInv, LoadTypeOK, Spooled, Places, NoBlobs
  <2>2. BatchRight' /\ JoinRight'
    BY <1>2, <1>3 DEF BatchRight, JoinRight
  <2>3. PlanBatches = BatchIndexes /\ BatchIndexes' = BatchIndexes
    BY <1>2, PlanIsQuery, PlanStays
  <2>4. o = 0 => BatchIndexes = {}
    BY <1>2, <2>3, PlanBatchesFinite, FS_EmptySet DEF LoadInv
  <2>5. ServesTheQuery'
    BY <1>2, <1>3, <2>3, <2>4 DEF ServesTheQuery, NoBlobs, Spooled
  <2>6. QED
    BY <1>1, <1>3, <2>1, <2>2, <2>5 DEF LoadInv
<1>4. CASE /\ o > 0
           /\ at' = offsets[(sequence % o) + 1] /\ step' = "read" /\ UNCHANGED answer
  <2> DEFINE n == (sequence % o) + 1
  <2>1. n \in 1 .. o /\ n - 1 = sequence % o
    BY <1>2, <1>4
  <2>2. n \in DOMAIN offsets /\ offsets[n] \in Nat
    BY <1>2, <2>1
  <2>3. PICK k \in DOMAIN plan :
          /\ plan[k].at = offsets[n] /\ FirstOfBatch(k)
          /\ Cardinality(Earlier(plan[k].row.batch)) = n - 1
    BY <2>2 DEF LoadInv, IndexRight
  <2>4. LoadTypeOK'
    BY <1>2, <1>4, <2>2 DEF LoadInv, LoadTypeOK, Spooled, Places
  <2>5. ReadFrom(k)'
    <3>1. k \in 1 .. Len(plan) /\ Len(plan) \in Nat
      BY <2>3, QueryTyped DEF LoadInv
    <3>2. FirstOfBatch(k)' /\ Earlier(plan[k].row.batch)' = Earlier(plan[k].row.batch)
          /\ PlanBatches' = PlanBatches
      <4>1. PlanBatches' = PlanBatches /\ FirstOfBatch(k)'
        BY <1>2, <2>3, PlanStays
      <4>2. QED
        BY <1>2, <4>1 DEF Earlier, Spooled
    <3>3. at' = plan[k].at /\ batch' = <<>> /\ plan' = plan /\ sequence' = sequence
      BY <1>2, <1>4, <2>3 DEF Spooled
    <3>4. Len(batch') = 0 /\ DOMAIN batch' = {}
      BY <3>3
    <3>5. k + 0 = k /\ ~(k > Len(plan)) /\ 0 <= Len(plan) - k + 1
      BY <3>1
    <3>6. QED
      BY <1>2, <2>1, <2>3, <3>2, <3>3, <3>4, <3>5 DEF ReadFrom
  <2>6. BatchRight'
    BY <1>2, <1>4, <2>5 DEF BatchRight, Spooled
  <2>7. JoinRight' /\ ServesTheQuery'
    BY <1>2, <1>4 DEF LoadInv, JoinRight, ServesTheQuery
  <2>8. QED
    BY <1>1, <1>2, <1>4, <2>4, <2>6, <2>7 DEF LoadInv, Spooled
<1> QED
  BY <1>3, <1>4 DEF Seek

(***************************************************************************)
(* Reading the records of the batch                                        *)
(***************************************************************************)
(* Different batches have different numbers of batches before them.        *)
LEMMA EarlierCounts ==
    ASSUME LoadTypeOK, NEW b \in PlanBatches, NEW c \in PlanBatches,
           Cardinality(Earlier(b)) = Cardinality(Earlier(c))
    PROVE  b = c
<1>1. IsFiniteSet(PlanBatches) /\ b \in Nat /\ c \in Nat
  BY PlanBatchesFinite
<1>2. ASSUME NEW x \in PlanBatches, NEW y \in PlanBatches, x \in Nat, y \in Nat, x < y
      PROVE  Cardinality(Earlier(x)) # Cardinality(Earlier(y))
  <2>1. IsFiniteSet(Earlier(y)) /\ Earlier(y) \subseteq PlanBatches /\ PlanBatches \subseteq Nat
    <3>1. Earlier(y) \subseteq PlanBatches
      BY DEF Earlier
    <3>2. QED
      BY <1>1, <3>1, FS_Subset, PlanBatchesFinite
  <2>2. Earlier(x) \subseteq Earlier(y) /\ x \in Earlier(y) /\ x \notin Earlier(x)
    <3>1. \A z \in PlanBatches : z < x => z < y
      BY <1>2, <2>1
    <3>2. ~(x < x)
      BY <1>2
    <3>3. QED
      BY <1>2, <3>1, <3>2 DEF Earlier
  <2>3. QED
    BY <2>1, <2>2, FS_Subset
<1>3. b < c \/ c < b \/ b = c
  BY <1>1
<1> QED
  BY <1>1, <1>2, <1>3

(* The record at the start of a record is that one.                        *)
LEMMA RecordIs ==
    ASSUME LoadInv, NEW m \in DOMAIN plan, at = plan[m].at
    PROVE  Record = plan[m].row /\ at < bytes
<1>1. /\ Len(plan) \in Nat /\ DOMAIN plan = 1 .. Len(plan) /\ bytes \in Nat
      /\ \A k \in DOMAIN plan : plan[k].at \in Nat /\ Width(plan[k].row) \in Nat \ {0}
  <2>1. plan \in Seq([row : Rows, at : Nat]) /\ bytes \in Nat
    BY QueryTyped DEF LoadInv, LoadTypeOK
  <2>2. \A k \in DOMAIN plan : plan[k].row \in Rows /\ plan[k].at \in Nat
    BY QueryTyped DEF LoadInv
  <2>3. QED
    BY <2>1, <2>2, RowTypes
<1>2. \A k, l \in DOMAIN plan : k < l => plan[k].at + Width(plan[k].row) <= plan[l].at
  BY DEF LoadInv, PlanRight
<1>3. \A k \in DOMAIN plan : plan[k].at = at => k = m
  <2> SUFFICES ASSUME NEW k \in DOMAIN plan, k # m PROVE plan[k].at # at
    OBVIOUS
  <2>1. k < m \/ m < k
    BY <1>1
  <2>2. plan[k].at < plan[m].at \/ plan[m].at < plan[k].at
    BY <1>1, <1>2, <2>1
  <2>3. QED
    BY <1>1, <2>2
<1>4. \A r \in Range(plan) : r.at = at => r = plan[m]
  BY <1>3 DEF Range
<1>5. plan[m] \in Range(plan)
  BY DEF Range
<1>6. Record = plan[m].row
  BY <1>4, <1>5 DEF Record
<1>7. plan[m].at + Width(plan[m].row) = IF m = Len(plan) THEN bytes ELSE plan[m + 1].at
  BY DEF LoadInv, PlanRight
<1>8. at < bytes
  <2> DEFINE l == Len(plan)
  <2>1. l \in DOMAIN plan
    BY <1>1
  <2>2. plan[l].at + Width(plan[l].row) = bytes
    BY <2>1 DEF LoadInv, PlanRight
  <2>3. m = l \/ plan[m].at + Width(plan[m].row) <= plan[l].at
    BY <1>1, <1>2, <2>1
  <2>4. QED
    BY <1>1, <2>1, <2>2, <2>3
<1> QED
  BY <1>6, <1>8

LEMMA ReadsOne ==
    ASSUME LoadInv, step = "read", More, UNCHANGED <<Spooled, queue, reads, answer, step>>,
           batch' = Append(batch, Record), at' = at + Width(Record)
    PROVE  LoadInv'
<1>1. PICK k \in DOMAIN plan : ReadFrom(k)
  BY DEF LoadInv, BatchRight
<1>2. PICK l, n : l = Len(plan) /\ n = Len(batch)
  OBVIOUS
<1> DEFINE m == k + n
<1>3. /\ l \in Nat /\ n \in Nat /\ DOMAIN plan = 1 .. l /\ k \in 1 .. l
      /\ DOMAIN batch = 1 .. n /\ bytes \in Nat
  BY <1>2, QueryTyped DEF LoadInv, LoadTypeOK
<1>4. /\ n <= l - k + 1
      /\ \A i \in 1 .. n : batch[i] = plan[k + i - 1].row /\ batch[i].batch = plan[k].row.batch
      /\ at = IF m > l THEN bytes ELSE plan[m].at
  BY <1>1, <1>2, <1>3 DEF ReadFrom
<1>5. m \in 1 .. l
  <2>1. at < bytes
    BY DEF More
  <2>2. ~(m > l)
    BY <1>3, <1>4, <2>1
  <2>3. QED
    BY <1>3, <2>2
<1>6. Record = plan[m].row /\ plan[m].row \in Range(query) /\ plan[m].row \in Rows
  <2>1. at = plan[m].at /\ m \in DOMAIN plan
    BY <1>3, <1>4, <1>5
  <2>2. Record = plan[m].row
    BY <2>1, RecordIs
  <2>3. plan[m].row \in Range(query)
    <3> DEFINE S == Range(query)
    <3>1. plan \in Seq([row : S, at : Nat])
      BY DEF LoadInv, LoadTypeOK
    <3> HIDE DEF S
    <3>2. plan[m] \in [row : S, at : Nat]
      <4> DEFINE R == [row : S, at : Nat]
      <4> HIDE DEF R
      <4>1. plan \in Seq(R)
        BY <3>1 DEF R
      <4>2. plan[m] \in R
        BY <2>1, <4>1
      <4>3. QED
        BY <4>2 DEF R
    <3>3. plan[m].row \in S
      BY <3>2
    <3>4. QED
      BY <3>3 DEF S
  <2>4. QED
    BY <2>1, <2>2, <2>3, QueryTyped DEF LoadInv
<1>7. /\ batch' \in Seq(Range(query)) /\ Len(batch') = n + 1 /\ DOMAIN batch' = 1 .. n + 1
      /\ \A i \in 1 .. n : batch'[i] = batch[i]
      /\ batch'[n + 1] = plan[m].row
  <2> DEFINE S == Range(query)
             r == plan[m].row
  <2>1. batch \in Seq(S) /\ r \in S /\ batch' = Append(batch, r)
    BY <1>6 DEF LoadInv, LoadTypeOK
  <2> HIDE DEF S, r
  <2>2. /\ batch' \in Seq(S) /\ Len(batch') = n + 1 /\ DOMAIN batch' = 1 .. n + 1
        /\ \A i \in 1 .. n : batch'[i] = batch[i]
        /\ batch'[n + 1] = r
    BY <1>2, <2>1
  <2>3. QED
    BY <2>2 DEF S, r
<1>8. plan[m].row.batch = plan[k].row.batch
  <2>1. CASE n = 0
    BY <1>3, <2>1
  <2>2. CASE n # 0
    <3>1. 1 \in 1 .. n /\ batch # <<>>
      BY <1>2, <1>3, <2>2
    <3>2. batch[1].batch = plan[k].row.batch
      BY <1>4, <3>1
    <3>3. QED
      BY <1>6, <3>1, <3>2 DEF More
  <2>3. QED
    BY <2>1, <2>2
<1>9. at' = IF m + 1 > l THEN bytes ELSE plan[m + 1].at
  <2>1. plan[m].at + Width(plan[m].row) = IF m = l THEN bytes ELSE plan[m + 1].at
    BY <1>2, <1>3, <1>5 DEF LoadInv, PlanRight
  <2>2. at = plan[m].at
    BY <1>3, <1>4, <1>5
  <2>3. m + 1 > l <=> m = l
    BY <1>3, <1>5
  <2>4. QED
    BY <1>6, <2>1, <2>2, <2>3
<1>10. ReadFrom(k)'
  <2>1. FirstOfBatch(k)' /\ PlanBatches' = PlanBatches /\ Earlier(plan[k].row.batch)' = Earlier(plan[k].row.batch)
    <3>1. FirstOfBatch(k)' /\ PlanBatches' = PlanBatches
      BY <1>1, PlanStays DEF ReadFrom
    <3>2. QED
      BY <3>1 DEF Earlier, Spooled
  <2>2. plan' = plan /\ bytes' = bytes /\ sequence' = sequence
    BY DEF Spooled
  <2>3. Cardinality(Earlier(plan[k].row.batch)) = sequence % Cardinality(PlanBatches)
    BY <1>1 DEF ReadFrom
  <2>4. n + 1 <= l - k + 1
    BY <1>3, <1>5
  <2>5. \A i \in 1 .. n + 1 : batch'[i] = plan[k + i - 1].row /\ batch'[i].batch = plan[k].row.batch
    <3> SUFFICES ASSUME NEW i \in 1 .. n + 1
                 PROVE  batch'[i] = plan[k + i - 1].row /\ batch'[i].batch = plan[k].row.batch
      OBVIOUS
    <3>1. CASE i \in 1 .. n
      BY <1>4, <1>7, <3>1
    <3>2. CASE i = n + 1
      <4>1. k + i - 1 = m
        BY <1>3, <3>2
      <4>2. QED
        BY <1>7, <1>8, <3>2, <4>1
    <3>3. QED
      BY <1>3, <3>1, <3>2
  <2>6. k + (n + 1) = m + 1
    BY <1>3
  <2>7. QED
    BY <1>2, <1>7, <1>9, <2>1, <2>2, <2>3, <2>4, <2>5, <2>6 DEF ReadFrom
<1>11. BatchRight'
  BY <1>1, <1>10 DEF BatchRight, Spooled
<1>12. queue = <<>> /\ reads = <<>> /\ queue' = <<>> /\ reads' = <<>>
  BY DEF LoadInv, JoinRight
<1>13. JoinRight'
  BY <1>12 DEF JoinRight
<1>14. at' \in Nat
  <2>1. at \in Nat
    BY DEF LoadInv, LoadTypeOK
  <2>2. Width(Record) \in Nat
    BY <1>6, RowTypes
  <2>3. QED
    BY <2>1, <2>2
<1>15. LoadTypeOK'
  BY <1>7, <1>12, <1>14 DEF LoadInv, LoadTypeOK, Spooled
<1>16. ServesTheQuery'
  BY DEF LoadInv, ServesTheQuery
<1> QED
  BY <1>11, <1>13, <1>15, <1>16, PlanStays DEF LoadInv, Spooled

(* Where reading stopped, the whole batch was read.                        *)
LEMMA ReadsAll ==
    ASSUME LoadInv, step = "read", ~More, NEW k \in DOMAIN plan, ReadFrom(k)
    PROVE  /\ Len(batch) > 0
           /\ \A j \in DOMAIN plan :
                  plan[j].row.batch = plan[k].row.batch <=> j \in k .. k + Len(batch) - 1
<1> DEFINE l == Len(plan)
           n == Len(batch)
           m == k + n
           B(j) == plan[j].row.batch
<1>1. /\ l \in Nat /\ n \in Nat /\ DOMAIN plan = 1 .. l /\ k \in 1 .. l
      /\ DOMAIN batch = 1 .. n /\ bytes \in Nat
  BY QueryTyped DEF LoadInv, LoadTypeOK
<1>2. /\ n <= l - k + 1
      /\ \A i \in 1 .. n : batch[i] = plan[k + i - 1].row /\ batch[i].batch = B(k)
      /\ at = IF m > l THEN bytes ELSE plan[m].at
  BY <1>1 DEF ReadFrom
<1>3. m <= l => n > 0 /\ B(m) # B(k)
  <2> SUFFICES ASSUME m <= l PROVE n > 0 /\ B(m) # B(k)
    OBVIOUS
  <2>1. m \in DOMAIN plan /\ at = plan[m].at
    BY <1>1, <1>2
  <2>2. Record = plan[m].row /\ at < bytes
    BY <2>1, RecordIs
  <2>3. batch # <<>> /\ batch[1].batch # plan[m].row.batch
    BY <2>2 DEF More
  <2>4. n > 0
    BY <1>1, <2>3, QueryTyped DEF LoadInv
  <2>5. batch[1].batch = B(k)
    <3>1. 1 \in 1 .. n
      BY <1>1, <2>4
    <3>2. \A i \in 1 .. n : batch[i].batch = B(k)
      BY <1>2
    <3> HIDE DEF B, n
    <3>3. QED
      BY <3>1, <3>2
  <2>6. QED
    BY <2>3, <2>4, <2>5
<1>4. m > l => m = l + 1
  BY <1>1, <1>2
<1>5. n > 0
  BY <1>1, <1>3, <1>4
<1>6. \A i, j \in 1 .. l : i <= j => B(i) <= B(j)
  <2> SUFFICES ASSUME NEW i \in 1 .. l, NEW j \in 1 .. l, i <= j PROVE B(i) <= B(j)
    OBVIOUS
  <2>1. plan[i].row \in Rows /\ plan[j].row \in Rows
    BY <1>1, QueryTyped DEF LoadInv
  <2>2. CASE i = j
    BY <2>1, <2>2, RowTypes
  <2>3. CASE i < j
    <3>1. Before(plan[i].row, plan[j].row)
      BY <1>1, <2>3 DEF LoadInv, PlanRight
    <3>2. QED
      BY <2>1, <3>1, BeforeIsOrder
  <2>4. QED
    BY <1>1, <2>2, <2>3
<1>7. \A j \in 1 .. l : B(j) \in Nat
  BY <1>1, QueryTyped, RowTypes DEF LoadInv
<1>8. ASSUME NEW j \in DOMAIN plan PROVE B(j) = B(k) <=> j \in k .. m - 1
  <2>1. CASE j < k
    <3>1. k - 1 \in 1 .. l /\ j <= k - 1 /\ k - 1 <= k
      BY <1>1, <2>1
    <3>2. B(k - 1) # B(k)
      BY <1>1, <2>1 DEF ReadFrom, FirstOfBatch
    <3>3. B(j) <= B(k - 1) /\ B(k - 1) <= B(k)
      BY <1>1, <1>6, <3>1
    <3>4. B(j) # B(k)
      BY <1>1, <1>7, <3>1, <3>2, <3>3
    <3>5. QED
      BY <1>1, <2>1, <3>4
  <2>2. CASE j \in k .. m - 1
    <3> DEFINE i == j - k + 1
    <3>1. i \in 1 .. n /\ k + i - 1 = j
      BY <1>1, <2>2
    <3>2. batch[i] = plan[j].row /\ batch[i].batch = B(k)
      BY <1>2, <3>1
    <3>3. QED
      BY <2>2, <3>2
  <2>3. CASE j >= m
    <3>1. m \in 1 .. l /\ B(m) # B(k) /\ k <= m
      BY <1>1, <1>3, <2>3
    <3>2. B(k) <= B(m) /\ B(m) <= B(j)
      BY <1>1, <1>6, <2>3, <3>1
    <3>3. B(j) # B(k)
      BY <1>1, <1>7, <3>1, <3>2
    <3>4. QED
      BY <1>1, <2>3, <3>3
  <2>4. QED
    BY <1>1, <2>1, <2>2, <2>3
<1> QED
  BY <1>5, <1>8

LEMMA ReadStops ==
    ASSUME LoadInv, step = "read", ~More, step' = "load",
           UNCHANGED <<Spooled, queue, reads, answer, batch, at>>
    PROVE  LoadInv'
<1>1. PICK k \in DOMAIN plan : ReadFrom(k)
  BY DEF LoadInv, BatchRight
<1>2. PICK n : n = Len(batch)
  OBVIOUS
<1> DEFINE b == plan[k].row.batch
           m == k + n
<1>3. /\ n > 0 /\ n \in Nat /\ DOMAIN batch = 1 .. n
      /\ \A j \in DOMAIN plan : plan[j].row.batch = b <=> j \in k .. m - 1
      /\ k \in Nat
  BY <1>1, <1>2, ReadsAll, QueryTyped DEF LoadInv
<1>4. \A i \in 1 .. n : batch[i] = plan[k + i - 1].row /\ batch[i].batch = b
  BY <1>1, <1>3 DEF ReadFrom
<1>5. /\ n <= Len(plan) - k + 1 /\ k \in 1 .. Len(plan)
      /\ DOMAIN plan = 1 .. Len(plan) /\ Len(plan) \in Nat
  BY <1>1, <1>2, QueryTyped DEF ReadFrom, LoadInv
<1>6. row = Len(query) /\ Ordered(TakenRows) /\ PlanRows = {query[i] : i \in TakenRows}
      /\ PlanBatches = BatchIndexes
  BY PlanIsQuery DEF LoadInv, PlanRight
<1>7. b \in PlanBatches
  BY <1>1 DEF PlanBatches
<1>8. \A c \in PlanBatches : Its(c) <=> c = b
  <2> SUFFICES ASSUME NEW c \in PlanBatches PROVE Its(c) <=> c = b
    OBVIOUS
  <2>1. Its(c) <=> Cardinality(Earlier(c)) = sequence % Cardinality(PlanBatches)
    BY <1>6 DEF Its, Earlier
  <2>2. Cardinality(Earlier(b)) = sequence % Cardinality(PlanBatches)
    BY <1>1 DEF ReadFrom
  <2>3. QED
    BY <1>7, <2>1, <2>2, EarlierCounts DEF LoadInv
<1>9. Range(batch) = {r \in PlanRows : r.batch = b}
  <2>1. ASSUME NEW r \in Range(batch) PROVE r \in PlanRows /\ r.batch = b
    <3>1. PICK i \in 1 .. n : r = batch[i]
      BY <1>3 DEF Range
    <3>2. k + i - 1 \in k .. m - 1
      BY <1>3
    <3>3. k + i - 1 \in DOMAIN plan
      BY <1>3, <1>5
    <3>4. QED
      BY <1>4, <3>1, <3>3 DEF PlanRows
  <2>2. ASSUME NEW r \in PlanRows, r.batch = b PROVE r \in Range(batch)
    <3>1. PICK j \in DOMAIN plan : r = plan[j].row
      BY DEF PlanRows
    <3>2. j \in k .. m - 1
      BY <1>3, <2>2, <3>1
    <3>3. j - k + 1 \in 1 .. n /\ k + (j - k + 1) - 1 = j
      BY <1>3, <3>2
    <3>4. batch[j - k + 1] = r
      BY <1>4, <3>1, <3>3
    <3>5. QED
      BY <1>3, <3>3, <3>4 DEF Range
  <2>3. QED
    BY <2>1, <2>2
<1>10. Range(batch) = {query[i] : i \in {j \in TakenRows : Its(query[j].batch)}}
  <2>1. \A r \in PlanRows : r.batch \in PlanBatches
    BY DEF PlanRows, PlanBatches
  <2>2. \A i \in TakenRows : query[i] \in PlanRows
    BY <1>6
  <2>3. \A i \in TakenRows : Its(query[i].batch) <=> query[i].batch = b
    BY <1>8, <2>1, <2>2
  <2>4. QED
    BY <1>6, <1>9, <2>3
<1>11. Range(batch) # {}
  <2>1. 1 \in DOMAIN batch
    BY <1>3
  <2>2. QED
    BY <2>1 DEF Range
<1>12. \A i, j \in DOMAIN batch : i < j => Before(batch[i], batch[j])
  <2> SUFFICES ASSUME NEW i \in 1 .. n, NEW j \in 1 .. n, i < j
               PROVE  Before(batch[i], batch[j])
    BY <1>3
  <2>1. k + i - 1 \in k .. m - 1 /\ k + j - 1 \in k .. m - 1 /\ k + i - 1 < k + j - 1
    BY <1>3
  <2>2. k + i - 1 \in DOMAIN plan /\ k + j - 1 \in DOMAIN plan
    BY <1>3, <1>5
  <2>3. Before(plan[k + i - 1].row, plan[k + j - 1].row)
    BY <2>1, <2>2 DEF LoadInv, PlanRight
  <2>4. QED
    BY <1>4, <2>3
<1>13. /\ PlanRight' /\ IndexRight' /\ ReservedBeforeUse' /\ TakenRows' = TakenRows
       /\ (\A c : Its(c)' = Its(c)) /\ Ordered(TakenRows)' = Ordered(TakenRows)
  BY PlanStays
<1>14. BatchRight'
  <2>1. {query[i] : i \in {j \in TakenRows : Its(query[j].batch)}}'
            = {query[i] : i \in {j \in TakenRows : Its(query[j].batch)}}
    <3>1. \A c : Its(c)' = Its(c)
      BY <1>13
    <3>2. query' = query
      BY DEF Spooled
    <3>3. \A j : Its(query[j].batch)' = Its(query[j].batch)
      BY <1>13, <3>2 DEF Its, Spooled, BatchIndexes, Valid
    <3>4. QED
      BY <1>13, <3>2, <3>3
  <2>2. (Range(batch))' = Range(batch)
    BY DEF Range
  <2>3. QED
    BY <1>6, <1>10, <1>11, <1>12, <1>13, <2>1, <2>2 DEF BatchRight, Spooled
<1>15. LoadTypeOK' /\ JoinRight' /\ ServesTheQuery'
  <2>1. LoadTypeOK'
    BY DEF LoadInv, LoadTypeOK, Spooled, Places
  <2>2. JoinRight' /\ ServesTheQuery'
    BY DEF LoadInv, JoinRight, ServesTheQuery
  <2>3. QED
    BY <2>1, <2>2
<1> QED
  BY <1>6, <1>13, <1>14, <1>15 DEF LoadInv, Spooled

LEMMA ReadRecordSteps == LoadInv /\ ReadRecord => LoadInv'
BY ReadsOne, ReadStops DEF ReadRecord

(***************************************************************************)
(* Sorting the blobs                                                       *)
(***************************************************************************)
LEMMA PlacesFinite ==
    ASSUME LoadTypeOK
    PROVE  /\ IsFiniteSet(Places)
           /\ \A place \in Places : place[1] \in DOMAIN batch /\ place[2] \in DOMAIN batch[place[1]].blobs
           /\ \A place \in Places : Reference(place) \in References
<1> DEFINE D == DOMAIN batch
           Of(i) == {i} \X DOMAIN batch[i].blobs
<1>1. \A i \in D : batch[i].blobs \in Seq(References)
  BY QueryTyped, RowTypes
<1>2. IsFiniteSet(D)
  <2>1. D = 1 .. Len(batch) /\ Len(batch) \in Nat
    BY QueryTyped
  <2>2. QED
    BY <2>1, FS_Interval
<1>3. \A i \in D : IsFiniteSet(Of(i))
  <2> SUFFICES ASSUME NEW i \in D PROVE IsFiniteSet(Of(i))
    OBVIOUS
  <2> DEFINE E == DOMAIN batch[i].blobs
  <2>1. E = 1 .. Len(batch[i].blobs) /\ Len(batch[i].blobs) \in Nat
    BY <1>1
  <2>2. IsFiniteSet(E)
    BY <2>1, FS_Interval
  <2>3. IsFiniteSet({i})
    BY FS_Singleton
  <2> HIDE DEF E
  <2>4. IsFiniteSet({i} \X E)
    BY <2>2, <2>3, FS_Product
  <2>5. QED
    BY <2>4 DEF E
<1>4. IsFiniteSet(Places)
  <2> DEFINE S == {Of(i) : i \in D}
             f == [i \in D |-> Of(i)]
  <2>1. f \in Surjection(D, S)
    BY DEF Surjection
  <2>2. IsFiniteSet(S)
    BY <1>2, <2>1, FS_Surjection
  <2>3. \A T \in S : IsFiniteSet(T)
    BY <1>3
  <2>4. Places = UNION S
    BY DEF Places
  <2> HIDE DEF S
  <2>5. QED
    BY <2>2, <2>3, <2>4, FS_UNION
<1>5. \A place \in Places : place[1] \in D /\ place[2] \in DOMAIN batch[place[1]].blobs
  BY DEF Places
<1>6. ASSUME NEW place \in Places PROVE Reference(place) \in References
  BY <1>1, <1>5 DEF Reference
<1> QED
  BY <1>4, <1>5, <1>6

LEMMA BatchStays ==
    ASSUME LoadInv, step \in {"load", "join"}, step' = "join", UNCHANGED <<Spooled, batch>>
    PROVE  BatchRight'
<1>1. TakenRows' = TakenRows /\ Ordered(TakenRows)' = Ordered(TakenRows)
  BY PlanStays
<1>2. \A j : Its(query[j].batch)' = Its(query[j].batch)
  BY DEF Its, Spooled, BatchIndexes, Valid
<1>3. {query[i] : i \in {j \in TakenRows : Its(query[j].batch)}}'
          = {query[i] : i \in {j \in TakenRows : Its(query[j].batch)}}
  BY <1>1, <1>2 DEF Spooled
<1> QED
  BY <1>1, <1>3 DEF LoadInv, BatchRight, Range, Spooled

LEMMA SortSteps == LoadInv /\ Sort => LoadInv'
<1> SUFFICES ASSUME LoadInv, Sort PROVE LoadInv'
  OBVIOUS
<1>1. /\ step = "load" /\ step' = "join" /\ queue' \in SortedOrders
      /\ UNCHANGED <<Spooled, at, batch, reads, answer>>
  BY DEF Sort
<1>2. /\ PlanRight' /\ IndexRight' /\ ReservedBeforeUse' /\ TakenRows' = TakenRows
      /\ Ordered(TakenRows)' = Ordered(TakenRows)
  BY <1>1, PlanStays
<1>3. PICK c : c = Cardinality(Places)
  OBVIOUS
<1>4. IsFiniteSet(Places) /\ c \in Nat
  BY <1>3, PlacesFinite, FS_CardinalityType DEF LoadInv
<1>5. /\ queue' \in [1 .. c -> Places]
      /\ \A i, j \in DOMAIN queue' : queue'[i] = queue'[j] => i = j
  BY <1>1, <1>3 DEF SortedOrders
<1>6. queue' \in Seq(Places)
  <2> DEFINE P == Places
  <2>1. queue' \in [1 .. c -> P]
    BY <1>5
  <2> HIDE DEF P
  <2>2. queue' \in Seq(P)
    BY <1>4, <2>1
  <2>3. QED
    BY <2>2 DEF P
<1>7. \A place \in Places : \E i \in DOMAIN queue' : queue'[i] = place
  <2>1. queue' \in Injection(1 .. c, Places)
    BY <1>5 DEF Injection, IsInjective
  <2>2. Cardinality(1 .. c) = Cardinality(Places)
    BY <1>3, <1>4, FS_Interval
  <2>3. queue' \in Surjection(1 .. c, Places)
    BY <1>4, <2>1, <2>2, FS_Injection
  <2>4. QED
    BY <1>5, <2>3 DEF Surjection
<1>8. Places' = Places /\ reads' = <<>>
  BY <1>1 DEF LoadInv, JoinRight, Places
<1>9. LoadTypeOK'
  BY <1>1, <1>6, <1>8 DEF LoadInv, LoadTypeOK, Spooled
<1>10. JoinRight'
  BY <1>1, <1>7, <1>8 DEF JoinRight
<1>11. BatchRight'
  BY <1>1, BatchStays
<1>12. ServesTheQuery'
  BY <1>1 DEF LoadInv, ServesTheQuery
<1> QED
  BY <1>1, <1>2, <1>9, <1>10, <1>11, <1>12 DEF LoadInv, Spooled

(***************************************************************************)
(* Joining the blobs to reads                                              *)
(***************************************************************************)
LEMMA ReferenceTypes ==
    ASSUME NEW reference \in References
    PROVE  /\ reference.object \in Objects /\ Size(reference) \in Nat
           /\ reference.offset \in {Whole} \cup Nat
           /\ reference.offset = Whole => Size(reference) = ObjectSize[reference.object]
           /\ reference.offset # Whole =>
                  reference.offset \in Nat /\ Size(reference) = reference.length
<1>1. /\ reference.object \in Objects
      /\ \/ reference.offset = Whole /\ reference.length = 0
         \/ reference.offset \in Nat /\ reference.length \in Nat \ {0}
  BY DEF References
<1>2. ObjectSize[reference.object] \in Nat
  BY <1>1, BatchLoadAssumption
<1>3. Size(reference) = IF reference.offset = Whole THEN ObjectSize[reference.object] ELSE reference.length
  BY DEF Size
<1>4. Whole \notin Nat
  BY DEF Whole
<1> QED
  BY <1>1, <1>2, <1>3, <1>4

(* The parts of a read name places, of which the batch has the references. *)
ReadRecords == [object : Objects, offset : {Whole} \cup Nat, size : Nat,
                parts : SUBSET (Places \X Nat \X Nat)]

LEMMA NewReadRight ==
    ASSUME LoadTypeOK, NEW place \in Places
    PROVE  /\ NewRead(place) \in ReadRecords /\ ReadRight(NewRead(place))
           /\ \E part \in NewRead(place).parts : part[1] = place
<1> DEFINE reference == Reference(place)
           size == Size(reference)
           new == NewRead(place)
           part == <<place, 0, size>>
<1>1. /\ reference.object \in Objects /\ size \in Nat /\ reference.offset \in {Whole} \cup Nat
      /\ reference.offset # Whole => reference.offset \in Nat
  BY PlacesFinite, ReferenceTypes
<1>2. new.object = reference.object /\ new.offset = reference.offset
      /\ new.size = size /\ new.parts = {part}
      /\ new = [object |-> reference.object, offset |-> reference.offset,
                size |-> size, parts |-> {part}]
  BY DEF NewRead
<1>3. part \in Places \X Nat \X Nat
  BY <1>1
<1>4. new \in ReadRecords
  <2> HIDE DEF part, reference, size, new
  <2>1. {part} \subseteq Places \X Nat \X Nat
    BY <1>3
  <2>2. QED
    BY <1>1, <1>2, <2>1 DEF ReadRecords
<1>5. PartRight(new, part)
  <2>1. /\ Reference(part[1]) = reference /\ part[2] = 0 /\ part[3] = size
        /\ 0 + size <= size
        /\ reference.offset # Whole => reference.offset = reference.offset + 0
    BY <1>1
  <2> HIDE DEF part, reference, size, new
  <2>2. QED
    BY <1>2, <1>3, <2>1 DEF PartRight, reference, size
<1>6. part[2] + part[3] = new.size
  BY <1>1, <1>2
<1>7. ReadRight(new)
  <2> HIDE DEF part, reference, size, new
  <2>1. QED
    BY <1>1, <1>2, <1>5, <1>6 DEF ReadRight
<1> QED
  BY <1>2, <1>4, <1>7

LEMMA LongerReadRight ==
    ASSUME LoadTypeOK, NEW place \in Places, NEW read \in ReadRecords, ReadRight(read),
           Continues(read, Reference(place))
    PROVE  /\ LongerRead(read, place) \in ReadRecords /\ ReadRight(LongerRead(read, place))
           /\ \E part \in LongerRead(read, place).parts : part[1] = place
           /\ read.parts \subseteq LongerRead(read, place).parts
<1> DEFINE reference == Reference(place)
           size == Size(reference)
           new == LongerRead(read, place)
           part == <<place, read.size, size>>
<1>1. /\ reference.object \in Objects /\ size \in Nat
      /\ reference.offset # Whole => reference.offset \in Nat
  BY PlacesFinite, ReferenceTypes
<1>2. /\ read.object = reference.object /\ read.offset # Whole /\ reference.offset # Whole
      /\ read.offset + read.size = reference.offset
  BY DEF Continues
<1>3. /\ read.object \in Objects /\ read.offset \in Nat /\ read.size \in Nat
      /\ read.parts \subseteq Places \X Nat \X Nat
  BY <1>2 DEF ReadRecords
<1>4. /\ new.object = read.object /\ new.offset = read.offset
      /\ new.size = read.size + size /\ new.parts = read.parts \cup {part}
      /\ new = [object |-> read.object, offset |-> read.offset,
                size |-> read.size + size, parts |-> read.parts \cup {part}]
  <2>1. DOMAIN read = {"object", "offset", "size", "parts"}
        /\ read = [object |-> read.object, offset |-> read.offset,
                   size |-> read.size, parts |-> read.parts]
    BY DEF ReadRecords
  <2>2. new = [read EXCEPT !.size = read.size + size, !.parts = read.parts \cup {part}]
    BY <2>1 DEF LongerRead
  <2> HIDE DEF new, part, reference, size
  <2>3. new = [object |-> read.object, offset |-> read.offset,
               size |-> read.size + size, parts |-> read.parts \cup {part}]
    BY <2>1, <2>2
  <2>4. QED
    BY <2>3
<1>5. part \in Places \X Nat \X Nat
  BY <1>1, <1>3
<1>6. new \in ReadRecords
  <2>1. read.size + size \in Nat
    BY <1>1, <1>3
  <2> HIDE DEF part, reference, size, new
  <2>2. read.parts \cup {part} \subseteq Places \X Nat \X Nat
    BY <1>3, <1>5
  <2>3. QED
    BY <1>2, <1>3, <1>4, <2>1, <2>2 DEF ReadRecords
<1>7. PartRight(new, part)
  <2>1. /\ Reference(part[1]) = reference /\ part[2] = read.size /\ part[3] = size
        /\ read.size + size <= read.size + size
    BY <1>1, <1>3
  <2> HIDE DEF part, reference, size, new
  <2>2. QED
    BY <1>2, <1>4, <1>5, <2>1 DEF PartRight, reference, size
<1>8. ASSUME NEW other \in read.parts PROVE PartRight(new, other)
  <2>1. PartRight(read, other)
    BY DEF ReadRight
  <2>2. other[2] \in Nat /\ other[3] \in Nat
    BY <1>3
  <2>3. other[2] + other[3] <= read.size => other[2] + other[3] <= read.size + size
    BY <1>1, <1>3, <2>2
  <2> HIDE DEF part, reference, size, new
  <2>4. QED
    BY <1>2, <1>4, <2>1, <2>3 DEF PartRight
<1>9. part[2] + part[3] = new.size
  BY <1>4
<1>10. ReadRight(new)
  <2>1. new.size \in Nat
    BY <1>1, <1>3, <1>4
  <2> HIDE DEF part, reference, size, new
  <2>2. QED
    BY <1>3, <1>4, <1>7, <1>8, <1>9, <2>1 DEF ReadRight
<1>11. part \in new.parts /\ part[1] = place /\ read.parts \subseteq new.parts
  <2>1. part[1] = place
    OBVIOUS
  <2> HIDE DEF part, new
  <2>2. QED
    BY <1>4, <2>1
<1> HIDE DEF part, new
<1> QED
  BY <1>6, <1>10, <1>11 DEF new

LEMMA JoinSteps == LoadInv /\ Join => LoadInv'
<1> SUFFICES ASSUME LoadInv, Join PROVE LoadInv'
  OBVIOUS
<1> DEFINE place == Head(queue)
<1>1. PICK last : last = Len(reads)
  OBVIOUS
<1>2. /\ step = "join" /\ queue # <<>> /\ queue' = Tail(queue)
      /\ UNCHANGED <<Spooled, step, at, batch, answer>>
      /\ reads' = IF last > 0 /\ Continues(reads[last], Reference(place))
                  THEN [reads EXCEPT ![last] = LongerRead(reads[last], place)]
                  ELSE Append(reads, NewRead(place))
  BY <1>1 DEF Join
<1>3. /\ LoadTypeOK /\ reads \in Seq(ReadRecords) /\ queue \in Seq(Places)
      /\ \A n \in DOMAIN reads : ReadRight(reads[n])
      /\ last \in Nat /\ DOMAIN reads = 1 .. last
  <2>1. reads \in Seq(ReadRecords)
    BY DEF LoadInv, LoadTypeOK, ReadRecords
  <2> HIDE DEF ReadRecords
  <2>2. QED
    BY <1>1, <2>1 DEF LoadInv, LoadTypeOK, JoinRight
<1>4. /\ place \in Places /\ queue' \in Seq(Places)
      /\ \A i \in DOMAIN queue : queue[i] = place \/ \E j \in DOMAIN queue' : queue'[j] = queue[i]
  <2> DEFINE P == Places
  <2>1. queue \in Seq(P) /\ queue # <<>>
    BY <1>2, <1>3
  <2> HIDE DEF P
  <2>2. /\ place \in P /\ Tail(queue) \in Seq(P) /\ Len(queue) \in Nat \ {0}
        /\ place = queue[1] /\ DOMAIN queue = 1 .. Len(queue)
        /\ DOMAIN Tail(queue) = 1 .. Len(queue) - 1
        /\ \A j \in 1 .. Len(queue) - 1 : Tail(queue)[j] = queue[j + 1]
    BY <2>1
  <2>3. ASSUME NEW i \in DOMAIN queue, i # 1
        PROVE  \E j \in DOMAIN queue' : queue'[j] = queue[i]
    <3>1. i - 1 \in 1 .. Len(queue) - 1 /\ (i - 1) + 1 = i
      BY <2>2, <2>3
    <3>2. Tail(queue)[i - 1] = queue[i]
      BY <2>2, <3>1
    <3>3. QED
      BY <1>2, <2>2, <3>1, <3>2
  <2>4. QED
    BY <1>2, <2>2, <2>3 DEF P
<1>5. /\ reads' \in Seq(ReadRecords)
      /\ \A n \in DOMAIN reads' : ReadRight(reads'[n])
      /\ \A n \in DOMAIN reads : n \in DOMAIN reads' /\ reads[n].parts \subseteq reads'[n].parts
      /\ \E n \in DOMAIN reads' : \E part \in reads'[n].parts : part[1] = place
  <2>1. CASE last > 0 /\ Continues(reads[last], Reference(place))
    <3> DEFINE new == LongerRead(reads[last], place)
    <3>1. last \in DOMAIN reads /\ reads[last] \in ReadRecords /\ ReadRight(reads[last])
      <4> HIDE DEF ReadRecords
      <4>1. QED
        BY <1>3, <2>1
    <3>2. /\ new \in ReadRecords /\ ReadRight(new)
          /\ \E part \in new.parts : part[1] = place
          /\ reads[last].parts \subseteq new.parts
      BY <1>3, <1>4, <2>1, <3>1, LongerReadRight
    <3>3. reads' = [reads EXCEPT ![last] = new]
      BY <1>2, <2>1
    <3> HIDE DEF new, place, ReadRecords
    <3>4. /\ reads' \in Seq(ReadRecords) /\ DOMAIN reads' = DOMAIN reads
          /\ reads'[last] = new
          /\ \A n \in DOMAIN reads : n # last => reads'[n] = reads[n]
      BY <1>3, <3>1, <3>2, <3>3
    <3>5. QED
      BY <1>3, <3>1, <3>2, <3>4
  <2>2. CASE ~(last > 0 /\ Continues(reads[last], Reference(place)))
    <3> DEFINE new == NewRead(place)
    <3>1. /\ new \in ReadRecords /\ ReadRight(new)
          /\ \E part \in new.parts : part[1] = place
      BY <1>3, <1>4, NewReadRight
    <3>2. reads' = Append(reads, new)
      BY <1>2, <2>2
    <3> HIDE DEF new, place, ReadRecords
    <3>3. /\ reads' \in Seq(ReadRecords) /\ DOMAIN reads' = 1 .. last + 1
          /\ reads'[last + 1] = new
          /\ \A n \in DOMAIN reads : n \in 1 .. last + 1 /\ reads'[n] = reads[n]
      BY <1>1, <1>3, <3>1, <3>2
    <3>4. \A n \in 1 .. last + 1 : n \in DOMAIN reads \/ n = last + 1
      BY <1>3
    <3>5. last + 1 \in 1 .. last + 1
      BY <1>3
    <3>6. QED
      BY <1>3, <3>1, <3>3, <3>4, <3>5
  <2>3. QED
    BY <2>1, <2>2
<1>6. Places' = Places /\ \A read : ReadRight(read)' = ReadRight(read)
  <2>1. Places' = Places
    BY <1>2 DEF Places
  <2>2. \A read, part : PartRight(read, part)' = PartRight(read, part)
    BY <1>2, <2>1 DEF PartRight, Reference
  <2>3. QED
    BY <2>1, <2>2 DEF ReadRight
<1>7. LoadTypeOK'
  <2>1. reads' \in Seq([object : Objects, offset : {Whole} \cup Nat, size : Nat,
                        parts : SUBSET (Places' \X Nat \X Nat)])
    BY <1>5, <1>6 DEF ReadRecords
  <2>2. queue' \in Seq(Places')
    BY <1>4, <1>6
  <2>3. QED
    BY <1>2, <2>1, <2>2 DEF LoadInv, LoadTypeOK, Spooled
<1>8. JoinRight'
  <2>1. \A n \in DOMAIN reads' : ReadRight(reads[n])'
    <3> SUFFICES ASSUME NEW n \in DOMAIN reads' PROVE ReadRight(reads[n])'
      OBVIOUS
    <3>1. ReadRight(reads'[n])
      BY <1>5
    <3>2. \A part : PartRight(reads'[n], part) <=> PartRight(reads[n], part)'
      BY <1>2, <1>6 DEF PartRight, Reference
    <3>3. QED
      BY <3>1, <3>2 DEF ReadRight
  <2>2. ASSUME NEW other \in Places
        PROVE  \/ \E i \in DOMAIN queue' : queue'[i] = other
               \/ \E n \in DOMAIN reads' : \E part \in reads'[n].parts : part[1] = other
    <3>1. CASE \E i \in DOMAIN queue : queue[i] = other
      BY <1>4, <1>5, <3>1
    <3>2. CASE \E n \in DOMAIN reads : \E part \in reads[n].parts : part[1] = other
      BY <1>5, <3>2
    <3>3. QED
      BY <1>2, <3>1, <3>2 DEF LoadInv, JoinRight
  <2>3. QED
    BY <1>2, <1>6, <2>1, <2>2 DEF JoinRight
<1>9. BatchRight' /\ PlanRight' /\ IndexRight' /\ ReservedBeforeUse'
  BY <1>2, BatchStays, PlanStays
<1>10. ServesTheQuery'
  BY <1>2 DEF LoadInv, ServesTheQuery
<1> QED
  BY <1>2, <1>7, <1>8, <1>9, <1>10 DEF LoadInv, Spooled

(***************************************************************************)
(* Reading the blobs                                                       *)
(***************************************************************************)
(* What is cut from a read for a place is what its reference names.        *)
LEMMA PartIsNamed ==
    ASSUME LoadTypeOK, NEW read \in ReadRecords, NEW part \in read.parts,
           PartRight(read, part)
    PROVE  SubSeq(Content(read), part[2] + 1, part[2] + part[3]) = Named(Reference(part[1]))
<1> DEFINE reference == Reference(part[1])
           size == Size(reference)
<1>1. /\ part[1] \in Places /\ part[2] \in Nat /\ part[3] \in Nat /\ read.size \in Nat
  BY DEF ReadRecords
<1>2. /\ reference.object = read.object
      /\ part[3] = size /\ part[2] + part[3] <= read.size
      /\ IF read.offset = Whole THEN reference.offset = Whole /\ part[2] = 0
         ELSE reference.offset # Whole /\ reference.offset = read.offset + part[2]
  BY DEF PartRight
<1>3. Start(read) \in Nat
  BY DEF ReadRecords, Start
<1>4. PICK start, object, from, length, total :
          /\ start = Start(read) /\ object = read.object
          /\ from = part[2] /\ length = part[3] /\ total = read.size
  OBVIOUS
<1>5. start + from = IF reference.offset = Whole THEN 0 ELSE reference.offset
  BY <1>1, <1>2, <1>3, <1>4 DEF Start
<1>6. Named(reference) = [i \in 1 .. length |-> <<object, i - 1 + (start + from)>>]
  BY <1>2, <1>4, <1>5 DEF Named
<1>7. Content(read) = [i \in 1 .. total |-> <<object, start + i - 1>>]
  BY <1>4 DEF Content
<1>8. /\ start \in Nat /\ from \in Nat /\ length \in Nat /\ total \in Nat
      /\ from + length <= total
  BY <1>1, <1>2, <1>3, <1>4
<1>9. SubSeq([i \in 1 .. total |-> <<object, start + i - 1>>], from + 1, from + length)
          = [i \in 1 .. length |-> <<object, i - 1 + (start + from)>>]
  <2> DEFINE content == [i \in 1 .. total |-> <<object, start + i - 1>>]
             cut == SubSeq(content, from + 1, from + length)
             named == [i \in 1 .. length |-> <<object, i - 1 + (start + from)>>]
  <2>1. \A i \in from + 1 .. from + length : content[i] \in {object} \X Nat
    BY <1>8
  <2>2. /\ from + 1 \in Int /\ from + length \in Int
        /\ (from + length) - (from + 1) + 1 = length
        /\ (IF from + 1 <= from + length THEN length ELSE 0) = length
    BY <1>8
  <2>3. /\ cut \in Seq({object} \X Nat)
        /\ Len(cut) = length
        /\ \A i \in 1 .. length : cut[i] = content[from + 1 + i - 1]
    <3> HIDE DEF content
    <3>1. QED
      BY <2>1, <2>2, SubSeqProperties
  <2>4. \A i \in 1 .. length : content[from + 1 + i - 1] = named[i]
    <3> SUFFICES ASSUME NEW i \in 1 .. length PROVE content[from + 1 + i - 1] = named[i]
      OBVIOUS
    <3>1. from + 1 + i - 1 \in 1 .. total
      BY <1>8
    <3>2. start + (from + 1 + i - 1) - 1 = i - 1 + (start + from)
      BY <1>8
    <3>3. QED
      BY <3>1, <3>2
  <2>5. cut = [i \in 1 .. length |-> named[i]]
    <3> HIDE DEF cut, content, named
    <3>1. QED
      BY <2>3, <2>4
  <2>6. QED
    BY <2>5
<1> QED
  BY <1>4, <1>6, <1>7, <1>9

LEMMA FetchSteps == LoadInv /\ Fetch => LoadInv'
<1> SUFFICES ASSUME LoadInv, Fetch PROVE LoadInv'
  OBVIOUS
<1>1. /\ step = "join" /\ queue = <<>> /\ step' = "done" /\ row = Len(query)
      /\ UNCHANGED <<Spooled, at, batch, queue, reads>>
      /\ answer' = IF \A n \in DOMAIN reads : Loadable(reads[n])
                   THEN Served([place \in Places |-> Loaded(place)]) ELSE NoBlobs("failed")
  BY DEF Fetch, LoadInv
<1>2. Places' = Places /\ \A place : Reference(place)' = Reference(place)
  BY <1>1 DEF Places, Reference
<1>3. TakenRows = Valid /\ Valid' = Valid /\ Expected' = Expected
  BY <1>1, PlanIsQuery, PlanStays
<1>4. LoadTypeOK'
  BY <1>1, <1>2 DEF LoadInv, LoadTypeOK, Spooled, NoBlobs, Served
<1>5. PlanRight' /\ IndexRight' /\ ReservedBeforeUse' /\ BatchRight'
  BY <1>1, PlanStays DEF BatchRight
<1>6. JoinRight'
  <2>1. \A read : ReadRight(read)' = ReadRight(read)
    <3>1. \A read, part : PartRight(read, part)' = PartRight(read, part)
      BY <1>1, <1>2 DEF PartRight
    <3>2. QED
      BY <3>1 DEF ReadRight
  <2>2. \A n \in DOMAIN reads' : ReadRight(reads[n])'
    <3> SUFFICES ASSUME NEW n \in DOMAIN reads' PROVE ReadRight(reads[n])'
      OBVIOUS
    <3>1. ReadRight(reads[n])
      BY <1>1 DEF LoadInv, JoinRight
    <3>2. \A part : PartRight(reads[n], part)' <=> PartRight(reads[n], part)
      BY <1>1, <1>2 DEF PartRight
    <3>3. QED
      BY <1>1, <3>1, <3>2 DEF ReadRight
  <2>3. QED
    BY <1>1, <2>2 DEF JoinRight
<1>7. /\ LoadTypeOK /\ reads \in Seq(ReadRecords)
      /\ \A n \in DOMAIN reads : reads[n] \in ReadRecords /\ ReadRight(reads[n])
  <2>1. reads \in Seq(ReadRecords)
    BY DEF LoadInv, LoadTypeOK, ReadRecords
  <2> HIDE DEF ReadRecords
  <2>2. QED
    BY <2>1 DEF LoadInv, JoinRight
<1>8. CASE \A n \in DOMAIN reads : Loadable(reads[n])
  <2>1. ASSUME NEW place \in Places PROVE Loaded(place) = Named(Reference(place))
    <3> DEFINE Of(r) == \E p \in r.parts : p[1] = place
               read == CHOOSE r \in Range(reads) : Of(r)
               part == CHOOSE p \in read.parts : p[1] = place
    <3>1. \E r \in Range(reads) : Of(r)
      <4>1. PICK n \in DOMAIN reads : \E p \in reads[n].parts : p[1] = place
        BY <1>1 DEF LoadInv, JoinRight
      <4>2. reads[n] \in Range(reads)
        BY <4>1 DEF Range
      <4>3. QED
        BY <4>1, <4>2
    <3>2. read \in Range(reads) /\ Of(read)
      <4> HIDE DEF Of
      <4>1. QED
        BY <3>1
    <3>3. part \in read.parts /\ part[1] = place
      <4> HIDE DEF read
      <4>1. \E p \in read.parts : p[1] = place
        BY <3>2
      <4>2. QED
        BY <4>1
    <3>4. read \in ReadRecords /\ ReadRight(read)
      <4> HIDE DEF read, ReadRecords
      <4>1. QED
        BY <1>7, <3>2 DEF Range
    <3>5. PartRight(read, part)
      <4> HIDE DEF read, part
      <4>1. QED
        BY <3>3, <3>4 DEF ReadRight
    <3>6. Loaded(place) = SubSeq(Content(read), part[2] + 1, part[2] + part[3])
      BY DEF Loaded
    <3> HIDE DEF read, part, ReadRecords
    <3>7. QED
      BY <1>7, <3>3, <3>4, <3>5, <3>6, PartIsNamed
  <2>2. answer' = Served([place \in Places |-> Loaded(place)])
    BY <1>1, <1>8
  <2>3. [place \in Places |-> Loaded(place)] = [place \in Places |-> Named(Reference(place))]
    BY <2>1
  <2>4. answer'.kind = "batch" /\ answer'.blobs = [place \in Places |-> Named(Reference(place))]
    BY <2>2, <2>3 DEF Served
  <2>5. [place \in Places |-> Named(Reference(place))]'
            = [place \in Places |-> Named(Reference(place))]
    <3>1. \A place \in Places : Named(Reference(place))' = Named(Reference(place))
      BY <1>2 DEF Named, Size
    <3>2. QED
      BY <1>2, <3>1
  <2>6. /\ Ordered(Valid) /\ Range(batch) = Expected /\ Expected # {}
        /\ \A i, j \in DOMAIN batch : i < j => Before(batch[i], batch[j])
    BY <1>1, <1>3 DEF LoadInv, BatchRight, Expected
  <2>7. /\ Ordered(Valid)' /\ Range(batch)' = Expected' /\ Expected' # {}
        /\ \A i, j \in DOMAIN batch' : i < j => Before(batch'[i], batch'[j])
    BY <1>1, <1>3, <2>6 DEF Ordered, Spooled, Range
  <2>8. ServesTheQuery'
    BY <2>4, <2>5, <2>7 DEF ServesTheQuery
  <2>9. QED
    BY <1>1, <1>4, <1>5, <1>6, <2>8 DEF LoadInv
<1>9. CASE ~(\A n \in DOMAIN reads : Loadable(reads[n]))
  <2>1. PICK n \in DOMAIN reads : ~Loadable(reads[n])
    BY <1>9
  <2> DEFINE read == reads[n]
  <2>2. read \in ReadRecords /\ ReadRight(read)
    BY <1>7
  <2>3. PICK part \in read.parts : part[2] + part[3] = read.size
    BY <2>2 DEF ReadRight
  <2> DEFINE reference == Reference(part[1])
  <2>4. PartRight(read, part)
    BY <2>2 DEF ReadRight
  <2>5. /\ part[1] \in Places /\ part[2] \in Nat /\ part[3] \in Nat
        /\ read.object \in Objects /\ read.offset \in {Whole} \cup Nat
    BY <2>2 DEF ReadRecords
  <2>6. /\ reference.object = read.object /\ part[3] = Size(reference)
        /\ IF read.offset = Whole THEN reference.offset = Whole /\ part[2] = 0
           ELSE reference.offset # Whole /\ reference.offset = read.offset + part[2]
    BY <2>4 DEF PartRight
  <2>7. /\ Size(reference) \in Nat
        /\ reference.offset = Whole => Size(reference) = ObjectSize[reference.object]
        /\ reference.offset # Whole => Size(reference) = reference.length
    BY <1>7, <2>5, PlacesFinite, ReferenceTypes
  <2>8. ObjectSize[read.object] \in Nat
    BY <2>5, BatchLoadAssumption
  <2>9. ~(Start(read) + read.size <= ObjectSize[read.object])
    BY <2>1 DEF Loadable
  <2>10. read.offset # Whole
    BY <2>3, <2>5, <2>6, <2>7, <2>8, <2>9 DEF Start
  <2>11. read.offset + (part[2] + part[3]) = reference.offset + reference.length
    BY <2>5, <2>6, <2>7, <2>10
  <2>12. ~Exists(reference)
    BY <2>3, <2>6, <2>9, <2>10, <2>11 DEF Exists, Start
  <2>13. ~Exists(reference)'
    BY <1>2, <2>12 DEF Exists
  <2>14. answer'.kind = "failed"
    BY <1>1, <1>9 DEF NoBlobs
  <2>15. ServesTheQuery'
    BY <1>2, <2>5, <2>13, <2>14 DEF ServesTheQuery
  <2>16. QED
    BY <1>1, <1>4, <1>5, <1>6, <2>15 DEF LoadInv
<1> QED
  BY <1>8, <1>9

LEMMA LoadStutters ==
    ASSUME LoadInv, UNCHANGED loadVars
    PROVE  LoadInv'
<1>1. UNCHANGED Spooled /\ UNCHANGED <<step, at, batch, queue, reads, answer>>
  BY DEF loadVars, Spooled
<1>2. LoadTypeOK' /\ ReservedBeforeUse' /\ JoinRight'
  <2>1. Places' = Places
    BY <1>1 DEF Places
  <2>2. LoadTypeOK' /\ ReservedBeforeUse'
    BY <1>1, <2>1 DEF LoadInv, LoadTypeOK, ReservedBeforeUse, Spooled
  <2>3. \A n : ReadRight(reads[n])' = ReadRight(reads[n])
    <3>1. \A n, part : PartRight(reads[n], part)' = PartRight(reads[n], part)
      BY <1>1, <2>1 DEF PartRight, Reference
    <3>2. QED
      BY <1>1, <3>1 DEF ReadRight
  <2>4. JoinRight'
    BY <1>1, <2>1, <2>3 DEF LoadInv, JoinRight
  <2>5. QED
    BY <2>2, <2>4
<1>3. /\ PlanBatches' = PlanBatches /\ TakenRows' = TakenRows /\ PlanRows' = PlanRows
      /\ Valid' = Valid /\ BatchIndexes' = BatchIndexes
      /\ \A k : FirstOfBatch(k)' = FirstOfBatch(k)
  BY <1>1 DEF Spooled, PlanBatches, TakenRows, PlanRows, Valid, BatchIndexes, FirstOfBatch
<1>4. /\ \A k : Earlier(plan[k].row.batch)' = Earlier(plan[k].row.batch)
      /\ \A j : Its(query[j].batch)' = Its(query[j].batch)
      /\ Ordered(TakenRows)' = Ordered(TakenRows) /\ Ordered(Valid)' = Ordered(Valid)
      /\ Ordered(DOMAIN query)' = Ordered(DOMAIN query)
  BY <1>1, <1>3 DEF Spooled, Earlier, Its, Ordered
<1>5. /\ {query[i] : i \in TakenRows}' = {query[i] : i \in TakenRows}
      /\ {query[i] : i \in {j \in TakenRows : Its(query[j].batch)}}'
             = {query[i] : i \in {j \in TakenRows : Its(query[j].batch)}}
      /\ Expected' = Expected /\ Range(batch)' = Range(batch)
  BY <1>1, <1>3, <1>4 DEF Spooled, Expected, Range
<1>6. PlanRight'
  BY <1>1, <1>3, <1>4, <1>5 DEF LoadInv, PlanRight, Spooled
<1>7. IndexRight'
  BY <1>1, <1>3, <1>4 DEF LoadInv, IndexRight, Spooled
<1>8. BatchRight'
  <2>1. \A k : ReadFrom(k)' = ReadFrom(k)
    BY <1>1, <1>3, <1>4 DEF ReadFrom, Spooled
  <2>2. QED
    BY <1>1, <1>3, <1>4, <1>5, <2>1 DEF LoadInv, BatchRight, Spooled
<1>9. ServesTheQuery'
  <2>1. Places' = Places /\ \A place : Reference(place)' = Reference(place)
    BY <1>1 DEF Places, Reference
  <2>2. \A place : /\ Named(Reference(place))' = Named(Reference(place))
                   /\ Exists(Reference(place))' = Exists(Reference(place))
    BY <2>1 DEF Named, Exists, Size
  <2>3. [place \in Places |-> Named(Reference(place))]'
            = [place \in Places |-> Named(Reference(place))]
    BY <2>1, <2>2
  <2>4. QED
    BY <1>1, <1>3, <1>4, <1>5, <2>1, <2>2, <2>3 DEF LoadInv, ServesTheQuery, Spooled
<1> QED
  BY <1>1, <1>2, <1>6, <1>7, <1>8, <1>9 DEF LoadInv, Spooled

(***************************************************************************)
(* The theorems                                                            *)
(***************************************************************************)
(* LoadInv is an inductive invariant of spooling a query and loading a     *)
(* batch of it.                                                            *)
THEOREM LoadInductive == LoadSpec => []LoadInv
<1>1. LoadInit => LoadInv
  BY LoadStarts
<1>2. LoadInv /\ [LoadNext]_loadVars => LoadInv'
  <2> SUFFICES ASSUME LoadInv, [LoadNext]_loadVars PROVE LoadInv'
    OBVIOUS
  <2>1. CASE Spool
    BY <2>1, SpoolSteps
  <2>2. CASE Publish
    BY <2>2, PublishSteps
  <2>3. CASE Seek
    BY <2>3, SeekSteps
  <2>4. CASE ReadRecord
    BY <2>4, ReadRecordSteps
  <2>5. CASE Sort
    BY <2>5, SortSteps
  <2>6. CASE Join
    BY <2>6, JoinSteps
  <2>7. CASE Fetch
    BY <2>7, FetchSteps
  <2>8. CASE UNCHANGED loadVars
    BY <2>8, LoadStutters
  <2>9. QED
    BY <2>1, <2>2, <2>3, <2>4, <2>5, <2>6, <2>7, <2>8 DEF LoadNext
<1> QED
  BY <1>1, <1>2, PTL DEF LoadSpec

(* Every variable of the loading of a batch keeps its type: an index entry *)
(* is a place of the plan file, a part of a read names a blob of the batch *)
(* and where it begins there.                                              *)
THEOREM LoadTypeCorrect == LoadSpec => []LoadTypeOK
<1>1. LoadInv => LoadTypeOK
  BY DEF LoadInv
<1> QED
  BY <1>1, LoadInductive, PTL

(* Whatever the query returns, however its ranges are joined, a sequence   *)
(* number is served the valid rows of its batch with the bytes their       *)
(* references name.                                                        *)
THEOREM QueryServed == LoadSpec => []ServesTheQuery
<1>1. LoadInv => ServesTheQuery
  BY DEF LoadInv
<1> QED
  BY <1>1, LoadInductive, PTL

(* The plan file and its index never take more disk than is reserved.      *)
THEOREM PlanReserved == LoadSpec => []ReservedBeforeUse
<1>1. LoadInv => ReservedBeforeUse
  BY DEF LoadInv
<1> QED
  BY <1>1, LoadInductive, PTL
=============================================================================
