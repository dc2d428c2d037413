------------------------------ MODULE PlanCache ------------------------------
(***************************************************************************)
(* The batch service: GET .../batches/{sequence} of one stream             *)
(* (server/src/batch_http.rs, http/runtime.rs), the background jobs that   *)
(* build its query plan (sampling.rs) and its batch files, their failure   *)
(* files (job.rs), the loading memory of the stream (runtime.rs), and the  *)
(* pruning of both kinds of files (cache_limits.rs).                       *)
(*                                                                         *)
(* A plan is three files: the rows, an index and, last, "ready" with the   *)
(* generation of this build.  A batch file lives in a directory named      *)
(* after the generation the request read.  Requests take no lock to read.  *)
(* A file's content is the number of the build it comes from; what the     *)
(* query returned to that build is Query.  Taking a lock is one step here: *)
(* the gap between open and flock is in CacheBudget.                       *)
(***************************************************************************)
EXTENDS Integers, FiniteSets, Sequences, FiniteSetsExt

CONSTANTS
    Requests,   \* clients of the stream, each asking until it is answered
    Sequence,   \* per request: the sequence number it asks for
    Repeat,     \* query.repeat
    Query,      \* per build: the query_batch_idx of its batches, in order
    Need,       \* per batch: permits its load takes
    Pool,       \* permits of a loading semaphore
    Faults,     \* failed jobs and crashes, in all (bound)
    Prunings    \* groups pruned (bound)

Builds == DOMAIN Query
Batches == UNION {{Query[g][i] : i \in DOMAIN Query[g]} : g \in Builds}

ASSUME PlanCacheAssumption ==
    /\ IsFiniteSet(Requests) /\ Requests \cap {"nobody", "job", "prune"} = {}
    /\ Sequence \in [Requests -> Nat] /\ Repeat \in BOOLEAN
    /\ Query \in Seq(Seq(Nat \ {0}))  \* batches are numbered from 1 here
    /\ Pool \in Nat \ {0} /\ Need \in [Batches -> Nat \ {0}]
    /\ Faults \in Nat /\ Prunings \in Nat

None == 0
Plan == <<0, 0>>                  \* the group of the plan's files
Keys == {Plan} \cup (Builds \X Batches)
Members == {"ready", "plan", "index", "error"}
NoServed == [kind |-> "none", build |-> None, batch |-> None]

VARIABLES
    files,   \* the plan's published files: per member its build, or None
    data,    \* per batch file: the build its samples come from, or None
    error,   \* per group: none, fresh, old (retryable, 2 s) or permanent
    lock,    \* per group: who holds its lock: nobody, a request, job, prune
    req,     \* per request: where it is and what it has read
    served,  \* per request: its answer other than 202
    builder, \* the plan job: none, query, index, ready
    built,   \* builds published so far, the last one's number
    job,     \* per batch file: the job that writes it
    pool,    \* the loading semaphore in the weak map, by number
    prune,   \* the group being pruned and the members its scan listed
    faults,  \* failed jobs and crashes so far
    pruned,  \* groups pruned so far
    mixed,   \* history: a request opened a plan newer than it had read
    torn     \* history: a plan is pruned by a list made before its "ready"

History == <<pruned, faults, mixed, torn>>

vars == <<files, data, error, lock, req, served, builder, built, job, pool,
          prune, History>>

NoJob == [state |-> "none", build |-> None, pool |-> None]
NoPrune == [group |-> Plan, state |-> "none", listed |-> {}]
NewRequest == [at |-> "ask", back |-> "ask", gen |-> None, index |-> None,
               plan |-> None, batch |-> None]

TypeOK ==
    /\ files \in [{"ready", "plan", "index"} -> Builds \cup {None}]
    /\ data \in [Builds \X Batches -> Builds \cup {None}]
    /\ error \in [Keys -> {"none", "fresh", "old", "permanent"}]
    /\ lock \in [Keys -> {"nobody", "job", "prune"} \cup Requests]
    /\ \A r \in Requests :
           /\ req[r].at \in {"ask", "read", "lock", "check", "wait", "index", "plan",
                            "bcheck", "block", "bwait", "open", "remove", "done"}
           /\ \A f \in {"gen", "index", "plan"} : req[r][f] \in Builds \cup {None}
           /\ req[r].batch \in Batches \cup {None}
           /\ served[r].kind \in {"none", "batch", "end", "error"}
    /\ builder \in {"none", "query", "index", "ready"}
    /\ built \in Builds \cup {None}
    /\ \A k \in Builds \X Batches : job[k].state \in {"none", "size", "load"}
    /\ pool \in 0 .. 2
    /\ prune.state \in {"none", "scanned", "remove"}
    /\ prune.listed \subseteq Members
    /\ faults \in 0 .. Faults /\ pruned \in 0 .. Prunings
    /\ mixed \in BOOLEAN /\ torn \in BOOLEAN

Init ==
    /\ files = [m \in {"ready", "plan", "index"} |-> None]
    /\ data = [k \in Builds \X Batches |-> None]
    /\ error = [k \in Keys |-> "none"]
    /\ lock = [k \in Keys |-> "nobody"]
    /\ req = [r \in Requests |-> NewRequest]
    /\ served = [r \in Requests |-> NoServed]
    /\ builder = "none" /\ built = None
    /\ job = [k \in Builds \X Batches |-> NoJob]
    /\ pool = None /\ prune = NoPrune
    /\ faults = 0 /\ pruned = 0
    /\ mixed = FALSE /\ torn = FALSE

(***************************************************************************)
(* Requests                                                                *)
(***************************************************************************)
Goto(r, at) == req' = [req EXCEPT ![r].at = at]

(* 202, or 503 for a retryable failure: the locks the request holds itself *)
(* are dropped, and the client asks for the same sequence again.           *)
Pending(r) ==
    /\ req' = [req EXCEPT ![r] = NewRequest]
    /\ lock' = [k \in Keys |-> IF lock[k] = r THEN "nobody" ELSE lock[k]]

Answer(r, kind, build, batch) ==
    /\ served' = [served EXCEPT ![r] =
                     [kind |-> kind, build |-> build, batch |-> batch]]
    /\ req' = [req EXCEPT ![r] = [NewRequest EXCEPT !.at = "done"]]
    /\ lock' = [k \in Keys |-> IF lock[k] = r THEN "nobody" ELSE lock[k]]

(* Mutant: the batch directory is named after the newest build instead of  *)
(* the one whose generation the request has read.                          *)
NewestGeneration(r) ==
    IF req[r].batch = None THEN Plan ELSE <<built, req[r].batch>>

(* The group whose error file the request looks at.                        *)
Group(r) == IF req[r].batch = None THEN Plan ELSE <<req[r].gen, req[r].batch>>

JobVars == <<files, data, error, builder, built, job, pool, prune, History>>

Ask(r) ==
    /\ req[r].at = "ask"
    /\ Goto(r, IF files["ready"] = None THEN "lock" ELSE "read")
    /\ UNCHANGED <<lock, served, JobVars>>

(* The generation is read (and the file touched), without a lock; a file   *)
(* that is gone by now is a NotFound, which the handler answers with 202.  *)
ReadReady(r) ==
    /\ req[r].at = "read"
    /\ \/ files["ready"] = None /\ Pending(r)
       \/ /\ files["ready"] # None
          /\ req' = [req EXCEPT ![r].at = "index", ![r].gen = files["ready"]]
          /\ UNCHANGED lock
    /\ UNCHANGED <<served, JobVars>>

LockPlan(r) ==
    /\ req[r].at = "lock"
    /\ \/ /\ lock[Plan] = "nobody"
          /\ lock' = [lock EXCEPT ![Plan] = r]
          /\ Goto(r, "check")
       \/ lock[Plan] # "nobody" /\ Pending(r)
    /\ UNCHANGED <<served, JobVars>>

(* No failure in the way: ready is looked for again under the lock, which  *)
(* moves to the job if there is one to start.                              *)
StartBuild(r) ==
    /\ req[r].at = "check" /\ error[Plan] = "none"
    /\ \/ /\ files["ready"] # None
          /\ lock' = [lock EXCEPT ![Plan] = "nobody"]
          /\ Goto(r, "read")
          /\ UNCHANGED builder
       \/ /\ files["ready"] = None
          /\ lock' = [lock EXCEPT ![Plan] = "job"]
          /\ builder' = "query"
          /\ Goto(r, "wait")
    /\ UNCHANGED <<files, data, error, served, built, job, pool, prune, History>>

(* wait_for_file: the file is there, or two seconds are over.              *)
PlanAppears(r) ==
    /\ req[r].at = "wait" /\ files["ready"] # None
    /\ Goto(r, "read")
    /\ UNCHANGED <<lock, served, JobVars>>

TimeOut(r) ==
    /\ \/ req[r].at = "wait" /\ files["ready"] = None
       \/ req[r].at = "bwait" /\ data[Group(r)] = None
    /\ Pending(r)
    /\ UNCHANGED <<served, JobVars>>

(* job::check reads the failure and its age, and then removes it, without  *)
(* a lock of its own.                                                      *)
Checking(r) ==
    \/ req[r].at \in {"check", "bcheck"}
    \/ req[r].at = "wait" /\ files["ready"] = None
    \/ req[r].at = "bwait" /\ data[Group(r)] = None

ReadFailure(r) ==
    /\ Checking(r)
    /\ \/ error[Group(r)] = "permanent" /\ Answer(r, "error", None, None)
       \/ error[Group(r)] = "fresh" /\ Pending(r) /\ UNCHANGED served
       \/ /\ error[Group(r)] = "old"
          /\ req' = [req EXCEPT ![r].back = req[r].at, ![r].at = "remove"]
          /\ UNCHANGED <<served, lock>>
    /\ UNCHANGED JobVars

RemoveFailure(r) ==
    /\ req[r].at = "remove"
    /\ \/ error[Group(r)] = "none" /\ Pending(r)
       \/ /\ error[Group(r)] # "none" /\ UNCHANGED lock
          /\ req' = [req EXCEPT ![r].at = req[r].back, ![r].back = "ask"]
    /\ error' = [error EXCEPT ![Group(r)] = "none"]
    /\ UNCHANGED <<files, data, served, builder, built, job, pool, prune, History>>

(* QuerySampler::open: a file that is gone is a NotFound again.            *)
OpenIndex(r) ==
    /\ req[r].at = "index"
    /\ \/ files["index"] = None /\ Pending(r)
       \/ /\ files["index"] # None
          /\ req' = [req EXCEPT ![r].at = "plan", ![r].index = files["index"]]
          /\ UNCHANGED lock
    /\ UNCHANGED <<served, JobVars>>

(* Mutant: a repeated query is not taken modulo its length.                *)
NeverRepeats(index, plan, sequence) ==
    IF sequence < Min({Len(Query[index]), Len(Query[plan])})
    THEN Query[plan][sequence + 1] ELSE None

(* QuerySampler::batch_at on the two files that are open; nobody changes   *)
(* those.  Batches of two builds at the same place have the same offset.   *)
BatchAt(index, plan, sequence) ==
    LET n == Len(Query[index])
        place == IF Repeat /\ n # 0 THEN sequence % n ELSE sequence IN
    IF place < Min({n, Len(Query[plan])}) THEN Query[plan][place + 1] ELSE None

OpenPlan(r) ==
    /\ req[r].at = "plan"
    /\ LET plan == files["plan"]
           batch == BatchAt(req[r].index, plan, Sequence[r]) IN
       \/ plan = None /\ Pending(r) /\ UNCHANGED <<served, mixed>>
       \/ /\ plan # None
          /\ mixed' = (mixed \/ {plan, req[r].index} # {req[r].gen})
          /\ \/ batch = None /\ Answer(r, "end", plan, None)
             \/ /\ batch # None
                /\ req' = [req EXCEPT ![r].at = "bcheck", ![r].index = None,
                                      ![r].plan = plan, ![r].batch = batch]
                /\ UNCHANGED <<served, lock>>
    /\ UNCHANGED <<files, data, error, builder, built, job, pool, prune, pruned, faults, torn>>

(* The file is there, before the job or after it; the handler then maps    *)
(* it, and answers 202 if it has been pruned since.                        *)
FindBatch(r) ==
    /\ \/ req[r].at = "bcheck" /\ error[Group(r)] = "none"
       \/ req[r].at = "bwait"
    /\ data[Group(r)] # None
    /\ req' = [req EXCEPT ![r].at = "open", ![r].plan = None]
    /\ UNCHANGED <<lock, served, JobVars>>

ServeBatch(r) ==
    /\ req[r].at = "open"
    /\ LET build == data[Group(r)] IN
       \/ build # None /\ Answer(r, "batch", build, req[r].batch)
       \/ build = None /\ Pending(r) /\ UNCHANGED served
    /\ UNCHANGED JobVars

MissBatch(r) ==
    /\ req[r].at = "bcheck" /\ error[Group(r)] = "none"
    /\ data[Group(r)] = None
    /\ Goto(r, "block")
    /\ UNCHANGED <<lock, served, JobVars>>

(* loading_memory: the semaphore in the map if anybody still holds it, or  *)
(* a new one.                                                              *)
Alive(p) == \E k \in DOMAIN job : job[k].state # "none" /\ job[k].pool = p
(* Mutant: every load makes its own semaphore.                             *)
EveryLoadItsOwn == Min({p \in 1 .. 2 : ~Alive(p)})

LoadingMemory == IF Alive(pool) THEN pool ELSE Min({p \in 1 .. 2 : ~Alive(p)})

StartLoad(r) ==
    /\ req[r].at = "block"
    /\ \/ lock[Group(r)] # "nobody" /\ Pending(r) /\ UNCHANGED <<job, pool>>
       \/ /\ lock[Group(r)] = "nobody"
          /\ lock' = [lock EXCEPT ![Group(r)] = "job"]
          /\ pool' = LoadingMemory
          /\ job' = [job EXCEPT ![Group(r)] =
               [state |-> "size", build |-> req[r].plan, pool |-> LoadingMemory]]
          /\ req' = [req EXCEPT ![r].at = "bwait", ![r].plan = None]
    /\ UNCHANGED <<files, data, error, served, builder, built, prune, History>>

(***************************************************************************)
(* Background jobs                                                         *)
(***************************************************************************)
RequestVars == <<req, served>>

(* Mutant: the lock of a job that failed stays.                            *)
KeepLock(k, kind) ==
    /\ faults < Faults
    /\ faults' = faults + 1
    /\ error' = [error EXCEPT ![k] = kind]
    /\ UNCHANGED lock

(* job::failed writes the failure, and the job drops its lock.             *)
Fail(k, kind) ==
    /\ faults < Faults
    /\ faults' = faults + 1
    /\ error' = [error EXCEPT ![k] = kind]
    /\ lock' = [lock EXCEPT ![k] = "nobody"]

(* The rows are spooled and the file is renamed.                           *)
PublishPlan ==
    /\ builder = "query" /\ built + 1 \in Builds
    /\ built' = built + 1
    /\ files' = [files EXCEPT !["plan"] = built + 1]
    /\ builder' = "index"
    /\ UNCHANGED <<data, error, lock, RequestVars, job, pool, prune, History>>

PublishIndex ==
    /\ builder = "index"
    /\ files' = [files EXCEPT !["index"] = built]
    /\ builder' = "ready"
    /\ UNCHANGED <<data, error, lock, RequestVars, built, job, pool, prune, History>>

PublishReady ==
    /\ builder = "ready"
    /\ files' = [files EXCEPT !["ready"] = built]
    /\ builder' = "none"
    /\ lock' = [lock EXCEPT ![Plan] = "nobody"]
    /\ UNCHANGED <<data, error, RequestVars, built, job, pool, prune, History>>

(* Only the query fails for good; the small files lack space at worst.     *)
FailPlan ==
    /\ builder # "none"
    /\ Fail(Plan, "fresh") \/ (builder = "query" /\ Fail(Plan, "permanent"))
    /\ builder' = "none"
    /\ UNCHANGED <<files, data, RequestVars, built, job, pool, prune, pruned, mixed, torn>>

Permits(b) == IF Need[b] < Pool THEN Need[b] ELSE Pool

Loading(p) == {k \in DOMAIN job : job[k].state = "load" /\ job[k].pool = p}

(* Permits are told apart, the nth of batch k being <<k, n>>.              *)
PermitsOf(S) == UNION {{k} \X (1 .. Permits(k[2])) : k \in S}
Taken(p) == Cardinality(PermitsOf(Loading(p)))

(* The sizes are known and the permits are free: the blobs are loaded.     *)
AcquireMemory(k) ==
    /\ job[k].state = "size"
    /\ Taken(job[k].pool) + Permits(k[2]) <= Pool
    /\ job' = [job EXCEPT ![k].state = "load"]
    /\ UNCHANGED <<files, data, error, lock, RequestVars, builder, built, pool, prune, History>>

PublishBatch(k) ==
    /\ job[k].state = "load"
    /\ data' = [data EXCEPT ![k] = job[k].build]
    /\ lock' = [lock EXCEPT ![k] = "nobody"]
    /\ job' = [job EXCEPT ![k] = NoJob]
    /\ UNCHANGED <<files, error, RequestVars, builder, built, pool, prune, History>>

FailBatch(k) ==
    /\ job[k].state # "none"
    /\ Fail(k, "fresh") \/ Fail(k, "permanent")
    /\ job' = [job EXCEPT ![k] = NoJob]
    /\ UNCHANGED <<files, data, RequestVars, builder, built, pool, prune, pruned, mixed, torn>>

(* Two seconds pass after a retryable failure.                             *)
Age(k) ==
    /\ error[k] = "fresh"
    /\ error' = [error EXCEPT ![k] = "old"]
    /\ UNCHANGED <<files, data, lock, RequestVars, builder, built, job, pool, prune, History>>

(***************************************************************************)
(* Pruning, and the death of the server                                    *)
(***************************************************************************)
Present(k) ==
    IF k = Plan THEN {m \in {"ready", "plan", "index"} : files[m] # None}
                         \cup (IF error[Plan] # "none" THEN {"error"} ELSE {})
    ELSE (IF data[k] # None THEN {"plan"} ELSE {})
             \cup (IF error[k] # "none" THEN {"error"} ELSE {})

(* groups() lists what exists now, locked or not; the victim's turn comes  *)
(* after those of the groups before it.                                    *)
Scan(k) ==
    /\ prune.state = "none" /\ pruned < Prunings
    /\ Present(k) # {}
    /\ prune' = [group |-> k, state |-> "scanned", listed |-> Present(k)]
    /\ pruned' = pruned + 1
    /\ UNCHANGED <<files, data, error, lock, RequestVars, builder, built, job, pool, faults, mixed, torn>>

(* The group is passed over if it is locked or enough room was made.       *)
LockVictim ==
    /\ prune.state = "scanned"
    /\ \/ prune' = NoPrune /\ UNCHANGED <<lock, torn>>
       \/ /\ lock[prune.group] = "nobody"
          /\ lock' = [lock EXCEPT ![prune.group] = "prune"]
          /\ prune' = [prune EXCEPT !.state = "remove"]
          /\ torn' = (torn \/ (prune.group = Plan /\ files["ready"] # None
                                   /\ "ready" \notin prune.listed))
    /\ UNCHANGED <<files, data, error, RequestVars, builder, built, job, pool, pruned, faults, mixed>>

(* Mutant: the members go in any order.                                    *)
AnyOrder(m) == m \in prune.listed

(* The listed members go one by one, "ready" before the others.            *)
MayGo(m) == m \in prune.listed /\ (m = "ready" \/ "ready" \notin prune.listed)

RemoveMember ==
    /\ prune.state = "remove"
    /\ \E m \in Members :
        /\ MayGo(m)
        /\ prune' = [prune EXCEPT !.listed = @ \ {m}]
        /\ error' = IF m # "error" THEN error
                    ELSE [error EXCEPT ![prune.group] = "none"]
        /\ files' = IF prune.group = Plan /\ m # "error"
                    THEN [files EXCEPT ![m] = None] ELSE files
        /\ data' = IF prune.group # Plan /\ m # "error"
                   THEN [data EXCEPT ![prune.group] = None] ELSE data
    /\ UNCHANGED <<lock, RequestVars, builder, built, job, pool, History>>

UnlockVictim ==
    /\ prune.state = "remove" /\ prune.listed = {}
    /\ lock' = [lock EXCEPT ![prune.group] = "nobody"]
    /\ prune' = NoPrune
    /\ UNCHANGED <<files, data, error, RequestVars, builder, built, job, pool, History>>

(* Everything in memory is gone, the kernel drops the locks, the published *)
(* files stay.                                                             *)
Crash ==
    /\ faults < Faults
    /\ faults' = faults + 1
    /\ req' = [r \in Requests |->
                  IF req[r].at = "done" THEN req[r] ELSE NewRequest]
    /\ lock' = [k \in Keys |-> "nobody"]
    /\ builder' = "none" /\ pool' = None /\ prune' = NoPrune
    /\ job' = [k \in DOMAIN job |-> NoJob]
    /\ UNCHANGED <<files, data, error, served, built, pruned, mixed, torn>>

Request(r) ==
    \/ Ask(r) \/ ReadReady(r) \/ LockPlan(r) \/ StartBuild(r) \/ PlanAppears(r)
    \/ ReadFailure(r) \/ RemoveFailure(r)
    \/ OpenIndex(r) \/ OpenPlan(r)
    \/ FindBatch(r) \/ ServeBatch(r) \/ MissBatch(r) \/ StartLoad(r)

BatchJob(k) == AcquireMemory(k) \/ PublishBatch(k)
Build == PublishPlan \/ PublishIndex \/ PublishReady
Pruning == LockVictim \/ RemoveMember \/ UnlockVictim

Next ==
    \/ \E r \in Requests : Request(r) \/ TimeOut(r)
    \/ \E k \in Builds \X Batches : BatchJob(k) \/ FailBatch(k)
    \/ Build \/ FailPlan \/ Pruning \/ Crash
    \/ \E k \in Keys : Scan(k) \/ Age(k)

Spec == Init /\ [][Next]_vars

(* The runtime runs every task that can go on, and time passes.  Nothing   *)
(* has to fail, to be pruned or to crash.                                  *)
Fairness ==
    /\ \A r \in Requests : WF_vars(Request(r) \/ TimeOut(r))
    /\ WF_vars(\E k \in DOMAIN job : BatchJob(k))
    /\ WF_vars(Build) /\ WF_vars(Pruning)
    /\ WF_vars(\E k \in Keys : Age(k))

FairSpec == Spec /\ Fairness

(***************************************************************************)
(* Properties                                                              *)
(***************************************************************************)
(* What a request is served is what one build says of its sequence number: *)
(* batch b of build g, where b is at that place in g, with g's samples; or *)
(* the end where g has no such place.                                      *)
Right(r) ==
    LET rows == Query[served[r].build]
        exists == rows # <<>> /\ (Repeat \/ Sequence[r] < Len(rows)) IN
    IF served[r].kind = "end" THEN ~exists
    ELSE exists /\ served[r].batch = rows[(Sequence[r] % Len(rows)) + 1]

(* docs/http.md: a rebuilt plan "cannot serve an older plan's payloads".   *)
ServedByOnePlan ==
    \A r \in Requests : served[r].kind \in {"batch", "end"} => Right(r)

(* It is so unless a plan was replaced between a request's reading of the  *)
(* generation and its opening of the plan.                                 *)
ServedByOnePlanUnlessReplaced == mixed \/ ServedByOnePlan

(* The directory of a generation never holds samples of an older build.    *)
NeverOlder == \A k \in DOMAIN data : data[k] # None => data[k] >= k[1]

(* "ready" is a promise that plan and index are there, of the same build:  *)
(* through publishing, pruning and crashes at any point of either.         *)
ReadyIsComplete ==
    \/ torn
    \/ files["ready"] # None =>
           \A m \in {"plan", "index"} : files[m] = files["ready"]

(* The loads that run together never take more than the stream's share,    *)
(* although the semaphore is dropped and made again in between.            *)
LoadingBounded == Taken(1) + Taken(2) <= Pool

(* Whatever is pruned, fails or crashes on the way, every request is       *)
(* answered in the end.  docs/http.md: "partially removed plans are        *)
(* rebuilt automatically".                                                 *)
AsksAnswered == <>(\A r \in Requests : served[r].kind # "none")

(* It is so unless pruning removed a plan and left its "ready".            *)
AsksAnsweredUnlessTorn ==
    <>(torn \/ \A r \in Requests : served[r].kind # "none")

(* job.rs: a failure that is not retryable is not retried: no request      *)
(* removes its file.                                                       *)
PermanentFailuresKept ==
    [][\A k \in Keys : error[k] = "permanent" /\ prune.state # "remove"
                           => error'[k] = "permanent"]_vars
=============================================================================
