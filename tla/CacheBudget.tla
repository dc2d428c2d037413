---------------------------- MODULE CacheBudget ----------------------------
(***************************************************************************)
(* The byte budget of the server's disk cache (server/src/cache_limits.rs) *)
(* and the file locks of its entries (server/src/shared_cache.rs), as the  *)
(* background jobs of the batch service use them (batch_http.rs,           *)
(* sampling.rs).                                                           *)
(*                                                                         *)
(* An entry ("group" in the code) is a batch, a query plan, an asset range *)
(* or the description of an input: its files and a lock file beside them.  *)
(* A writer is one job: it locks the entry, reserves the bytes, writes a   *)
(* .part file, renames it, gives the reservation back and drops the lock.  *)
(* Writers that find no room prune the cache, and so does the maintenance  *)
(* task once a minute.                                                     *)
(*                                                                         *)
(* Some small files are written without a reservation ("loose" here): the  *)
(* .error of a job that failed, the .ready of a plan and the .json of an   *)
(* input.  A scan counts them, and they are evicted with their entry.      *)
(*                                                                         *)
(* A lock is an flock on the inode that the open found; pruning removes    *)
(* lock files, so that inode and path may part.                            *)
(***************************************************************************)
EXTENDS Integers, FiniteSets, Sequences, FiniteSetsExt, SequencesExt

CONSTANTS
    Entries,      \* cache entries
    Writers,      \* background jobs that run at the same time
    Maintenance,  \* the task maintain of main.rs (a set, to leave it out)
    Chunk,        \* per entry: bytes of one of its reservations
    Chunks,       \* per entry: how many reservations it needs (1 for a batch)
    Plans,        \* entries that are query plans
    Ranges,       \* entries that are asset ranges
    Inputs,       \* entries that describe an input; the others are batches
    Small,        \* per loose file: its bytes
    Failed,       \* entries of which an earlier run left only a failure
    Limit,        \* CACHE_BYTES
    Jobs          \* how many jobs are begun in all (bound)

Pruners == Writers \cup Maintenance
None == 0   \* no inode, no entry

(* The files that are written without a reservation.                       *)
Error(e) == <<e, "error">>
Ready(e) == <<e, "ready">>
Json(e) == <<e, "json">>

Reporting == Entries \ (Ranges \cup Inputs)
Loose == {Error(e) : e \in Reporting} \cup {Ready(e) : e \in Plans} \cup {Json(e) : e \in Inputs}

(* Entries whose file is looked for again under the lock.                  *)
Rechecked == Plans \cup Ranges \cup Inputs

ASSUME CacheAssumption ==
    /\ IsFiniteSet(Entries) /\ IsFiniteSet(Writers)
    /\ Maintenance \cap Writers = {} /\ None \notin Entries \cup Pruners
    /\ Chunk \in [Entries -> Nat \ {0}]
    /\ Chunks \in [Entries -> Nat \ {0}]
    /\ Plans \subseteq Entries /\ Ranges \subseteq Entries /\ Inputs \subseteq Entries
    /\ Plans \cap Ranges = {} /\ (Plans \cup Ranges) \cap Inputs = {}
    /\ Small \in [Loose -> Nat]
    /\ Failed \subseteq Reporting
    /\ Limit \in Nat
    /\ Jobs \in Nat

VARIABLES
    file,      \* per entry: bytes of what was published under a reservation
    loose,     \* the files there are that no reservation was made for
    age,       \* entries that have a file or a lock file, the oldest first
    lockFile,  \* per entry: the inode at its lock path, or None
    owner,     \* per inode: who holds the flock on it, or None
    used,      \* Budget::usage.0
    reserved,  \* Budget::usage.1
    job,       \* per writer: entry, state, inode of its lock, reservations
    jobs,      \* jobs begun so far
    prune,     \* the prune in progress; prune.lock admits one
    missed,    \* history: bytes given back after the scan of the last prune
    unseen     \* history: loose files written after the scan of the last prune

vars == <<file, loose, age, lockFile, owner, used, reserved, job, jobs, prune, missed, unseen>>

(* Enough for every lock path and everybody who has one open.              *)
Inodes == 1 .. Cardinality(Entries) + Cardinality(Writers) + 1

JobState ==
    {"idle",
     "missing",    \* found no file: opens the lock
     "opened",     \* has the lock file open, not locked yet
     "reserve",    \* locked: reserves
     "full",       \* no room: prunes
     "write",      \* everything reserved: writes its part
     "written",    \* published: gives the reservation back
     "failed",     \* failed: gives the reservation back
     "report",     \* failed and gave the reservation back: writes the .error
     "input",      \* locked an input: writes its .json
     "unlock"}

NoPrune == [by |-> None, step |-> "none", todo |-> <<>>, left |-> 0, kept |-> {},
            target |-> 0, inode |-> None, since |-> 0, fresh |-> {}]

Size(e) == Chunk[e] * Chunks[e]

(* Bytes are told apart: the nth of a file x of f[x] bytes is <<x, n>>.    *)
Bytes(f) == UNION {{x} \X (1 .. f[x]) : x \in DOMAIN f}

(* The bytes of a set of loose files.                                      *)
Weight(S) == Cardinality(Bytes([x \in S |-> Small[x]]))

TypeOK ==
    /\ file \in [Entries -> Nat]
    /\ loose \subseteq Loose
    /\ age \in Seq(Entries)
    /\ lockFile \in [Entries -> Inodes \cup {None}]
    /\ owner \in [Inodes -> Pruners \cup {None}]
    /\ used \in Nat
    /\ reserved \in Nat
    /\ job \in [Writers -> [entry : Entries \cup {None}, state : JobState,
                            inode : Inodes \cup {None}, got : Nat]]
    /\ jobs \in 0 .. Jobs
    /\ prune \in [by : Pruners \cup {None},
                  step : {"none", "scan", "target", "next", "opened", "remove", "drop"},
                  todo : Seq([entry : Entries, size : Nat, loose : SUBSET Loose]),
                  left : Nat, kept : SUBSET Loose, target : Nat,
                  inode : Inodes \cup {None}, since : Nat, fresh : SUBSET Loose]
    /\ missed \in Nat
    /\ unseen \subseteq Loose

(* What Budget::open leaves of the cache of an earlier run of the server:  *)
(* no parts, and entries of any age, with their lock files, that fit; of   *)
(* those in Failed only a failure is left.                                 *)
Init ==
    /\ age \in SetToAllKPermutations(Entries)
    /\ file = [e \in Entries |->
                  IF e \in ToSet(age) \ (Inputs \cup Failed) THEN Size(e) ELSE 0]
    /\ loose = {x \in Loose : x[1] \in ToSet(age) /\ (x[1] \in Failed <=> x[2] = "error")}
    /\ lockFile = [e \in Entries |-> IF e \in ToSet(age) THEN CHOOSE i \in DOMAIN age : age[i] = e ELSE None]
    /\ used = Cardinality(Bytes(file)) + Weight(loose)
    /\ used <= Limit
    /\ owner = [i \in Inodes |-> None]
    /\ reserved = 0
    /\ job = [w \in Writers |-> [entry |-> None, state |-> "idle", inode |-> None, got |-> 0]]
    /\ jobs = 0
    /\ prune = NoPrune
    /\ missed = 0
    /\ unseen = {}

-----------------------------------------------------------------------------
(* Files and locks.                                                        *)

Without(e) == RemoveFirst(age, e)

(* The modification time of an entry is that of its newest file.           *)
Touched(e) == Append(Without(e), e)

InUse == {lockFile[e] : e \in Entries} \cup {job[w].inode : w \in Writers} \cup {prune.inode}

(* Opening the lock file creates it if there is none.                      *)
LockInode(e) == IF lockFile[e] # None THEN lockFile[e] ELSE Min(Inodes \ InUse)

OpenLock(e) ==
    /\ lockFile' = [lockFile EXCEPT ![e] = LockInode(e)]
    /\ age' = IF lockFile[e] # None THEN age ELSE Touched(e)

(* Loose files are written (renamed over what was there before).           *)
Add(S) ==
    /\ loose' = loose \cup S
    /\ unseen' = unseen \cup S
    /\ prune' = IF prune.step \in {"none", "scan"} THEN prune
                ELSE [prune EXCEPT !.fresh = @ \cup S]

-----------------------------------------------------------------------------
(* Background jobs.                                                        *)

SetState(w, state) == job' = [job EXCEPT ![w].state = state]

Exists(e) == IF e \in Inputs THEN Json(e) \in loose ELSE file[e] # 0

(* A request finds that the entry is not there, and for a batch (job::check*)
(* before the lock) no failure either.                                     *)
Request(w, e) ==
    /\ job[w].state = "idle"
    /\ jobs < Jobs
    /\ ~Exists(e)
    /\ e \notin Plans => Error(e) \notin loose
    /\ jobs' = jobs + 1
    /\ job' = [job EXCEPT ![w].state = "missing", ![w].entry = e]
    /\ UNCHANGED <<file, loose, age, lockFile, owner, used, reserved, prune, missed, unseen>>

(* job::check: a failure that may be retried and is old enough is removed  *)
(* by a request, which come as long as jobs do.                            *)
ForgetError(e) ==
    /\ Error(e) \in loose
    /\ jobs < Jobs
    /\ loose' = loose \ {Error(e)}
    /\ age' = IF file[e] # 0 \/ lockFile[e] # None \/ Ready(e) \in loose THEN age ELSE Without(e)
    /\ UNCHANGED <<file, lockFile, owner, used, reserved, job, jobs, prune, missed, unseen>>

(* try_lock: open ...                                                      *)
OpenEntry(w) ==
    /\ job[w].state = "missing"
    /\ OpenLock(job[w].entry)
    /\ job' = [job EXCEPT ![w].state = "opened", ![w].inode = LockInode(job[w].entry)]
    /\ UNCHANGED <<file, loose, owner, used, reserved, jobs, prune, missed, unseen>>

(* ... then flock.  The request is answered 202, or tries again, if        *)
(* somebody holds the lock; it is done if a second look finds the entry,   *)
(* or for a plan its failure.                                              *)
LockEntry(w) ==
    LET e == job[w].entry IN
    /\ job[w].state = "opened"
    /\ IF \/ owner[job[w].inode] # None
          \/ e \in Rechecked /\ Exists(e)
          \/ e \in Plans /\ Error(e) \in loose
         THEN /\ job' = [job EXCEPT ![w].state = "idle", ![w].entry = None, ![w].inode = None]
              /\ UNCHANGED owner
         ELSE /\ SetState(w, IF e \in Inputs THEN "input" ELSE "reserve")
              /\ owner' = [owner EXCEPT ![job[w].inode] = w]
    /\ UNCHANGED <<file, loose, age, lockFile, used, reserved, jobs, prune, missed, unseen>>

Fits(bytes) == used + reserved + bytes <= Limit

(* Budget::reserve.  A plan reserves piece by piece as its rows arrive.    *)
Reserve(w) ==
    LET bytes == Chunk[job[w].entry]
        got == job[w].got + 1 IN
    /\ job[w].state = "reserve"
    /\ IF Fits(bytes)
         THEN /\ reserved' = reserved + bytes
              /\ job' = [job EXCEPT
                   ![w].got = got,
                   ![w].state = IF got = Chunks[job[w].entry] THEN "write" ELSE @]
         ELSE /\ SetState(w, IF bytes <= Limit THEN "full" ELSE "failed")
              /\ UNCHANGED reserved
    /\ UNCHANGED <<file, loose, age, lockFile, owner, used, jobs, prune, missed, unseen>>

(* The part is complete and renamed; a plan is announced by a .ready that  *)
(* it has not reserved.                                                    *)
Publish(w) ==
    LET e == job[w].entry IN
    /\ job[w].state = "write"
    /\ file' = [file EXCEPT ![e] = Size(e)]
    /\ Add({Ready(p) : p \in Plans \cap {e}})
    /\ age' = Touched(e)
    /\ SetState(w, "written")
    /\ UNCHANGED <<lockFile, owner, used, reserved, jobs, missed>>

(* The query, the load or the write fails; the part is removed (of a plan, *)
(* just after its reservations).                                           *)
FailJob(w) ==
    /\ job[w].state \in {"reserve", "write"}
    /\ SetState(w, "failed")
    /\ UNCHANGED <<file, loose, age, lockFile, owner, used, reserved, jobs, prune, missed, unseen>>

Held(w) == IF job[w].got = 0 THEN 0 ELSE job[w].got * Chunk[job[w].entry]

(* Mutant: a reservation that ends is not counted as used.                 *)
UsedBefore(w) == used
UsedAfter(w) == used + Held(w)

(* Reservation::drop.                                                      *)
Release(w) ==
    /\ job[w].state \in {"written", "failed"}
    /\ used' = UsedAfter(w)
    /\ reserved' = reserved - Held(w)
    /\ job' = [job EXCEPT ![w].state = IF @ = "failed" THEN "report" ELSE "unlock",
                          ![w].got = 0]
    /\ prune' = IF prune.step \in {"none", "scan"} THEN prune
                ELSE [prune EXCEPT !.since = @ + Held(w)]
    /\ UNCHANGED <<file, loose, age, lockFile, owner, jobs, missed, unseen>>

(* A small file is written under the lock without a reservation, or that   *)
(* fails and is ignored.                                                   *)
WriteLoose(w, S) ==
    /\ \/ /\ Add(S)
          /\ age' = IF S = {} THEN age ELSE Touched(job[w].entry)
       \/ UNCHANGED <<loose, unseen, prune, age>>
    /\ SetState(w, "unlock")
    /\ UNCHANGED <<file, lockFile, owner, used, reserved, jobs, missed>>

(* job::failed; a range that fails leaves nothing.                         *)
WriteError(w) ==
    /\ job[w].state = "report"
    /\ WriteLoose(w, {Error(e) : e \in Reporting \cap {job[w].entry}})

(* Runtime::asset: what the store says of the input is kept.               *)
WriteInput(w) ==
    /\ job[w].state = "input"
    /\ WriteLoose(w, {Json(e) : e \in Inputs \cap {job[w].entry}})

(* The lock is dropped last; the file stays.                               *)
Unlock(w) ==
    /\ job[w].state = "unlock"
    /\ owner' = [owner EXCEPT ![job[w].inode] = None]
    /\ job' = [job EXCEPT ![w].state = "idle", ![w].entry = None, ![w].inode = None]
    /\ UNCHANGED <<file, loose, age, lockFile, used, reserved, jobs, prune, missed, unseen>>

-----------------------------------------------------------------------------
(* Budget::prune.                                                          *)

Incoming == IF prune.by \in Writers THEN Chunk[job[prune.by].entry] ELSE 0

(* prune.lock is never removed: one prune at a time.                       *)
StartPrune(p) ==
    /\ prune.by = None
    /\ p \in Writers => job[p].state = "full"
    /\ prune' = [NoPrune EXCEPT !.by = p, !.step = "scan"]
    /\ UNCHANGED <<file, loose, age, lockFile, owner, used, reserved, job, jobs, missed, unseen>>

(* The scan sees what is published, in the order of its age; parts do not  *)
(* count.  The code has one sum: what was reserved once (left) and what    *)
(* was not (kept) are kept apart here.                                     *)
Scan ==
    /\ prune.step = "scan"
    /\ prune' = [prune EXCEPT
         !.step = "target",
         !.todo = [i \in DOMAIN age |->
                     [entry |-> age[i], size |-> file[age[i]],
                      loose |-> {x \in loose : x[1] = age[i]}]],
         !.left = Cardinality(Bytes(file)),
         !.kept = loose]
    /\ UNCHANGED <<file, loose, age, lockFile, owner, used, reserved, job, jobs, missed, unseen>>

(* Mutant: no room is made for what the caller is about to reserve.        *)
TargetWithoutIncoming == IF reserved < Limit THEN Limit - reserved ELSE 0
Target == IF reserved + Incoming < Limit THEN Limit - (reserved + Incoming) ELSE 0

ReadTarget ==
    /\ prune.step = "target"
    /\ prune' = [prune EXCEPT !.step = "next", !.target = Target]
    /\ UNCHANGED <<file, loose, age, lockFile, owner, used, reserved, job, jobs, missed, unseen>>

SeenLeft == prune.left + Weight(prune.kept)
Enough == prune.todo = <<>> \/ SeenLeft <= prune.target

Victim == Head(prune.todo).entry

OpenVictim ==
    /\ prune.step = "next"
    /\ ~Enough
    /\ OpenLock(Victim)
    /\ prune' = [prune EXCEPT !.step = "opened", !.inode = LockInode(Victim)]
    /\ UNCHANGED <<file, loose, owner, used, reserved, job, jobs, missed, unseen>>

(* Mutant: entries are evicted whether or not somebody holds their lock.   *)
EvenLocked(i) == TRUE
Free(i) == owner[i] = None

(* An entry whose lock is held is passed over.                             *)
LockVictim ==
    /\ prune.step = "opened"
    /\ IF Free(prune.inode)
         THEN /\ owner' = [owner EXCEPT ![prune.inode] = prune.by]
              /\ prune' = [prune EXCEPT !.step = "remove"]
         ELSE /\ prune' = [prune EXCEPT !.step = "next", !.inode = None, !.todo = Tail(@)]
              /\ UNCHANGED owner
    /\ UNCHANGED <<file, loose, age, lockFile, used, reserved, job, jobs, missed, unseen>>

(* The files the scan has seen are removed, the lock file last.            *)
RemoveVictim ==
    /\ prune.step = "remove"
    /\ file' = IF Head(prune.todo).size > 0 THEN [file EXCEPT ![Victim] = 0] ELSE file
    /\ loose' = loose \ Head(prune.todo).loose
    /\ lockFile' = [lockFile EXCEPT ![Victim] = None]
    /\ age' = IF file'[Victim] = 0 /\ \A x \in loose' : x[1] # Victim THEN Without(Victim) ELSE age
    /\ prune' = [prune EXCEPT !.step = "drop"]
    /\ UNCHANGED <<owner, used, reserved, job, jobs, missed, unseen>>

DropVictim ==
    /\ prune.step = "drop"
    /\ owner' = [owner EXCEPT ![prune.inode] = None]
    /\ prune' = [prune EXCEPT !.step = "next", !.inode = None, !.todo = Tail(@),
                              !.left = @ - Head(prune.todo).size,
                              !.kept = @ \ Head(prune.todo).loose]
    /\ UNCHANGED <<file, loose, age, lockFile, used, reserved, job, jobs, missed, unseen>>

(* The count becomes what the scan saw less what was evicted since.        *)
EndPrune ==
    /\ prune.step = "next"
    /\ Enough
    /\ used' = SeenLeft
    /\ missed' = prune.since
    /\ unseen' = prune.fresh
    /\ prune' = NoPrune
    /\ IF prune.by \in Writers THEN SetState(prune.by, "reserve") ELSE UNCHANGED job
    /\ UNCHANGED <<file, loose, age, lockFile, owner, reserved, jobs>>

-----------------------------------------------------------------------------

Job(w) ==
    \/ OpenEntry(w)
    \/ LockEntry(w)
    \/ Reserve(w)
    \/ Publish(w)
    \/ Release(w)
    \/ WriteError(w)
    \/ WriteInput(w)
    \/ Unlock(w)

Pruning ==
    \/ Scan
    \/ ReadTarget
    \/ OpenVictim
    \/ LockVictim
    \/ RemoveVictim
    \/ DropVictim
    \/ EndPrune

Next ==
    \/ \E w \in Writers : Job(w) \/ FailJob(w) \/ \E e \in Entries : Request(w, e)
    \/ \E e \in Entries : ForgetError(e)
    \/ \E p \in Pruners : StartPrune(p)
    \/ Pruning

Spec == Init /\ [][Next]_vars

(* Jobs are tasks that run; a writer polls prune.lock every 50 ms while    *)
(* maintenance sleeps a minute between two prunes, hence strong fairness.  *)
Fairness ==
    /\ \A w \in Writers : SF_vars(Job(w) \/ StartPrune(w))
    /\ WF_vars(Pruning)

FairSpec == Spec /\ Fairness

-----------------------------------------------------------------------------

Locked(w) == job[w].state \in JobState \ {"idle", "missing", "opened"}

(* A part is as large as what is reserved for it.                          *)
Part == [w \in Writers |-> IF job[w].state \in {"written", "failed"} THEN 0 ELSE Held(w)]
Reservable == Cardinality(Bytes(file)) + Cardinality(Bytes(Part))
Disk == Reservable + Weight(loose)

(* "CACHE_BYTES [...] is a hard limit on the cache: every write reserves   *)
(* its bytes first" (README.md).                                           *)
HardLimit == Disk <= Limit

(* What the count leaves out: every byte on disk is used or reserved,      *)
(* unless its reservation ended between the scan and the end of the last   *)
(* prune, which overwrites the count, or it is in a file that was written  *)
(* since that scan without any reservation.                                *)
CountCovers == Reservable + Weight(loose \ unseen) <= used + reserved + missed

(* Both are bounded: whatever writers and prunes do, the cache never holds *)
(* more than two limits and the files that are written without a           *)
(* reservation.                                                            *)
ExcessBounded == Disk <= 2 * Limit + Weight(loose)

(* "... the least recently used entries that are not in use are evicted":  *)
(* no entry is evicted whose lock, the one at its path, a job holds.       *)
EvictsUnused ==
    [][\A e \in Entries : file[e] # 0 /\ file'[e] = 0 =>
          \A w \in Writers : Locked(w) => lockFile[e] # job[w].inode]_vars

(* The lock of an entry excludes others ("lock_is_shared_between_          *)
(* independent_callers_and_released_on_drop", shared_cache.rs).            *)
LockExcludes ==
    \A v, w \in Writers : v # w /\ Locked(v) /\ Locked(w) => job[v].entry # job[w].entry

(* Every job that holds a lock ends: "writes wait while everything left is *)
(* in use", not forever, and "missing or evicted query plans are rebuilt   *)
(* on batch requests" (README.md).                                         *)
JobsEnd == \A w \in Writers : Locked(w) ~> job[w].state = "idle"
=============================================================================
