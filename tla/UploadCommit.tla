----------------------------- MODULE UploadCommit -----------------------------
(***************************************************************************)
(* The requests that publish something (server/src/upload_http.rs,         *)
(* s3_upload.rs, asset_commit.rs, object_state.rs, metric_http.rs) and the *)
(* client that repeats them until they are answered (transport.rs).        *)
(*                                                                         *)
(* Every attempt is a handler on some replica that takes one remote        *)
(* operation per step on R2 or ClickHouse.  A client that lost the         *)
(* connection sends the request again while the old attempt may still run; *)
(* an attempt that dies or answers 500 has left behind what it did.        *)
(***************************************************************************)
EXTENDS Integers, Sequences, FiniteSets, FiniteSetsExt, SequencesExt

CONSTANTS
    Saves,     \* the assets of a run in the order they are saved, a sequence
    NameOf,    \* the name under which each is saved
    Artifacts, \* metric artifacts
    Scalars,   \* batches of metrics that have scalars,
    Arrays,    \* and that have arrays; a batch may have both
    Replicas,  \* servers
    Slots,     \* upload_slots of a server
    Clock,     \* what a server's clock may show: some positive numbers
    Faults     \* attempts that die or are given up, cancellations, in all (bound)

Assets == Range(Saves)
Uploads == Assets \cup Artifacts
Metrics == Scalars \cup Arrays
Requests == Uploads \cup Metrics
Before(a, b) == \E i, j \in DOMAIN Saves : i < j /\ Saves[i] = a /\ Saves[j] = b
None == "none"

ASSUME UploadCommitAssumption ==
    /\ IsInjective(Saves) /\ IsFiniteSet(Requests) /\ Replicas # {}
    /\ Assets \cap Artifacts = {} /\ Uploads \cap Metrics = {} /\ None \notin Assets
    /\ Slots \in Nat \ {0} /\ Clock \subseteq Nat \ {0} /\ Clock # {} /\ Faults \in Nat

NoRecord == [updated |-> 0, parent |-> None]

VARIABLES
    cancelled,  \* the run is cancelled
    attempts,   \* per request: its attempts, the last is the one waited for
    answer,     \* per request: what the client was told
    receipts,   \* R2: batches of metrics that have been inserted
    intents,    \* R2: per asset, the record that was created first
    objects,    \* R2: final objects that are complete
    table,      \* ClickHouse: per request, the rows it has inserted,
    arrays,     \* and those in array_metrics
    faults

vars == <<cancelled, attempts, answer, receipts, intents, objects, table, arrays, faults>>
R2 == <<receipts, intents, objects>>
ClickHouse == <<table, arrays>>

(* An attempt: the replica that handles it, its next step, and the asset   *)
(* record that it has.                                                     *)
Steps == {"admit", "slot", "existing", "receive", "drain", "complete",
          "get_asset", "intent", "parent", "create", "insert", "receipt", "arrays", "committed",
          "answer", "over"}

TypeOK ==
    /\ cancelled \in BOOLEAN
    /\ attempts \in [Requests ->
           Seq([at : Steps, on : Replicas,
                record : [updated : Nat, parent : Assets \cup {None}]])]
    /\ answer \in [Requests -> {"none", "ok", "refused"}]
    /\ receipts \subseteq Metrics
    /\ intents \in [Assets -> [updated : Nat, parent : Assets \cup {None}]]
    /\ objects \subseteq Uploads
    /\ table \in [Requests -> SUBSET Nat] /\ arrays \in [Metrics -> SUBSET Nat]
    /\ faults \in 0 .. Faults

Init ==
    /\ cancelled = FALSE
    /\ attempts = [u \in Requests |-> <<>>]
    /\ answer = [u \in Requests |-> "none"]
    /\ receipts = {}
    /\ intents = [a \in Assets |-> NoRecord]
    /\ objects = {}
    /\ table = [u \in Requests |-> {}] /\ arrays = [m \in Metrics |-> {}]
    /\ faults = 0

(* What readers see: of the rows with an asset's ID the one updated last   *)
(* (FINAL), of others how often they are there.                            *)
View(u) ==
    IF u \in Assets THEN Max(table[u] \cup {0}) ELSE Cardinality(table[u])

(* What a request has to be seen in: a batch of metrics in one table or in *)
(* two.                                                                    *)
Parts == (Uploads \cup Scalars) \X {"table"} \cup Arrays \X {"arrays"}
Seen(p) == IF p[2] = "arrays" THEN Cardinality(arrays[p[1]]) ELSE View(p[1])

(***************************************************************************)
(* The client: one attempt at a time, assets one after the other.          *)
(***************************************************************************)
Fault == faults < Faults /\ faults' = faults + 1

Send(u) ==
    /\ answer[u] = "none"
    /\ \A a \in Assets : Before(a, u) => answer[a] # "none"
    /\ \/ attempts[u] = <<>> /\ UNCHANGED faults
       \/ attempts[u] # <<>> /\ Last(attempts[u]).at = "over" /\ UNCHANGED faults
       \/ attempts[u] # <<>> /\ Last(attempts[u]).at # "over" /\ Fault
    /\ \E r \in Replicas :
           attempts' = [attempts EXCEPT ![u] =
                            Append(@, [at |-> "admit", on |-> r, record |-> NoRecord])]
    /\ UNCHANGED <<cancelled, answer, R2, ClickHouse>>

At(u, i, step) == attempts[u][i].at = step
Goto(u, i, step) ==
    attempts' = [attempts EXCEPT ![u][i].at = step,
                                 ![u][i].record = IF step = "insert" THEN @ ELSE NoRecord]
GotoWith(u, i, step, record) ==
    attempts' = [attempts EXCEPT ![u][i].at = step, ![u][i].record = record]

(* The answer reaches the client if it still waits for this attempt.       *)
Tell(u, i, what) ==
    answer' = IF i = Len(attempts[u]) /\ answer[u] = "none"
              THEN [answer EXCEPT ![u] = what] ELSE answer

Refuse(u, i) == Goto(u, i, "over") /\ Tell(u, i, "refused")

(***************************************************************************)
(* The handlers                                                            *)
(***************************************************************************)
(* active() and create_state(): the fingerprint is that of every attempt,  *)
(* for a client sends nothing else under an ID.                            *)
Admit(u, i) ==
    /\ At(u, i, "admit")
    /\ \/ cancelled /\ Refuse(u, i)
       \/ /\ ~cancelled /\ UNCHANGED answer
          /\ Goto(u, i, IF u \in Metrics THEN "receipt" ELSE "slot")
    /\ UNCHANGED <<cancelled, R2, ClickHouse, faults>>

(* A mutation of HasSlot: an attempt that is over keeps its slot.          *)
NeverReturned == Steps \ {"admit", "slot"}

HasSlot == Steps \ {"admit", "slot", "over"}
Uploading(r) ==
    {p \in UNION {{u} \X DOMAIN attempts[u] : u \in Uploads} :
        /\ attempts[p[1]][p[2]].on = r
        /\ attempts[p[1]][p[2]].at \in HasSlot}

Slot(u, i) ==
    /\ At(u, i, "slot") /\ Cardinality(Uploading(attempts[u][i].on)) < Slots
    /\ Goto(u, i, "existing")
    /\ UNCHANGED <<cancelled, answer, R2, ClickHouse, faults>>

(* A mutation of Existing: the object is taken for complete.               *)
TakenForComplete(u, i) ==
    /\ At(u, i, "existing") /\ Goto(u, i, "drain")
    /\ UNCHANGED <<cancelled, answer, R2, ClickHouse, faults>>

(* An object that is complete is not written again, its body is only read. *)
Existing(u, i) ==
    /\ At(u, i, "existing")
    /\ Goto(u, i, IF u \in objects THEN "drain" ELSE "receive")
    /\ UNCHANGED <<cancelled, answer, R2, ClickHouse, faults>>

Commit(u, i) == Goto(u, i, IF u \in Assets THEN "get_asset" ELSE "insert")

(* The whole body with the right hash; one that breaks off or stays away   *)
(* for 30 s ends the attempt, one with another hash the request: its       *)
(* source has been changed.                                                *)
Receive(u, i) ==
    /\ attempts[u][i].at \in {"receive", "drain"}
    /\ \/ /\ IF At(u, i, "drain") THEN Commit(u, i) ELSE Goto(u, i, "complete")
          /\ UNCHANGED <<answer, faults>>
       \/ Fault /\ Refuse(u, i)
    /\ UNCHANGED <<cancelled, R2, ClickHouse>>

(* If completing fails, which it may do although it was done, the object   *)
(* decides.                                                                *)
Complete(u, i) ==
    /\ At(u, i, "complete")
    /\ \/ /\ objects' = objects \cup {u}
          /\ Commit(u, i) /\ UNCHANGED faults
       \/ /\ Fault /\ UNCHANGED objects
          /\ IF u \in objects THEN Commit(u, i) ELSE Goto(u, i, "over")
    /\ UNCHANGED <<cancelled, answer, receipts, intents, ClickHouse>>

(* asset_commit::save, before it has looked for a record of this asset.    *)
GetAsset(a, i) ==
    /\ At(a, i, "get_asset")
    /\ \/ cancelled /\ Refuse(a, i)
       \/ /\ ~cancelled /\ UNCHANGED answer
          /\ Goto(a, i, IF table[a] # {} THEN "answer" ELSE "intent")
    /\ UNCHANGED <<cancelled, R2, ClickHouse, faults>>

Intent(a, i) ==
    /\ At(a, i, "intent")
    /\ IF intents[a] # NoRecord THEN GotoWith(a, i, "insert", intents[a])
       ELSE Goto(a, i, "parent")
    /\ UNCHANGED <<cancelled, answer, R2, ClickHouse, faults>>

(* The asset of this name that was updated last, as the database has it.   *)
Named(a) == {b \in Assets : table[b] # {} /\ NameOf[b] = NameOf[a]}
Latest(set) == CHOOSE b \in set : \A c \in set : View(c) <= View(b)

(* A mutation of NewRecord: the record has the time of the server's clock. *)
ClockOnly(a, now) ==
    [updated |-> now, parent |-> IF Named(a) = {} THEN None ELSE Latest(Named(a))]

NewRecord(a, now) ==
    IF Named(a) = {} THEN [updated |-> now, parent |-> None]
    ELSE [updated |-> Max({now, View(Latest(Named(a))) + 1}), parent |-> Latest(Named(a))]

Parent(a, i) ==
    /\ At(a, i, "parent")
    /\ \E now \in Clock : GotoWith(a, i, "create", NewRecord(a, now))
    /\ UNCHANGED <<cancelled, answer, R2, ClickHouse, faults>>

(* A mutation of FirstWritten: the record is written over an earlier one.  *)
LastWritten(a, record) == record

FirstWritten(a, record) == IF intents[a] = NoRecord THEN record ELSE intents[a]

Create(a, i) ==
    /\ At(a, i, "create")
    /\ LET record == FirstWritten(a, attempts[a][i].record) IN
       /\ intents' = [intents EXCEPT ![a] = record]
       /\ GotoWith(a, i, "insert", record)
    /\ UNCHANGED <<cancelled, answer, receipts, objects, ClickHouse, faults>>

(* An insert with the token of an earlier one does nothing; the assets     *)
(* table keeps no tokens, there the rows differ in when they were updated. *)
Inserted(u, i) ==
    IF u \in Assets THEN table[u] \cup {attempts[u][i].record.updated}
    ELSE IF table[u] = {} THEN {i} ELSE table[u]

(* upload_http::save, asset_commit::save: the row of an upload.            *)
InsertRow(u, i) ==
    /\ u \in Uploads /\ At(u, i, "insert")
    /\ table' = [table EXCEPT ![u] = Inserted(u, i)]
    /\ Goto(u, i, "answer")
    /\ UNCHANGED <<cancelled, answer, R2, arrays, faults>>

(* metric_http::save: a receipt makes further attempts short.              *)
Receipt(m, i) ==
    /\ At(m, i, "receipt")
    /\ Goto(m, i, IF m \in receipts THEN "answer"
                  ELSE IF m \in Scalars THEN "insert" ELSE "arrays")
    /\ UNCHANGED <<cancelled, answer, R2, ClickHouse, faults>>

InsertScalars(m, i) ==
    /\ m \in Metrics /\ At(m, i, "insert")
    /\ table' = [table EXCEPT ![m] = Inserted(m, i)]
    /\ Goto(m, i, IF m \in Arrays THEN "arrays" ELSE "committed")
    /\ UNCHANGED <<cancelled, answer, R2, arrays, faults>>

(* The arrays of a batch are inserted after its scalars, in a table of     *)
(* their own, under the same token.                                        *)
InsertArrays(m, i) ==
    /\ At(m, i, "arrays")
    /\ arrays' = [arrays EXCEPT ![m] = IF @ = {} THEN {i} ELSE @]
    /\ Goto(m, i, "committed")
    /\ UNCHANGED <<cancelled, answer, R2, table, faults>>

Committed(m, i) ==
    /\ At(m, i, "committed")
    /\ receipts' = receipts \cup {m}
    /\ Goto(m, i, "answer")
    /\ UNCHANGED <<cancelled, answer, intents, objects, ClickHouse, faults>>

Answer(u, i) ==
    /\ At(u, i, "answer")
    /\ Goto(u, i, "over") /\ Tell(u, i, "ok")
    /\ UNCHANGED <<cancelled, R2, ClickHouse, faults>>

(* The handler is dropped, its server dies, or an operation fails: done or *)
(* not, the client sees an error that it retries, or nothing.              *)
Die(u, i) ==
    /\ Fault /\ ~At(u, i, "over")
    /\ Goto(u, i, "over")
    /\ UNCHANGED <<cancelled, answer, R2, ClickHouse>>

Cancel ==
    /\ Fault /\ ~cancelled /\ cancelled' = TRUE
    /\ UNCHANGED <<attempts, answer, R2, ClickHouse>>

Handle(u, i) ==
    \/ Admit(u, i) \/ Slot(u, i) \/ Existing(u, i) \/ Receive(u, i)
    \/ Complete(u, i) \/ GetAsset(u, i) \/ Intent(u, i) \/ Parent(u, i) \/ Create(u, i)
    \/ InsertRow(u, i) \/ Receipt(u, i) \/ InsertScalars(u, i) \/ InsertArrays(u, i)
    \/ Committed(u, i) \/ Answer(u, i)

Next ==
    \/ \E u \in Requests :
          Send(u) \/ \E i \in DOMAIN attempts[u] : Handle(u, i) \/ Die(u, i)
    \/ Cancel

Spec == Init /\ [][Next]_vars

(* The client sends again for as long as it has no answer; every operation *)
(* of a handler ends, by its timeout at the latest.                        *)
FairSpec ==
    /\ Spec
    /\ \A u \in Requests :
          /\ WF_vars(Send(u) /\ UNCHANGED faults)
          /\ WF_vars(\E i \in DOMAIN attempts[u] : Handle(u, i) /\ UNCHANGED faults)

(***************************************************************************)
(* Properties                                                              *)
(***************************************************************************)
(* What a request has to say comes to each of its tables once and stays as *)
(* it is, and success is answered only when it is in all of them; with     *)
(* retries on any replica, attempts that go on after the client has given  *)
(* them up, and crashes between two operations, so also between the two    *)
(* inserts of a batch of metrics.  Until it is answered a batch may be     *)
(* seen in one of its tables only.                                         *)
P == INSTANCE Publication WITH view <- [p \in Parts |-> Seen(p)]
ImplementsPublication == P!Spec

(* README.md: "TensorLane selects the latest committed checkpoint", by the *)
(* update time in the records: what was committed later under a name has a *)
(* later one and descends from it, whatever the replicas' clocks show.     *)
Succeeds(a, b) == View(b) > View(a)

LaterSucceeds ==
    \A a, b \in Assets :
        Before(a, b) /\ NameOf[a] = NameOf[b] /\ answer[a] = "ok" /\ table[b] # {} =>
            Succeeds(a, b) /\ intents[b].parent # None

(* The same of all checkpoints of a run.                                   *)
LatestIsLast ==
    \A a, b \in Assets :
        Before(a, b) /\ answer[a] = "ok" /\ table[b] # {} => Succeeds(a, b)

(* A row in the database has its object in R2.                             *)
RowsHaveObjects == \A u \in Uploads : table[u] # {} => u \in objects

(* The client gets an answer to everything: no slot is lost to attempts    *)
(* that nobody waits for.                                                  *)
EventuallyAnswered == <>(\A u \in Requests : answer[u] # "none")
=============================================================================
