------------------------- MODULE UploadCommitProofs -------------------------
(***************************************************************************)
(* What holds of the requests that publish something for any number of     *)
(* them, of replicas, attempts, crashes and clocks.                        *)
(***************************************************************************)
EXTENDS UploadCommit, FiniteSetTheorems, WellFoundedInduction, TLAPS

RecordType == [updated : Nat, parent : Assets \cup {None}]
AttemptType == [at : Steps, on : Replicas, record : RecordType]

(***************************************************************************)
(* The inductive invariant                                                 *)
(***************************************************************************)
StepsOf(u) ==
    IF u \in Metrics THEN {"admit", "receipt", "insert", "arrays", "committed",
                            "answer", "over"}
    ELSE IF u \in Assets THEN Steps \ {"receipt", "arrays", "committed"}
    ELSE {"admit", "slot", "existing", "receive", "drain", "complete", "insert",
          "answer", "over"}

(* The steps that an upload reaches only with a complete object.           *)
HasObject == {"drain", "get_asset", "intent", "parent", "create", "insert", "answer"}

(* A request has its rows in each table that it belongs in.                *)
Published(u) ==
    /\ u \in Uploads \cup Scalars => table[u] # {}
    /\ u \in Arrays => arrays[u] # {}

(* What an attempt relies on from the steps before its own, whichever      *)
(* attempt took them: the object, the row, and, to insert an asset, the    *)
(* record that was created first.                                          *)
Right(u, at, record) ==
    /\ at \in StepsOf(u)
    /\ u \in Uploads /\ at \in HasObject => u \in objects
    /\ at = "arrays" => u \in Arrays /\ (u \in Scalars => table[u] # {})
    /\ at \in {"committed", "answer"} => Published(u)
    /\ u \in Assets /\ at = "create" => record.updated > 0
    /\ u \in Assets /\ at = "insert" => intents[u] # NoRecord /\ record = intents[u]

AttemptsRight ==
    \A u \in Requests : \A i \in DOMAIN attempts[u] :
        Right(u, attempts[u][i].at, attempts[u][i].record)

(* An asset has one row at most, with the time of its record; anything     *)
(* else one row at most in each table, whoever inserted it.                *)
RowsRight ==
    /\ \A a \in Assets : /\ intents[a] # NoRecord => intents[a].updated > 0
                         /\ table[a] # {} => /\ intents[a] # NoRecord
                                             /\ table[a] = {intents[a].updated}
    /\ \A u \in Requests \ Assets : table[u] = {} \/ \E i \in DOMAIN attempts[u] : table[u] = {i}
    /\ \A m \in Metrics : arrays[m] = {} \/ \E i \in DOMAIN attempts[m] : arrays[m] = {i}
    /\ \A m \in receipts : Published(m)
    /\ \A u \in Requests : answer[u] = "ok" => Published(u)

IInv == TypeOK /\ AttemptsRight /\ RowsRight /\ RowsHaveObjects

(* Assets are saved in order, and whoever commits after another of its     *)
(* name was answered has seen that row.                                    *)
Follows(record, a) == record.updated > View(a) /\ record.parent # None

Descent ==
    \A b \in Assets :
        /\ intents[b] # NoRecord => attempts[b] # <<>>
        /\ \A a \in Assets : Before(a, b) =>
              /\ attempts[b] # <<>> => answer[a] # "none"
              /\ NameOf[a] = NameOf[b] /\ answer[a] = "ok" =>
                    /\ intents[b] # NoRecord => Follows(intents[b], a)
                    /\ \A i \in DOMAIN attempts[b] :
                          attempts[b][i].at = "create" => Follows(attempts[b][i].record, a)

(***************************************************************************)
(* Lemmas about the data                                                   *)
(***************************************************************************)
(* A finite set of assets has one that was updated last.                   *)
LEMMA LatestIsLatest ==
    ASSUME \A a \in Assets : View(a) \in Nat,
           NEW T \in SUBSET Assets, T # {}
    PROVE  Latest(T) \in T /\ \A c \in T : View(c) <= View(Latest(T))
<1> DEFINE HasLatest(S) == \E b \in S : \A c \in S : View(c) <= View(b)
           Bad == {n \in Nat : \E S \in SUBSET Assets :
                                  S # {} /\ Cardinality(S) = n /\ ~HasLatest(S)}
<1>1. \A S \in SUBSET Assets : IsFiniteSet(S)
  BY UploadCommitAssumption, FS_Subset DEF Requests, Uploads
<1>2. ASSUME Bad # {}
      PROVE  FALSE
  <2>1. PICK n \in Bad : \A k \in Bad : ~ (<<k, n>> \in OpToRel(<, Nat))
    BY <1>2, WFMin, NatLessThanWellFounded
  <2>2. \A k \in Bad : ~ (k < n)
    BY <2>1 DEF OpToRel
  <2>3. PICK S \in SUBSET Assets : S # {} /\ Cardinality(S) = n /\ ~HasLatest(S)
    OBVIOUS
  <2> n \in Nat
    OBVIOUS
  <2> HIDE DEF Bad
  <2>4. PICK x \in S : TRUE
    BY <2>3
  <2>5. Cardinality(S \ {x}) = n - 1 /\ n \in Nat /\ Cardinality(S \ {x}) \in Nat
    BY <1>1, <2>3, FS_RemoveElement, FS_CardinalityType
  <2>6. CASE S \ {x} = {}
    <3>1. \A c \in S : View(c) <= View(x)
      BY <2>6
    <3>2. QED
      BY <2>3, <3>1
  <2>7. CASE S \ {x} # {}
    <3>1. HasLatest(S \ {x})
      <4>1. n - 1 \notin Bad
        BY <2>2, <2>5
      <4> HIDE DEF HasLatest
      <4>2. QED
        BY <2>5, <2>7, <4>1 DEF Bad
    <3>2. PICK b \in S \ {x} : \A c \in S \ {x} : View(c) <= View(b)
      BY <3>1
    <3>3. View(b) \in Nat /\ View(x) \in Nat /\ \A c \in S : View(c) \in Nat
      OBVIOUS
    <3>4. \A c \in S : View(c) <= IF View(x) <= View(b) THEN View(b) ELSE View(x)
      BY <3>2, <3>3
    <3>5. QED
      BY <2>3, <3>4
  <2>8. QED
    BY <2>6, <2>7
<1>3. Cardinality(T) \in Nat
  BY <1>1, FS_CardinalityType
<1>4. HasLatest(T)
  BY <1>2, <1>3
<1> QED
  BY <1>4 DEF Latest

(* The larger of a set of two numbers.                                     *)
LEMMA MaxOfTwo ==
    ASSUME NEW m \in Nat, NEW n \in Nat
    PROVE  Max({m, n}) = IF m <= n THEN n ELSE m
<1> DEFINE k == IF m <= n THEN n ELSE m
<1>1. k \in {m, n} /\ \A y \in {m, n} : k >= y
  OBVIOUS
<1>2. \A x \in {m, n} : (\A y \in {m, n} : x >= y) => x = k
  OBVIOUS
<1> QED
  BY <1>1, <1>2 DEF Max

(* What readers see is nothing, the time of the record, or one row.        *)
LEMMA ViewIs ==
    ASSUME TypeOK, RowsRight, NEW u \in Requests
    PROVE  View(u) = IF table[u] = {} THEN 0
                     ELSE IF u \in Assets THEN intents[u].updated ELSE 1
<1>1. CASE u \in Assets
  <2>1. table[u] = {} => table[u] \cup {0} = {0, 0}
    OBVIOUS
  <2>2. table[u] # {} => /\ table[u] \cup {0} = {0, intents[u].updated}
                         /\ intents[u].updated \in Nat /\ intents[u].updated > 0
    BY <1>1 DEF TypeOK, RowsRight
  <2>3. QED
    BY <1>1, <2>1, <2>2, MaxOfTwo DEF View
<1>2. CASE u \notin Assets
  <2>1. View(u) = Cardinality(table[u])
    BY <1>2 DEF View
  <2>2. table[u] = {} \/ \E i : table[u] = {i}
    BY <1>2 DEF RowsRight
  <2>3. QED
    BY <1>2, <2>1, <2>2, FS_EmptySet, FS_Singleton
<1> QED
  BY <1>1, <1>2

ViewsRight ==
    \A u \in Requests : View(u) = IF table[u] = {} THEN 0
                                 ELSE IF u \in Assets THEN intents[u].updated ELSE 1

COROLLARY Views == TypeOK /\ RowsRight => ViewsRight
BY ViewIs DEF ViewsRight

COROLLARY ViewType ==
    ASSUME TypeOK, RowsRight
    PROVE  \A u \in Requests : View(u) \in Nat /\ (View(u) = 0 <=> table[u] = {})
<1> SUFFICES ASSUME NEW u \in Requests
             PROVE  View(u) \in Nat /\ (View(u) = 0 <=> table[u] = {})
  OBVIOUS
<1>1. u \in Assets /\ table[u] # {} => intents[u].updated \in Nat \ {0}
  <2>1. u \in Assets /\ table[u] # {} => intents[u] # NoRecord /\ intents[u].updated > 0
    BY DEF RowsRight
  <2>2. u \in Assets => intents[u].updated \in Nat
    BY DEF TypeOK
  <2>3. QED
    BY <2>1, <2>2
<1> QED
  BY <1>1, ViewIs

(***************************************************************************)
(* Lemmas about the steps of an attempt                                    *)
(***************************************************************************)
Moved(u, i, step, record) ==
    /\ step \in Steps /\ record \in RecordType
    /\ GotoWith(u, i, step, record)

(* An attempt that moves stays on its replica, and no other moves.         *)
LEMMA MovedIs ==
    ASSUME TypeOK, NEW u \in Requests, NEW i \in DOMAIN attempts[u],
           NEW step, NEW record, Moved(u, i, step, record)
    PROVE  /\ attempts' \in [Requests -> Seq(AttemptType)]
           /\ \A v \in Requests : DOMAIN attempts'[v] = DOMAIN attempts[v]
           /\ attempts'[u][i].at = step /\ attempts'[u][i].record = record
           /\ \A v \in Requests : \A j \in DOMAIN attempts[v] :
                 v # u \/ j # i => attempts'[v][j] = attempts[v][j]
<1> DEFINE moved == [attempts[u][i] EXCEPT !.at = step, !.record = record]
<1>1. attempts \in [Requests -> Seq(AttemptType)]
  BY DEF TypeOK, AttemptType, RecordType
<1>2. attempts' = [attempts EXCEPT ![u] = [attempts[u] EXCEPT ![i] = moved]]
  BY DEF Moved, GotoWith
<1>3. attempts[u] \in Seq(AttemptType) /\ i \in 1 .. Len(attempts[u])
  BY <1>1
<1>4. attempts[u][i] \in AttemptType
  BY <1>3
<1>5. moved \in AttemptType /\ moved.at = step /\ moved.record = record
  BY <1>4 DEF AttemptType, Moved
<1> DEFINE s == [attempts[u] EXCEPT ![i] = moved]
<1>6. /\ s \in Seq(AttemptType) /\ DOMAIN s = DOMAIN attempts[u]
      /\ s[i] = moved
      /\ \A j \in DOMAIN attempts[u] : j # i => s[j] = attempts[u][j]
  <2> HIDE DEF moved
  <2>1. s \in Seq(AttemptType)
    BY <1>3, <1>5
  <2>2. QED
    BY <2>1
<1> HIDE DEF s, moved
<1> QED
  BY <1>1, <1>2, <1>5, <1>6 DEF s

LEMMA GotoMoves ==
    ASSUME TypeOK, NEW u \in Requests, NEW i \in DOMAIN attempts[u],
           NEW step \in Steps, Goto(u, i, step)
    PROVE  Moved(u, i, step, IF step = "insert" THEN attempts[u][i].record ELSE NoRecord)
<1>0. attempts \in [Requests -> Seq(AttemptType)]
  BY DEF TypeOK, AttemptType, RecordType
<1>1. attempts[u] \in Seq(AttemptType) /\ i \in 1 .. Len(attempts[u])
  BY <1>0
<1>2. attempts[u][i] \in AttemptType
  BY <1>1
<1>3. attempts[u][i].record \in RecordType /\ NoRecord \in RecordType
  BY <1>2 DEF AttemptType, RecordType, NoRecord
<1>4. GotoWith(u, i, step, IF step = "insert" THEN attempts[u][i].record ELSE NoRecord)
  BY <1>1, <1>2 DEF Goto, GotoWith, TypeOK, AttemptType
<1> QED
  BY <1>3, <1>4 DEF Moved

(* What is in storage stays, and a record is not written over.             *)
Grows ==
    /\ objects \subseteq objects'
    /\ \A v \in Requests : table[v] # {} => table'[v] # {}
    /\ \A m \in Metrics : arrays[m] # {} => arrays'[m] # {}
    /\ \A a \in Assets : intents[a] # NoRecord => intents'[a] = intents[a]

LEMMA AttemptsKept ==
    ASSUME IInv, NEW u \in Requests, NEW i \in DOMAIN attempts[u],
           NEW step, NEW record, Moved(u, i, step, record), Grows, Right(u, step, record)'
    PROVE  AttemptsRight'
<1> SUFFICES ASSUME NEW v \in Requests, NEW j \in DOMAIN attempts'[v]
             PROVE  Right(v, attempts[v][j].at, attempts[v][j].record)'
  BY DEF AttemptsRight
<1>1. j \in DOMAIN attempts[v]
  BY MovedIs DEF IInv
<1>2. CASE v = u /\ j = i
  BY <1>2, MovedIs DEF IInv, Right
<1>3. CASE v # u \/ j # i
  <2>1. attempts'[v][j] = attempts[v][j]
    BY <1>1, <1>3, MovedIs DEF IInv
  <2>2. Right(v, attempts[v][j].at, attempts[v][j].record)
    BY <1>1 DEF IInv, AttemptsRight
  <2>3. QED
    BY <2>1, <2>2 DEF Right, Grows, Requests, Uploads, Published, Metrics
<1> QED
  BY <1>2, <1>3

(* A step that leaves storage alone.                                       *)
LEMMA QuietStep ==
    ASSUME IInv, NEW u \in Requests, NEW i \in DOMAIN attempts[u],
           NEW step, NEW record, Moved(u, i, step, record), Right(u, step, record),
           UNCHANGED <<R2, ClickHouse>>,
           cancelled' \in BOOLEAN, faults' \in 0 .. Faults,
           answer' \in [Requests -> {"none", "ok", "refused"}],
           \A v \in Requests : answer'[v] = "ok" => answer[v] = "ok" \/ Published(v)
    PROVE  IInv'
<1>1. Grows /\ Right(u, step, record)'
  BY DEF Grows, Right, R2, ClickHouse, Published
<1>2. AttemptsRight'
  BY <1>1, AttemptsKept
<1>3. TypeOK'
  BY MovedIs DEF IInv, TypeOK, R2, ClickHouse, AttemptType, RecordType
<1>4. RowsRight' /\ RowsHaveObjects'
  BY MovedIs
  DEF IInv, RowsRight, RowsHaveObjects, R2, ClickHouse, Published, Requests
<1> QED
  BY <1>2, <1>3, <1>4 DEF IInv

(* What the client is told: nothing, or the answer to what it waits for.   *)
LEMMA TellIs ==
    ASSUME TypeOK, NEW u \in Requests, NEW i \in DOMAIN attempts[u],
           NEW what \in {"ok", "refused"}, Tell(u, i, what)
    PROVE  /\ answer' \in [Requests -> {"none", "ok", "refused"}]
           /\ \/ answer' = answer
              \/ answer[u] = "none" /\ answer' = [answer EXCEPT ![u] = what]
BY DEF Tell, TypeOK

LEMMA RefuseStep ==
    ASSUME IInv, NEW u \in Requests, NEW i \in DOMAIN attempts[u],
           Refuse(u, i), UNCHANGED <<cancelled, R2, ClickHouse>>, faults' \in 0 .. Faults
    PROVE  IInv'
<1>1. Moved(u, i, "over", NoRecord)
  BY GotoMoves DEF IInv, Refuse, Steps
<1>2. Right(u, "over", NoRecord)
  BY DEF Right, StepsOf, HasObject, Steps
<1>3. /\ answer' \in [Requests -> {"none", "ok", "refused"}]
      /\ \A v \in Requests : answer'[v] = "ok" => answer[v] = "ok"
  BY TellIs DEF Refuse, IInv, TypeOK
<1> QED
  BY <1>1, <1>2, <1>3, QuietStep DEF IInv, TypeOK

(* A step of a handler that says nothing and changes nothing in storage.   *)
LEMMA GotoStep ==
    ASSUME IInv, NEW u \in Requests, NEW i \in DOMAIN attempts[u], NEW step \in Steps,
           Goto(u, i, step), UNCHANGED <<cancelled, answer, R2, ClickHouse>>,
           faults' \in 0 .. Faults,
           step \notin {"create"}, u \in Assets => step # "insert",
           Right(u, step, NoRecord)
    PROVE  IInv'
<1> DEFINE record == IF step = "insert" THEN attempts[u][i].record ELSE NoRecord
<1>1. Moved(u, i, step, record)
  BY GotoMoves DEF IInv
<1>2. Right(u, step, record)
  BY DEF Right
<1> HIDE DEF record
<1> QED
  BY <1>1, <1>2, QuietStep DEF IInv, TypeOK

(* A new record is later than every row of its name.                       *)
LEMMA NewRecordIs ==
    ASSUME TypeOK, RowsRight, NEW a \in Assets, NEW now \in Clock
    PROVE  /\ NewRecord(a, now) \in RecordType
           /\ NewRecord(a, now).updated > 0
           /\ \A b \in Named(a) : Follows(NewRecord(a, now), b)
<1>1. \A b \in Assets : View(b) \in Nat
  BY ViewType DEF Requests, Uploads
<1>2. now \in Nat /\ now > 0
  BY UploadCommitAssumption
<1>3. CASE Named(a) = {}
  BY <1>2, <1>3 DEF NewRecord, RecordType
<1>4. CASE Named(a) # {}
  <2> DEFINE b == Latest(Named(a))
  <2>1. Named(a) \in SUBSET Assets
    BY DEF Named
  <2>2. b \in Named(a) /\ \A c \in Named(a) : View(c) <= View(b)
    BY <1>1, <1>4, <2>1, LatestIsLatest
  <2> HIDE DEF b
  <2>3. b \in Assets /\ View(b) \in Nat
    BY <1>1, <2>1, <2>2
  <2>4. Max({now, View(b) + 1}) = IF now <= View(b) + 1 THEN View(b) + 1 ELSE now
    BY <1>2, <2>3, MaxOfTwo
  <2>5. NewRecord(a, now) = [updated |-> Max({now, View(b) + 1}), parent |-> b]
    BY <1>4 DEF NewRecord, b
  <2>6. /\ NewRecord(a, now) \in RecordType
        /\ NewRecord(a, now).updated > 0 /\ NewRecord(a, now).updated > View(b)
    BY <1>2, <2>3, <2>4, <2>5 DEF RecordType
  <2>7. NewRecord(a, now).parent # None
    BY <2>3, <2>5, UploadCommitAssumption
  <2>8. ASSUME NEW c \in Named(a)
        PROVE  NewRecord(a, now).updated > View(c)
    <3>1. View(c) \in Nat /\ View(c) <= View(b) /\ NewRecord(a, now).updated \in Nat
      BY <1>1, <2>1, <2>2, <2>6 DEF RecordType
    <3>2. QED
      BY <2>3, <2>6, <3>1
  <2>9. QED
    BY <2>6, <2>7, <2>8 DEF Follows
<1> QED
  BY <1>3, <1>4

(* No step of a handler breaks the invariant.                              *)
LEMMA HandleStep ==
    ASSUME IInv, NEW u \in Requests, NEW i \in DOMAIN attempts[u], Handle(u, i)
    PROVE  IInv'
<1> USE UploadCommitAssumption
<1>1. Right(u, attempts[u][i].at, attempts[u][i].record)
  BY DEF IInv, AttemptsRight
<1>2. /\ attempts \in [Requests -> Seq(AttemptType)]
      /\ attempts[u][i] \in AttemptType /\ attempts[u][i].record \in RecordType
  <2>1. attempts \in [Requests -> Seq(AttemptType)]
    BY DEF IInv, TypeOK, AttemptType, RecordType
  <2>2. attempts[u] \in Seq(AttemptType) /\ i \in 1 .. Len(attempts[u])
    BY <2>1
  <2>3. attempts[u][i] \in AttemptType
    BY <2>2
  <2>4. QED
    BY <2>1, <2>3 DEF AttemptType
<1>3. /\ u \in Metrics <=> u \notin Uploads
      /\ u \in Metrics <=> u \in Scalars \/ u \in Arrays
      /\ u \in Assets => u \in Uploads
      /\ Assets \subseteq Requests /\ Uploads \subseteq Requests
      /\ Metrics \subseteq Requests
  BY DEF Requests, Uploads, Metrics
<1>4. cancelled \in BOOLEAN /\ faults \in 0 .. Faults /\ objects \subseteq Uploads
  BY DEF IInv, TypeOK
<1>5. Fault => faults' \in 0 .. Faults
  BY <1>4 DEF Fault
<1>7. \A k \in DOMAIN attempts[u] : k \in Nat
  <2>1. attempts[u] \in Seq(AttemptType)
    BY <1>2
  <2>2. QED
    BY <2>1
<1>6. At(u, i, "answer") => Published(u)
  BY <1>1 DEF At, Right
<1>a. CASE Admit(u, i)
  <2>1. CASE Refuse(u, i)
    BY <1>4, <1>a, <2>1, RefuseStep DEF Admit
  <2>2. CASE ~Refuse(u, i)
    <3>1. PICK step \in {"receipt", "slot"} :
             Goto(u, i, step) /\ (step = "receipt" <=> u \in Metrics)
      BY <1>a, <2>2 DEF Admit
    <3>2. Right(u, step, NoRecord)
      BY <1>3, <3>1 DEF Right, StepsOf, HasObject, Steps
    <3>3. QED
      BY <1>4, <1>a, <2>2, <3>1, <3>2, GotoStep DEF Admit, Steps
  <2>3. QED
    BY <2>1, <2>2
<1>b. CASE Slot(u, i)
  <2>1. Right(u, "existing", NoRecord)
    BY <1>1, <1>b DEF Slot, At, Right, StepsOf, HasObject, Steps
  <2>2. QED
    BY <1>4, <1>b, <2>1, GotoStep DEF Slot, Steps
<1>c. CASE Existing(u, i)
  <2>1. PICK step \in {"drain", "receive"} :
           Goto(u, i, step) /\ (step = "drain" => u \in objects)
    BY <1>c DEF Existing
  <2>2. Right(u, step, NoRecord)
    BY <1>1, <1>c, <2>1 DEF Existing, At, Right, StepsOf, HasObject, Steps
  <2>3. QED
    BY <1>4, <1>c, <2>1, <2>2, GotoStep DEF Existing, Steps
<1>d. CASE Receive(u, i)
  <2>1. CASE Refuse(u, i)
    BY <1>4, <1>5, <1>d, <2>1, RefuseStep DEF Receive
  <2>2. CASE ~Refuse(u, i)
    <3>1. PICK step \in {"get_asset", "insert", "complete"} :
             /\ Goto(u, i, step)
             /\ step # "complete" => u \in objects
             /\ step = "get_asset" => u \in Assets
             /\ step = "insert" => u \notin Assets
      <4>1. u \in Uploads /\ (At(u, i, "drain") => u \in objects)
        BY <1>1, <1>3, <1>d DEF Receive, At, Right, HasObject, StepsOf
      <4>2. CASE At(u, i, "drain")
        BY <1>d, <2>2, <4>1, <4>2 DEF Receive, Commit
      <4>3. CASE ~At(u, i, "drain")
        BY <1>d, <2>2, <4>3 DEF Receive
      <4>4. QED
        BY <4>2, <4>3
    <3>2. Right(u, step, NoRecord)
      BY <1>1, <1>d, <3>1 DEF Receive, Right, StepsOf, HasObject, Steps
    <3>3. QED
      BY <1>4, <1>d, <2>2, <3>1, <3>2, GotoStep DEF Receive, Steps
  <2>3. QED
    BY <2>1, <2>2
<1>e. CASE GetAsset(u, i)
  <2>1. CASE Refuse(u, i)
    BY <1>4, <1>e, <2>1, RefuseStep DEF GetAsset
  <2>2. CASE ~Refuse(u, i)
    <3>1. PICK step \in {"answer", "intent"} :
             Goto(u, i, step) /\ (step = "answer" => table[u] # {})
      BY <1>e, <2>2 DEF GetAsset
    <3>2. Right(u, step, NoRecord)
      BY <1>1, <1>3, <1>e, <3>1
      DEF GetAsset, At, Right, StepsOf, HasObject, Steps, Published
    <3>3. QED
      BY <1>4, <1>e, <2>2, <3>1, <3>2, GotoStep DEF GetAsset, Steps
  <2>3. QED
    BY <2>1, <2>2
<1>f. CASE Receipt(u, i)
  <2>1. PICK step \in {"answer", "insert", "arrays"} :
           /\ Goto(u, i, step)
           /\ step = "answer" => u \in receipts
           /\ step = "arrays" => u \notin Scalars
    BY <1>f DEF Receipt
  <2>2. u \in Metrics /\ u \notin Assets
    BY <1>1, <1>3, <1>f DEF Receipt, At, Right, StepsOf
  <2>3. Right(u, step, NoRecord)
    BY <1>3, <2>1, <2>2 DEF IInv, RowsRight, Right, StepsOf, HasObject
  <2>4. QED
    BY <1>4, <1>f, <2>1, <2>2, <2>3, GotoStep DEF Receipt, Steps
<1>g. CASE Intent(u, i)
  <2>1. u \in Assets /\ u \in objects
    BY <1>1, <1>3, <1>g DEF Intent, At, Right, StepsOf, HasObject
  <2>2. CASE intents[u] # NoRecord
    <3>1. Moved(u, i, "insert", intents[u])
      BY <1>g, <2>1, <2>2 DEF Intent, Moved, Steps, IInv, TypeOK, RecordType
    <3>2. Right(u, "insert", intents[u])
      BY <1>3, <2>1, <2>2 DEF Right, StepsOf, Steps
    <3>3. QED
      BY <1>4, <1>g, <3>1, <3>2, QuietStep DEF Intent, IInv, TypeOK
  <2>3. CASE intents[u] = NoRecord
    <3>1. Goto(u, i, "parent")
      BY <1>g, <2>3 DEF Intent
    <3>2. Right(u, "parent", NoRecord)
      BY <1>3, <2>1 DEF Right, StepsOf, Steps
    <3>3. QED
      BY <1>4, <1>g, <3>1, <3>2, GotoStep DEF Intent, Steps
  <2>4. QED
    BY <2>2, <2>3
<1>h. CASE Parent(u, i)
  <2>1. u \in Assets /\ u \in objects
    BY <1>1, <1>3, <1>h DEF Parent, At, Right, StepsOf, HasObject
  <2>2. PICK now \in Clock : GotoWith(u, i, "create", NewRecord(u, now))
    BY <1>h DEF Parent
  <2>3. NewRecord(u, now) \in RecordType /\ NewRecord(u, now).updated > 0
    BY <2>1, NewRecordIs DEF IInv
  <2>4. PICK record \in RecordType :
           record.updated > 0 /\ GotoWith(u, i, "create", record)
    BY <2>2, <2>3
  <2>5. Moved(u, i, "create", record) /\ Right(u, "create", record)
    BY <1>3, <2>1, <2>4 DEF Moved, Right, StepsOf, Steps
  <2>6. QED
    BY <1>4, <1>h, <2>5, QuietStep DEF Parent, IInv, TypeOK
<1>i. CASE Answer(u, i)
  <2>1. Goto(u, i, "over") /\ Tell(u, i, "ok") /\ Published(u)
    BY <1>6, <1>i DEF Answer
  <2>2. Moved(u, i, "over", NoRecord) /\ Right(u, "over", NoRecord)
    BY <2>1, GotoMoves DEF IInv, Steps, Right, StepsOf, HasObject
  <2>3. /\ answer' \in [Requests -> {"none", "ok", "refused"}]
        /\ \A v \in Requests : answer'[v] = "ok" => answer[v] = "ok" \/ Published(v)
    BY <2>1, TellIs, ZenonT(40) DEF IInv, TypeOK
  <2>4. QED
    BY <1>4, <1>i, <2>2, <2>3, QuietStep DEF Answer
<1>j. CASE Complete(u, i)
  <2>1. u \in Uploads /\ u \in Requests
    BY <1>1, <1>3, <1>j DEF Complete, At, Right, StepsOf
  <2>2. PICK step \in {"get_asset", "insert", "over"} :
           /\ Goto(u, i, step)
           /\ step = "get_asset" => u \in Assets
           /\ step = "insert" => u \notin Assets
           /\ objects' = objects \/ objects' = objects \cup {u}
           /\ step # "over" => u \in objects'
    BY <1>j DEF Complete, Commit
  <2>3. Grows /\ UNCHANGED <<cancelled, answer, receipts, intents, ClickHouse>>
    BY <1>j, <2>2 DEF Complete, Grows, ClickHouse
  <2>4. Right(u, step, NoRecord)' /\ (u \in Assets => step # "insert")
    BY <1>1, <1>3, <1>j, <2>1, <2>2
    DEF Complete, At, Right, StepsOf, HasObject, Steps
  <2>5. faults' \in 0 .. Faults
    BY <1>4, <1>5, <1>j DEF Complete
  <2>6. PICK record : Moved(u, i, step, record) /\ Right(u, step, record)'
    <3>1. Moved(u, i, step, IF step = "insert" THEN attempts[u][i].record ELSE NoRecord)
      BY <2>2, GotoMoves DEF IInv, Steps
    <3>2. ASSUME NEW record
          PROVE  Right(u, step, record)'
      BY <2>2, <2>4 DEF Right
    <3>3. QED
      BY <3>1, <3>2
  <2>7. AttemptsRight'
    BY <2>3, <2>6, AttemptsKept
  <2>8. TypeOK'
    BY <2>1, <2>2, <2>3, <2>5, <2>6, MovedIs
    DEF IInv, TypeOK, AttemptType, RecordType, ClickHouse
  <2>9. RowsRight' /\ RowsHaveObjects'
    BY <2>2, <2>3, <2>6, MovedIs
    DEF IInv, RowsRight, RowsHaveObjects, Published, ClickHouse, Requests
  <2>10. QED
    BY <2>7, <2>8, <2>9 DEF IInv
<1>k. CASE Create(u, i)
  <2>0. PICK record : record = FirstWritten(u, attempts[u][i].record)
    OBVIOUS
  <2>1. u \in Assets /\ u \in objects /\ attempts[u][i].record.updated > 0
    BY <1>1, <1>3, <1>k DEF Create, At, Right, StepsOf, HasObject
  <2>2. record \in RecordType /\ record.updated > 0 /\ record # NoRecord
    BY <1>2, <2>0, <2>1
    DEF FirstWritten, IInv, TypeOK, RecordType, RowsRight, NoRecord
  <2>3. intents' = [intents EXCEPT ![u] = record] /\ Moved(u, i, "insert", record)
    BY <1>k, <2>0, <2>2 DEF Create, Moved, Steps
  <2>4. intents[u] # NoRecord => record = intents[u]
    BY <2>0 DEF FirstWritten
  <2>5. UNCHANGED <<cancelled, answer, receipts, objects, ClickHouse, faults>>
    BY <1>k DEF Create
  <2>6. intents' \in [Assets -> RecordType] /\ intents'[u] = record
    BY <2>1, <2>2, <2>3 DEF IInv, TypeOK, RecordType
  <2>7. Grows /\ Right(u, "insert", record)'
    BY <1>3, <2>1, <2>2, <2>3, <2>4, <2>5, <2>6
    DEF IInv, TypeOK, Grows, Right, StepsOf, Steps, Published, ClickHouse
  <2>8. AttemptsRight'
    BY <2>3, <2>7, AttemptsKept
  <2>9. TypeOK'
    BY <2>3, <2>5, <2>6, MovedIs
    DEF IInv, TypeOK, AttemptType, RecordType, ClickHouse
  <2>10. RowsRight' /\ RowsHaveObjects'
    <3>1. \A v \in Requests : DOMAIN attempts'[v] = DOMAIN attempts[v]
      BY <2>3, MovedIs DEF IInv
    <3>2. \A a \in Assets : a # u => intents'[a] = intents[a]
      BY <2>3 DEF IInv, TypeOK
    <3>3. \A a \in Assets : table[a] # {} => /\ intents'[a] # NoRecord
                                             /\ table[a] = {intents'[a].updated}
      BY <2>4, <2>6, <3>2 DEF IInv, RowsRight
    <3>4. \A a \in Assets : intents'[a] # NoRecord => intents'[a].updated > 0
      BY <2>2, <2>6, <3>2 DEF IInv, RowsRight
    <3>5. QED
      BY <2>5, <3>1, <3>3, <3>4
      DEF IInv, RowsRight, RowsHaveObjects, Published, ClickHouse, Requests
  <2>11. QED
    BY <2>8, <2>9, <2>10 DEF IInv
<1>l. CASE Committed(u, i)
  <2>1. u \in Metrics /\ u \notin Assets /\ Published(u)
    BY <1>1, <1>3, <1>l DEF Committed, At, Right, StepsOf
  <2>2. receipts' = receipts \cup {u} /\ Goto(u, i, "answer")
    BY <1>l DEF Committed
  <2>3. UNCHANGED <<cancelled, answer, intents, objects, ClickHouse, faults>>
    BY <1>l DEF Committed
  <2>4. Moved(u, i, "answer", NoRecord)
    BY <2>2, GotoMoves DEF IInv, Steps
  <2>5. Grows /\ Right(u, "answer", NoRecord)'
    BY <1>3, <2>1, <2>3 DEF Grows, Right, StepsOf, Published, ClickHouse
  <2>6. AttemptsRight'
    BY <2>4, <2>5, AttemptsKept
  <2>7. TypeOK'
    BY <2>1, <2>2, <2>3, <2>4, MovedIs
    DEF IInv, TypeOK, AttemptType, RecordType, ClickHouse
  <2>8. RowsRight'
    <3>1. \A v \in Requests : DOMAIN attempts'[v] = DOMAIN attempts[v]
      BY <2>4, MovedIs DEF IInv
    <3>2. \A v : Published(v)' <=> Published(v)
      BY <2>3 DEF Published, ClickHouse
    <3>3. \A m \in receipts' : Published(m)
      BY <2>1, <2>2 DEF IInv, RowsRight
    <3>4. Metrics \subseteq Requests /\ UNCHANGED <<answer, intents, table, arrays>>
      BY <1>3, <2>3 DEF ClickHouse
    <3>5. QED
      BY <3>1, <3>2, <3>3, <3>4 DEF IInv, RowsRight
  <2>9. RowsHaveObjects'
    BY <2>3 DEF IInv, RowsHaveObjects, ClickHouse
  <2>10. QED
    BY <2>6, <2>7, <2>8, <2>9 DEF IInv
<1>m. CASE InsertRow(u, i) \/ InsertScalars(u, i)
  <2>1. PICK step \in {"arrays", "committed", "answer"} :
           /\ Goto(u, i, step)
           /\ step = "answer" <=> u \notin Metrics
           /\ step = "arrays" <=> u \in Arrays
    BY <1>3, <1>m DEF InsertRow, InsertScalars
  <2>2. UNCHANGED <<cancelled, answer, receipts, intents, objects, arrays, faults>>
    BY <1>m DEF InsertRow, InsertScalars, R2
  <2>3. u \in Uploads => u \in objects
    BY <1>1, <1>m DEF InsertRow, InsertScalars, At, Right, HasObject
  <2>4. u \in Assets => /\ intents[u] # NoRecord /\ intents[u] \in RecordType
                        /\ Inserted(u, i) = {intents[u].updated}
    <3>1. SUFFICES ASSUME u \in Assets PROVE /\ intents[u] # NoRecord
                                             /\ intents[u] \in RecordType
                                             /\ Inserted(u, i) = {intents[u].updated}
      OBVIOUS
    <3>2. intents[u] # NoRecord /\ attempts[u][i].record = intents[u]
      BY <1>1, <1>m, <3>1 DEF InsertRow, InsertScalars, At, Right
    <3>3. table[u] = {} \/ table[u] = {intents[u].updated}
      BY <3>1 DEF IInv, RowsRight
    <3>4. QED
      BY <3>1, <3>2, <3>3 DEF Inserted, IInv, TypeOK, RecordType
  <2>5. u \notin Assets => \E k \in DOMAIN attempts[u] : Inserted(u, i) = {k}
    BY DEF Inserted, IInv, RowsRight
  <2>6. Inserted(u, i) \subseteq Nat /\ Inserted(u, i) # {}
    BY <1>7, <2>4, <2>5 DEF RecordType
  <2>7. /\ table' \in [Requests -> SUBSET Nat]
        /\ table'[u] = Inserted(u, i)
        /\ \A v \in Requests : v # u => table'[v] = table[v]
    <3>1. table' = [table EXCEPT ![u] = Inserted(u, i)]
      BY <1>m DEF InsertRow, InsertScalars
    <3>2. table \in [Requests -> SUBSET Nat]
      BY DEF IInv, TypeOK
    <3>3. QED
      BY <2>6, <3>1, <3>2
  <2>8. Moved(u, i, step, NoRecord)
    BY <2>1, GotoMoves DEF IInv, Steps
  <2>9. Grows
    BY <2>2, <2>6, <2>7 DEF Grows
  <2>10. Right(u, step, NoRecord)'
    BY <1>3, <2>1, <2>2, <2>3, <2>6, <2>7 DEF Right, StepsOf, Steps, Published
  <2>11. AttemptsRight'
    BY <2>8, <2>9, <2>10, AttemptsKept
  <2>12. TypeOK'
    BY <2>2, <2>7, <2>8, MovedIs DEF IInv, TypeOK, AttemptType, RecordType
  <2>13. RowsRight'
    <3>1. \A v \in Requests : Published(v) => Published(v)'
      BY <2>2, <2>6, <2>7 DEF Published
    <3>2. \A a \in Assets : table'[a] # {} => intents[a] # NoRecord
                                              /\ table'[a] = {intents[a].updated}
      BY <1>3, <2>4, <2>7 DEF IInv, RowsRight
    <3>3. /\ \A v \in Requests : DOMAIN attempts'[v] = DOMAIN attempts[v]
          /\ Metrics \subseteq Requests /\ receipts \subseteq Requests
      BY <1>3, <2>8, MovedIs DEF IInv, TypeOK
    <3>4. \A v \in Requests \ Assets :
             table'[v] = {} \/ \E k \in DOMAIN attempts'[v] : table'[v] = {k}
      <4>1. \A v \in Requests \ Assets :
               table[v] = {} \/ \E k \in DOMAIN attempts[v] : table[v] = {k}
        BY DEF IInv, RowsRight
      <4>2. QED
        BY <2>5, <2>7, <3>3, <4>1
    <3>5. QED
      BY <2>2, <3>1, <3>2, <3>3, <3>4 DEF IInv, RowsRight
  <2>14. RowsHaveObjects'
    BY <1>3, <2>2, <2>3, <2>7 DEF IInv, RowsHaveObjects
  <2>15. QED
    BY <2>11, <2>12, <2>13, <2>14 DEF IInv
<1>n. CASE InsertArrays(u, i)
  <2>1. /\ Goto(u, i, "committed")
        /\ UNCHANGED <<cancelled, answer, receipts, intents, objects, table, faults>>
    BY <1>n DEF InsertArrays, R2
  <2>2. u \in Arrays /\ u \in Metrics /\ u \notin Uploads
        /\ (u \in Scalars => table[u] # {})
    BY <1>1, <1>3, <1>n DEF InsertArrays, At, Right
  <2>3. PICK k \in DOMAIN attempts[u] : arrays' = [arrays EXCEPT ![u] = {k}]
    <3>1. PICK rows : rows = IF arrays[u] = {} THEN {i} ELSE arrays[u]
      OBVIOUS
    <3>2. \E k \in DOMAIN attempts[u] : rows = {k}
      BY <2>2, <3>1 DEF IInv, RowsRight
    <3>3. arrays' = [arrays EXCEPT ![u] = rows]
      BY <1>n, <3>1 DEF InsertArrays
    <3>4. QED
      BY <3>2, <3>3
  <2>4. /\ arrays' \in [Metrics -> SUBSET Nat] /\ arrays'[u] = {k}
        /\ \A m \in Metrics : m # u => arrays'[m] = arrays[m]
    BY <1>7, <2>2, <2>3 DEF IInv, TypeOK
  <2>5. Moved(u, i, "committed", NoRecord)
    BY <2>1, GotoMoves DEF IInv, Steps
  <2>6. Grows
    BY <2>1, <2>4 DEF Grows
  <2>7. Right(u, "committed", NoRecord)'
    BY <1>3, <2>1, <2>2, <2>4 DEF Right, StepsOf, Published
  <2>8. AttemptsRight'
    BY <2>5, <2>6, <2>7, AttemptsKept
  <2>9. TypeOK'
    BY <2>1, <2>4, <2>5, MovedIs DEF IInv, TypeOK, AttemptType, RecordType
  <2>10. RowsRight'
    <3>1. \A v \in Requests : Published(v) => Published(v)'
      BY <2>1, <2>4, Arrays \subseteq Metrics DEF Published, Metrics
    <3>2. /\ \A v \in Requests : DOMAIN attempts'[v] = DOMAIN attempts[v]
          /\ Metrics \subseteq Requests /\ receipts \subseteq Requests
      BY <1>3, <2>5, MovedIs DEF IInv, TypeOK
    <3>3. \A m \in Metrics :
             arrays'[m] = {} \/ \E l \in DOMAIN attempts'[m] : arrays'[m] = {l}
      <4>1. \A m \in Metrics :
               arrays[m] = {} \/ \E l \in DOMAIN attempts[m] : arrays[m] = {l}
        BY DEF IInv, RowsRight
      <4>2. QED
        BY <2>4, <3>2, <4>1
    <3>4. QED
      BY <2>1, <3>1, <3>2, <3>3 DEF IInv, RowsRight
  <2>11. RowsHaveObjects'
    BY <2>1 DEF IInv, RowsHaveObjects
  <2>12. QED
    BY <2>8, <2>9, <2>10, <2>11 DEF IInv
<1> QED
  BY <1>a, <1>b, <1>c, <1>d, <1>e, <1>f, <1>g, <1>h, <1>i, <1>j, <1>k, <1>l, <1>m, <1>n
  DEF Handle

(* A client begins an attempt at a request that has no answer.             *)
LEMMA SendIs ==
    ASSUME TypeOK, NEW u \in Requests, Send(u)
    PROVE  /\ attempts' \in [Requests -> Seq(AttemptType)]
           /\ \A v \in Requests : v # u => attempts'[v] = attempts[v]
           /\ attempts'[u] # <<>> /\ DOMAIN attempts[u] \subseteq DOMAIN attempts'[u]
           /\ \A j \in DOMAIN attempts'[u] :
                 \/ j \in DOMAIN attempts[u] /\ attempts'[u][j] = attempts[u][j]
                 \/ attempts'[u][j].at = "admit"
           /\ faults' \in 0 .. Faults
<1>1. attempts \in [Requests -> Seq(AttemptType)]
  BY DEF TypeOK, AttemptType, RecordType
<1>2. PICK r \in Replicas :
         attempts' = [attempts EXCEPT ![u] =
                         Append(@, [at |-> "admit", on |-> r, record |-> NoRecord])]
  BY DEF Send
<1> DEFINE new == [at |-> "admit", on |-> r, record |-> NoRecord]
           s == Append(attempts[u], new)
<1>3. new \in AttemptType /\ new.at = "admit"
  BY DEF AttemptType, RecordType, NoRecord, Steps
<1> HIDE DEF new
<1>4. /\ s \in Seq(AttemptType) /\ s # <<>>
      /\ Len(s) = Len(attempts[u]) + 1 /\ Len(attempts[u]) \in Nat
      /\ DOMAIN s = 1 .. Len(attempts[u]) + 1
      /\ DOMAIN attempts[u] = 1 .. Len(attempts[u])
      /\ \A j \in 1 .. Len(attempts[u]) : s[j] = attempts[u][j]
      /\ s[Len(attempts[u]) + 1] = new
  BY <1>1, <1>3
<1>5. attempts' = [attempts EXCEPT ![u] = s]
  BY <1>2 DEF new
<1> HIDE DEF s
<1>6. faults' \in 0 .. Faults
  BY UploadCommitAssumption DEF Send, Fault, TypeOK
<1> QED
  BY <1>1, <1>3, <1>4, <1>5, <1>6

LEMMA SendStep ==
    ASSUME IInv, NEW u \in Requests, Send(u)
    PROVE  IInv'
<1>1. UNCHANGED <<cancelled, answer, R2, ClickHouse>>
  BY DEF Send
<1>2. TypeOK'
  BY <1>1, SendIs DEF IInv, TypeOK, R2, ClickHouse, AttemptType, RecordType
<1>3. AttemptsRight'
  <2> SUFFICES ASSUME NEW v \in Requests, NEW j \in DOMAIN attempts'[v]
               PROVE  Right(v, attempts[v][j].at, attempts[v][j].record)'
    BY DEF AttemptsRight
  <2>1. CASE j \in DOMAIN attempts[v] /\ attempts'[v][j] = attempts[v][j]
    <3>1. Right(v, attempts[v][j].at, attempts[v][j].record)
      BY <2>1 DEF IInv, AttemptsRight
    <3>2. QED
      BY <1>1, <2>1, <3>1 DEF Right, R2, ClickHouse, Published
  <2>2. CASE attempts'[v][j].at = "admit"
    BY <2>2 DEF Right, StepsOf, HasObject, Steps
  <2>3. QED
    BY <2>1, <2>2, SendIs DEF IInv
<1>4. RowsRight'
  <2>1. \A v \in Requests : DOMAIN attempts[v] \subseteq DOMAIN attempts'[v]
    BY SendIs DEF IInv
  <2>2. QED
    BY <1>1, <2>1 DEF IInv, RowsRight, R2, ClickHouse, Published, Requests
<1>5. RowsHaveObjects'
  BY <1>1 DEF IInv, RowsHaveObjects, R2, ClickHouse
<1> QED
  BY <1>2, <1>3, <1>4, <1>5 DEF IInv

LEMMA DieStep ==
    ASSUME IInv, NEW u \in Requests, NEW i \in DOMAIN attempts[u], Die(u, i)
    PROVE  IInv'
<1>1. Goto(u, i, "over") /\ UNCHANGED <<cancelled, answer, R2, ClickHouse>>
  BY DEF Die
<1>2. faults' \in 0 .. Faults
  BY UploadCommitAssumption DEF Die, Fault, IInv, TypeOK
<1>3. Right(u, "over", NoRecord)
  BY DEF Right, StepsOf, HasObject, Steps
<1> QED
  BY <1>1, <1>2, <1>3, GotoStep DEF Steps

(* At the start nothing has been sent.                                    *)
LEMMA InitRight == Init => IInv
<1> SUFFICES ASSUME Init PROVE IInv
  OBVIOUS
<1>1. TypeOK
  <2>1. attempts \in [Requests -> Seq(AttemptType)]
    BY DEF Init
  <2>2. attempts \in [Requests -> Seq([at : Steps, on : Replicas, record : RecordType])]
    BY <2>1 DEF AttemptType
  <2>3. /\ intents \in [Assets -> RecordType]
        /\ table \in [Requests -> SUBSET Nat] /\ arrays \in [Metrics -> SUBSET Nat]
    BY DEF Init, RecordType, NoRecord
  <2>4. answer \in [Requests -> {"none", "ok", "refused"}]
    BY DEF Init
  <2>5. faults \in 0 .. Faults /\ receipts \subseteq Metrics /\ objects \subseteq Uploads
    BY UploadCommitAssumption DEF Init
  <2>6. cancelled \in BOOLEAN
    BY DEF Init
  <2>7. QED
    BY <2>2, <2>3, <2>4, <2>5, <2>6 DEF TypeOK, RecordType
<1>2. AttemptsRight /\ RowsRight /\ RowsHaveObjects
  BY DEF Init, AttemptsRight, RowsRight, RowsHaveObjects, Requests, Uploads
<1>3. QED
  BY <1>1, <1>2 DEF IInv

(***************************************************************************)
(* Theorems                                                                *)
(***************************************************************************)
(* Whatever attempts do beside one another, each finds what it relies on.  *)
THEOREM Inductive == Spec => []IInv
<1>1. IInv /\ [Next]_vars => IInv'
  <2> SUFFICES ASSUME IInv, [Next]_vars PROVE IInv'
    OBVIOUS
  <2>1. ASSUME NEW u \in Requests, Send(u)
        PROVE  IInv'
    BY <2>1, SendStep
  <2>2. ASSUME NEW u \in Requests, NEW i \in DOMAIN attempts[u],
               Handle(u, i) \/ Die(u, i)
        PROVE  IInv'
    BY <2>2, HandleStep, DieStep
  <2>3. CASE Cancel
    <3>1. UNCHANGED <<attempts, answer, receipts, intents, objects, table, arrays>>
      BY <2>3 DEF Cancel, R2, ClickHouse
    <3>2. cancelled' \in BOOLEAN /\ faults' \in 0 .. Faults
      BY <2>3, UploadCommitAssumption DEF Cancel, Fault, IInv, TypeOK
    <3>3. TypeOK'
      BY <3>1, <3>2 DEF IInv, TypeOK
    <3>4. QED
      <4>1. \A v : Published(v)' <=> Published(v)
        BY <3>1 DEF Published
      <4>2. AttemptsRight'
        BY <3>1, <4>1 DEF IInv, AttemptsRight, Right
      <4>3. RowsRight' /\ RowsHaveObjects'
        BY <3>1, <4>1 DEF IInv, RowsRight, RowsHaveObjects
      <4>4. QED
        BY <3>3, <4>2, <4>3 DEF IInv
  <2>4. CASE UNCHANGED vars
    <3>1. /\ UNCHANGED <<cancelled, attempts, answer, receipts, intents, objects>>
          /\ UNCHANGED <<table, arrays, faults>>
      BY <2>4 DEF vars
    <3>2. \A v : Published(v)' <=> Published(v)
      BY <3>1 DEF Published
    <3>3. TypeOK'
      BY <3>1 DEF IInv, TypeOK
    <3>4. AttemptsRight'
      BY <3>1, <3>2 DEF IInv, AttemptsRight, Right
    <3>5. RowsRight' /\ RowsHaveObjects'
      BY <3>1, <3>2 DEF IInv, RowsRight, RowsHaveObjects
    <3>6. QED
      BY <3>3, <3>4, <3>5 DEF IInv
  <2>5. QED
    BY <2>1, <2>2, <2>3, <2>4 DEF Next
<1>2. QED
  BY InitRight, <1>1, PTL DEF Spec

(* Every variable keeps its type.                                          *)
COROLLARY TypeCorrect == Spec => []TypeOK
<1>1. IInv => TypeOK
  BY DEF IInv
<1> QED
  BY <1>1, Inductive, PTL

(* A row in the database has its object in R2, however attempts at it      *)
(* overlap, die between two operations and are repeated elsewhere.         *)
COROLLARY RowsHaveObjectsAlways == Spec => []RowsHaveObjects
<1>1. IInv => RowsHaveObjects
  BY DEF IInv
<1> QED
  BY <1>1, Inductive, PTL

(***************************************************************************)
(* What a step of an attempt shows to others: the step and record the      *)
(* attempt has next, a record that is created, a row, or an answer.        *)
(***************************************************************************)
NewlyTold(u) ==
    \/ answer' = [answer EXCEPT ![u] = "refused"]
    \/ Published(u) /\ answer' = [answer EXCEPT ![u] = "ok"]

Effects(u, i) ==
    /\ \E step, record :
          /\ Moved(u, i, step, record)
          /\ step = "create" => /\ UNCHANGED <<answer, table>>
                                /\ \E now \in Clock : record = NewRecord(u, now)
    /\ \/ intents' = intents
       \/ /\ u \in Assets /\ intents[u] = NoRecord /\ attempts[u][i].at = "create"
          /\ intents' = [intents EXCEPT ![u] = attempts[u][i].record]
    /\ answer' = answer \/ (answer[u] = "none" /\ NewlyTold(u) /\ UNCHANGED ClickHouse)
    /\ \/ table' = table
       \/ UNCHANGED <<answer, arrays>> /\ table' = [table EXCEPT ![u] = Inserted(u, i)]
    /\ \/ arrays' = arrays
       \/ /\ u \in Arrays /\ UNCHANGED <<answer, table>>
          /\ arrays' = [arrays EXCEPT ![u] = IF @ = {} THEN {i} ELSE @]

LEMMA GotoEffects ==
    ASSUME IInv, NEW u \in Requests, NEW i \in DOMAIN attempts[u],
           NEW step \in Steps \ {"create"}, Goto(u, i, step)
    PROVE  \E s, record :
              /\ Moved(u, i, s, record)
              /\ s = "create" => /\ UNCHANGED <<answer, table>>
                                 /\ \E now \in Clock : record = NewRecord(u, now)
<1>1. \E record : Moved(u, i, step, record)
  BY GotoMoves DEF IInv
<1> QED
  BY <1>1

LEMMA HandleEffects ==
    ASSUME IInv, NEW u \in Requests, NEW i \in DOMAIN attempts[u],
           Handle(u, i) \/ Die(u, i)
    PROVE  Effects(u, i)
<1> USE UploadCommitAssumption
<1>1. Right(u, attempts[u][i].at, attempts[u][i].record)
  BY DEF IInv, AttemptsRight
<1>2. TypeOK
  BY DEF IInv
<1>3. ASSUME NEW step \in Steps \ {"create"}, Goto(u, i, step),
             UNCHANGED <<intents, answer, ClickHouse>>
      PROVE  Effects(u, i)
  BY <1>3, GotoEffects DEF Effects, ClickHouse
<1>4. ASSUME Refuse(u, i), UNCHANGED <<intents, ClickHouse>>
      PROVE  Effects(u, i)
  BY <1>2, <1>4, GotoEffects, TellIs
  DEF Refuse, Effects, NewlyTold, Steps, ClickHouse
<1>5. CASE Admit(u, i) \/ Slot(u, i) \/ Existing(u, i) \/ GetAsset(u, i) \/ Receipt(u, i)
  BY <1>3, <1>4, <1>5
  DEF Admit, Slot, Existing, GetAsset, Receipt, R2, ClickHouse, Steps
<1>6. CASE Receive(u, i) \/ Complete(u, i) \/ Committed(u, i) \/ Die(u, i)
  BY <1>3, <1>4, <1>6
  DEF Receive, Complete, Committed, Die, Commit, R2, ClickHouse, Steps
<1>7. CASE Intent(u, i)
  <2>1. u \in Assets
    BY <1>1, <1>7 DEF Intent, At, Right, StepsOf
  <2>2. CASE intents[u] # NoRecord
    <3>1. Moved(u, i, "insert", intents[u])
      BY <1>7, <2>1, <2>2 DEF Intent, Moved, Steps, IInv, TypeOK, RecordType
    <3>2. QED
      BY <1>7, <3>1 DEF Intent, Effects, R2, ClickHouse
  <2>3. CASE intents[u] = NoRecord
    BY <1>3, <1>7, <2>3 DEF Intent, R2, ClickHouse, Steps
  <2>4. QED
    BY <2>2, <2>3
<1>8. CASE Parent(u, i)
  <2>1. u \in Assets
    BY <1>1, <1>8 DEF Parent, At, Right, StepsOf
  <2>2. PICK now \in Clock : GotoWith(u, i, "create", NewRecord(u, now))
    BY <1>8 DEF Parent
  <2>3. Moved(u, i, "create", NewRecord(u, now))
    BY <2>1, <2>2, NewRecordIs DEF IInv, Moved, Steps
  <2>4. UNCHANGED <<intents, answer, ClickHouse>>
    BY <1>8 DEF Parent, R2, ClickHouse
  <2>5. QED
    BY <2>3, <2>4 DEF Effects, ClickHouse
<1>9. CASE Create(u, i)
  <2>1. u \in Assets
    BY <1>1, <1>9 DEF Create, At, Right, StepsOf
  <2>2. PICK record : record = FirstWritten(u, attempts[u][i].record)
    OBVIOUS
  <2>3. GotoWith(u, i, "insert", record) /\ UNCHANGED <<answer, ClickHouse>>
    BY <1>9, <2>2 DEF Create
  <2>4. attempts[u][i].record \in RecordType
    <3>1. attempts \in [Requests -> Seq(AttemptType)]
      BY DEF IInv, TypeOK, AttemptType, RecordType
    <3>2. attempts[u] \in Seq(AttemptType) /\ i \in 1 .. Len(attempts[u])
      BY <3>1
    <3>3. attempts[u][i] \in AttemptType
      BY <3>2
    <3>4. QED
      BY <3>3 DEF AttemptType
  <2>5. Moved(u, i, "insert", record)
    BY <2>1, <2>2, <2>3, <2>4
    DEF Moved, Steps, FirstWritten, IInv, TypeOK, RecordType
  <2>6. \/ intents' = intents
        \/ /\ intents[u] = NoRecord /\ attempts[u][i].at = "create"
           /\ intents' = [intents EXCEPT ![u] = attempts[u][i].record]
    BY <1>9, <2>1 DEF Create, At, FirstWritten, IInv, TypeOK
  <2>7. QED
    BY <2>1, <2>3, <2>5, <2>6 DEF Effects, ClickHouse
<1>10. CASE InsertRow(u, i) \/ InsertScalars(u, i)
  BY <1>10, GotoEffects DEF InsertRow, InsertScalars, Effects, R2, Steps
<1>12. CASE InsertArrays(u, i)
  <2>1. u \in Arrays
    BY <1>1, <1>12 DEF InsertArrays, At, Right
  <2>2. QED
    BY <1>12, <2>1, GotoEffects DEF InsertArrays, Effects, R2, Steps
<1>11. CASE Answer(u, i)
  <2>1. Published(u)
    BY <1>1, <1>11 DEF Answer, At, Right
  <2>2. QED
    BY <1>2, <1>11, <2>1, GotoEffects, TellIs
    DEF Answer, Effects, NewlyTold, R2, ClickHouse, Steps
<1> QED
  BY <1>5, <1>6, <1>7, <1>8, <1>9, <1>10, <1>11, <1>12 DEF Handle

(* What readers have seen of a request stays as it is.                     *)
LEMMA ViewKept ==
    ASSUME IInv, IInv', NEW u \in Requests, NEW i \in DOMAIN attempts[u], Effects(u, i),
           NEW v \in Requests, table[v] # {}
    PROVE  table'[v] # {} /\ View(v)' = View(v)
<1>1. table'[v] # {}
  <2>1. table[u] # {} => Inserted(u, i) # {}
    BY DEF Inserted
  <2>2. table' = table \/ table' = [table EXCEPT ![u] = Inserted(u, i)]
    BY DEF Effects
  <2>3. QED
    BY <2>1, <2>2 DEF IInv, TypeOK
<1>2. v \in Assets => intents'[v] = intents[v]
  BY DEF Effects, IInv, TypeOK, RowsRight
<1>3. View(v) = IF v \in Assets THEN intents[v].updated ELSE 1
  BY ViewIs DEF IInv
<1>4. View(v)' = IF v \in Assets THEN intents'[v].updated ELSE 1
  <2>1. TypeOK' /\ RowsRight'
    BY DEF IInv
  <2>2. ViewsRight'
    BY <2>1, Views, PTL
  <2>3. QED
    BY <1>1, <2>2 DEF ViewsRight
<1> QED
  BY <1>1, <1>2, <1>3, <1>4

LEMMA HandleDescent ==
    ASSUME IInv, IInv', Descent, NEW u \in Requests, NEW i \in DOMAIN attempts[u],
           Effects(u, i)
    PROVE  Descent'
<1>1. PICK step, record :
         /\ Moved(u, i, step, record)
         /\ step = "create" => /\ UNCHANGED <<answer, table>>
                               /\ \E now \in Clock : record = NewRecord(u, now)
  BY DEF Effects
<1>2. /\ \A v \in Requests : DOMAIN attempts'[v] = DOMAIN attempts[v]
      /\ attempts'[u][i].at = step /\ attempts'[u][i].record = record
      /\ \A v \in Requests : \A j \in DOMAIN attempts[v] :
            v # u \/ j # i => attempts'[v][j] = attempts[v][j]
  BY <1>1, MovedIs DEF IInv
<1>3. \A v \in Requests : /\ attempts[v] # <<>> <=> DOMAIN attempts[v] # {}
                          /\ attempts'[v] # <<>> <=> DOMAIN attempts'[v] # {}
  <2>1. ASSUME NEW s \in Seq([at : Steps, on : Replicas, record : RecordType])
        PROVE  s # <<>> <=> DOMAIN s # {}
    <3>1. Len(s) \in Nat /\ DOMAIN s = 1 .. Len(s)
      OBVIOUS
    <3>2. CASE Len(s) = 0
      BY <3>1, <3>2
    <3>3. CASE Len(s) # 0
      <4>1. 1 \in DOMAIN s
        BY <3>1, <3>3
      <4>2. QED
        BY <4>1
    <3>4. QED
      BY <3>2, <3>3
  <2>2. /\ attempts \in [Requests -> Seq([at : Steps, on : Replicas, record : RecordType])]
        /\ attempts' \in [Requests -> Seq([at : Steps, on : Replicas, record : RecordType])]
    BY DEF IInv, TypeOK, RecordType
  <2>3. QED
    BY <2>1, <2>2
<1>4. \A v \in Requests : v # u \/ answer[v] # "none" => answer'[v] = answer[v]
  BY DEF Effects, NewlyTold, IInv, TypeOK
<1>5. \A b \in Assets : \/ intents'[b] = intents[b]
                        \/ /\ b = u /\ attempts[u][i].at = "create"
                           /\ intents'[b] = attempts[u][i].record
  BY DEF Effects, IInv, TypeOK
<1>6. Assets \subseteq Requests
  BY DEF Requests, Uploads
<1>7. SUFFICES ASSUME NEW b \in Assets
      PROVE  /\ intents'[b] # NoRecord => attempts'[b] # <<>>
             /\ \A a \in Assets : Before(a, b) =>
                   /\ attempts'[b] # <<>> => answer'[a] # "none"
                   /\ NameOf[a] = NameOf[b] /\ answer'[a] = "ok" =>
                         /\ intents'[b] # NoRecord => Follows(intents[b], a)'
                         /\ \A j \in DOMAIN attempts'[b] :
                               attempts'[b][j].at = "create" =>
                                   Follows(attempts[b][j].record, a)'
  BY DEF Descent
<1>8. intents'[b] # NoRecord => attempts'[b] # <<>>
  BY <1>2, <1>3, <1>5, <1>6 DEF Descent
<1> SUFFICES ASSUME NEW a \in Assets, Before(a, b)
             PROVE  /\ attempts'[b] # <<>> => answer'[a] # "none"
                    /\ NameOf[a] = NameOf[b] /\ answer'[a] = "ok" =>
                          /\ intents'[b] # NoRecord => Follows(intents[b], a)'
                          /\ \A j \in DOMAIN attempts'[b] :
                                attempts'[b][j].at = "create" =>
                                    Follows(attempts[b][j].record, a)'
  BY <1>8
<1>9. attempts'[b] # <<>> => answer[a] # "none" /\ answer'[a] = answer[a]
  BY <1>2, <1>3, <1>4, <1>6 DEF Descent
<1> SUFFICES ASSUME NameOf[a] = NameOf[b], answer'[a] = "ok"
             PROVE  /\ intents'[b] # NoRecord => Follows(intents[b], a)'
                    /\ \A j \in DOMAIN attempts'[b] :
                          attempts'[b][j].at = "create" =>
                              Follows(attempts[b][j].record, a)'
  BY <1>9
<1>10. CASE attempts'[b] = <<>>
  BY <1>3, <1>6, <1>8, <1>10
<1>11. CASE attempts'[b] # <<>>
  <2>1. answer[a] = "ok" /\ table[a] # {}
    <3>1. a \in Requests /\ a \in Uploads /\ answer[a] = "ok"
      BY <1>6, <1>9, <1>11 DEF Uploads
    <3>2. Published(a)
      BY <3>1 DEF IInv, RowsRight
    <3>3. QED
      BY <3>1, <3>2 DEF Published
  <2>2. View(a)' = View(a)
    BY <1>6, <2>1, ViewKept
  <2>3. \A r : Follows(r, a) => r.updated > View(a)' /\ r.parent # None
    BY <2>2 DEF Follows
  <2>4. /\ intents[b] # NoRecord => Follows(intents[b], a)
        /\ \A j \in DOMAIN attempts[b] :
              attempts[b][j].at = "create" => Follows(attempts[b][j].record, a)
    BY <2>1 DEF Descent
  <2>5. intents'[b] # NoRecord => Follows(intents'[b], a)
    BY <1>5, <2>4
  <2>6. ASSUME NEW j \in DOMAIN attempts'[b], attempts'[b][j].at = "create"
        PROVE  Follows(attempts'[b][j].record, a)
    <3>1. CASE b # u \/ j # i
      BY <1>2, <1>6, <2>4, <2>6, <3>1
    <3>2. CASE b = u /\ j = i
      <4>1. PICK now \in Clock : record = NewRecord(b, now)
        BY <1>1, <1>2, <2>6, <3>2
      <4>2. a \in Named(b)
        BY <2>1 DEF Named
      <4>3. Follows(record, a)
        BY <4>1, <4>2, NewRecordIs DEF IInv
      <4>4. QED
        BY <1>2, <3>2, <4>3
    <3>3. QED
      BY <3>1, <3>2
  <2>7. QED
    BY <2>3, <2>5, <2>6 DEF Follows
<1> QED
  BY <1>10, <1>11

LEMMA SendDescent ==
    ASSUME IInv, Descent, NEW u \in Requests, Send(u)
    PROVE  Descent'
<1>1. UNCHANGED <<answer, intents, table>>
  BY DEF Send, R2, ClickHouse
<1>2. \A v : View(v)' = View(v)
  BY <1>1 DEF View
<1>3. /\ \A v \in Requests : v # u => attempts'[v] = attempts[v]
      /\ attempts'[u] # <<>> /\ DOMAIN attempts[u] \subseteq DOMAIN attempts'[u]
      /\ \A j \in DOMAIN attempts'[u] :
            \/ j \in DOMAIN attempts[u] /\ attempts'[u][j] = attempts[u][j]
            \/ attempts'[u][j].at = "admit"
  BY SendIs DEF IInv
<1>4. \A a \in Assets : Before(a, u) => answer[a] # "none"
  BY DEF Send
<1>5. Assets \subseteq Requests
  BY DEF Requests, Uploads
<1>6. ASSUME NEW b \in Assets
      PROVE  /\ intents'[b] # NoRecord => attempts'[b] # <<>>
             /\ \A a \in Assets : Before(a, b) /\ attempts'[b] # <<>> => answer'[a] # "none"
  BY <1>1, <1>3, <1>4, <1>5 DEF Descent
<1>7. ASSUME NEW a \in Assets, NEW b \in Assets, Before(a, b),
             NameOf[a] = NameOf[b], answer'[a] = "ok"
      PROVE  /\ intents'[b] # NoRecord => Follows(intents[b], a)'
             /\ \A j \in DOMAIN attempts'[b] :
                   attempts'[b][j].at = "create" => Follows(attempts[b][j].record, a)'
  <2>1. /\ intents[b] # NoRecord => Follows(intents[b], a)
        /\ \A j \in DOMAIN attempts[b] :
              attempts[b][j].at = "create" => Follows(attempts[b][j].record, a)
    BY <1>1, <1>7 DEF Descent
  <2>2. \A j \in DOMAIN attempts'[b] : attempts'[b][j].at = "create" =>
            j \in DOMAIN attempts[b] /\ attempts'[b][j] = attempts[b][j]
    BY <1>3, <1>5
  <2>3. QED
    BY <1>1, <1>2, <2>1, <2>2 DEF Follows
<1> QED
  BY <1>6, <1>7 DEF Descent

(* Among assets of one name, each that comes to the database after another *)
(* was answered has a later update time and descends from one, whatever    *)
(* the clocks of the servers show and however often each was attempted.    *)
THEOREM LaterSucceedsAlways == Spec => []LaterSucceeds
<1>1. Init => Descent
  <2> SUFFICES ASSUME Init, NEW b \in Assets
               PROVE  intents[b] = NoRecord /\ attempts[b] = <<>> /\ DOMAIN attempts[b] = {}
                      /\ \A a \in Assets : answer[a] = "none"
    BY DEF Descent
  <2>1. attempts[b] = <<>> /\ \A a \in Assets : answer[a] = "none"
    BY DEF Init, Requests, Uploads
  <2>2. DOMAIN << >> = {}
    OBVIOUS
  <2>3. QED
    BY <2>1, <2>2 DEF Init
<1>2. IInv /\ IInv' /\ Descent /\ [Next]_vars => Descent'
  <2> SUFFICES ASSUME IInv, IInv', Descent, [Next]_vars PROVE Descent'
    OBVIOUS
  <2>1. ASSUME NEW u \in Requests, Send(u)
        PROVE  Descent'
    BY <2>1, SendDescent
  <2>2. ASSUME NEW u \in Requests, NEW i \in DOMAIN attempts[u],
               Handle(u, i) \/ Die(u, i)
        PROVE  Descent'
    BY <2>2, HandleEffects, HandleDescent
  <2>3. CASE Cancel \/ UNCHANGED vars
    <3>1. UNCHANGED <<attempts, answer, intents, table>>
      BY <2>3 DEF Cancel, vars, R2, ClickHouse
    <3>2. \A v : View(v)' = View(v)
      BY <3>1 DEF View
    <3>3. QED
      BY <3>1, <3>2 DEF Descent, Follows
  <2>4. QED
    BY <2>1, <2>2, <2>3 DEF Next
<1>3. IInv /\ Descent => LaterSucceeds
  <2> SUFFICES ASSUME IInv, Descent, NEW a \in Assets, NEW b \in Assets, Before(a, b),
                      NameOf[a] = NameOf[b], answer[a] = "ok", table[b] # {}
               PROVE  View(b) > View(a) /\ intents[b].parent # None
    BY DEF LaterSucceeds, Succeeds
  <2>1. intents[b] # NoRecord
    BY DEF IInv, RowsRight
  <2>2. Follows(intents[b], a)
    BY <2>1 DEF Descent
  <2>3. View(b) = intents[b].updated
    BY ViewIs DEF IInv, Requests, Uploads
  <2>4. QED
    BY <2>2, <2>3 DEF Follows
<1>4. QED
  BY <1>1, <1>2, <1>3, Inductive, PTL DEF Spec

(***************************************************************************)
(* What readers see of a part of a request                                 *)
(***************************************************************************)
(* A part is seen or not, and stays as it is; a step of an attempt touches *)
(* no part but that of its own request in the table that it writes.        *)
LEMMA SeenType ==
    ASSUME TypeOK, RowsRight, NEW p \in Parts
    PROVE  /\ p[2] = "arrays" => p[1] \in Arrays /\ (Seen(p) = 0 <=> arrays[p[1]] = {})
                                /\ (Seen(p) # 0 => Seen(p) = 1)
           /\ p[2] # "arrays" => p[1] \in Uploads \cup Scalars /\ Seen(p) = View(p[1])
                                /\ (Seen(p) = 0 <=> table[p[1]] = {})
<1>1. \/ p[1] \in Arrays /\ p[2] = "arrays"
      \/ p[1] \in Uploads \cup Scalars /\ p[2] = "table"
  BY DEF Parts
<1>2. CASE p[2] = "arrays"
  <2>1. p[1] \in Arrays /\ Seen(p) = Cardinality(arrays[p[1]])
    BY <1>1, <1>2 DEF Seen
  <2>2. arrays[p[1]] = {} \/ \E k : arrays[p[1]] = {k}
    BY <2>1 DEF RowsRight, Metrics
  <2>3. QED
    BY <1>2, <2>1, <2>2, FS_EmptySet, FS_Singleton
<1>3. CASE p[2] # "arrays"
  <2>1. p[1] \in Uploads \cup Scalars /\ Seen(p) = View(p[1]) /\ p[1] \in Requests
    BY <1>1, <1>3 DEF Seen, Requests, Metrics
  <2>2. QED
    BY <1>3, <2>1, ViewType
<1> QED
  BY <1>2, <1>3

LEMMA SeenSame ==
    ASSUME NEW p \in Parts, IF p[2] = "arrays" THEN arrays'[p[1]] = arrays[p[1]]
                                              ELSE table'[p[1]] = table[p[1]]
    PROVE  Seen(p)' = Seen(p)
BY DEF Seen, View

LEMMA SeenKept ==
    ASSUME IInv, IInv', NEW u \in Requests, NEW i \in DOMAIN attempts[u], Effects(u, i),
           NEW p \in Parts, Seen(p) # 0
    PROVE  Seen(p)' = Seen(p)
<1>1. TypeOK /\ RowsRight /\ TypeOK' /\ RowsRight'
  BY DEF IInv
<1>2. CASE p[2] = "arrays"
  <2>1. p[1] \in Arrays /\ arrays[p[1]] # {} /\ Seen(p) = 1
    BY <1>1, <1>2, SeenType
  <2>2. arrays'[p[1]] = arrays[p[1]]
    BY <1>1, <2>1 DEF Effects, TypeOK, Metrics
  <2>3. QED
    BY <1>2, <2>2, SeenSame
<1>3. CASE p[2] # "arrays"
  <2>1. p[1] \in Requests /\ table[p[1]] # {} /\ Seen(p) = View(p[1])
    BY <1>1, <1>3, SeenType DEF Requests, Metrics
  <2>2. View(p[1])' = View(p[1])
    BY <2>1, ViewKept
  <2>3. Seen(p)' = View(p[1])'
    BY <1>3 DEF Seen
  <2>4. QED
    BY <2>1, <2>2, <2>3
<1> QED
  BY <1>2, <1>3

(* To its readers the system is one that publishes each part of a request  *)
(* at most once, and accepts the request only when all of it is there.     *)
THEOREM PublicationImplemented == Spec => ImplementsPublication
<1> DEFINE view == [p \in Parts |-> Seen(p)]
<1>1. Init => P!Init
  <2> SUFFICES ASSUME Init, NEW p \in Parts PROVE Seen(p) = 0
    BY DEF Init, P!Init
  <2>1. IInv
    BY InitRight
  <2>2. table = [u \in Requests |-> {}] /\ arrays = [m \in Metrics |-> {}]
    BY DEF Init
  <2>3. Uploads \cup Scalars \subseteq Requests /\ Arrays \subseteq Metrics
    BY DEF Requests, Metrics
  <2>4. QED
    BY <2>1, <2>2, <2>3, SeenType DEF IInv
<1>2. IInv /\ IInv' /\ [Next]_vars => [P!Next]_(<<view, answer>>)
  <2> SUFFICES ASSUME IInv, IInv', [Next]_vars
               PROVE  P!Next \/ UNCHANGED <<view, answer>>
    OBVIOUS
  <2>1. UNCHANGED ClickHouse => UNCHANGED view
    BY SeenSame DEF ClickHouse
  <2> HIDE DEF view
  <2>2. CASE Cancel \/ UNCHANGED vars
    BY <2>1, <2>2 DEF Cancel, vars, ClickHouse
  <2>3. ASSUME NEW u \in Requests, Send(u)
        PROVE  UNCHANGED <<view, answer>>
    BY <2>1, <2>3 DEF Send
  <2>4. ASSUME NEW u \in Requests, NEW i \in DOMAIN attempts[u],
               Handle(u, i) \/ Die(u, i)
        PROVE  P!Next \/ UNCHANGED <<view, answer>>
    <3>1. Effects(u, i)
      BY <2>4, HandleEffects
    <3>2. CASE answer' # answer
      <4>1. UNCHANGED view /\ answer[u] = "none" /\ NewlyTold(u)
        BY <2>1, <3>1, <3>2 DEF Effects
      <4>2. ASSUME Published(u), NEW p \in Parts, p[1] = u
            PROVE  view[p] # 0
        BY <4>2, SeenType DEF Published, IInv, view
      <4>3. P!Accept(u) \/ P!Refuse(u)
        BY <4>1, <4>2 DEF NewlyTold, P!Accept, P!Refuse, view
      <4>4. QED
        BY <4>3 DEF P!Next
    <3>3. CASE answer' = answer
      <4>1. PICK where \in {"table", "arrays"} :
               \A p \in Parts : p # <<u, where>> => Seen(p)' = Seen(p)
        <5>1. ASSUME NEW p \in Parts, p[1] # u \/ (p[2] = "arrays" /\ arrays' = arrays)
                                              \/ (p[2] = "table" /\ table' = table)
              PROVE  Seen(p)' = Seen(p)
          <6>1. p[1] \in Requests /\ (p[2] = "arrays" => p[1] \in Metrics)
            BY DEF Parts, Requests, Metrics
          <6>2. /\ p[2] = "arrays" => arrays'[p[1]] = arrays[p[1]]
                /\ p[2] # "arrays" => table'[p[1]] = table[p[1]]
            BY <3>1, <5>1, <6>1 DEF Effects, IInv, TypeOK, Parts
          <6>3. QED
            BY <6>2, SeenSame
        <5>2. \A p \in Parts : p = <<p[1], p[2]>> /\ p[2] \in {"table", "arrays"}
          BY DEF Parts
        <5>3. table' = table \/ arrays' = arrays
          BY <3>1 DEF Effects
        <5>4. QED
          BY <5>1, <5>2, <5>3
      <4> DEFINE p == <<u, where>>
      <4>2. CASE p \in Parts /\ Seen(p)' # Seen(p)
        <5>1. Seen(p) = 0
          BY <3>1, <4>2, SeenKept
        <5>2. P!Publish(p)
          BY <3>3, <4>1, <4>2, <5>1 DEF P!Publish, view
        <5>3. QED
          BY <4>2, <5>2 DEF P!Next
      <4>3. CASE p \notin Parts \/ Seen(p)' = Seen(p)
        BY <3>3, <4>1, <4>3 DEF view
      <4>4. QED
        BY <4>2, <4>3
    <3>4. QED
      BY <3>2, <3>3
  <2>5. QED
    BY <2>2, <2>3, <2>4 DEF Next
<1>3. QED
  BY <1>1, <1>2, Inductive, PTL DEF Spec, ImplementsPublication, P!Spec
=============================================================================
