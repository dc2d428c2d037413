-------------------------- MODULE CacheBudgetProofs --------------------------
(***************************************************************************)
(* What holds of the server's disk cache for any entries, writers, sizes,  *)
(* numbers of reservations and limit.                                      *)
(***************************************************************************)
EXTENDS CacheBudget, FiniteSetTheorems, SequenceTheorems, WellFoundedInduction, TLAPS

(***************************************************************************)
(* The inductive invariant: locks and lists                                *)
(***************************************************************************)
JobType == [entry : Entries \cup {None}, state : JobState,
            inode : Inodes \cup {None}, got : Nat]
TodoType == [entry : Entries, size : Nat, loose : SUBSET Loose]
PruneType == [by : Pruners \cup {None},
              step : {"none", "scan", "target", "next", "opened", "remove", "drop"},
              todo : Seq(TodoType), left : Int, kept : SUBSET Loose, target : Int,
              inode : Inodes \cup {None}, since : Int, fresh : SUBSET Loose]

(* Types, where what is counted may be any integer yet.                    *)
Shape ==
    /\ file \in [Entries -> Nat] /\ age \in Seq(Entries)
    /\ loose \in SUBSET Loose /\ unseen \in SUBSET Loose
    /\ lockFile \in [Entries -> Inodes \cup {None}]
    /\ owner \in [Inodes -> Pruners \cup {None}]
    /\ used \in Int /\ reserved \in Int /\ missed \in Int /\ jobs \in 0 .. Jobs
    /\ job \in [Writers -> JobType] /\ prune \in PruneType

Distinct(s) == \A i, j \in DOMAIN s : s[i] = s[j] => i = j

(* A job with a lock owns the inode it has open, and has all reservations  *)
(* of its entry once it writes.                                            *)
JobRight(w) ==
    /\ job[w].state # "idle" => job[w].entry \in Entries
    /\ job[w].state \in {"idle", "missing", "opened", "report", "input", "unlock"} => job[w].got = 0
    /\ job[w].state = "write" => job[w].got = Chunks[job[w].entry]
    /\ job[w].state = "opened" \/ Locked(w) => job[w].inode \in Inodes
    /\ Locked(w) => owner[job[w].inode] = w

FilesRight == \A e \in Entries : file[e] \in {0, Size(e)}

(* The prune has the victim's lock file open until it removes it, and locks*)
(* an inode that no job holds; a file it has listed and not removed is     *)
(* there, since nobody else removes any.                                   *)
PruneRight ==
    /\ prune.by = None <=> prune.step = "none"
    /\ prune.by \in Writers => job[prune.by].state = "full"
    /\ prune.step \in {"opened", "remove", "drop"} => prune.todo # <<>> /\ prune.inode \in Inodes
    /\ prune.step \in {"opened", "remove"} => lockFile[Victim] = prune.inode
    /\ prune.step \in {"remove", "drop"} =>
           /\ owner[prune.inode] = prune.by
           /\ \A w \in Writers : Locked(w) => job[w].inode # prune.inode
    /\ \A i, j \in DOMAIN prune.todo : prune.todo[i].entry = prune.todo[j].entry => i = j
    /\ \A i \in DOMAIN prune.todo :
           \/ prune.todo[i].size = 0
           \/ prune.step = "drop" /\ i = 1
           \/ file[prune.todo[i].entry] = prune.todo[i].size

Structure ==
    /\ Shape /\ Distinct(age) /\ FilesRight /\ PruneRight
    /\ \A w \in Writers : JobRight(w)

(***************************************************************************)
(* The inductive invariant: bytes                                          *)
(***************************************************************************)
Kept == [w \in Writers |-> Held(w)]
Files == Cardinality(Bytes(file))
Parts == Cardinality(Bytes(Part))
Keeps == Cardinality(Bytes(Kept))
Listed == UNION {{prune.todo[i].entry} \X (1 .. prune.todo[i].size) : i \in DOMAIN prune.todo}
Scanned == prune.step \notin {"none", "scan"}
Leaving == IF prune.step = "drop" THEN Head(prune.todo).size ELSE 0

(* What a scan counts and what a prune has of it.                          *)
LooseRight ==
    /\ Scanned => loose \ prune.fresh \subseteq prune.kept
    /\ prune.step = "drop" => Head(prune.todo).loose \cap loose \subseteq prune.fresh

Seen == Weight(loose \ unseen)

(* A prune that has scanned will overwrite the count with what is left of  *)
(* its scan; that and what ended since covers the disk as well.            *)
Counted ==
    /\ used \in Nat /\ missed \in Nat /\ prune.left \in Nat /\ prune.since \in Nat
    /\ prune.target \in Nat
    /\ reserved = Keeps
    /\ Files + Parts + Seen <= used + reserved + missed
    /\ ~Scanned => prune.since = 0
    /\ Scanned => Files + Parts + Leaving <= prune.left + reserved + prune.since
    /\ IsFiniteSet(Listed) /\ Cardinality(Listed) <= prune.left
    /\ reserved <= Limit /\ prune.since + reserved <= Limit
    /\ prune.since <= used /\ missed <= Limit
    /\ Files + Parts <= 2 * Limit

IInv == Structure /\ LooseRight /\ Counted

(***************************************************************************)
(* Lemmas about numbers, lists and bytes                                   *)
(***************************************************************************)
LEMMA MinIs ==
    ASSUME NEW S \in SUBSET Nat, S # {}
    PROVE  Min(S) \in S
<1>1. PICK n \in S : \A k \in S : ~ (<<k, n>> \in OpToRel(<, Nat))
  BY WFMin, NatLessThanWellFounded
<1>2. \A k \in S : ~ (k < n)
  BY <1>1 DEF OpToRel
<1>3. \E x \in S : \A y \in S : x <= y
  BY <1>2
<1> QED
  BY <1>3 DEF Min

LEMMA Sizes ==
    ASSUME NEW e \in Entries
    PROVE  Chunk[e] \in Nat /\ Chunks[e] \in Nat /\ Size(e) \in Nat \ {0}
<1>1. Chunk[e] \in Nat \ {0} /\ Chunks[e] \in Nat \ {0}
  BY CacheAssumption
<1>2. \A a, b \in Nat \ {0} : a * b \in Nat \ {0}
  OBVIOUS
<1> QED
  BY <1>1, <1>2 DEF Size

(* The position of an entry in a list.                                     *)
LEMMA PlaceIs ==
    ASSUME NEW s \in Seq(Entries), NEW e, \E i \in 1 .. Len(s) : s[i] = e
    PROVE  SelectInSeq(s, LAMBDA v : v = e) \in {i \in 1 .. Len(s) : s[i] = e}
<1> DEFINE I == {i \in 1 .. Len(s) : s[i] = e}
<1>1. I \in SUBSET Nat /\ I # {}
  OBVIOUS
<1>2. SelectInSeq(s, LAMBDA v : v = e) = Min(I)
  BY <1>1 DEF SelectInSeq
<1> HIDE DEF I
<1>3. Min(I) \in I
  BY <1>1, MinIs
<1> QED
  BY <1>2, <1>3 DEF I

(* A list of different entries without one of them.                        *)
LEMMA RemoveFirstIs ==
    ASSUME NEW s \in Seq(Entries), Distinct(s), NEW e
    PROVE  /\ RemoveFirst(s, e) \in Seq(Entries) /\ Distinct(RemoveFirst(s, e))
           /\ \A i \in DOMAIN RemoveFirst(s, e) : RemoveFirst(s, e)[i] # e
<1> PICK t : t = RemoveFirst(s, e)
  OBVIOUS
<1>1. CASE ~ \E i \in 1 .. Len(s) : s[i] = e
  <2>1. t = s
    BY <1>1 DEF RemoveFirst
  <2>2. DOMAIN s = 1 .. Len(s)
    OBVIOUS
  <2>3. QED
    BY <1>1, <2>1, <2>2
<1>2. CASE \E i \in 1 .. Len(s) : s[i] = e
  <2> PICK k : k = SelectInSeq(s, LAMBDA v : v = e)
    OBVIOUS
  <2>1. k \in 1 .. Len(s) /\ s[k] = e
    BY <1>2, PlaceIs
  <2> PICK a, b : a = SubSeq(s, 1, k - 1) /\ b = SubSeq(s, k + 1, Len(s))
    OBVIOUS
  <2>2. t = a \o b
    BY <1>2 DEF RemoveFirst, RemoveAt
  <2>3. Len(s) \in Nat /\ DOMAIN s = 1 .. Len(s) /\ \A i \in 1 .. Len(s) : s[i] \in Entries
    OBVIOUS
  <2> PICK n \in Nat : n = Len(s)
    BY <2>3
  <2>01. k \in Nat /\ k > 0 /\ k <= n
    BY ONLY <2>1, n = Len(s), n \in Nat
  <2>02. k - 1 \in Nat /\ k - 1 < n /\ k = (k - 1) + 1
    BY ONLY <2>01, n \in Nat
  <2> PICK m \in Nat : m = k - 1 /\ m < n /\ k = m + 1
    BY <2>02
  <2>4. a \in Seq(Entries) /\ Len(a) = m /\ \A i \in 1 .. m : a[i] = s[i]
    <3>1. \A i \in 1 .. m : s[i] \in Entries
      BY <2>3
    <3>2. /\ SubSeq(s, 1, m) \in Seq(Entries)
          /\ Len(SubSeq(s, 1, m)) = IF 1 <= m THEN m - 1 + 1 ELSE 0
          /\ \A i \in 1 .. m - 1 + 1 : SubSeq(s, 1, m)[i] = s[1 + i - 1]
      BY ONLY <3>1, SubSeqProperties, m \in Nat
    <3>3. \A i \in 1 .. m : i \in 1 .. m - 1 + 1 /\ 1 + i - 1 = i
      OBVIOUS
    <3>4. Len(SubSeq(s, 1, m)) = m
      BY ONLY <3>2, m \in Nat
    <3>5. QED
      BY <3>2, <3>3, <3>4
  <2>5. b \in Seq(Entries) /\ Len(b) = n - k /\ \A i \in 1 .. n - k : b[i] = s[k + i]
    <3>1. \A i \in m + 2 .. n : s[i] \in Entries
      BY <2>3
    <3>2. /\ SubSeq(s, m + 2, n) \in Seq(Entries)
          /\ Len(SubSeq(s, m + 2, n)) = IF m + 2 <= n THEN n - (m + 2) + 1 ELSE 0
          /\ \A i \in 1 .. n - (m + 2) + 1 : SubSeq(s, m + 2, n)[i] = s[(m + 2) + i - 1]
      BY ONLY <3>1, SubSeqProperties, m \in Nat, n \in Nat
    <3>3. \A i \in 1 .. n - k : i \in 1 .. n - (m + 2) + 1 /\ (m + 2) + i - 1 = k + i
      OBVIOUS
    <3>4. b = SubSeq(s, m + 2, n)
      <4>1. k + 1 = m + 2
        BY ONLY k = m + 1, m \in Nat
      <4>2. QED
        BY ONLY <4>1, n = Len(s), b = SubSeq(s, k + 1, Len(s))
    <3>5. Len(SubSeq(s, m + 2, n)) = n - k
      BY ONLY <3>2, m \in Nat, n \in Nat, m < n, k = m + 1
    <3>6. QED
      BY <3>2, <3>3, <3>4, <3>5
  <2>6. /\ t \in Seq(Entries) /\ Len(t) = n - 1 /\ DOMAIN t = 1 .. n - 1
        /\ \A i \in 1 .. n - 1 : t[i] = IF i <= m THEN a[i] ELSE b[i - m]
    <3>1. /\ a \o b \in Seq(Entries) /\ Len(a \o b) = Len(a) + Len(b)
          /\ \A i \in 1 .. Len(a) + Len(b) :
                (a \o b)[i] = IF i <= Len(a) THEN a[i] ELSE b[i - Len(a)]
      <4>1. a \in Seq(Entries) /\ b \in Seq(Entries)
        BY <2>4, <2>5
      <4>2. QED
        BY ONLY <4>1, ConcatProperties
    <3>2. Len(a) + Len(b) = n - 1 /\ Len(a) = m
      BY ONLY <2>4, <2>5, m \in Nat, n \in Nat, k = m + 1
    <3>3. DOMAIN (a \o b) = 1 .. Len(a) + Len(b)
      BY ONLY <3>1
    <3>4. QED
      BY ONLY <2>2, <3>1, <3>2, <3>3
  <2>7. \A i \in 1 .. n - 1 : t[i] = s[IF i < k THEN i ELSE i + 1]
    <3> TAKE i \in 1 .. n - 1
    <3>1. CASE i < k
      <4>1. i \in 1 .. m /\ i <= m
        BY ONLY <3>1, k = m + 1, m \in Nat, n \in Nat, i \in 1 .. n - 1
      <4>2. QED
        BY <2>4, <2>6, <3>1, <4>1
    <3>2. CASE ~(i < k)
      <4>1. i - m \in 1 .. n - k /\ ~(i <= m) /\ k + (i - m) = i + 1
        BY <3>2
      <4>2. QED
        BY <2>5, <2>6, <3>2, <4>1
    <3>3. QED
      BY <3>1, <3>2
  <2>8. Distinct(t)
    <3> SUFFICES ASSUME NEW i \in DOMAIN t, NEW j \in DOMAIN t, t[i] = t[j]
                 PROVE  i = j
      BY DEF Distinct
    <3> PICK x, y : x = (IF i < k THEN i ELSE i + 1) /\ y = (IF j < k THEN j ELSE j + 1)
      OBVIOUS
    <3>1. x \in 1 .. Len(s) /\ y \in 1 .. Len(s) /\ (x = y => i = j)
      <4>1. i \in 1 .. n - 1 /\ j \in 1 .. n - 1
        BY <2>6
      <4>2. x \in 1 .. n /\ y \in 1 .. n /\ (x = y => i = j)
        BY ONLY <2>01, <4>1, n \in Nat, x = (IF i < k THEN i ELSE i + 1),
                y = (IF j < k THEN j ELSE j + 1)
      <4>3. QED
        BY <4>2
    <3>2. s[x] = s[y]
      BY <2>6, <2>7
    <3>3. x = y
      BY <2>3, <3>1, <3>2 DEF Distinct
    <3>4. QED
      BY <3>1, <3>3
  <2>9. ASSUME NEW i \in DOMAIN t
        PROVE  t[i] # e
    <3> PICK x : x = (IF i < k THEN i ELSE i + 1)
      OBVIOUS
    <3>1. x \in 1 .. Len(s) /\ x # k
      BY <2>1, <2>3, <2>6
    <3>2. s[x] # s[k]
      BY <2>1, <2>3, <3>1 DEF Distinct
    <3>3. QED
      BY <2>1, <2>6, <2>7, <3>2
  <2>10. QED
    BY <2>6, <2>8, <2>9
<1> QED
  BY <1>1, <1>2

(* A file that is written becomes the newest.                              *)
LEMMA TouchedIs ==
    ASSUME age \in Seq(Entries), Distinct(age), NEW e \in Entries
    PROVE  /\ Touched(e) \in Seq(Entries) /\ Distinct(Touched(e))
           /\ Without(e) \in Seq(Entries) /\ Distinct(Without(e))
<1> PICK s : s = Without(e)
  OBVIOUS
<1>1. s \in Seq(Entries) /\ Distinct(s) /\ \A i \in DOMAIN s : s[i] # e
  BY RemoveFirstIs DEF Without
<1>2. /\ Append(s, e) \in Seq(Entries) /\ Len(Append(s, e)) = Len(s) + 1
      /\ \A i \in 1 .. Len(s) : Append(s, e)[i] = s[i] /\ Append(s, e)[Len(s) + 1] = e
  BY <1>1, AppendProperties
<1>3. Len(s) \in Nat /\ DOMAIN s = 1 .. Len(s) /\ DOMAIN Append(s, e) = 1 .. Len(s) + 1
  BY <1>1, <1>2
<1>4. Append(s, e)[Len(s) + 1] = e
  BY <1>1
<1>5. Distinct(Append(s, e))
  BY <1>1, <1>2, <1>3, <1>4 DEF Distinct
<1> QED
  BY <1>1, <1>2, <1>5 DEF Touched

LEMMA UnitsOfOne ==
    ASSUME NEW x, NEW n \in Nat
    PROVE  IsFiniteSet({x} \X (1 .. n)) /\ Cardinality({x} \X (1 .. n)) = n
<1>1. IsFiniteSet({x}) /\ Cardinality({x}) = 1
  BY FS_Singleton
<1>2. IsFiniteSet(1 .. n) /\ Cardinality(1 .. n) = n
  BY FS_Interval
<1>3. /\ IsFiniteSet({x} \X (1 .. n))
      /\ Cardinality({x} \X (1 .. n)) = Cardinality({x}) * Cardinality(1 .. n)
  BY <1>1, <1>2, FS_Product
<1> QED
  BY <1>1, <1>2, <1>3

(* The bytes of finitely many files can be counted.                        *)
LEMMA BytesFinite ==
    ASSUME NEW S, IsFiniteSet(S), NEW f \in [S -> Nat]
    PROVE  IsFiniteSet(Bytes(f)) /\ Cardinality(Bytes(f)) \in Nat
<1> DEFINE T == {{x} \X (1 .. f[x]) : x \in S}
           g == [x \in S |-> {x} \X (1 .. f[x])]
<1>1. g \in Surjection(S, T)
  BY DEF Surjection
<1>2. IsFiniteSet(T)
  <2> HIDE DEF g, T
  <2> QED
    BY <1>1, FS_Surjection
<1>3. ASSUME NEW U \in T
      PROVE  IsFiniteSet(U)
  <2>1. PICK x \in S : U = {x} \X (1 .. f[x])
    OBVIOUS
  <2>2. f[x] \in Nat
    OBVIOUS
  <2>3. QED
    BY <2>1, <2>2, UnitsOfOne
<1>4. Bytes(f) = UNION T
  BY DEF Bytes
<1>5. IsFiniteSet(UNION T)
  <2> HIDE DEF T
  <2> QED
    BY <1>2, <1>3, FS_UNION
<1> QED
  BY <1>4, <1>5, FS_CardinalityType

(* One file becomes longer or shorter.                                     *)
LEMMA BytesChange ==
    ASSUME NEW S, IsFiniteSet(S), NEW f \in [S -> Nat], NEW x \in S, NEW n \in Nat,
           NEW g, g = [f EXCEPT ![x] = n]
    PROVE  Cardinality(Bytes(g)) = Cardinality(Bytes(f)) - f[x] + n
<1> PICK U, V, R : /\ U = {x} \X (1 .. f[x]) /\ V = {x} \X (1 .. n)
                   /\ R = UNION {{y} \X (1 .. f[y]) : y \in S \ {x}}
  OBVIOUS
<1>1. f[x] \in Nat /\ g \in [S -> Nat]
  OBVIOUS
<1>2. Bytes(f) = R \cup U /\ R \cap U = {}
  BY DEF Bytes
<1>3. Bytes(g) = R \cup V /\ R \cap V = {}
  BY DEF Bytes
<1>4. IsFiniteSet(U) /\ Cardinality(U) = f[x] /\ IsFiniteSet(V) /\ Cardinality(V) = n
  BY <1>1, UnitsOfOne
<1>5. IsFiniteSet(R) /\ Cardinality(R) \in Nat
  <2>1. IsFiniteSet(Bytes(f)) /\ R \subseteq Bytes(f)
    BY <1>2, BytesFinite
  <2>2. QED
    BY <2>1, FS_Subset, FS_CardinalityType
<1>6. Cardinality({}) = 0
  BY FS_EmptySet
<1>7. Cardinality(R \cup U) = Cardinality(R) + Cardinality(U) - Cardinality(R \cap U)
  BY <1>4, <1>5, FS_Union
<1>8. Cardinality(R \cup V) = Cardinality(R) + Cardinality(V) - Cardinality(R \cap V)
  BY <1>4, <1>5, FS_Union
<1>9. Cardinality(Bytes(f)) = Cardinality(R) + f[x]
  <2>1. Cardinality(R \cap U) = 0 /\ Cardinality(Bytes(f)) = Cardinality(R \cup U)
    BY <1>2, <1>6
  <2>2. QED
    BY <1>1, <1>4, <1>5, <1>7, <2>1
<1>10. Cardinality(Bytes(g)) = Cardinality(R) + n
  <2>1. Cardinality(R \cap V) = 0 /\ Cardinality(Bytes(g)) = Cardinality(R \cup V)
    BY <1>3, <1>6
  <2>2. QED
    BY <1>4, <1>5, <1>8, <2>1
<1> QED
  BY <1>1, <1>5, <1>9, <1>10

LEMMA BytesZero ==
    ASSUME NEW S, NEW f \in [S -> Nat], \A x \in S : f[x] = 0
    PROVE  Cardinality(Bytes(f)) = 0
<1>1. Bytes(f) = {}
  BY DEF Bytes
<1> QED
  BY <1>1, FS_EmptySet

(* Loose files can be counted; more of them weigh more.                    *)
LEMMA WeightIs ==
    ASSUME NEW T \in SUBSET Loose, NEW S \in SUBSET T
    PROVE  /\ Weight(T) \in Nat /\ Weight(S) \in Nat
           /\ Weight(S) <= Weight(T)
<1>1. ASSUME NEW E, E \subseteq Entries, NEW kind
      PROVE  IsFiniteSet({<<e, kind>> : e \in E})
  <2> DEFINE g == [e \in E |-> <<e, kind>>]
             P == {<<e, kind>> : e \in E}
  <2>1. IsFiniteSet(E)
    BY <1>1, CacheAssumption, FS_Subset
  <2>2. g \in Surjection(E, P)
    BY DEF Surjection
  <2> HIDE DEF g, P
  <2>3. IsFiniteSet(P)
    BY <2>1, <2>2, FS_Surjection
  <2>4. QED
    BY <2>3 DEF P
<1>2. IsFiniteSet(Loose)
  <2> PICK A, B, C : /\ A = {<<e, "error">> : e \in Reporting}
                     /\ B = {<<e, "ready">> : e \in Plans} /\ C = {<<e, "json">> : e \in Inputs}
    OBVIOUS
  <2>0. Reporting \subseteq Entries /\ Plans \subseteq Entries /\ Inputs \subseteq Entries
    BY CacheAssumption DEF Reporting
  <2>1. IsFiniteSet(A) /\ IsFiniteSet(B) /\ IsFiniteSet(C)
    BY ONLY <1>1, <2>0, A = {<<e, "error">> : e \in Reporting},
            B = {<<e, "ready">> : e \in Plans}, C = {<<e, "json">> : e \in Inputs}
  <2>2. Loose = (A \cup B) \cup C
    BY DEF Loose, Error, Ready, Json
  <2>3. IsFiniteSet(A \cup B)
    BY <2>1, FS_Union
  <2>4. QED
    BY <2>1, <2>2, <2>3, FS_Union
<1> PICK f, g : f = [x \in T |-> Small[x]] /\ g = [x \in S |-> Small[x]]
  OBVIOUS
<1>3. IsFiniteSet(T) /\ IsFiniteSet(S)
  BY <1>2, FS_Subset
<1>4. f \in [T -> Nat] /\ g \in [S -> Nat]
  BY CacheAssumption
<1>5. /\ IsFiniteSet(Bytes(f)) /\ Cardinality(Bytes(f)) \in Nat
      /\ IsFiniteSet(Bytes(g)) /\ Cardinality(Bytes(g)) \in Nat
  BY <1>3, <1>4, BytesFinite
<1>6. Bytes(g) \subseteq Bytes(f)
  BY DEF Bytes
<1>7. Cardinality(Bytes(g)) <= Cardinality(Bytes(f))
  BY <1>5, <1>6, FS_Subset
<1> QED
  BY <1>5, <1>7 DEF Weight

(* There is always an inode for a new lock file.                           *)
LEMMA Image ==
    ASSUME NEW S, IsFiniteSet(S), NEW f, NEW T, f \in [S -> T]
    PROVE  /\ IsFiniteSet({f[x] : x \in S})
           /\ Cardinality({f[x] : x \in S}) <= Cardinality(S)
<1> DEFINE R == {f[x] : x \in S}
<1>1. f \in Surjection(S, R)
  BY DEF Surjection
<1> HIDE DEF R
<1>2. IsFiniteSet(R) /\ Cardinality(R) <= Cardinality(S)
  BY <1>1, FS_Surjection
<1> QED
  BY <1>2 DEF R
LEMMA InodeIs ==
    ASSUME Shape, NEW e \in Entries
    PROVE  LockInode(e) \in Inodes
<1> PICK c, d : c = Cardinality(Entries) /\ d = Cardinality(Writers)
  OBVIOUS
<1>1. /\ IsFiniteSet(Entries) /\ IsFiniteSet(Writers) /\ c \in Nat /\ d \in Nat
      /\ Inodes = 1 .. c + d + 1
  BY CacheAssumption, FS_CardinalityType DEF Inodes
<1>2. CASE lockFile[e] # None
  BY <1>2 DEF Shape, LockInode
<1>3. CASE lockFile[e] = None
  <2> DEFINE P == {lockFile[x] : x \in Entries}
             f == [w \in Writers |-> job[w].inode]
             Q == {f[w] : w \in Writers}
             R == {prune.inode}
  <2>1. IsFiniteSet(P) /\ Cardinality(P) <= c
    <3>1. lockFile \in [Entries -> Inodes \cup {None}]
      BY DEF Shape
    <3>2. /\ IsFiniteSet({lockFile[x] : x \in Entries})
          /\ Cardinality({lockFile[x] : x \in Entries}) <= Cardinality(Entries)
      BY ONLY <1>1, <3>1, Image
    <3>3. QED
      BY <3>2
  <2>2. IsFiniteSet(Q) /\ Cardinality(Q) <= d
    <3>1. f \in [Writers -> Q]
      OBVIOUS
    <3> HIDE DEF f
    <3>2. IsFiniteSet({f[w] : w \in Writers}) /\ Cardinality({f[w] : w \in Writers}) <= d
      BY <1>1, <3>1, Image
    <3>3. QED
      BY <3>2
  <2>3. IsFiniteSet(R) /\ Cardinality(R) = 1
    BY FS_Singleton
  <2>4. InUse = (P \cup Q) \cup R /\ None \in P
    BY <1>3 DEF InUse
  <2> HIDE DEF P, Q, R
  <2>5. ASSUME NEW A, NEW B, IsFiniteSet(A), IsFiniteSet(B)
        PROVE  /\ IsFiniteSet(A \cup B) /\ Cardinality(A) \in Nat /\ Cardinality(B) \in Nat
               /\ Cardinality(A \cup B) \in Nat
               /\ Cardinality(A \cup B) <= Cardinality(A) + Cardinality(B)
    <3>1. /\ IsFiniteSet(A \cup B) /\ IsFiniteSet(A \cap B)
          /\ Cardinality(A \cup B) = Cardinality(A) + Cardinality(B) - Cardinality(A \cap B)
      BY <2>5, FS_Union, FS_Intersection
    <3>2. /\ Cardinality(A) \in Nat /\ Cardinality(B) \in Nat /\ Cardinality(A \cap B) \in Nat
          /\ Cardinality(A \cup B) \in Nat
      BY <2>5, <3>1, FS_CardinalityType
    <3>3. QED
      BY <3>1, <3>2
  <2>6. IsFiniteSet(InUse) /\ Cardinality(InUse) \in Nat /\ Cardinality(InUse) <= c + d + 1
    <3>1. /\ IsFiniteSet(P \cup Q) /\ Cardinality(P \cup Q) \in Nat
          /\ Cardinality(P \cup Q) <= Cardinality(P) + Cardinality(Q)
          /\ Cardinality(P) \in Nat /\ Cardinality(Q) \in Nat
      BY <2>1, <2>2, <2>5
    <3>2. /\ IsFiniteSet(InUse) /\ Cardinality(InUse) \in Nat
          /\ Cardinality(InUse) <= Cardinality(P \cup Q) + Cardinality(R)
      BY <2>3, <2>4, <2>5, <3>1
    <3>3. QED
      BY <1>1, <2>1, <2>2, <2>3, <3>1, <3>2
  <2>7. IsFiniteSet(0 .. c + d + 1) /\ Cardinality(0 .. c + d + 1) = c + d + 2
    <3> PICK n \in Nat : n = c + d + 1
      BY <1>1
    <3>1. IsFiniteSet(0 .. n) /\ Cardinality(0 .. n) = n + 1
      BY FS_Interval
    <3>2. n + 1 = c + d + 2
      BY ONLY n = c + d + 1, <1>1
    <3>3. QED
      BY <3>1, <3>2
  <2>8. Inodes \ InUse # {}
    <3> SUFFICES ASSUME Inodes \subseteq InUse
                 PROVE  FALSE
      OBVIOUS
    <3>1. 0 .. c + d + 1 \subseteq InUse
      BY <1>1, <2>4 DEF None
    <3>2. Cardinality(0 .. c + d + 1) <= Cardinality(InUse)
      BY <2>6, <3>1, FS_Subset
    <3>3. QED
      BY <1>1, <2>6, <2>7, <3>2
  <2>9. Inodes \ InUse \in SUBSET Nat
    BY <1>1
  <2>10. QED
    BY <1>3, <2>8, <2>9, MinIs DEF LockInode
<1> QED
  BY <1>2, <1>3

LEMMA OpenLockIs ==
    ASSUME Shape, Distinct(age), NEW e \in Entries, OpenLock(e)
    PROVE  /\ LockInode(e) \in Inodes
           /\ lockFile' \in [Entries -> Inodes \cup {None}] /\ lockFile'[e] = LockInode(e)
           /\ \A x \in Entries : lockFile[x] # None => lockFile'[x] = lockFile[x]
           /\ age' \in Seq(Entries) /\ Distinct(age')
<1>1. LockInode(e) \in Inodes
  BY InodeIs
<1>2. /\ lockFile' \in [Entries -> Inodes \cup {None}] /\ lockFile'[e] = LockInode(e)
      /\ \A x \in Entries : lockFile[x] # None => lockFile'[x] = lockFile[x]
  BY <1>1 DEF OpenLock, Shape, LockInode
<1>3. age' \in Seq(Entries) /\ Distinct(age')
  <2>1. age \in Seq(Entries)
    BY DEF Shape
  <2>2. Touched(e) \in Seq(Entries) /\ Distinct(Touched(e))
    BY <2>1, TouchedIs
  <2>3. age' = age \/ age' = Touched(e)
    BY DEF OpenLock
  <2>4. CASE age' = age
    BY <2>1, <2>4
  <2>5. CASE age' = Touched(e)
    BY <2>2, <2>5
  <2>6. QED
    BY <2>3, <2>4, <2>5
<1> QED
  BY <1>1, <1>2, <1>3

LEMMA NoneIs ==
    /\ None \notin Inodes /\ None \notin Entries /\ None \notin Pruners /\ None \notin Writers
    /\ \A w \in Writers : w \in Pruners
<1>1. None \notin Inodes
  BY DEF None, Inodes
<1> QED
  BY <1>1, CacheAssumption DEF Pruners

LEMMA HeldIs ==
    ASSUME Structure, NEW w \in Writers
    PROVE  /\ Held(w) \in Nat
           /\ job[w].got = 0 => Held(w) = 0
           /\ job[w].state # "idle" =>
                 /\ job[w].entry \in Entries
                 /\ Held(w) = job[w].got * Chunk[job[w].entry]
           /\ job[w].state = "write" => Held(w) = Size(job[w].entry)
<1>1. /\ job[w] \in JobType /\ JobRight(w)
  BY DEF Structure, Shape
<1> PICK e, g : e = job[w].entry /\ g = job[w].got
  OBVIOUS
<1>2. g \in Nat
  BY <1>1 DEF JobType
<1>3. g # 0 => e \in Entries
  BY <1>1 DEF JobRight
<1>4. g # 0 => g * Chunk[e] \in Nat
  <2> SUFFICES ASSUME g # 0
               PROVE  g * Chunk[e] \in Nat
    OBVIOUS
  <2>1. Chunk[e] \in Nat
    BY <1>3, Sizes
  <2>2. \A a, b \in Nat : a * b \in Nat
    OBVIOUS
  <2>3. QED
    BY <1>2, <2>1, <2>2
<1>5. Held(w) \in Nat /\ (g = 0 => Held(w) = 0)
  BY <1>4 DEF Held
<1>6. ASSUME job[w].state # "idle"
      PROVE  e \in Entries /\ Held(w) = g * Chunk[e]
  <2>1. e \in Entries /\ Chunk[e] \in Nat
    BY <1>1, <1>6, Sizes DEF JobRight
  <2>2. \A a \in Nat : 0 * a = 0
    OBVIOUS
  <2>3. g = 0 => g * Chunk[e] = 0
    BY <2>1, <2>2
  <2>4. QED
    BY <2>1, <2>3 DEF Held
<1>7. ASSUME job[w].state = "write"
      PROVE  Held(w) = Size(e)
  <2>1. g = Chunks[e] /\ e \in Entries /\ Held(w) = g * Chunk[e]
    BY <1>1, <1>6, <1>7 DEF JobRight
  <2>2. Chunk[e] \in Nat /\ Chunks[e] \in Nat
    BY <2>1, Sizes
  <2>3. \A a, b \in Nat : a * b = b * a
    OBVIOUS
  <2>4. QED
    BY <2>1, <2>2, <2>3 DEF Size
<1> QED
  BY <1>5, <1>6, <1>7
(***************************************************************************)
(* Every step keeps the locks and lists right                              *)
(***************************************************************************)
LEMMA VictimIs ==
    ASSUME Shape, prune.todo # <<>>
    PROVE  /\ 1 \in DOMAIN prune.todo /\ Head(prune.todo) = prune.todo[1]
           /\ Victim = prune.todo[1].entry /\ Victim \in Entries
           /\ prune.todo[1].size \in Nat /\ prune.todo[1].loose \in SUBSET Loose
<1>1. prune.todo \in Seq(TodoType)
  BY DEF Shape, PruneType
<1>2. 1 \in DOMAIN prune.todo /\ Head(prune.todo) = prune.todo[1]
  BY <1>1
<1>3. prune.todo[1] \in TodoType
  <2>1. 1 \in 1 .. Len(prune.todo)
    BY <1>1, <1>2
  <2>2. QED
    BY ONLY <1>1, <2>1, ElementOfSeq
<1> QED
  BY <1>2, <1>3 DEF Victim, TodoType

LEMMA TodoIs ==
    ASSUME Shape, NEW i \in DOMAIN prune.todo
    PROVE  /\ prune.todo[i].entry \in Entries /\ prune.todo[i].size \in Nat
           /\ prune.todo[i].loose \in SUBSET Loose
<1>1. prune.todo \in Seq(TodoType)
  BY DEF Shape, PruneType
<1>2. prune.todo[i] \in TodoType
  <2>1. i \in 1 .. Len(prune.todo)
    BY <1>1
  <2>2. QED
    BY ONLY <1>1, <2>1, ElementOfSeq
<1> QED
  BY <1>2 DEF TodoType

(* What a job may do while the prune is at the same place.                 *)
LEMMA PruneStays ==
    ASSUME Structure,
           prune'.by = prune.by, prune'.step = prune.step, prune'.todo = prune.todo,
           prune'.inode = prune.inode,
           \A w \in Writers : prune.by = w => job'[w].state = job[w].state,
           \A e \in Entries : lockFile[e] # None => lockFile'[e] = lockFile[e],
           prune.step \in {"remove", "drop"} =>
               /\ owner'[prune.inode] = owner[prune.inode]
               /\ \A w \in Writers : Locked(w)' => job'[w].inode # prune.inode,
           \A e \in Entries : file[e] # 0 => file'[e] = file[e]
    PROVE  PruneRight'
<1>1. /\ PruneRight /\ Shape
  BY DEF Structure
<1>2. (prune.by = None <=> prune.step = "none")'
  BY <1>1 DEF PruneRight
<1>3. (prune.by \in Writers => job[prune.by].state = "full")'
  BY <1>1 DEF PruneRight
<1>4. (prune.step \in {"opened", "remove", "drop"} => prune.todo # <<>> /\ prune.inode \in Inodes)'
  BY <1>1 DEF PruneRight
<1>5. (prune.step \in {"opened", "remove"} => lockFile[Victim] = prune.inode)'
  <2> SUFFICES ASSUME prune'.step \in {"opened", "remove"}
               PROVE  lockFile'[Victim'] = prune'.inode
    OBVIOUS
  <2>1. /\ prune.todo # <<>> /\ prune.inode \in Inodes /\ lockFile[Victim] = prune.inode
    BY <1>1 DEF PruneRight
  <2>2. Victim' = Victim /\ Victim \in Entries
    BY <1>1, <2>1, VictimIs DEF Victim
  <2>3. QED
    BY <2>1, <2>2, NoneIs
<1>6. (prune.step \in {"remove", "drop"} =>
           /\ owner[prune.inode] = prune.by
           /\ \A w \in Writers : Locked(w) => job[w].inode # prune.inode)'
  BY <1>1 DEF PruneRight
<1>7. (\A i, j \in DOMAIN prune.todo : prune.todo[i].entry = prune.todo[j].entry => i = j)'
  BY <1>1 DEF PruneRight
<1>8. (\A i \in DOMAIN prune.todo :
           \/ prune.todo[i].size = 0
           \/ prune.step = "drop" /\ i = 1
           \/ file[prune.todo[i].entry] = prune.todo[i].size)'
  <2> SUFFICES ASSUME NEW i \in DOMAIN prune.todo
               PROVE  \/ prune.todo[i].size = 0
                      \/ prune.step = "drop" /\ i = 1
                      \/ file'[prune.todo[i].entry] = prune.todo[i].size
    OBVIOUS
  <2>1. prune.todo[i].entry \in Entries
    BY <1>1, TodoIs
  <2>2. \/ prune.todo[i].size = 0
        \/ prune.step = "drop" /\ i = 1
        \/ file[prune.todo[i].entry] = prune.todo[i].size
    BY <1>1 DEF PruneRight
  <2>3. QED
    BY <2>1, <2>2
<1> QED
  BY <1>2, <1>3, <1>4, <1>5, <1>6, <1>7, <1>8 DEF PruneRight

(* Loose files are written.                                                *)
LEMMA AddIs ==
    ASSUME Shape, NEW S \in SUBSET Loose, Add(S)
    PROVE  /\ loose' \in SUBSET Loose /\ unseen' \in SUBSET Loose /\ prune' \in PruneType
           /\ prune'.by = prune.by /\ prune'.step = prune.step /\ prune'.todo = prune.todo
           /\ prune'.inode = prune.inode /\ prune'.left = prune.left /\ prune'.kept = prune.kept
           /\ prune'.target = prune.target /\ prune'.since = prune.since
           /\ Scanned => prune'.fresh = prune.fresh \cup S
<1>1. prune \in PruneType /\ loose \in SUBSET Loose /\ unseen \in SUBSET Loose
  BY DEF Shape
<1>2. CASE ~ Scanned
  BY <1>1, <1>2 DEF Add, Scanned
<1>3. CASE Scanned
  <2>1. prune' = [prune EXCEPT !.fresh = @ \cup S]
    BY <1>3 DEF Add, Scanned
  <2>2. prune.fresh \cup S \in SUBSET Loose
    BY <1>1 DEF PruneType
  <2>3. prune' \in PruneType
    BY ONLY <1>1, <2>1, <2>2 DEF PruneType
  <2>4. QED
    BY <1>1, <2>1, <2>3 DEF Add, PruneType
<1> QED
  BY <1>2, <1>3

LEMMA RequestStructure ==
    ASSUME Structure, NEW w \in Writers, NEW e \in Entries, Request(w, e)
    PROVE  Structure'
<1>1. /\ Shape /\ PruneRight /\ JobRight(w) /\ \A v \in Writers : JobRight(v)
  BY DEF Structure
<1>2. /\ job' \in [Writers -> JobType] /\ job'[w].state = "missing" /\ job'[w].entry = e
      /\ job'[w].inode = job[w].inode /\ job'[w].got = job[w].got
      /\ \A v \in Writers : v # w => job'[v] = job[v]
  BY <1>1 DEF Request, Shape, JobType, JobState
<1>3. Shape'
  BY <1>1, <1>2, CacheAssumption DEF Request, Shape
<1>4. PruneRight'
  BY <1>1, <1>2, PruneStays DEF Request, PruneRight, Locked
<1>5. ASSUME NEW v \in Writers
      PROVE  JobRight(v)'
  BY <1>1, <1>2 DEF Request, JobRight, Locked
<1> QED
  BY <1>3, <1>4, <1>5 DEF Structure, FilesRight, Distinct, Request

LEMMA OpenEntryStructure ==
    ASSUME Structure, NEW w \in Writers, OpenEntry(w)
    PROVE  Structure'
<1>1. /\ Shape /\ PruneRight /\ JobRight(w) /\ \A v \in Writers : JobRight(v)
      /\ Distinct(age) /\ FilesRight
  BY DEF Structure
<1> PICK e : e = job[w].entry
  OBVIOUS
<1>2. e \in Entries
  BY <1>1 DEF JobRight, OpenEntry
<1>3. /\ LockInode(e) \in Inodes
      /\ lockFile' \in [Entries -> Inodes \cup {None}] /\ lockFile'[e] = LockInode(e)
      /\ \A x \in Entries : lockFile[x] # None => lockFile'[x] = lockFile[x]
      /\ age' \in Seq(Entries) /\ Distinct(age')
  BY <1>1, <1>2, OpenLockIs DEF OpenEntry
<1>4. /\ job' \in [Writers -> JobType] /\ job'[w].state = "opened" /\ job'[w].entry = e
      /\ job'[w].inode = LockInode(e) /\ job'[w].got = job[w].got
      /\ \A v \in Writers : v # w => job'[v] = job[v]
  BY <1>1, <1>3 DEF OpenEntry, Shape, JobType, JobState
<1>5. Shape'
  BY <1>1, <1>3, <1>4 DEF OpenEntry, Shape
<1>6. PruneRight'
  BY <1>1, <1>3, <1>4, PruneStays DEF OpenEntry, PruneRight, Locked
<1>7. ASSUME NEW v \in Writers
      PROVE  JobRight(v)'
  BY <1>1, <1>2, <1>3, <1>4 DEF OpenEntry, JobRight, Locked
<1>8. Distinct(age)' /\ FilesRight'
  BY <1>1, <1>3 DEF FilesRight, Distinct, OpenEntry
<1> QED
  BY <1>5, <1>6, <1>7, <1>8 DEF Structure

(* A job that is over.                                                     *)
LEMMA OverIs ==
    ASSUME job \in [Writers -> JobType], NEW w \in Writers,
           job' = [job EXCEPT ![w].state = "idle", ![w].entry = None, ![w].inode = None]
    PROVE  /\ job' \in [Writers -> JobType] /\ job'[w].state = "idle" /\ job'[w].got = job[w].got
           /\ \A v \in Writers : v # w => job'[v] = job[v]
<1>1. job[w] \in JobType
  OBVIOUS
<1>2. job'[w] = [job[w] EXCEPT !.state = "idle", !.entry = None, !.inode = None]
  OBVIOUS
<1>3. job'[w].state = "idle" /\ job'[w].got = job[w].got
  BY <1>1, <1>2 DEF JobType
<1>4. job'[w] \in JobType
  BY <1>1, <1>2 DEF JobType, JobState
<1>5. DOMAIN job' = Writers /\ job' = [v \in Writers |-> job'[v]]
  OBVIOUS
<1>6. \A v \in Writers : v # w => job'[v] = job[v]
  OBVIOUS
<1>7. \A v \in Writers : job'[v] \in JobType
  BY <1>4, <1>6
<1>8. job' \in [Writers -> JobType]
  BY <1>5, <1>7
<1> QED
  BY <1>3, <1>6, <1>8

LEMMA LockEntryStructure ==
    ASSUME Structure, NEW w \in Writers, LockEntry(w)
    PROVE  Structure'
<1>1. /\ Shape /\ PruneRight /\ JobRight(w) /\ \A v \in Writers : JobRight(v)
      /\ Distinct(age) /\ FilesRight
  BY DEF Structure
<1>2. Distinct(age)' /\ FilesRight'
  BY <1>1 DEF FilesRight, Distinct, LockEntry
<1>3. CASE job' = [job EXCEPT ![w].state = "idle", ![w].entry = None, ![w].inode = None]
           /\ UNCHANGED owner
  <2>1. /\ job' \in [Writers -> JobType] /\ job'[w].state = "idle" /\ job'[w].got = job[w].got
        /\ \A v \in Writers : v # w => job'[v] = job[v]
    <3>1. job \in [Writers -> JobType]
      BY <1>1 DEF Shape
    <3>2. QED
      BY ONLY <1>3, <3>1, w \in Writers, OverIs
  <2>2. Shape'
    BY <1>1, <1>3, <2>1 DEF LockEntry, Shape
  <2>3. PruneRight'
    BY <1>1, <1>3, <2>1, PruneStays DEF LockEntry, PruneRight, Locked
  <2>4. ASSUME NEW v \in Writers
        PROVE  JobRight(v)'
    BY <1>1, <1>3, <2>1 DEF LockEntry, JobRight, Locked
  <2>5. QED
    BY <1>2, <2>2, <2>3, <2>4 DEF Structure
<1>4. CASE /\ SetState(w, IF job[w].entry \in Inputs THEN "input" ELSE "reserve")
           /\ owner' = [owner EXCEPT ![job[w].inode] = w]
           /\ owner[job[w].inode] = None
  <2>1. /\ job' \in [Writers -> JobType] /\ job'[w].state \in {"reserve", "input"}
        /\ job'[w].got = job[w].got
        /\ job'[w].entry = job[w].entry /\ job'[w].inode = job[w].inode
        /\ \A v \in Writers : v # w => job'[v] = job[v]
    <3>1. job \in [Writers -> JobType]
      BY <1>1 DEF Shape
    <3>2. QED
      BY <1>4, <3>1 DEF JobType, JobState, SetState
  <2>2. job[w].inode \in Inodes
    BY <1>1 DEF LockEntry, JobRight
  <2>3. /\ owner' \in [Inodes -> Pruners \cup {None}] /\ owner'[job[w].inode] = w
        /\ \A i \in Inodes : i # job[w].inode => owner'[i] = owner[i]
    BY <1>1, <1>4, <2>2, NoneIs DEF Shape
  <2>4. Shape'
    BY <1>1, <2>1, <2>3 DEF LockEntry, Shape
  <2>5. prune.step \in {"remove", "drop"} =>
            prune.inode \in Inodes /\ prune.inode # job[w].inode
    BY <1>1, <1>4 DEF PruneRight
  <2>6. PruneRight'
    BY <1>1, <2>1, <2>3, <2>5, PruneStays DEF LockEntry, PruneRight, Locked
  <2>7. ASSUME NEW v \in Writers
        PROVE  JobRight(v)'
    <3>1. CASE v = w
      BY <1>1, <2>1, <2>2, <2>3, <3>1 DEF LockEntry, JobRight, Locked
    <3>2. CASE v # w
      BY <1>1, <1>4, <2>1, <2>3, <3>2, NoneIs DEF LockEntry, JobRight, Locked
    <3>3. QED
      BY <3>1, <3>2
  <2>8. QED
    BY <1>2, <2>4, <2>6, <2>7 DEF Structure
<1> QED
  BY <1>3, <1>4 DEF LockEntry

LEMMA ReserveStructure ==
    ASSUME Structure, NEW w \in Writers, Reserve(w)
    PROVE  Structure'
<1>1. /\ Shape /\ PruneRight /\ JobRight(w) /\ \A v \in Writers : JobRight(v)
      /\ Distinct(age) /\ FilesRight
  BY DEF Structure
<1>2. job[w].entry \in Entries /\ job[w].got \in Nat /\ Chunk[job[w].entry] \in Nat
  <2>1. job[w].entry \in Entries /\ job[w].got \in Nat
    BY <1>1 DEF Reserve, JobRight, Shape, JobType
  <2>2. QED
    BY <2>1, Sizes
<1>3. /\ job' \in [Writers -> JobType] /\ job'[w].state \in {"reserve", "write", "full", "failed"}
      /\ job'[w].state = "write" => job'[w].got = Chunks[job[w].entry]
      /\ job'[w].entry = job[w].entry /\ job'[w].inode = job[w].inode
      /\ \A v \in Writers : v # w => job'[v] = job[v]
  <2>1. job \in [Writers -> JobType] /\ job[w] \in JobType
    BY <1>1 DEF Shape
  <2>2. CASE Fits(Chunk[job[w].entry])
    BY <1>2, <2>1, <2>2 DEF Reserve, JobType, JobState
  <2>3. CASE ~ Fits(Chunk[job[w].entry])
    <3>1. \E s \in {"full", "failed"} : job' = [job EXCEPT ![w].state = s]
      BY <2>3 DEF Reserve, SetState
    <3>2. QED
      BY <2>1, <3>1 DEF JobType, JobState
  <2>4. QED
    BY <2>2, <2>3
<1>4. Shape'
  BY <1>1, <1>2, <1>3 DEF Reserve, Shape
<1>5. PruneRight'
  BY <1>1, <1>3, PruneStays DEF Reserve, PruneRight, Locked, JobState
<1>6. ASSUME NEW v \in Writers
      PROVE  JobRight(v)'
  <2>1. CASE v = w
    BY <1>1, <1>2, <1>3, <2>1 DEF Reserve, JobRight, Locked, JobState
  <2>2. CASE v # w
    BY <1>1, <1>3, <2>2 DEF Reserve, JobRight, Locked
  <2>3. QED
    BY <2>1, <2>2
<1>7. Distinct(age)' /\ FilesRight'
  BY <1>1 DEF FilesRight, Distinct, Reserve
<1> QED
  BY <1>4, <1>5, <1>6, <1>7 DEF Structure

LEMMA PublishStructure ==
    ASSUME Structure, NEW w \in Writers, Publish(w)
    PROVE  Structure'
<1>1. /\ Shape /\ PruneRight /\ JobRight(w) /\ \A v \in Writers : JobRight(v)
      /\ Distinct(age) /\ FilesRight
  BY DEF Structure
<1> PICK e : e = job[w].entry
  OBVIOUS
<1>2. e \in Entries /\ Size(e) \in Nat
  <2>1. e \in Entries
    BY <1>1 DEF Publish, JobRight
  <2>2. QED
    BY <2>1, Sizes
<1>3. /\ job' \in [Writers -> JobType] /\ job'[w].state = "written" /\ job'[w].got = job[w].got
      /\ job'[w].entry = job[w].entry /\ job'[w].inode = job[w].inode
      /\ \A v \in Writers : v # w => job'[v] = job[v]
  BY <1>1 DEF Publish, Shape, JobType, JobState, SetState
<1>4. /\ file' \in [Entries -> Nat] /\ file'[e] = Size(e)
      /\ \A x \in Entries : x # e => file'[x] = file[x]
  BY <1>1, <1>2 DEF Publish, Shape
<1>5. age' \in Seq(Entries) /\ Distinct(age')
  <2>1. age \in Seq(Entries)
    BY <1>1 DEF Shape
  <2>2. QED
    BY <1>1, <1>2, <2>1, TouchedIs DEF Publish
<1>6. /\ loose' \in SUBSET Loose /\ unseen' \in SUBSET Loose /\ prune' \in PruneType
      /\ prune'.by = prune.by /\ prune'.step = prune.step /\ prune'.todo = prune.todo
      /\ prune'.inode = prune.inode
  <2>1. {Ready(p) : p \in Plans \cap {e}} \in SUBSET Loose
    BY DEF Loose
  <2>2. QED
    BY <1>1, <2>1, AddIs DEF Publish
<1>61. Shape'
  BY <1>1, <1>3, <1>4, <1>5, <1>6 DEF Publish, Shape
<1>7. \A x \in Entries : file[x] # 0 => file'[x] = file[x]
  BY <1>1, <1>4 DEF FilesRight
<1>8. PruneRight'
  BY <1>1, <1>3, <1>6, <1>7, PruneStays DEF Publish, PruneRight, Locked, JobState
<1>9. ASSUME NEW v \in Writers
      PROVE  JobRight(v)'
  <2>1. CASE v = w
    BY <1>1, <1>2, <1>3, <2>1 DEF Publish, JobRight, Locked, JobState
  <2>2. CASE v # w
    BY <1>1, <1>3, <2>2 DEF Publish, JobRight, Locked
  <2>3. QED
    BY <2>1, <2>2
<1>10. FilesRight'
  BY <1>1, <1>4 DEF FilesRight, Size
<1> QED
  BY <1>5, <1>61, <1>8, <1>9, <1>10 DEF Structure, Distinct

LEMMA FailJobStructure ==
    ASSUME Structure, NEW w \in Writers, FailJob(w)
    PROVE  Structure'
<1>1. /\ Shape /\ PruneRight /\ JobRight(w) /\ \A v \in Writers : JobRight(v)
      /\ Distinct(age) /\ FilesRight
  BY DEF Structure
<1>2. /\ job' \in [Writers -> JobType] /\ job'[w].state = "failed" /\ job'[w].got = job[w].got
      /\ job'[w].entry = job[w].entry /\ job'[w].inode = job[w].inode
      /\ \A v \in Writers : v # w => job'[v] = job[v]
  BY <1>1 DEF FailJob, Shape, JobType, JobState, SetState
<1>3. Shape'
  BY <1>1, <1>2 DEF FailJob, Shape
<1>4. PruneRight'
  BY <1>1, <1>2, PruneStays DEF FailJob, PruneRight, Locked, JobState
<1>5. ASSUME NEW v \in Writers
      PROVE  JobRight(v)'
  <2>1. CASE v = w
    BY <1>1, <1>2, <2>1 DEF FailJob, JobRight, Locked, JobState
  <2>2. CASE v # w
    BY <1>1, <1>2, <2>2 DEF FailJob, JobRight, Locked
  <2>3. QED
    BY <2>1, <2>2
<1>6. Distinct(age)' /\ FilesRight'
  BY <1>1 DEF FilesRight, Distinct, FailJob
<1> QED
  BY <1>3, <1>4, <1>5, <1>6 DEF Structure

LEMMA ReleaseStructure ==
    ASSUME Structure, NEW w \in Writers, Release(w)
    PROVE  Structure'
<1>1. /\ Shape /\ PruneRight /\ JobRight(w) /\ \A v \in Writers : JobRight(v)
      /\ Distinct(age) /\ FilesRight
  BY DEF Structure
<1>2. /\ job' \in [Writers -> JobType] /\ job'[w].state \in {"unlock", "report"} /\ job'[w].got = 0
      /\ job'[w].entry = job[w].entry /\ job'[w].inode = job[w].inode
      /\ \A v \in Writers : v # w => job'[v] = job[v]
  BY <1>1 DEF Release, Shape, JobType, JobState
<1>3. Held(w) \in Nat
  BY HeldIs
<1>4. /\ prune' \in PruneType /\ prune'.by = prune.by /\ prune'.step = prune.step
      /\ prune'.todo = prune.todo /\ prune'.inode = prune.inode
  <2> PICK h \in Nat : h = Held(w)
    BY <1>3
  <2>1. prune \in PruneType
    BY <1>1 DEF Shape
  <2>2. prune' = prune \/ prune' = [prune EXCEPT !.since = @ + h]
    BY DEF Release
  <2>3. QED
    BY <2>1, <2>2 DEF PruneType
<1>5. used' \in Int /\ reserved' \in Int
  BY <1>1, <1>3 DEF Release, Shape, UsedAfter
<1>6. Shape'
  BY <1>1, <1>2, <1>4, <1>5 DEF Release, Shape
<1>7. PruneRight'
  <2>1. UNCHANGED <<owner, lockFile, file>> /\ job[w].state \in {"written", "failed"}
    BY DEF Release
  <2>2. QED
    BY <1>1, <1>2, <1>4, <2>1, PruneStays DEF PruneRight, Locked, JobState
<1>8. ASSUME NEW v \in Writers
      PROVE  JobRight(v)'
  <2>1. CASE v = w
    BY <1>1, <1>2, <2>1 DEF Release, JobRight, Locked, JobState
  <2>2. CASE v # w
    BY <1>1, <1>2, <2>2 DEF Release, JobRight, Locked
  <2>3. QED
    BY <2>1, <2>2
<1>9. Distinct(age)' /\ FilesRight'
  BY <1>1 DEF FilesRight, Distinct, Release
<1> QED
  BY <1>6, <1>7, <1>8, <1>9 DEF Structure

LEMMA UnlockStructure ==
    ASSUME Structure, NEW w \in Writers, Unlock(w)
    PROVE  Structure'
<1>1. /\ Shape /\ PruneRight /\ JobRight(w) /\ \A v \in Writers : JobRight(v)
      /\ Distinct(age) /\ FilesRight
  BY DEF Structure
<1>2. /\ job' \in [Writers -> JobType] /\ job'[w].state = "idle" /\ job'[w].got = job[w].got
      /\ \A v \in Writers : v # w => job'[v] = job[v]
  <2>1. /\ job \in [Writers -> JobType]
        /\ job' = [job EXCEPT ![w].state = "idle", ![w].entry = None, ![w].inode = None]
    BY <1>1 DEF Shape, Unlock
  <2>2. QED
    BY ONLY <2>1, w \in Writers, OverIs
<1>3. /\ Locked(w) /\ job[w].inode \in Inodes /\ owner[job[w].inode] = w
  BY <1>1 DEF Unlock, JobRight, Locked, JobState
<1>4. /\ owner' \in [Inodes -> Pruners \cup {None}]
      /\ \A i \in Inodes : i # job[w].inode => owner'[i] = owner[i]
  BY <1>1, <1>3 DEF Unlock, Shape
<1>5. Shape'
  BY <1>1, <1>2, <1>4 DEF Unlock, Shape
<1>6. prune.step \in {"remove", "drop"} => prune.inode \in Inodes /\ prune.inode # job[w].inode
  BY <1>1, <1>3 DEF PruneRight
<1>7. PruneRight'
  BY <1>1, <1>2, <1>4, <1>6, PruneStays DEF Unlock, PruneRight, Locked
<1>8. ASSUME NEW v \in Writers
      PROVE  JobRight(v)'
  <2>1. CASE v = w
    BY <1>1, <1>2, <2>1 DEF Unlock, JobRight, Locked
  <2>2. CASE v # w
    BY <1>1, <1>2, <1>3, <1>4, <2>2 DEF Unlock, JobRight, Locked
  <2>3. QED
    BY <2>1, <2>2
<1>9. Distinct(age)' /\ FilesRight'
  BY <1>1 DEF FilesRight, Distinct, Unlock
<1> QED
  BY <1>5, <1>7, <1>8, <1>9 DEF Structure

(* A job writes a small file, or fails to.                                 *)
LEMMA WriteLooseStructure ==
    ASSUME Structure, NEW w \in Writers, job[w].state \in {"report", "input"},
           NEW S \in SUBSET Loose, WriteLoose(w, S)
    PROVE  Structure'
<1>1. /\ Shape /\ PruneRight /\ JobRight(w) /\ \A v \in Writers : JobRight(v)
      /\ Distinct(age) /\ FilesRight
  BY DEF Structure
<1>2. /\ job' \in [Writers -> JobType] /\ job'[w].state = "unlock" /\ job'[w].got = job[w].got
      /\ job'[w].entry = job[w].entry /\ job'[w].inode = job[w].inode
      /\ \A v \in Writers : v # w => job'[v] = job[v]
  BY <1>1 DEF WriteLoose, Shape, JobType, JobState, SetState
<1>3. /\ loose' \in SUBSET Loose /\ unseen' \in SUBSET Loose /\ prune' \in PruneType
      /\ prune'.by = prune.by /\ prune'.step = prune.step /\ prune'.todo = prune.todo
      /\ prune'.inode = prune.inode
  <2>1. CASE Add(S)
    BY <1>1, <2>1, AddIs
  <2>2. CASE UNCHANGED <<loose, unseen, prune>>
    BY <1>1, <2>2 DEF Shape
  <2>3. QED
    BY <2>1, <2>2 DEF WriteLoose
<1>4. age' \in Seq(Entries) /\ Distinct(age')
  <2>1. age \in Seq(Entries) /\ job[w].entry \in Entries
    BY <1>1 DEF Shape, JobRight
  <2>2. Touched(job[w].entry) \in Seq(Entries) /\ Distinct(Touched(job[w].entry))
    BY <1>1, <2>1, TouchedIs
  <2>3. age' = age \/ age' = Touched(job[w].entry)
    BY DEF WriteLoose
  <2>4. QED
    BY <1>1, <2>1, <2>2, <2>3
<1>5. Shape'
  BY <1>1, <1>2, <1>3, <1>4 DEF WriteLoose, Shape
<1>6. PruneRight'
  <2>1. UNCHANGED <<owner, lockFile, file>>
    BY DEF WriteLoose
  <2>2. QED
    BY <1>1, <1>2, <1>3, <2>1, PruneStays DEF PruneRight, Locked, JobState
<1>7. ASSUME NEW v \in Writers
      PROVE  JobRight(v)'
  <2>1. CASE v = w
    BY <1>1, <1>2, <2>1 DEF WriteLoose, JobRight, Locked, JobState
  <2>2. CASE v # w
    BY <1>1, <1>2, <2>2 DEF WriteLoose, JobRight, Locked
  <2>3. QED
    BY <2>1, <2>2
<1>8. FilesRight'
  BY <1>1 DEF FilesRight, WriteLoose
<1> QED
  BY <1>4, <1>5, <1>6, <1>7, <1>8 DEF Structure

LEMMA LooseWritten ==
    ASSUME NEW w \in Writers, WriteError(w) \/ WriteInput(w)
    PROVE  /\ job[w].state \in {"report", "input"}
           /\ \E S \in SUBSET Loose : WriteLoose(w, S)
<1>1. CASE WriteError(w)
  <2>1. {Error(e) : e \in Reporting \cap {job[w].entry}} \in SUBSET Loose
    BY DEF Loose
  <2>2. QED
    BY <1>1, <2>1 DEF WriteError
<1>2. CASE WriteInput(w)
  <2>1. {Json(e) : e \in Inputs \cap {job[w].entry}} \in SUBSET Loose
    BY DEF Loose
  <2>2. QED
    BY <1>2, <2>1 DEF WriteInput
<1> QED
  BY <1>1, <1>2

LEMMA JobsStay ==
    ASSUME Structure, job' = job,
           \A w \in Writers : Locked(w) => owner'[job[w].inode] = owner[job[w].inode]
    PROVE  \A w \in Writers : JobRight(w)'
<1> SUFFICES ASSUME NEW w \in Writers
             PROVE  JobRight(w)'
  OBVIOUS
<1>1. JobRight(w)
  BY DEF Structure
<1> QED
  BY <1>1 DEF JobRight, Locked

LEMMA StartPruneStructure ==
    ASSUME Structure, NEW p \in Pruners, StartPrune(p)
    PROVE  Structure'
<1>1. /\ Shape /\ PruneRight /\ \A v \in Writers : JobRight(v)
      /\ Distinct(age) /\ FilesRight
  BY DEF Structure
<1>2. /\ prune'.by = p /\ prune'.step = "scan" /\ prune'.todo = <<>> /\ prune'.inode = None
      /\ prune'.left = 0 /\ prune'.target = 0 /\ prune'.since = 0
      /\ prune' = [by |-> p, step |-> "scan", todo |-> <<>>, left |-> 0, kept |-> {},
                   target |-> 0, inode |-> None, since |-> 0, fresh |-> {}]
  BY DEF StartPrune, NoPrune
<1>3. prune' \in PruneType
  BY <1>2 DEF PruneType
<1>4. Shape'
  BY <1>1, <1>3 DEF StartPrune, Shape
<1>5. DOMAIN prune'.todo = {}
  BY <1>2
<1>6. PruneRight'
  BY <1>2, <1>5, NoneIs DEF StartPrune, PruneRight
<1>7. \A w \in Writers : JobRight(w)'
  BY JobsStay DEF StartPrune
<1>8. Distinct(age)' /\ FilesRight'
  BY <1>1 DEF FilesRight, Distinct, StartPrune
<1> QED
  BY <1>4, <1>6, <1>7, <1>8 DEF Structure

LEMMA ScanStructure ==
    ASSUME Structure, Scan
    PROVE  Structure'
<1>1. /\ Shape /\ PruneRight /\ \A v \in Writers : JobRight(v)
      /\ Distinct(age) /\ FilesRight
  BY DEF Structure
<1> PICK todo, left : /\ todo = [i \in DOMAIN age |->
                                   [entry |-> age[i], size |-> file[age[i]],
                                    loose |-> {x \in loose : x[1] = age[i]}]]
                      /\ left = Cardinality(Bytes(file))
  OBVIOUS
<1>2. left \in Nat
  BY <1>1, CacheAssumption, BytesFinite DEF Shape
<1>3. age \in Seq(Entries) /\ file \in [Entries -> Nat] /\ loose \in SUBSET Loose
  BY <1>1 DEF Shape
<1>4. Len(age) \in Nat /\ DOMAIN age = 1 .. Len(age)
  BY <1>3
<1>5. \A i \in DOMAIN age : age[i] \in Entries /\ file[age[i]] \in Nat
  BY <1>3
<1>6. /\ DOMAIN todo = DOMAIN age
      /\ \A i \in DOMAIN age :
            /\ todo[i].entry = age[i] /\ todo[i].size = file[age[i]]
            /\ todo[i] = [entry |-> age[i], size |-> file[age[i]],
                          loose |-> {x \in loose : x[1] = age[i]}]
  OBVIOUS
<1>7. todo \in Seq(TodoType)
  <2>1. \A i \in 1 .. Len(age) : todo[i] \in TodoType
    <3> SUFFICES ASSUME NEW i \in 1 .. Len(age)
                 PROVE  todo[i] \in TodoType
      OBVIOUS
    <3>1. {x \in loose : x[1] = age[i]} \in SUBSET Loose
      BY <1>3
    <3>2. QED
      BY <1>4, <1>5, <1>6, <3>1 DEF TodoType
  <2>2. todo = [i \in 1 .. Len(age) |-> todo[i]]
    BY <1>4
  <2>3. QED
    BY <1>4, <2>1, <2>2, IsASeq
<1>8. /\ prune' \in PruneType /\ prune'.by = prune.by /\ prune'.step = "target"
      /\ prune'.todo = todo
  <2>1. prune \in PruneType
    BY <1>1 DEF Shape
  <2>2. prune' = [prune EXCEPT !.step = "target", !.todo = todo, !.left = left, !.kept = loose]
    BY DEF Scan
  <2>3. QED
    <3>1. left \in Int
      BY <1>2
    <3>2. prune' \in PruneType
      BY ONLY <1>3, <1>7, <2>1, <2>2, <3>1 DEF PruneType
    <3>3. prune'.by = prune.by /\ prune'.step = "target" /\ prune'.todo = todo
      BY ONLY <2>1, <2>2 DEF PruneType
    <3>4. QED
      BY <3>2, <3>3
<1>9. Shape'
  BY <1>1, <1>8 DEF Scan, Shape
<1>10. PruneRight'
  <2>1. UNCHANGED <<job, file>> /\ prune.step = "scan"
    BY DEF Scan
  <2>2. (\A i, j \in DOMAIN prune.todo : prune.todo[i].entry = prune.todo[j].entry => i = j)'
    BY <1>1, <1>6, <1>8 DEF Distinct
  <2>3. (\A i \in DOMAIN prune.todo : file[prune.todo[i].entry] = prune.todo[i].size)'
    BY <1>6, <1>8, <2>1
  <2>4. QED
    BY <1>1, <1>8, <2>1, <2>2, <2>3 DEF PruneRight
<1>11. \A w \in Writers : JobRight(w)'
  BY JobsStay DEF Scan
<1>12. Distinct(age)' /\ FilesRight'
  BY <1>1 DEF FilesRight, Distinct, Scan
<1> QED
  BY <1>9, <1>10, <1>11, <1>12 DEF Structure

LEMMA TargetIs ==
    ASSUME Structure
    PROVE  reserved \in Nat => Target \in Nat
<1> SUFFICES ASSUME reserved \in Nat
             PROVE  Target \in Nat
  OBVIOUS
<1>1. Incoming \in Nat
  <2>1. CASE prune.by \in Writers
    <3>1. job[prune.by].entry \in Entries
      BY <2>1 DEF Structure, PruneRight, JobRight
    <3>2. QED
      BY <2>1, <3>1, Sizes DEF Incoming
  <2>2. CASE prune.by \notin Writers
    BY <2>2 DEF Incoming
  <2>3. QED
    BY <2>1, <2>2
<1>2. Limit \in Nat
  BY CacheAssumption
<1> QED
  BY <1>1, <1>2 DEF Target

LEMMA ReadTargetStructure ==
    ASSUME Structure, reserved \in Nat, ReadTarget
    PROVE  Structure'
<1>1. /\ Shape /\ PruneRight /\ \A v \in Writers : JobRight(v)
      /\ Distinct(age) /\ FilesRight
  BY DEF Structure
<1> PICK n : n = Target /\ n \in Int
  BY TargetIs
<1>0. prune \in PruneType /\ prune' = [prune EXCEPT !.step = "next", !.target = n]
  BY <1>1 DEF ReadTarget, Shape
<1>2. /\ prune' \in PruneType /\ prune'.by = prune.by /\ prune'.step = "next"
      /\ prune'.todo = prune.todo
  BY ONLY <1>0, n \in Int DEF PruneType
<1>3. Shape'
  BY <1>1, <1>2 DEF ReadTarget, Shape
<1>4. PruneRight'
  <2>1. UNCHANGED <<job, file>> /\ prune.step = "target"
    BY DEF ReadTarget
  <2>2. QED
    BY <1>1, <1>2, <2>1 DEF PruneRight
<1>5. \A w \in Writers : JobRight(w)'
  BY JobsStay DEF ReadTarget
<1>6. Distinct(age)' /\ FilesRight'
  BY <1>1 DEF FilesRight, Distinct, ReadTarget
<1> QED
  BY <1>3, <1>4, <1>5, <1>6 DEF Structure

LEMMA OpenVictimStructure ==
    ASSUME Structure, OpenVictim
    PROVE  Structure'
<1>1. /\ Shape /\ PruneRight /\ \A v \in Writers : JobRight(v)
      /\ Distinct(age) /\ FilesRight
  BY DEF Structure
<1> PICK e : e = Victim
  OBVIOUS
<1>2. prune.todo # <<>> /\ e \in Entries
  BY <1>1, VictimIs DEF OpenVictim, Enough
<1>3. /\ LockInode(e) \in Inodes
      /\ lockFile' \in [Entries -> Inodes \cup {None}] /\ lockFile'[e] = LockInode(e)
      /\ age' \in Seq(Entries) /\ Distinct(age')
  BY <1>1, <1>2, OpenLockIs DEF OpenVictim
<1>4. /\ prune' \in PruneType /\ prune'.by = prune.by /\ prune'.step = "opened"
      /\ prune'.todo = prune.todo /\ prune'.inode = LockInode(e)
  BY <1>1, <1>3 DEF OpenVictim, Shape, PruneType
<1>5. Shape'
  BY <1>1, <1>3, <1>4 DEF OpenVictim, Shape
<1>6. PruneRight'
  <2>1. UNCHANGED <<job, file>> /\ prune.step = "next"
    BY DEF OpenVictim
  <2>2. Victim' = e
    BY <1>4 DEF Victim
  <2>3. (\A i \in DOMAIN prune.todo :
             \/ prune.todo[i].size = 0
             \/ file[prune.todo[i].entry] = prune.todo[i].size)'
    BY <1>1, <1>4, <2>1 DEF PruneRight
  <2>4. QED
    BY <1>1, <1>2, <1>3, <1>4, <2>1, <2>2, <2>3 DEF PruneRight
<1>7. \A w \in Writers : JobRight(w)'
  BY JobsStay DEF OpenVictim
<1>8. Distinct(age)' /\ FilesRight'
  BY <1>1, <1>3 DEF FilesRight, Distinct, OpenVictim
<1> QED
  BY <1>5, <1>6, <1>7, <1>8 DEF Structure

(* The rest of a list: its items are those of the list, one place further. *)
LEMMA TailIs ==
    ASSUME NEW S, NEW s \in Seq(S), s # <<>>
    PROVE  /\ Tail(s) \in Seq(S)
           /\ \A i \in DOMAIN Tail(s) : /\ i + 1 \in DOMAIN s /\ i \in Nat \ {0}
                                        /\ Tail(s)[i] = s[i + 1]
           /\ \A i \in DOMAIN s : i \in Nat \ {0} /\ (i # 1 => i - 1 \in DOMAIN Tail(s))
<1> PICK n : n = Len(s)
  OBVIOUS
<1>1. n \in Nat \ {0} /\ DOMAIN s = 1 .. n
  <2>1. n \in Nat /\ DOMAIN s = 1 .. n
    OBVIOUS
  <2>2. n # 0
    BY EmptySeq
  <2>3. QED
    BY <2>1, <2>2
<1>2. /\ Tail(s) \in Seq(S) /\ Len(Tail(s)) = n - 1 /\ \A i \in 1 .. n - 1 : Tail(s)[i] = s[i + 1]
  BY HeadTailProperties
<1>3. DOMAIN Tail(s) = 1 .. n - 1
  BY <1>2
<1> QED
  BY <1>1, <1>2, <1>3

(* The prune goes on with the rest of its list.                            *)
LEMMA NextVictim ==
    ASSUME Structure, prune.todo # <<>>, NEW t, t = Tail(prune.todo),
           \A i \in DOMAIN prune.todo :
               \/ i = 1
               \/ prune.todo[i].size = 0
               \/ file[prune.todo[i].entry] = prune.todo[i].size
    PROVE  /\ t \in Seq(TodoType)
           /\ \A i, j \in DOMAIN t : t[i].entry = t[j].entry => i = j
           /\ \A i \in DOMAIN t : t[i].size = 0 \/ file[t[i].entry] = t[i].size
<1>1. /\ prune.todo \in Seq(TodoType)
      /\ \A i, j \in DOMAIN prune.todo : prune.todo[i].entry = prune.todo[j].entry => i = j
  BY DEF Structure, Shape, PruneType, PruneRight
<1> PICK s : s = prune.todo
  OBVIOUS
<1>2. /\ t \in Seq(TodoType)
      /\ \A i \in DOMAIN t : i + 1 \in DOMAIN s /\ i \in Nat \ {0} /\ t[i] = s[i + 1]
  BY <1>1, TailIs
<1>3. ASSUME NEW i \in DOMAIN t, NEW j \in DOMAIN t, t[i].entry = t[j].entry
      PROVE  i = j
  <2>1. i + 1 = j + 1 /\ i \in Nat /\ j \in Nat
    BY <1>1, <1>2, <1>3
  <2>2. QED
    BY <2>1
<1>4. ASSUME NEW i \in DOMAIN t
      PROVE  t[i].size = 0 \/ file[t[i].entry] = t[i].size
  <2>1. i + 1 \in DOMAIN s /\ i + 1 # 1 /\ t[i] = s[i + 1]
    BY <1>2
  <2>2. QED
    BY <2>1
<1> QED
  BY <1>2, <1>3, <1>4

LEMMA LockVictimStructure ==
    ASSUME Structure, LockVictim
    PROVE  Structure'
<1>1. /\ Shape /\ PruneRight /\ \A v \in Writers : JobRight(v)
      /\ Distinct(age) /\ FilesRight
  BY DEF Structure
<1>2. /\ prune.todo # <<>> /\ prune.inode \in Inodes /\ lockFile[Victim] = prune.inode
      /\ prune.by \in Pruners /\ prune.by # None /\ prune \in PruneType
  BY <1>1 DEF LockVictim, PruneRight, Shape, PruneType
<1>3. /\ UNCHANGED <<job, file, loose, age, lockFile, used, reserved, jobs, missed, unseen>>
      /\ prune.step = "opened"
  BY DEF LockVictim
<1>4. Distinct(age)' /\ FilesRight'
  BY <1>1, <1>3 DEF FilesRight, Distinct
<1>5. CASE /\ owner[prune.inode] = None
           /\ owner' = [owner EXCEPT ![prune.inode] = prune.by]
           /\ prune' = [prune EXCEPT !.step = "remove"]
  <2>1. /\ prune' \in PruneType /\ prune'.by = prune.by /\ prune'.step = "remove"
        /\ prune'.todo = prune.todo /\ prune'.inode = prune.inode
    BY <1>2, <1>5 DEF PruneType
  <2>2. /\ owner' \in [Inodes -> Pruners \cup {None}] /\ owner'[prune.inode] = prune.by
        /\ \A i \in Inodes : i # prune.inode => owner'[i] = owner[i]
    BY <1>1, <1>2, <1>5 DEF Shape
  <2>3. Shape'
    BY <1>1, <1>3, <2>1, <2>2 DEF Shape
  <2>4. \A w \in Writers : Locked(w) => job[w].inode \in Inodes /\ job[w].inode # prune.inode
    BY <1>1, <1>5, NoneIs DEF JobRight
  <2>5. Victim' = Victim /\ (\A w \in Writers : Locked(w)' = Locked(w))
    BY <1>3, <2>1 DEF Victim, Locked
  <2>6. (\A i \in DOMAIN prune.todo :
             \/ prune.todo[i].size = 0
             \/ file[prune.todo[i].entry] = prune.todo[i].size)'
    BY <1>1, <1>3, <2>1 DEF PruneRight
  <2>7. PruneRight'
    BY <1>1, <1>2, <1>3, <2>1, <2>2, <2>4, <2>5, <2>6 DEF PruneRight
  <2>8. \A w \in Writers : JobRight(w)'
    BY <1>3, <2>2, <2>4, JobsStay
  <2>9. QED
    BY <1>4, <2>3, <2>7, <2>8 DEF Structure
<1>6. CASE /\ prune' = [prune EXCEPT !.step = "next", !.inode = None, !.todo = Tail(@)]
           /\ UNCHANGED owner
  <2>1. \A i \in DOMAIN prune.todo :
            i = 1 \/ prune.todo[i].size = 0 \/ file[prune.todo[i].entry] = prune.todo[i].size
    BY <1>1, <1>3 DEF PruneRight
  <2> PICK t : t = Tail(prune.todo)
    OBVIOUS
  <2>2. /\ t \in Seq(TodoType)
        /\ \A i, j \in DOMAIN t : t[i].entry = t[j].entry => i = j
        /\ \A i \in DOMAIN t : t[i].size = 0 \/ file[t[i].entry] = t[i].size
    BY <1>2, <2>1, NextVictim
  <2>3. /\ prune' \in PruneType /\ prune'.by = prune.by /\ prune'.step = "next" /\ prune'.todo = t
    BY <1>2, <1>6, <2>2 DEF PruneType
  <2>4. Shape'
    BY <1>1, <1>3, <1>6, <2>3 DEF Shape
  <2>5. PruneRight'
    BY <1>1, <1>3, <2>2, <2>3 DEF PruneRight
  <2>6. \A w \in Writers : JobRight(w)'
    BY <1>3, <1>6, JobsStay
  <2>7. QED
    BY <1>4, <2>4, <2>5, <2>6 DEF Structure
<1> QED
  BY <1>5, <1>6 DEF LockVictim, Free

LEMMA RemoveVictimStructure ==
    ASSUME Structure, RemoveVictim
    PROVE  Structure'
<1>1. /\ Shape /\ PruneRight /\ \A v \in Writers : JobRight(v)
      /\ Distinct(age) /\ FilesRight
  BY DEF Structure
<1> PICK e : e = Victim
  OBVIOUS
<1>2. /\ prune.todo # <<>> /\ prune.inode \in Inodes /\ e \in Entries
      /\ 1 \in DOMAIN prune.todo /\ prune.todo[1].entry = e
  BY <1>1, VictimIs DEF RemoveVictim, PruneRight
<1>3. UNCHANGED <<job, owner, used, reserved, jobs, missed>> /\ prune.step = "remove"
  BY DEF RemoveVictim
<1>4. /\ file' \in [Entries -> Nat] /\ file'[e] \in {file[e], 0}
      /\ \A x \in Entries : x # e => file'[x] = file[x]
  BY <1>1, <1>2 DEF RemoveVictim, Shape
<1>5. lockFile' \in [Entries -> Inodes \cup {None}]
  BY <1>1, <1>2 DEF RemoveVictim, Shape
<1>6. age' \in Seq(Entries) /\ Distinct(age')
  <2>1. age \in Seq(Entries)
    BY <1>1 DEF Shape
  <2>2. Without(e) \in Seq(Entries) /\ Distinct(Without(e))
    BY <1>1, <1>2, <2>1, TouchedIs
  <2>3. age' = age \/ age' = Without(e)
    BY DEF RemoveVictim
  <2>4. QED
    BY <1>1, <2>1, <2>2, <2>3
<1>7. /\ prune' \in PruneType /\ prune'.by = prune.by /\ prune'.step = "drop"
      /\ prune'.todo = prune.todo /\ prune'.inode = prune.inode
  BY <1>1 DEF RemoveVictim, Shape, PruneType
<1>71. loose' \in SUBSET Loose /\ UNCHANGED unseen
  BY <1>1 DEF RemoveVictim, Shape
<1>8. Shape'
  BY <1>1, <1>3, <1>4, <1>5, <1>6, <1>7, <1>71 DEF Shape
<1>9. (\A i \in DOMAIN prune.todo :
           \/ prune.todo[i].size = 0
           \/ prune.step = "drop" /\ i = 1
           \/ file[prune.todo[i].entry] = prune.todo[i].size)'
  <2> SUFFICES ASSUME NEW i \in DOMAIN prune.todo, prune.todo[i].size # 0, i # 1
               PROVE  file'[prune.todo[i].entry] = prune.todo[i].size
    BY <1>7
  <2>1. prune.todo[i].entry \in Entries
    BY <1>1, TodoIs
  <2>2. file[prune.todo[i].entry] = prune.todo[i].size /\ prune.todo[i].entry # e
    BY <1>1, <1>2, <1>3 DEF PruneRight
  <2>3. QED
    BY <1>4, <2>1, <2>2
<1>10. PruneRight'
  <2>1. \A w \in Writers : Locked(w)' = Locked(w)
    BY <1>3 DEF Locked
  <2>2. QED
    BY <1>1, <1>2, <1>3, <1>7, <1>9, <2>1 DEF PruneRight
<1>11. \A w \in Writers : JobRight(w)'
  BY <1>3, JobsStay
<1>12. FilesRight'
  BY <1>1, <1>4 DEF FilesRight, Size
<1> QED
  BY <1>6, <1>8, <1>10, <1>11, <1>12 DEF Structure, Distinct

LEMMA DropVictimStructure ==
    ASSUME Structure, DropVictim
    PROVE  Structure'
<1>1. /\ Shape /\ PruneRight /\ \A v \in Writers : JobRight(v)
      /\ Distinct(age) /\ FilesRight
  BY DEF Structure
<1>2. /\ prune.todo # <<>> /\ prune.inode \in Inodes /\ prune \in PruneType
      /\ \A w \in Writers : Locked(w) => job[w].inode # prune.inode
  BY <1>1 DEF DropVictim, PruneRight, Shape
<1>3. /\ UNCHANGED <<job, file, loose, age, lockFile, used, reserved, jobs, missed, unseen>>
      /\ prune.step = "drop"
  BY DEF DropVictim
<1>4. Distinct(age)' /\ FilesRight'
  BY <1>1, <1>3 DEF FilesRight, Distinct
<1>5. /\ owner' \in [Inodes -> Pruners \cup {None}]
      /\ \A i \in Inodes : i # prune.inode => owner'[i] = owner[i]
  BY <1>1, <1>2 DEF DropVictim, Shape
<1>6. \A i \in DOMAIN prune.todo :
          i = 1 \/ prune.todo[i].size = 0 \/ file[prune.todo[i].entry] = prune.todo[i].size
  BY <1>1 DEF PruneRight
<1> PICK t, l, k : /\ t = Tail(prune.todo) /\ l = prune.left - Head(prune.todo).size
                   /\ k = prune.kept \ Head(prune.todo).loose
  OBVIOUS
<1>7. /\ t \in Seq(TodoType)
      /\ \A i, j \in DOMAIN t : t[i].entry = t[j].entry => i = j
      /\ \A i \in DOMAIN t : t[i].size = 0 \/ file[t[i].entry] = t[i].size
  BY <1>2, <1>6, NextVictim
<1>8. l \in Int /\ k \in SUBSET Loose
  BY <1>1, <1>2, VictimIs DEF PruneType
<1>9. /\ prune' \in PruneType /\ prune'.by = prune.by /\ prune'.step = "next" /\ prune'.todo = t
  <2>1. prune' = [prune EXCEPT !.step = "next", !.inode = None, !.todo = t, !.left = l, !.kept = k]
    BY DEF DropVictim
  <2>2. QED
    BY <1>2, <1>7, <1>8, <2>1 DEF PruneType
<1>10. Shape'
  BY <1>1, <1>3, <1>5, <1>9 DEF Shape
<1>11. PruneRight'
  BY <1>1, <1>3, <1>7, <1>9 DEF PruneRight
<1>12. \A w \in Writers : JobRight(w)'
  BY <1>1, <1>2, <1>3, <1>5, JobsStay DEF JobRight
<1> QED
  BY <1>4, <1>10, <1>11, <1>12 DEF Structure

LEMMA EndPruneStructure ==
    ASSUME Structure, EndPrune
    PROVE  Structure'
<1>1. /\ Shape /\ PruneRight /\ \A v \in Writers : JobRight(v)
      /\ Distinct(age) /\ FilesRight
  BY DEF Structure
<1>2. /\ UNCHANGED <<file, loose, age, lockFile, owner, reserved, jobs>> /\ prune.step = "next"
      /\ unseen' = prune.fresh
  BY DEF EndPrune
<1>3. /\ prune'.by = None /\ prune'.step = "none" /\ prune'.todo = <<>>
      /\ prune' = [by |-> None, step |-> "none", todo |-> <<>>, left |-> 0, kept |-> {},
                   target |-> 0, inode |-> None, since |-> 0, fresh |-> {}]
  BY DEF EndPrune, NoPrune
<1>4. prune' \in PruneType
  BY <1>3 DEF PruneType
<1>5. used' \in Int /\ missed' \in Int /\ unseen' \in SUBSET Loose
  <2>1. prune \in PruneType
    BY <1>1 DEF Shape
  <2>2. Weight(prune.kept) \in Nat
    BY <2>1, WeightIs DEF PruneType
  <2>3. QED
    BY <2>1, <2>2 DEF EndPrune, SeenLeft, PruneType
<1>6. /\ job' \in [Writers -> JobType]
      /\ \A v \in Writers : /\ job'[v] = job[v] \/ (job[v].state = "full" /\ job'[v].state = "reserve")
                            /\ job'[v].entry = job[v].entry /\ job'[v].got = job[v].got
                            /\ job'[v].inode = job[v].inode
  <2>1. job \in [Writers -> JobType]
    BY <1>1 DEF Shape
  <2>2. CASE prune.by \in Writers
    <3> PICK w \in Writers : w = prune.by
      BY <2>2
    <3>1. job[w].state = "full" /\ job' = [job EXCEPT ![w].state = "reserve"]
      BY <1>1, <2>2 DEF EndPrune, PruneRight, SetState
    <3>2. QED
      <4>1. job' \in [Writers -> JobType]
        BY ONLY <2>1, <3>1, w \in Writers DEF JobType, JobState
      <4>2. ASSUME NEW v \in Writers
            PROVE  /\ job'[v] = job[v] \/ (job[v].state = "full" /\ job'[v].state = "reserve")
                   /\ job'[v].entry = job[v].entry /\ job'[v].got = job[v].got
                   /\ job'[v].inode = job[v].inode
        <5>1. job[v] \in JobType
          BY <2>1
        <5>2. CASE v = w
          BY <2>1, <3>1, <5>1, <5>2 DEF JobType
        <5>3. CASE v # w
          BY <2>1, <3>1, <5>3
        <5>4. QED
          BY <5>2, <5>3
      <4>3. QED
        BY <4>1, <4>2
  <2>3. CASE prune.by \notin Writers
    <3>1. job' = job
      BY <2>3 DEF EndPrune
    <3>2. QED
      BY <2>1, <3>1
  <2>4. QED
    BY <2>2, <2>3
<1>7. Shape'
  BY <1>1, <1>2, <1>4, <1>5, <1>6 DEF Shape
<1>8. DOMAIN prune'.todo = {}
  BY <1>3
<1>9. PruneRight'
  BY <1>3, <1>8, NoneIs DEF PruneRight
<1>10. ASSUME NEW v \in Writers
       PROVE  JobRight(v)'
  BY <1>1, <1>2, <1>6 DEF JobRight, Locked, JobState
<1>11. Distinct(age)' /\ FilesRight'
  BY <1>1, <1>2 DEF FilesRight, Distinct
<1> QED
  BY <1>7, <1>9, <1>10, <1>11 DEF Structure
LEMMA ForgetErrorStructure ==
    ASSUME Structure, NEW e \in Entries, ForgetError(e)
    PROVE  Structure'
<1>1. /\ Shape /\ PruneRight /\ \A v \in Writers : JobRight(v)
      /\ Distinct(age) /\ FilesRight
  BY DEF Structure
<1>2. UNCHANGED <<file, lockFile, owner, used, reserved, job, jobs, prune, missed, unseen>>
  BY DEF ForgetError
<1>3. age' \in Seq(Entries) /\ Distinct(age')
  <2>1. age \in Seq(Entries)
    BY <1>1 DEF Shape
  <2>2. Without(e) \in Seq(Entries) /\ Distinct(Without(e))
    BY <1>1, <2>1, TouchedIs
  <2>3. age' = age \/ age' = Without(e)
    BY DEF ForgetError
  <2>4. QED
    BY <1>1, <2>1, <2>2, <2>3
<1>4. Shape'
  BY <1>1, <1>2, <1>3 DEF ForgetError, Shape
<1>5. PruneRight'
  BY <1>1, <1>2, PruneStays DEF PruneRight, Locked
<1>6. \A w \in Writers : JobRight(w)'
  BY <1>2, JobsStay
<1>7. FilesRight'
  BY <1>1, <1>2 DEF FilesRight
<1> QED
  BY <1>3, <1>4, <1>5, <1>6, <1>7 DEF Structure

LEMMA StructureStep ==
    ASSUME Structure, reserved \in Nat, [Next]_vars
    PROVE  Structure'
<1>1. ASSUME NEW w \in Writers, Job(w) \/ FailJob(w) \/ \E e \in Entries : Request(w, e)
      PROVE  Structure'
  BY <1>1, RequestStructure, OpenEntryStructure, LockEntryStructure, ReserveStructure,
     PublishStructure, FailJobStructure, ReleaseStructure, WriteLooseStructure, LooseWritten,
     UnlockStructure DEF Job
<1>2. ASSUME NEW p \in Pruners, StartPrune(p)
      PROVE  Structure'
  BY <1>2, StartPruneStructure
<1>3. CASE Pruning
  BY <1>3, ScanStructure, ReadTargetStructure, OpenVictimStructure, LockVictimStructure,
     RemoveVictimStructure, DropVictimStructure, EndPruneStructure DEF Pruning
<1>4. CASE UNCHANGED vars
  <2>1. /\ Shape /\ PruneRight /\ \A v \in Writers : JobRight(v)
        /\ Distinct(age) /\ FilesRight
    BY DEF Structure
  <2>2. UNCHANGED <<file, loose, age, lockFile, owner, used, reserved, job, jobs, prune, missed, unseen>>
    BY <1>4 DEF vars
  <2>3. Shape' /\ Distinct(age)' /\ FilesRight'
    BY <2>1, <2>2 DEF Shape, Distinct, FilesRight
  <2>4. PruneRight'
    BY <2>1, <2>2, PruneStays DEF PruneRight, Locked
  <2>5. \A w \in Writers : JobRight(w)'
    BY <2>2, JobsStay
  <2>6. QED
    BY <2>3, <2>4, <2>5 DEF Structure
<1>5. ASSUME NEW e \in Entries, ForgetError(e)
      PROVE  Structure'
  BY <1>5, ForgetErrorStructure
<1> QED
  BY <1>1, <1>2, <1>3, <1>4, <1>5 DEF Next

(***************************************************************************)
(* Every step keeps the count                                              *)
(***************************************************************************)
Quantities ==
    /\ Kept \in [Writers -> Nat] /\ Part \in [Writers -> Nat]
    /\ Files \in Nat /\ Parts \in Nat /\ Keeps \in Nat /\ Parts <= Keeps
    /\ Leaving \in Nat /\ Seen \in Nat
    /\ \A w \in Writers :
           /\ Kept[w] = Held(w)
           /\ Part[w] = IF job[w].state \in {"written", "failed"} THEN 0 ELSE Held(w)

LEMMA Numbers == Structure => Quantities
<1> SUFFICES ASSUME Structure
             PROVE  Quantities
  OBVIOUS
<1>1. \A w \in Writers : Held(w) \in Nat
  BY HeldIs
<1>2. Kept \in [Writers -> Nat] /\ \A w \in Writers : Kept[w] = Held(w)
  BY <1>1 DEF Kept
<1>3. /\ Part \in [Writers -> Nat]
      /\ \A w \in Writers :
            Part[w] = IF job[w].state \in {"written", "failed"} THEN 0 ELSE Held(w)
  BY <1>1 DEF Part
<1>4. file \in [Entries -> Nat] /\ IsFiniteSet(Entries) /\ IsFiniteSet(Writers)
  BY CacheAssumption DEF Structure, Shape
<1>5. Files \in Nat
  BY <1>4, BytesFinite DEF Files
<1>6. Parts \in Nat
  BY <1>3, <1>4, BytesFinite DEF Parts
<1>7. Keeps \in Nat /\ IsFiniteSet(Bytes(Kept))
  BY <1>2, <1>4, BytesFinite DEF Keeps
<1>8. \A w \in Writers : 1 .. Part[w] \subseteq 1 .. Kept[w]
  BY <1>1, <1>2, <1>3
<1>9. Bytes(Part) \subseteq Bytes(Kept)
  <2> SUFFICES ASSUME NEW w \in Writers
               PROVE  {w} \X (1 .. Part[w]) \subseteq Bytes(Kept)
    BY <1>3 DEF Bytes
  <2>1. {w} \X (1 .. Kept[w]) \subseteq Bytes(Kept)
    BY <1>2 DEF Bytes
  <2>2. {w} \X (1 .. Part[w]) \subseteq {w} \X (1 .. Kept[w])
    BY <1>8
  <2>3. QED
    BY <2>1, <2>2
<1>10. Parts <= Keeps
  BY <1>7, <1>9, FS_Subset DEF Parts, Keeps
<1>11. Leaving \in Nat
  BY VictimIs DEF Structure, PruneRight, Leaving
<1>12. Seen \in Nat
  BY WeightIs DEF Structure, Shape, Seen
<1> QED
  BY <1>2, <1>3, <1>5, <1>6, <1>7, <1>10, <1>11, <1>12 DEF Quantities

LEMMA NumbersNext == Structure' => Quantities'
  BY Numbers, PTL

(* One job changes.                                                        *)
LEMMA JobChange ==
    ASSUME Structure, Structure', NEW w \in Writers,
           \A v \in Writers : v # w => job'[v] = job[v]
    PROVE  /\ Keeps' = Keeps - Kept[w] + Kept'[w]
           /\ Parts' = Parts - Part[w] + Part'[w]
<1> PICK k, p, l, q : k = Kept /\ p = Part /\ l = Kept' /\ q = Part'
  OBVIOUS
<1>1. Quantities /\ Quantities'
  BY Numbers, NumbersNext
<1>2. k \in [Writers -> Nat] /\ p \in [Writers -> Nat]
  BY <1>1 DEF Quantities
<1>3. l \in [Writers -> Nat] /\ q \in [Writers -> Nat]
  BY <1>1 DEF Quantities
<1>4. \A v \in Writers : v # w => l[v] = k[v] /\ q[v] = p[v]
  BY <1>1 DEF Quantities, Held
<1>5. l = [k EXCEPT ![w] = l[w]]
  BY <1>2, <1>3, <1>4
<1>6. q = [p EXCEPT ![w] = q[w]]
  BY <1>2, <1>3, <1>4
<1>7. IsFiniteSet(Writers) /\ l[w] \in Nat /\ q[w] \in Nat
  BY <1>3, CacheAssumption
<1>8. Cardinality(Bytes(l)) = Cardinality(Bytes(k)) - k[w] + l[w]
  BY ONLY <1>2, <1>5, <1>7, w \in Writers, BytesChange
<1>9. Cardinality(Bytes(q)) = Cardinality(Bytes(p)) - p[w] + q[w]
  BY ONLY <1>2, <1>6, <1>7, w \in Writers, BytesChange
<1>10. /\ Keeps = Cardinality(Bytes(k)) /\ Keeps' = Cardinality(Bytes(l))
      /\ Parts = Cardinality(Bytes(p)) /\ Parts' = Cardinality(Bytes(q))
  BY DEF Keeps, Parts
<1> QED
  BY <1>8, <1>9, <1>10

LEMMA SameJobs ==
    ASSUME Structure, Structure',
           \A w \in Writers : Kept'[w] = Kept[w] /\ Part'[w] = Part[w]
    PROVE  Keeps' = Keeps /\ Parts' = Parts
<1>1. Quantities /\ Quantities'
  BY Numbers, NumbersNext
<1>2. Kept' = Kept /\ Part' = Part
  BY <1>1 DEF Quantities
<1> QED
  BY <1>2 DEF Keeps, Parts

LEMMA OneFile ==
    ASSUME Structure, NEW e \in Entries, NEW n \in Nat, file' = [file EXCEPT ![e] = n]
    PROVE  Files' = Files - file[e] + n
<1>1. file \in [Entries -> Nat] /\ IsFiniteSet(Entries)
  BY CacheAssumption DEF Structure, Shape
<1> PICK f, g : f = file /\ g = file'
  OBVIOUS
<1>2. Cardinality(Bytes(g)) = Cardinality(Bytes(f)) - f[e] + n
  BY <1>1, BytesChange
<1>3. Files = Cardinality(Bytes(f)) /\ Files' = Cardinality(Bytes(g))
  BY DEF Files
<1> QED
  BY <1>2, <1>3
(* A step that is no reservation and neither begins nor ends a prune or its*)
(* scan.                                                                   *)
LEMMA CountStays ==
    ASSUME Structure, Structure', Counted,
           UNCHANGED <<used, reserved, missed>>, Keeps' = Keeps,
           Files' + Parts' <= Files + Parts, Seen' <= Seen,
           Scanned' = Scanned, prune'.since = prune.since,
           prune'.left \in Nat, prune'.target \in Nat,
           Files' + Parts' + Leaving' + prune.left <= Files + Parts + Leaving + prune'.left,
           IsFiniteSet(Listed'), Cardinality(Listed') <= prune'.left
    PROVE  Counted'
<1> PICK a, b, f, p, g, q, v, x, u, r, m, l, k, s, lim :
        /\ a = Seen /\ b = Seen' /\ f = Files /\ p = Parts /\ g = Files' /\ q = Parts' /\ v = Leaving /\ x = Leaving'
        /\ u = used /\ r = reserved /\ m = missed /\ l = prune.left /\ k = prune'.left
        /\ s = prune.since /\ lim = Limit
  OBVIOUS
<1>1. Quantities /\ Quantities' /\ Limit \in Nat
  BY Numbers, NumbersNext, CacheAssumption
<1>2. /\ a \in Nat /\ b \in Nat
      /\ f \in Nat /\ p \in Nat /\ g \in Nat /\ q \in Nat /\ v \in Nat /\ x \in Nat
      /\ u \in Nat /\ r \in Nat /\ m \in Nat /\ l \in Nat /\ k \in Nat /\ s \in Nat /\ lim \in Nat
  BY <1>1 DEF Quantities, Counted
<1>3. g + q <= f + p /\ g + q + x + l <= f + p + v + k /\ b <= a
  OBVIOUS
<1>4. f + p + a <= u + r + m /\ (Scanned => f + p + v <= l + r + s) /\ f + p <= 2 * lim
  BY DEF Counted
<1>5. g + q + b <= u + r + m /\ (Scanned => g + q + x <= k + r + s) /\ g + q <= 2 * lim
  BY ONLY <1>2, <1>3, <1>4
<1>6. (Scanned => Files + Parts + Leaving <= prune.left + reserved + prune.since)'
  BY <1>5
<1>7. (Files + Parts + Seen <= used + reserved + missed /\ Files + Parts <= 2 * Limit)'
  BY <1>5
<1>8. (/\ used \in Nat /\ missed \in Nat /\ prune.left \in Nat /\ prune.since \in Nat
       /\ prune.target \in Nat /\ reserved = Keeps /\ (~Scanned => prune.since = 0)
       /\ reserved <= Limit /\ prune.since + reserved <= Limit
       /\ prune.since <= used /\ missed <= Limit)'
  BY DEF Counted
<1>9. (IsFiniteSet(Listed) /\ Cardinality(Listed) <= prune.left)'
  OBVIOUS
<1> QED
  BY <1>6, <1>7, <1>8, <1>9 DEF Counted

(* The prune stays where it is.                                            *)
LEMMA CountOfJob ==
    ASSUME Structure, Structure', Counted, UNCHANGED <<used, reserved, missed>>,
           prune'.step = prune.step, prune'.todo = prune.todo, prune'.left = prune.left,
           prune'.target = prune.target, prune'.since = prune.since,
           Keeps' = Keeps, Files' + Parts' <= Files + Parts, Seen' <= Seen
    PROVE  Counted'
<1>1. Scanned' = Scanned /\ Leaving' = Leaving /\ Listed' = Listed
  BY DEF Scanned, Leaving, Listed
<1>2. /\ prune.left \in Nat /\ prune.target \in Nat
      /\ IsFiniteSet(Listed) /\ Cardinality(Listed) <= prune.left
  BY DEF Counted
<1>3. Quantities /\ Quantities'
  BY Numbers, NumbersNext
<1>4. Files' + Parts' + Leaving' + prune.left <= Files + Parts + Leaving + prune'.left
  <2> PICK f, p, g, q, v, l : /\ f = Files /\ p = Parts /\ g = Files' /\ q = Parts'
                              /\ v = Leaving /\ l = prune.left
    OBVIOUS
  <2>1. f \in Nat /\ p \in Nat /\ g \in Nat /\ q \in Nat /\ v \in Nat /\ l \in Nat
    BY <1>2, <1>3 DEF Quantities
  <2>2. g + q <= f + p
    OBVIOUS
  <2>3. g + q + v + l <= f + p + v + l
    BY ONLY <2>1, <2>2
  <2>4. Leaving' = v /\ prune'.left = l
    BY <1>1
  <2>5. QED
    BY <2>3, <2>4
<1> QED
  BY <1>1, <1>2, <1>4, CountStays

LEMMA SeenLess ==
    ASSUME Structure, loose' \ unseen' \subseteq loose \ unseen
    PROVE  Seen' <= Seen
<1>1. loose \ unseen \in SUBSET Loose
  BY DEF Structure, Shape
<1>2. Weight(loose' \ unseen') <= Weight(loose \ unseen)
  BY <1>1, WeightIs
<1>3. Seen' = Weight(loose' \ unseen') /\ Seen = Weight(loose \ unseen)
  BY DEF Seen, Weight, Bytes
<1> QED
  BY <1>2, <1>3

LEMMA FilesStay ==
    ASSUME UNCHANGED file
    PROVE  Files' = Files
  BY DEF Files

(* Jobs without reservations.                                              *)
LEMMA EmptyJobCounted ==
    ASSUME Structure, Structure', Counted, NEW w \in Writers,
           Unlock(w) \/ OpenEntry(w) \/ LockEntry(w) \/ \E e \in Entries : Request(w, e)
    PROVE  Counted'
<1>1. /\ job[w].state \in {"idle", "missing", "opened", "unlock"}
      /\ \A v \in Writers : v # w => job'[v] = job[v]
      /\ UNCHANGED <<file, loose, unseen, used, reserved, missed, prune>>
  BY DEF Structure, Shape, Unlock, OpenEntry, LockEntry, Request, SetState
<1>2. job[w].got = 0 /\ job'[w].got = 0
  BY <1>1 DEF Structure, Shape, JobType, JobRight, Unlock, OpenEntry, LockEntry, Request, SetState
<1>3. Held(w) = 0 /\ Held(w)' = 0
  BY <1>2 DEF Held
<1>4. Quantities /\ Quantities'
  BY Numbers, NumbersNext
<1>5. Kept[w] = 0 /\ Kept'[w] = 0 /\ Part[w] = 0 /\ Part'[w] = 0
  BY <1>3, <1>4 DEF Quantities
<1>6. Keeps' = Keeps /\ Parts' = Parts
  BY <1>1, <1>4, <1>5, JobChange DEF Quantities
<1>7. Files' + Parts' <= Files + Parts
  BY <1>1, <1>4, <1>6, FilesStay DEF Quantities
<1> QED
  BY <1>1, <1>6, <1>7, SeenLess, CountOfJob

LEMMA FailJobCounted ==
    ASSUME Structure, Structure', Counted, NEW w \in Writers, FailJob(w)
    PROVE  Counted'
<1>1. /\ job \in [Writers -> JobType] /\ job[w].state \notin {"written", "failed"}
      /\ UNCHANGED <<file, loose, unseen, used, reserved, missed, prune>>
  BY DEF Structure, Shape, FailJob
<1>2. /\ job'[w].state = "failed" /\ job'[w].got = job[w].got /\ job'[w].entry = job[w].entry
      /\ \A v \in Writers : v # w => job'[v] = job[v]
  BY <1>1 DEF FailJob, SetState, JobType
<1>3. Held(w)' = Held(w)
  BY <1>2 DEF Held
<1>4. Quantities /\ Quantities'
  BY Numbers, NumbersNext
<1>5. Kept'[w] = Kept[w] /\ Part'[w] = 0 /\ Part[w] \in Nat /\ Kept[w] \in Nat
  BY <1>2, <1>3, <1>4 DEF Quantities
<1>6. Keeps' = Keeps /\ Parts' <= Parts
  <2>1. Keeps' = Keeps - Kept[w] + Kept'[w] /\ Parts' = Parts - Part[w] + Part'[w]
    BY <1>2, JobChange
  <2>2. QED
    BY <1>4, <1>5, <2>1 DEF Quantities
<1>7. Files' + Parts' <= Files + Parts
  <2> PICK f, p, q : f = Files /\ p = Parts /\ q = Parts'
    OBVIOUS
  <2>1. f \in Nat /\ p \in Nat /\ q \in Nat /\ q <= p
    BY <1>4, <1>6 DEF Quantities
  <2>2. f + q <= f + p
    BY ONLY <2>1
  <2>3. Files' = f
    BY <1>1, FilesStay
  <2>4. QED
    BY <2>2, <2>3
<1> QED
  BY <1>1, <1>6, <1>7, SeenLess, CountOfJob

LEMMA PublishCounted ==
    ASSUME Structure, Structure', Counted, NEW w \in Writers, Publish(w)
    PROVE  Counted'
<1>1. /\ job \in [Writers -> JobType] /\ job[w].state = "write"
      /\ UNCHANGED <<used, reserved, missed>> /\ Shape
  BY DEF Structure, Shape, Publish
<1>2. /\ job'[w].state = "written" /\ job'[w].got = job[w].got /\ job'[w].entry = job[w].entry
      /\ \A v \in Writers : v # w => job'[v] = job[v]
  BY <1>1 DEF Publish, SetState, JobType
<1>3. Held(w)' = Held(w)
  BY <1>2 DEF Held
<1>4. Quantities /\ Quantities'
  BY Numbers, NumbersNext
<1> PICK e : e = job[w].entry
  OBVIOUS
<1>5. e \in Entries /\ Held(w) = Size(e)
  BY <1>1, HeldIs
<1>6. Size(e) \in Nat /\ file[e] \in Nat
  BY <1>5, Sizes DEF Structure, Shape
<1>7. /\ Kept'[w] = Kept[w] /\ Kept[w] \in Nat /\ Part'[w] = 0 /\ Part[w] = Size(e)
  BY <1>1, <1>2, <1>3, <1>4, <1>5 DEF Quantities
<1>8. Keeps' = Keeps /\ Parts' = Parts - Size(e)
  <2>1. Keeps' = Keeps - Kept[w] + Kept'[w] /\ Parts' = Parts - Part[w] + Part'[w]
    BY <1>2, JobChange
  <2>2. QED
    BY <1>4, <1>6, <1>7, <2>1 DEF Quantities
<1>9. Files' = Files - file[e] + Size(e)
  BY <1>5, <1>6, OneFile DEF Publish
<1>10. Files' + Parts' <= Files + Parts
  BY <1>4, <1>6, <1>8, <1>9 DEF Quantities
<1>11. /\ prune'.step = prune.step /\ prune'.todo = prune.todo /\ prune'.left = prune.left
       /\ prune'.target = prune.target /\ prune'.since = prune.since
       /\ loose' \ unseen' \subseteq loose \ unseen
  <2>1. {Ready(p) : p \in Plans \cap {e}} \in SUBSET Loose
    BY DEF Loose
  <2>2. QED
    BY <1>1, <2>1, AddIs DEF Publish, Add
<1> QED
  BY <1>1, <1>8, <1>10, <1>11, SeenLess, CountOfJob

(* Small files, which nothing counts.                                      *)
LEMMA WriteLooseCounted ==
    ASSUME Structure, Structure', Counted, NEW w \in Writers, job[w].state \in {"report", "input"},
           NEW S \in SUBSET Loose, WriteLoose(w, S)
    PROVE  Counted'
<1>1. /\ job \in [Writers -> JobType] /\ Shape /\ JobRight(w)
      /\ UNCHANGED <<file, used, reserved, missed>>
  BY DEF Structure, Shape, WriteLoose
<1>2. /\ job'[w].got = 0 /\ job[w].got = 0
      /\ \A v \in Writers : v # w => job'[v] = job[v]
  BY <1>1 DEF WriteLoose, SetState, JobType, JobRight
<1>3. Held(w) = 0 /\ Held(w)' = 0
  BY <1>2 DEF Held
<1>4. Quantities /\ Quantities'
  BY Numbers, NumbersNext
<1>5. Kept[w] = 0 /\ Kept'[w] = 0 /\ Part[w] = 0 /\ Part'[w] = 0
  BY <1>3, <1>4 DEF Quantities
<1>6. Keeps' = Keeps /\ Parts' = Parts
  BY <1>2, <1>4, <1>5, JobChange DEF Quantities
<1>7. Files' + Parts' <= Files + Parts
  BY <1>1, <1>4, <1>6, FilesStay DEF Quantities
<1>8. /\ prune'.step = prune.step /\ prune'.todo = prune.todo /\ prune'.left = prune.left
      /\ prune'.target = prune.target /\ prune'.since = prune.since
      /\ loose' \ unseen' \subseteq loose \ unseen
  <2>1. CASE Add(S)
    BY <1>1, <2>1, AddIs DEF Add
  <2>2. CASE UNCHANGED <<loose, unseen, prune>>
    BY <2>2
  <2>3. QED
    BY <2>1, <2>2 DEF WriteLoose
<1> QED
  BY <1>1, <1>6, <1>7, <1>8, SeenLess, CountOfJob


LEMMA ReserveCounted ==
    ASSUME Structure, Structure', Counted, NEW w \in Writers, Reserve(w)
    PROVE  Counted'
<1>1. /\ job \in [Writers -> JobType] /\ job[w].state = "reserve" /\ job[w].got \in Nat
      /\ UNCHANGED <<file, loose, unseen, used, missed, prune>>
  BY DEF Structure, Shape, Reserve, JobType
<1>2. Quantities /\ Quantities' /\ Limit \in Nat
  BY Numbers, NumbersNext, CacheAssumption
<1> PICK e, n, c : e = job[w].entry /\ n = job[w].got /\ c = Chunk[e]
  OBVIOUS
<1>3. e \in Entries /\ c \in Nat /\ Held(w) = n * c
  <2>1. e \in Entries /\ Held(w) = n * c
    BY <1>1, HeldIs
  <2>2. QED
    BY <2>1, Sizes
<1>4. CASE ~ Fits(c)
  <2>1. /\ job'[w].got = job[w].got /\ job'[w].entry = job[w].entry
        /\ \A v \in Writers : v # w => job'[v] = job[v]
        /\ reserved' = reserved
    BY <1>1, <1>4 DEF Reserve, SetState, JobType
  <2>2. Held(w)' = Held(w)
    BY <2>1 DEF Held
  <2>3. Kept'[w] = Kept[w] /\ Kept[w] \in Nat /\ Part[w] = Kept[w] /\ Part'[w] \in {0, Kept[w]}
    BY <1>1, <1>2, <2>2 DEF Quantities
  <2>4. Keeps' = Keeps /\ Parts' <= Parts
    <3>1. Keeps' = Keeps - Kept[w] + Kept'[w] /\ Parts' = Parts - Part[w] + Part'[w]
      BY <2>1, JobChange
    <3>2. QED
      BY <1>2, <2>3, <3>1 DEF Quantities
  <2>5. Files' + Parts' <= Files + Parts
    <3> PICK f, p, q : f = Files /\ p = Parts /\ q = Parts'
      OBVIOUS
    <3>1. f \in Nat /\ p \in Nat /\ q \in Nat /\ q <= p
      BY <1>2, <2>4 DEF Quantities
    <3>2. f + q <= f + p
      BY ONLY <3>1
    <3>3. Files' = f
      BY <1>1, FilesStay
    <3>4. QED
      BY <3>2, <3>3
  <2>6. QED
    BY <1>1, <2>1, <2>4, <2>5, SeenLess, CountOfJob
<1>5. CASE Fits(c)
  <2>1. /\ job'[w].got = n + 1 /\ job'[w].entry = e /\ job'[w].state \in {"reserve", "write"}
        /\ \A v \in Writers : v # w => job'[v] = job[v]
        /\ reserved' = reserved + c
    BY <1>1, <1>5 DEF Reserve, JobType
  <2>2. Held(w)' = Held(w) + c
    <3>1. Held(w)' = (n + 1) * c
      BY <1>1, <2>1 DEF Held
    <3>2. \A a, b \in Nat : (a + 1) * b = a * b + b
      OBVIOUS
    <3>3. QED
      BY <1>1, <1>3, <3>1, <3>2
  <2>3. Kept'[w] = Kept[w] + c /\ Kept[w] \in Nat /\ Part[w] = Kept[w] /\ Part'[w] = Kept[w] + c
    BY <1>1, <1>2, <2>1, <2>2 DEF Quantities
  <2>4. Keeps' = Keeps + c /\ Parts' = Parts + c /\ Files' = Files /\ Seen' = Seen
    <3>1. Keeps' = Keeps - Kept[w] + Kept'[w] /\ Parts' = Parts - Part[w] + Part'[w]
      BY <2>1, JobChange
    <3>2. Keeps' = Keeps + c /\ Parts' = Parts + c
      BY <1>2, <1>3, <2>3, <3>1 DEF Quantities
    <3>3. QED
      BY <1>1, <3>2, FilesStay DEF Seen, Weight, Bytes
  <2>5. used + reserved + c <= Limit
    BY <1>5 DEF Fits
  <2>6. Scanned' = Scanned /\ Leaving' = Leaving /\ Listed' = Listed
    BY <1>1 DEF Scanned, Leaving, Listed
  <2> PICK a, f, p, v, u, r, m, l, s, lim :
          /\ a = Seen /\ f = Files /\ p = Parts /\ v = Leaving /\ u = used /\ r = reserved /\ m = missed
          /\ l = prune.left /\ s = prune.since /\ lim = Limit
    OBVIOUS
  <2>7. /\ a \in Nat /\ f \in Nat /\ p \in Nat /\ v \in Nat /\ u \in Nat /\ r \in Nat /\ m \in Nat
        /\ l \in Nat /\ s \in Nat /\ lim \in Nat
    BY <1>2 DEF Quantities, Counted
  <2>8. /\ f + p + a <= u + r + m /\ (Scanned => f + p + v <= l + r + s)
        /\ s <= u /\ m <= lim /\ u + r + c <= lim
    BY <2>5 DEF Counted
  <2>9. /\ f + (p + c) + a <= u + (r + c) + m /\ (Scanned => f + (p + c) + v <= l + (r + c) + s)
        /\ r + c <= lim /\ s + (r + c) <= lim /\ f + (p + c) <= 2 * lim
    BY ONLY <1>3, <2>7, <2>8
  <2>10. (Scanned => Files + Parts + Leaving <= prune.left + reserved + prune.since)'
    BY <1>1, <2>1, <2>4, <2>6, <2>9
  <2>11. (/\ Files + Parts + Seen <= used + reserved + missed /\ Files + Parts <= 2 * Limit
          /\ reserved <= Limit /\ prune.since + reserved <= Limit)'
    BY <1>1, <2>1, <2>4, <2>9
  <2>12. (/\ used \in Nat /\ missed \in Nat /\ prune.left \in Nat /\ prune.since \in Nat
          /\ prune.target \in Nat /\ (~Scanned => prune.since = 0)
          /\ prune.since <= used /\ missed <= Limit)'
    BY <1>1, <2>6 DEF Counted
  <2>13. reserved' = Keeps'
    BY <2>1, <2>4 DEF Counted
  <2>14. (IsFiniteSet(Listed) /\ Cardinality(Listed) <= prune.left)'
    BY <1>1, <2>6 DEF Counted
  <2>15. QED
    BY <2>10, <2>11, <2>12, <2>13, <2>14 DEF Counted
<1> QED
  BY <1>4, <1>5

LEMMA ReleaseCounted ==
    ASSUME Structure, Structure', Counted, NEW w \in Writers, Release(w)
    PROVE  Counted'
<1>1. /\ job \in [Writers -> JobType] /\ job[w].state \in {"written", "failed"} /\ prune \in PruneType
      /\ UNCHANGED <<file, loose, unseen, missed>>
  BY DEF Structure, Shape, Release
<1>2. Quantities /\ Quantities' /\ Limit \in Nat
  BY Numbers, NumbersNext, CacheAssumption
<1> PICK h : h = Held(w)
  OBVIOUS
<1>3. h \in Nat
  BY HeldIs
<1>4. /\ job'[w].state \in {"unlock", "report"} /\ job'[w].got = 0
      /\ \A v \in Writers : v # w => job'[v] = job[v]
      /\ used' = used + h /\ reserved' = reserved - h
  BY <1>1 DEF Release, UsedAfter, JobType
<1>5. Held(w)' = 0
  BY <1>4 DEF Held
<1>6. Kept[w] = h /\ Kept'[w] = 0 /\ Part[w] = 0 /\ Part'[w] = 0
  BY <1>1, <1>2, <1>4, <1>5 DEF Quantities
<1>7. Keeps' = Keeps - h /\ Parts' = Parts /\ Files' = Files /\ Seen' = Seen
  <2>1. Keeps' = Keeps - Kept[w] + Kept'[w] /\ Parts' = Parts - Part[w] + Part'[w]
    BY <1>4, JobChange
  <2>2. Keeps' = Keeps - h /\ Parts' = Parts
    BY <1>2, <1>3, <1>6, <2>1 DEF Quantities
  <2>3. QED
    BY <1>1, <2>2, FilesStay DEF Seen, Weight, Bytes
<1>8. /\ prune'.step = prune.step /\ prune'.todo = prune.todo /\ prune'.left = prune.left
      /\ prune'.target = prune.target
      /\ Scanned => prune'.since = prune.since + h
      /\ ~Scanned => prune'.since = prune.since
  BY <1>1 DEF Release, Scanned, PruneType
<1>9. Scanned' = Scanned /\ Leaving' = Leaving /\ Listed' = Listed
  BY <1>8 DEF Scanned, Leaving, Listed
<1> PICK a, f, p, v, u, r, m, l, s, t, lim :
        /\ a = Seen /\ f = Files /\ p = Parts /\ v = Leaving /\ u = used /\ r = reserved /\ m = missed
        /\ l = prune.left /\ s = prune.since /\ t = prune'.since /\ lim = Limit
  OBVIOUS
<1>10. /\ a \in Nat /\ f \in Nat /\ p \in Nat /\ v \in Nat /\ u \in Nat /\ r \in Nat /\ m \in Nat
       /\ l \in Nat /\ s \in Nat /\ lim \in Nat
  BY <1>2 DEF Quantities, Counted
<1>11. /\ f + p + a <= u + r + m /\ (Scanned => f + p + v <= l + r + s) /\ f + p <= 2 * lim
       /\ s <= u /\ s + r <= lim /\ r <= lim /\ (~Scanned => s = 0)
  BY DEF Counted
<1>12. (Scanned => t = s + h) /\ (~Scanned => t = s) /\ r - h \in Nat
  <2>1. reserved' \in Nat
    BY <1>2, <1>4, <1>7 DEF Counted, Quantities
  <2>2. QED
    BY <1>4, <1>8, <2>1
<1>13. CASE Scanned
  <2>1. /\ t \in Nat /\ f + p + a <= (u + h) + (r - h) + m /\ f + p + v <= l + (r - h) + t
        /\ t <= u + h /\ t + (r - h) <= lim /\ r - h <= lim
    BY ONLY <1>3, <1>10, <1>11, <1>12, <1>13
  <2>2. (/\ Files + Parts + Seen <= used + reserved + missed /\ Files + Parts <= 2 * Limit
         /\ Files + Parts + Leaving <= prune.left + reserved + prune.since
         /\ reserved <= Limit /\ prune.since + reserved <= Limit
         /\ prune.since <= used /\ prune.since \in Nat)'
    BY <1>1, <1>4, <1>7, <1>8, <1>9, <1>11, <2>1
  <2>3. (used \in Nat)'
    BY <1>3, <1>4 DEF Counted
  <2>4. reserved' = Keeps'
    BY <1>4, <1>7 DEF Counted
  <2>5. (/\ missed \in Nat /\ prune.left \in Nat /\ prune.target \in Nat /\ missed <= Limit
         /\ IsFiniteSet(Listed) /\ Cardinality(Listed) <= prune.left)'
    BY <1>1, <1>8, <1>9 DEF Counted
  <2>6. QED
    BY <1>9, <1>13, <2>2, <2>3, <2>4, <2>5 DEF Counted
<1>14. CASE ~Scanned
  <2>1. /\ t \in Nat /\ t = 0 /\ f + p + a <= (u + h) + (r - h) + m
        /\ t <= u + h /\ t + (r - h) <= lim /\ r - h <= lim
    BY ONLY <1>3, <1>10, <1>11, <1>12, <1>14
  <2>2. (/\ Files + Parts + Seen <= used + reserved + missed /\ Files + Parts <= 2 * Limit
         /\ prune.since = 0 /\ prune.since \in Nat
         /\ reserved <= Limit /\ prune.since + reserved <= Limit
         /\ prune.since <= used)'
    BY <1>1, <1>4, <1>7, <1>8, <1>11, <2>1
  <2>3. (used \in Nat)'
    BY <1>3, <1>4 DEF Counted
  <2>4. reserved' = Keeps'
    BY <1>4, <1>7 DEF Counted
  <2>5. (/\ missed \in Nat /\ prune.left \in Nat /\ prune.target \in Nat /\ missed <= Limit
         /\ IsFiniteSet(Listed) /\ Cardinality(Listed) <= prune.left)'
    BY <1>1, <1>8, <1>9 DEF Counted
  <2>6. QED
    BY <1>9, <1>14, <2>2, <2>3, <2>4, <2>5 DEF Counted
<1> QED
  BY <1>13, <1>14
(***************************************************************************)
(* The prune                                                               *)
(***************************************************************************)
LEMMA JobsUnchanged ==
    ASSUME Structure, Structure', UNCHANGED job
    PROVE  Keeps' = Keeps /\ Parts' = Parts
<1>1. Quantities /\ Quantities'
  BY Numbers, NumbersNext
<1>2. \A w \in Writers : Held(w)' = Held(w)
  BY DEF Held
<1> QED
  BY <1>1, <1>2, SameJobs DEF Quantities

LEMMA StartPruneCounted ==
    ASSUME Structure, Structure', Counted, NEW x \in Pruners, StartPrune(x)
    PROVE  Counted'
<1>1. UNCHANGED <<file, loose, unseen, used, reserved, missed, job>>
  BY DEF StartPrune
<1>2. /\ prune'.step = "scan" /\ prune'.todo = <<>>
      /\ prune'.left = 0 /\ prune'.target = 0 /\ prune'.since = 0
  BY DEF StartPrune, NoPrune
<1>3. Keeps' = Keeps /\ Parts' = Parts /\ Files' = Files /\ Seen' = Seen
  BY <1>1, JobsUnchanged, FilesStay DEF Seen, Weight, Bytes
<1>4. Listed' = {} /\ ~Scanned'
  BY <1>2 DEF Listed, Scanned
<1>5. (IsFiniteSet(Listed) /\ Cardinality(Listed) <= prune.left)'
  <2>1. IsFiniteSet({}) /\ Cardinality({}) = 0
    BY FS_EmptySet
  <2>2. QED
    BY <1>2, <1>4, <2>1
<1>6. (/\ used \in Nat /\ missed \in Nat /\ prune.left \in Nat /\ prune.since \in Nat
       /\ prune.target \in Nat /\ reserved = Keeps
       /\ Files + Parts + Seen <= used + reserved + missed
       /\ reserved <= Limit /\ missed <= Limit /\ Files + Parts <= 2 * Limit)'
  BY <1>1, <1>2, <1>3 DEF Counted
<1>7. (prune.since + reserved <= Limit /\ prune.since <= used)'
  <2>1. used \in Nat /\ reserved \in Nat /\ reserved <= Limit
    <3>1. Keeps \in Nat
      BY Numbers DEF Quantities
    <3>2. QED
      BY <3>1 DEF Counted
  <2>2. QED
    BY <1>1, <1>2, <2>1
<1> QED
  BY <1>2, <1>4, <1>5, <1>6, <1>7 DEF Counted

LEMMA ScanCounted ==
    ASSUME Structure, Structure', Counted, Scan
    PROVE  Counted'
<1>1. UNCHANGED <<file, loose, unseen, used, reserved, missed, job>> /\ prune.step = "scan"
  BY DEF Scan
<1>2. /\ prune'.step = "target" /\ prune'.left = Files /\ prune'.target = prune.target
      /\ prune'.since = prune.since
      /\ prune'.todo = [i \in DOMAIN age |->
                           [entry |-> age[i], size |-> file[age[i]],
                            loose |-> {x \in loose : x[1] = age[i]}]]
  BY DEF Scan, Structure, Shape, PruneType, Files
<1>3. Keeps' = Keeps /\ Parts' = Parts /\ Files' = Files /\ Seen' = Seen
  BY <1>1, JobsUnchanged, FilesStay DEF Seen, Weight, Bytes
<1>4. Scanned' /\ Leaving' = 0 /\ ~Scanned
  BY <1>1, <1>2 DEF Leaving, Scanned
<1>5. IsFiniteSet(Bytes(file))
  BY CacheAssumption, BytesFinite DEF Structure, Shape
<1>6. Listed' \subseteq Bytes(file)
  <2> SUFFICES ASSUME NEW i \in DOMAIN age
               PROVE  {age[i]} \X (1 .. file[age[i]]) \subseteq Bytes(file)
    BY <1>2 DEF Listed
  <2>1. age[i] \in Entries /\ DOMAIN file = Entries
    BY DEF Structure, Shape
  <2>2. QED
    BY <2>1 DEF Bytes
<1>7. (IsFiniteSet(Listed) /\ Cardinality(Listed) <= prune.left)'
  <2>1. IsFiniteSet(Listed') /\ Cardinality(Listed') <= Cardinality(Bytes(file))
    BY <1>5, <1>6, FS_Subset
  <2>2. QED
    BY <1>2, <2>1 DEF Files
<1>8. prune.since = 0 /\ reserved = Keeps /\ Files \in Nat /\ Parts \in Nat /\ Keeps \in Nat /\ Parts <= Keeps
  BY <1>4, Numbers DEF Counted, Quantities
<1>9. Files + Parts <= Files + reserved + 0
  BY <1>8
<1>10. (Files + Parts + Leaving <= prune.left + reserved + prune.since)'
  <2>1. Files + Parts + 0 <= Files + reserved + 0
    BY <1>8
  <2>2. QED
    BY <1>1, <1>2, <1>3, <1>4, <1>8, <2>1
<1>11. (/\ used \in Nat /\ missed \in Nat /\ prune.left \in Nat /\ prune.since \in Nat
        /\ prune.target \in Nat /\ reserved = Keeps
        /\ Files + Parts + Seen <= used + reserved + missed
        /\ reserved <= Limit /\ missed <= Limit /\ Files + Parts <= 2 * Limit
        /\ prune.since + reserved <= Limit /\ prune.since <= used)'
  BY <1>1, <1>2, <1>3, <1>8 DEF Counted
<1> QED
  BY <1>4, <1>7, <1>10, <1>11 DEF Counted

(* A step of the prune that removes no file and leaves its sums alone.     *)
LEMMA LookingCounted ==
    ASSUME Structure, Structure', Counted, UNCHANGED <<file, loose, unseen, used, reserved, missed, job>>,
           prune'.left = prune.left, prune'.since = prune.since, prune'.target \in Nat,
           prune.step \notin {"none", "scan", "drop"}, prune'.step \notin {"none", "scan", "drop"},
           Listed' \subseteq Listed
    PROVE  Counted'
<1>0. Seen' = Seen /\ Seen \in Nat
  BY Numbers DEF Quantities, Seen, Weight, Bytes
<1>1. Keeps' = Keeps /\ Parts' = Parts /\ Files' = Files
  BY JobsUnchanged, FilesStay
<1>2. Scanned /\ Scanned' /\ Leaving = 0 /\ Leaving' = 0
  BY DEF Scanned, Leaving
<1>3. IsFiniteSet(Listed) /\ Cardinality(Listed) <= prune.left /\ prune.left \in Nat
  BY DEF Counted
<1>4. IsFiniteSet(Listed') /\ Cardinality(Listed') <= Cardinality(Listed)
  BY <1>3, FS_Subset
<1>5. Cardinality(Listed') \in Nat /\ Cardinality(Listed) \in Nat
  BY <1>3, <1>4, FS_CardinalityType
<1>6. Cardinality(Listed') <= prune'.left
  BY <1>3, <1>4, <1>5
<1>7. Files \in Nat /\ Parts \in Nat
  BY Numbers DEF Quantities
<1>8. /\ Files' + Parts' <= Files + Parts
      /\ Files' + Parts' + Leaving' + prune.left <= Files + Parts + Leaving + prune'.left
  BY <1>1, <1>2, <1>3, <1>7
<1> QED
  BY <1>0, <1>1, <1>2, <1>3, <1>4, <1>6, <1>8, CountStays

LEMMA ReadTargetCounted ==
    ASSUME Structure, Structure', Counted, ReadTarget
    PROVE  Counted'
<1>1. UNCHANGED <<file, loose, unseen, used, reserved, missed, job>> /\ prune.step = "target"
  BY DEF ReadTarget
<1> PICK n : n = Target
  OBVIOUS
<1>2. n \in Nat
  BY Numbers, TargetIs DEF Counted, Quantities
<1>3. prune \in PruneType /\ prune' = [prune EXCEPT !.step = "next", !.target = n]
  BY DEF ReadTarget, Structure, Shape
<1>4. /\ prune'.step = "next" /\ prune'.left = prune.left /\ prune'.since = prune.since
      /\ prune'.target = n /\ prune'.todo = prune.todo
  BY ONLY <1>3 DEF PruneType
<1>5. Listed' = Listed
  BY <1>4 DEF Listed
<1> QED
  BY <1>1, <1>2, <1>4, <1>5, LookingCounted

LEMMA OpenVictimCounted ==
    ASSUME Structure, Structure', Counted, OpenVictim
    PROVE  Counted'
<1>1. UNCHANGED <<file, loose, unseen, used, reserved, missed, job>> /\ prune.step = "next"
  BY DEF OpenVictim
<1>2. /\ prune'.step = "opened" /\ prune'.left = prune.left /\ prune'.since = prune.since
      /\ prune'.target = prune.target /\ prune'.todo = prune.todo
  BY DEF OpenVictim, Structure, Shape, PruneType
<1>3. Listed' = Listed /\ prune.target \in Nat
  BY <1>2 DEF Listed, Counted
<1> QED
  BY <1>1, <1>2, <1>3, LookingCounted

(* The bytes listed are those of the first entry and those of the rest.    *)
LEMMA ListedSplit ==
    ASSUME Structure, prune.todo # <<>>, prune'.todo = Tail(prune.todo)
    PROVE  /\ Listed = ({prune.todo[1].entry} \X (1 .. prune.todo[1].size)) \cup Listed'
           /\ ({prune.todo[1].entry} \X (1 .. prune.todo[1].size)) \cap Listed' = {}
<1> PICK s, t : s = prune.todo /\ t = Tail(prune.todo)
  OBVIOUS
<1>1. s \in Seq(TodoType)
  BY DEF Structure, Shape, PruneType
<1>2. /\ \A i \in DOMAIN t : i + 1 \in DOMAIN s /\ i \in Nat \ {0} /\ t[i] = s[i + 1]
      /\ \A i \in DOMAIN s : i \in Nat \ {0} /\ (i # 1 => i - 1 \in DOMAIN t)
  BY <1>1, TailIs
<1>3. \A i, j \in DOMAIN s : s[i].entry = s[j].entry => i = j
  BY DEF Structure, PruneRight
<1>4. 1 \in DOMAIN s
  BY VictimIs DEF Structure
<1> DEFINE U(i) == {s[i].entry} \X (1 .. s[i].size)
           V(i) == {t[i].entry} \X (1 .. t[i].size)
<1>5. Listed = UNION {U(i) : i \in DOMAIN s} /\ Listed' = UNION {V(i) : i \in DOMAIN t}
  BY DEF Listed
<1>6. \A i \in DOMAIN t : V(i) = U(i + 1)
  BY <1>2
<1>7. \A i \in DOMAIN s : i # 1 => U(i) = V(i - 1) /\ i - 1 \in DOMAIN t
  <2> SUFFICES ASSUME NEW i \in DOMAIN s, i # 1
               PROVE  U(i) = V(i - 1) /\ i - 1 \in DOMAIN t
    OBVIOUS
  <2>1. i - 1 \in DOMAIN t /\ (i - 1) + 1 = i
    BY <1>2
  <2>2. t[i - 1] = s[i]
    BY <1>2, <2>1
  <2>3. QED
    BY <2>1, <2>2
<1>8. \A i \in DOMAIN t : U(1) \cap V(i) = {}
  <2> SUFFICES ASSUME NEW i \in DOMAIN t
               PROVE  U(1) \cap V(i) = {}
    OBVIOUS
  <2>1. i + 1 \in DOMAIN s /\ i + 1 # 1 /\ t[i] = s[i + 1]
    BY <1>2
  <2>2. s[1].entry # t[i].entry
    BY <1>3, <1>4, <2>1
  <2>3. QED
    BY <2>2
<1> HIDE DEF U, V
<1>9. Listed = U(1) \cup Listed' /\ U(1) \cap Listed' = {}
  <2>1. \A x : x \in Listed => x \in U(1) \cup Listed'
    BY <1>5, <1>7
  <2>2. \A x : x \in U(1) \cup Listed' => x \in Listed
    BY <1>2, <1>4, <1>5, <1>6
  <2>3. \A x : ~ (x \in U(1) /\ x \in Listed')
    BY <1>5, <1>8
  <2>4. QED
    BY <2>1, <2>2, <2>3
<1> QED
  BY <1>9 DEF U

LEMMA LockVictimCounted ==
    ASSUME Structure, Structure', Counted, LockVictim
    PROVE  Counted'
<1>1. UNCHANGED <<file, loose, unseen, used, reserved, missed, job>> /\ prune.step = "opened" /\ prune \in PruneType
  BY DEF LockVictim, Structure, Shape
<1>2. prune.target \in Nat
  BY DEF Counted
<1>3. CASE prune' = [prune EXCEPT !.step = "remove"]
  <2>1. /\ prune'.step = "remove" /\ prune'.left = prune.left /\ prune'.since = prune.since
        /\ prune'.target = prune.target /\ prune'.todo = prune.todo
    BY <1>1, <1>3 DEF PruneType
  <2>2. Listed' = Listed
    BY <2>1 DEF Listed
  <2>3. QED
    BY <1>1, <1>2, <2>1, <2>2, LookingCounted
<1>4. CASE prune' = [prune EXCEPT !.step = "next", !.inode = None, !.todo = Tail(@)]
  <2>1. /\ prune'.step = "next" /\ prune'.left = prune.left /\ prune'.since = prune.since
        /\ prune'.target = prune.target /\ prune'.todo = Tail(prune.todo)
    BY <1>1, <1>4 DEF PruneType
  <2>2. prune.todo # <<>>
    BY <1>1 DEF Structure, PruneRight
  <2>3. Listed' \subseteq Listed
    BY <2>1, <2>2, ListedSplit
  <2>4. QED
    BY <1>1, <1>2, <2>1, <2>3, LookingCounted
<1> QED
  BY <1>3, <1>4 DEF LockVictim

LEMMA RemoveVictimCounted ==
    ASSUME Structure, Structure', Counted, RemoveVictim
    PROVE  Counted'
<1>1. /\ UNCHANGED <<used, reserved, missed, job>> /\ prune.step = "remove"
      /\ prune'.step = "drop" /\ prune'.left = prune.left /\ prune'.since = prune.since
      /\ prune'.target = prune.target /\ prune'.todo = prune.todo
  BY DEF RemoveVictim, Structure, Shape, PruneType
<1> PICK e, n : e = Victim /\ n = Head(prune.todo).size
  OBVIOUS
<1>2. /\ prune.todo # <<>> /\ e \in Entries /\ n \in Nat
      /\ 1 \in DOMAIN prune.todo /\ prune.todo[1].entry = e /\ prune.todo[1].size = n
  BY <1>1, VictimIs DEF Structure, PruneRight
<1>3. n # 0 => file[e] = n
  BY <1>1, <1>2 DEF Structure, PruneRight
<1>4. Keeps' = Keeps /\ Parts' = Parts
  BY <1>1, JobsUnchanged
<1>5. Scanned' = Scanned /\ Leaving = 0 /\ Leaving' = n /\ Listed' = Listed
  BY <1>1 DEF Scanned, Leaving, Listed
<1>6. Files \in Nat /\ Parts \in Nat /\ Files' \in Nat
  BY Numbers, NumbersNext DEF Quantities
<1>7. Files' = Files - n
  <2>1. CASE n = 0
    <3>1. file' = file
      BY <2>1 DEF RemoveVictim
    <3>2. QED
      BY <1>6, <2>1, <3>1, FilesStay
  <2>2. CASE n # 0
    <3>1. file' = [file EXCEPT ![e] = 0]
      BY <1>2, <2>2 DEF RemoveVictim
    <3>2. Files' = Files - file[e] + 0
      BY <1>2, <3>1, OneFile
    <3>3. QED
      BY <1>2, <1>3, <1>6, <2>2, <3>2
  <2>3. QED
    BY <2>1, <2>2
<1>8. /\ prune.left \in Nat /\ prune.target \in Nat
      /\ IsFiniteSet(Listed) /\ Cardinality(Listed) <= prune.left
  BY DEF Counted
<1>9. /\ Files' + Parts' <= Files + Parts
      /\ Files' + Parts' + Leaving' + prune.left <= Files + Parts + Leaving + prune'.left
  <2> PICK f, p, l : f = Files /\ p = Parts /\ l = prune.left
    OBVIOUS
  <2>1. f \in Nat /\ p \in Nat /\ l \in Nat /\ n \in Nat
    BY <1>2, <1>6, <1>8
  <2>2. Files' = f - n /\ Parts' = p /\ Leaving' = n /\ Leaving = 0 /\ prune'.left = l
    BY <1>1, <1>4, <1>5, <1>7
  <2>3. (f - n) + p <= f + p /\ (f - n) + p + n + l <= f + p + 0 + l
    BY ONLY <2>1
  <2>4. QED
    BY <2>2, <2>3
<1> QED
  BY <1>1, <1>4, <1>5, <1>8, <1>9, SeenLess, CountStays DEF RemoveVictim

LEMMA DropVictimCounted ==
    ASSUME Structure, Structure', Counted, DropVictim
    PROVE  Counted'
<1> PICK n : n = Head(prune.todo).size
  OBVIOUS
<1>1. /\ UNCHANGED <<file, loose, unseen, used, reserved, missed, job>> /\ prune.step = "drop"
      /\ prune'.step = "next" /\ prune'.left = prune.left - n /\ prune'.since = prune.since
      /\ prune'.target = prune.target /\ prune'.todo = Tail(prune.todo)
  BY DEF DropVictim, Structure, Shape, PruneType
<1>2. prune.todo # <<>> /\ n \in Nat /\ prune.todo[1].size = n
  BY <1>1, VictimIs DEF Structure, PruneRight
<1>3. Keeps' = Keeps /\ Parts' = Parts /\ Files' = Files /\ Seen' = Seen
  BY <1>1, JobsUnchanged, FilesStay DEF Seen, Weight, Bytes
<1>4. Scanned' = Scanned /\ Leaving = n /\ Leaving' = 0
  BY <1>1 DEF Scanned, Leaving
<1>5. /\ prune.left \in Nat /\ prune.target \in Nat
      /\ IsFiniteSet(Listed) /\ Cardinality(Listed) <= prune.left
  BY DEF Counted
<1>6. IsFiniteSet(Listed') /\ Cardinality(Listed') \in Nat /\ Cardinality(Listed) = n + Cardinality(Listed')
  <2> PICK U : U = {prune.todo[1].entry} \X (1 .. n)
    OBVIOUS
  <2>1. Listed = U \cup Listed' /\ U \cap Listed' = {}
    BY <1>1, <1>2, ListedSplit
  <2>2. IsFiniteSet(U) /\ Cardinality(U) = n
    BY <1>2, UnitsOfOne
  <2>3. IsFiniteSet(Listed') /\ Cardinality(Listed') \in Nat
    BY <1>5, <2>1, FS_Subset, FS_CardinalityType
  <2>4. Cardinality(U \cup Listed') = Cardinality(U) + Cardinality(Listed') - Cardinality(U \cap Listed')
    BY <2>2, <2>3, FS_Union
  <2>5. Cardinality(U \cap Listed') = 0 /\ Cardinality(Listed) = Cardinality(U \cup Listed')
    BY <2>1, FS_EmptySet
  <2>6. QED
    BY <1>2, <2>2, <2>3, <2>4, <2>5
<1>7. prune'.left \in Nat /\ Cardinality(Listed') <= prune'.left
  BY <1>1, <1>2, <1>5, <1>6
<1>8. Files \in Nat /\ Parts \in Nat
  BY Numbers DEF Quantities
<1>9. /\ Files' + Parts' <= Files + Parts
      /\ Files' + Parts' + Leaving' + prune.left <= Files + Parts + Leaving + prune'.left
  <2>1. \A f, p, l \in Nat : f + p <= f + p /\ f + p + 0 + l <= f + p + n + (l - n)
    BY <1>2
  <2>2. Leaving' = 0 /\ Leaving = n /\ prune'.left = prune.left - n /\ prune.left \in Nat
    BY <1>1, <1>4, <1>5
  <2>3. QED
    BY <1>3, <1>8, <2>1, <2>2
<1>10. Seen' <= Seen
  BY <1>1, SeenLess
<1> QED
  BY <1>1, <1>3, <1>4, <1>5, <1>6, <1>7, <1>9, <1>10, CountStays

LEMMA EndPruneCounted ==
    ASSUME Structure, Structure', LooseRight, Counted, EndPrune
    PROVE  Counted'
<1> PICK n : n = Weight(prune.kept)
  OBVIOUS
<1>1. /\ UNCHANGED <<file, loose, reserved>> /\ prune.step = "next"
      /\ used' = prune.left + n /\ missed' = prune.since /\ unseen' = prune.fresh
      /\ prune'.step = "none" /\ prune'.todo = <<>>
      /\ prune'.left = 0 /\ prune'.target = 0 /\ prune'.since = 0
  BY DEF EndPrune, NoPrune, SeenLeft
<1>2. Quantities /\ Quantities'
  BY Numbers, NumbersNext
<1>3. \A w \in Writers :
          /\ job'[w].got = job[w].got /\ job'[w].entry = job[w].entry
          /\ job'[w].state \in {"written", "failed"} <=> job[w].state \in {"written", "failed"}
  <2> SUFFICES ASSUME NEW w \in Writers
               PROVE  /\ job'[w].got = job[w].got /\ job'[w].entry = job[w].entry
                      /\ job'[w].state \in {"written", "failed"} <=>
                             job[w].state \in {"written", "failed"}
    OBVIOUS
  <2>1. job \in [Writers -> JobType]
    BY DEF Structure, Shape
  <2>2. CASE prune.by \in Writers
    <3>1. /\ job[prune.by].state = "full"
          /\ job' = [job EXCEPT ![prune.by].state = "reserve"]
      BY <2>2 DEF EndPrune, Structure, PruneRight, SetState
    <3>2. CASE w = prune.by
      BY <2>1, <2>2, <3>1, <3>2 DEF JobType
    <3>3. CASE w # prune.by
      BY <2>1, <2>2, <3>1, <3>3 DEF JobType
    <3>4. QED
      BY <3>2, <3>3
  <2>3. CASE prune.by \notin Writers
    BY <2>3 DEF EndPrune
  <2>4. QED
    BY <2>2, <2>3
<1>4. \A w \in Writers : Held(w)' = Held(w)
  BY <1>3 DEF Held
<1>5. Keeps' = Keeps /\ Parts' = Parts /\ Files' = Files
  BY <1>1, <1>2, <1>3, <1>4, SameJobs, FilesStay DEF Quantities
<1>6. Listed' = {} /\ ~Scanned' /\ Scanned /\ Leaving = 0
  BY <1>1 DEF Listed, Scanned, Leaving
<1>7. (IsFiniteSet(Listed) /\ Cardinality(Listed) <= prune.left)'
  <2>1. IsFiniteSet({}) /\ Cardinality({}) = 0
    BY FS_EmptySet
  <2>2. QED
    BY <1>1, <1>6, <2>1
<1>71. n \in Nat /\ Seen' \in Nat /\ Seen' <= n
  <2>1. prune.kept \in SUBSET Loose /\ loose \ prune.fresh \in SUBSET prune.kept
    BY <1>6 DEF Structure, Shape, PruneType, LooseRight
  <2>2. Seen' = Weight(loose \ prune.fresh)
    BY <1>1 DEF Seen, Weight, Bytes
  <2>3. QED
    BY <2>1, <2>2, WeightIs
<1> PICK a, f, p, r, l, s, lim :
        /\ a = Seen' /\ f = Files /\ p = Parts /\ r = reserved /\ l = prune.left /\ s = prune.since /\ lim = Limit
  OBVIOUS
<1>8. f \in Nat /\ p \in Nat /\ r \in Nat /\ l \in Nat /\ s \in Nat /\ lim \in Nat
  BY <1>2, CacheAssumption DEF Counted, Quantities
<1>9. f + p + 0 <= l + r + s /\ s + r <= lim /\ r <= lim /\ f + p <= 2 * lim
  BY <1>6 DEF Counted
<1>91. a \in Nat /\ n \in Nat /\ a <= n
  BY <1>71
<1>10. /\ f + p + a <= (l + n) + r + s /\ s <= lim /\ 0 + r <= lim /\ 0 <= l + n /\ l + n \in Nat
  BY ONLY <1>8, <1>9, <1>91
<1>11. (/\ used \in Nat /\ missed \in Nat /\ prune.left \in Nat /\ prune.since \in Nat
        /\ prune.target \in Nat
        /\ Files + Parts + Seen <= used + reserved + missed
        /\ reserved <= Limit /\ missed <= Limit /\ Files + Parts <= 2 * Limit
        /\ prune.since + reserved <= Limit /\ prune.since <= used)'
  BY <1>1, <1>5, <1>8, <1>9, <1>10
<1>12. reserved' = Keeps'
  BY <1>1, <1>5 DEF Counted
<1> QED
  BY <1>1, <1>6, <1>7, <1>11, <1>12 DEF Counted
LEMMA CountedStep ==
    ASSUME Structure, Structure', LooseRight, Counted, [Next]_vars
    PROVE  Counted'
<1>1. ASSUME NEW w \in Writers, Job(w) \/ FailJob(w) \/ \E e \in Entries : Request(w, e)
      PROVE  Counted'
  BY <1>1, EmptyJobCounted, ReserveCounted, PublishCounted, FailJobCounted, ReleaseCounted,
     WriteLooseCounted, LooseWritten DEF Job
<1>2. ASSUME NEW p \in Pruners, StartPrune(p)
      PROVE  Counted'
  BY <1>2, StartPruneCounted
<1>3. CASE Pruning
  BY <1>3, ScanCounted, ReadTargetCounted, OpenVictimCounted, LockVictimCounted,
     RemoveVictimCounted, DropVictimCounted, EndPruneCounted DEF Pruning
<1>4. CASE UNCHANGED vars
  <2>1. UNCHANGED <<file, loose, unseen, used, reserved, missed, prune, job>>
    BY <1>4 DEF vars
  <2>2. Keeps' = Keeps /\ Parts' = Parts /\ Files' = Files
    BY <2>1, JobsUnchanged, FilesStay
  <2>3. Files \in Nat /\ Parts \in Nat
    BY Numbers DEF Quantities
  <2>4. Files' + Parts' <= Files + Parts
    BY <2>2, <2>3
  <2>5. QED
    BY <2>1, <2>2, <2>4, SeenLess, CountOfJob
<1>5. ASSUME NEW e \in Entries, ForgetError(e)
      PROVE  Counted'
  <2>1. UNCHANGED <<file, unseen, used, reserved, missed, prune, job>> /\ loose' \subseteq loose
    BY <1>5 DEF ForgetError
  <2>2. Keeps' = Keeps /\ Parts' = Parts /\ Files' = Files
    BY <2>1, JobsUnchanged, FilesStay
  <2>3. Files \in Nat /\ Parts \in Nat
    BY Numbers DEF Quantities
  <2>4. Files' + Parts' <= Files + Parts /\ loose' \ unseen' \subseteq loose \ unseen
    BY <2>1, <2>2, <2>3
  <2>5. QED
    BY <2>1, <2>2, <2>4, SeenLess, CountOfJob
<1> QED
  BY <1>1, <1>2, <1>3, <1>4, <1>5 DEF Next

(* What a scan has counted of the small files, it holds until it ends.     *)
LEMMA LooseStep ==
    ASSUME Structure, LooseRight, [Next]_vars
    PROVE  LooseRight'
<1>0. Shape /\ prune \in PruneType /\ loose \in SUBSET Loose
  BY DEF Structure, Shape
<1>1. CASE UNCHANGED <<loose, prune>>
  BY <1>1 DEF LooseRight, Scanned
<1>2. ASSUME NEW S \in SUBSET Loose, Add(S)
      PROVE  LooseRight'
  <2>1. /\ loose' = loose \cup S /\ prune'.step = prune.step /\ prune'.todo = prune.todo
        /\ prune'.kept = prune.kept
        /\ Scanned => prune'.fresh = prune.fresh \cup S
    BY <1>0, <1>2, AddIs DEF Add
  <2>2. QED
    BY <2>1 DEF LooseRight, Scanned
<1>3. ASSUME NEW w \in Writers, Job(w) \/ FailJob(w) \/ \E e \in Entries : Request(w, e)
      PROVE  LooseRight'
  <2>1. CASE Publish(w)
    <3>1. {Ready(p) : p \in Plans \cap {job[w].entry}} \in SUBSET Loose
      BY DEF Loose
    <3>2. QED
      BY <1>2, <2>1, <3>1 DEF Publish
  <2>2. CASE Release(w)
    <3> PICK h : h = Held(w)
      OBVIOUS
    <3>1. loose' = loose /\ (prune' = prune \/ prune' = [prune EXCEPT !.since = @ + h])
      BY <2>2 DEF Release
    <3>2. /\ prune'.step = prune.step /\ prune'.todo = prune.todo
          /\ prune'.kept = prune.kept /\ prune'.fresh = prune.fresh
      BY <1>0, <3>1 DEF PruneType
    <3>3. QED
      BY <3>1, <3>2 DEF LooseRight, Scanned
  <2>3. CASE WriteError(w) \/ WriteInput(w)
    <3>1. PICK S \in SUBSET Loose : WriteLoose(w, S)
      BY <2>3, LooseWritten
    <3>2. CASE Add(S)
      BY <1>2, <3>2
    <3>3. CASE UNCHANGED <<loose, prune>>
      BY <1>1, <3>3
    <3>4. QED
      BY <3>1, <3>2, <3>3 DEF WriteLoose
  <2>4. CASE OpenEntry(w) \/ LockEntry(w) \/ Reserve(w) \/ Unlock(w) \/ FailJob(w)
             \/ \E e \in Entries : Request(w, e)
    BY <1>1, <2>4 DEF OpenEntry, LockEntry, Reserve, Unlock, FailJob, Request
  <2>5. QED
    BY <1>3, <2>1, <2>2, <2>3, <2>4 DEF Job
<1>4. ASSUME NEW p \in Pruners, StartPrune(p)
      PROVE  LooseRight'
  <2>1. prune'.step = "scan"
    BY <1>4 DEF StartPrune, NoPrune
  <2>2. QED
    BY <2>1 DEF LooseRight, Scanned
<1>5. ASSUME NEW e \in Entries, ForgetError(e)
      PROVE  LooseRight'
  BY <1>5 DEF ForgetError, LooseRight, Scanned
<1>6. CASE Pruning
  <2>1. CASE Scan
    <3>1. prune'.step = "target" /\ prune'.kept = loose /\ loose' = loose
      BY <1>0, <2>1 DEF Scan, PruneType
    <3>2. QED
      BY <3>1 DEF LooseRight
  <2>2. CASE ReadTarget
    <3> PICK n : n = Target
      OBVIOUS
    <3>1. prune.step = "target" /\ loose' = loose
          /\ prune' = [prune EXCEPT !.step = "next", !.target = n]
      BY <2>2 DEF ReadTarget
    <3>2. prune'.step = "next" /\ prune'.kept = prune.kept /\ prune'.fresh = prune.fresh
      BY ONLY <1>0, <3>1 DEF PruneType
    <3>3. QED
      BY <3>1, <3>2 DEF LooseRight, Scanned
  <2>3. CASE OpenVictim
    <3>1. /\ prune.step = "next" /\ loose' = loose /\ prune'.step = "opened"
          /\ prune'.kept = prune.kept /\ prune'.fresh = prune.fresh
      BY <1>0, <2>3 DEF OpenVictim, PruneType
    <3>2. QED
      BY <3>1 DEF LooseRight, Scanned
  <2>4. CASE LockVictim
    <3>1. /\ prune.step = "opened" /\ loose' = loose
          /\ \/ prune' = [prune EXCEPT !.step = "remove"]
             \/ prune' = [prune EXCEPT !.step = "next", !.inode = None, !.todo = Tail(@)]
      BY <2>4 DEF LockVictim
    <3>2. /\ prune'.step \in {"remove", "next"}
          /\ prune'.kept = prune.kept /\ prune'.fresh = prune.fresh
      BY <1>0, <3>1 DEF PruneType
    <3>3. QED
      BY <3>1, <3>2 DEF LooseRight, Scanned
  <2>5. CASE RemoveVictim
    <3>1. /\ prune.step = "remove" /\ loose' = loose \ Head(prune.todo).loose
          /\ prune'.step = "drop" /\ prune'.todo = prune.todo
          /\ prune'.kept = prune.kept /\ prune'.fresh = prune.fresh
      BY <1>0, <2>5 DEF RemoveVictim, PruneType
    <3>2. QED
      BY <3>1 DEF LooseRight, Scanned
  <2>6. CASE DropVictim
    <3>1. /\ prune.step = "drop" /\ loose' = loose /\ prune'.step = "next"
          /\ prune'.kept = prune.kept \ Head(prune.todo).loose /\ prune'.fresh = prune.fresh
      BY <1>0, <2>6 DEF DropVictim, PruneType
    <3>2. QED
      BY <3>1 DEF LooseRight, Scanned
  <2>7. CASE EndPrune
    <3>1. prune'.step = "none"
      BY <2>7 DEF EndPrune, NoPrune
    <3>2. QED
      BY <3>1 DEF LooseRight, Scanned
  <2>8. QED
    BY <1>6, <2>1, <2>2, <2>3, <2>4, <2>5, <2>6, <2>7 DEF Pruning
<1>7. CASE UNCHANGED vars
  BY <1>1, <1>7 DEF vars
<1> QED
  BY <1>3, <1>4, <1>5, <1>6, <1>7 DEF Next

(***************************************************************************)
(* Theorems                                                                *)
(***************************************************************************)

(* A list of the entries that have been left by an earlier run.            *)
LEMMA InitialAge ==
    ASSUME age \in SetToAllKPermutations(Entries)
    PROVE  /\ age \in Seq(Entries) /\ Distinct(age)
           /\ Len(age) <= Cardinality(Entries)
<1>1. PICK S \in SUBSET Entries : age \in SetToSeqs(S)
  BY DEF SetToAllKPermutations
<1>2. IsFiniteSet(S) /\ Cardinality(S) \in Nat /\ Cardinality(S) <= Cardinality(Entries)
  BY CacheAssumption, FS_Subset, FS_CardinalityType
<1> PICK n \in Nat : n = Cardinality(S)
  BY <1>2
<1>3. /\ age \in [1 .. n -> S]
      /\ \A i, j \in 1 .. n : i # j => age[i] # age[j]
  BY <1>1 DEF SetToSeqs
<1>4. age \in Seq(Entries) /\ Len(age) = n /\ DOMAIN age = 1 .. n
  BY <1>3
<1>5. Distinct(age)
  BY <1>3, <1>4 DEF Distinct
<1> QED
  BY <1>2, <1>4, <1>5

LEMMA InitStructure ==
    ASSUME Init
    PROVE  Structure
<1>1. /\ age \in Seq(Entries) /\ Distinct(age) /\ Len(age) <= Cardinality(Entries)
      /\ age \in Seq(Entries)
  BY InitialAge DEF Init
<1>2. Cardinality(Entries) \in Nat /\ Cardinality(Writers) \in Nat
  BY CacheAssumption, FS_CardinalityType
<1>3. \A e \in Entries : Size(e) \in Nat
  BY Sizes
<1>4. file \in [Entries -> Nat] /\ FilesRight /\ loose \in SUBSET Loose
  BY <1>3 DEF Init, FilesRight
<1>5. DOMAIN age \subseteq Inodes
  <2> PICK n, c, d : n = Len(age) /\ c = Cardinality(Entries) /\ d = Cardinality(Writers)
    OBVIOUS
  <2>1. n \in Nat /\ DOMAIN age = 1 .. n /\ n <= c /\ c \in Nat /\ d \in Nat
    BY <1>1, <1>2
  <2>2. 1 .. n \subseteq 1 .. c + d + 1
    BY ONLY <2>1
  <2>3. QED
    BY <2>1, <2>2 DEF Inodes
<1>6. lockFile \in [Entries -> Inodes \cup {None}]
  <2> SUFFICES ASSUME NEW e \in Entries
               PROVE  lockFile[e] \in Inodes \cup {None}
    BY DEF Init
  <2>1. CASE e \in ToSet(age)
    <3>1. lockFile[e] = CHOOSE i \in DOMAIN age : age[i] = e
      BY <2>1 DEF Init
    <3>2. \E i \in DOMAIN age : age[i] = e
      BY <2>1 DEF ToSet
    <3>3. QED
      BY <1>5, <3>1, <3>2
  <2>2. CASE e \notin ToSet(age)
    BY <2>2 DEF Init
  <2>3. QED
    BY <2>1, <2>2
<1>7. used \in Int
  <2>1. Weight(loose) \in Nat
    BY <1>4, WeightIs
  <2>2. Cardinality(Bytes(file)) \in Nat
    BY <1>4, CacheAssumption, BytesFinite
  <2>3. QED
    BY <2>1, <2>2 DEF Init
<1>8. /\ job \in [Writers -> JobType]
      /\ \A w \in Writers : job[w].state = "idle" /\ job[w].got = 0
  BY DEF Init, JobType, JobState
<1>9. /\ prune \in PruneType /\ prune.by = None /\ prune.step = "none" /\ prune.todo = <<>>
  <2>1. prune = [by |-> None, step |-> "none", todo |-> <<>>, left |-> 0, kept |-> {},
                 target |-> 0, inode |-> None, since |-> 0, fresh |-> {}]
    BY DEF Init, NoPrune
  <2>2. QED
    BY <2>1 DEF PruneType
<1>10. Shape
  <2>1. owner \in [Inodes -> Pruners \cup {None}] /\ reserved \in Int /\ missed \in Int
        /\ jobs \in 0 .. Jobs /\ unseen \in SUBSET Loose
    BY CacheAssumption DEF Init
  <2>2. QED
    BY <1>1, <1>4, <1>6, <1>7, <1>8, <1>9, <2>1 DEF Shape
<1>11. DOMAIN prune.todo = {}
  BY <1>9
<1>12. PruneRight
  BY <1>9, <1>11, NoneIs DEF PruneRight
<1>13. \A w \in Writers : JobRight(w)
  BY <1>8 DEF JobRight, Locked
<1> QED
  BY <1>1, <1>4, <1>10, <1>12, <1>13 DEF Structure

LEMMA InitCounted ==
    ASSUME Init
    PROVE  Counted
<1>1. Quantities /\ Structure
  BY InitStructure, Numbers
<1>0. Weight(loose) \in Nat /\ Files \in Nat /\ Limit \in Nat
  BY <1>1, WeightIs, CacheAssumption DEF Structure, Shape, Quantities
<1>01. used = Files + Weight(loose) /\ used <= Limit
  BY DEF Init, Files
<1>02. Seen = Weight(loose)
  <2>1. loose \ unseen = loose
    BY DEF Init
  <2>2. QED
    BY <2>1 DEF Seen
<1>2. /\ used = Files + Seen /\ used <= Limit /\ reserved = 0 /\ missed = 0
      /\ prune.step = "none" /\ prune.left = 0 /\ prune.since = 0 /\ prune.target = 0
      /\ prune.todo = <<>>
  BY <1>01, <1>02 DEF Init, NoPrune
<1>3. \A w \in Writers : Kept[w] = 0 /\ Part[w] = 0
  <2>1. \A w \in Writers : Held(w) = 0
    BY DEF Init, Held
  <2>2. QED
    BY <1>1, <2>1 DEF Quantities
<1>4. Keeps = 0 /\ Parts = 0
  <2>1. Kept \in [Writers -> Nat] /\ Part \in [Writers -> Nat]
    BY <1>1 DEF Quantities
  <2>2. QED
    BY <1>3, <2>1, BytesZero DEF Keeps, Parts
<1>5. Listed = {} /\ ~Scanned
  BY <1>2 DEF Listed, Scanned
<1>6. IsFiniteSet(Listed) /\ Cardinality(Listed) <= prune.left
  <2>1. IsFiniteSet({}) /\ Cardinality({}) = 0
    BY FS_EmptySet
  <2>2. QED
    BY <1>2, <1>5, <2>1
<1>7. Files \in Nat /\ Limit \in Nat
  BY <1>1, CacheAssumption DEF Quantities
<1>8. Seen \in Nat /\ used \in Nat
  BY <1>0, <1>01, <1>02
<1> QED
  BY <1>2, <1>4, <1>5, <1>6, <1>7, <1>8 DEF Counted

(* The locks and lists are right, and the bytes are accounted for, always. *)
THEOREM Inductive == Spec => []IInv
<1>1. Init => IInv
  BY InitStructure, InitCounted DEF IInv, LooseRight, Scanned, Init, NoPrune
<1>2. IInv /\ [Next]_vars => IInv'
  <2> SUFFICES ASSUME IInv, [Next]_vars
               PROVE  IInv'
    OBVIOUS
  <2>1. Structure /\ LooseRight /\ Counted
    BY DEF IInv
  <2>2. reserved \in Nat
    BY <2>1, Numbers DEF Counted, Quantities
  <2>3. Structure'
    BY <2>1, <2>2, StructureStep
  <2>4. Counted'
    BY <2>1, <2>3, CountedStep
  <2>5. LooseRight'
    BY <2>1, LooseStep
  <2>6. QED
    BY <2>3, <2>4, <2>5 DEF IInv
<1> QED
  BY <1>1, <1>2, PTL DEF Spec

(* Every variable has its type; in particular neither the count nor what a *)
(* prune has left of it ever falls below zero.                             *)
THEOREM TypeCorrect == Spec => []TypeOK
<1>1. IInv => TypeOK
  <2> SUFFICES ASSUME IInv
               PROVE  TypeOK
    OBVIOUS
  <2>1. Shape /\ Counted /\ reserved \in Nat
    BY Numbers DEF IInv, Structure, Counted, Quantities
  <2>2. used \in Nat /\ missed \in Nat /\ prune.left \in Nat /\ prune.target \in Nat /\ prune.since \in Nat
    BY <2>1 DEF Counted
  <2>3. prune \in PruneType
    BY <2>1 DEF Shape
  <2>4. prune \in [by : Pruners \cup {None},
                   step : {"none", "scan", "target", "next", "opened", "remove", "drop"},
                   todo : Seq([entry : Entries, size : Nat, loose : SUBSET Loose]),
                   left : Nat, kept : SUBSET Loose, target : Nat,
                   inode : Inodes \cup {None}, since : Nat, fresh : SUBSET Loose]
    BY ONLY <2>2, <2>3 DEF PruneType, TodoType
  <2>5. QED
    BY <2>1, <2>2, <2>4 DEF TypeOK, Shape, JobType
<1> QED
  BY <1>1, Inductive, PTL

(* CountCovers: every byte on disk, published, in a part or written without*)
(* a reservation, is used or reserved, but for what was given back, or     *)
(* written without a reservation, since the scan of the last prune.        *)
THEOREM CountCoversHolds == Spec => []CountCovers
<1>1. IInv => CountCovers
  BY DEF IInv, Counted, CountCovers, Reservable, Seen, Files, Parts
<1> QED
  BY <1>1, Inductive, PTL

(* ExcessBounded: however writers and prunes interleave, the cache never   *)
(* holds more than twice CACHE_BYTES and the files that are written without*)
(* a reservation, for which the code has no bound.                         *)
THEOREM ExcessIsBounded == Spec => []ExcessBounded
<1>1. IInv => ExcessBounded
  <2> SUFFICES ASSUME IInv
               PROVE  ExcessBounded
    OBVIOUS
  <2>1. Files \in Nat /\ Parts \in Nat /\ Limit \in Nat /\ Files + Parts <= 2 * Limit
    BY Numbers, CacheAssumption DEF IInv, Counted, Quantities
  <2>2. Weight(loose) \in Nat
    BY WeightIs DEF IInv, Structure, Shape
  <2>3. Files + Parts = Reservable
    BY DEF Reservable, Files, Parts
  <2>4. QED
    BY <2>1, <2>2, <2>3 DEF ExcessBounded, Disk
<1> QED
  BY <1>1, Inductive, PTL

(* EvictsUnused: no file is removed while a job holds the lock at its path.*)
THEOREM EvictsUnusedHolds == Spec => EvictsUnused
<1> DEFINE Unused == \A e \in Entries : file[e] # 0 /\ file'[e] = 0 =>
                         \A w \in Writers : Locked(w) => lockFile[e] # job[w].inode
<1>1. IInv /\ [Next]_vars => [Unused]_vars
  <2> SUFFICES ASSUME IInv, [Next]_vars, NEW e \in Entries, file[e] # 0, file'[e] = 0,
                      NEW w \in Writers, Locked(w)
               PROVE  lockFile[e] # job[w].inode
    OBVIOUS
  <2>1. /\ Structure /\ Shape /\ PruneRight /\ file \in [Entries -> Nat]
    BY DEF IInv, Structure, Shape
  <2>2. ~ UNCHANGED file
    OBVIOUS
  <2>3. ASSUME NEW v \in Writers, Publish(v)
        PROVE  FALSE
    <3>1. job[v].entry \in Entries
      BY <2>1, <2>3, HeldIs DEF Publish
    <3>2. Size(job[v].entry) # 0
      BY <3>1, Sizes
    <3>3. QED
      BY <2>1, <2>3, <3>1, <3>2 DEF Publish
  <2>4. RemoveVictim
    BY <2>2, <2>3 DEF Next, Job, Pruning, vars, OpenEntry, LockEntry, Reserve, Release, Unlock,
                      WriteError, WriteInput, WriteLoose, ForgetError, FailJob, Request, StartPrune, Scan, ReadTarget, OpenVictim, LockVictim,
                      DropVictim, EndPrune
  <2>5. /\ prune.step = "remove" /\ lockFile[Victim] = prune.inode
        /\ job[w].inode # prune.inode
    BY <2>1, <2>4 DEF RemoveVictim, PruneRight
  <2>6. e = Victim
    BY <2>1, <2>4 DEF RemoveVictim
  <2>7. QED
    BY <2>5, <2>6
<1>2. Spec => [][Unused]_vars
  BY <1>1, Inductive, PTL DEF Spec
<1> QED
  BY <1>2 DEF EvictsUnused
=============================================================================
