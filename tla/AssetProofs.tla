----------------------------- MODULE AssetProofs -----------------------------
(***************************************************************************)
(* What holds of input assets.  First, of their downloads, for any number  *)
(* of daemons, assets, sizes and budgets, however often objects are        *)
(* replaced, cached ranges are evicted and responses break off             *)
(* (AssetFetch).  Then, of an entry of the cache that the daemons of a     *)
(* host share, for any number of daemons and evictions, whoever dies       *)
(* (AssetCache).                                                           *)
(***************************************************************************)
EXTENDS AssetFetch, AssetCache, FiniteSetTheorems, TLAPS

(***************************************************************************)
(* The inductive invariant                                                 *)
(***************************************************************************)
Places == {"todo", "queued", "reserved", "proxied", "arrived", "current", "read",
           "dropped"}
Arrived == {"proxied", "arrived", "current", "read"}
Unpacked == {"current", "read"}

(* The types, as far as the bytes depend on them: a version is any number, *)
(* and who waits for memory does not matter.                               *)
Typed ==
    /\ object \in [Objects -> Nat] /\ inputs \in [Downloads -> Nat]
    /\ download \in [Downloads -> [at : {"start", "fetch", "done", "failed"},
                                   etag : Nat, reserve : Nat, read : Nat]]
    /\ range = [d \in Downloads |-> range[d]] /\ body = [d \in Downloads |-> body[d]]
    /\ \A d \in Downloads :
           range[d] \in [Offsets[d] -> Places] /\ body[d] \in [Offsets[d] -> Nat]

(* The bytes that a download has are from the version it was given, before *)
(* it was given one it has none.                                           *)
BytesRight ==
    \A d \in Downloads : \A o \in Offsets[d] : range[d][o] \in Arrived =>
        body[d][o] = download[d].etag /\ download[d].at # "start"

(* Ordered has unpacked the ranges below its offset and no others, and its *)
(* offset is that of a range or the end; no memory was reserved for a      *)
(* range at the offset to reserve next or beyond.                          *)
OrderRight ==
    \A d \in Downloads :
        /\ download[d].read \in Offsets[d] \/ download[d].read >= Size(d)
        /\ \A o \in Offsets[d] :
              /\ o < download[d].read <=> range[d][o] \in Unpacked
              /\ o >= download[d].reserve => range[d][o] \in {"todo", "queued", "dropped"}

IInv == Typed /\ CacheIsOfItsVersion /\ BytesRight /\ OrderRight /\ WholeAndOfOneVersion

(***************************************************************************)
(* Lemmas about offsets                                                    *)
(***************************************************************************)
LEMMA MinOfTwo ==
    ASSUME NEW a \in Int, NEW b \in Int
    PROVE  Min({a, b}) = IF a <= b THEN a ELSE b
<1>1. \E x \in {a, b} : \A y \in {a, b} : x <= y
  OBVIOUS
<1> QED
  BY <1>1 DEF Min

LEMMA ChunkType == Chunk \in Nat \ {0}
BY AssetFetchAssumption, MinOfTwo DEF Chunk

LEMMA SizeType == \A d \in Downloads : Size(d) \in Nat
BY AssetFetchAssumption DEF Size, Objects

(* A multiple is its quotient times the divisor.                           *)
LEMMA Multiple ==
    ASSUME NEW n \in Nat \ {0}, NEW x \in Nat, x % n = 0
    PROVE  x \div n \in Nat /\ x = n * (x \div n)
<1>1. x % n = x - n * (x \div n)
  OBVIOUS
<1>2. x \div n \in Int /\ x \div n >= 0
  OBVIOUS
<1>3. n * (x \div n) \in Int
  BY <1>2
<1> QED
  BY <1>1, <1>2, <1>3

(* After the range at an offset comes the range at the next, or the end.   *)
LEMMA NextOffset ==
    ASSUME NEW d \in Downloads, NEW o \in Offsets[d]
    PROVE  /\ o \in Nat /\ o + Length[d][o] \in Nat /\ o + Length[d][o] > o
           /\ o + Length[d][o] \in Offsets[d] \/ o + Length[d][o] >= Size(d)
           /\ \A x \in Offsets[d] : x < o + Length[d][o] <=> x <= o
<1>1. Chunk \in Nat \ {0} /\ Size(d) \in Nat
  BY ChunkType, SizeType
<1>2. o \in Nat /\ o < Size(d) /\ o % Chunk = 0
  BY <1>1 DEF Offsets
<1>3. Length[d][o] = IF Chunk <= Size(d) - o THEN Chunk ELSE Size(d) - o
  BY <1>1, <1>2, MinOfTwo DEF Length
<1>4. \A x \in Nat : x % Chunk = 0 =>
          x \div Chunk \in Nat /\ x = Chunk * (x \div Chunk)
  BY <1>1, Multiple
<1>5. o + Chunk \in Offsets[d] \/ o + Chunk >= Size(d)
  <2>1. PICK k \in Nat : o = Chunk * k
    BY <1>2, <1>4
  <2>2. o + Chunk = Chunk * (k + 1)
    BY <1>1, <2>1
  <2>3. (o + Chunk) % Chunk = 0
    BY <1>1, <2>2
  <2>4. QED
    BY <1>1, <1>2, <2>3 DEF Offsets
<1>6. ASSUME NEW x \in Offsets[d], x < o + Chunk
      PROVE  x <= o
  <2>1. x \in Nat /\ x % Chunk = 0
    BY <1>1, <1>6 DEF Offsets
  <2>2. PICK k \in Nat : o = Chunk * k
    BY <1>2, <1>4
  <2>3. PICK l \in Nat : x = Chunk * l
    BY <1>4, <2>1
  <2>4. CASE k < l
    <3>1. Chunk * k + Chunk <= Chunk * l
      BY <1>1, <2>4
    <3>2. QED
      BY <1>1, <1>6, <2>1, <2>2, <2>3, <3>1
  <2>5. CASE l <= k
    BY <1>1, <2>2, <2>3, <2>5
  <2>6. QED
    BY <2>4, <2>5
<1>7. \A x \in Offsets[d] : x \in Nat
  BY <1>1 DEF Offsets
<1> QED
  BY <1>1, <1>2, <1>3, <1>5, <1>6, <1>7

(***************************************************************************)
(* Lemmas about the steps                                                  *)
(***************************************************************************)
(* One range of a download moves, whether it is one of its ranges or not.  *)
LEMMA RangeMoves ==
    ASSUME Typed, NEW d \in Downloads, NEW o, NEW at \in Places,
           range' = [range EXCEPT ![d][o] = at]
    PROVE  /\ range' = [c \in Downloads |-> range'[c]]
           /\ \A c \in Downloads : range'[c] \in [Offsets[c] -> Places]
           /\ \A c \in Downloads : \A x \in Offsets[c] :
                 range'[c][x] = IF c = d /\ x = o THEN at ELSE range[c][x]
<1>1. \A c \in Downloads : range'[c] = IF c = d THEN [range[d] EXCEPT ![o] = at] ELSE range[c]
  BY DEF Typed
<1>2. range' = [c \in Downloads |-> range'[c]]
  BY DEF Typed
<1>3. QED
  BY <1>1, <1>2 DEF Typed

LEMMA BodyMoves ==
    ASSUME Typed, NEW d \in Downloads, NEW o, NEW version \in Nat,
           body' = [body EXCEPT ![d][o] = version]
    PROVE  /\ body' = [c \in Downloads |-> body'[c]]
           /\ \A c \in Downloads : body'[c] \in [Offsets[c] -> Nat]
           /\ \A c \in Downloads : \A x \in Offsets[c] :
                 body'[c][x] = IF c = d /\ x = o THEN version ELSE body[c][x]
<1>1. \A c \in Downloads : body'[c] = IF c = d THEN [body[d] EXCEPT ![o] = version] ELSE body[c]
  BY DEF Typed
<1>2. body' = [c \in Downloads |-> body'[c]]
  BY DEF Typed
<1>3. QED
  BY <1>1, <1>2 DEF Typed

(* A range of an active download moves to where it is not yet unpacked,    *)
(* and has the right bytes if it arrived.                                  *)
LEMMA MoveStep ==
    ASSUME IInv, NEW d \in Downloads, NEW o \in Offsets[d], NEW at \in Places \ Unpacked,
           Active(d), o < download[d].reserve \/ at \in {"queued", "dropped"},
           range[d][o] \notin Unpacked,
           range' = [range EXCEPT ![d][o] = at],
           UNCHANGED <<object, download>>,
           inputs' \in [Downloads -> Nat],
           \/ body' = body /\ (at \in Arrived => range[d][o] \in Arrived)
           \/ \E version \in Nat :
                 /\ body' = [body EXCEPT ![d][o] = version]
                 /\ at \in Arrived => version = download[d].etag,
           CacheIsOfItsVersion'
    PROVE  IInv'
<1>1. /\ range' = [c \in Downloads |-> range'[c]]
      /\ \A c \in Downloads : range'[c] \in [Offsets[c] -> Places]
      /\ \A c \in Downloads : \A x \in Offsets[c] :
            range'[c][x] = IF c = d /\ x = o THEN at ELSE range[c][x]
  <2>1. Typed /\ at \in Places /\ range' = [range EXCEPT ![d][o] = at]
    BY DEF IInv
  <2>2. QED
    BY ONLY <2>1, d \in Downloads, RangeMoves, ZenonT(40)
<1>2. /\ body' = [c \in Downloads |-> body'[c]]
      /\ \A c \in Downloads : body'[c] \in [Offsets[c] -> Nat]
      /\ \A c \in Downloads : \A x \in Offsets[c] :
            c # d \/ x # o => body'[c][x] = body[c][x]
      /\ at \in Arrived => body'[d][o] = download[d].etag
  <2>1. CASE body' = body /\ (at \in Arrived => range[d][o] \in Arrived)
    BY <2>1 DEF IInv, Typed, BytesRight
  <2>2. ASSUME NEW version \in Nat, body' = [body EXCEPT ![d][o] = version],
               at \in Arrived => version = download[d].etag
        PROVE  <1>2!:
    BY <2>2, BodyMoves, ZenonT(40) DEF IInv
  <2>3. QED
    BY <2>1, <2>2
<1>3. Typed'
  BY <1>1, <1>2 DEF IInv, Typed
<1>4. BytesRight'
  BY <1>1, <1>2 DEF IInv, BytesRight, Active
<1>5. OrderRight'
  <2> SUFFICES ASSUME NEW c \in Downloads, NEW x \in Offsets[c]
               PROVE  /\ x < download[c].read <=> range'[c][x] \in Unpacked
                      /\ x >= download[c].reserve => range'[c][x] \in {"todo", "queued", "dropped"}
    BY DEF OrderRight, IInv
  <2>1. CASE c = d /\ x = o
    <3>1. o \in Nat /\ download[d].reserve \in Nat
      BY NextOffset DEF IInv, Typed
    <3>2. QED
      BY <1>1, <2>1, <3>1 DEF IInv, OrderRight
  <2>2. CASE c # d \/ x # o
    BY <1>1, <2>2 DEF IInv, OrderRight
  <2>3. QED
    BY <2>1, <2>2
<1>6. WholeAndOfOneVersion'
  BY <1>1, <1>2 DEF IInv, WholeAndOfOneVersion, Active, Done
<1> QED
  BY <1>3, <1>4, <1>5, <1>6 DEF IInv

(* Nothing that the bytes depend on changes.                               *)
LEMMA QuietStep ==
    ASSUME IInv, UNCHANGED <<download, range, body>>,
           object' \in [Objects -> Nat], inputs' \in [Downloads -> Nat],
           CacheIsOfItsVersion'
    PROVE  IInv'
BY DEF IInv, Typed, BytesRight, OrderRight, WholeAndOfOneVersion, Done

LEMMA StartStep ==
    ASSUME IInv, NEW d \in Downloads, Start(d)
    PROVE  IInv'
<1>1. PICK etag \in Nat : /\ inputs' = [inputs EXCEPT ![d] = etag]
                          /\ download' = [download EXCEPT ![d].at = "fetch", ![d].etag = etag]
  BY ZenonT(40) DEF Start, IInv, Typed, Objects
<1>2. /\ download' \in [Downloads -> [at : {"start", "fetch", "done", "failed"},
                                      etag : Nat, reserve : Nat, read : Nat]]
      /\ \A c \in Downloads : /\ download'[c].reserve = download[c].reserve
                              /\ download'[c].read = download[c].read
                              /\ c # d => download'[c] = download[c]
      /\ download'[d].at = "fetch"
  <2>1. download \in [Downloads -> [at : {"start", "fetch", "done", "failed"},
                                    etag : Nat, reserve : Nat, read : Nat]]
    BY DEF IInv, Typed
  <2>2. download' = [download EXCEPT ![d] = [[@ EXCEPT !.at = "fetch"] EXCEPT !.etag = etag]]
    BY <1>1, <2>1
  <2>3. QED
    BY <2>1, <2>2
<1>3. Typed'
  BY <1>1, <1>2 DEF Start, IInv, Typed
<1>4. BytesRight'
  BY <1>2 DEF Start, IInv, BytesRight
<1>5. OrderRight' /\ CacheIsOfItsVersion'
  BY <1>2 DEF Start, IInv, OrderRight, CacheIsOfItsVersion
<1>6. WholeAndOfOneVersion'
  BY <1>2 DEF Start, IInv, WholeAndOfOneVersion, Done
<1> QED
  BY <1>3, <1>4, <1>5, <1>6 DEF IInv

(* Only ranges that were not yet reserved are.                             *)
LEMMA ReservedStep ==
    ASSUME IInv, NEW d, Reserved(d), UNCHANGED <<Server, body>>
    PROVE  IInv'
<1> DEFINE o == download[d].reserve
<1>1. /\ range' = [range EXCEPT ![d][o] = "reserved"]
      /\ download' = [download EXCEPT ![d].reserve = o + Chunk]
      /\ UNCHANGED <<object, inputs, files, body>>
  BY DEF Reserved, Server
<1>2. CASE d \notin Downloads
  <2>1. range' = range /\ download' = download
    BY <1>1, <1>2 DEF IInv, Typed
  <2>2. QED
    BY <1>1, <2>1, QuietStep DEF IInv, Typed, CacheIsOfItsVersion
<1>3. CASE d \in Downloads
  <2>1. /\ range' = [c \in Downloads |-> range'[c]]
        /\ \A c \in Downloads : range'[c] \in [Offsets[c] -> Places]
        /\ \A c \in Downloads : \A x \in Offsets[c] :
              range'[c][x] = IF c = d /\ x = o THEN "reserved" ELSE range[c][x]
    <3>1. "reserved" \in Places /\ Typed
      BY DEF IInv, Places
    <3>2. QED
      BY <1>1, <1>3, <3>1, RangeMoves, ZenonT(40)
  <2>2. o \in Nat /\ o + Chunk \in Nat /\ o + Chunk > o
    BY <1>3, ChunkType DEF IInv, Typed
  <2>3. /\ download' \in [Downloads -> [at : {"start", "fetch", "done", "failed"},
                                        etag : Nat, reserve : Nat, read : Nat]]
        /\ \A c \in Downloads : /\ download'[c].at = download[c].at
                                /\ download'[c].etag = download[c].etag
                                /\ download'[c].read = download[c].read
                                /\ download'[c].reserve = IF c = d THEN o + Chunk
                                                          ELSE download[c].reserve
    BY <1>1, <1>3, <2>2 DEF IInv, Typed
  <2>4. o \in Offsets[d] => range[d][o] \in {"todo", "queued", "dropped"}
    BY <1>3, <2>2 DEF IInv, OrderRight
  <2>5. Typed'
    BY <1>1, <2>1, <2>3 DEF IInv, Typed
  <2>6. BytesRight'
    <3>1. ASSUME NEW c \in Downloads, NEW x \in Offsets[c], range'[c][x] \in Arrived
          PROVE  body'[c][x] = download'[c].etag /\ download'[c].at # "start"
      <4>1. range[c][x] \in Arrived
        BY <2>1, <3>1 DEF Arrived
      <4>2. body[c][x] = download[c].etag /\ download[c].at # "start"
        BY <4>1 DEF IInv, BytesRight
      <4>3. QED
        BY <1>1, <2>3, <4>2
    <3>2. QED
      BY <3>1 DEF BytesRight
  <2>7. OrderRight'
    <3> SUFFICES ASSUME NEW c \in Downloads
                 PROVE  /\ download'[c].read \in Offsets[c] \/ download'[c].read >= Size(c)
                        /\ \A x \in Offsets[c] :
                              /\ x < download'[c].read <=> range'[c][x] \in Unpacked
                              /\ x >= download'[c].reserve =>
                                    range'[c][x] \in {"todo", "queued", "dropped"}
      BY DEF OrderRight
    <3>1. download'[c].read \in Offsets[c] \/ download'[c].read >= Size(c)
      BY <2>3 DEF IInv, OrderRight
    <3>2. ASSUME NEW x \in Offsets[c]
          PROVE  x < download'[c].read <=> range'[c][x] \in Unpacked
      <4>1. x < download[c].read <=> range[c][x] \in Unpacked
        BY DEF IInv, OrderRight
      <4>2. range'[c][x] \in Unpacked <=> range[c][x] \in Unpacked
        BY <2>1, <2>4 DEF Unpacked
      <4>3. QED
        BY <2>3, <4>1, <4>2
    <3>3. ASSUME NEW x \in Offsets[c], x >= download'[c].reserve
          PROVE  range'[c][x] \in {"todo", "queued", "dropped"}
      <4>1. x \in Nat
        BY NextOffset
      <4>2. (c # d \/ x # o) /\ x >= download[c].reserve
        BY <2>2, <2>3, <3>3, <4>1
      <4>3. QED
        BY <2>1, <4>2 DEF IInv, OrderRight
    <3>4. QED
      BY <3>1, <3>2, <3>3
  <2>8. CacheIsOfItsVersion'
    BY <1>1 DEF IInv, CacheIsOfItsVersion
  <2>9. WholeAndOfOneVersion'
    <3>1. ASSUME NEW c \in Downloads, download'[c].at = "done", NEW x \in Offsets[c]
          PROVE  range'[c][x] \in {"current", "read"} /\ body'[c][x] = download'[c].etag
      <4>1. range[c][x] \in {"current", "read"} /\ body[c][x] = download[c].etag
        BY <2>3, <3>1 DEF IInv, WholeAndOfOneVersion, Done
      <4>2. c # d \/ x # o
        BY <2>4, <3>1, <4>1
      <4>3. QED
        BY <1>1, <2>1, <2>3, <4>1, <4>2
    <3>2. QED
      BY <3>1 DEF WholeAndOfOneVersion, Done
  <2>10. QED
    BY <2>5, <2>6, <2>7, <2>8, <2>9 DEF IInv
<1>4. QED
  BY <1>2, <1>3

LEMMA GrantStep ==
    ASSUME IInv, NEW h \in Daemons, Grant(h)
    PROVE  IInv'
BY ReservedStep DEF Grant

LEMMA ReserveStep ==
    ASSUME IInv, NEW d \in Downloads, Reserve(d)
    PROVE  IInv'
<1> DEFINE o == download[d].reserve
<1>1. CASE Reserved(d)
  BY <1>1, ReservedStep DEF Reserve
<1>2. CASE ~Reserved(d)
  <2>1. /\ Active(d) /\ range[d][o] = "todo"
        /\ range' = [range EXCEPT ![d][o] = "queued"]
        /\ UNCHANGED <<object, inputs, files, download, body>>
    BY <1>2 DEF Reserve, Server
  <2>2. CASE o \in Offsets[d]
    BY <2>1, <2>2, MoveStep
    DEF Places, Unpacked, Arrived, IInv, Typed, CacheIsOfItsVersion
  <2>3. CASE o \notin Offsets[d]
    <3>1. range[d] \in [Offsets[d] -> Places]
      BY DEF IInv, Typed
    <3>2. [range[d] EXCEPT ![o] = "queued"] = range[d]
      BY <2>3, <3>1
    <3>3. range' = [range EXCEPT ![d] = range[d]]
      BY <2>1, <3>2
    <3>4. range' = range
      BY <3>3 DEF IInv, Typed
    <3>5. QED
      BY <2>1, <3>4, QuietStep DEF IInv, Typed, CacheIsOfItsVersion
  <2>4. QED
    BY <2>2, <2>3
<1> QED
  BY <1>1, <1>2

(* What arrives is of the version that the server has fixed: from its own  *)
(* file, or from R2 while that has it.                                     *)
LEMMA ReceiveStep ==
    ASSUME IInv, NEW d \in Downloads, NEW o \in Offsets[d],
           FromFile(d, o) \/ FromR2(d, o) \/ Delivered(d, o) \/ Broken(d, o)
    PROVE  IInv'
<1>1. Active(d) /\ range[d][o] \in {"reserved", "proxied"} /\ o < download[d].reserve
  <2>1. Active(d) /\ range[d][o] \in {"reserved", "proxied"}
    BY DEF FromFile, FromR2, Delivered, Broken, Requested
  <2>2. ~ (o >= download[d].reserve)
    BY <2>1 DEF IInv, OrderRight
  <2>3. o \in Nat /\ download[d].reserve \in Nat
    BY NextOffset DEF IInv, Typed
  <2>4. QED
    BY <2>1, <2>2, <2>3
<1>2. download[d].etag \in Nat /\ object[ObjectOf[d]] \in Nat
  BY DEF IInv, Typed, Objects
<1>3. \A etag \in Nat : [inputs EXCEPT ![d] = etag] \in [Downloads -> Nat]
  BY DEF IInv, Typed
<1>4. CASE FromFile(d, o)
  <2>1. PICK v \in CachedAs(d, o) : Receive(d, o, v, "arrived")
    BY <1>4 DEF FromFile
  <2>2. v = download[d].etag
    BY DEF CachedAs, FileOf, IInv, CacheIsOfItsVersion
  <2>3. CacheIsOfItsVersion'
    BY <1>4 DEF FromFile, IInv, CacheIsOfItsVersion
  <2>4. UNCHANGED <<object, download>> /\ inputs' \in [Downloads -> Nat]
    BY <1>2, <1>3, <1>4 DEF FromFile, Requested
  <2>5. QED
    BY <1>1, <1>2, <2>1, <2>2, <2>3, <2>4, MoveStep DEF Receive, Places, Unpacked
<1>5. CASE FromR2(d, o)
  <2>1. CacheIsOfItsVersion'
    BY <1>5 DEF FromR2, IInv, CacheIsOfItsVersion
  <2>2. UNCHANGED <<object, download>> /\ inputs' \in [Downloads -> Nat]
    BY <1>2, <1>3, <1>5 DEF FromR2, Requested
  <2>3. Receive(d, o, download[d].etag, "proxied")
    BY <1>5 DEF FromR2, R2Serves
  <2>4. QED
    BY <1>1, <1>2, <2>1, <2>2, <2>3, MoveStep DEF Receive, Places, Unpacked
<1>6. ASSUME range[d][o] = "proxied", Publish(d, o)
      PROVE  CacheIsOfItsVersion'
  <2>1. body[d][o] = download[d].etag
    BY <1>6 DEF IInv, BytesRight, Arrived
  <2>2. QED
    BY <1>6, <2>1 DEF Publish, FileOf, IInv, CacheIsOfItsVersion
<1>7. CASE Delivered(d, o)
  <2>1. CacheIsOfItsVersion'
    BY <1>6, <1>7 DEF Delivered
  <2>2. /\ UNCHANGED <<object, download, body>> /\ inputs' \in [Downloads -> Nat]
        /\ range[d][o] = "proxied" /\ range' = [range EXCEPT ![d][o] = "arrived"]
    BY <1>7 DEF Delivered, IInv, Typed
  <2>3. QED
    BY <1>1, <2>1, <2>2, MoveStep DEF Places, Unpacked, Arrived
<1>8. CASE Broken(d, o)
  <2>1. CacheIsOfItsVersion'
    <3>1. CASE Publish(d, o)
      BY <1>6, <1>8, <3>1 DEF Broken
    <3>2. CASE UNCHANGED files
      BY <3>2 DEF IInv, CacheIsOfItsVersion
    <3>3. QED
      BY <1>8, <3>1, <3>2 DEF Broken
  <2>2. /\ UNCHANGED <<object, download>> /\ inputs' \in [Downloads -> Nat]
        /\ Receive(d, o, 0, "reserved")
    BY <1>8 DEF Broken, IInv, Typed
  <2>3. QED
    BY <1>1, <2>1, <2>2, MoveStep DEF Receive, Places, Unpacked, Arrived
<1>9. QED
  BY <1>4, <1>5, <1>7, <1>8

LEMMA RefusedStep ==
    ASSUME IInv, NEW d \in Downloads, NEW o \in Offsets[d], Refused(d, o)
    PROVE  IInv'
<1>1. /\ range' = [range EXCEPT ![d] = [x \in Offsets[d] |->
                       IF range[d][x] \in {"arrived", "current", "read"} THEN range[d][x]
                       ELSE "dropped"]]
      /\ UNCHANGED <<object, files, download, body>> /\ Active(d)
  BY DEF Refused, IInv, Typed
<1>2. inputs' \in [Downloads -> Nat]
  <2>1. object[ObjectOf[d]] \in Nat /\ inputs[d] \in Nat
    BY DEF IInv, Typed, Objects
  <2>2. PICK etag \in Nat : inputs' = inputs \/ inputs' = [inputs EXCEPT ![d] = etag]
    BY <2>1 DEF Refused, IInv, Typed
  <2>3. QED
    BY <2>2 DEF IInv, Typed
<1>3. /\ range' = [c \in Downloads |-> range'[c]]
      /\ \A c \in Downloads : c # d => range'[c] = range[c]
      /\ range'[d] \in [Offsets[d] -> Places]
      /\ \A x \in Offsets[d] :
            \/ range[d][x] \in {"arrived", "current", "read"} /\ range'[d][x] = range[d][x]
            \/ range[d][x] \notin {"current", "read"} /\ range'[d][x] = "dropped"
  BY <1>1 DEF IInv, Typed, Places
<1>4. Typed'
  BY <1>1, <1>2, <1>3 DEF IInv, Typed
<1>5. BytesRight'
  BY <1>1, <1>3 DEF IInv, BytesRight, Arrived
<1>6. OrderRight'
  <2> SUFFICES ASSUME NEW c \in Downloads, NEW x \in Offsets[c]
               PROVE  /\ x < download[c].read <=> range'[c][x] \in Unpacked
                      /\ x >= download[c].reserve => range'[c][x] \in {"todo", "queued", "dropped"}
    BY <1>1 DEF OrderRight, IInv
  <2>1. CASE c = d
    BY <1>3, <2>1 DEF IInv, OrderRight, Unpacked
  <2>2. CASE c # d
    BY <1>3, <2>2 DEF IInv, OrderRight
  <2>3. QED
    BY <2>1, <2>2
<1>7. CacheIsOfItsVersion' /\ WholeAndOfOneVersion'
  BY <1>1, <1>3 DEF IInv, CacheIsOfItsVersion, WholeAndOfOneVersion, Active, Done
<1>8. QED
  BY <1>4, <1>5, <1>6, <1>7 DEF IInv

(* Ordered unpacks the range at its offset and goes on to the next.        *)
LEMMA ReadStep ==
    ASSUME IInv, NEW d \in Downloads, Read(d)
    PROVE  IInv'
<1> DEFINE o == download[d].read
<1>1. /\ o \in Offsets[d] /\ range[d][o] = "arrived" /\ Active(d)
      /\ UNCHANGED <<object, inputs, files, body>>
      /\ download' = [download EXCEPT ![d].read = o + Length[d][o]]
      /\ range' = [range EXCEPT ![d] = [x \in Offsets[d] |->
                       IF x = o THEN "current"
                       ELSE IF range[d][x] = "current" THEN "read" ELSE range[d][x]]]
  BY DEF Read, Server, IInv, Typed
<1>2. /\ range' = [c \in Downloads |-> range'[c]]
      /\ \A c \in Downloads : c # d => range'[c] = range[c]
      /\ range'[d] \in [Offsets[d] -> Places]
      /\ \A x \in Offsets[d] :
            /\ range'[d][x] \in Unpacked <=> x = o \/ range[d][x] \in Unpacked
            /\ range'[d][x] \notin Unpacked => range'[d][x] = range[d][x]
  <2>1. range' = [c \in Downloads |-> range'[c]] /\ \A c \in Downloads : c # d => range'[c] = range[c]
    BY <1>1 DEF IInv, Typed
  <2>2. range'[d] = [x \in Offsets[d] |->
                       IF x = o THEN "current"
                       ELSE IF range[d][x] = "current" THEN "read" ELSE range[d][x]]
    BY <1>1 DEF IInv, Typed
  <2>3. range'[d] \in [Offsets[d] -> Places]
    BY <2>2 DEF IInv, Typed, Places
  <2>4. QED
    BY <2>1, <2>2, <2>3 DEF Unpacked
<1>3. /\ o + Length[d][o] \in Nat /\ o + Length[d][o] > o /\ o \in Nat
      /\ o + Length[d][o] \in Offsets[d] \/ o + Length[d][o] >= Size(d)
      /\ \A x \in Offsets[d] : x < o + Length[d][o] <=> x <= o
  BY <1>1, NextOffset
<1>4. /\ download' \in [Downloads -> [at : {"start", "fetch", "done", "failed"},
                                      etag : Nat, reserve : Nat, read : Nat]]
      /\ \A c \in Downloads : /\ download'[c].at = download[c].at
                              /\ download'[c].etag = download[c].etag
                              /\ download'[c].reserve = download[c].reserve
                              /\ download'[c].read = IF c = d THEN o + Length[d][o]
                                                     ELSE download[c].read
  <2> DEFINE next == o + Length[d][o]
  <2>1. download \in [Downloads -> [at : {"start", "fetch", "done", "failed"},
                                    etag : Nat, reserve : Nat, read : Nat]]
    BY DEF IInv, Typed
  <2>2. next \in Nat /\ download' = [download EXCEPT ![d].read = next]
    BY <1>1, <1>3
  <2> HIDE DEF next
  <2>3. /\ download' \in [Downloads -> [at : {"start", "fetch", "done", "failed"},
                                        etag : Nat, reserve : Nat, read : Nat]]
        /\ \A c \in Downloads : /\ download'[c].at = download[c].at
                                /\ download'[c].etag = download[c].etag
                                /\ download'[c].reserve = download[c].reserve
                                /\ download'[c].read = IF c = d THEN next ELSE download[c].read
    BY <2>1, <2>2
  <2>4. QED
    BY <2>3 DEF next
<1>5. Typed'
  BY <1>1, <1>2, <1>4 DEF IInv, Typed
<1>6. BytesRight'
  <2> SUFFICES ASSUME NEW c \in Downloads, NEW x \in Offsets[c], range'[c][x] \in Arrived
               PROVE  range[c][x] \in Arrived
    <3>1. \A c \in Downloads : \A x \in Offsets[c] : range[c][x] \in Arrived =>
              body'[c][x] = download'[c].etag /\ download'[c].at # "start"
      BY <1>1, <1>4 DEF BytesRight, IInv
    <3>2. QED
      BY <3>1 DEF BytesRight
  <2>1. CASE c = d
    BY <1>1, <1>2, <2>1 DEF Arrived, Unpacked
  <2>2. QED
    BY <1>2, <2>1
<1>7. OrderRight'
  <2> SUFFICES ASSUME NEW c \in Downloads
               PROVE  /\ download'[c].read \in Offsets[c] \/ download'[c].read >= Size(c)
                      /\ \A x \in Offsets[c] :
                            /\ x < download'[c].read <=> range'[c][x] \in Unpacked
                            /\ x >= download[c].reserve =>
                                  range'[c][x] \in {"todo", "queued", "dropped"}
    BY <1>4 DEF OrderRight
  <2>1. CASE c # d
    BY <1>2, <1>4, <2>1 DEF IInv, OrderRight
  <2>2. CASE c = d
    <3>1. download'[d].read \in Offsets[d] \/ download'[d].read >= Size(d)
      BY <1>3, <1>4
    <3>2. ASSUME NEW x \in Offsets[d]
          PROVE  x < download'[d].read <=> range'[d][x] \in Unpacked
      <4>1. x \in Nat
        BY NextOffset
      <4>2. x < download'[d].read <=> x <= o
        BY <1>3, <1>4
      <4>3. x < o <=> range[d][x] \in Unpacked
        BY DEF IInv, OrderRight
      <4>4. QED
        BY <1>2, <1>3, <4>1, <4>2, <4>3
    <3>3. ASSUME NEW x \in Offsets[d], x >= download[d].reserve
          PROVE  range'[d][x] \in {"todo", "queued", "dropped"}
      <4>1. range[d][x] \in {"todo", "queued", "dropped"}
        BY <3>3 DEF IInv, OrderRight
      <4>2. x # o /\ range[d][x] \notin Unpacked
        BY <1>1, <4>1 DEF Unpacked
      <4>3. QED
        BY <1>2, <4>1, <4>2
    <3>4. QED
      BY <2>2, <3>1, <3>2, <3>3
  <2>3. QED
    BY <2>1, <2>2
<1>8. CacheIsOfItsVersion' /\ WholeAndOfOneVersion'
  BY <1>1, <1>2, <1>4 DEF IInv, CacheIsOfItsVersion, WholeAndOfOneVersion, Active, Done
<1>9. QED
  BY <1>5, <1>6, <1>7, <1>8 DEF IInv

(* All have arrived and none waits to be unpacked: all are unpacked.       *)
LEMMA FinishStep ==
    ASSUME IInv, NEW d \in Downloads, Finish(d)
    PROVE  IInv'
<1>1. CASE AllFetched(d) /\ download' = [download EXCEPT ![d].at = "done"]
           /\ UNCHANGED <<range, body>>
  <2>1. /\ download' \in [Downloads -> [at : {"start", "fetch", "done", "failed"},
                                        etag : Nat, reserve : Nat, read : Nat]]
        /\ \A c \in Downloads : /\ c # d => download'[c] = download[c]
                                /\ download'[c].etag = download[c].etag
                                /\ download'[c].reserve = download[c].reserve
                                /\ download'[c].read = download[c].read
        /\ download'[d].at = "done"
    BY <1>1 DEF IInv, Typed
  <2>2. \A o \in Offsets[d] : range[d][o] \in {"current", "read"}
    <3> SUFFICES ASSUME NEW o \in Offsets[d], range[d][o] = "arrived" PROVE FALSE
      BY <1>1 DEF AllFetched
    <3> DEFINE next == download[d].read
    <3>1. o \in Nat /\ o < Size(d) /\ next \in Nat /\ Size(d) \in Nat
      BY SizeType, NextOffset DEF Offsets, IInv, Typed
    <3>2. ~ (o < next)
      BY DEF IInv, OrderRight, Unpacked
    <3>3. next \in Offsets[d]
      BY <3>1, <3>2 DEF IInv, OrderRight
    <3>4. range[d][next] \in Unpacked
      BY <1>1, <3>3 DEF Finish, Drained, AllFetched, Unpacked
    <3>5. next < next
      BY <3>3, <3>4 DEF IInv, OrderRight
    <3>6. QED
      BY <3>1, <3>5
  <2>3. Typed'
    BY <1>1, <2>1 DEF Finish, Server, IInv, Typed
  <2>4. BytesRight'
    BY <1>1, <2>1 DEF IInv, BytesRight
  <2>5. OrderRight'
    BY <1>1, <2>1 DEF IInv, OrderRight
  <2>6. CacheIsOfItsVersion'
    BY DEF Finish, Server, IInv, CacheIsOfItsVersion
  <2>7. WholeAndOfOneVersion'
    BY <1>1, <2>1, <2>2 DEF IInv, BytesRight, Arrived, WholeAndOfOneVersion, Done
  <2>8. QED
    BY <2>3, <2>4, <2>5, <2>6, <2>7 DEF IInv
<1>2. CASE /\ download' = [c \in Downloads |->
                 IF c \in Fellows(d) THEN [Fresh EXCEPT !.at = "failed"] ELSE download[c]]
           /\ range' = [c \in Downloads |->
                 IF c \in Fellows(d) THEN [o \in Offsets[c] |-> "dropped"] ELSE range[c]]
           /\ body' = [c \in Downloads |->
                 IF c \in Fellows(d) THEN [o \in Offsets[c] |-> 0] ELSE body[c]]
  <2> DEFINE Failed == [at |-> "failed", etag |-> 0, reserve |-> 0, read |-> 0]
  <2>1. /\ \A c \in Fellows(d) : /\ download'[c] = Failed
                                 /\ range'[c] = [o \in Offsets[c] |-> "dropped"]
                                 /\ body'[c] = [o \in Offsets[c] |-> 0]
        /\ \A c \in Downloads \ Fellows(d) :
              download'[c] = download[c] /\ range'[c] = range[c] /\ body'[c] = body[c]
        /\ Fellows(d) \subseteq Downloads
    BY <1>2 DEF Fresh, Fellows
  <2> HIDE DEF Failed
  <2>2. /\ range' = [c \in Downloads |-> range'[c]] /\ body' = [c \in Downloads |-> body'[c]]
        /\ download' = [c \in Downloads |-> download'[c]]
    BY <1>2
  <2>3. /\ Failed \in [at : {"start", "fetch", "done", "failed"},
                       etag : Nat, reserve : Nat, read : Nat]
        /\ Failed.at = "failed" /\ Failed.reserve = 0 /\ Failed.read = 0
    BY DEF Failed
  <2>4. Typed'
    <3>1. \A c \in Downloads :
             /\ download'[c] \in [at : {"start", "fetch", "done", "failed"},
                                 etag : Nat, reserve : Nat, read : Nat]
             /\ range'[c] \in [Offsets[c] -> Places] /\ body'[c] \in [Offsets[c] -> Nat]
      <4> SUFFICES ASSUME NEW c \in Downloads PROVE <3>1!(c)
        OBVIOUS
      <4>1. CASE c \in Fellows(d)
        <5>1. download'[c] = Failed
          BY <2>1, <4>1
        <5>2. [o \in Offsets[c] |-> "dropped"] \in [Offsets[c] -> Places]
          BY DEF Places
        <5>3. [o \in Offsets[c] |-> 0] \in [Offsets[c] -> Nat]
          OBVIOUS
        <5>4. QED
          BY <2>1, <2>3, <4>1, <5>1, <5>2, <5>3
      <4>2. CASE c \notin Fellows(d)
        BY <2>1, <4>2 DEF IInv, Typed
      <4>3. QED
        BY <4>1, <4>2
    <3>2. QED
      BY <2>2, <3>1 DEF Finish, Server, IInv, Typed
  <2>5. BytesRight'
    BY <2>1, ZenonT(40) DEF IInv, BytesRight, Arrived
  <2>6. OrderRight'
    <3> SUFFICES ASSUME NEW c \in Downloads
                 PROVE  /\ download'[c].read \in Offsets[c] \/ download'[c].read >= Size(c)
                        /\ \A o \in Offsets[c] :
                              /\ o < download'[c].read <=> range'[c][o] \in Unpacked
                              /\ o >= download'[c].reserve =>
                                    range'[c][o] \in {"todo", "queued", "dropped"}
      BY DEF OrderRight
    <3>1. CASE c \in Fellows(d)
      <4>1. 0 \in Offsets[c] \/ 0 >= Size(c)
        BY ChunkType, SizeType DEF Offsets
      <4>2. \A o \in Offsets[c] : ~ (o < 0)
        BY NextOffset
      <4>3. download'[c].read = 0 /\ \A o \in Offsets[c] : range'[c][o] = "dropped"
        BY <2>1, <2>3, <3>1, ZenonT(40)
      <4>4. QED
        BY <4>1, <4>2, <4>3 DEF Unpacked
    <3>2. CASE c \notin Fellows(d)
      BY <2>1, <3>2 DEF IInv, OrderRight
    <3>3. QED
      BY <3>1, <3>2
  <2>7. CacheIsOfItsVersion'
    BY DEF Finish, Server, IInv, CacheIsOfItsVersion
  <2>8. WholeAndOfOneVersion'
    <3>1. ASSUME NEW c \in Downloads, download'[c].at = "done"
          PROVE  /\ download[c].at = "done" /\ download'[c] = download[c]
                 /\ range'[c] = range[c] /\ body'[c] = body[c]
      <4>1. c \notin Fellows(d)
        BY <2>1, <2>3, <3>1
      <4>2. QED
        BY <2>1, <3>1, <4>1
    <3>2. QED
      BY <3>1 DEF IInv, WholeAndOfOneVersion, Done
  <2>9. QED
    BY <2>4, <2>5, <2>6, <2>7, <2>8 DEF IInv
<1>3. QED
  BY <1>1, <1>2 DEF Finish

LEMMA WorldStep ==
    ASSUME IInv, Evict \/ (\E b \in Objects : Replace(b))
    PROVE  IInv'
<1>1. UNCHANGED <<download, range, body>> /\ files' \subseteq files
  BY DEF Evict, Replace
<1>2. object' \in [Objects -> Nat] /\ inputs' \in [Downloads -> Nat]
  <2>1. CASE Evict
    BY <2>1 DEF Evict, IInv, Typed
  <2>2. ASSUME NEW b \in Objects, object' = [object EXCEPT ![b] = @ + 1], inputs' = inputs
        PROVE  object' \in [Objects -> Nat] /\ inputs' \in [Downloads -> Nat]
    BY <2>2 DEF IInv, Typed
  <2>3. QED
    BY <2>1, <2>2 DEF Replace
<1>3. QED
  BY <1>1, <1>2, QuietStep DEF IInv, CacheIsOfItsVersion

(***************************************************************************)
(* The theorems                                                            *)
(***************************************************************************)
(* Bytes, offsets and memory stay related as the inductive invariant says, *)
(* in every interleaving of the downloads of all daemons.                  *)
THEOREM Inductive == Spec => []IInv
<1>1. Init => IInv
  <2> SUFFICES ASSUME Init PROVE IInv
    OBVIOUS
  <2>1. Typed
    BY DEF Init, Typed, Places, Fresh
  <2>2. BytesRight
    BY DEF Init, BytesRight, Arrived
  <2>3. OrderRight
    <3> SUFFICES ASSUME NEW d \in Downloads
                 PROVE  /\ 0 \in Offsets[d] \/ 0 >= Size(d)
                        /\ \A o \in Offsets[d] : ~ (o < 0)
      BY DEF Init, OrderRight, Fresh, Unpacked
    <3>1. \A o \in Offsets[d] : ~ (o < 0)
      BY NextOffset
    <3>2. QED
      BY <3>1, ChunkType, SizeType DEF Offsets
  <2>4. CacheIsOfItsVersion /\ WholeAndOfOneVersion
    BY DEF Init, Fresh, CacheIsOfItsVersion, WholeAndOfOneVersion, Done
  <2>5. QED
    BY <2>1, <2>2, <2>3, <2>4 DEF IInv
<1>2. IInv /\ [Next]_vars => IInv'
  <2> SUFFICES ASSUME IInv, [Next]_vars PROVE IInv'
    OBVIOUS
  <2>1. ASSUME NEW d \in Downloads, Work(d)
        PROVE  IInv'
    BY <2>1, StartStep, ReserveStep, ReadStep, FinishStep, ReceiveStep DEF Work
  <2>2. ASSUME NEW d \in Downloads, NEW o \in Offsets[d], Broken(d, o) \/ Refused(d, o)
        PROVE  IInv'
    BY <2>2, ReceiveStep, RefusedStep
  <2>3. ASSUME NEW h \in Daemons, Grant(h)
        PROVE  IInv'
    BY <2>3, GrantStep
  <2>4. CASE Evict \/ \E b \in Objects : Replace(b)
    BY <2>4, WorldStep
  <2>5. CASE UNCHANGED vars
    BY <2>5, QuietStep DEF vars, IInv, Typed, CacheIsOfItsVersion
  <2>6. QED
    BY <2>1, <2>2, <2>3, <2>4, <2>5 DEF Next
<1>3. QED
  BY <1>1, <1>2, PTL DEF Spec

(* A published asset is the whole object in the version that the run was   *)
(* given, for any sizes, budgets and orders in which its ranges arrive.    *)
COROLLARY PublishedWhole == Spec => []WholeAndOfOneVersion
<1>1. IInv => WholeAndOfOneVersion
  BY DEF IInv
<1>2. QED
  BY <1>1, Inductive, PTL

(* The server's cache never holds bytes under the ETag of another version, *)
(* though it publishes ranges of responses that broke off.                 *)
COROLLARY CacheTrue == Spec => []CacheIsOfItsVersion
<1>1. IInv => CacheIsOfItsVersion
  BY DEF IInv
<1>2. QED
  BY <1>1, Inductive, PTL

(***************************************************************************)
(* The entry of one asset: the inductive invariant                         *)
(***************************************************************************)
ProcType ==
    [at : {"start", "opened", "wait", "found", "fill", "rename", "share",
           "relock", "leased", "entry", "part", "clear_entry", "clear_part",
           "unlink", "done", "failed"},
     inode : Inodes \cup {None}, lock : {"none", "shared", "exclusive"}]

(* The lock file is open, and its inode not yet known to be the one at the *)
(* path; or the process is past that: a download or a store past the check *)
(* of lock(), an eviction that removes.                                    *)
Opening == {"opened", "entry", "part"}
Inside(at) == at \notin {"start", "done", "failed"} \cup Opening
Removing(at) == at \in Clearing \cup {"unlink"}
Filling(at) == at \in {"fill", "rename"}

(* Where a process may be, and the locks it may have there.                *)
PlacesOf(p) ==
    {"start", "done", "failed"}
        \cup (IF p \in Evictors THEN {"entry", "part", "unlink"} \cup Clearing
              ELSE {"opened", "fill", "rename"})
        \cup (IF p \in Downloaders THEN {"wait", "found", "share", "relock", "leased"} ELSE {})

LocksAt(p, at) ==
    IF Removing(at) THEN {"exclusive"}
    ELSE IF at = "leased" THEN {"shared"}
    ELSE IF Filling(at) THEN (IF p \in Downloaders THEN {"exclusive"} ELSE {"shared"})
    ELSE IF at \in {"found", "share"} THEN {"none", "exclusive"} ELSE {"none"}

LockRight ==
    \A p \in Processes : proc[p].at \in PlacesOf(p) /\ proc[p].lock \in LocksAt(p, proc[p].at)

(* Unless an eviction was unsafe: all that are inside have the inode at    *)
(* the path, an exclusive lock is the only one, and nobody is inside with  *)
(* an eviction that removes.                                               *)
OneInode ==
    \A p \in Processes :
        /\ Inside(proc[p].at) => proc[p].inode = lockFile /\ lockFile # None
        /\ proc[p].at \in Opening => proc[p].inode # None

Alone ==
    \A p, q \in Processes :
        proc[p].lock = "exclusive" /\ p # q => proc[q].lock = "none"

Undisturbed ==
    \A p, q \in Processes :
        Removing(proc[p].at) /\ p # q => ~Inside(proc[q].at)

(* What they rely on: who saw the entry still sees it, who fills finds no  *)
(* entry and works on its own .part, and no entry is published half.       *)
EntryRight ==
    /\ entry # "partial"
    /\ \A p \in Processes :
           /\ proc[p].at = "leased" => entry # "none"
           /\ proc[p].at = "found" /\ proc[p].lock = "none" => entry # "none"
           /\ Filling(proc[p].at) => entry = "none" /\ part.by = p
           /\ proc[p].at = "rename" => part.whole

EntryInv ==
    /\ EntryTypeOK
    /\ unsafe = {} => OneInode /\ Alone /\ Undisturbed /\ LockRight /\ EntryRight

(***************************************************************************)
(* The lock file                                                           *)
(***************************************************************************)
LEMMA LeastInode ==
    ASSUME NEW S \in SUBSET Nat, S # {}
    PROVE  Min(S) \in S
<1>1. PICK n \in S : \A k \in S : ~ (<<k, n>> \in OpToRel(<, Nat))
  BY WFMin, NatLessThanWellFounded
<1>2. \A k \in S : ~ (k < n)
  BY <1>1 DEF OpToRel
<1>3. \E x \in S : \A y \in S : x <= y
  BY <1>2
<1> QED
  BY <1>3 DEF Min

(* With one inode more than processes there is one for a new lock file.    *)
LEMMA OpenedRight ==
    ASSUME EntryTypeOK
    PROVE  Opened \in Inodes
<1> DEFINE f == [p \in Processes |-> proc[p].inode]
           R == {f[p] : p \in Processes}
           n == Cardinality(Processes)
<1>1. IsFiniteSet(Processes) /\ n \in Nat
  BY AssetCacheAssumption, FS_CardinalityType
<1>2. CASE lockFile # None
  BY <1>2 DEF EntryTypeOK, Opened
<1>3. CASE lockFile = None
  <2>1. f \in Surjection(Processes, R)
    BY DEF Surjection
  <2>2. IsFiniteSet(R) /\ Cardinality(R) <= n /\ Cardinality(R) \in Nat
    <3> HIDE DEF f, R
    <3>1. QED
      BY <1>1, <2>1, FS_Surjection, FS_CardinalityType
  <2>3. \E i \in Inodes : i \notin R
    <3>1. SUFFICES ASSUME Inodes \subseteq R PROVE FALSE
      OBVIOUS
    <3> HIDE DEF R
    <3>2. Cardinality(Inodes) <= Cardinality(R)
      BY <2>2, <3>1, FS_Subset
    <3>3. Cardinality(Inodes) = n + 1
      <4>1. 1 \in Int /\ n + 1 \in Int /\ ~(1 > n + 1)
        BY <1>1
      <4>2. Cardinality(1 .. n + 1) = n + 1
        BY <1>1, <4>1, FS_Interval
      <4>3. QED
        BY <4>2 DEF Inodes
    <3>4. QED
      BY <1>1, <2>2, <3>2, <3>3
  <2>4. InUse = {None} \cup R
    BY <1>3 DEF InUse
  <2>5. Inodes \ InUse # {}
    <3>1. None \notin Inodes
      BY <1>1 DEF Inodes, None
    <3>2. QED
      BY <2>3, <2>4, <3>1
  <2>6. Inodes \ InUse \in SUBSET Nat
    BY <1>1 DEF Inodes
  <2>7. Min(Inodes \ InUse) \in Inodes \ InUse
    BY <2>5, <2>6, LeastInode
  <2>8. QED
    BY <1>3, <2>7 DEF Opened
<1> QED
  BY <1>2, <1>3

LEMMA OpenedAtPath == lockFile # None => Opened = lockFile
BY DEF Opened

LEMMA NoneIsNoInode == None \notin Inodes
<1>1. Cardinality(Processes) \in Nat
  BY AssetCacheAssumption, FS_CardinalityType
<1> QED
  BY <1>1 DEF Inodes, None

(***************************************************************************)
(* One lemma per step                                                      *)
(***************************************************************************)
LEMMA EntryStarts == EntryInit => EntryInv
<1> SUFFICES ASSUME EntryInit PROVE EntryInv
  OBVIOUS
<1>1. EntryTypeOK
  <2>1. proc \in [Processes -> ProcType]
    BY DEF EntryInit, ProcType, Closed
  <2>2. part \in [by : Processes \cup {None}, whole : BOOLEAN]
    <3>1. NoPart \in [by : Processes \cup {None}, whole : BOOLEAN]
      BY DEF NoPart
    <3>2. QED
      BY <3>1 DEF EntryInit
  <2>3. evictions \in 0 .. Evictions /\ deaths \in 0 .. Deaths
    BY AssetCacheAssumption DEF EntryInit
  <2>4. QED
    BY <2>1, <2>2, <2>3 DEF EntryInit, EntryTypeOK, ProcType
<1>2. OneInode /\ Alone /\ Undisturbed /\ LockRight /\ EntryRight
  BY DEF EntryInit, OneInode, Alone, Undisturbed, LockRight, EntryRight, Inside, Opening, Filling,
     Removing, Clearing, PlacesOf, LocksAt, Closed
<1> QED
  BY <1>1, <1>2 DEF EntryInv

(* One process moves on, and has a lock only if nobody objects.            *)
LEMMA OneMoves ==
    ASSUME EntryInv, unsafe = {}, NEW p \in Processes, NEW r \in ProcType,
           proc' = [proc EXCEPT ![p] = r],
           r.at \in PlacesOf(p), r.lock \in LocksAt(p, r.at),
           lockFile # None => lockFile' = lockFile,
           Inside(r.at) => r.inode = lockFile' /\ lockFile' # None,
           r.at \in Opening => r.inode # None,
           Inside(r.at) => \/ Inside(proc[p].at)
                           \/ \A q \in Processes \ {p} : proc[q].lock # "exclusive",
           Removing(r.at) => \A q \in Processes \ {p} : ~Inside(proc[q].at),
           \/ r.lock \in {"none", proc[p].lock}
           \/ r.lock = "shared" /\ \A q \in Processes \ {p} : proc[q].lock # "exclusive"
           \/ \A q \in Processes \ {p} : proc[q].lock = "none"
    PROVE  OneInode' /\ Alone' /\ Undisturbed' /\ LockRight'
<1>1. proc'[p] = r /\ \A q \in Processes \ {p} : proc'[q] = proc[q]
  BY DEF EntryInv, EntryTypeOK
<1>2. OneInode /\ Alone /\ Undisturbed /\ LockRight
  BY DEF EntryInv
<1>3. OneInode'
  BY <1>1, <1>2 DEF OneInode
<1>4. Alone'
  BY <1>1, <1>2 DEF Alone
<1>5. LockRight'
  BY <1>1, <1>2 DEF LockRight
<1>6. Undisturbed'
  <2>1. \A q \in Processes : Removing(proc[q].at) => proc[q].lock = "exclusive"
    BY <1>2 DEF LockRight, LocksAt
  <2>2. QED
    BY <1>1, <1>2, <2>1 DEF Undisturbed
<1> QED
  BY <1>3, <1>4, <1>5, <1>6

(* Whoever is inside has the inode that all others inside have.            *)
LEMMA SameInode ==
    ASSUME EntryInv, unsafe = {}, NEW p \in Processes,
           Inside(proc[p].at) \/ (proc[p].at \in Opening /\ Current(p))
    PROVE  /\ CanShare(p) => \A q \in Processes \ {p} : proc[q].lock # "exclusive"
           /\ CanExclude(p) => \A q \in Processes \ {p} : proc[q].lock = "none"
<1>1. ASSUME NEW q \in Processes \ {p}, proc[q].lock # "none"
      PROVE  q \in Others(p)
  <2>1. Inside(proc[q].at)
    BY <1>1 DEF EntryInv, LockRight, LocksAt, Removing, Clearing, Inside, Opening, Filling
  <2>2. proc[q].inode = lockFile /\ proc[p].inode = lockFile
    BY <1>1, <2>1 DEF EntryInv, OneInode, Current
  <2>3. QED
    BY <2>2 DEF Others
<1> QED
  BY <1>1 DEF CanShare, CanExclude

(* A process that does not fill leaves the others what they rely on.       *)
LEMMA OthersKeep ==
    ASSUME EntryInv, unsafe = {}, NEW p \in Processes, NEW r \in ProcType,
           proc' = [proc EXCEPT ![p] = r], entry' = entry, part' = part,
           r.at = "leased" => entry # "none",
           r.at = "found" /\ r.lock = "none" => entry # "none",
           Filling(r.at) => entry = "none" /\ part.by = p,
           r.at = "rename" => part.whole
    PROVE  EntryRight'
<1>1. proc'[p] = r /\ \A q \in Processes \ {p} : proc'[q] = proc[q]
  BY DEF EntryInv, EntryTypeOK
<1> QED
  BY <1>1 DEF EntryInv, EntryRight

LEMMA OpenKeeps ==
    ASSUME EntryInv, NEW p \in Processes, Open(p)
    PROVE  EntryInv'
<1> DEFINE r == [at |-> "opened", inode |-> Opened, lock |-> "none"]
<1>1. Opened \in Inodes /\ Opened # None /\ (lockFile # None => Opened = lockFile)
  BY OpenedRight, OpenedAtPath, NoneIsNoInode DEF EntryInv
<1>2. r \in ProcType /\ proc' = [proc EXCEPT ![p] = r] /\ r.at = "opened"
      /\ r.lock = "none" /\ r.inode = Opened
  BY <1>1 DEF ProcType, Open, OpenLock
<1>3. EntryTypeOK'
  BY <1>1 DEF EntryInv, EntryTypeOK, Open, OpenLock
<1>4. ASSUME unsafe' = {}
      PROVE  OneInode' /\ Alone' /\ Undisturbed' /\ LockRight' /\ EntryRight'
  <2>1. unsafe = {} /\ entry' = entry /\ part' = part /\ lockFile' = Opened
    BY <1>4 DEF Open, OpenLock
  <2>2. r.at \in PlacesOf(p) /\ r.lock \in LocksAt(p, r.at) /\ ~Inside(r.at) /\ ~Filling(r.at)
        /\ ~Removing(r.at)
    BY <1>2, AssetCacheAssumption DEF Open, PlacesOf, LocksAt, Removing, Clearing, Inside,
       Opening, Filling
  <2> HIDE DEF r
  <2>3. OneInode' /\ Alone' /\ Undisturbed' /\ LockRight'
    BY <1>1, <1>2, <2>1, <2>2, OneMoves
  <2>4. EntryRight'
    BY <1>2, <2>1, <2>2, OthersKeep
  <2>5. QED
    BY <2>3, <2>4
<1> QED
  BY <1>3, <1>4 DEF EntryInv

(* What a process may become while entry, .part and lock file stay.        *)
MayBecome(p, r) ==
    /\ r.at \in PlacesOf(p) /\ r.lock \in LocksAt(p, r.at)
    /\ Inside(r.at) => r.inode = lockFile /\ lockFile # None
    /\ r.at \notin Opening /\ ~Removing(r.at)
    /\ Inside(r.at) => \/ Inside(proc[p].at)
                       \/ \A q \in Processes \ {p} : proc[q].lock # "exclusive"
    /\ \/ r.lock \in {"none", proc[p].lock}
       \/ r.lock = "shared" /\ \A q \in Processes \ {p} : proc[q].lock # "exclusive"
       \/ \A q \in Processes \ {p} : proc[q].lock = "none"
    /\ r.at = "leased" => entry # "none"
    /\ r.at = "found" /\ r.lock = "none" => entry # "none"
    /\ ~Filling(r.at)

LEMMA MoveKeeps ==
    ASSUME EntryInv, NEW p \in Processes, NEW r \in ProcType,
           proc' = [proc EXCEPT ![p] = r],
           UNCHANGED <<entry, part, lockFile, evictions, unsafe>>,
           deaths' \in 0 .. Deaths,
           unsafe = {} => MayBecome(p, r)
    PROVE  EntryInv'
<1>1. EntryTypeOK'
  BY DEF EntryInv, EntryTypeOK, ProcType
<1>2. ASSUME unsafe' = {}
      PROVE  OneInode' /\ Alone' /\ Undisturbed' /\ LockRight' /\ EntryRight'
  <2>1. unsafe = {} /\ MayBecome(p, r)
    BY <1>2
  <2>2. OneInode' /\ Alone' /\ Undisturbed' /\ LockRight'
    BY <2>1, OneMoves DEF MayBecome
  <2>3. EntryRight'
    <3>1. r.at # "rename" /\ ~Filling(r.at)
      BY <2>1 DEF MayBecome, Filling
    <3>2. QED
      BY <2>1, <3>1, OthersKeep DEF MayBecome
  <2>4. QED
    BY <2>2, <2>3
<1> QED
  BY <1>1, <1>2 DEF EntryInv

LEMMA ClosedMayBe ==
    ASSUME NEW p \in Processes, NEW at \in {"start", "done", "failed"}
    PROVE  Closed(at) \in ProcType /\ MayBecome(p, Closed(at))
<1>1. Closed(at) \in ProcType
  BY DEF Closed, ProcType
<1>2. MayBecome(p, Closed(at))
  BY DEF Closed, MayBecome, PlacesOf, LocksAt, Removing, Clearing, Inside, Opening, Filling
<1> QED
  BY <1>1, <1>2

LEMMA CloseKeeps ==
    ASSUME EntryInv, NEW p \in Processes, NEW at \in {"start", "done", "failed"},
           proc' = [proc EXCEPT ![p] = Closed(at)],
           UNCHANGED <<entry, part, lockFile, evictions, unsafe>>,
           deaths' \in 0 .. Deaths
    PROVE  EntryInv'
BY ClosedMayBe, MoveKeeps

LEMMA LockKeeps ==
    ASSUME EntryInv, NEW d \in Processes, Lock(d)
    PROVE  EntryInv'
<1>1. deaths' \in 0 .. Deaths
  BY DEF Lock, EntryInv, EntryTypeOK
<1>2. CASE Current(d)
  <2> DEFINE r == [proc[d] EXCEPT !.at = "wait"]
  <2>1. /\ r \in ProcType /\ r.at = "wait" /\ r.lock = proc[d].lock /\ r.inode = proc[d].inode
        /\ proc' = [proc EXCEPT ![d] = r]
    BY <1>2 DEF Lock, EntryInv, EntryTypeOK, ProcType
  <2> HIDE DEF r
  <2>2. unsafe = {} => \A q \in Processes \ {d} : proc[q].lock # "exclusive"
    BY <1>2, SameInode DEF Lock, Opening
  <2>3. unsafe = {} => MayBecome(d, r)
    BY <1>2, <2>1, <2>2 DEF Lock, Current, MayBecome, EntryInv, OneInode, LockRight, LocksAt, Removing,
       Clearing, PlacesOf, Inside, Opening, Filling
  <2>4. QED
    BY <1>1, <2>1, <2>3, MoveKeeps DEF Lock
<1>3. CASE ~Current(d)
  BY <1>1, <1>3, CloseKeeps DEF Lock
<1> QED
  BY <1>2, <1>3

LEMMA WaitKeeps ==
    ASSUME EntryInv, NEW d \in Processes, Wait(d)
    PROVE  EntryInv'
<1>1. deaths' \in 0 .. Deaths
  BY DEF Wait, EntryInv, EntryTypeOK
<1>2. unsafe = {} => /\ proc[d].lock = "none" /\ d \in Downloaders /\ d \notin Evictors
                     /\ proc[d].inode = lockFile /\ lockFile # None
                     /\ Inside(proc[d].at)
  BY AssetCacheAssumption DEF Wait, EntryInv, OneInode, LockRight, LocksAt, Removing, Clearing,
     PlacesOf, Inside, Opening, Filling
<1>3. CASE entry # "none" /\ Goto(d, "found")
  <2> DEFINE r == [proc[d] EXCEPT !.at = "found"]
  <2>1. /\ r \in ProcType /\ r.at = "found" /\ r.lock = proc[d].lock /\ r.inode = proc[d].inode
        /\ proc' = [proc EXCEPT ![d] = r]
    BY <1>3 DEF Goto, EntryInv, EntryTypeOK, ProcType
  <2> HIDE DEF r
  <2>2. unsafe = {} => MayBecome(d, r)
    BY <1>2, <1>3, <2>1 DEF MayBecome, LocksAt, Removing, Clearing, PlacesOf, Inside, Opening,
       Filling
  <2>3. QED
    BY <1>1, <2>1, <2>2, MoveKeeps DEF Wait
<1>4. CASE /\ entry = "none" /\ CanExclude(d)
           /\ proc' = [proc EXCEPT ![d].at = "found", ![d].lock = "exclusive"]
  <2> DEFINE r == [proc[d] EXCEPT !.at = "found", !.lock = "exclusive"]
  <2>1. /\ r \in ProcType /\ r.at = "found" /\ r.lock = "exclusive" /\ r.inode = proc[d].inode
        /\ proc' = [proc EXCEPT ![d] = r]
    BY <1>4 DEF EntryInv, EntryTypeOK, ProcType
  <2> HIDE DEF r
  <2>2. unsafe = {} => \A q \in Processes \ {d} : proc[q].lock = "none"
    BY <1>4, SameInode DEF Wait, Inside, Opening
  <2>3. unsafe = {} => MayBecome(d, r)
    BY <1>2, <2>1, <2>2 DEF MayBecome, LocksAt, Removing, Clearing, PlacesOf, Inside, Opening,
       Filling
  <2>4. QED
    BY <1>1, <2>1, <2>3, MoveKeeps DEF Wait
<1> QED
  BY <1>3, <1>4 DEF Wait

LEMMA DowngradeKeeps ==
    ASSUME EntryInv, NEW d \in Processes, Downgrade(d)
    PROVE  EntryInv'
<1> DEFINE r == [proc[d] EXCEPT !.at = "relock", !.lock = "none"]
<1>1. /\ r \in ProcType /\ r.at = "relock" /\ r.lock = "none" /\ r.inode = proc[d].inode
      /\ proc' = [proc EXCEPT ![d] = r]
  BY DEF Downgrade, EntryInv, EntryTypeOK, ProcType
<1> HIDE DEF r
<1>2. unsafe = {} => MayBecome(d, r)
  BY <1>1, AssetCacheAssumption DEF Downgrade, EntryInv, OneInode, LockRight, MayBecome, LocksAt,
     Removing, Clearing, PlacesOf, Inside, Opening, Filling
<1>3. deaths' \in 0 .. Deaths
  BY DEF Downgrade, EntryInv, EntryTypeOK
<1> QED
  BY <1>1, <1>2, <1>3, MoveKeeps DEF Downgrade

LEMMA ShareKeeps ==
    ASSUME EntryInv, NEW d \in Processes, Share(d)
    PROVE  EntryInv'
<1>1. deaths' \in 0 .. Deaths
  BY DEF Share, EntryInv, EntryTypeOK
<1>2. CASE entry # "none"
  <2> DEFINE r == [proc[d] EXCEPT !.at = "leased", !.lock = "shared"]
  <2>1. /\ r \in ProcType /\ r.at = "leased" /\ r.lock = "shared" /\ r.inode = proc[d].inode
        /\ proc' = [proc EXCEPT ![d] = r]
    BY <1>2 DEF Share, EntryInv, EntryTypeOK, ProcType
  <2> HIDE DEF r
  <2>2. unsafe = {} => \A q \in Processes \ {d} : proc[q].lock # "exclusive"
    BY SameInode DEF Share, Inside, Opening
  <2>3. unsafe = {} => MayBecome(d, r)
    BY <1>2, <2>1, <2>2, AssetCacheAssumption DEF Share, EntryInv, OneInode, LockRight, MayBecome,
       LocksAt, Removing, Clearing, PlacesOf, Inside, Opening, Filling
  <2>4. QED
    BY <1>1, <2>1, <2>3, MoveKeeps DEF Share
<1>3. CASE entry = "none"
  BY <1>1, <1>3, CloseKeeps DEF Share
<1> QED
  BY <1>2, <1>3

LEMMA LeaveKeeps ==
    ASSUME EntryInv, NEW p \in Processes, Close(p) \/ Die(p)
    PROVE  EntryInv'
<1>1. CASE Close(p)
  BY <1>1, CloseKeeps DEF Close, EntryInv, EntryTypeOK
<1>2. CASE Die(p)
  <2>1. deaths' \in 0 .. Deaths
    BY <1>2, AssetCacheAssumption DEF Die, EntryInv, EntryTypeOK
  <2>2. QED
    BY <1>2, <2>1, CloseKeeps DEF Die
<1> QED
  BY <1>1, <1>2

LEMMA FindKeeps ==
    ASSUME EntryInv, NEW d \in Processes, Find(d)
    PROVE  EntryInv'
<1>1. unsafe = {} => /\ d \in Downloaders /\ d \notin Evictors
                     /\ proc[d].inode = lockFile /\ lockFile # None
                     /\ Inside(proc[d].at)
                     /\ proc[d].lock \in {"none", "exclusive"}
                     /\ proc[d].lock = "none" => entry # "none"
  BY AssetCacheAssumption DEF Find, EntryInv, OneInode, LockRight, EntryRight, LocksAt, Removing,
     Clearing, PlacesOf, Inside, Opening, Filling
<1>2. CASE entry # "none" /\ Goto(d, "share") /\ UNCHANGED part
  <2> DEFINE r == [proc[d] EXCEPT !.at = "share"]
  <2>1. /\ r \in ProcType /\ r.at = "share" /\ r.lock = proc[d].lock /\ r.inode = proc[d].inode
        /\ proc' = [proc EXCEPT ![d] = r]
    BY <1>2 DEF Goto, EntryInv, EntryTypeOK, ProcType
  <2> HIDE DEF r
  <2>2. unsafe = {} => MayBecome(d, r)
    BY <1>1, <2>1 DEF MayBecome, LocksAt, Removing, Clearing, PlacesOf, Inside, Opening, Filling
  <2>3. deaths' \in 0 .. Deaths
    BY DEF Find, EntryInv, EntryTypeOK
  <2>4. QED
    BY <1>2, <2>1, <2>2, <2>3, MoveKeeps DEF Find
<1>3. CASE entry = "none" /\ Goto(d, "fill") /\ part' = [by |-> d, whole |-> FALSE]
  <2> DEFINE r == [proc[d] EXCEPT !.at = "fill"]
  <2>1. /\ r \in ProcType /\ r.at = "fill" /\ r.lock = proc[d].lock /\ r.inode = proc[d].inode
        /\ proc' = [proc EXCEPT ![d] = r]
    BY <1>3 DEF Goto, EntryInv, EntryTypeOK, ProcType
  <2> HIDE DEF r
  <2>2. EntryTypeOK'
    BY <1>3, <2>1 DEF Find, EntryInv, EntryTypeOK, ProcType
  <2>3. ASSUME unsafe' = {}
        PROVE  OneInode' /\ Alone' /\ Undisturbed' /\ LockRight' /\ EntryRight'
    <3>1. unsafe = {} /\ lockFile' = lockFile /\ entry' = entry
      BY <2>3 DEF Find
    <3>2. OneInode' /\ Alone' /\ Undisturbed' /\ LockRight'
      BY <1>1, <1>3, <2>1, <3>1, OneMoves DEF LocksAt, Removing, Clearing, PlacesOf, Inside,
         Opening, Filling
    <3>3. \A q \in Processes \ {d} : ~Filling(proc[q].at)
      <4>1. proc[d].lock = "exclusive"
        BY <1>1, <1>3, <3>1
      <4>2. \A q \in Processes \ {d} : proc[q].lock = "none"
        BY <3>1, <4>1 DEF EntryInv, Alone
      <4>3. QED
        BY <3>1, <4>2 DEF EntryInv, LockRight, LocksAt, Removing, Clearing, Filling
    <3>4. EntryRight'
      <4>1. proc'[d] = r /\ \A q \in Processes \ {d} : proc'[q] = proc[q]
        BY <2>1 DEF EntryInv, EntryTypeOK
      <4>2. part'.by = d
        BY <1>3
      <4>3. QED
        BY <1>3, <2>1, <3>1, <3>3, <4>1, <4>2 DEF EntryInv, EntryRight, Filling
    <3>5. QED
      BY <3>2, <3>4
  <2>4. QED
    BY <2>2, <2>3 DEF EntryInv
<1> QED
  BY <1>2, <1>3 DEF Find

LEMMA FillKeeps ==
    ASSUME EntryInv, NEW p \in Processes, Fill(p)
    PROVE  EntryInv'
<1> DEFINE r == [proc[p] EXCEPT !.at = "rename"]
<1>1. /\ r \in ProcType /\ r.at = "rename" /\ r.lock = proc[p].lock /\ r.inode = proc[p].inode
      /\ proc' = [proc EXCEPT ![p] = r]
  BY DEF Fill, Goto, EntryInv, EntryTypeOK, ProcType
<1> HIDE DEF r
<1>2. EntryTypeOK'
  <2>1. part' \in [by : Processes \cup {None}, whole : BOOLEAN]
    BY DEF Fill, EntryInv, EntryTypeOK
  <2>2. QED
    BY <1>1, <2>1 DEF Fill, EntryInv, EntryTypeOK, ProcType
<1>3. ASSUME unsafe' = {}
      PROVE  OneInode' /\ Alone' /\ Undisturbed' /\ LockRight' /\ EntryRight'
  <2>1. unsafe = {} /\ lockFile' = lockFile /\ entry' = entry /\ proc[p].at = "fill"
    BY <1>3 DEF Fill
  <2>2. /\ proc[p].lock \in LocksAt(p, "fill") /\ proc[p].inode = lockFile /\ lockFile # None
        /\ p \notin Evictors /\ entry = "none" /\ part.by = p
        /\ Inside(proc[p].at)
    BY <2>1, AssetCacheAssumption DEF EntryInv, OneInode, LockRight, EntryRight, PlacesOf,
       Clearing, Inside, Opening, Filling
  <2>3. OneInode' /\ Alone' /\ Undisturbed' /\ LockRight'
    <3>1. r.at \in PlacesOf(p) /\ r.lock \in LocksAt(p, r.at) /\ r.at \notin Opening
          /\ ~Removing(r.at)
      BY <1>1, <2>2 DEF LocksAt, Removing, Clearing, Opening, PlacesOf, Filling
    <3>2. QED
      BY <1>1, <2>1, <2>2, <3>1, OneMoves
  <2>4. EntryRight'
    <3>1. proc'[p] = r /\ \A q \in Processes \ {p} : proc'[q] = proc[q]
      BY <1>1 DEF EntryInv, EntryTypeOK
    <3>2. part' = [part EXCEPT !.whole = TRUE]
      BY <2>2 DEF Fill
    <3>3. part'.by = part.by /\ part'.whole
      BY <3>2 DEF EntryInv, EntryTypeOK
    <3>4. QED
      BY <1>1, <2>1, <2>2, <3>1, <3>3 DEF EntryInv, EntryRight, Filling
  <2>5. QED
    BY <2>3, <2>4
<1> QED
  BY <1>2, <1>3 DEF EntryInv

(* One process fills at a time: a daemon alone has a lock, and there is    *)
(* one upload.                                                             *)
LEMMA OneFills ==
    ASSUME EntryInv, unsafe = {}, NEW p \in Processes, NEW q \in Processes,
           Filling(proc[p].at), Filling(proc[q].at)
    PROVE  p = q
<1>1. /\ p \notin Evictors /\ q \notin Evictors
      /\ proc[p].lock = IF p \in Downloaders THEN "exclusive" ELSE "shared"
      /\ proc[q].lock = IF q \in Downloaders THEN "exclusive" ELSE "shared"
  BY DEF EntryInv, LockRight, LocksAt, Removing, Clearing, PlacesOf, Filling
<1>2. CASE p \in Downloaders \/ q \in Downloaders
  BY <1>1, <1>2 DEF EntryInv, Alone
<1>3. CASE p \in Stores /\ q \in Stores
  BY <1>3, AssetCacheAssumption
<1> QED
  BY <1>1, <1>2, <1>3 DEF Processes

LEMMA RenameKeeps ==
    ASSUME EntryInv, NEW p \in Processes, Rename(p)
    PROVE  EntryInv'
<1>1. CASE /\ part.by # None /\ entry \in {"none", "damaged"}
           /\ entry' = IF part.whole THEN "whole" ELSE "partial"
           /\ part' = NoPart
           /\ proc' = [proc EXCEPT ![p] =
                          IF p \in Stores THEN Closed("done") ELSE [@ EXCEPT !.at = "share"]]
  <2> DEFINE r == IF p \in Stores THEN Closed("done") ELSE [proc[p] EXCEPT !.at = "share"]
  <2>1. /\ r \in ProcType /\ proc' = [proc EXCEPT ![p] = r]
        /\ p \in Stores => r.at = "done" /\ r.lock = "none"
        /\ p \notin Stores => /\ r.at = "share" /\ r.lock = proc[p].lock
                               /\ r.inode = proc[p].inode
    BY <1>1 DEF EntryInv, EntryTypeOK, ProcType, Closed
  <2> HIDE DEF r
  <2>2. EntryTypeOK'
    <3>1. part' \in [by : Processes \cup {None}, whole : BOOLEAN]
      BY <1>1 DEF NoPart
    <3>2. QED
      BY <1>1, <2>1, <3>1 DEF Rename, EntryInv, EntryTypeOK, ProcType
  <2>3. ASSUME unsafe' = {}
        PROVE  OneInode' /\ Alone' /\ Undisturbed' /\ LockRight' /\ EntryRight'
    <3>1. unsafe = {} /\ lockFile' = lockFile /\ proc[p].at = "rename"
      BY <2>3 DEF Rename
    <3>2. /\ proc[p].lock = IF p \in Downloaders THEN "exclusive" ELSE "shared"
          /\ proc[p].inode = lockFile /\ lockFile # None
          /\ p \notin Evictors /\ part.whole /\ Inside(proc[p].at)
      BY <3>1, AssetCacheAssumption DEF EntryInv, OneInode, LockRight, LocksAt, Removing,
         Clearing, EntryRight, PlacesOf, Inside, Opening, Filling
    <3>3. /\ r.at \in PlacesOf(p) /\ r.lock \in LocksAt(p, r.at)
          /\ r.at \notin Opening /\ ~Removing(r.at) /\ r.lock \in {"none", proc[p].lock}
          /\ Inside(r.at) => r.inode = lockFile
          /\ ~Filling(r.at) /\ r.at # "leased" /\ r.at # "found"
      BY <2>1, <3>2 DEF LocksAt, Removing, Clearing, PlacesOf, Filling, Inside, Opening, Processes
    <3>4. OneInode' /\ Alone' /\ Undisturbed' /\ LockRight'
      BY <2>1, <3>1, <3>2, <3>3, OneMoves
    <3>5. \A q \in Processes \ {p} : ~Filling(proc[q].at)
      BY <3>1, OneFills DEF Filling
    <3>6. EntryRight'
      <4>1. proc'[p] = r /\ \A q \in Processes \ {p} : proc'[q] = proc[q]
        BY <2>1 DEF EntryInv, EntryTypeOK
      <4>2. entry' = "whole"
        BY <1>1, <3>2
      <4>3. \A q \in Processes : ~Filling(proc'[q].at) /\ proc'[q].at # "rename"
        BY <3>3, <3>5, <4>1 DEF Filling
      <4>4. QED
        BY <4>2, <4>3 DEF EntryRight
    <3>7. QED
      BY <3>4, <3>6
  <2>4. QED
    BY <2>2, <2>3 DEF EntryInv
<1>2. CASE /\ part.by = None \/ entry # "none"
           /\ proc' = [proc EXCEPT ![p] = Closed("failed")]
           /\ UNCHANGED <<entry, part>>
  BY <1>2, CloseKeeps DEF Rename, EntryInv, EntryTypeOK
<1> QED
  BY <1>1, <1>2 DEF Rename

LEMMA StoreKeeps ==
    ASSUME EntryInv, NEW s \in Processes, Store(s)
    PROVE  EntryInv'
<1>1. deaths' \in 0 .. Deaths
  BY DEF Store, EntryInv, EntryTypeOK
<1>2. CASE ~Current(s) \/ entry # "none"
  BY <1>1, <1>2, CloseKeeps DEF Store
<1>3. CASE Current(s) /\ entry = "none"
  <2> DEFINE r == [proc[s] EXCEPT !.at = "fill", !.lock = "shared"]
  <2>1. /\ r \in ProcType /\ r.at = "fill" /\ r.lock = "shared" /\ r.inode = proc[s].inode
        /\ proc' = [proc EXCEPT ![s] = r] /\ part' = [by |-> s, whole |-> FALSE]
    BY <1>3 DEF Store, EntryInv, EntryTypeOK, ProcType
  <2> HIDE DEF r
  <2>2. EntryTypeOK'
    BY <2>1 DEF Store, EntryInv, EntryTypeOK, ProcType
  <2>3. ASSUME unsafe' = {}
        PROVE  OneInode' /\ Alone' /\ Undisturbed' /\ LockRight' /\ EntryRight'
    <3>1. /\ unsafe = {} /\ lockFile' = lockFile /\ entry' = entry /\ proc[s].at = "opened"
          /\ CanShare(s) /\ s \in Stores /\ s \notin Downloaders /\ s \notin Evictors
      BY <2>3, AssetCacheAssumption DEF Store
    <3>2. \A q \in Processes \ {s} : proc[q].lock # "exclusive"
      BY <1>3, <3>1, SameInode DEF Opening
    <3>3. proc[s].inode = lockFile /\ lockFile # None
      BY <1>3, <3>1 DEF Current, EntryInv, OneInode, Opening
    <3>4. OneInode' /\ Alone' /\ Undisturbed' /\ LockRight'
      <4>1. r.at \in PlacesOf(s) /\ r.lock \in LocksAt(s, r.at) /\ r.at \notin Opening
            /\ ~Removing(r.at)
        BY <2>1, <3>1 DEF LocksAt, Removing, Clearing, Opening, PlacesOf, Filling
      <4>2. QED
        BY <2>1, <3>1, <3>2, <3>3, <4>1, OneMoves
    <3>5. \A q \in Processes \ {s} : ~Filling(proc[q].at)
      <4>1. ASSUME NEW q \in Processes \ {s}, Filling(proc[q].at)
            PROVE  FALSE
        <5>1. /\ q \notin Evictors
              /\ proc[q].lock = IF q \in Downloaders THEN "exclusive" ELSE "shared"
          BY <3>1, <4>1 DEF EntryInv, LockRight, LocksAt, Removing, Clearing, PlacesOf, Filling
        <5>2. q \in Stores
          BY <3>2, <4>1, <5>1 DEF Processes
        <5>3. QED
          BY <3>1, <4>1, <5>2, AssetCacheAssumption
      <4>2. QED
        BY <4>1
    <3>6. EntryRight'
      <4>1. proc'[s] = r /\ \A q \in Processes \ {s} : proc'[q] = proc[q]
        BY <2>1 DEF EntryInv, EntryTypeOK
      <4>2. part'.by = s
        BY <2>1
      <4>3. QED
        BY <1>3, <2>1, <3>1, <3>5, <4>1, <4>2 DEF EntryInv, EntryRight, Filling
    <3>7. QED
      BY <3>4, <3>6
  <2>4. QED
    BY <2>2, <2>3 DEF EntryInv
<1> QED
  BY <1>2, <1>3

LEMMA OpenVictimKeeps ==
    ASSUME EntryInv, NEW e \in Processes, OpenVictim(e)
    PROVE  EntryInv'
<1>1. PICK at \in {"entry", "part"} : OpenLock(e, at)
  BY DEF OpenVictim
<1> DEFINE r == [at |-> at, inode |-> Opened, lock |-> "none"]
<1>2. Opened \in Inodes /\ Opened # None /\ (lockFile # None => Opened = lockFile)
  BY OpenedRight, OpenedAtPath, NoneIsNoInode DEF EntryInv
<1>3. /\ r \in ProcType /\ proc' = [proc EXCEPT ![e] = r] /\ r.at = at
      /\ r.lock = "none" /\ r.inode = Opened /\ lockFile' = Opened
  BY <1>1, <1>2 DEF ProcType, OpenLock
<1> HIDE DEF r
<1>4. EntryTypeOK'
  <2>1. evictions' \in 0 .. Evictions
    BY AssetCacheAssumption DEF OpenVictim, EntryInv, EntryTypeOK
  <2>2. QED
    BY <1>2, <1>3, <2>1 DEF OpenVictim, EntryInv, EntryTypeOK, ProcType
<1>5. ASSUME unsafe' = {}
      PROVE  OneInode' /\ Alone' /\ Undisturbed' /\ LockRight' /\ EntryRight'
  <2>1. unsafe = {} /\ entry' = entry /\ part' = part /\ e \in Evictors
    BY <1>5 DEF OpenVictim
  <2>2. r.at \in PlacesOf(e) /\ r.lock \in LocksAt(e, r.at) /\ ~Filling(r.at)
        /\ ~Inside(r.at) /\ ~Removing(r.at)
        /\ r.at \notin {"leased", "found", "rename"}
    BY <1>3, <2>1 DEF PlacesOf, LocksAt, Removing, Clearing, Inside, Opening, Filling
  <2>3. OneInode' /\ Alone' /\ Undisturbed' /\ LockRight'
    BY <1>2, <1>3, <2>1, <2>2, OneMoves
  <2>4. EntryRight'
    BY <1>3, <2>1, <2>2, OthersKeep
  <2>5. QED
    BY <2>3, <2>4
<1> QED
  BY <1>4, <1>5 DEF EntryInv

(* Nobody is inside when an eviction that is safe gets its lock.           *)
LEMMA NobodyInside ==
    ASSUME EntryInv, unsafe = {}, NEW e \in Evictors, proc[e].at \in {"entry", "part"},
           CanExclude(e), Risks(e) = {}
    PROVE  Current(e) /\ \A q \in Processes \ {e} : ~Inside(proc[q].at) /\ proc[q].lock = "none"
<1>1. Current(e) /\ ~BetweenLocks(e)
  BY DEF Risks
<1>2. e \in Processes /\ proc[e].at \in Opening
  BY DEF Processes, Opening
<1>3. \A q \in Processes \ {e} : proc[q].lock = "none"
  BY <1>1, <1>2, SameInode
<1>4. ASSUME NEW q \in Processes \ {e}, Inside(proc[q].at)
      PROVE  FALSE
  <2>1. q \in Others(e) /\ proc[q].at # "opened"
    BY <1>1, <1>4 DEF EntryInv, OneInode, Others, Current, Inside, Opening
  <2>2. q \notin Downloaders
    BY <1>1, <1>3, <2>1 DEF BetweenLocks
  <2>3. proc[q].lock # "none"
    BY <1>4, <2>2 DEF EntryInv, LockRight, LocksAt, PlacesOf, Inside, Opening, Filling,
       Removing, Clearing
  <2>4. QED
    BY <1>3, <1>4, <2>3
<1> QED
  BY <1>1, <1>3, <1>4

LEMMA RemoveVictimKeeps ==
    ASSUME EntryInv, NEW e \in Processes, RemoveVictim(e)
    PROVE  EntryInv'
<1> DEFINE there == IF proc[e].at = "entry" THEN entry # "none" ELSE part.by # None
<1>1. CASE ~CanExclude(e) \/ ~there
  BY <1>1, CloseKeeps DEF RemoveVictim, EntryInv, EntryTypeOK
<1>2. CASE CanExclude(e) /\ there
  <2> DEFINE at == IF proc[e].at = "entry" THEN "clear_entry" ELSE "clear_part"
             r == [proc[e] EXCEPT !.at = at, !.lock = "exclusive"]
  <2>1. /\ r \in ProcType /\ r.at \in Clearing /\ r.lock = "exclusive"
        /\ r.inode = proc[e].inode /\ proc' = [proc EXCEPT ![e] = r]
    <3>1. proc \in [Processes -> ProcType] /\ at \in Clearing
      BY DEF EntryInv, EntryTypeOK, ProcType, Clearing
    <3>2. proc' = [proc EXCEPT ![e].at = at, ![e].lock = "exclusive"]
      BY <1>2, <3>1 DEF RemoveVictim
    <3> HIDE DEF at
    <3>3. QED
      BY <3>1, <3>2 DEF ProcType, Clearing
  <2> HIDE DEF at, r
  <2>2. EntryTypeOK'
    <3>1. part' \in [by : Processes \cup {None}, whole : BOOLEAN]
      <4>1. part' = [by |-> e, whole |-> FALSE] \/ part' = part
        BY <1>2 DEF RemoveVictim
      <4>2. [by |-> e, whole |-> FALSE] \in [by : Processes \cup {None}, whole : BOOLEAN]
        OBVIOUS
      <4>3. QED
        BY <4>1, <4>2 DEF EntryInv, EntryTypeOK
    <3>2. entry' \in {"none", "partial", "whole", "damaged"}
      BY <1>2 DEF RemoveVictim, EntryInv, EntryTypeOK
    <3>3. unsafe' \subseteq {"between", "late"}
      BY <1>2 DEF RemoveVictim, Risks, EntryInv, EntryTypeOK
    <3>4. QED
      BY <2>1, <3>1, <3>2, <3>3 DEF RemoveVictim, EntryInv, EntryTypeOK, ProcType
  <2>3. ASSUME unsafe' = {}
        PROVE  OneInode' /\ Alone' /\ Undisturbed' /\ LockRight' /\ EntryRight'
    <3>1. /\ unsafe = {} /\ Risks(e) = {} /\ e \in Evictors
          /\ proc[e].at \in {"entry", "part"} /\ lockFile' = lockFile
      BY <1>2, <2>3 DEF RemoveVictim
    <3>2. Current(e) /\ \A q \in Processes \ {e} : ~Inside(proc[q].at) /\ proc[q].lock = "none"
      BY <1>2, <3>1, NobodyInside
    <3>3. OneInode' /\ Alone' /\ Undisturbed' /\ LockRight'
      <4>1. r.inode = lockFile' /\ lockFile' # None
        BY <2>1, <3>1, <3>2 DEF EntryInv, OneInode, Current, Opening
      <4>2. r.at \in PlacesOf(e) /\ r.lock \in LocksAt(e, r.at) /\ r.at \notin Opening
        BY <2>1, <3>1 DEF PlacesOf, LocksAt, Removing, Clearing, Opening
      <4>3. QED
        BY <2>1, <3>1, <3>2, <4>1, <4>2, OneMoves
    <3>4. EntryRight'
      <4>1. proc'[e] = r /\ \A q \in Processes \ {e} : proc'[q] = proc[q]
        BY <2>1 DEF EntryInv, EntryTypeOK
      <4>2. \A q \in Processes :
                /\ proc'[q].at \notin {"leased", "found", "rename"}
                /\ ~Filling(proc'[q].at)
        BY <2>1, <3>2, <4>1 DEF Inside, Opening, Filling, Clearing
      <4>3. entry' # "partial"
        BY <1>2, <3>1 DEF RemoveVictim, EntryInv, EntryRight
      <4>4. QED
        BY <4>2, <4>3 DEF EntryRight
    <3>5. QED
      BY <3>3, <3>4
  <2>4. QED
    BY <2>2, <2>3 DEF EntryInv
<1> QED
  BY <1>1, <1>2

(* Nobody else is inside while an eviction removes, so that nobody relies  *)
(* on what it removes.                                                     *)
LEMMA RemovedKeeps ==
    ASSUME EntryInv, NEW e \in Processes, Removed(e)
    PROVE  EntryInv'
<1> DEFINE r == [proc[e] EXCEPT !.at = "unlink"]
<1>1. /\ r \in ProcType /\ r.at = "unlink" /\ r.lock = proc[e].lock /\ r.inode = proc[e].inode
      /\ proc' = [proc EXCEPT ![e] = r]
  BY DEF Removed, Goto, EntryInv, EntryTypeOK, ProcType
<1> HIDE DEF r
<1>2. EntryTypeOK'
  <2>1. part' \in [by : Processes \cup {None}, whole : BOOLEAN]
    <3>1. NoPart \in [by : Processes \cup {None}, whole : BOOLEAN]
      BY DEF NoPart
    <3>2. QED
      BY <3>1 DEF Removed, EntryInv, EntryTypeOK
  <2>2. entry' \in {"none", "partial", "whole", "damaged"}
    BY DEF Removed, EntryInv, EntryTypeOK
  <2>3. QED
    BY <1>1, <2>1, <2>2 DEF Removed, EntryInv, EntryTypeOK, ProcType
<1>3. ASSUME unsafe' = {}
      PROVE  OneInode' /\ Alone' /\ Undisturbed' /\ LockRight' /\ EntryRight'
  <2>1. unsafe = {} /\ lockFile' = lockFile /\ Removing(proc[e].at) /\ proc[e].at \in Clearing
    BY <1>3 DEF Removed, Removing
  <2>2. /\ e \in Evictors /\ proc[e].lock = "exclusive" /\ Inside(proc[e].at)
        /\ proc[e].inode = lockFile /\ lockFile # None
    BY <2>1 DEF EntryInv, LockRight, LocksAt, Removing, PlacesOf, OneInode, Inside, Opening,
       Clearing
  <2>3. \A q \in Processes \ {e} : ~Inside(proc[q].at)
    BY <2>1 DEF EntryInv, Undisturbed
  <2>4. OneInode' /\ Alone' /\ Undisturbed' /\ LockRight'
    <3>1. r.at \in PlacesOf(e) /\ r.lock \in LocksAt(e, r.at) /\ r.at \notin Opening
      BY <1>1, <2>2 DEF PlacesOf, LocksAt, Clearing, Removing, Opening
    <3>2. QED
      BY <1>1, <2>1, <2>2, <2>3, <3>1, OneMoves
  <2>5. EntryRight'
    <3>1. proc'[e] = r /\ \A q \in Processes \ {e} : proc'[q] = proc[q]
      BY <1>1 DEF EntryInv, EntryTypeOK
    <3>2. \A q \in Processes :
              /\ proc'[q].at \notin {"leased", "found", "rename"}
              /\ ~Filling(proc'[q].at)
      BY <1>1, <2>3, <3>1 DEF Inside, Opening, Filling
    <3>3. entry' # "partial"
      BY <2>1 DEF Removed, EntryInv, EntryRight
    <3>4. QED
      BY <3>2, <3>3 DEF EntryRight
  <2>6. QED
    BY <2>4, <2>5
<1> QED
  BY <1>2, <1>3 DEF EntryInv

LEMMA RemovalFailsKeeps ==
    ASSUME EntryInv, NEW e \in Processes, RemovalFails(e)
    PROVE  EntryInv'
<1>1. deaths' \in 0 .. Deaths
  BY AssetCacheAssumption DEF RemovalFails, EntryInv, EntryTypeOK
<1> QED
  BY <1>1, CloseKeeps DEF RemovalFails

LEMMA RemoveLockFileKeeps ==
    ASSUME EntryInv, NEW e \in Processes, RemoveLockFile(e)
    PROVE  EntryInv'
<1>1. /\ Closed("start") \in ProcType
      /\ proc'[e] = Closed("start") /\ \A q \in Processes \ {e} : proc'[q] = proc[q]
  BY ClosedMayBe DEF RemoveLockFile, EntryInv, EntryTypeOK
<1>2. EntryTypeOK'
  BY <1>1 DEF RemoveLockFile, EntryInv, EntryTypeOK, ProcType
<1>3. ASSUME unsafe' = {}
      PROVE  OneInode' /\ Alone' /\ Undisturbed' /\ LockRight' /\ EntryRight'
  <2>1. unsafe = {} /\ proc[e].at = "unlink" /\ entry' = entry /\ part' = part
    BY <1>3 DEF RemoveLockFile
  <2>2. proc[e].lock = "exclusive"
    BY <2>1 DEF EntryInv, LockRight, LocksAt, Clearing, Removing
  <2>3. \A q \in Processes \ {e} : ~Inside(proc[q].at) /\ proc[q].lock = "none"
    BY <2>1, <2>2 DEF EntryInv, Alone, Undisturbed, Removing
  <2>4. /\ proc'[e].at = "start" /\ proc'[e].lock = "none"
        /\ \A q \in Processes : ~Inside(proc'[q].at) /\ proc'[q].lock = "none"
    BY <1>1, <2>3 DEF Closed, Inside, Opening
  <2>5. OneInode'
    BY <1>1, <2>1, <2>4 DEF EntryInv, OneInode, Opening
  <2>6. Alone' /\ Undisturbed'
    BY <2>4 DEF Alone, Undisturbed
  <2>7. LockRight'
    BY <1>1, <2>1, <2>4 DEF EntryInv, LockRight, LocksAt, Clearing, PlacesOf, Filling, Removing
  <2>8. EntryRight'
    BY <2>1, <2>4 DEF EntryInv, EntryRight, Inside, Opening, Filling
  <2>9. QED
    BY <2>5, <2>6, <2>7, <2>8
<1> QED
  BY <1>2, <1>3 DEF EntryInv

(***************************************************************************)
(* The theorems                                                            *)
(***************************************************************************)
(* Processes, lock file, entry and .part stay related as EntryInv says,    *)
(* whoever downloads, stores, evicts or dies, also in the middle of a      *)
(* removal.                                                                *)
THEOREM EntryInductive == EntrySpec => []EntryInv
<1>1. EntryInit => EntryInv
  BY EntryStarts
<1>2. EntryInv /\ [EntryNext]_entryVars => EntryInv'
  <2> SUFFICES ASSUME EntryInv, [EntryNext]_entryVars PROVE EntryInv'
    OBVIOUS
  <2>1. ASSUME NEW p \in Processes, Step(p) \/ Close(p) \/ Die(p) \/ OpenVictim(p) \/ RemovalFails(p)
        PROVE  EntryInv'
    BY <2>1, OpenKeeps, LockKeeps, WaitKeeps, FindKeeps, FillKeeps, RenameKeeps, DowngradeKeeps,
       ShareKeeps, StoreKeeps, RemoveVictimKeeps, RemovedKeeps, RemovalFailsKeeps,
       RemoveLockFileKeeps, LeaveKeeps, OpenVictimKeeps
    DEF Step
  <2>2. CASE UNCHANGED entryVars
    BY <2>2 DEF entryVars, EntryInv, EntryTypeOK, OneInode, Alone, Undisturbed, LockRight, EntryRight
  <2>3. QED
    BY <2>1, <2>2 DEF EntryNext
<1>3. QED
  BY <1>1, <1>2, PTL DEF EntrySpec

(* The variables of an entry keep their types; there is always an inode    *)
(* for a new lock file.                                                    *)
THEOREM EntryTypeCorrect == EntrySpec => []EntryTypeOK
<1>1. EntryInv => EntryTypeOK
  BY DEF EntryInv
<1> QED
  BY <1>1, EntryInductive, PTL

(* A lease is of an entry that is there and complete for as long as the    *)
(* daemon keeps it, and one process at a time fills an entry; unless an    *)
(* eviction came between two locks or under a lock file already removed,   *)
(* or a removal was cut off and its rest is what was leased.               *)
THEOREM LeasesHold == EntrySpec => []LeaseHolds
<1>1. EntryInv => LeaseHolds
  <2> SUFFICES ASSUME EntryInv, unsafe = {}
               PROVE  OneFiller /\ \A d \in Downloaders : Leased(d) => entry = "whole" \/ LeftBehind
    BY DEF LeaseHolds
  <2>1. OneFiller
    <3> DEFINE F == {p \in Processes : proc[p].at \in {"fill", "rename"}}
    <3>1. CASE F = {}
      BY <3>1, FS_EmptySet DEF OneFiller
    <3>2. CASE F # {}
      <4>1. PICK p \in F : TRUE
        BY <3>2
      <4>2. F = {p}
        BY <4>1, OneFills DEF Filling
      <4>3. Cardinality({p}) = 1
        BY FS_Singleton
      <4>4. Cardinality(F) <= 1
        BY <4>2, <4>3
      <4>5. QED
        BY <4>4 DEF OneFiller
    <3>3. QED
      BY <3>1, <3>2
  <2>2. ASSUME NEW d \in Downloaders, Leased(d)
        PROVE  entry = "whole" \/ LeftBehind
    <3>1. d \in Processes /\ Inside(proc[d].at) /\ entry \in {"whole", "damaged"}
      BY <2>2 DEF Leased, EntryInv, EntryTypeOK, EntryRight, Processes, Inside, Opening
    <3>2. \A e \in Evictors : proc[e].at # "clear_entry"
      <4>1. \A e \in Evictors : e \in Processes /\ e # d
        BY AssetCacheAssumption DEF Processes
      <4>2. QED
        BY <3>1, <4>1 DEF EntryInv, Undisturbed, Removing, Clearing
    <3>3. QED
      BY <3>1, <3>2 DEF LeftBehind
  <2>3. QED
    BY <2>1, <2>2
<1> QED
  BY <1>1, EntryInductive, PTL
=============================================================================
