------------------------------ MODULE AssetFetch ------------------------------
(***************************************************************************)
(* How input assets are downloaded: the fills of a daemon                  *)
(* (client/src/assets.rs), which fetch the ranges of each asset in any     *)
(* order under the memory that all assets share and unpack them in order,  *)
(* and the server that proxies and caches ranges (asset_http.rs).          *)
(*                                                                         *)
(* Every daemon asks for assets of a run of its own, so the server fixes   *)
(* the ETag of each download separately (Runtime::asset).  An object may   *)
(* be replaced in R2 meanwhile.                                            *)
(***************************************************************************)
EXTENDS Integers, Sequences, FiniteSets, FiniteSetsExt, SequencesExt

CONSTANTS
    Downloads,     \* assets to download, each by one daemon
    DaemonOf,      \* the daemon of a download
    ObjectOf,      \* the object in R2 that a download reads
    SizeOf,        \* the size of an object
    Memory,        \* max_prefetch_memory_bytes of a daemon
    TransferChunk, \* TRANSFER_CHUNK_BYTES
    InFlight,      \* the buffer_unordered(8) of downloads
    Faults,        \* responses broken off, refusals and evictions in all (bound)
    Replacements   \* objects replaced in R2, in all (bound)

Daemons == {DaemonOf[d] : d \in Downloads}
Objects == {ObjectOf[d] : d \in Downloads}

ASSUME AssetFetchAssumption ==
    /\ IsFiniteSet(Downloads) /\ SizeOf \in [Objects -> Nat]
    /\ {Memory, TransferChunk, InFlight} \subseteq Nat \ {0}
    /\ {Faults, Replacements} \subseteq Nat

VARIABLES
    object,   \* per object: its version in R2
    inputs,   \* per download: the ETag the server has fixed for it, or 0
    files,    \* the server's range files, each with the version of its bytes
    download, \* per download: where it is, its ETag, and the offsets to reserve
              \* and to unpack next
    range,    \* per download and offset: where that range is
    body,     \* per download and offset: the version its bytes are from, or 0
    waiting,  \* per daemon: the downloads that wait for memory, in order
    faults    \* broken, refused and evicted so far

vars == <<object, inputs, files, download, range, body, waiting, faults>>

Chunk == Min({TransferChunk, Memory})
Size(d) == SizeOf[ObjectOf[d]]
Offsets == [d \in Downloads |-> {o \in 0 .. Size(d) - 1 : o % Chunk = 0}]
Length == [d \in Downloads |-> [o \in Offsets[d] |-> Min({Chunk, Size(d) - o})]]
Versions == 1 .. Replacements + 1
Files == [object : Objects, etag : Versions, offset : Nat, version : Versions]

TypeOK ==
    /\ object \in [Objects -> Versions] /\ inputs \in [Downloads -> Versions \cup {0}]
    /\ files \subseteq Files
    /\ download \in [Downloads -> [at : {"start", "fetch", "done", "failed"},
                                   etag : Versions \cup {0}, reserve : Nat, read : Nat]]
    /\ \A d \in Downloads :
           /\ range[d] \in [Offsets[d] -> {"todo", "queued", "reserved", "proxied",
                                           "arrived", "current", "read", "dropped"}]
           /\ body[d] \in [Offsets[d] -> Versions \cup {0}]
    /\ waiting \in [Daemons -> Seq(Downloads)]
    /\ faults \in 0 .. Faults

Fresh == [at |-> "start", etag |-> 0, reserve |-> 0, read |-> 0]

Init ==
    /\ object = [b \in Objects |-> 1] /\ files = {}
    /\ inputs = [d \in Downloads |-> 0]
    /\ download = [d \in Downloads |-> Fresh]
    /\ range = [d \in Downloads |-> [o \in Offsets[d] |-> "todo"]]
    /\ body = [d \in Downloads |-> [o \in Offsets[d] |-> 0]]
    /\ waiting = [h \in Daemons |-> <<>>]
    /\ faults = 0

Active(d) == download[d].at = "fetch"
Done(d) == download[d].at = "done"
Server == <<object, inputs, files>>

(***************************************************************************)
(* The memory of a daemon: a permit goes with its range from the           *)
(* reservation until Ordered puts the next range in its place.             *)
(***************************************************************************)
Kept == {"reserved", "proxied", "arrived", "current"}
Held(d) == MapThenSumSet(LAMBDA o : Length[d][o], {o \in Offsets[d] : range[d][o] \in Kept})
Free(h) == Memory - MapThenSumSet(Held, {d \in Downloads : DaemonOf[d] = h /\ Active(d)})

(* The metadata of the asset; the server fixes the ETag when first asked.  *)
Start(d) ==
    /\ download[d].at = "start"
    /\ Cardinality({c \in Downloads : DaemonOf[c] = DaemonOf[d] /\ Active(c)}) < InFlight
    /\ LET etag == IF inputs[d] # 0 THEN inputs[d] ELSE object[ObjectOf[d]] IN
       /\ inputs' = [inputs EXCEPT ![d] = etag]
       /\ download' = [download EXCEPT ![d].at = "fetch", ![d].etag = etag]
    /\ UNCHANGED <<object, files, range, body, waiting, faults>>

(* One reservation of a download waits at a time, in the order of offsets; *)
(* it does not wait if there is room and nobody waits before it.           *)
Reserved(d) ==
    LET o == download[d].reserve IN
    /\ Length[d][o] <= Free(DaemonOf[d])
    /\ range' = [range EXCEPT ![d][o] = "reserved"]
    /\ download' = [download EXCEPT ![d].reserve = o + Chunk]

Reserve(d) ==
    LET o == download[d].reserve
        h == DaemonOf[d]
    IN /\ Active(d) /\ o < Size(d) /\ range[d][o] = "todo"
       /\ \/ waiting[h] = <<>> /\ Reserved(d) /\ UNCHANGED waiting
          \/ /\ waiting[h] # <<>> \/ Length[d][o] > Free(h)
             /\ range' = [range EXCEPT ![d][o] = "queued"]
             /\ waiting' = [waiting EXCEPT ![h] = Append(@, d)]
             /\ UNCHANGED download
       /\ UNCHANGED <<Server, body, faults>>

Grant(h) ==
    /\ waiting[h] # <<>>
    /\ Reserved(Head(waiting[h]))
    /\ waiting' = [waiting EXCEPT ![h] = Tail(@)]
    /\ UNCHANGED <<Server, body, faults>>

(***************************************************************************)
(* The server: a range is read from its file, or by the one request that   *)
(* has its lock from R2, if the object still has the ETag; the answer 500  *)
(* to any other is retried and changes nothing.                            *)
(***************************************************************************)
SameRange(d, c, o) ==
    /\ Active(c) /\ o \in Offsets[c] /\ range[c][o] = "proxied"
    /\ ObjectOf[c] = ObjectOf[d] /\ download[c].etag = download[d].etag

FileOf(d, o, version) == [object |-> ObjectOf[d], etag |-> download[d].etag,
                          offset |-> o, version |-> version]
CachedAs(d, o) == {v \in Versions : FileOf(d, o, v) \in files}

(* The ETag of the request is the one the server has fixed, fixed anew if  *)
(* its record was evicted.                                                 *)
Accepts(d) == inputs[d] \in {0, download[d].etag}
(* A mutation of R2Serves: no if-match, whatever R2 has now is served.     *)
AnyVersion(d) == TRUE

R2Serves(d) == object[ObjectOf[d]] = download[d].etag

Requested(d, o) ==
    /\ Active(d) /\ range[d][o] = "reserved" /\ Accepts(d)
    /\ inputs[d] = 0 => R2Serves(d)
    /\ inputs' = [inputs EXCEPT ![d] = download[d].etag]

Receive(d, o, version, at) ==
    /\ range' = [range EXCEPT ![d][o] = at]
    /\ body' = [body EXCEPT ![d][o] = version]

FromFile(d, o) ==
    /\ Requested(d, o)
    /\ \E v \in CachedAs(d, o) : Receive(d, o, v, "arrived")
    /\ UNCHANGED <<object, files, download, waiting, faults>>

FromR2(d, o) ==
    /\ Requested(d, o) /\ CachedAs(d, o) = {} /\ R2Serves(d)
    /\ ~\E c \in Downloads : SameRange(d, c, o)
    /\ Receive(d, o, object[ObjectOf[d]], "proxied")
    /\ UNCHANGED <<object, files, download, waiting, faults>>

Publish(d, o) == files' = files \cup {FileOf(d, o, body[d][o])}

Delivered(d, o) ==
    /\ Active(d) /\ range[d][o] = "proxied"
    /\ Publish(d, o)
    /\ range' = [range EXCEPT ![d][o] = "arrived"]
    /\ UNCHANGED <<object, inputs, download, body, waiting, faults>>

Fault == faults < Faults /\ faults' = faults + 1

(* The response breaks off, maybe when the file is published already, and  *)
(* is requested again with the memory it has.                              *)
Broken(d, o) ==
    /\ Fault /\ Active(d) /\ range[d][o] = "proxied"
    /\ Publish(d, o) \/ UNCHANGED files
    /\ Receive(d, o, 0, "reserved")
    /\ UNCHANGED <<object, inputs, download, waiting>>

(* A request that is not retried: the run is cancelled, or the server has  *)
(* fixed another ETag.  What has not arrived is given up.                  *)
Refused(d, o) ==
    /\ Active(d) /\ range[d][o] = "reserved"
    /\ \/ Fault /\ UNCHANGED inputs
       \/ /\ ~Accepts(d) \/ (inputs[d] = 0 /\ ~R2Serves(d))
          /\ inputs' = [inputs EXCEPT ![d] = IF @ = 0 THEN object[ObjectOf[d]] ELSE @]
          /\ UNCHANGED faults
    /\ range' = [range EXCEPT ![d] = [x \in Offsets[d] |->
                     IF @[x] \in {"arrived", "current", "read"} THEN @[x] ELSE "dropped"]]
    /\ waiting' = [waiting EXCEPT ![DaemonOf[d]] = SelectSeq(@, LAMBDA c : c # d)]
    /\ UNCHANGED <<object, files, download, body>>

(***************************************************************************)
(* Unpacking: Ordered takes the range at the next offset from those that   *)
(* have arrived, and keeps the last one's memory until it does.            *)
(***************************************************************************)
Read(d) ==
    LET o == download[d].read IN
    /\ Active(d) /\ o \in Offsets[d] /\ range[d][o] = "arrived"
    /\ range' = [range EXCEPT ![d] = [x \in Offsets[d] |->
                     IF x = o THEN "current" ELSE IF @[x] = "current" THEN "read" ELSE @[x]]]
    /\ download' = [download EXCEPT ![d].read = o + Length[d][o]]
    /\ UNCHANGED <<Server, body, waiting, faults>>

(* A mutation of AllFetched: how the ranges ended is not looked at.        *)
HoweverTheyEnded(d) == TRUE

(* No range can arrive any more and the next one has not: the unpacking    *)
(* ends, and the asset is published if every range was fetched.  A failure *)
(* ends all downloads of the daemon.                                       *)
AllFetched(d) == \A o \in Offsets[d] : range[d][o] \in {"arrived", "current", "read"}
(* A mutation of Drained: the sender of a range given up stays open.       *)
SenderKept(d) ==
    /\ AllFetched(d)
    /\ download[d].read \in Offsets[d] => range[d][download[d].read] # "arrived"

Drained(d) ==
    /\ \A o \in Offsets[d] : range[d][o] \in {"arrived", "current", "read", "dropped"}
    /\ download[d].read \in Offsets[d] => range[d][download[d].read] # "arrived"

Fellows(d) == {c \in Downloads : DaemonOf[c] = DaemonOf[d] /\ ~Done(c)}

Finish(d) ==
    /\ Active(d) /\ Drained(d)
    /\ \/ /\ AllFetched(d)
          /\ download' = [download EXCEPT ![d].at = "done"]
          /\ UNCHANGED <<range, body, waiting>>
       \/ /\ ~AllFetched(d)
          /\ download' = [c \in Downloads |->
                 IF c \in Fellows(d) THEN [Fresh EXCEPT !.at = "failed"] ELSE download[c]]
          /\ range' = [c \in Downloads |->
                 IF c \in Fellows(d) THEN [o \in Offsets[c] |-> "dropped"] ELSE range[c]]
          /\ body' = [c \in Downloads |->
                 IF c \in Fellows(d) THEN [o \in Offsets[c] |-> 0] ELSE body[c]]
          /\ waiting' = [waiting EXCEPT ![DaemonOf[d]] = <<>>]
    /\ UNCHANGED <<Server, faults>>

(***************************************************************************)
(* The rest of the world                                                   *)
(***************************************************************************)
Replace(b) ==
    /\ MapThenSumSet(LAMBDA c : object[c] - 1, Objects) < Replacements
    /\ object' = [object EXCEPT ![b] = @ + 1]
    /\ UNCHANGED <<inputs, files, download, range, body, waiting, faults>>

(* The server's cache is disposable: ranges and fixed ETags are evicted,   *)
(* and another replica has none.                                           *)
Evict ==
    /\ Fault
    /\ \/ \E f \in files : files' = files \ {f} /\ UNCHANGED inputs
       \/ \E d \in Downloads : /\ inputs[d] # 0 /\ inputs' = [inputs EXCEPT ![d] = 0]
                               /\ UNCHANGED files
    /\ UNCHANGED <<object, download, range, body, waiting>>

Work(d) ==
    \/ Start(d) \/ Reserve(d) \/ Read(d) \/ Finish(d)
    \/ \E o \in Offsets[d] : FromFile(d, o) \/ FromR2(d, o) \/ Delivered(d, o)

Next ==
    \/ \E d \in Downloads :
          \/ Work(d)
          \/ \E o \in Offsets[d] : Broken(d, o) \/ Refused(d, o)
    \/ \E h \in Daemons : Grant(h)
    \/ \E b \in Objects : Replace(b)
    \/ Evict

Spec == Init /\ [][Next]_vars

(* Tasks are polled and requests answered: as long as anything can go on,  *)
(* something does, and no step of a download is taken twice without a      *)
(* fault; nothing has to break, to be refused, replaced or evicted.        *)
Progress == (\E d \in Downloads : Work(d)) \/ \E h \in Daemons : Grant(h)

FairSpec == Spec /\ WF_vars(Progress)

(***************************************************************************)
(* Properties                                                              *)
(***************************************************************************)
(* A published asset is the whole object in the one version that the run   *)
(* was given, whatever broke off, was cached for others or was replaced.   *)
WholeAndOfOneVersion ==
    \A d \in Downloads : Done(d) =>
        \A o \in Offsets[d] : /\ range[d][o] \in {"current", "read"}
                              /\ body[d][o] = download[d].etag

(* What the server caches under an ETag are the bytes of that version.     *)
CacheIsOfItsVersion == \A f \in files : f.version = f.etag

(* README.md: "Input asset downloads at startup share the same budget: each*)
(* 4 MiB Range request reserves its bytes before it is sent".  A download  *)
(* of several ranges keeps the memory of one while it waits for the next:  *)
(* every download ends if each that is in flight can keep one and there is *)
(* memory for one more.                                                    *)
SeveralRanges(h) ==
    Cardinality({d \in Downloads : DaemonOf[d] = h /\ Size(d) > Chunk})
EnoughMemory ==
    \A h \in Daemons : Memory >= Chunk * (Min({InFlight, SeveralRanges(h)}) + 1)

DownloadsEnd ==
    EnoughMemory =>
        <>(\/ \A d \in Downloads : download[d].at \in {"done", "failed"}
           \/ \E b \in Objects : object[b] # 1)
=============================================================================
