------------------------------ MODULE BatchLoad ------------------------------
(***************************************************************************)
(* What is in a batch: the rows of a stream's query are spooled to a plan  *)
(* (server/src/sampling.rs), a sequence number is looked up in it, and the *)
(* blobs of the samples found are read from object storage, neighbouring   *)
(* ranges in one request (server/src/loader.rs, batch_http.rs load_batch). *)
(*                                                                         *)
(* A row is its two keys, the width of its record and the references of    *)
(* its blobs in the order of their names.  A byte is the object it is in   *)
(* and its place there.  Lengths of records are in units of which a record *)
(* header and an index entry take one each.  Objects are numbered in the   *)
(* order of their names.                                                   *)
(***************************************************************************)
EXTENDS Integers, FiniteSets, Sequences, Functions

CONSTANTS
    Queries,     \* results the query may return: sequences of rows
    Sequences,   \* sequence numbers to ask for
    ObjectSize,  \* per object of the bucket: its bytes
    Reservation  \* PLAN_RESERVATION

Whole == -1   \* a reference without range: byte_offset is None
Objects == DOMAIN ObjectSize

References ==
    [object : Objects, offset : {Whole}, length : {0}]
        \cup [object : Objects, offset : Nat, length : Nat \ {0}]

Rows == [batch : Nat, sample : Nat, width : Nat, valid : BOOLEAN, blobs : Seq(References)]

ASSUME BatchLoadAssumption ==
    /\ Sequences \subseteq Nat /\ Reservation \in Nat \ {0} /\ Objects \subseteq Nat
    /\ \A object \in Objects : ObjectSize[object] \in Nat
    /\ Queries \subseteq Seq(Rows)

VARIABLES
    query, sequence, repeat,  \* what the query returns, what is asked for
    step,      \* spool, open, read, load, join, done
    row,       \* rows taken from the query
    previous,  \* the last valid row, or NoRow
    plan,      \* the records in the plan file: each its row and where it starts
    bytes,     \* the length of the plan file
    offsets,   \* the index: where each batch starts in the plan file
    reserved,  \* reservations of the plan
    at,        \* where the plan file is read
    batch,     \* the rows of the batch, so far
    queue,     \* the places of blobs to be joined to the reads, in order
    reads,     \* the reads so far, each with the parts to be cut from it
    answer     \* the answer: its kind, and the blobs of a batch

loadVars == <<query, sequence, repeat, step, row, previous, plan, bytes, offsets,
              reserved, at, batch, queue, reads, answer>>

NoRow == [batch |-> -1, sample |-> -1]
NoBlobs(kind) == [kind |-> kind, blobs |-> <<>>]
Served(blobs) == [kind |-> "batch", blobs |-> blobs]

(* The blobs of a batch are numbered by sample and blob.  (The code        *)
(* flattens the samples, and takes the blobs back in the same order.)      *)
Places == UNION {{i} \X DOMAIN batch[i].blobs : i \in DOMAIN batch}

LoadTypeOK ==
    /\ query \in Queries /\ sequence \in Sequences /\ repeat \in BOOLEAN
    /\ step \in {"spool", "open", "read", "load", "join", "done"}
    /\ row \in 0 .. Len(query) /\ previous \in {NoRow} \cup Range(query)
    /\ plan \in Seq([row : Range(query), at : Nat]) /\ bytes \in Nat
    /\ offsets \in Seq(Nat) /\ reserved \in Nat
    /\ at \in Nat /\ batch \in Seq(Range(query))
    /\ queue \in Seq(Places)
    /\ reads \in Seq([object : Objects, offset : {Whole} \cup Nat, size : Nat,
                      parts : SUBSET (Places \X Nat \X Nat)])
    /\ answer.kind \in {"none", "end", "failed", "batch"}

LoadInit ==
    /\ query \in Queries /\ sequence \in Sequences /\ repeat \in BOOLEAN
    /\ step = "spool" /\ row = 0 /\ previous = NoRow
    /\ plan = <<>> /\ bytes = 0 /\ offsets = <<>> /\ reserved = 0
    /\ at = 0 /\ batch = <<>> /\ queue = <<>> /\ reads = <<>>
    /\ answer = NoBlobs("none")

Width(record) == record.width + 1

Before(a, b) == a.batch < b.batch \/ (a.batch = b.batch /\ a.sample < b.sample)

(* Reservations that hold some bytes.                                      *)
Reservations(length) == (length + Reservation - 1) \div Reservation
AtLeast(a, b) == IF a > b THEN a ELSE b

(* A mutation of ReservedFor: the index is not counted.                    *)
RowsOnly(record, entries) == AtLeast(Reservations(bytes + Width(record)), reserved)

(* Reservations held once record is written: one more while it would not   *)
(* fit, rows and index together.                                           *)
ReservedFor(record, entries) ==
    AtLeast(Reservations(bytes + entries + Width(record)), reserved)

(* One row of the query: it fails the plan, is skipped, or is written.     *)
Spool ==
    /\ step = "spool" /\ row < Len(query)
    /\ row' = row + 1
    /\ LET next == query[row + 1]
           new == previous = NoRow \/ previous.batch # next.batch
           entries == IF new THEN Append(offsets, bytes) ELSE offsets IN
       \/ /\ previous # NoRow /\ ~Before(previous, next)
          /\ answer' = NoBlobs("failed") /\ step' = "done"
          /\ UNCHANGED <<previous, plan, bytes, offsets, reserved>>
       \/ /\ previous = NoRow \/ Before(previous, next)
          /\ ~next.valid
          /\ UNCHANGED <<previous, plan, bytes, offsets, reserved, answer, step>>
       \/ /\ previous = NoRow \/ Before(previous, next)
          /\ next.valid
          /\ offsets' = entries
          /\ reserved' = ReservedFor(next, Len(entries))
          /\ plan' = Append(plan, [row |-> next, at |-> bytes])
          /\ bytes' = bytes + Width(next)
          /\ previous' = next
          /\ UNCHANGED <<answer, step>>
    /\ UNCHANGED <<query, sequence, repeat, at, batch, queue, reads>>

Spooled == <<query, sequence, repeat, row, previous, plan, bytes, offsets, reserved>>

(* The query ends, and plan, index and ready are published.                *)
Publish ==
    /\ step = "spool" /\ row = Len(query)
    /\ step' = "open"
    /\ UNCHANGED <<Spooled, at, batch, queue, reads, answer>>

(* QuerySampler::batch_at: the index entry, or the end.                    *)
Seek ==
    /\ step = "open"
    /\ \/ /\ Len(offsets) = 0 \/ (~repeat /\ sequence >= Len(offsets))
          /\ answer' = NoBlobs("end") /\ step' = "done" /\ UNCHANGED at
       \/ /\ Len(offsets) > 0 /\ (repeat \/ sequence < Len(offsets))
          /\ at' = offsets[(sequence % Len(offsets)) + 1]
          /\ step' = "read" /\ UNCHANGED answer
    /\ UNCHANGED <<Spooled, batch, queue, reads>>

(* The record at the byte where the file is read.                          *)
Record == (CHOOSE r \in Range(plan) : r.at = at).row

(* The file has another record, and it is of the batch.                    *)
More == at < bytes /\ (batch # <<>> => batch[1].batch = Record.batch)

ReadRecord ==
    /\ step = "read"
    /\ \/ /\ More
          /\ batch' = Append(batch, Record) /\ at' = at + Width(Record)
          /\ UNCHANGED step
       \/ ~More /\ step' = "load" /\ UNCHANGED <<batch, at>>
    /\ UNCHANGED <<Spooled, queue, reads, answer>>

(***************************************************************************)
(* load_blobs                                                              *)
(***************************************************************************)
Reference(place) == batch[place[1]].blobs[place[2]]

(* Loader::size: the length asked for, or that of the object.              *)
Size(reference) ==
    IF reference.offset = Whole THEN ObjectSize[reference.object] ELSE reference.length

SortedBefore(a, b) ==
    a.object < b.object \/ (a.object = b.object /\ a.offset <= b.offset)

(* sort_unstable_by: every order that is sorted by object and offset.      *)
SortedOrders ==
    {order \in [1 .. Cardinality(Places) -> Places] :
        \A i, j \in DOMAIN order :
            /\ order[i] = order[j] => i = j
            /\ i < j => SortedBefore(Reference(order[i]), Reference(order[j]))}

Sort ==
    /\ step = "load"
    /\ queue' \in SortedOrders
    /\ step' = "join"
    /\ UNCHANGED <<Spooled, at, batch, reads, answer>>

(* A mutation of Continues: ranges are joined across objects.              *)
AnyObject(read, reference) ==
    /\ read.offset # Whole /\ reference.offset # Whole
    /\ read.offset + read.size = reference.offset

(* A reference continues the last read.                                    *)
Continues(read, reference) ==
    /\ read.object = reference.object
    /\ read.offset # Whole /\ reference.offset # Whole
    /\ read.offset + read.size = reference.offset

LongerRead(read, place) ==
    LET size == Size(Reference(place)) IN
    [read EXCEPT !.size = @ + size, !.parts = @ \cup {<<place, read.size, size>>}]

NewRead(place) ==
    LET reference == Reference(place) IN
    [object |-> reference.object, offset |-> reference.offset,
     size |-> Size(reference), parts |-> {<<place, 0, Size(reference)>>}]

(* The next reference is joined to the last read, or is one of its own.    *)
Join ==
    /\ step = "join" /\ queue # <<>>
    /\ LET place == Head(queue)
           last == Len(reads)
           continued == last > 0 /\ Continues(reads[last], Reference(place)) IN
       reads' = IF continued THEN [reads EXCEPT ![last] = LongerRead(@, place)]
                ELSE Append(reads, NewRead(place))
    /\ queue' = Tail(queue)
    /\ UNCHANGED <<Spooled, step, at, batch, answer>>

(* GetObject with the range of a read answers what the object has of it.   *)
Start(read) == IF read.offset = Whole THEN 0 ELSE read.offset
Loadable(read) == Start(read) + read.size <= ObjectSize[read.object]
Content(read) == [i \in 1 .. read.size |-> <<read.object, Start(read) + i - 1>>]

(* Every part of every read goes to the place of its reference.            *)
Loaded(place) ==
    LET read == CHOOSE r \in Range(reads) : \E p \in r.parts : p[1] = place
        part == CHOOSE p \in read.parts : p[1] = place IN
    SubSeq(Content(read), part[2] + 1, part[2] + part[3])

Fetch ==
    /\ step = "join" /\ queue = <<>>
    /\ answer' = IF \A n \in DOMAIN reads : Loadable(reads[n])
                 THEN Served([place \in Places |-> Loaded(place)]) ELSE NoBlobs("failed")
    /\ step' = "done"
    /\ UNCHANGED <<Spooled, at, batch, queue, reads>>

LoadNext == Spool \/ Publish \/ Seek \/ ReadRecord \/ Sort \/ Join \/ Fetch
LoadSpec == LoadInit /\ [][LoadNext]_loadVars

(***************************************************************************)
(* Properties                                                              *)
(***************************************************************************)
Valid == {i \in DOMAIN query : query[i].valid}
Ordered(rows) == \A i, j \in rows : i < j => Before(query[i], query[j])

(* The batches of the query; the one whose turn it is; its rows.           *)
BatchIndexes == {query[i].batch : i \in Valid}
Its(b) == Cardinality({c \in BatchIndexes : c < b}) = sequence % Cardinality(BatchIndexes)
Expected == {query[i] : i \in {j \in Valid : Its(query[j].batch)}}

(* The bytes of a reference, read alone.                                   *)
Named(reference) ==
    [i \in 1 .. Size(reference) |->
        <<reference.object, i - 1 + (IF reference.offset = Whole THEN 0 ELSE reference.offset)>>]
Exists(reference) ==
    reference.offset = Whole
        \/ reference.offset + reference.length <= ObjectSize[reference.object]

(* A sequence number is served the valid rows of that batch, the n-th by   *)
(* batch_idx, in the order of sample_idx, each blob with its own bytes,    *)
(* however rows were skipped and ranges joined; past the last batch it is  *)
(* the end, and it fails only for rows out of order or bytes that are not  *)
(* there.                                                                  *)
ServesTheQuery ==
    /\ answer.kind = "end" =>
           BatchIndexes = {} \/ (~repeat /\ sequence >= Cardinality(BatchIndexes))
    /\ answer.kind = "batch" =>
           /\ Ordered(Valid)
           /\ Expected # {} /\ Range(batch) = Expected
           /\ \A i, j \in DOMAIN batch : i < j => Before(batch[i], batch[j])
           /\ answer.blobs = [place \in Places |-> Named(Reference(place))]
    /\ answer.kind = "failed" =>
           ~Ordered(DOMAIN query) \/ \E place \in Places : ~Exists(Reference(place))

(* Disk is reserved before it is used: rows and index never take more than *)
(* the plan's reservations.                                                *)
ReservedBeforeUse == bytes + Len(offsets) <= reserved * Reservation
=============================================================================
