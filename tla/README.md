# TensorLane, modelled in TLA+

TensorLane feeds training jobs.  A server plans SQL queries into batches of
samples and serves them over HTTP; on the training host a daemon requests the
batches ahead of the training code, transform workers and a collator prepare
them, and every rank reads its share.  Uploads, metrics and the state of the run
go the other way.  This directory holds a formal model of the parts where the
order of events matters, what TLC checks about it and what TLAPS proves.

`PROJECT.json` lists the components, the runs, the source lines behind every
definition and the hazards the properties are aimed at.

## 1. The system

### On the training host (`client/`)

| Part | State | Operations | Talks to |
| --- | --- | --- | --- |
| Prefetcher, one per stream (`src/data.rs`, `src/semaphore.rs`, `src/transport.rs`) | credits and memory units (POSIX semaphores shared with other processes), the memory turn, fetches in progress | take a credit, request, reserve memory in order, emit in order, send End, cancel | server (HTTP), distribute (channel), collator and readers (semaphores) |
| Daemon (`src/worker/execution.rs`) | budgets, pumps, sockets | start, supervise, heartbeat, distribute samples to workers | everything on the host, server |
| Transform workers, collator (`tensorlane/_process.py`) | samples being assembled, complete batches, one outbox per rank, connections | transform, assemble, release in order, answer requests | daemon, readers |
| Batch reader, per rank and stream (`tensorlane/reader.py`) | connection, progress file | open, `__next__`, close | collator, semaphores, checkpoint |
| Lane (`tensorlane/client.py`, `src/worker.rs`) | processes, files of the session | init, save a checkpoint with its cursor, supervise processes, close | daemon, uploads |
| Uploads (`src/upload_client.rs`, `src/uploads.rs`) | queue of commands in the training process; in the daemon a batch of metrics, tasks per file, failures not reported yet | metric, metric artifact, save asset, flush, close | daemon, server |
| Asset cache (`src/assets.rs`) | content-addressed directory shared by the daemons of a host, a lock file per entry, `.part` directories, the transfer memory of a daemon | download by ranges, unpack in order, lease, store, evict | server, other daemons (through the file system only) |

### On the server (`server/`)

| Part | State | Operations | Talks to |
| --- | --- | --- | --- |
| Cache budget and file locks (`cache_limits.rs`, `shared_cache.rs`) | used and reserved bytes, files, lock files | reserve, release, prune, lock | batch service, asset proxy |
| Batch service (`batch_http.rs`, `job.rs`, `sampling.rs`, `http/runtime.rs`) | plan files with generations, batch files, error files, loading memory | prepare a plan, prepare a batch, answer 200/202/204 | ClickHouse, R2, cache |
| Loader (`loader.rs`), plan files (`sampling.rs`) | rows and index on disk | spool a query, look up a batch, merge adjacent ranges, cut them up | R2 |
| Run status (`runtime.rs`, `run_repo.rs`, `main.rs`) | status log in ClickHouse, heartbeats | init, heartbeat, end, sweep silent runs | ClickHouse |
| Uploads (`upload_http.rs`, `s3_upload.rs`, `asset_commit.rs`, `object_state.rs`) | multipart uploads, immutable records | upload, commit, deduplicate retries | R2, ClickHouse |
| Metric writer (`metric_http.rs`) | receipts | insert once per request id into each of two tables | R2, ClickHouse |
| Asset proxy (`asset_http.rs`) | cached ranges | serve, fill | R2, cache |

### What is hard here

* **Processes and threads that share semaphores.**  A credit is posted by the
  collator, by readers in other processes and by cancel, and taken by a thread
  of the daemon; memory is taken by a blocking thread and given back by readers,
  dropped futures and cancel.
* **Order.**  Requests finish in any order, workers finish in any order, yet
  batches must be emitted, released and returned in order, and End last.
* **Shutdown.**  Cancel may meet the stream at any point, and a destructor joins
  a thread.
* **Retries.**  Requests are repeated without limit, also after the memory for
  the first answer was reserved; on the server they may reach another replica.
* **Restarts.**  Readers close and open again, sessions resume at a checkpoint's
  cursor with another number of ranks, the server's cache may vanish at any time.

## 2. Plan

The modules, in the order in which they were written:

1. `Prefetch` with its abstract window `CreditWindow`, and proofs
   (`PrefetchProofs`): credits, memory, order, shutdown.
2. `Delivery` with its abstract stream `BatchStream`: from the prefetcher to the
   training code, on top of `CreditWindow`; the checkpoint cursor.
3. `CacheBudget`: the byte budget, the locks and the eviction that every writer
   of the server's cache goes through.
4. `RunStatus`, and proofs (`RunStatusProofs`): init, heartbeat, end and cancel
   of one run against the sweep for silent runs.
5. `PlanCache`, on top of what `CacheBudget` says of locks and evictions: plans
   with generations, background jobs, error files, batches read while plans are
   rebuilt, the loading memory of a stream.
6. `BatchLoad`: what is in a batch, from the rows of the query to the bytes.
7. `AssetCache` and `AssetFetch`: the cache of one host, and how it is filled
   through the server's own cache.
8. `UploadCommit` with its abstract specification `Publication`: requests that
   publish something, retried on several replicas.
9. `Uploads`: the queue between the training process and the daemon, flush,
   lost connections; what a request does is `UploadCommit`'s.

Proofs follow the components: `UploadCommitProofs`, `UploadsProofs`,
`DeliveryProofs` and `CacheBudgetProofs` beside the two above; `BatchProofs` is
about the two modules of the batch service, `PlanCache` and `BatchLoad`, and
`AssetProofs` about the two of an asset, `AssetFetch` and `AssetCache`.  Since a
proof module extends both of its components, `BatchLoad` and `AssetCache` have
names of their own for their specifications (`LoadSpec`, `EntrySpec`).  No module
uses a RECURSIVE operator and each has its type invariant and its assumption on
the constants.  `BatchLoad` spools, reads, sorts and joins in steps, one row, one
record and one reference at a time: what the loops of the code compute is then an
invariant of the steps and can be proved for every input, where a fold over the
rows would need an induction over data, which is out of the prover's reach.
Of the properties that no run lists, TLC has found the type invariant of every module,
`OneAnswerPerAsk` and `ExcessBounded`, and the inductive invariant of every
proof module, to hold on the instances of section 4.

## 3. The modules

### `CreditWindow`: what a prefetcher promises

A window of at most `Capacity` batches between "requested" and "returned",
emitted in order, and End exactly once after the last.

### `Prefetch`: how it does it

| Variable | Code |
| --- | --- |
| `active` | the collator's `activated` set |
| `credits` | `BatchBudget::semaphore` |
| `producer`, `sequence` | the thread `tensorlane-requests`; `sequence` is its local variable |
| `taken`, `fetch`, `emitted` | `receiver` and `.buffered(capacity)`: the next number taken, the state of each fetch, the next result in order |
| `memory`, `turn`, `memCancelled` | `MemoryBudget`'s semaphore, `next`, `cancelled` |
| `job` | the `spawn_blocking` closure in `MemoryBudget::acquire` |
| `cancelled`, `cancel` | `BatchBudget::cancelled`, and where the two possible callers of `BatchBudget::cancel` are |
| `pump` | the task `prefetch` |
| `out`, `owed`, `returned` | batches past the prefetcher and what their readers have posted |

Every step another thread can observe is an action; `BatchBudget::cancel` has
four.  What was merged, and why nothing is lost: the semaphore wait and the load
of the flag that follows are one step (a cancel in between has the same effect
as one before the wait, which takes a credit either way); several posts in a row
to one semaphore are one step (a waiter takes one unit at a time, so it only
waits for the first one longer); answers worth a retry (202, 408, 429, 5xx, broken connections)
do not change the fetch and are stuttering steps.  Readers here give batches
back in any order, which includes every order the ranks can produce.

### `BatchStream`: what a session promises to the training code

Rank `r` gets exactly the batches `n` with `n % Ranks = r` from the session's
start on, in order, and its loop ends after the last.

### `Delivery`: distribute, workers, collator, readers

`distribute` sends the samples of a batch round robin to the transform workers
and End to each of them.  A worker handles its messages in order, so socket,
worker and pipe are one FIFO `queue` per worker; the queues race.  The collator
assembles samples, releases complete batches in order to the ranks' outboxes,
connects to listening readers, notes requests (`wanted`) and answers them.  A
reader asks, takes, writes its progress file, posts memory and credit.  Closing
a reader discards what it has not read; the collator finds out through an end of
file or a failed send (`conn = "half"` in between).  `Interrupt` is an exception
that leaves `__next__` (Ctrl-C, a signal handler that raises) while it waits, or
before or after the progress file is written.

The prefetcher is an instance of `CreditWindow`, so that `PrefetchImplementsWindow`
(section 5) is the link between the two modules: every step of `distribute` that
emits a batch or End is a step of the window, and so is the return of a batch.
Abandoned streams (`CreditWindow`'s `Stop`) end the session and are left out.

### `CacheBudget`: room on the server's disk

| Variable | Code |
| --- | --- |
| `used`, `reserved` | `Budget::usage` |
| `file` | the files published under a reservation, by entry; a plan's `.plan` and `.index` are one |
| `loose` | the files written without a reservation: `.error` of a job, `.ready` of a plan, `.json` of an input |
| `age` | entries in the order of the modification times that `prune` sorts by |
| `lockFile`, `owner` | the inode at each lock path, and who holds the `flock` on each inode |
| `job` | jobs with a lock: `prepare_plan`, `prepare_batch`, asset ranges being filled, inputs being looked up |
| `jobs` | bound: jobs begun so far |
| `prune` | the local variables of `Budget::prune`; `prune.lock` is its field `by` |
| `prune.left`, `prune.kept` | `used` of `Budget::prune`, of reserved and of loose files |
| `prune.since`, `missed` | history: bytes whose reservation ended after the scan |
| `prune.fresh`, `unseen` | history: loose files written after the scan |

A writer opens its lock file, locks it (two steps: `try_lock` finds an inode and
locks what it found), reserves, publishes, gives the reservation back and drops
the lock.  Everything it does can fail (`FailJob`).  A plan reserves several
chunks, one after the other, and keeps them (`QuerySampler::create`); batches
and asset ranges reserve once.  Plans, asset ranges and inputs look for their
file again when they have the lock, batches do not (`Rechecked`).  A prune is
seven actions: lock, scan, read the reservations, and for each victim open,
lock, remove, drop; then it overwrites `used`.

Three kinds of small files are written into the cache without any reservation: a
plan or a batch that fails gives its reservation back and writes its `.error`
(`WriteError`, `job::failed`), a plan that is complete writes its `.ready` with
the file (`Publish`), and the description of an input is nothing but a `.json`
(`WriteInput`, `Runtime::asset`).  A scan counts them, and they are evicted with
their entry; a retryable `.error` is also removed by whoever reads it
(`ForgetError`).  Each of them has a size of its own (`Small`), so that a sum
with them in it is a sum of bytes like any other.

Three things are coarser than the code.  A plan that fails after it has renamed
its `.plan` leaves that file, still counted; here a failed job leaves nothing
but its `.error`.  The scan is one step: the code reads one
directory after the other, so that of the files published meanwhile it may see
a later one and miss an earlier one.  No file disappears during a scan (prunes
exclude each other), and what it misses is what `missed` is about; the model has
it see everything up to one moment.  The files of a victim are removed in one
step, which is under the victim's lock.

Sums are cardinalities: the bytes of files are told apart (`Bytes`), and so are
the units of memory in `Prefetch` (`Units`) and the permits in `PlanCache`
(`PermitsOf`); what a sum becomes when a file comes or goes is then a fact about
finite sets.  Bytes on disk (`Disk`) count a part as large as its reservation, which a job reaches just
before it publishes.  A server restarted on an old cache starts with entries of
any age that fit (`Init`).

### `RunStatus`: whether a run is running

| Variable | Code |
| --- | --- |
| `latest` | the row of table `run_status` with the latest timestamp, which is the status of the run |
| `pending` | statements that have their timestamp and whose row nobody can see yet, by timestamp |
| `handler` | requests being handled on any replica, and the sweep of every replica's task `maintain` |
| `client` | the daemon: what it asks for, and which handler it waits for |
| `sessions`, `breaks` | bounds: how often the client starts, how many of its connections break |

A handler reads the status (`Get`), decides, and runs one statement, whose
evaluation (`Select`: timestamp and condition) and row (`Insert`) are two steps:
ClickHouse runs `INSERT ... SELECT` statements side by side and isolates none
from another.  `touch` evaluates its condition with the timestamp, `end` and
init evaluate theirs before.  A row that is older than one already there
changes nothing.  Handlers go on when the client has died or asks again
(`Leave`, `Break`), or are lost before their statement runs (`Lose`, which is
also what a failed statement amounts to).

Assumed of ClickHouse: one clock, no two equal timestamps, and a row that
everyone can see once it is there.  `Cancel` is external: nothing in the
repository writes a cancelled row, everything in it respects one.  `Tick` makes
every row that is there or begun older than two minutes; a heartbeat every 30 s
is "at any time" here, so that a client too slow for the sweep is included.

### `PlanCache`: plans and batches of one stream

| Variable | Code |
| --- | --- |
| `files` | the plan's `.plan`, `.index` and `.ready`, each with the build it is from |
| `data` | the batch files, by the generation their directory is named after |
| `error` | the failure file of each group, and whether it is 2 s old |
| `lock` | who holds the lock of the plan or of a batch |
| `req`, `served` | `Runtime::batch` for each client: the generation, the index and the plan it has read so far; the answer that is not 202 |
| `builder`, `built` | `prepare_plan` in the background, and how many builds there were |
| `job`, `pool` | `prepare_batch` for each file; the semaphore that `loading_memory` finds in its weak map |
| `prune` | the group that `Budget::prune` removes, and the files its scan listed |
| `mixed`, `torn` | history, for the exceptions below |

A file stands for the build it comes from, and a query may answer every build
differently (`Query`).  A request reads `.ready`, opens the index, opens the
plan, looks the sequence up, looks for the batch file, and opens it (six
actions, none under a lock; a missing file sends it to the lock of the group,
and to a background job).  Publishing a plan is three actions, pruning it one
for each file, `.ready` first; a crash of the server drops all
requests, jobs and locks at any point.

### `BatchLoad`: what is in a batch

A single program run from the rows of a query (`Spool`, `Publish`: skipped rows,
rows out of order, the index, the reservations of `PLAN_RESERVATION`), over the
lookup of a sequence number (`Seek`, `ReadRecord`), to the blobs: `Sort` takes any
order by object and offset, as an unstable sort may; `Join` makes the next
reference a part of the last read or a read of its own; `Fetch` reads, and cuts
the parts out (`Loaded`).

| Variable | Code |
| --- | --- |
| `row`, `previous` | how far the query is read; the key of the last valid row |
| `plan`, `bytes`, `offsets`, `reserved` | the plan file and its length, the index, the reservations of `QuerySampler::create` |
| `at`, `batch` | the reader's place in the plan file; the samples read so far |
| `queue`, `reads` | the sorted references that `load_blobs` has still to look at; its `reads` |
| `answer` | what the request or the job gets |

A blob is known by its sample and its place there (`Places`); the code flattens
the samples and takes the blobs back in the same order.  A byte is the object it
is in and its place there, so that a shifted cut shows.  The definition it is
checked against (`Expected`, `Named`) says what the batch is without files, index
or joins.

### `AssetCache`: one entry of a host's cache

| Variable | Code |
| --- | --- |
| `entry` | the published directory: none, whole, or `damaged`, when its removal has begun and it may lack some of its files (`partial`: published from a `.part` that was not complete) |
| `part` | the `.part` directory: whose it is, and whether it is complete |
| `lockFile` | the inode at the path of the entry's lock file |
| `proc` | each download, store and eviction: its place in `download`, `store`, `evict`, the inode it has open and the lock it has on it |
| `unsafe` | history, for two of the exceptions below |

`lock()` opens, locks and then checks that the path still leads to what it
locked (`Current`); `download` tries the exclusive lock, else waits for the
shared one and looks again.  Filling, renaming and downgrading are steps.  An
eviction is five: open the lock file, lock it, begin to remove the directory, the
end of that, remove the lock file; nobody else has the lock meanwhile, but
`exists()` does not ask for it.  A daemon may die at any of these steps, also the
one that evicts, and its locks go with it; `remove_dir_all` may fail in the middle
(`RemovalFails`), and then the rest stays at the entry's path.

### `AssetFetch`: how an asset gets there

| Variable | Code |
| --- | --- |
| `download`, `range`, `body` | a fill: its ETag, what it has reserved and read; each range's state; the version of the bytes in it |
| `waiting` | downloads in the queue of a daemon's memory semaphore |
| `inputs` | the ETag the server has fixed for a run's input |
| `files` | the ranges in the server's cache |
| `object` | the version in R2 |

A chunk's memory is taken at once if there is enough and nobody waits, else in
the order of asking (`Reserve`, `Grant`); its request may be answered from a file,
from R2 with `If-Match`, break off or be refused, and the ordered reader keeps
the memory of a chunk until it has the next one (`Held`).

### `Publication`, `UploadCommit`: requests that publish something

`Publication` is the promise: each part of a request, in the table it belongs to,
appears to readers once and never changes, and success is answered when all
parts are there.  A batch of metrics has two parts, its scalars (`metrics`) and its
arrays (`array_metrics`), a file or an asset has one (`Parts`).

| Variable of `UploadCommit` | Code |
| --- | --- |
| `attempts` | the handlers of each request, on any replica: the next remote operation, and the asset record they have |
| `answer` | what the client was told |
| `objects`, `intents`, `receipts` | R2: complete objects, asset records, receipts of metrics |
| `table`, `arrays` | ClickHouse: the rows each request has inserted, those in `array_metrics` apart; `View` is what a reader sees of them |
| `cancelled` | the status the handlers ask for |

Every operation on R2 or ClickHouse is an action (`InsertRow`, `InsertScalars` and
`InsertArrays` are the inserts), and between any two an attempt may die, answer 500 after it has done its work, or be given up by its client,
who sends the request again while the old attempt goes on.  `View` is external:
`ReplacingMergeTree` read with `FINAL` keeps one row per key, and an insertion
with a token that is known inserts nothing.

### `Uploads`: metrics and files on their way to the server

| Variable | Code |
| --- | --- |
| `app`, `kind`, `calls` | the training process: open, closed or dead; the uploads and the flush and close calls it has made |
| `commands`, `forward` | the queue of `UploadClient`, and the task `forward` with its `dirty` flag |
| `inbound`, `replies` | the two directions of the socket |
| `daemon` | `process`: metrics being collected, tasks not joined, failures not reported |
| `metrics` | `send_metrics`: its queue and its failures |
| `status`, `saved` | where each upload is; what the server committed, in order |
| `told`, `lost` | history: failures given to a call, or to one that had stopped waiting |

`select!` is biased, so that what is on the socket comes before finished tasks
and the tick.  A process that dies may leave half a message on the socket
(`Cut`); the daemon may stop at any point.

## 4. What TLC checks

| Run | Module | Bounds | Distinct states |
| --- | --- | --- | --- |
| `prefetch_flow` | `MCPrefetch` | three batches from 3 on, of 1, 5 and 2 units, 2 credits, 2 units; refusals, broken bodies and shutdown anywhere | 15777 |
| `delivery_flow` | `MCDelivery` | batches 1 to 3 of 2, 1, 1 samples, 2 ranks, 2 workers, one close, one interrupt anywhere | 39124 |
| `resume_after_interrupt` | `MCDelivery` | the same, an interrupt while waiting | violation |
| `cache_flow` | `MCCacheBudget` | 2 writers, 2 jobs, maintenance; a plan of 2 pieces, a batch of 1, an input; every small file of 1; a limit of 2 bytes | 491449 |
| `run_status` | `MCRunStatus` | 2 requests at a time, 1 replica sweeping, 2 sessions, 1 broken connection, cancelled at any point | 99772 |
| `plan_cache` | `MCPlanCache` | 2 requests, 3 builds with different answers, loads that fill the pool, 1 group pruned, 1 failed job or crash | 192755 |
| `batch_load` | `MCBatchLoad` | every query of up to 3 rows over 3 batches, 2 samples, 2 widths, valid or not; every batch of 3 blobs over 10 references into 2 objects; sequences 0, 1, 4 | 576578 |
| `asset_cache` | `MCAssetCache` | 2 downloads, 1 store, 2 evictors, 2 evictions, 1 death or failed removal; a damaged entry and any `.part` at the start | 735582 |
| `asset_fetch` | `MCAssetFetch` | 3 downloads by 2 daemons of 2 objects of 2 ranges each, memory for 3 chunks a daemon; 1 fault, 1 replacement | 379558 |
| `upload_commit` | `MCUploadCommit` | 2 saves of one name, 1 metric batch of scalars and arrays, 2 slots, clock 1 or 2, 2 faults | 291544 |
| `uploads` | `MCUploads` | 2 uploads of 4 kinds, 2 calls, a queue of 2, batches of 2, 1 permit; 1 failure, 1 timeout | 358668 |
| `uploads_timeout` | `MCUploads` | one artifact, 2 calls, 1 failure, 1 timeout | violation |

**Prefetch.**  A batch of one unit, one larger than the whole budget and one
that fills it; start 3 makes turns and sequence numbers differ.  The server may
refuse a batch or send garbage, bodies may break off, and the supervisor may
shut the stream down at any point, also while the pump itself cancels after the
end.  Credits are conserved exactly (`CreditConservation`), no unit leaks over
retries (`MemoryConserved`), memory held never exceeds the budget although
cancel posts a second budget (`MemoryBound`), memory is reserved in batch order
(`ReserveInOrder`), the window is implemented (`ImplementsWindow`), everything
gets through and ends if nobody disturbs it (`EventuallyEnded`), and no thread
or task is left behind (`CancelEndsThreads`).

**Delivery.**  Two workers race on parts of a batch, the start is no multiple of
the rank count, one reader is closed early and opened again at any point between
two batches, and one exception leaves `__next__` anywhere.  Until then the
stream is implemented (`ImplementsStream`); in any case at most one batch is
lost (`LossBounded`), no rank receives a batch twice, out of order or of another
rank (`ReturnsAdvance`), every loop ends (`EveryLoopEnds`), and without an
interrupt, whenever no rank is inside `__next__` with a batch, the cursor a
checkpoint would save is exactly the first batch that was not returned
(`CursorIsFirstUnreturned`).

`resume_after_interrupt` is a disagreement between the code and its
documentation.  README.md says that "Checkpoint metadata records batches
returned to training code, excluding prefetched batches", and architecture.md
that a reader "Can be closed early and reopened".  If an exception leaves
`__next__` while it waits for the collator's answer, the collator sends the
batch to a connection nobody reads, drops it from its outbox, and the reader
opened next receives the following batch and writes its progress file past the
lost one.  The next checkpoint's cursor skips a batch that training never saw.
The batch's credit and memory are gone as well, so the window stays smaller, and
after `Ranks * Factor` such interruptions nothing is requested any more.

**Cache.**  From any cache that fits, a job with its lock always gets through
(`JobsEnd`): a prune makes room for what its caller needs next, passes over
entries in use without waiting for them, and asks for an empty cache when what
is reserved and what is needed exceed the limit.  The count covers the disk,
with two exceptions (`CountCovers`): what was given back after the scan of the
last prune (`missed`), and the small files written since that scan, for which
nothing was reserved (`unseen`); those the scan saw are counted.  The lock at an
entry's path protects it from eviction (`EvictsUnused`).  A request that looked for a batch
before it was published and got its lock after that writes it a second time,
and while it does the first copy cannot be evicted; the batch written twice here
is half of the limit, and one of more than half of `CACHE_BYTES` would wait for itself
forever (the default is 45 GiB).

**Run status.**  Once its client has died or ended, a run does not go on being
shown as running, whatever heartbeats, inits and sweeps of earlier sessions are
still on their way (`GoneSettles`); a run that a sweep failed too early does not
stay failed while its client heartbeats (`Revived`); no heartbeat or sweep
undoes a cancel, however long ago it looked at the run
(`CancelOutlivesHeartbeats`); an init or an end that read the status before may,
and the code documents nothing else.

**Plans and batches.**  Every build answers the query differently, which makes
mixtures visible.  What a request is served is what one build says of its
sequence number, unless a plan was replaced between its reading of `.ready` and
its opening of the plan (`ServedByOnePlanUnlessReplaced`); a generation's
directory never gets samples of an older build (`NeverOlder`: a job that was
started for an old plan and ends after a rebuild writes to the old directory);
`.ready` means that plan and index are there and of one build
(`ReadyIsComplete`); two loads never take more than the pool, although the
semaphore is dropped and made anew in between (`LoadingBounded`); and whatever
fails, crashes or is pruned, a request is answered (`AsksAnsweredUnlessTorn`).
`ReadyIsComplete` and the last have one exception: a prune that listed a plan
before its `.ready` was there, and locks it when it is complete, removes the
plan and leaves `.ready` (`torn`).  An instance with two requests for different
batches (708784 states) has been checked too.

**Batches' bytes.**  Each batch has the samples and the bytes the query names, in
order, and fails only for rows out of order or bytes that are not there
(`ServesTheQuery`): neighbouring, overlapping, equal and whole-object references
over objects of 3 and 2 bytes, skipped rows, empty results, sequence numbers
below, at and past the end, with and without repeating.  Rows and index never
outgrow what is reserved (`ReservedBeforeUse`), with a reservation of 3 units so
that a single row may need two.

**Assets on a host.**  A daemon that has its lease has a whole entry, filled by one
process, through downloads, stores, evictions and one death at any point, of any
process, or one removal that fails in the middle (`LeaseHolds`), with three
exceptions, each of which the code really has (below): the asset was evicted
while somebody was between giving up one lock and taking the next; it was
evicted under a lock file that another eviction had already removed; or what is
leased is the rest that a removal left when it was cut off before.  Every
download ends in a lease or an error (`WaitsEnd`), with the first two exceptions.

**Assets on their way.**  A file that is installed is the whole object in the one
version the run was given (`WholeAndOfOneVersion`), the server's cache never
holds bytes of one version under the ETag of another (`CacheIsOfItsVersion`),
and downloads end (`DownloadsEnd`) if nobody replaces their object: R2 then
refuses the old version, the server answers 500, and the client retries without
limit.  Two downloads of two ranges run in one daemon, whose memory is for three
chunks: the ordered reader keeps the memory of the chunk it has read until it has
the next, so each download of several ranges may sit on one chunk, and one more
is needed for anybody to go on.  `DownloadsEnd` is about a daemon that has that
much (`EnoughMemory`); with less they do wait for each other (below).

**Uploads on the server.**  Two saves of one name and a batch of metrics, each
sent again at any point, with attempts that die between any two operations or go
on when nobody waits for them, also between the two inserts of a batch.  Each
part is published once, and success answered when all are
(`ImplementsPublication`); rows have their objects
(`RowsHaveObjects`); a save after an acknowledged one of that name has a later
version and descends from it, whatever the clocks show (`LaterSucceeds`); and
everything is answered, so that no upload slot is lost (`EventuallyAnswered`).
Metric artifacts take the steps of assets without the record; an instance with
one artifact, one metric batch and one fault (93 thousand states) has been
checked too.

**Uploads on the host.**  A flush or close that returns Ok covers every upload
before it, except for failures that were reported to an earlier call
(`FlushCovers`); a call that comes back by itself leaves no file being read
(`FlushWaits`; `save_asset` of an object removes its temporary file then); saves
reach the server in order (`SavesInOrder`); a failure is reported to a call or
fails the run, also when the process has died or the daemon stops, except for
automatic metrics (`NoSilentFailure`); every call and every connection ends
(`EverythingEnds`).

`uploads_timeout` is a disagreement with architecture.md, "Failures are logged
and returned at `flush()`/`close()`".  `flush(timeout=...)` that expires leaves
its command with the daemon, as http.md says ("A flush timeout leaves its upload
running").  If an upload fails then, the daemon's reply has the failure and the
daemon forgets it; `forward` takes the reply for a call nobody waits for, and
drops it.  The next flush or close returns Ok, and the run succeeds.

### What TLC refutes beyond the runs

The modules state some stronger properties that the code does not have.  Each is
refuted by adding it to the configuration named:

* `HardLimit` (`CacheFlow.cfg`): README.md calls `CACHE_BYTES` "a hard limit on
  the cache: every write reserves its bytes first".  A prune adds up the files it
  sees, and when it is done overwrites the count with that sum less what it
  evicted.  A batch published after the scan whose reservation ended before the
  overwrite is counted nowhere until the next prune; meanwhile its space is given
  out again.  And not every write reserves: the `.ready` of a plan
  (sampling.rs:115), the `.error` of a job (job.rs:60) and the description of an
  input (runtime.rs:243) are written as they come, which TLC finds first: a plan
  that fills the limit is over it with its `.ready`.  The disk stays below two
  limits and these files (`ExcessBounded`).
* `LockExcludes` (`CacheFlow.cfg` with `Entries <- MCTwo`, `Inputs = {}`,
  `Jobs = 3`): the lock
  of an entry is to exclude others
  (`lock_is_shared_between_independent_callers_and_released_on_drop`).  A request
  opens an entry's lock file, prune locks and removes it, another request creates
  and locks a new one; when prune is done the first request locks the inode it
  has open.  Both prepare the entry.
* `JobsEnd` with two plans (`CacheFlow.cfg` with `Entries <- MCTwo`,
  `Plans <- MCTwo`, `Inputs = {}`, `Chunks <- MCTwoPieces`, `Maintenance = {}`):
  two plans that fit one by one hold half of the cache each and wait for each
  other; nothing times out.  For the same reason a plan larger than `CACHE_BYTES`
  waits instead of being refused.
* `SuccessIsFinal` (`RunStatusFlow.cfg`): "Explicit run completion changes a run
  to succeeded or failed; initialization reopens it" (http.md).  The daemon
  stops its heartbeat task before it sends end, but the last heartbeat may still
  be handled.  If its statement is evaluated before end's row is visible, and its
  row is the later one, the run that succeeded is shown as running, and two
  minutes later as failed.
* `InUseNeverEvicted` (`AssetCache.cfg`): "In-use entries are never evicted"
  (architecture.md).  `download` gives up its exclusive lock and takes the shared
  one on the inode it has open; an eviction in between removes entry and lock
  file, and the shared lock is then on an inode nobody else will find.
* `LeaseHolds` without one of its exceptions (`AssetCache.cfg`).  With `unsafe`
  allowed to hold "between": the gap just described.  With "late": an eviction
  has opened the lock file and another one removes entry and lock file; a download
  makes a new lock file and a new entry and leases it, and the first eviction
  locks the inode it has open, which nobody holds, and removes what is leased.
  With `entry = "whole"` for every lease: an eviction dies, or fails, when it has
  removed some of the files; its lock is gone, the directory is still there, and
  `exists()` and the touch are all that a download asks of it.  Nothing ever
  replaces such an entry but a later eviction.
* `ServedByOnePlan` (`PlanCacheFlow.cfg`): a rebuilt plan "cannot serve an older
  plan's payloads" (http.md).  The generation is read from `.ready` and the plan
  opened later; a plan replaced in between is paired with the old generation's
  directory.
* `AsksAnswered` (`PlanCacheFlow.cfg`): "partially removed plans are rebuilt
  automatically" (http.md); a plan removed under its `.ready`, as above, is
  not, and every request for it is answered 202 from then on.
* `PermanentFailuresKept` (`PlanCacheFlow.cfg` with `Faults = 2`,
  `Prunings = 0`): a request reads an old retryable failure, another retries and
  fails for good, and the first removes the new failure file.
* `DownloadsEnd` without `EnoughMemory` (`AssetFetch.cfg` with `Memory = 4`):
  two downloads of several ranges have read a first chunk each, which keeps its
  memory until the next one comes, and that is all there is: both wait forever.
  With `Memory = 2`, one chunk, a single download does.  A daemon downloads eight
  assets at a time in chunks of 4 MiB, so it takes less than 36 MiB;
  README.md gives no least value for `max_prefetch_memory_bytes`, and the default
  is 512 chunks.
* A batch of metrics is not atomic (`UploadCommitFlow.cfg` with
  `\A k \in Scalars \cap Arrays : answer[k] # "none" => (table[k] # {} <=> arrays[k] # {})`):
  an attempt inserts the scalars and dies, the run is cancelled, and the retry is
  refused; the scalars stay without the arrays.  Short of a cancel the retry adds
  them, and readers see half a batch until then.
* `LatestIsLast` (`UploadCommitFlow.cfg` with `NameOf <- MCTwoNames`):
  "TensorLane selects the latest committed checkpoint" (README.md) by the update
  time, which is only made to grow within one name; over two names it follows
  the replicas' clocks.

### Bounds

Credits bound the sequence numbers of `Prefetch`, so its state is finite without
any cap on counters; two credits with sizes below, at and above the budget reach
every waiting situation (first waiter blocks the budget, a later one holds a
turn, a completed fetch waits behind an incomplete one).  Two ranks and two
workers are the least with races between them, and one close and one interrupt
reach each combination of connection state and message in flight.  Two writers,
a third party that prunes and sizes of one half and the whole of the limit reach
the races between a reservation and a prune, and a small file of half the limit
lets one that nothing reserved for decide whether there is room.  Two requests at a time are a
stale one and a current one, which with a sweep and a cancel gives every order
of three rows begun and inserted; two sessions let a handler of the first meet
the second.  In `PlanCache` two requests are one that is late and one that is
ahead of it, and three builds are what one failure and one eviction can make
necessary.  In `AssetCache` two downloads are a filler and one that waits, and two
evictors are one that removes and one that comes late, with the lock file that
the first has removed still open; one death cuts off any one of them.  In
`AssetFetch` two downloads of two ranges and memory for one chunk more than they
can sit on is the least memory that suffices.  In `UploadCommit` two
faults let two attempts at one request run beside a third.  `MaxCloses`,
`MaxInterrupts`, `Jobs`, `MaxSessions`, `MaxBreaks`, `Faults`, `Prunings`,
`Evictions`, `Deaths`, `Replacements`, `MaxUploads`, `MaxCalls`, `MaxFailures`
and `MaxTimeouts` are the counters with a cap; each stands for something of the
environment, or for a call of the training code.

### Fairness

Threads and tasks are scheduled (weak fairness on each of their steps).  The
server answers in the end: the client retries without limit (docs/http.md), so a
request that is answered with an error forever is the only way out, and that is
no property of this code.  `ReadBody` has strong fairness: a body may break off
any number of times but not forever.  The ranks open their readers and go on
asking.  Nothing is fair about `Reject`, `BreakBody`, `Stop`, `Abort`'s cause,
`CloseEarly` and `Interrupt`: they may happen or not.
In `CacheBudget` jobs and prunes run (weak fairness).  A writer that has found
no room gets `prune.lock` in the end (strong fairness): it polls every 50 ms,
while the maintenance task sleeps a minute between prunes and other writers
sleep 100 ms after each prune in vain.  Failures and new requests are not fair.
Reservations are not ordered, so a large one could wait as long as small ones
keep coming; `Jobs` bounds how many come.
In `RunStatus` the database answers, the client repeats its requests while it
lives, time passes and replicas sweep once a minute (weak fairness on each).
Starts, ends, crashes, broken connections and lost handlers are not fair.
In `PlanCache` requests (which are repeated: 202 is polled), jobs, prunes that
have begun and the aging of failures go on; failures, crashes and prunes need
not happen.  In `AssetCache` every process goes on, and a lock that stays free is
taken (`flock` blocks in the kernel, or is polled); daemons keep their leases as
long as they like.  In `AssetFetch` something goes on whenever something can (weak
fairness of `Progress` as a whole: a download works, or memory is granted to the
one that waits longest), and in `UploadCommit` each operation of a handler ends, by its timeout
at the latest, and the client sends again.  In `Uploads` the tasks of the training
process and of the daemon run and requests end; a server that stays away forever
is excluded, since transport.rs sets no deadline.

## 5. What is proved

`PrefetchProofs` proves for every `Start`, `EndAt`, `Capacity`, `Memory` and
`Sizes` that satisfy `PrefetchAssumption`:

| Theorem | States |
| --- | --- |
| `TypeCorrect` | `Spec => []TypeOK` |
| `CreditsConserved` | `Spec => []CreditConservation` |
| `CreditsBoundRequests` | `Spec => []CreditBound` |
| `ReservationsInOrder` | `Spec => []ReserveInOrder` |
| `ReturnsAreAccounted` | `Spec => []ReturnsAccounted` |
| `MemoryIsBounded`, `MemoryIsConserved` | `Spec => []MemoryBound`, `Spec => []MemoryConserved` |
| `PrefetchImplementsWindow` | `Spec => ImplementsWindow` |

`RunStatusProofs` proves for any sets of handlers and sweepers and any number of
sessions and broken connections:

| Theorem | States |
| --- | --- |
| `TypeCorrect` | `Spec => []TypeOK` |
| `CancelHolds` | `Spec => CancelOutlivesHeartbeats` |

Credits: conservation alone says too little once cancel has posted its extra
credit, which must not become a request.  `CreditInv` adds that after the cancel
the bound holds with whatever the producer has in hand; a producer that saw the
flag ends, so it can spend the extra credit only on leaving.

Order of reservations: `ReserveInOrder` is not inductive, since it says nothing
of the turn.  `TurnInv` ties the turn, the fetch that is reserving, the blocking
thread's batch and the fetches behind and ahead of them together; a fetch gets
its turn only when all before it have passed it on, and a cancel that closes the
turns while a fetch is reserving is covered by the job's batch.

Refinement: `PositionInv` relates the pump's position to the fetches, the
batches that are out and owed, and the counters; with it and `CreditBound` every
step maps to a step of the window or leaves it unchanged.

Memory: `MemoryInv` counts the units of the fetches that have reserved and what
the blocking thread has in hand.  Until a cancel, these and the semaphore are the
budget.  Afterwards the semaphore may hold a second budget, and the bound holds
since the thread that sees the flag takes nothing more for a batch: a unit it
takes from the posted ones is refused.  `UnitsAdd` and `UnitsRemove` are the
arithmetic, and `out` must be of emitted fetches, lest a batch be counted twice.

Cancel: `RowsInv` adds to the types that no row being inserted says "cancelled",
and that every row later than a cancelled one belongs to an init or an end: a
cancel is later than all rows begun before it, and whoever begins one afterwards
under a condition sees the cancel.  `AfterRow` and `AppendRow` say what inserting
and beginning a row do to the rows on their way.

`UploadCommitProofs` proves for any requests, replicas, attempts, clocks,
crashes and failures that satisfy `UploadCommitAssumption`:

| Theorem | States |
| --- | --- |
| `Inductive`, `TypeCorrect` | `Spec => []IInv`, `Spec => []TypeOK` |
| `RowsHaveObjectsAlways` | `Spec => []RowsHaveObjects` |
| `LaterSucceedsAlways` | `Spec => []LaterSucceeds` |
| `PublicationImplemented` | `Spec => ImplementsPublication` |

An attempt that still runs may be one of several, on several replicas, of a
request whose client has given up.  `AttemptsRight` says for each step of each
kind of request what the attempt relies on, whichever attempt brought it about:
that the object is complete, that a row is there, that the record it is about to
insert is the one that was created first.  `RowsRight` says that there is one row
at most in each table and whose it is; `SeenKept`, that a step shows a part for
the first time or leaves it as it was, is what maps each step to `Publication`,
and a request is accepted from the last of its steps only, when all its parts are
there (`Published`).  `LaterSucceeds` needs `Descent` beside it: a save that
begins after another of its name was answered works with a record whose update
time is later than what readers see of that one, from "create" on.  `LatestIsLatest`
(a finite set of assets has one that was updated last, by induction on its
cardinality with `WFMin`) justifies the CHOOSE of the model.

`AssetProofs` proves for any daemons, assets, sizes and budgets that satisfy
`AssetFetchAssumption`:

| Theorem | States |
| --- | --- |
| `Inductive` | `Spec => []IInv` |
| `PublishedWhole` | `Spec => []WholeAndOfOneVersion` |
| `CacheTrue` | `Spec => []CacheIsOfItsVersion` |

`BytesRight` gives every range that arrived the version its download was told,
and `OrderRight` says that `Ordered` has unpacked exactly the ranges below its
offset, so that an offset at the end means all of them.  `NextOffset` is the
arithmetic underneath: between an offset and the next multiple of `Chunk` (or
the end) there is no other range.  The invariant does not say who waits for
memory: the two properties do not depend on it.

For any processes that download, store and evict one asset, any number of
evictions and deaths, it proves further, from `AssetCacheAssumption` (one upload
at most stores an asset, since its id is made for that upload):

| Theorem | States |
| --- | --- |
| `EntryInductive`, `EntryTypeCorrect` | `EntrySpec => []EntryInv`, `EntrySpec => []EntryTypeOK` |
| `LeasesHold` | `EntrySpec => []LeaseHolds` |

`LeaseHolds` rests on who has which inode open.  As long as no eviction was
unsafe, everybody who is past the check of `lock()`, and an eviction that removes,
has the inode that is at the path (`OneInode`), because whoever removes a lock
file holds it exclusively (`Alone`), and nobody else is inside from the moment the
removal begins until its lock is gone (`Undisturbed`): so nobody relies on what it
removes, and a lease never has a removal going on beside it, only the rest of one
that was cut off.  An eviction that has only opened its lock file may have a stale
one; it is inside when it removes.  `LockRight` says which lock a process has at each step,
with the gap between the exclusive lock of a filler and its shared one, and
`EntryRight` what they rely on: whoever saw the entry still sees it, and whoever
fills finds none and works on its own `.part`.  The stale `.part` of a process that
died is any there may be at the start.

`BatchProofs` proves for any query results of any number of builds, requests,
jobs, prunings, failures and crashes that satisfy `PlanCacheAssumption`:

| Theorem | States |
| --- | --- |
| `Inductive` | `Spec => []IInv` |
| `ServedByOnePlanAlways` | `Spec => []ServedByOnePlanUnlessReplaced` |
| `NeverOlderAlways` | `Spec => []NeverOlder` |
| `ReadyIsCompleteAlways` | `Spec => []ReadyIsComplete` |
| `LoadingIsBounded` | `Spec => []LoadingBounded` |

A request reads the generation, the index and the plan in three steps, with no
lock held between them.  `RequestRight` says how much it knows at each step: no
plan it can still find is older than its generation, and what it has read is of
that generation unless a plan was replaced (`mixed`).  `FilesRight` relates the
files to the build that writes them and to the pruning that removes them in the
order of an old list; `LocksRight` says whose every lock is; `BatchesRight` that
samples under a generation are of that build or a later one.  `LoadsFit` sums over
the loads of all semaphores at once: there is only one that anybody holds
(`BatchesRight`), and a new one is made when no load has permits of the old one.

For any query result, objects, references, sequence number and size of a
reservation that satisfy `BatchLoadAssumption`, it proves further:

| Theorem | States |
| --- | --- |
| `LoadInductive`, `LoadTypeCorrect` | `LoadSpec => []LoadInv`, `LoadSpec => []LoadTypeOK` |
| `QueryServed` | `LoadSpec => []ServesTheQuery` |
| `PlanReserved` | `LoadSpec => []ReservedBeforeUse` |

`LoadInv` follows the data from the query to the bytes.  `PlanRight`: the plan file
has the valid rows taken so far, in order, each record where the one before ends.
`IndexRight`: the n-th index entry is the start of the first record of a batch
with n - 1 batches before it, and there are as many entries as batches; two
batches never have equally many before them (`EarlierCounts`), so the number asked
for names one batch.  `BatchRight`: what was read is the plan from that record on,
all of that batch; reading stops at the end of the file or at another batch, and
since batches only grow in the file none of its rows is behind (`ReadsAll`).
`JoinRight`: each part of a read is where its reference is within the object, a
read ends with one of its parts, and each blob is still to be joined or is in a
read.  Then what is cut out is what the reference names (`PartIsNamed`), and if a
read goes past the end of its object, the part it ends with does.
`ReservationsHold` is the arithmetic of reserving in units.

`UploadsProofs` proves for any kinds of uploads and any sizes of queue and batch,
permits, failures, timeouts and times of death:

| Theorem | States |
| --- | --- |
| `Inductive` | `Spec => []IInv` |
| `FlushesCover` | `Spec => []FlushCovers` |
| `FlushesWait` | `Spec => []FlushWaits` |
| `SavesAreInOrder` | `Spec => []SavesInOrder` |
| `FailuresAreReported` | `Spec => []NoSilentFailure` |

`FlushCovers` says what a reply means when it arrives; why it does is a matter of
what is where.  `PipeRight`: uploads are received in the order of the calls, so
that what the daemon has is a beginning, then comes the socket, then the queue.
`CommandsCover`: a flush in the queue has what it covers before it, and behind it
nothing of that.  `FlushRight`: one flush is under way at most, at the end of the
socket, with the daemon, or on its way back, and when it comes back the daemon has
no task left.  `MetricsRight`, `TasksRight` and `FailuresRight`: every metric that
was collected is in one batch, every file has a task until it is joined, and every
failure is kept by somebody until a call is given it.  `CleanRight` joins these: a
clean reply, or a connection that is not dirty, means that everything written to
the socket is committed, skipped or reported.  `SavesRight` says that a save runs
only when the saves before it have ended; so one save at most runs, also when a
message is cut off and the tasks are dropped.

`DeliveryProofs` proves for any number of ranks, workers, batches and samples,
any start, and any closes and interrupts that satisfy `DeliveryAssumption` (which
names the three places in `__next__` where an exception may leave it):

| Theorem | States |
| --- | --- |
| `Inductive`, `TypeCorrect` | `Spec => []IInv`, `Spec => []TypeOK` |
| `OneAnswerHolds` | `Spec => []OneAnswerPerAsk` |
| `ReturnsAdvanceHolds` | `Spec => []ReturnsAdvance` |
| `CursorHolds` | `Spec => []CursorIsFirstUnreturned` |
| `StreamImplemented` | `Spec => ImplementsStream` |
| `LossBoundedHolds` | `Spec => []LossBounded` |

`EndRight` says why the collator may count Ends: each is the last message of its
worker, so with the last of them every batch is complete.  `SamplesRight` says
that a sample that was distributed is with the collator or on its way, and
`SentOnce` that it is there once, since a batch completed twice would be released
twice.  `RankRight` has five parts.  `Connected` relates the two ends of a
connection; `OneAnswer`: a reader that waits has one request or one answer under
way; `InLine`: what a rank was returned, what `__next__` has in its hands, the wire and
the outbox are one increasing line of the rank's batches; `EndStays`: End is the
last in the outbox.  `NothingMissing` is the fifth and holds until an exception:
what is behind the progress file is on the wire or in the outbox.  The cursor is
then arithmetic on quotients and remainders (`Quotient`, `Unique`), and every
step is one of the stream or leaves it unchanged.  `LossRight` counts the batches
gone from the line, returned or lost, and the answers that an earlier interrupt
has left over (`Spare`): together they never exceed the returns and the
interrupts, because a batch can be lost only where an answer is spare.

`CacheBudgetProofs` proves for any entries, writers, sizes, numbers of
reservations and any limit that satisfy `CacheAssumption`:

| Theorem | States |
| --- | --- |
| `Inductive`, `TypeCorrect` | `Spec => []IInv`, `Spec => []TypeOK` |
| `CountCoversHolds` | `Spec => []CountCovers` |
| `ExcessIsBounded` | `Spec => []ExcessBounded` |
| `EvictsUnusedHolds` | `Spec => EvictsUnused` |

`LooseRight`: a prune that has scanned has every loose file in its sum that is not
newer than its scan.  `Structure` is about locks and lists.  A prune that has locked a victim holds the
inode at the victim's path, which no job holds (`PruneRight`), and a file it has
listed and not removed is there, because nobody else removes any; with that,
evicting takes exactly the listed bytes off the disk.  `InodeIs` counts: there are
more inodes than lock paths and open files, so that a new lock file always has
one.  `Counted` is about bytes.  `CountCovers` alone is not inductive, since the
end of a prune overwrites the count: `Counted` says beside it what a prune that
has scanned is about to write, that this and the reservations that ended since
cover the disk as well, loose files that the scan saw included (`WeightIs` is
the arithmetic of their bytes), and that what is left of the scan covers what is left of
the list, so that it never falls below zero.  The excess is bounded because
reservations that have ended since the scan were within the limit together with
those there are (`prune.since + reserved <= Limit`): the bytes a prune forgets
are one limit at most, and the disk without loose files only grows while the count
is within the other.

Each inductive invariant was checked by TLC before it was proved.

Every invariant and every action property that a passing run checks, and each
refinement, is stated by a theorem.  Only model-checked is what needs fairness
(`EventuallyEnded`, `CancelEndsThreads`, `EveryLoopEnds`, `JobsEnd`, `GoneSettles`,
`Revived`, `AsksAnsweredUnlessTorn`, `WaitsEnd`, `DownloadsEnd`,
`EventuallyAnswered`, `EverythingEnds`): liveness and ENABLED are out of the
prover's reach.

## 6. What is not modelled

* Exceptions of user code in a transform or collate function, and the supervision
  of processes that die (`client.py`, `worker.rs`): signals, pipes and process
  groups of the operating system decide what happens.  What it means for the
  other parts is there: `Stop` in `Prefetch` and `Uploads`, `Die` in `Uploads` and
  `AssetCache`, `Leave` in `RunStatus`.
* Several sessions in a row: `Delivery` starts at any cursor, and its cursor is
  checked at every point; that a later session uses it is one assignment.
* Run configuration and query parameters (`run_config.rs`, `query_params.rs`):
  functions from user input to SQL text and errors, without state; what they do
  is fixed when a run is created.
* HTTP routing, authentication, health probes (`http.rs`, `auth.rs`,
  `health.rs`): no state; the handlers behind the routes are modelled.
* Performance metrics (`_performance.py`): no other part depends on them.
* Formats (protobuf, pickles, framing): a message is its batch number and sample
  indices, a connection a queue of messages.
* The database schema, the SQL, packaging.
