# partforge: models, checks and proofs

partforge rewrites the data parts of a ClickHouse table outside the cluster.
Upload commands copy frozen parts to S3 and register each as a row of a Postgres
table; workers claim rows, rewrite the part with a local ClickHouse server and
upload the result (an *artifact*); workers then compact artifacts of the same
job; an importer attaches the finished artifacts to the destination table. All
coordination goes through the Postgres table: there is no other channel between
the processes.

The one thing the system must never do is change the data: each source part's
rows must reach the destination once, whatever crashes, races or is retried on
the way. Most of this project is about that.

Contents: [inventory](#inventory), [modules](#modules-and-their-code),
[runs](#runs), [bounds](#bounds), [fairness](#fairness), [finding](#finding),
[assumptions](#what-the-runs-assume-and-what-happens-otherwise),
[proofs](#proofs), [limits](#what-is-not-modelled), [plan](#plan).

## Inventory

| component | state | operations | interacts with |
|---|---|---|---|
| state store, `internal/state/postgres.go` | one row per part: status, owner, lineage, timestamps, output statistics | create, claim, complete, fail, release, heartbeat, request finalization, import transitions, retry, reset, delete | called by every process; each operation is a transaction |
| compaction maintenance, `internal/state/maintenance.go` | a maintenance record with `next_run_at` | release stale leases, finalize artifacts | called by idle workers, races with claims and completions |
| worker, `runWorker` and `runWorkerCompaction` in `cmd/partforge/main.go` | current part or batch, shutdown flag | claim, rewrite, maintain, compact, release, fail | store, heartbeat goroutine, ClickHouse, S3, ECS |
| heartbeat, `startCompactHeartbeat` | ticker | refresh the rows of the batch, learn of finalization requests | store; cancels the compaction |
| rewrite processor, `internal/rewrite/processor.go`, `insert_chunks.go`, `snapshot.go` | stage, settings, chunk position | download, insert in chunks, wait for merges, upload; retry with less memory | ClickHouse, S3, `UpdateRewriteProgress` |
| compactor, `internal/rewrite/compactor.go`, `compact_progress.go` | merge wait, quiet timer, observer goroutine | attach, merge, measure, upload if reduced | ClickHouse, S3, progress writes |
| importer, `internal/parts/importer.go` | work directory, attached parts | mark importing, attach, mark imported, release, fail | store, ClickHouse |
| upload commands, `upload-*` in `cmd/partforge/main.go` | tasks, goroutines and channels of `processTasksInParallel` | copy, register, refer to parts of another job | store, S3 |
| operator commands | the rows listed at their start | finalize, retry, set state, reset, delete | store, S3 |
| migrations, `internal/state/migrations.go` | schema version | migrate | Postgres |
| tuning, `internal/resources/tuning.go` | none | derive limits from CPU and memory | worker start |
| local ClickHouse, `internal/chproc/server.go` | process, pid file, port | start and ping, stop | worker, compactor's restart |
| backup reader, `internal/chbackup/backup.go` | the layers of a backup chain | scan an index, resolve files | `upload-backup` |
| I/O helpers: `s3copy`, `chhttp`, `artifact`, `fileutil`, `freeze`, `ddl`, `metrics`, `manifest` | little | copy, query, archive, parse | all of the above |

What makes them correct:

- *store*: sources are held exactly once; lineage is a forest; a row has an
  owner while worked on; an uploaded artifact is not rewritten again; a
  finalization request is not lost.
- *maintenance*: artifacts that could be merged are left for it; what can not
  be merged any more is offered to the importer in the end; no row stays in
  COMPACTING.
- *worker*: it does with the store only what the store allows; two workers do
  not work on the same part; a handled shutdown leaves nothing failed.
- *processor, compactor*: no chunk is inserted twice or dropped; the wait for
  merges ends; output is registered only if it has fewer parts.
- *importer*: an artifact is attached once, also across retries.
- *resets and deletes*: they lose no data and double none, also when they are
  interrupted, and leave a state from which the pipeline and a second reset go on.
- *uploads*: a registered part has its source objects, also when they belong to
  another job that is being deleted; the pool of goroutines ends and tells the
  truth about it.
- *backup reader*: the bytes assembled from a chain are the file's.
- *local server*: a worker talks to the server it started.

What is hard: leases that expire while their holder is alive; maintenance that
reads summaries in one statement and decides with them in another (READ
COMMITTED); a heartbeat that takes rows back one at a time; requests arriving
after the last heartbeat; crashes between any two transactions; shutdown between
claim and start; locks skipped with SKIP LOCKED; commands that act on what they
listed a while ago; S3 objects, local files and rows that change in different
steps; ClickHouse merging in the background while the code counts, waits and
freezes. `PROJECT.json` lists these
hazards at their lines, with the property that covers each.

## Modules and their code

### `Ledger`: what the pipeline promises

The registered sources are divided among *holdings*, each source in exactly one
of them. Open holdings may be merged; a holding is closed when the importer may
attach it, and imported once. There are no workers, rows or retries here.

### `PartStore`: the state table

`rows` is a function from part ids to records, `windowExpired` says for each job
whether its compact window has run out. One action per store operation, named as
in the code: `CreatePart`, `ClaimNextReady`, `MarkCompactReady`, `MarkFailed`,
`ReleaseInProgress`, `ClaimNextCompactBatch`, `HeartbeatCompactPart`,
`ReleaseCompactBatch`, `MarkCompactBatchFailed`, `CompleteCompaction`,
`MaintainCompaction`, `FinalizeCompactReadyJob`, `RequestCompactFinalization`,
`MarkImporting`, `MarkImported`, `ReleaseImport`, `MarkImportFailed`,
`RetryFailedPart`, `RetryInProgressPart`.

Callers are left open: any worker may call any operation with any set of rows
at any time. This is deliberately more than the workers do, so that what is
proved of the store does not depend on how they are written.

How columns are represented:

- A compact part's id is the record of its generation and inputs, since
  `DeriveCompactPartID` hashes just these: equal batches give equal ids.
- `lineage` is not a column. It is the set of originals reached through
  `compact_input_part_ids`, that is the sources whose data the artifact holds.
- `shape` stands for the output statistics: parts per partition, part count,
  bytes. The scheduling columns derived on each full write (`compact_eligible`,
  `compact_normalized`) are the operators `Eligible` and `Normalized` of it.
- `compactReadyAt` and `importingAt` say whether the timestamp is set, which is
  all `failedRetryTarget` looks at. Timestamps are otherwise only compared with
  the lease (`leaseExpired`) and the window (`windowExpired`).
- A claim takes a parameter `locked`: the rows other transactions hold locked
  at that moment. The claim skips them; the look for a sibling does not.
- `MaintainCompaction` takes the job summaries as an argument. Any summary is
  allowed, because between the two statements any other transaction may commit.

### `Pipeline`: the workers and what surrounds them

Extends `PartStore` with, per worker, a control state `pc`, the parts in hand
`batch`, the shutdown flag and the open maintenance transaction `scan`.

| `pc` | place in the code |
|---|---|
| `idle` | top of the loop of `runWorker` |
| `rewriting` | between `ClaimNextReady` and the update that ends the rewrite |
| `maintain`, `maintaining` | before `MaintainCompaction`; between its two reads and its commit |
| `claiming`, `claimed` | before `ClaimNextCompactBatch`; between it and the start of the compaction |
| `compacting` | inside `processCompactBatch`, heartbeat running |
| `finalizing`, `scanned` | before `FinalizeCompactReadyJob`; between its two statements |
| `down` | the process has ended |

Each worker action calls store actions of `PartStore` and nothing else changes
`rows`. `late` remembers the workers whose parts were taken away while they were
at work: they outlived a lease, or an operator retried their part. What may go
wrong, and which outsiders take part, is the constant `Faults`; each occurrence
takes one of `MaxFaults`.

| fault | what it stands for |
|---|---|
| `crash` | the process ends, or the answer of its last commit is lost |
| `shutdown` | SIGINT or SIGTERM |
| `fail` | an error of a rewrite or a compaction |
| `protect` | ECS refuses to protect the task |
| `slow` | a compaction that outlives its lease |
| `noreduce` | ClickHouse merges nothing within the quiet time |
| `contention` | rows locked by a transaction of the moment |
| `window` | the compact window may run out |
| `upload` | parts are registered while workers already run |
| `finalize`, `retry`, `import` | the operator commands and the importer |

### `Operator`: the commands that change a job's state

Extends `PartStore` with the commands of the operators: `retry-failed` with all
its selections, `set-part-state`, `reset-compact-timer`, `reset-job`,
`reset-compaction` and `delete-parts`. A command is a listing, from which it
decides, and then one transaction per row; `op` holds what it still has to do,
and `changed` the rows whose `updated_at` is no longer the one it read, which is
the condition of the updates that check it. A command may be interrupted between
any two transactions. `stored` is the set of rows with an artifact in S3.

Workers and importer take the store's steps, with any worker completing any
batch the store would let it complete, at any time: between the listing of a
reset and its updates too. `Copied` are parts of a copied job. Three history
variables tell what cannot be claimed afterwards:

- `forced`: `retry-failed -force` or `reset-compact-timer` was used (in jobs of at
  most `MaxForced` rows). What such commands override is not claimed any more,
  while `OperatorInv` is.
- `raced`, `"rows"`: a completion replaced rows that a reset or `delete-parts` had
  listed for deletion and not deleted yet. Then `HeldOnce`, `ResetStaysPossible`
  and `MaintenanceDefined` are not claimed.
- `raced`, `"objects"`: a worker stored an artifact of a row that a reset had
  already reset or deleted, before the reset deleted the row's prefix. Then
  `ArtifactStored` is not claimed.

Claims, releases, failures, heartbeats, maintenance, imports and all other
completions may come between any two steps of a command. `delete-parts` is used
for imported rows, for one part and for whole jobs: deleting SUPERSEDED originals
of a job that still compacts would break `MaintenanceDefined`.

### `Rewrite`, `InsertSelect`, `MergeWait`: one rewrite

`Rewrite` follows a part from its claim to its registered artifact: the stages in
the order they are reported, the heartbeat goroutine that writes a snapshot of
the stage later than it took it, deletion and upload of the finished objects one
by one, and failure, cancellation, crash and retry in each stage. What a stage
does locally succeeds or fails. Operators may retry rows whose worker still runs:
two attempts then write below one key at the same time, which `overlapped`
remembers, and `ArtifactIsOneAttempt` is not claimed; what still holds is that an
attempt's reported stage does not go back and that each claim ends.

`InsertSelect` is the insert of a part: chunk ranges by row offset, staging,
promotion partition by partition, and the retries that halve threads and block
size down to their floors. A table is the number of copies of each row; a failed
statement leaves any part of its rows behind. `MergeWait` extends it with the
`waitForMerges` that follows: after a successful insert the insert's variables
are set to fixed values (`ForgetInsert`) and the loop starts on a table of parts,
with a discrete clock, the idle and the hard deadline, and polls that fail for
lack of memory. The patient wait of a compaction starts without an insert. A poll
is up to three steps, one for each query (`ReadCount`, `ReadSnapshot`,
`ReadParts`), with the time noted after the first as in the code (`at`); merges
start and end between them, and the clock runs (`QueryRuns`). `Verdict` and
`Overdue` have the conditions under which the loop returns in the order in which
the code comes to them. `mergeWaitHook` (`processor.go:1791`) is left out: no code
sets it.

### `Compactor`: one compaction

The main goroutine, from the attached inputs over the wait to pause, drain,
measurement and upload, and the observer goroutine, which reports progress and
lowers the merge fan-in after memory failures. The table is the number of parts
per partition. ClickHouse merges when merges are enabled; the wait ends
normalized, quiet, at the deadline, on shutdown, on a finalization request, or
with memory exhausted.

### `Importer`: import-finished

The artifacts of a job are downloaded, unpacked, moved to `detached` and
attached part by part; rows, files and the table change in separate steps.
Commands fail, crash, are repeated and may overlap, which `overlapped` remembers;
`requireEmpty`, chosen at the start, is the flag of that name. Parts of different
artifacts may have the same name.

### `Tasks`, `TaskPool`, `Upload`: creating and deleting jobs

`Tasks` is what an upload command relies on: at most `Concurrency` parts at a
time, each once, and a result that is true. `TaskPool` is
`processTasksInParallel` with feeder, workers, caller and their channels; a send
on an unbuffered channel is a joint step. It is shown to implement `Tasks`.

`Upload` has the commands that create jobs (an upload, a copy of another job's
parts, a chain on another job's artifacts) and `delete-job -delete-s3`, with the
rows and the objects below each job's prefix. `origin`, chosen at the start, says
how each job is made; `overlapped` remembers that a job was listed while its
upload still ran. Rewriting a part is one step here. A job
whose `delete-job` failed half-way is `broken`: its objects may be gone while its
rows are there, as the order of the code has it, until the deletion is repeated.

### `Backup`: the reader of native backups

The chains of backups ClickHouse may write (external, from the format the reader
expects), and the reader's `resolveRawFile` and index scan as functions of them.
A checksum is the content itself: equal checksums mean equal content. The names of
an index are numbered in order, and those of a part are adjacent, as in every index
that `scanIndex` accepts. `Upload`
extends it: the backups are taken first, read, and forgotten when the uploads
begin, since a part's content plays no role any more.

### `LocalServer`: the ClickHouse process of a worker

`Start` with its readiness ping, `Stop` with its wait for the process and for the
pid file, restarts by the compactor, and the worker that goes on after a failed
cleanup. The process that is waited for may end at any time, with the server or
before it, and Stop may fail at any of its system calls. All servers of a worker
use one port. `outlived` remembers that a server was still alive when the stop at
the end of its part returned an error.

### MC modules and proofs

The `MC*` modules give small instances. The theorems are in `PartStoreProofs`,
`PipelineProofs`, `OperatorProofs`, `RewriteProofs` (with that of `LocalServer`),
`InsertProofs` (with that of `MergeWait`), `CompactorProofs`, `ImporterProofs` and
`UploadProofs` (with those of `TaskPool` and `Backup`), each of which extends the
modules it is about.

## Runs

| run | config | shows |
|---|---|---|
| `store` | `MCPartStore.cfg` | with arbitrary callers: `TypeOK`, `ExactlyOnce`, `Provenance`, `Ownership`, `ArtifactKept`, `FinalizationHonoured`, and the store implements `Ledger` (`LedgerSpec`) |
| `pipeline` | `MCPipeline.cfg` | under any one of ten kinds of disturbance the workers implement `StoreSpec`, so all of the above holds for them; no part is worked on twice at a time (`PipelineInv`); `EveryJobSettles`, `NoStuckCompaction` |
| `merge` | `MCMerge.cfg` | `SiblingsMerged`: with the window open, two unmerged artifacts that one batch could merge are never both handed out; `PipelineInv` under lock contention |
| `shutdown` | `MCShutdown.cfg` | ends in a violation: the finding below |
| `operator` | `MCOperator.cfg` | the commands, interrupted anywhere, beside a worker and an importer: owners and artifacts stay right (`OperatorInv`), no data is lost or doubled (`HeldOnce`), `ResetStaysPossible`, `MaintenanceDefined`, `OfferedMeansRewritten`, `RetryReturnsToFailedStage`; until a row is `forced` or a completion overtakes a command (`raced`), as each property says |
| `insert_and_wait` | `MCMergeWait.cfg` | every row once at the end (`InsertInv`), completed chunks are kept (`DiscardsNoCompletedRow`); the wait keeps its hard cap, and idle and settled mean what they say as of the snapshot, with merges between the queries of a poll (`WaitInv`); both end (`WaitEnds`) |
| `compactor` | `MCCompactor.cfg` | nothing merges while the output is measured and frozen (`StableWhileMeasured`); the registered output is the uploaded one and failures have a cause (`CompactorInv`); merges restart with less fan-in (`RestartsLowered`); each compaction `Ends` |
| `rewrite` | `MCRewrite.cfg` | after crashes and retries an artifact is that of one attempt (`RewriteInv`); `StageMovesForward` and `ClaimSettles`, also with two workers on one part |
| `import` | `MCImport.cfg` | `AttachedOnce` with `-require-empty`; IMPORTED means attached, and one importer per row (`ImporterInv`); `CommandsEnd` |
| `upload` | `MCUpload.cfg` | a backup is read exactly (`BackupReadExactly`); registered parts keep the row and the objects they refer to while jobs are copied, chained and deleted at any time (`UploadInv`); `DerivedComplete` |
| `task_pool` | `MCTaskPool.cfg` | the pool implements `Tasks` (`TasksSpec`); it counts and reports what happened (`PoolInv`); `NothingLeaks` |
| `local_server` | `MCLocalServer.cfg` | `OwnServer` through failed starts, restarts and slow exits |

An invariant with a name in `Inv` is the conjunction of its module's type
invariant and of named parts, each stated and explained in the module.

`pipeline` uses the store's specification as a property: `StoreSpec` is the
abstract specification and the pipeline the detailed one; the state of the store
is part of the pipeline's state, so the mapping is the identity.

`merge` leaves out requests and retries of the operator, compactions that merge
nothing, late uploads and the end of the window: each of them hands artifacts out
unmerged on purpose, or brings new ones. `SiblingsMerged` speaks of artifacts that
hold one source part: the output of a merge may be smaller than its inputs and
fit beside an artifact that was handed out because they did not.

`ExclusiveWork` is not claimed of workers in `late`: one that outlives
its lease, or whose part an operator takes away, does overlap with its successor,
and then `ExactlyOnce` is what protects the data.

Deadlock is checked in `pipeline`, `merge`, `compactor` and `rewrite`, where
idle workers go on polling and a finished run stutters explicitly. The store by
itself, a finished command, a finished insert or wait, and a bounded number of
commands or jobs really stop.

## Bounds

- Two originals of one job (three in `merge`). Two rows are enough for a batch
  and for a fragmented artifact next to a normalized one; the third lets one
  artifact wait while the two others are compacted. The operations never look
  across jobs except to loop over them.
- Two workers: the races are between a worker and one that takes its rows.
- Two partitions, and shapes with no part, one part, one part in each of two
  partitions, and two parts in one partition: one for each class the scheduling
  columns tell apart. `pipeline` does without the second partition, `merge` uses
  sizes 1, 2 and 4 under a cap of 5, so that a sum can be below the cap, at it and
  beyond it, and a merge can shrink its inputs below it.
- `MaxArtifacts` is 2: the cap is reached as soon as a batch exists.
- `MaxFaults` is 1: one disturbance of any kind, at any point, next to all that
  workers do by themselves.
- Generations need no bound: every compaction uses up at least one live row or
  part.
- `operator`: one or two originals, one worker, and an effort of 4 (`MaxEffort`):
  a command takes 2, each step of a worker or the importer while a reset or a
  deletion is under way takes 1, and between commands they are free. That is
  enough for a compaction of a compaction, for an interrupted reset and its
  repetition, and for a claim and a completion within one reset or deletion:
  without `raced` TLC finds `HeldOnce`, `ResetStaysPossible`, `MaintenanceDefined`
  and `ArtifactStored` violated. The forcing commands are used in a job of one row.
- `insert_and_wait`: up to four rows, one to three chunks with and without
  remainder, two partitions, settings that can be halved once and settings at
  their floor; a poll interval that does not divide the deadlines, so that each
  is overshot; the clock runs two poll intervals past the maximum (`ClockBound`),
  in queries that take long or polls that fail.
- `compactor`: batches over two partitions, a fan-in that can be lowered once
  before it is exhausted, two memory failures.
- `rewrite`: two workers, two files, two attempts, so that an attempt may leave
  more files than the next one.
- `import`: three artifacts, two of which share a part name and one of which is
  empty; two importers and three commands, so that a failed import is repeated
  next to another one.
- `upload`: a job of two parts with its copy or its chain, or a job of one part
  with its copy and a copy of the copy, each deleted at any time, and one failure.
  Backups of up to three layers with contents that are
  prefixes of each other, so that each encoding (new, whole file in the base,
  prefix in the base) occurs at each layer.
- `task_pool`: three goroutines and four tasks. `local_server`: three parts with
  two restarts each, so that a server may outlive two successors.

Symmetry under permutation of the workers or parts is used in safety runs only.

## Fairness

`FairSpec` assumes weak fairness of what a running worker does by itself
(`WorkerStep`), of the maintenance record coming due, of the lease of an
abandoned row running out, and of the window running out. The first is the Go
scheduler and ClickHouse making progress; the others are clocks. Nothing is
assumed of uploads, importers, operators, crashes, failures, shutdowns or
restarts: a worker that stops may stay down. A single fault stops at most one
of the two workers, so one remains; with both down no job could settle.

The smaller modules assume the same of their goroutines: that a statement
returns (`InsertSelect`), that the polling loop goes on (`MergeWait`), that both
goroutines, merges and the deadline make progress (`Compactor`), that a running
command goes on (`Importer`), that each goroutine of the pool does (`TaskPool`).
`Rewrite` assumes strong fairness of a worker's steps, because the heartbeat,
which holds the same mutex, interrupts them again and again; Go's mutex hands
itself to a waiter that starves.

A row whose rewriting worker died counts as settled: IN_PROGRESS has no lease,
and docs/operations.md asks for an operator. A failed row likewise blocks its
job by design.

## Finding

**A shutdown can fail a batch** (`shutdown`, `cmd/partforge/main.go:2460`).
`CompactDeadline` runs under the context that SIGTERM cancels. Between the claim
and this query a shutdown therefore takes the error path: the batch is marked
FAILED, where docs/operations.md:132 has it released to COMPACT_READY. The FAILED
rows block the job's finalization until someone retries them.

## What the runs assume, and what happens otherwise

Some properties hold only of the use the runs make of the system. The modules
have constants or history variables for the other uses; this is what the code
does then.

- **No compact window** (`Windowed`, `internal/state/maintenance.go:155`). With
  `-compact-window=0`, maintenance finalizes all artifacts of an unblocked job as
  soon as none is fragmented, and skips the sibling test that
  docs/rewrite-flow.md:130 describes: `SiblingsMerged` needs a window.
- **A compaction without reduction** (fault `noreduce`,
  `cmd/partforge/main.go:2536`) finishes its input. docs/rewrite-flow.md:134 says
  the input is released to COMPACT_READY, lines 132 and 136 of the same page
  describe what the code does. `merge` leaves this fault out.
- **Forced rows** (`forced`; `internal/state/postgres.go:1943`, `2024`). The target
  of a retry is derived from timestamps. `retry-failed -force` leaves
  `compact_ready_at` behind and `reset-compact-timer` sets it on rows never
  rewritten: a failed rewrite can then be retried as a compaction.
- **Two commands at once** (one `Operator`; `internal/state/postgres.go:1863`).
  `retry-failed` applies a target computed from an older listing, and only checks
  that the row is still FAILED. With a second command in between the target can
  be that of an earlier failure.
- **Copied parts** (`Copied`, `cmd/partforge/main.go:6206`). For reset-compaction a
  part counts as rewritten if it has destination columns, which copied parts have
  from the start.
- **A reset after a failed import** (`cmd/partforge/main.go:6076`). A retried import
  leaves no trace, so the reset is allowed, with parts attached.
- **A reset or deletion that a completion overtakes** (`raced`,
  `cmd/partforge/main.go:4136`, `4185`). The commands delete the rows they listed
  by id, without comparing `updated_at`. A generated row that was listed and is
  compacted into another one before the deletion is deleted, but the new one stays
  with its contents, while unchanged originals below them go back to READY: the
  data is there twice. After `delete-parts` the new one is left without its inputs,
  and the next reset is refused. And `-delete-s3`, which runs after the rows are
  READY again, can remove an artifact that a fast worker has just uploaded.
  Completions of originals are harmless: their `updated_at` is compared. The
  documentation does not ask for workers to rest.
- **Deleting superseded originals** (`DeleteStatus`,
  `internal/state/maintenance.go:151`). After `delete-parts -status SUPERSEDED` in a
  job that still compacts, the outputs have no original with a compact-ready
  timestamp; once the job is ready, maintenance fails with an error, for all jobs.
- **Merges around the last poll of a wait** (`internal/rewrite/processor.go:1774`,
  `1837`). Idle and settled are judged by the snapshot of the poll. A merge that
  ends after it changes the table before the wait returns, even between the
  snapshot and the list of parts that the settled verdict also rests on; the part
  statistics of the result are then out of date (they are logged, and the output is
  measured again later). Each query may take any time, and the deadlines are
  compared with the time noted after the first: the queries' own time comes on
  top of the hard cap.
- **An observer that fails** (`internal/rewrite/compact_progress.go:100`). A compaction
  whose observer cannot read or report progress is cancelled and its batch marked
  FAILED (`cmd/partforge/main.go:2526`); docs/rewrite-flow.md:136 has such failures
  "cancel and release the batch". It is released to COMPACT_READY only when
  a shutdown was requested as well. The model has it as the code does.
- **Memory failure at the floor** (`compact_progress.go:58`) ends the wait and keeps
  the output, where docs/rewrite-flow.md:95 has the compaction fail.
- **Merge waits short of memory** (`pressure`, `processor.go:1765`). The hard cap is
  not looked at as long as polls fail for lack of memory.
- **Two imports at once** (`overlapped`; `importer.go:81`, `111`). Both may find the
  table empty, and they share numbered work directories.
- **Jobs still being uploaded** (`overlapped`; `cmd/partforge/main.go:1433`,
  `4333`). A chain takes the parts registered so far; a deletion removes sources
  registered after its listing, even if copied.
- **A server that does not stop** (`outlived`, `cmd/partforge/main.go:2171`). Stop
  returns an error when its waits run out, when the process it waits for ends in
  another way than by SIGTERM (`server.go:434`: the pid file is not looked at then),
  or when a system call fails. After a part the worker goes on all the same, and a
  server that is still there answers the next one's readiness ping.

## Proofs

TLC checks the runs' instances. The theorems below hold for every value of the
constants that meets the assumption named in the module (`ConstantAssumption`,
`PipelineAssumption`, ...), and for behaviours of any length. The assumptions only say
what the constants are: types, that "no worker" is not a worker, that limits are not
zero where the code's are not, that the pool has no more goroutines than tasks (which
`processTasksInParallel` sees to), that the files of a part are adjacent in a backup's
index (which is sorted, or `scanIndex` refuses it). TLC evaluates them in the runs.

| module | theorem | statement |
|---|---|---|
| `PartStoreProofs` | `TypeCorrect` | `StoreSpec => []TypeOK` |
| | `SourcesExactlyOnce` | `StoreSpec => []ExactlyOnce` |
| | `ProvenanceForest` | `StoreSpec => []Provenance` |
| | `OwnershipKept` | `StoreSpec => []Ownership` |
| | `ArtifactsKept` | `StoreSpec => []ArtifactKept` |
| | `RequestsHonoured` | `StoreSpec => FinalizationHonoured` |
| | `StoreImplementsLedger` | `StoreSpec => LedgerSpec` |
| `PipelineProofs` | `PipelineImplementsStore` | `Spec => StoreSpec` |
| | `WorkersExclusive` | `Spec => []PipelineInv` |
| | `SiblingsLeftToMerge` | `Undisturbed` implies `Spec => []SiblingsMerged` |
| | `PipelineKeepsSources`, `PipelineHonoursRequests`, `PipelineImplementsLedger` | `Spec => []ExactlyOnce`, `FinalizationHonoured`, `LedgerSpec` |
| `OperatorProofs` | `CommandsKeepRowsRight` | `Spec => []OperatorInv` |
| | `SourcesHeldOnce` | `Restrained` implies `Spec => []HeldOnce` |
| | `ResetsStayPossible` | `Restrained` implies `Spec => []ResetStaysPossible` |
| | `MaintenanceStaysDefined` | `Sequential` implies `Spec => []MaintenanceDefined` |
| | `OffersAreRewritten` | `Sequential` implies `Spec => []OfferedMeansRewritten` |
| | `RetriesReturn` | `Sequential` implies `Spec => RetryReturnsToFailedStage` |
| `RewriteProofs` | `ArtifactOfOneAttempt` | `Spec => []RewriteInv` |
| | `StagesMoveForward` | `Spec => StageMovesForward` |
| | `WorkerTalksToItsServer` | `ServerSpec => []OwnServer` |
| `InsertProofs` | `InsertsEveryRowOnce` | `Spec => []InsertInv` |
| | `RetriesKeepPromotedRows` | `Spec => DiscardsNoCompletedRow` |
| | `WaitsEndForTheirReason` | `Spec => []WaitInv` |
| `CompactorProofs` | `MeasuredTableIsStable` | `Spec => []StableWhileMeasured` |
| | `CompactionReportsWhatItDid` | `Spec => []CompactorInv` |
| | `RecoveryLowersFanIn` | `Spec => RestartsLowered` |
| `ImporterProofs` | `PartsAttachedOnce` | `Spec => []AttachedOnce` |
| | `ImportsAreComplete` | `Spec => []ImporterInv` |
| `UploadProofs` | `ReferencesKept` | `Spec => []UploadInv` |
| | `DerivedJobsComplete` | `Spec => []DerivedComplete` |
| | `PoolReportsTheTruth` | `PoolSpec => []PoolInv` |
| | `PoolImplementsTasks` | `PoolSpec => TasksSpec` |
| | `BackupsAreReadExactly` | `Spec => []BackupReadExactly` |

Each safety theorem rests on an inductive invariant, which TLC has checked on the
module's run as well. A proof module first defines it, part by part; then comes
one lemma per action, with a step for each part the action can disturb.

**The store** (`Inv`, the conjunction of the five invariants). They hold each other
up, so they are proved together. `ExactlyOnce` needs `Provenance` to know that the
inputs of a batch are live and its output id is new; `Provenance` needs that no
operation changes the generation of a row or brings a superseded row back, which
holds because rows with an artifact are never rewritten (`ArtifactKept`) and
because a row's owner and status agree (`Ownership`). Almost every operation only
changes the status and bookkeeping of existing rows. The proof isolates this: a
*quiet* step keeps the domain, the lineage columns and the liveness of every row,
and each new row is well formed (`Follows`); `QuietPreserves` shows once that a
quiet step keeps `Inv`. The lemmas named after operations show that each one is
quiet. The two that are not, `CreatePart` and `CompleteCompaction`, have proofs of
their own. `StepKinds` splits `StoreNext` into these cases and `NextInv` combines
them. `RequestsHonoured` uses `Inv` and one lemma per way a row leaves COMPACTING.

**The ledger.** A holding is the lineage and phase of a live row. The mapping needs
two more facts (`Mapped`): every row holds some source, so that different rows are
different holdings, and a row being imported remembers it, so that it stays closed
when its import fails. Then a quiet step leaves holdings alone or closes some
(`AdvancesClose`), and `CreatePart`, `CompleteCompaction` and `MarkImported` register,
merge and import.

**The workers** (`PInv`). Each action of a worker, the importer or an operator is
shown to be a step of the store or to leave the table alone, which gives
`PipelineImplementsStore` and with it everything proved of the store. Two places
need an invariant for this: the summaries a worker carries from one statement to
the next are summaries (`ScansRead`), however old, and windows run out only if
configured (`WindowsRun`). `ExclusiveWork` follows from `Owning`: a worker at work
that has not been robbed (`late`) owns each row of its batch, in the status of its
work and with a lease that has not run out; a row has one owner.

**Siblings** (`MergeInv`). `SiblingsLeftToMerge` holds under `Undisturbed`: there is a
window, batches of two or more artifacts are allowed, and none of the disturbances
that `merge` leaves out occurs; crashes, shutdowns, failures, refused protection,
slow workers, lock contention and imports may, any number of times. The invariant
says of each artifact that is done, and of each other row of its job, that the row
is not a partner and will not become one (`Apart`, `NoPartner`): it is not to be
rewritten any more, and if it is an unmerged artifact of the same partition it is
too large, or fragmented and no longer in compaction. Most steps hand over nothing
and make no row more of a partner than it was (`Harmless`). Two need an argument of
their own. A compaction brings a new row: unless it merges, it has one input, which
is fragmented (`BatchesChosen`), and that input was already no partner
(`ReductionMoves`). And maintenance decides with a summary that may be out of date:
what it says of the rewrites is not, because uploads end before the first rewrite
and no row goes back to READY once it has an artifact (`SummariesHold`); everything
else is decided on the rows as they are at the commit (`MaintenanceApart`).

**Operators' commands** (`OInv`). Any number of operators give any commands, forced
ones too, with any uses of `set-part-state` and `delete-parts`. Rows are well formed
whatever rows they refer to, since those may have been deleted (`RowsWellFormed`).
`ArtifactStored` speaks of the statuses that offer an artifact, and a row may be
set to one of them from any other; so the invariant says that a row with statistics
has its artifact in any status (`Kept`), which holds because everything that makes a
row READY clears its statistics. The commands that delete objects delete rows or
reset them to READY before: a prefix that a command is still to delete belongs to
a row that is pending in it, or that has no statistics any more (`Spares`). Between
the reset of a row and the deletion of its prefix a worker could rewrite it, and
the command would delete the new artifact; from then on (`raced`) nothing is claimed
of objects, which is why `Kept` and `Spares` are stated for `Calm`. A step that
creates no row and lets each one take the place of what it was (`Succeeds`) keeps all
of this (`MovingKeeps`); each operation of a worker or a command is shown to be one,
except `RewriteDone`, `CompactionDone`, `ResetOriginalPart` and the deletions.

**What the rows hold** (`LInv`). `HeldOnce` and `ResetStaysPossible` are about rows
and the rows they refer to, and are proved for any number of operators beside workers
that do not rest, under `Restrained`: no `delete-parts -status SUPERSEDED`,
`set-part-state` not from SUPERSEDED and to READY only from READY and IN_PROGRESS, and
compaction outputs whose hashed id is not that of an original. With the other uses
they are false: a superseded row set to FINISHED is imported beside the row made of
it. What refers to one row (`RowsRight`, `Fits`) holds whoever overtakes whom; what
relates rows (`Lineages`, `DeletesFit`) holds until a completion replaces rows listed
for deletion (`Unraced`). The invariant `Lineages` says that a row is of the kind its
id says (`RowsRight`), that the inputs of an output are there, superseded by it, of a
smaller generation, and together hold what it holds (`Linked`), that every source is
held once (`Held`), and that an output has superseded an original of its job
(`Rooted`). Generations grow, so no output is made of itself, whatever chain of
compactions led to it (`NoCycle`). The other half says that what a command has listed
still suits the rows when it comes to them (`Fits`). `delete-parts` deletes every row
or live rows only, so that no row that is left refers to a deleted input. A reset
deletes all outputs before it resets originals (`DeletesFit`), so that originals that
are live again are not held twice. `set-part-state` compares `updated_at`, so that the
status it read is the status it finds (`SettingsFit`); a retry compares the status
alone, and only originals are retried to READY (`RetriesFit`). A compaction beside a
reset makes a row the reset has not listed. Without a race its inputs are originals,
or rows the reset had not listed either: the originals it holds have then been changed
since the listing, so that the reset will not make them live again, and it shares none
with the rows the reset deletes (the second half of `DeletesFit`). Most steps advance
rows in place (`Advances`), which keeps `Lineages` (`AdvancingKeeps`); a compaction, a
deletion and a reset have arguments of their own.

**How far a row has come** (`SInv`). The code tells where a failed row failed by two
timestamps, and whether an original was rewritten by its description in S3. The
invariant `Staged` says that they tell the truth: it fixes the timestamps of every
stage, of the stage a row failed in too (`Timed`), and says that what is beyond the
rewrite, and what is described, has been rewritten. The other half is about what the
command has listed (`Listed`): failed rows are still failed, with the target that
their timestamps give, and what reset-compaction is going to offer is described. This
is where `Sequential` is needed, `Restrained` use by one operator at a time: a retry
compares the status alone, and when a second operator has retried the row and it has
failed elsewhere since, the first puts it where it failed before. `Sequential` also
leaves failed rows to `retry-failed`, has `set-part-state` set rows that are not
rewritten to READY only, and excludes originals whose description was copied into the
job (`Copied`). A step moves every row from its stage to another (`MovesTo`),
completes it, or resets it together with its description (`Settles`). That
maintenance finds an original timestamp for outputs, too, follows from `Rooted`: the
original they superseded has it. The constants of `MCOperator.cfg` satisfy both
`Restrained` and `Sequential`. `MaintenanceStaysDefined` does not cover the deletion of
SUPERSEDED originals, which `Restrained` excludes and which does break it.

**The rewrite** (`RInv`). That an artifact is that of one attempt needs to know, for
the owner's attempt, how far it has replaced what earlier attempts left: at
deletion all stored objects are still to be deleted or gone, during the upload the
stored objects are those of this attempt that are done (`Replacing`). Without
overlap only the owner works (`Alone`), and an empty output is never uploaded
(`EmptyStays`). That a heartbeat does not turn the stage back rests on the mutex:
what it is about to write is where the processor still is (`BeatsCurrent`).

**The insert** (`NInv`). The theorems are about `MergeWait`'s `Spec`, which contains
the insert. `Positioned` says at which range the loop is, in closed form
(`StartOf`), `Contents` what the two tables hold at each place of the loop, for
every row. The arithmetic is in lemmas of its own: ranges are adjacent and end at
the last row (`Ranges`), and those of a split source have at least the configured
minimum (`LongEnough`), from division with remainder.

**The merge wait** (`WInv`). That a wait which gives up as idle, or as settled, has
seen an unchanged table rests on snapshots, which are three numbers and not the table.
The invariant `Timed` says why they suffice: a finished merge costs a part, so that a
table that has changed since a timer was started has fewer parts than the snapshot
kept with that timer (`FewerSince`, `MergedFewer`), and no later merge brings them
back. Parts are counted as the cardinality of a set of numbered parts (`Parts`), for
which the library has theorems; the sum of the bytes is not needed. `PairHeld` says
that the parts being merged are still there, so that a merge cannot finish without
them. `Listing` carries the quiet time that the snapshot has shown over to the query
that lists the parts, during which merges may end. Settled above `MinParts` means that
the two smallest parts of no larger partition fit the target, hence no two parts of it
do (`NothingMergeable`).

**The compaction** (`CInv`). `Quiet` keeps the observer within the wait and merges
off from the pause to the upload, `Recovering` says that a recovery that has begun
lowers the fan-in, `Causes` why a wait may have ended, and `Results` that no
partition is lost on the way. The number of parts is a fold; nothing is needed of
it but that it is the same for the same table.

**The import** (`IInv`). `Working` says where each part of the current artifact is:
packed, unpacked, in `detached` or attached; `Unattached` that what is still to be
done is not in the table; `Sole` that commands that do not overlap run one at a
time; `Counted` that a command does not run out of numbered work directories.

**Jobs and their references** (`UInv`). One half holds whatever commands do
(`Always`). A row names the objects of the row it refers to, or its own
(`OwnSources`), and what a copy has listed does the same (`CopiesRefer`), so that a
reference is never to a row that is itself a reference. Nothing refers to a row that
a deletion has locked (`LocksHold`): `CreatePart` waits for that lock, and
`LockSelection` refuses if it comes too late. Hence `OwnerKept`. The other half
(`Orderly`) holds as long as no job is listed while its upload runs (`~overlapped`):
a deletion knows all rows of its job and a derived job reads one that is complete
(`Sequential`), the source objects are there unless a deletion is between erasing and
its commit, or broke off (`ObjectsThere`), and every part of the job read is
registered, about to be, or empty (`Covers`). `ErasedUnused` joins the two: objects
below the prefix of a locked job belong to listed rows only. A creation that moves on
(`CreateMoves`) and a deletion that does (`DeleteMoves`) are treated once each;
`CreatePart`, `Rewrite` and `Commit`, which change rows, have proofs of their own.

**The pool** (`TInv`). Results counted or on their way are those of tasks done
(`Counted`); while nothing is cancelled nothing is lost (`NothingLost`); whoever
cancels leaves a reason the caller finds (`Explained`). From these: when all workers
have returned and there is neither an error nor a cancelled context, all tasks were
counted, so the last-resort error is unreachable (`StoppedImpossible`). For
`PoolImplementsTasks`, `Feed` is `Start`, `ProcessOK` and `ProcessFails` are `Finish`,
`Incomplete` and `Drained` are `Return`, and all else is invisible; a goroutine that
waits for a task leaves room below the bound (`RoomForOne`).

**The backup reader** (`BackupKept`). The invariant is about what ClickHouse writes:
each layer is a legal encoding of some content on top of the next layer (`Chained`).
Each step keeps it; TLC checked it with bounded encodings. The rest is about one
state: what the reader's functions compute from such a chain. They are recursive
functions, over the names of an index (`ScanTable`), down the layers (`Matches`), up
again (`ResolvedBelow`) and along the segments of a file (`FlattenSeq`), and each is
treated the same way. First the recursion equation is shown to have a solution
(`ScanEquation`, `MatchesEquation`, `ResolvedEquation`, `JoinEquation`), then the
property, both by induction. The library's induction theorems are for operators;
`Induction` states it for a set in the place of the predicate, and follows from the
least element of a set of naturals. Along the scan, `ScanRight` says that the parts
handed out are whole and that none of their names is to come, because an index is
sorted (`scanIndex` refuses others) and a part's names are adjacent. On the way down,
what is asked of a layer are contents its index has (`RequiredListed`); on the way up,
the segments of each match download to its checksum (`LayersRight`), the base's prefix
first and then the file's own data (`RawFileRight`).

**The local server** (`ServerInv`). `OwnServer` is not inductive: that no other server
listens follows from where every server has been put and how it ends. `ServerInv`
says which servers exist (`Processes`), that the server `Stop` waits for has its lock
in the directory of the part (`InItsDirectory`), and that, unless one outlived its
part, only the last server is alive, and none when the worker starts another
(`OnlyLast`).

Only model-checked are the liveness properties, which need fairness and `ENABLED`:
`EveryJobSettles`, `NoStuckCompaction`, `WaitEnds`, `Ends`, `ClaimSettles`,
`CommandsEnd` and `NothingLeaks`. Every invariant and every other action property of
the passing runs is stated by a theorem.

## What is not modelled

- *Schema migrations* (`internal/state/migrations.go`): each is one transaction
  that takes an advisory lock before it reads the version, so that they run one
  after the other; what they do is SQL text.
- *Resource tuning* (`internal/resources`): arithmetic from detected CPU and
  memory to ClickHouse settings whose effect is ClickHouse's. The halving after
  errors is in `InsertSelect` and `Compactor`.
- *S3 copy* (`internal/s3copy`): runs `s5cmd` and retries it. The modules take an
  upload or deletion of several objects as steps that may end half-way.
- *DDL rewriting*, the *frozen part scan*, the *HTTP client*, the *archive format*
  and *metrics and displays*: text, directories, single requests and bytes, with
  no state that the pipeline depends on.
- In the backup reader: XML, path checks, the walk along the locators of base
  backups with its check for cycles, and the errors of `backup.go:385`-`393` for
  partitions that were asked for and are missing, for a table without metadata and
  for one without parts: a table of which nothing is selected is read as empty in
  the model, where the code refuses it.
- In `upload-chain`: superseded and generated rows, which `selectChainSourceParts`
  passes over, and rows being imported or imported, which it takes like finished
  ones. A job in `Upload` is not compacted and not imported, so that its rows stand
  for the live ones.
- A worker that uploads an artifact after the deletion of its job, and what
  `upload-chain` reads from a job that is reset or deleted later; the
  documentation leaves the second to the operator.
- A statement whose request was cancelled and that goes on inside ClickHouse.
- `UpdateRewriteProgress` beyond stage and ownership: nothing decides by it.
- The claim filters by job, bucket or table: the workers leave them empty.
- A database error other than a refused update ends the worker: it is a crash.

## Plan

Done: the store, its ledger and the workers around it; the operators' commands;
the rewrite with its insert and merge wait; the compaction; the import; uploads,
copies, chains and deletions with their pool of goroutines; the backup reader;
the local server. Proved: every safety property of the passing runs, that is, the
invariants of the store, the workers, the rewrite with its insert and its merge wait,
the operators' commands with what they leave of a job's data and stages, the
compaction, the import, uploads and deletions, the pool, the backup reader and the
local server; that the workers implement the store, the store the ledger, and the pool
its tasks; that mergeable artifacts are not handed over apart.

Next, in this order:

1. *Lease with clocks*: `updated_at`, `compacting_at` and the window as numbers,
   to justify `leaseExpired` and `windowExpired`.
2. *Backup chain*: the walk along base backups with its check for cycles.
