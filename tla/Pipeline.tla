------------------------------ MODULE Pipeline ------------------------------
(***************************************************************************)
(* The worker processes of partforge (runWorker and runWorkerCompaction in *)
(* cmd/partforge) working on the store, with what surrounds them: uploads, *)
(* the importer, the operator, time, and the ways a worker stops.          *)
(*                                                                         *)
(* A worker's control state is the place between two calls of the store.   *)
(* All the store's calls are one step, except maintenance and the job      *)
(* finalization, whose two statements run under READ COMMITTED: the job    *)
(* summaries are read in one step and used in another.  In between, the    *)
(* maintenance transaction keeps the stale rows it releases locked.        *)
(*                                                                         *)
(* A commit whose answer is lost is a crash right after it.                *)
(***************************************************************************)
EXTENDS PartStore

CONSTANTS
  InsertRole,    \* workers that rewrite
  CompactRole,   \* workers that compact
  Faults,        \* what may go wrong, and which outsiders take part
  MaxFaults      \* bound: how many times something goes wrong

FaultKind == {"crash", "shutdown", "fail", "protect", "slow", "noreduce", "contention",
              "window", "upload", "finalize", "retry", "import"}

ASSUME PipelineAssumption ==
  /\ InsertRole \subseteq Worker
  /\ CompactRole \subseteq Worker
  /\ Faults \subseteq FaultKind
  /\ MaxFaults \in Nat

VARIABLES
  pc,             \* where each worker is
  batch,          \* the parts it works on
  shutdown,       \* has it been asked to stop?
  scan,           \* what its open maintenance transaction has read
  late,           \* ghost: workers whose parts were taken away at work
  maintenanceDue, \* next_run_at of the maintenance record has passed
  budget          \* faults left

workerVars == <<pc, batch, scan, late>>
vars == <<rows, windowExpired, workerVars, shutdown, maintenanceDue, budget>>

PC == {"idle", "rewriting", "maintain", "maintaining", "claiming", "claimed",
       "compacting", "finalizing", "scanned", "down"}

NoScan == [stale |-> {}, summary |-> <<>>]

\* Rows locked by open maintenance transactions.
Locked == UNION {scan[w].stale : w \in Worker}

Unlocked(B) == B \cap Locked = {}

\* Something goes wrong, once more.
Occurs(f) ==
  /\ f \in Faults
  /\ budget > 0
  /\ budget' = budget - 1

\* Worker w continues at l with the parts B and no open transaction; at "down"
\* its process has ended.
Continue(w, l, B) ==
  /\ pc' = [pc EXCEPT ![w] = l]
  /\ batch' = [batch EXCEPT ![w] = IF l = "down" THEN {} ELSE B]
  /\ scan' = [scan EXCEPT ![w] = NoScan]
  /\ late' = IF B = batch[w] THEN late ELSE late \ {w}

\* The process ends: it holds no lock any more, and its rows stay as they are.
Exit(w) == Continue(w, "down", {})

Running(w, l) == pc[w] = l /\ ~shutdown[w]

JobOfBatch(w) == rows[CHOOSE p \in batch[w] : TRUE].job

-----------------------------------------------------------------------------
(* Rewriting.                                                              *)

ClaimReady(w) ==
  /\ Running(w, "idle") /\ w \in InsertRole
  /\ \E p \in DOMAIN rows : ClaimNextReady(w, p) /\ Continue(w, "rewriting", {p})
  /\ UNCHANGED <<shutdown, maintenanceDue, budget>>

NoReadyPart(w) ==
  /\ Running(w, "idle") /\ w \in CompactRole
  /\ \/ w \notin InsertRole
     \/ ~ \E p \in DOMAIN rows : rows[p].status = "READY"
     \/ "contention" \in Faults   \* another claimer holds it locked
  /\ Continue(w, "maintain", {})
  /\ UNCHANGED <<storeVars, shutdown, maintenanceDue, budget>>

\* Mutant: the result of a rewrite is written whoever owns the row now.
RewriteDoneUnowned(w) ==
  /\ Running(w, "rewriting")
  /\ \E p \in batch[w], s \in Shape : rows' = [rows EXCEPT ![p] = RewrittenRow(rows[p], s)]
  /\ Continue(w, "idle", {})
  /\ UNCHANGED <<windowExpired, shutdown, maintenanceDue, budget>>

RewriteDone(w) ==
  /\ Running(w, "rewriting")
  /\ \E p \in batch[w], s \in Shape : MarkCompactReady(w, p, s)
  /\ Continue(w, "idle", {})
  /\ UNCHANGED <<shutdown, maintenanceDue, budget>>

RewriteFails(w) ==
  /\ Running(w, "rewriting") /\ Occurs("fail")
  /\ \E p \in batch[w] : MarkFailed(w, p)
  /\ Exit(w)
  /\ UNCHANGED <<shutdown, maintenanceDue>>

\* On shutdown, even if the rewrite has just succeeded, and when ECS refuses
\* to protect the task.
RewriteReleased(w) ==
  /\ pc[w] = "rewriting"
  /\ \/ shutdown[w] /\ UNCHANGED budget
     \/ Occurs("protect")
  /\ \E p \in batch[w] : ReleaseInProgress(w, p)
  /\ Exit(w)
  /\ UNCHANGED <<shutdown, maintenanceDue>>

\* The row was taken away: whatever the worker tries, its update fails.
RewriteLost(w) ==
  /\ pc[w] = "rewriting"
  /\ \E p \in batch[w] : ~InProgressOwned(rows[p], w)
  /\ Exit(w)
  /\ UNCHANGED <<storeVars, shutdown, maintenanceDue, budget>>

-----------------------------------------------------------------------------
(* Maintenance.                                                            *)

Maintaining == \E w \in Worker : pc[w] = "maintaining"

\* Mutant: maintenance does not look for stale leases.
MaintainScanNoStale(w) ==
  /\ Running(w, "maintain") /\ maintenanceDue /\ ~Maintaining
  /\ pc' = [pc EXCEPT ![w] = "maintaining"]
  /\ scan' = [scan EXCEPT ![w] = [stale |-> {}, summary |-> [j \in Job |-> JobSummary(rows, j)]]]
  /\ UNCHANGED <<storeVars, batch, late, shutdown, maintenanceDue, budget>>

\* The reservation, the locks on the stale rows and the job summaries.
MaintainScan(w) ==
  /\ Running(w, "maintain") /\ maintenanceDue /\ ~Maintaining
  /\ pc' = [pc EXCEPT ![w] = "maintaining"]
  /\ scan' = [scan EXCEPT ![w] =
                [stale |-> Stale,
                 summary |-> [j \in Job |-> JobSummary(ReleasedStale(rows, Stale), j)]]]
  /\ UNCHANGED <<storeVars, batch, late, shutdown, maintenanceDue, budget>>

MaintainCommit(w) ==
  LET released == ReleasedStale(rows, scan[w].stale)
  IN /\ Running(w, "maintaining")
     /\ MaintainCompaction(scan[w].stale, scan[w].summary)
     /\ maintenanceDue' = FALSE
     /\ Continue(w, IF rows' # released THEN "idle" ELSE "claiming", {})
     /\ UNCHANGED <<shutdown, budget>>

SkipMaintenance(w) ==
  /\ Running(w, "maintain") /\ (~maintenanceDue \/ Maintaining)
  /\ Continue(w, "claiming", {})
  /\ UNCHANGED <<storeVars, shutdown, maintenanceDue, budget>>

-----------------------------------------------------------------------------
(* Compaction.                                                             *)

\* Rows that transactions of the moment may hold locked while w claims.
MayBeLocked == IF "contention" \in Faults THEN SUBSET Claimable ELSE {{}}

ClaimCompact(w) ==
  /\ Running(w, "claiming")
  /\ \E locked \in MayBeLocked : \E B \in CompactBatches(locked) :
       ClaimNextCompactBatch(w, B, locked) /\ Continue(w, "claimed", B)
  /\ UNCHANGED <<shutdown, maintenanceDue, budget>>

ClaimNothing(w) ==
  /\ Running(w, "claiming")
  /\ \E locked \in MayBeLocked : NothingToClaim(locked)
  /\ Continue(w, "idle", {})
  /\ UNCHANGED <<storeVars, shutdown, maintenanceDue, budget>>

\* markCompactBatchFailed, after which the worker exits even if it failed.
FailBatch(w) ==
  /\ Unlocked(batch[w])
  /\ IF \A p \in batch[w] : rows[p].status = "COMPACTING" /\ rows[p].worker = w
     THEN MarkCompactBatchFailed(w, batch[w])
     ELSE UNCHANGED storeVars
  /\ Exit(w)

\* Release the batch and continue at l, or exit when a row of it is lost.
ReleaseBatch(w, finalize, l) ==
  /\ Unlocked(batch[w])
  /\ IF \A p \in batch[w] : CompactOwnedOrUnownedReady(rows[p], w)
     THEN ReleaseCompactBatch(w, batch[w], finalize) /\ Continue(w, l, batch[w])
     ELSE UNCHANGED storeVars /\ Exit(w)

\* The deadline query runs under the context that a shutdown cancels.
DeadlineFails(w) ==
  /\ pc[w] = "claimed" /\ shutdown[w] /\ Windowed
  /\ FailBatch(w)
  /\ UNCHANGED <<shutdown, maintenanceDue, budget>>

ProtectionFails(w) ==
  /\ pc[w] = "claimed" /\ Occurs("protect")
  /\ ReleaseBatch(w, FALSE, "down")
  /\ UNCHANGED <<shutdown, maintenanceDue>>

StartCompaction(w) ==
  /\ pc[w] = "claimed" /\ (Windowed => ~shutdown[w])
  /\ ~windowExpired[JobOfBatch(w)]
  /\ Continue(w, "compacting", batch[w])
  /\ UNCHANGED <<storeVars, shutdown, maintenanceDue, budget>>

\* The window ran out between the claim and the start.
TooLate(w) ==
  /\ Running(w, "claimed") /\ windowExpired[JobOfBatch(w)]
  /\ ReleaseBatch(w, FALSE, "finalizing")
  /\ UNCHANGED <<shutdown, maintenanceDue, budget>>

\* A heartbeat or progress write that takes back a row released meanwhile; one
\* on a row the worker still owns changes nothing here.
Heartbeat(w) ==
  /\ pc[w] = "compacting"
  /\ \E p \in batch[w] : /\ rows[p].status = "COMPACT_READY"
                         /\ HeartbeatCompactPart(w, p)
  /\ UNCHANGED <<workerVars, shutdown, maintenanceDue, budget>>

Reduced(w) ==
  /\ pc[w] = "compacting" /\ Unlocked(batch[w])
  /\ \E s \in Reductions(batch[w]) : CompleteCompaction(w, batch[w], s)
  /\ Continue(w, "idle", {})
  /\ UNCHANGED <<shutdown, maintenanceDue, budget>>

\* Shutdown, the deadline and a finalization request end the wait for merges
\* early.  An error after a shutdown releases the batch too.
NotReduced(w) ==
  /\ pc[w] = "compacting"
  /\ \/ /\ \/ shutdown[w]
           \/ windowExpired[JobOfBatch(w)]
           \/ \E p \in batch[w] : rows[p].finalizeRequested
        /\ UNCHANGED budget
     \/ Occurs("noreduce")
  /\ ReleaseBatch(w, ~shutdown[w], IF shutdown[w] THEN "down" ELSE "finalizing")
  /\ UNCHANGED <<shutdown, maintenanceDue>>

CompactFails(w) ==
  /\ Running(w, "compacting") /\ Occurs("fail")
  /\ FailBatch(w)
  /\ UNCHANGED <<shutdown, maintenanceDue>>

\* Some row of the batch is neither owned nor free: every way to end the batch
\* is refused, and so is marking it failed.
BatchLost(w) ==
  /\ pc[w] = "compacting" /\ Unlocked(batch[w])
  /\ \E p \in batch[w] : ~CompactOwnedOrUnownedReady(rows[p], w)
  /\ Exit(w)
  /\ UNCHANGED <<storeVars, shutdown, maintenanceDue, budget>>

FinalizeScan(w) ==
  /\ pc[w] = "finalizing"
  /\ pc' = [pc EXCEPT ![w] = "scanned"]
  /\ scan' = [scan EXCEPT ![w].summary = [j \in {JobOfBatch(w)} |-> JobSummary(rows, j)]]
  /\ UNCHANGED <<storeVars, batch, late, shutdown, maintenanceDue, budget>>

FinalizeCommit(w) ==
  /\ pc[w] = "scanned"
  /\ FinalizeCompactReadyJob(JobOfBatch(w), scan[w].summary[JobOfBatch(w)])
  /\ Continue(w, "idle", {})
  /\ UNCHANGED <<shutdown, maintenanceDue, budget>>

\* A worker asked to stop exits between two pieces of work; the cancelled
\* context rolls an open maintenance transaction back.
Stop(w) ==
  /\ shutdown[w] /\ pc[w] \in {"idle", "maintain", "maintaining", "claiming"}
  /\ Exit(w)
  /\ UNCHANGED <<storeVars, shutdown, maintenanceDue, budget>>

-----------------------------------------------------------------------------
(* Everything around the workers.                                          *)

Shutdown(w) ==
  /\ pc[w] # "down" /\ ~shutdown[w] /\ Occurs("shutdown")
  /\ shutdown' = [shutdown EXCEPT ![w] = TRUE]
  /\ UNCHANGED <<storeVars, workerVars, maintenanceDue>>

Crash(w) ==
  /\ pc[w] # "down" /\ Occurs("crash")
  /\ Exit(w)
  /\ UNCHANGED <<storeVars, shutdown, maintenanceDue>>

\* A configured worker id survives a restart.
Restart(w) ==
  /\ pc[w] = "down"
  /\ Continue(w, "idle", {})
  /\ shutdown' = [shutdown EXCEPT ![w] = FALSE]
  /\ UNCHANGED <<storeVars, maintenanceDue, budget>>

MaintenanceTick ==
  /\ ~maintenanceDue
  /\ maintenanceDue' = TRUE
  /\ UNCHANGED <<storeVars, workerVars, shutdown, budget>>

Abandoned(p) == ~ \E w \in Worker : p \in batch[w] /\ rows[p].worker = w

TakenFrom(p) == late' = late \cup {w \in Worker : p \in batch[w]}

\* The lease of a row nobody works on runs out; that of a row still worked on
\* only when its worker takes longer than the lease.
LeaseRunsOut(p) ==
  /\ LeaseExpires(p)
  /\ IF Abandoned(p) THEN UNCHANGED <<late, budget>> ELSE Occurs("slow") /\ TakenFrom(p)
  /\ UNCHANGED <<pc, batch, scan, shutdown, maintenanceDue>>

WindowRunsOut(j) ==
  /\ "window" \in Faults
  /\ WindowExpires(j)
  /\ UNCHANGED <<workerVars, shutdown, maintenanceDue, budget>>

\* Uploads register a job's parts before any of them is rewritten, unless the
\* upload is still running when the workers start.
Upload(o) ==
  /\ "upload" \in Faults \/ \A p \in DOMAIN rows : rows[p].status = "READY"
  /\ CreatePart(o)
  /\ UNCHANGED <<workerVars, shutdown, maintenanceDue, budget>>

\* finalize-compaction and retry-failed
FinalizeCompaction(S) ==
  /\ S # {} /\ Occurs("finalize") /\ Unlocked(S)
  /\ RequestCompactFinalization(S)
  /\ UNCHANGED <<workerVars, shutdown, maintenanceDue>>

Retry(p) ==
  /\ Occurs("retry")
  /\ RetryFailedPart(p) \/ RetryInProgressPart(p)
  /\ TakenFrom(p)
  /\ UNCHANGED <<pc, batch, scan, shutdown, maintenanceDue>>

ImportStarts(p) ==
  /\ "import" \in Faults
  /\ MarkImporting(p)
  /\ UNCHANGED <<workerVars, shutdown, maintenanceDue, budget>>

ImportEnds(p) ==
  /\ \/ MarkImported(p) /\ UNCHANGED budget
     \/ (ReleaseImport(p) \/ MarkImportFailed(p)) /\ Occurs("import")
  /\ UNCHANGED <<workerVars, shutdown, maintenanceDue>>

-----------------------------------------------------------------------------
Init ==
  /\ StoreInit
  /\ pc = [w \in Worker |-> "idle"]
  /\ batch = [w \in Worker |-> {}]
  /\ shutdown = [w \in Worker |-> FALSE]
  /\ scan = [w \in Worker |-> NoScan]
  /\ late = {}
  /\ maintenanceDue = TRUE
  /\ budget = MaxFaults

Rewrite(w) == ClaimReady(w) \/ NoReadyPart(w) \/ RewriteDone(w) \/ RewriteReleased(w)
              \/ RewriteLost(w)

Maintain(w) == MaintainScan(w) \/ MaintainCommit(w) \/ SkipMaintenance(w)

Compact(w) == ClaimCompact(w) \/ ClaimNothing(w) \/ DeadlineFails(w) \/ StartCompaction(w)
              \/ TooLate(w) \/ Reduced(w) \/ NotReduced(w) \/ BatchLost(w)
              \/ FinalizeScan(w) \/ FinalizeCommit(w)

\* What a worker does by itself, and will do while it runs.
WorkerStep(w) == Rewrite(w) \/ Maintain(w) \/ Compact(w) \/ Stop(w)

\* What befalls it.
FaultStep(w) == RewriteFails(w) \/ CompactFails(w) \/ ProtectionFails(w) \/ Heartbeat(w)
                \/ Shutdown(w) \/ Crash(w) \/ Restart(w)

Next ==
  \/ \E w \in Worker : WorkerStep(w) \/ FaultStep(w)
  \/ MaintenanceTick
  \/ \E p \in DOMAIN rows : LeaseRunsOut(p) \/ Retry(p) \/ ImportStarts(p) \/ ImportEnds(p)
  \/ \E j \in Job : WindowRunsOut(j)
  \/ \E o \in Original : Upload(o)
  \/ \E S \in SUBSET DOMAIN rows : FinalizeCompaction(S)

\* A running worker goes on, time passes.
Fairness ==
  /\ \A w \in Worker : WF_vars(WorkerStep(w))
  /\ WF_vars(MaintenanceTick)
  /\ WF_vars(\E p \in DOMAIN rows : Abandoned(p) /\ LeaseRunsOut(p))
  /\ WF_vars(\E j \in Job : WindowRunsOut(j))

Spec == Init /\ [][Next]_vars
FairSpec == Spec /\ Fairness

-----------------------------------------------------------------------------
(* Properties.                                                             *)

\* Workers, their parts and their scans are of the right kind; a worker that
\* is down holds nothing.
PipelineTypeOK ==
  /\ pc \in [Worker -> PC]
  /\ \A w \in Worker : /\ batch[w] \subseteq DOMAIN rows
                       /\ batch[w] # {} <=> pc[w] \in {"rewriting", "claimed", "compacting",
                                                       "finalizing", "scanned"}
                       /\ scan[w].stale # {} => pc[w] = "maintaining"
  /\ shutdown \in [Worker -> BOOLEAN]
  /\ maintenanceDue \in BOOLEAN
  /\ budget \in 0 .. MaxFaults

\* The artifact has not been merged with another: it holds one source part.
Unmerged(r) == Live(r) /\ \A o1, o2 \in r.lineage : o1 = o2

\* While the window is open, two single-part artifacts of a partition that were
\* never merged and fit the byte cap together are not both handed to the
\* importer: finalization leaves them to be merged, also when the summaries it
\* decides with are stale and when claims, leases and compactions move rows
\* under it.  (A merge may shrink its inputs: its output may fit an artifact
\* that was handed over because none of the inputs did.)
SiblingsMerged ==
  \A p, q \in DOMAIN rows :
    LET done(r) == Unmerged(r) /\ PhaseOf(r) # "open" /\ Normalized(r)
    IN p # q /\ done(rows[p]) /\ done(rows[q]) /\ rows[p].job = rows[q].job
         /\ SamePartition(rows[p], rows[q])
       => ~FitsBytes(rows[p].shape.bytes + rows[q].shape.bytes)

\* Two running workers never work on the same part unless one of them has
\* outlived its lease or an operator took its part away: neither maintenance,
\* nor a restart under the same worker id, nor a heartbeat that takes a row back
\* breaks the exclusion.
ExclusiveWork ==
  \A v, w \in Worker \ late :
    v # w /\ {pc[v], pc[w]} \subseteq {"rewriting", "claimed", "compacting"}
    => batch[v] \cap batch[w] = {}

\* A job has nothing left to do, or waits for somebody to look at a failure or
\* at the rewrite of a worker that died.
Settled(j) ==
  \/ \E p \in DOMAIN rows :
       /\ rows[p].job = j
       /\ rows[p].status = "FAILED" \/ (rows[p].status = "IN_PROGRESS" /\ Abandoned(p))
  \/ \A p \in DOMAIN rows : rows[p].job = j => ~Live(rows[p]) \/ PhaseOf(rows[p]) # "open"

\* Every job settles for good while one worker of each role keeps running: no
\* artifact waits forever in COMPACT_READY, and no crash, lost lease or stale
\* summary leaves a row in COMPACTING.
EveryJobSettles == <>[](\A j \in Job : Settled(j))

\* No compaction is left behind: a row in COMPACTING gets out of it.
NoStuckCompaction == []<>(\A p \in DOMAIN rows : rows[p].status # "COMPACTING")

\* Stated by the operations guide (docs/operations.md:132): a worker asked to stop returns
\* its part to READY, or uploads its output, or releases its batch to COMPACT_READY.
\* With handled shutdowns as the only disturbance, no row ever fails.
ShutdownFailsNothing == \A p \in DOMAIN rows : rows[p].status # "FAILED"

\* What holds of the workers at all times: their state is well formed, and
\* runWorker and runWorkerCompaction never share a part between two of them.
PipelineInv == PipelineTypeOK /\ ExclusiveWork
=============================================================================
