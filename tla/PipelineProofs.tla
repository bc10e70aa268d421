--------------------------- MODULE PipelineProofs ---------------------------
(***************************************************************************)
(* Proofs about the workers and everything around them: each of their      *)
(* steps is an operation of the store or invisible to it, no two of them   *)
(* work on the same part, and artifacts that can be merged are not handed  *)
(* to the importer apart.                                                  *)
(***************************************************************************)
EXTENDS Pipeline, PartStoreProofs, FiniteSetTheorems

-----------------------------------------------------------------------------
(* The inductive invariant.                                                *)

Holding == {"rewriting", "claimed", "compacting", "finalizing", "scanned"}

\* A worker at work whose parts were not taken away owns them, under a lease
\* that has not run out.
HoldsBatch(w) ==
  \A p \in batch[w] :
    /\ rows[p].worker = w
    /\ ~rows[p].leaseExpired
    /\ rows[p].status = IF pc[w] = "rewriting" THEN "IN_PROGRESS" ELSE "COMPACTING"

Owning ==
  \A w \in Worker \ late : pc[w] \in {"rewriting", "claimed", "compacting"} => HoldsBatch(w)

\* The summaries a worker has read are summaries of jobs, however old.
ScansRead ==
  \A w \in Worker :
    /\ pc[w] = "maintaining" => scan[w].summary \in [Job -> SummaryType]
    /\ pc[w] = "scanned" => scan[w].summary[JobOfBatch(w)] \in SummaryType

\* Only a window that is configured runs out.
WindowsRun == \A j \in Job : windowExpired[j] => Windowed

\* Where the workers are: PipelineTypeOK, with the functions written out ...
Placed ==
  /\ pc \in [Worker -> PC]
  /\ batch \in [Worker -> SUBSET DOMAIN rows]
  /\ scan = [w \in Worker |-> scan[w]]
  /\ \A w \in Worker :
       /\ batch[w] # {} <=> pc[w] \in Holding
       /\ scan[w].stale # {} => pc[w] = "maintaining"
       /\ scan[w] = [stale |-> scan[w].stale, summary |-> scan[w].summary]

\* ... and what surrounds them.
Surroundings ==
  /\ shutdown \in [Worker -> BOOLEAN]
  /\ maintenanceDue \in BOOLEAN
  /\ budget \in 0 .. MaxFaults

PInv == Inv /\ Placed /\ Surroundings /\ Owning /\ ScansRead /\ WindowsRun

-----------------------------------------------------------------------------
(* Every step is a step of the store, or invisible to it.                  *)

\* A worker that holds parts holds registered ones, of one of the jobs.
LEMMA BatchJob ==
  ASSUME PInv, NEW w \in Worker, pc[w] \in Holding
  PROVE  batch[w] # {} /\ batch[w] \subseteq DOMAIN rows /\ JobOfBatch(w) \in Job
  <1>1. batch[w] # {} /\ batch[w] \subseteq DOMAIN rows
    BY DEF PInv, Placed
  <1>2. (CHOOSE p \in batch[w] : TRUE) \in DOMAIN rows
    BY <1>1
  <1>3. \A p \in DOMAIN rows : rows[p].job \in Job
    BY RowsOK DEF PInv, RowType
  <1> QED BY <1>1, <1>2, <1>3 DEF JobOfBatch

\* Whoever ends a batch as failed uses Store.MarkCompactBatchFailed.
LEMMA FailBatchIsStoreStep ==
  ASSUME NEW w \in Worker, FailBatch(w)
  PROVE  [StoreNext]_storeVars
  <1>1. CASE UNCHANGED storeVars
    BY <1>1
  <1>2. CASE MarkCompactBatchFailed(w, batch[w])
    BY <1>2 DEF StoreNext, CompactStep, MarkCompactBatchFailed
  <1> QED BY <1>1, <1>2 DEF FailBatch

\* Whoever releases one uses Store.ReleaseCompactBatch.
LEMMA ReleaseBatchIsStoreStep ==
  ASSUME NEW w \in Worker, NEW finalize \in BOOLEAN, NEW l, ReleaseBatch(w, finalize, l)
  PROVE  [StoreNext]_storeVars
  <1>1. CASE UNCHANGED storeVars
    BY <1>1
  <1>2. CASE ReleaseCompactBatch(w, batch[w], finalize)
    BY <1>2 DEF StoreNext, CompactStep, ReleaseCompactBatch
  <1> QED BY <1>1, <1>2 DEF ReleaseBatch

\* runWorker's calls.
LEMMA RewriteIsStoreStep ==
  ASSUME NEW w \in Worker, Rewrite(w) \/ RewriteFails(w)
  PROVE  [StoreNext]_storeVars
  <1>1. CASE NoReadyPart(w) \/ RewriteLost(w)
    BY <1>1 DEF NoReadyPart, RewriteLost
  <1>2. CASE \E p \in DOMAIN rows : RewriteStep(w, p)
    BY <1>2 DEF StoreNext
  <1>3. CASE ClaimReady(w)
    BY <1>2, <1>3 DEF ClaimReady, RewriteStep
  <1>4. CASE RewriteDone(w)
    BY <1>2, <1>4 DEF RewriteDone, RewriteStep, MarkCompactReady
  <1>5. CASE RewriteFails(w)
    BY <1>2, <1>5 DEF RewriteFails, RewriteStep, MarkFailed
  <1>6. CASE RewriteReleased(w)
    BY <1>2, <1>6 DEF RewriteReleased, RewriteStep, ReleaseInProgress
  <1> QED BY <1>1, <1>3, <1>4, <1>5, <1>6 DEF Rewrite

\* Maintenance commits with summaries that were read as one transaction began.
LEMMA MaintainIsStoreStep ==
  ASSUME PInv, NEW w \in Worker, Maintain(w)
  PROVE  [StoreNext]_storeVars
  <1>1. CASE MaintainScan(w) \/ SkipMaintenance(w)
    BY <1>1 DEF MaintainScan, SkipMaintenance
  <1>2. CASE MaintainCommit(w)
    <2>1. MaintainCompaction(scan[w].stale, scan[w].summary) /\ pc[w] = "maintaining"
      BY <1>2 DEF MaintainCommit, Running
    <2>2. scan[w].summary \in [Job -> SummaryType] /\ scan[w].stale \in SUBSET Stale
      BY <2>1 DEF PInv, ScansRead, MaintainCompaction
    <2>3. MaintenanceStep
      BY <2>1, <2>2 DEF MaintenanceStep
    <2> QED BY <2>3 DEF StoreNext
  <1> QED BY <1>1, <1>2 DEF Maintain

\* runWorkerCompaction's calls.
LEMMA CompactIsStoreStep ==
  ASSUME PInv, NEW w \in Worker, Compact(w) \/ CompactFails(w) \/ ProtectionFails(w) \/ Heartbeat(w)
  PROVE  [StoreNext]_storeVars
  <1>1. CASE ClaimNothing(w) \/ StartCompaction(w) \/ BatchLost(w) \/ FinalizeScan(w)
    BY <1>1 DEF ClaimNothing, StartCompaction, BatchLost, FinalizeScan
  <1>2. CASE ClaimCompact(w)
    <2>1. PICK locked \in MayBeLocked :
            \E B \in CompactBatches(locked) : ClaimNextCompactBatch(w, B, locked)
      BY <1>2 DEF ClaimCompact
    <2>2. locked \in SUBSET Claimable
      BY <2>1 DEF MayBeLocked
    <2>3. ClaimStep(w)
      BY <2>1, <2>2 DEF ClaimStep
    <2> QED BY <2>3 DEF StoreNext
  <1>3. CASE DeadlineFails(w) \/ CompactFails(w)
    BY <1>3, FailBatchIsStoreStep DEF DeadlineFails, CompactFails
  <1>4. CASE ProtectionFails(w)
    BY <1>4, ReleaseBatchIsStoreStep DEF ProtectionFails
  <1>5. CASE TooLate(w)
    BY <1>5, ReleaseBatchIsStoreStep DEF TooLate
  <1>6. CASE NotReduced(w)
    <2>1. (~shutdown[w]) \in BOOLEAN
      OBVIOUS
    <2> QED BY <1>6, <2>1, ReleaseBatchIsStoreStep DEF NotReduced
  <1>7. CASE Heartbeat(w)
    BY <1>7 DEF Heartbeat, HeartbeatCompactPart, StoreNext
  <1>8. CASE Reduced(w)
    <2>1. \E s \in Reductions(batch[w]) : CompleteCompaction(w, batch[w], s)
      BY <1>8 DEF Reduced
    <2>2. batch[w] \in SUBSET DOMAIN rows
      BY <2>1 DEF CompleteCompaction
    <2> QED BY <2>1, <2>2 DEF StoreNext, CompactStep
  <1>9. CASE FinalizeCommit(w)
    <2>1. pc[w] = "scanned" /\ FinalizeCompactReadyJob(JobOfBatch(w), scan[w].summary[JobOfBatch(w)])
      BY <1>9 DEF FinalizeCommit
    <2>2. JobOfBatch(w) \in Job /\ scan[w].summary[JobOfBatch(w)] \in SummaryType
      BY <2>1, BatchJob DEF PInv, ScansRead, Holding
    <2>3. MaintenanceStep
      BY <2>1, <2>2 DEF MaintenanceStep
    <2> QED BY <2>3 DEF StoreNext
  <1> QED BY <1>1, <1>2, <1>3, <1>4, <1>5, <1>6, <1>7, <1>8, <1>9 DEF Compact

\* Stops, crashes and the outsiders.
LEMMA NextIsStoreStep ==
  ASSUME PInv, [Next]_vars
  PROVE  [StoreNext]_storeVars
  <1>1. ASSUME NEW w \in Worker, Stop(w) \/ Shutdown(w) \/ Crash(w) \/ Restart(w)
        PROVE  UNCHANGED storeVars
    BY <1>1 DEF Stop, Shutdown, Crash, Restart
  <1>2. ASSUME NEW w \in Worker, WorkerStep(w) \/ FaultStep(w)
        PROVE  [StoreNext]_storeVars
    BY <1>1, <1>2, RewriteIsStoreStep, MaintainIsStoreStep, CompactIsStoreStep
    DEF WorkerStep, FaultStep
  <1>3. ASSUME NEW p \in DOMAIN rows, LeaseRunsOut(p)
        PROVE  StoreNext
    BY <1>3 DEF LeaseRunsOut, StoreNext, TimeStep
  <1>4. ASSUME NEW p \in DOMAIN rows, Retry(p) \/ ImportStarts(p) \/ ImportEnds(p)
        PROVE  StoreNext
    BY <1>4 DEF Retry, ImportStarts, ImportEnds, StoreNext, OperatorStep
  <1>5. ASSUME NEW j \in Job, WindowRunsOut(j)
        PROVE  StoreNext
    BY <1>5 DEF WindowRunsOut, StoreNext, TimeStep
  <1>6. ASSUME NEW o \in Original, Upload(o)
        PROVE  StoreNext
    BY <1>6 DEF Upload, StoreNext
  <1>7. ASSUME NEW S \in SUBSET DOMAIN rows, FinalizeCompaction(S)
        PROVE  StoreNext
    BY <1>7 DEF FinalizeCompaction, StoreNext
  <1>8. CASE MaintenanceTick \/ UNCHANGED vars
    BY <1>8 DEF MaintenanceTick, vars, storeVars
  <1> QED BY <1>2, <1>3, <1>4, <1>5, <1>6, <1>7, <1>8 DEF Next

-----------------------------------------------------------------------------
(* What a step of the store leaves alone.                                  *)

\* Rows stay registered, in their jobs.
JobsKept ==
  /\ DOMAIN rows \subseteq DOMAIN rows'
  /\ \A p \in DOMAIN rows : rows'[p].job = rows[p].job

\* No operation removes a row or moves it to another job.
LEMMA StoreKeepsJobs ==
  ASSUME Inv, [StoreNext]_storeVars
  PROVE  JobsKept
  <1>1. CASE UNCHANGED storeVars
    BY <1>1 DEF storeVars, JobsKept
  <1>2. CASE \E o \in Original : CreatePart(o)
    BY <1>2 DEF CreatePart, JobsKept
  <1>3. ASSUME NEW w \in Worker, NEW B \in SUBSET DOMAIN rows, NEW s \in Reductions(B),
               CompleteCompaction(w, B, s)
        PROVE  JobsKept
    <2>1. PICK out : Compaction(B, out)
      BY <1>3, CompleteCompactionEffect
    <2> QED BY <2>1 DEF Compaction, JobsKept
  <1>4. CASE Quiet
    <2>1. DOMAIN rows' = DOMAIN rows
      BY <1>4 DEF Quiet
    <2> QED BY <1>4, <2>1 DEF Quiet, Follows, SameSource, JobsKept
  <1> QED BY <1>1, <1>2, <1>3, <1>4, StepKinds

\* Windows run out only where there are any.
LEMMA StoreKeepsWindows ==
  ASSUME Inv, WindowsRun, [StoreNext]_storeVars
  PROVE  WindowsRun'
  <1>1. CASE UNCHANGED windowExpired
    BY <1>1 DEF WindowsRun
  <1>2. ASSUME NEW w \in Worker, NEW p \in DOMAIN rows, NEW s \in Shape,
               MarkCompactReady(w, p, s)
        PROVE  WindowsRun'
    BY <1>2 DEF MarkCompactReady, Inv, TypeOK, WindowsRun
  <1>3. ASSUME NEW j \in Job, WindowExpires(j)
        PROVE  WindowsRun'
    BY <1>3 DEF WindowExpires, WindowsRun
  <1>4. CASE \E o \in Original : CreatePart(o)
    BY <1>4, <1>1 DEF CreatePart
  <1>5. CASE \E w \in Worker, p \in DOMAIN rows : RewriteStep(w, p) \/ HeartbeatCompactPart(w, p)
    BY <1>5, <1>1, <1>2 DEF RewriteStep, ClaimNextReady, MarkFailed, ReleaseInProgress,
                            HeartbeatCompactPart
  <1>6. CASE \E w \in Worker : ClaimStep(w)
    BY <1>6, <1>1 DEF ClaimStep, ClaimNextCompactBatch
  <1>7. CASE \E w \in Worker, B \in SUBSET DOMAIN rows : CompactStep(w, B)
    BY <1>7, <1>1 DEF CompactStep, ReleaseCompactBatch, MarkCompactBatchFailed, CompleteCompaction
  <1>8. CASE MaintenanceStep \/ TimeStep
    BY <1>8, <1>1, <1>3 DEF MaintenanceStep, MaintainCompaction, FinalizeCompactReadyJob, TimeStep,
                            LeaseExpires
  <1>9. CASE \E S \in SUBSET DOMAIN rows : RequestCompactFinalization(S)
    BY <1>9, <1>1 DEF RequestCompactFinalization
  <1>10. CASE \E p \in DOMAIN rows : OperatorStep(p)
    BY <1>10, <1>1 DEF OperatorStep, MarkImporting, MarkImported, ReleaseImport, MarkImportFailed,
                       RetryFailedPart, RetryInProgressPart
  <1>11. CASE UNCHANGED storeVars
    BY <1>11, <1>1 DEF storeVars
  <1> QED BY <1>4, <1>5, <1>6, <1>7, <1>8, <1>9, <1>10, <1>11 DEF StoreNext

\* What finalizeCompactReadyTx reads of a job is a summary.
LEMMA JobSummaryType ==
  ASSUME Inv, WindowsRun, NEW R, NEW j \in Job
  PROVE  JobSummary(R, j) \in SummaryType
  <1>1. windowExpired[j] \in BOOLEAN /\ (windowExpired[j] => Windowed)
    BY DEF Inv, TypeOK, WindowsRun
  <1> QED BY <1>1 DEF JobSummary, SummaryType

-----------------------------------------------------------------------------
(* Whose rows an operation changes.                                        *)

\* Rows with an owner other than w and a lease that has not run out are left
\* alone, except for a finalization request.
Spares(w) ==
  \A p \in DOMAIN rows :
    rows[p].worker \notin {w, NoWorker} /\ ~rows[p].leaseExpired
    => /\ rows'[p].worker = rows[p].worker
       /\ rows'[p].status = rows[p].status
       /\ rows'[p].leaseExpired = rows[p].leaseExpired

\* A step that changes rows of B only, all of them w's or nobody's.
LEMMA SparesOthers ==
  ASSUME NEW w, NEW B, \A p \in B : rows[p].worker \in {w, NoWorker},
         \A p \in DOMAIN rows \ B : rows'[p] = rows[p]
  PROVE  Spares(w)
  BY DEF Spares

\* The rewrite calls and the heartbeat of w touch w's rows and free ones.
LEMMA RowCallSpares ==
  ASSUME Inv, NEW w \in Worker, NEW x \in DOMAIN rows,
         RewriteStep(w, x) \/ HeartbeatCompactPart(w, x)
  PROVE  Spares(w)
  <1>1. rows[x].worker \in {w, NoWorker}
    BY RowsOK DEF RewriteStep, ClaimNextReady, MarkCompactReady, MarkFailed, ReleaseInProgress,
       InProgressOwned, HeartbeatCompactPart, CompactOwnedOrUnownedReady, RowOK
  <1>2. ASSUME NEW p \in DOMAIN rows \ {x}
        PROVE  rows'[p] = rows[p]
    <2>1. CASE ClaimNextReady(w, x) \/ HeartbeatCompactPart(w, x)
      BY <2>1, <1>2 DEF ClaimNextReady, HeartbeatCompactPart, Inv, TypeOK
    <2>2. CASE \E s \in Shape : MarkCompactReady(w, x, s)
      BY <2>2, <1>2 DEF MarkCompactReady, Inv, TypeOK
    <2>3. CASE MarkFailed(w, x) \/ ReleaseInProgress(w, x)
      BY <2>3, <1>2 DEF MarkFailed, ReleaseInProgress, Inv, TypeOK
    <2> QED BY <2>1, <2>2, <2>3 DEF RewriteStep
  <1> QED BY <1>1, <1>2 DEF Spares

\* So do the claim and the ends of a batch.
LEMMA BatchCallSpares ==
  ASSUME Inv, NEW w \in Worker, NEW B,
         \/ \E locked : ClaimNextCompactBatch(w, B, locked)
         \/ CompactStep(w, B)
  PROVE  Spares(w)
  <1>1. ASSUME NEW locked, ClaimNextCompactBatch(w, B, locked)
        PROVE  Spares(w)
    <2>1. \A p \in B : rows[p].worker \in {w, NoWorker}
      BY <1>1, ClaimedAreReady, RowsOK DEF ClaimNextCompactBatch, RowOK
    <2>2. \A p \in DOMAIN rows \ B : rows'[p] = rows[p]
      BY <1>1 DEF ClaimNextCompactBatch, Apply
    <2> QED BY <2>1, <2>2, SparesOthers
  <1>2. ASSUME NEW finalize \in BOOLEAN, ReleaseCompactBatch(w, B, finalize)
        PROVE  Spares(w)
    <2>1. \A p \in B : rows[p].worker \in {w, NoWorker}
      BY <1>2 DEF ReleaseCompactBatch, CompactOwnedOrUnownedReady
    <2>2. \A p \in DOMAIN rows \ B : rows'[p] = rows[p]
      BY <1>2 DEF ReleaseCompactBatch, Apply
    <2> QED BY <2>1, <2>2, SparesOthers
  <1>3. CASE MarkCompactBatchFailed(w, B)
    <2>1. \A p \in B : rows[p].worker \in {w, NoWorker}
      BY <1>3 DEF MarkCompactBatchFailed
    <2>2. \A p \in DOMAIN rows \ B : rows'[p] = rows[p]
      BY <1>3 DEF MarkCompactBatchFailed, Apply
    <2> QED BY <2>1, <2>2, SparesOthers
  <1>4. ASSUME NEW s \in Reductions(B), CompleteCompaction(w, B, s)
        PROVE  Spares(w)
    <2>1. \A p \in B : rows[p].worker \in {w, NoWorker}
      BY <1>4 DEF CompleteCompaction, CompactOwnedOrUnownedReady
    <2>2. PICK out : Compaction(B, out)
      BY <1>4, CompleteCompactionEffect
    <2>3. \A p \in DOMAIN rows \ B : rows'[p] = rows[p]
      BY <2>2 DEF Compaction
    <2> QED BY <2>1, <2>3, SparesOthers
  <1> QED BY <1>1, <1>2, <1>3, <1>4 DEF CompactStep

\* Maintenance and finalization take no row from anybody whose lease runs.
LEMMA MaintenanceSpares ==
  ASSUME Inv, MaintenanceStep
  PROVE  Spares(NoWorker)
  <1>1. ASSUME NEW S, NEW m, MaintainCompaction(S, m)
        PROVE  Spares(NoWorker)
    <2> DEFINE R == ReleasedStale(rows, S)
               T == UNION {Finalizable(R, j, m[j]) : j \in Job}
    <2>1. R = [x \in DOMAIN rows |-> IF x \in S THEN CompactReleasedRow(rows[x], FALSE) ELSE rows[x]]
      BY DEF ReleasedStale, Apply
    <2>2. rows' = [x \in DOMAIN R |-> IF x \in T THEN [R[x] EXCEPT !.status = "FINISHED"] ELSE R[x]]
      BY <1>1 DEF MaintainCompaction, Finalized, Apply
    <2>3. T \subseteq {x \in DOMAIN R : R[x].status = "COMPACT_READY"}
      BY DEF Finalizable
    <2>4. \A p \in S : rows[p].leaseExpired
      BY <1>1 DEF MaintainCompaction, Stale
    <2> HIDE DEF R, T
    <2>5. SUFFICES ASSUME NEW p \in DOMAIN rows, rows[p].worker # NoWorker, ~rows[p].leaseExpired
                   PROVE  rows'[p] = rows[p]
      BY DEF Spares
    <2>6. R[p] = rows[p] /\ p \in DOMAIN R
      BY <2>1, <2>4, <2>5
    <2>7. p \notin T
      BY <2>3, <2>5, <2>6, RowsOK DEF RowOK
    <2> QED BY <2>2, <2>6, <2>7
  <1>2. ASSUME NEW j, NEW m, FinalizeCompactReadyJob(j, m)
        PROVE  Spares(NoWorker)
    <2>1. \A p \in Finalizable(rows, j, m) : p \in DOMAIN rows /\ rows[p].status = "COMPACT_READY"
      BY DEF Finalizable
    <2>2. \A p \in Finalizable(rows, j, m) : rows[p].worker \in {NoWorker}
      BY <2>1, RowsOK DEF RowOK
    <2>3. \A p \in DOMAIN rows \ Finalizable(rows, j, m) : rows'[p] = rows[p]
      BY <1>2 DEF FinalizeCompactReadyJob, Finalized, Apply
    <2> QED BY <2>2, <2>3, SparesOthers
  <1> QED BY <1>1, <1>2 DEF MaintenanceStep

-----------------------------------------------------------------------------
(* Where a step leaves the workers.                                        *)

AtWork == {"rewriting", "claimed", "compacting"}

\* A worker that moves on with the parts B is placed properly, and the
\* summaries the others have read stay as they are.
LEMMA ContinuePlaces ==
  ASSUME PInv, JobsKept, NEW w \in Worker, NEW l \in PC \ {"maintaining", "scanned"},
         NEW B \in SUBSET DOMAIN rows', l = "down" \/ (B # {} <=> l \in Holding),
         Continue(w, l, B)
  PROVE  Placed' /\ ScansRead'
  <1>1. /\ pc' = [pc EXCEPT ![w] = l]
        /\ batch' = [batch EXCEPT ![w] = IF l = "down" THEN {} ELSE B]
        /\ scan' = [scan EXCEPT ![w] = NoScan]
    BY DEF Continue
  <1>2. pc' \in [Worker -> PC] /\ pc'[w] = l /\ \A v \in Worker \ {w} : pc'[v] = pc[v]
    BY <1>1 DEF PInv, Placed
  <1>3. /\ batch' \in [Worker -> SUBSET DOMAIN rows']
        /\ batch'[w] = IF l = "down" THEN {} ELSE B
        /\ \A v \in Worker \ {w} : batch'[v] = batch[v]
    BY <1>1 DEF PInv, Placed, JobsKept
  <1>4. /\ scan' = [v \in Worker |-> scan'[v]]
        /\ scan'[w] = NoScan /\ \A v \in Worker \ {w} : scan'[v] = scan[v]
    BY <1>1 DEF PInv, Placed
  <1>5. NoScan = [stale |-> NoScan.stale, summary |-> NoScan.summary] /\ NoScan.stale = {}
    BY DEF NoScan
  <1>6. ASSUME NEW v \in Worker
        PROVE  /\ batch'[v] # {} <=> pc'[v] \in Holding
               /\ scan'[v].stale # {} => pc'[v] = "maintaining"
               /\ scan'[v] = [stale |-> scan'[v].stale, summary |-> scan'[v].summary]
    <2>1. CASE v = w
      BY <2>1, <1>2, <1>3, <1>4, <1>5 DEF Holding
    <2>2. CASE v # w
      BY <2>2, <1>2, <1>3, <1>4 DEF PInv, Placed
    <2> QED BY <2>1, <2>2
  <1>7. Placed'
    BY <1>2, <1>3, <1>4, <1>6 DEF Placed
  <1>8. ASSUME NEW v \in Worker \ {w}, pc[v] = "scanned"
        PROVE  JobOfBatch(v)' = JobOfBatch(v)
    <2>1. batch[v] # {} /\ batch[v] \subseteq DOMAIN rows
      BY <1>8, BatchJob DEF Holding
    <2> QED BY <2>1, <1>3 DEF JobOfBatch, JobsKept
  <1>9. ScansRead'
    BY <1>2, <1>4, <1>8 DEF PInv, ScansRead
  <1> QED BY <1>7, <1>9

\* So are workers that stay where they are.
LEMMA StayPlaced ==
  ASSUME PInv, JobsKept, UNCHANGED <<pc, batch, scan>>
  PROVE  Placed' /\ ScansRead'
  <1>1. Placed'
    BY DEF PInv, Placed, JobsKept
  <1>2. ASSUME NEW v \in Worker, pc[v] = "scanned"
        PROVE  JobOfBatch(v)' = JobOfBatch(v)
    <2>1. batch[v] # {} /\ batch[v] \subseteq DOMAIN rows
      BY <1>2, BatchJob DEF Holding
    <2> QED BY <2>1 DEF JobOfBatch, JobsKept
  <1>3. ScansRead'
    BY <1>2 DEF PInv, ScansRead
  <1> QED BY <1>1, <1>3

\* Workers keep owning what they work on when w spares their rows and, if it
\* goes on working, owns its own.
LEMMA ContinueOwns ==
  ASSUME PInv, NEW w \in Worker, NEW l, NEW B, Continue(w, l, B), Spares(w),
         l \in AtWork /\ w \notin late' => HoldsBatch(w)'
  PROVE  Owning'
  <1>1. SUFFICES ASSUME NEW v \in Worker \ late', pc'[v] \in AtWork
                 PROVE  HoldsBatch(v)'
    BY DEF Owning, AtWork
  <1>2. CASE v = w
    BY <1>1, <1>2 DEF Continue, PInv, Placed
  <1>3. CASE v # w
    <2>1. pc'[v] = pc[v] /\ batch'[v] = batch[v] /\ v \notin late
      BY <1>1, <1>3 DEF Continue, PInv, Placed
    <2>2. HoldsBatch(v) /\ batch[v] \subseteq DOMAIN rows
      BY <1>1, <2>1 DEF PInv, Owning, AtWork, Placed
    <2>3. \A p \in batch[v] : rows[p].worker \notin {w, NoWorker} /\ ~rows[p].leaseExpired
      BY <1>3, <2>2, ConstantAssumption DEF HoldsBatch, ConstantAssumption
    <2> QED BY <2>1, <2>2, <2>3 DEF HoldsBatch, Spares
  <1> QED BY <1>2, <1>3

\* A step of nobody's that spares all rows.
LEMMA StayOwning ==
  ASSUME PInv, NEW w, Spares(w), UNCHANGED <<batch, late>>,
         \A v \in Worker \ late : pc'[v] \in AtWork => pc'[v] = pc[v] /\ v # w
  PROVE  Owning'
  <1>1. SUFFICES ASSUME NEW v \in Worker \ late', pc'[v] \in AtWork
                 PROVE  HoldsBatch(v)'
    BY DEF Owning, AtWork
  <1>2. HoldsBatch(v) /\ batch[v] \subseteq DOMAIN rows /\ pc'[v] = pc[v] /\ v # w
    BY <1>1 DEF PInv, Owning, AtWork, Placed
  <1>3. \A p \in batch[v] : rows[p].worker \notin {w, NoWorker} /\ ~rows[p].leaseExpired
    BY <1>2, ConstantAssumption DEF HoldsBatch, ConstantAssumption
  <1> QED BY <1>2, <1>3 DEF HoldsBatch, Spares

\* Nothing spares more than a step that does not touch the table.
LEMMA StutterSpares ==
  ASSUME UNCHANGED rows, NEW w
  PROVE  Spares(w)
  BY DEF Spares

\* What spares everybody's rows spares those of all but w.
LEMMA SparesAll ==
  ASSUME Spares(NoWorker), NEW w
  PROVE  Spares(w)
  BY DEF Spares

-----------------------------------------------------------------------------
(* The workers' part of the invariant, action by action.                   *)

WorkersOK == Placed /\ ScansRead /\ Owning

\* A worker that lets go of its parts.
LEMMA LetGo ==
  ASSUME PInv, JobsKept, NEW w \in Worker, NEW l \in {"idle", "maintain", "claiming", "down"},
         Continue(w, l, {}), Spares(w)
  PROVE  WorkersOK'
  <1>1. l \in PC \ {"maintaining", "scanned"} /\ l \notin Holding /\ l \notin AtWork
    BY DEF PC, Holding, AtWork
  <1>2. Placed' /\ ScansRead'
    BY <1>1, ContinuePlaces
  <1>3. Owning'
    BY <1>1, ContinueOwns
  <1> QED BY <1>2, <1>3 DEF WorkersOK

\* The rewrite of a part: its claim makes the worker its owner, its end lets
\* go of it.
LEMMA RewriteKeeps ==
  ASSUME PInv, JobsKept, NEW w \in Worker, Rewrite(w) \/ RewriteFails(w)
  PROVE  WorkersOK'
  <1>1. CASE ClaimReady(w)
    <2>1. PICK p \in DOMAIN rows : ClaimNextReady(w, p) /\ Continue(w, "rewriting", {p})
      BY <1>1 DEF ClaimReady
    <2>2. {p} \in SUBSET DOMAIN rows'
      BY <2>1 DEF JobsKept
    <2>3. Placed' /\ ScansRead'
      BY <2>1, <2>2, ContinuePlaces DEF PC, Holding
    <2>4. RewriteStep(w, p)
      BY <2>1 DEF RewriteStep
    <2>5. pc'[w] = "rewriting" /\ batch'[w] = {p}
      BY <2>1 DEF Continue, PInv, Placed
    <2>6. rows'[p] = ClaimedRow(rows[p], w) /\ rows[p] \in RowType(DOMAIN rows) /\ ~rows[p].leaseExpired
      BY <2>1, RowsOK DEF ClaimNextReady, PInv, Inv, TypeOK, RowOK
    <2>7. rows'[p].worker = w /\ rows'[p].status = "IN_PROGRESS" /\ ~rows'[p].leaseExpired
      BY <2>6 DEF ClaimedRow, RowType
    <2>8. HoldsBatch(w)'
      BY <2>5, <2>7 DEF HoldsBatch
    <2>9. Owning'
      BY <2>1, <2>4, <2>8, RowCallSpares, ContinueOwns DEF PInv
    <2> QED BY <2>3, <2>9 DEF WorkersOK
  <1>2. CASE NoReadyPart(w)
    BY <1>2, LetGo, StutterSpares DEF NoReadyPart, storeVars
  <1>3. CASE RewriteDone(w)
    <2>1. PICK p \in batch[w], s \in Shape : MarkCompactReady(w, p, s)
      BY <1>3 DEF RewriteDone
    <2>2. p \in DOMAIN rows /\ RewriteStep(w, p)
      BY <2>1 DEF MarkCompactReady, RewriteStep
    <2> QED BY <1>3, <2>2, LetGo, RowCallSpares DEF RewriteDone, PInv
  <1>4. CASE RewriteFails(w) \/ RewriteReleased(w)
    <2>1. PICK p \in batch[w] : MarkFailed(w, p) \/ ReleaseInProgress(w, p)
      BY <1>4 DEF RewriteFails, RewriteReleased
    <2>2. p \in DOMAIN rows /\ RewriteStep(w, p)
      BY <2>1 DEF MarkFailed, ReleaseInProgress, RewriteStep
    <2> QED BY <1>4, <2>2, LetGo, RowCallSpares DEF RewriteFails, RewriteReleased, Exit, PInv
  <1>5. CASE RewriteLost(w)
    BY <1>5, LetGo, StutterSpares DEF RewriteLost, Exit, storeVars
  <1> QED BY <1>1, <1>2, <1>3, <1>4, <1>5 DEF Rewrite

\* Maintenance takes no row from a worker whose lease runs; what it has read
\* are summaries.
LEMMA MaintainKeeps ==
  ASSUME PInv, JobsKept, NEW w \in Worker, Maintain(w)
  PROVE  WorkersOK'
  <1>1. CASE MaintainScan(w)
    <2> DEFINE m == [j \in Job |-> JobSummary(ReleasedStale(rows, Stale), j)]
    <2>1. /\ pc[w] = "maintain"
          /\ pc' = [pc EXCEPT ![w] = "maintaining"]
          /\ scan' = [scan EXCEPT ![w] = [stale |-> Stale, summary |-> m]]
          /\ UNCHANGED <<rows, batch, late>>
      BY <1>1 DEF MaintainScan, Running, storeVars
    <2>2. m \in [Job -> SummaryType]
      BY JobSummaryType DEF PInv
    <2> HIDE DEF m
    <2>3. /\ pc' \in [Worker -> PC] /\ pc'[w] = "maintaining"
          /\ \A v \in Worker \ {w} : pc'[v] = pc[v]
      BY <2>1 DEF PInv, Placed, PC
    <2>4. /\ scan' = [v \in Worker |-> scan'[v]]
          /\ scan'[w] = [stale |-> Stale, summary |-> m]
          /\ \A v \in Worker \ {w} : scan'[v] = scan[v]
      BY <2>1 DEF PInv, Placed
    <2>5. Placed'
      BY <2>1, <2>3, <2>4 DEF PInv, Placed, Holding
    <2>6. ScansRead'
      BY <2>1, <2>2, <2>3, <2>4 DEF PInv, ScansRead, JobOfBatch
    <2>7. Owning'
      BY <2>1, <2>3, StutterSpares, StayOwning DEF AtWork
    <2> QED BY <2>5, <2>6, <2>7 DEF WorkersOK
  <1>2. CASE MaintainCommit(w)
    <2>1. Running(w, "maintaining") /\ MaintainCompaction(scan[w].stale, scan[w].summary)
      BY <1>2 DEF MaintainCommit
    <2>2. scan[w].summary \in [Job -> SummaryType] /\ scan[w].stale \in SUBSET Stale
      BY <2>1 DEF PInv, ScansRead, MaintainCompaction, Running
    <2>3. MaintenanceStep
      BY <2>1, <2>2 DEF MaintenanceStep
    <2>4. Spares(w)
      BY <2>3, MaintenanceSpares, SparesAll DEF PInv
    <2>5. Continue(w, "idle", {}) \/ Continue(w, "claiming", {})
      BY <1>2 DEF MaintainCommit
    <2> QED BY <2>4, <2>5, LetGo
  <1>3. CASE SkipMaintenance(w)
    BY <1>3, LetGo, StutterSpares DEF SkipMaintenance, storeVars
  <1> QED BY <1>1, <1>2, <1>3 DEF Maintain

\* A claimed batch is not empty.
LEMMA BatchesNotEmpty ==
  ASSUME NEW locked, NEW B \in CompactBatches(locked)
  PROVE  B # {}
  <1>1. CASE Fragmented \ locked # {}
    BY <1>1 DEF CompactBatches, FragmentedBatches
  <1>2. CASE Fragmented \ locked = {}
    <2>1. PICK a : B \in SiblingBatches(a, locked)
      BY <1>2 DEF CompactBatches
    <2>2. Cardinality(B) \in 2 .. MaxArtifacts
      BY <2>1 DEF SiblingBatches
    <2>3. Cardinality(B) # 0
      BY <2>2, ConstantAssumption DEF ConstantAssumption
    <2> QED BY <2>3, FS_EmptySet
  <1> QED BY <1>1, <1>2

\* The claim of a batch makes the worker the owner of all of it.
LEMMA ClaimCompactKeeps ==
  ASSUME PInv, JobsKept, NEW w \in Worker, ClaimCompact(w)
  PROVE  WorkersOK'
  <1>1. PICK locked \in MayBeLocked : \E B \in CompactBatches(locked) :
          ClaimNextCompactBatch(w, B, locked) /\ Continue(w, "claimed", B)
    BY DEF ClaimCompact
  <1>2. PICK B \in CompactBatches(locked) :
          ClaimNextCompactBatch(w, B, locked) /\ Continue(w, "claimed", B)
    BY <1>1
  <1>3. B # {} /\ B \subseteq DOMAIN rows /\ \A p \in B : rows[p].status = "COMPACT_READY"
    BY BatchesNotEmpty, ClaimedAreReady
  <1>4. Placed' /\ ScansRead'
    <2>1. B \in SUBSET DOMAIN rows'
      BY <1>3 DEF JobsKept
    <2> QED BY <1>2, <1>3, <2>1, ContinuePlaces DEF PC, Holding
  <1>5. pc'[w] = "claimed" /\ batch'[w] = B
    BY <1>2 DEF Continue, PInv, Placed
  <1>6. ASSUME NEW p \in B
        PROVE  rows'[p].worker = w /\ rows'[p].status = "COMPACTING" /\ ~rows'[p].leaseExpired
    <2>1. rows'[p] = CompactClaimedRow(rows[p], w)
      BY <1>2, <1>3 DEF ClaimNextCompactBatch, Apply
    <2>2. rows[p] \in RowType(DOMAIN rows)
      BY <1>3, RowsOK DEF PInv
    <2> QED BY <2>1, <2>2 DEF CompactClaimedRow, RowType
  <1>7. HoldsBatch(w)'
    BY <1>5, <1>6 DEF HoldsBatch
  <1>8. Spares(w)
    BY <1>2, BatchCallSpares DEF PInv
  <1>9. Owning'
    BY <1>2, <1>7, <1>8, ContinueOwns
  <1> QED BY <1>4, <1>9 DEF WorkersOK

\* A batch that fails is let go, also when it could not be marked failed.
LEMMA FailBatchKeeps ==
  ASSUME PInv, JobsKept, NEW w \in Worker, FailBatch(w)
  PROVE  WorkersOK'
  <1>1. Spares(w)
    <2>1. CASE UNCHANGED storeVars
      BY <2>1, StutterSpares DEF storeVars
    <2>2. CASE MarkCompactBatchFailed(w, batch[w])
      BY <2>2, BatchCallSpares DEF CompactStep, PInv
    <2> QED BY <2>1, <2>2 DEF FailBatch
  <1> QED BY <1>1, LetGo DEF FailBatch, Exit

\* A released batch is nobody's; its worker may still finalize its job.
LEMMA ReleaseBatchKeeps ==
  ASSUME PInv, JobsKept, NEW w \in Worker, NEW finalize \in BOOLEAN,
         NEW l \in {"down", "finalizing"}, pc[w] \in Holding, ReleaseBatch(w, finalize, l)
  PROVE  WorkersOK'
  <1>1. CASE UNCHANGED storeVars /\ Exit(w)
    BY <1>1, LetGo, StutterSpares DEF Exit, storeVars
  <1>2. CASE ReleaseCompactBatch(w, batch[w], finalize) /\ Continue(w, l, batch[w])
    <2>1. Spares(w)
      BY <1>2, BatchCallSpares DEF CompactStep, PInv
    <2>2. batch[w] \in SUBSET DOMAIN rows' /\ batch[w] # {}
      BY BatchJob DEF JobsKept
    <2>3. Placed' /\ ScansRead'
      BY <1>2, <2>2, ContinuePlaces DEF PC, Holding
    <2>4. Owning'
      BY <1>2, <2>1, ContinueOwns DEF AtWork
    <2> QED BY <2>3, <2>4 DEF WorkersOK
  <1> QED BY <1>1, <1>2 DEF ReleaseBatch

\* The start of a compaction changes no row; a heartbeat takes back a row only
\* from under a worker that had lost it.
LEMMA CompactingKeeps ==
  ASSUME PInv, JobsKept, NEW w \in Worker, StartCompaction(w) \/ Heartbeat(w)
  PROVE  WorkersOK'
  <1>1. CASE StartCompaction(w)
    <2>1. pc[w] = "claimed" /\ Continue(w, "compacting", batch[w]) /\ UNCHANGED rows
      BY <1>1 DEF StartCompaction, storeVars
    <2>2. batch[w] \in SUBSET DOMAIN rows' /\ batch[w] # {}
      BY <2>1, BatchJob DEF JobsKept, Holding
    <2>3. Placed' /\ ScansRead'
      BY <2>1, <2>2, ContinuePlaces DEF PC, Holding
    <2>4. late' = late /\ pc'[w] = "compacting" /\ batch'[w] = batch[w]
      BY <2>1 DEF Continue, PInv, Placed
    <2>5. w \notin late' => HoldsBatch(w)'
      BY <2>1, <2>4 DEF PInv, Owning, HoldsBatch
    <2>6. Owning'
      BY <2>1, <2>5, StutterSpares, ContinueOwns
    <2> QED BY <2>3, <2>6 DEF WorkersOK
  <1>2. CASE Heartbeat(w)
    <2>1. PICK p \in batch[w] : rows[p].status = "COMPACT_READY" /\ HeartbeatCompactPart(w, p)
      BY <1>2 DEF Heartbeat
    <2>2. pc[w] = "compacting" /\ UNCHANGED <<pc, batch, scan, late>>
      BY <1>2 DEF Heartbeat, workerVars
    <2>3. Placed' /\ ScansRead'
      BY <2>2, StayPlaced
    <2>4. w \in late
      BY <2>1, <2>2 DEF PInv, Owning, HoldsBatch
    <2>5. Spares(w)
      BY <2>1, RowCallSpares DEF HeartbeatCompactPart, PInv
    <2>6. Owning'
      BY <2>2, <2>4, <2>5, StayOwning
    <2> QED BY <2>3, <2>6 DEF WorkersOK
  <1> QED BY <1>1, <1>2

\* Reading a job's summary and finalizing it with what was read.
LEMMA FinalizeKeeps ==
  ASSUME PInv, JobsKept, NEW w \in Worker, FinalizeScan(w) \/ FinalizeCommit(w)
  PROVE  WorkersOK'
  <1>1. CASE FinalizeScan(w)
    <2> DEFINE m == [j \in {JobOfBatch(w)} |-> JobSummary(rows, j)]
    <2>1. /\ pc[w] = "finalizing"
          /\ pc' = [pc EXCEPT ![w] = "scanned"]
          /\ scan' = [scan EXCEPT ![w].summary = m]
          /\ UNCHANGED <<rows, batch, late>>
      BY <1>1 DEF FinalizeScan, storeVars
    <2>2. m[JobOfBatch(w)] \in SummaryType
      BY <2>1, BatchJob, JobSummaryType DEF PInv, Holding
    <2> HIDE DEF m
    <2>3. /\ pc' \in [Worker -> PC] /\ pc'[w] = "scanned"
          /\ \A v \in Worker \ {w} : pc'[v] = pc[v]
      BY <2>1 DEF PInv, Placed, PC
    <2>4. /\ scan' = [v \in Worker |-> scan'[v]]
          /\ scan'[w] = [scan[w] EXCEPT !.summary = m]
          /\ \A v \in Worker \ {w} : scan'[v] = scan[v]
      BY <2>1 DEF PInv, Placed
    <2>5. scan'[w] = [stale |-> scan[w].stale, summary |-> m] /\ scan[w].stale = {}
      BY <2>1, <2>4 DEF PInv, Placed
    <2>6. Placed'
      BY <2>1, <2>3, <2>4, <2>5 DEF PInv, Placed, Holding
    <2>7. \A v \in Worker : JobOfBatch(v)' = JobOfBatch(v)
      BY <2>1 DEF JobOfBatch
    <2>8. ScansRead'
      BY <2>2, <2>3, <2>4, <2>5, <2>7 DEF PInv, ScansRead
    <2>9. Owning'
      BY <2>1, <2>3, StutterSpares, StayOwning DEF AtWork
    <2> QED BY <2>6, <2>8, <2>9 DEF WorkersOK
  <1>2. CASE FinalizeCommit(w)
    <2>1. pc[w] = "scanned" /\ FinalizeCompactReadyJob(JobOfBatch(w), scan[w].summary[JobOfBatch(w)])
      BY <1>2 DEF FinalizeCommit
    <2>2. JobOfBatch(w) \in Job /\ scan[w].summary[JobOfBatch(w)] \in SummaryType
      BY <2>1, BatchJob DEF PInv, ScansRead, Holding
    <2>3. MaintenanceStep
      BY <2>1, <2>2 DEF MaintenanceStep
    <2>4. Spares(w)
      BY <2>3, MaintenanceSpares, SparesAll DEF PInv
    <2> QED BY <1>2, <2>4, LetGo DEF FinalizeCommit
  <1> QED BY <1>1, <1>2

\* All that a compacting worker does.
LEMMA CompactKeeps ==
  ASSUME PInv, JobsKept, NEW w \in Worker,
         Compact(w) \/ CompactFails(w) \/ ProtectionFails(w) \/ Heartbeat(w)
  PROVE  WorkersOK'
  <1>1. CASE ClaimNothing(w) \/ BatchLost(w)
    BY <1>1, LetGo, StutterSpares DEF ClaimNothing, BatchLost, Exit, storeVars
  <1>2. CASE DeadlineFails(w) \/ CompactFails(w)
    BY <1>2, FailBatchKeeps DEF DeadlineFails, CompactFails
  <1>3. CASE ProtectionFails(w)
    BY <1>3, ReleaseBatchKeeps DEF ProtectionFails, Holding
  <1>4. CASE TooLate(w)
    BY <1>4, ReleaseBatchKeeps DEF TooLate, Running, Holding
  <1>5. CASE NotReduced(w)
    <2> DEFINE l == IF shutdown[w] THEN "down" ELSE "finalizing"
    <2>1. (~shutdown[w]) \in BOOLEAN /\ l \in {"down", "finalizing"}
      OBVIOUS
    <2>2. ReleaseBatch(w, ~shutdown[w], l) /\ pc[w] \in Holding
      BY <1>5 DEF NotReduced, Holding
    <2> HIDE DEF l
    <2> QED BY <2>1, <2>2, ReleaseBatchKeeps
  <1>6. CASE Reduced(w)
    <2>1. CompactStep(w, batch[w]) /\ Continue(w, "idle", {})
      BY <1>6 DEF Reduced, CompactStep
    <2> QED BY <2>1, BatchCallSpares, LetGo DEF PInv
  <1> QED BY <1>1, <1>2, <1>3, <1>4, <1>5, <1>6, ClaimCompactKeeps, CompactingKeeps, FinalizeKeeps
          DEF Compact

\* Whatever else happens to a worker.
LEMMA LifeKeeps ==
  ASSUME PInv, JobsKept, NEW w \in Worker, Stop(w) \/ Shutdown(w) \/ Crash(w) \/ Restart(w)
  PROVE  WorkersOK'
  <1>1. CASE Stop(w) \/ Crash(w) \/ Restart(w)
    BY <1>1, LetGo, StutterSpares DEF Stop, Crash, Restart, Exit, storeVars
  <1>2. CASE Shutdown(w)
    <2>1. UNCHANGED <<rows, pc, batch, scan, late>>
      BY <1>2 DEF Shutdown, storeVars, workerVars
    <2>2. Spares(NoWorker)
      BY <2>1, StutterSpares
    <2>3. Owning'
      BY <2>1, <2>2, StayOwning, ConstantAssumption DEF ConstantAssumption
    <2> QED BY <2>1, <2>3, StayPlaced DEF WorkersOK
  <1> QED BY <1>1, <1>2

\* Owners keep the rows an outsider does not touch, and where one is touched
\* they count as late.
LEMMA TakenKeeps ==
  ASSUME PInv, JobsKept, NEW x \in DOMAIN rows, UNCHANGED <<pc, batch, scan>>,
         \A p \in DOMAIN rows \ {x} : rows'[p] = rows[p],
         late \subseteq late',
         \A w \in Worker \ late' : ~(x \in batch[w] /\ rows[x].worker = w)
  PROVE  WorkersOK'
  <1>1. SUFFICES ASSUME NEW v \in Worker \ late', pc[v] \in AtWork
                 PROVE  HoldsBatch(v)'
    BY StayPlaced DEF Owning, AtWork, WorkersOK
  <1>2. HoldsBatch(v) /\ batch[v] \subseteq DOMAIN rows
    BY <1>1 DEF PInv, Owning, AtWork, Placed
  <1>3. x \notin batch[v]
    BY <1>1, <1>2 DEF HoldsBatch
  <1> QED BY <1>2, <1>3 DEF HoldsBatch

\* The end of a lease and the operators' retries.
LEMMA TakingKeeps ==
  ASSUME PInv, JobsKept, NEW p \in DOMAIN rows, LeaseRunsOut(p) \/ Retry(p)
  PROVE  WorkersOK'
  <1>1. UNCHANGED <<pc, batch, scan>>
    BY DEF LeaseRunsOut, Retry
  <1>2. \A q \in DOMAIN rows \ {p} : rows'[q] = rows[q]
    BY DEF LeaseRunsOut, LeaseExpires, Retry, RetryFailedPart, RetryInProgressPart, PInv, Inv, TypeOK
  <1>3. late \subseteq late' /\ \A w \in Worker \ late' : ~(p \in batch[w] /\ rows[p].worker = w)
    <2>1. CASE TakenFrom(p)
      BY <2>1 DEF TakenFrom
    <2>2. CASE Abandoned(p) /\ UNCHANGED late
      BY <2>2 DEF Abandoned
    <2> QED BY <2>1, <2>2 DEF LeaseRunsOut, Retry
  <1> QED BY <1>1, <1>2, <1>3, TakenKeeps

\* Uploads, imports, requests and the clock touch no row somebody works on,
\* except for a request.
LEMMA OutsidersKeep ==
  ASSUME PInv, JobsKept,
         \/ MaintenanceTick
         \/ \E p \in DOMAIN rows : ImportStarts(p) \/ ImportEnds(p)
         \/ \E j \in Job : WindowRunsOut(j)
         \/ \E o \in Original : Upload(o)
         \/ \E S \in SUBSET DOMAIN rows : FinalizeCompaction(S)
         \/ UNCHANGED vars
  PROVE  WorkersOK'
  <1>1. UNCHANGED <<pc, batch, scan, late>>
    BY DEF MaintenanceTick, ImportStarts, ImportEnds, WindowRunsOut, Upload, FinalizeCompaction,
           workerVars, vars
  <1>2. ASSUME NEW p \in DOMAIN rows, ImportStarts(p) \/ ImportEnds(p)
        PROVE  Spares(NoWorker)
    <2>1. rows[p].worker = NoWorker
      BY <1>2, RowsOK DEF ImportStarts, ImportEnds, MarkImporting, MarkImported, ReleaseImport,
                          MarkImportFailed, RowOK, PInv
    <2>2. \A q \in DOMAIN rows \ {p} : rows'[q] = rows[q]
      BY <1>2 DEF ImportStarts, ImportEnds, MarkImporting, MarkImported, ReleaseImport,
                  MarkImportFailed, PInv, Inv, TypeOK
    <2> QED BY <2>1, <2>2 DEF Spares
  <1>3. ASSUME NEW S \in SUBSET DOMAIN rows, FinalizeCompaction(S)
        PROVE  Spares(NoWorker)
    <2>1. SUFFICES ASSUME NEW p \in DOMAIN rows, rows[p].worker # NoWorker
                   PROVE  /\ rows'[p].worker = rows[p].worker
                          /\ rows'[p].status = rows[p].status
                          /\ rows'[p].leaseExpired = rows[p].leaseExpired
      BY DEF Spares
    <2>2. rows'[p] = IF p \in S THEN FinalizeRequestedRow(rows[p]) ELSE rows[p]
      BY <1>3 DEF FinalizeCompaction, RequestCompactFinalization, Apply
    <2>3. rows[p].status # "COMPACT_READY" /\ rows[p] \in RowType(DOMAIN rows)
      BY <2>1, RowsOK DEF RowOK, PInv
    <2> QED BY <2>2, <2>3 DEF FinalizeRequestedRow, RowType
  <1>4. ASSUME NEW o \in Original, Upload(o)
        PROVE  Spares(NoWorker)
    BY <1>4 DEF Upload, CreatePart, Spares
  <1>5. ASSUME MaintenanceTick \/ (\E j \in Job : WindowRunsOut(j)) \/ UNCHANGED vars
        PROVE  Spares(NoWorker)
    BY <1>5, StutterSpares DEF MaintenanceTick, WindowRunsOut, WindowExpires, vars, storeVars
  <1>6. Spares(NoWorker)
    BY <1>2, <1>3, <1>4, <1>5
  <1>7. Owning'
    BY <1>1, <1>6, StayOwning, ConstantAssumption DEF ConstantAssumption
  <1> QED BY <1>1, <1>7, StayPlaced DEF WorkersOK

-----------------------------------------------------------------------------
(* The invariant holds.                                                    *)

\* The fault budget shrinks and the flags stay flags.
LEMMA SurroundingsKept ==
  ASSUME Surroundings, [Next]_vars
  PROVE  Surroundings'
  <1>1. ASSUME NEW f, Occurs(f)
        PROVE  budget' \in 0 .. MaxFaults
    BY <1>1, PipelineAssumption DEF Occurs, Surroundings, PipelineAssumption
  <1>2. CASE UNCHANGED vars
    BY <1>2 DEF vars, Surroundings
  <1>3. ASSUME NEW w \in Worker, Rewrite(w) \/ RewriteFails(w)
        PROVE  Surroundings'
    BY <1>1, <1>3 DEF Rewrite, ClaimReady, NoReadyPart, RewriteDone, RewriteReleased, RewriteLost,
                      RewriteFails, Surroundings
  <1>4. ASSUME NEW w \in Worker, Maintain(w) \/ Stop(w) \/ Heartbeat(w) \/ Crash(w)
        PROVE  Surroundings'
    BY <1>1, <1>4 DEF Maintain, MaintainScan, MaintainCommit, SkipMaintenance, Stop, Heartbeat,
                      Crash, Surroundings
  <1>5. ASSUME NEW w \in Worker, Compact(w) \/ CompactFails(w) \/ ProtectionFails(w)
        PROVE  Surroundings'
    BY <1>1, <1>5 DEF Compact, ClaimCompact, ClaimNothing, DeadlineFails, StartCompaction, TooLate,
                      Reduced, NotReduced, BatchLost, FinalizeScan, FinalizeCommit, CompactFails,
                      ProtectionFails, Surroundings
  <1>6. ASSUME NEW w \in Worker, Shutdown(w) \/ Restart(w)
        PROVE  Surroundings'
    BY <1>1, <1>6 DEF Shutdown, Restart, Surroundings
  <1>7. CASE MaintenanceTick
    BY <1>7 DEF MaintenanceTick, Surroundings
  <1>8. ASSUME NEW p \in DOMAIN rows,
               LeaseRunsOut(p) \/ Retry(p) \/ ImportStarts(p) \/ ImportEnds(p)
        PROVE  Surroundings'
    BY <1>1, <1>8 DEF LeaseRunsOut, Retry, ImportStarts, ImportEnds, Surroundings
  <1>9. ASSUME NEW j \in Job, WindowRunsOut(j)
        PROVE  Surroundings'
    BY <1>9 DEF WindowRunsOut, Surroundings
  <1>10. ASSUME NEW o \in Original, Upload(o)
         PROVE  Surroundings'
    BY <1>10 DEF Upload, Surroundings
  <1>11. ASSUME NEW S \in SUBSET DOMAIN rows, FinalizeCompaction(S)
         PROVE  Surroundings'
    BY <1>1, <1>11 DEF FinalizeCompaction, Surroundings
  <1> QED BY <1>2, <1>3, <1>4, <1>5, <1>6, <1>7, <1>8, <1>9, <1>10, <1>11
          DEF Next, WorkerStep, FaultStep

\* Every worker starts idle, with nothing in its hands.
LEMMA InitPInv == Init => PInv
  <1> SUFFICES ASSUME Init PROVE PInv
    OBVIOUS
  <1>1. Inv
    BY InitInv DEF Init
  <1>2. Placed
    BY DEF Init, Placed, NoScan, PC, Holding
  <1>3. Surroundings
    BY PipelineAssumption DEF Init, Surroundings, PipelineAssumption
  <1>4. Owning /\ ScansRead
    BY DEF Init, Owning, ScansRead
  <1>5. WindowsRun
    BY DEF Init, StoreInit, WindowsRun
  <1> QED BY <1>1, <1>2, <1>3, <1>4, <1>5 DEF PInv

\* The invariant is inductive.
LEMMA NextPInv == PInv /\ [Next]_vars => PInv'
  <1> SUFFICES ASSUME PInv, [Next]_vars PROVE PInv'
    OBVIOUS
  <1>1. [StoreNext]_storeVars
    BY NextIsStoreStep
  <1>2. Inv' /\ JobsKept /\ WindowsRun'
    BY <1>1, NextInv, StoreKeepsJobs, StoreKeepsWindows DEF PInv
  <1>3. Surroundings'
    BY SurroundingsKept DEF PInv
  <1>4. ASSUME NEW w \in Worker, WorkerStep(w) \/ FaultStep(w)
        PROVE  WorkersOK'
    BY <1>2, <1>4, RewriteKeeps, MaintainKeeps, CompactKeeps, LifeKeeps DEF WorkerStep, FaultStep
  <1>5. WorkersOK'
    BY <1>2, <1>4, TakingKeeps, OutsidersKeep DEF Next
  <1> QED BY <1>2, <1>3, <1>5 DEF PInv, WorkersOK

\* The invariant holds in every behaviour of the pipeline.
THEOREM PipelineInvariant == Spec => []PInv
  BY InitPInv, NextPInv, PTL DEF Spec

\* Workers, operators, importers and time use the store only through its
\* operations: every behaviour of the pipeline is one of the store.  What a
\* transaction read before its commit, and the locks of maintenance, are the
\* points where this could fail.
THEOREM PipelineImplementsStore == Spec => StoreSpec
  <1>1. Init => StoreInit
    BY DEF Init
  <1>2. PInv /\ [Next]_vars => [StoreNext]_storeVars
    BY NextIsStoreStep
  <1> QED BY <1>1, <1>2, PipelineInvariant, PTL DEF Spec, StoreSpec

\* The workers' state is well formed, and two running workers never work on
\* the same part unless one of them has outlived its lease or an operator
\* took its part away.
THEOREM WorkersExclusive == Spec => []PipelineInv
  <1>1. PInv => PipelineTypeOK
    BY DEF PInv, Placed, Surroundings, PipelineTypeOK, Holding
  <1>2. PInv => ExclusiveWork
    BY DEF PInv, Owning, HoldsBatch, ExclusiveWork
  <1>3. PInv => PipelineInv
    BY <1>1, <1>2 DEF PipelineInv
  <1> QED BY <1>3, PipelineInvariant, PTL

\* Whatever workers, operators, importers and failures do, each registered
\* source part is in exactly one live artifact.
COROLLARY PipelineKeepsSources == Spec => []ExactlyOnce
  BY PipelineImplementsStore, SourcesExactlyOnce, PTL

\* The pipeline keeps the ledger of sources.
COROLLARY PipelineImplementsLedger == Spec => LedgerSpec
  BY PipelineImplementsStore, StoreImplementsLedger, PTL

\* And no finalization request an operator made is lost.
COROLLARY PipelineHonoursRequests == Spec => FinalizationHonoured
  BY PipelineImplementsStore, RequestsHonoured, PTL

-----------------------------------------------------------------------------
(* Siblings are left to be merged.                                         *)

\* An operator, the end of the window and a compaction that did not reduce its
\* inputs hand over artifacts whatever could be merged; a retry and a part that
\* is uploaded late bring new ones.  Without them, with a window and with
\* batches, only maintenance hands over, and it leaves siblings alone.
Undisturbed ==
  /\ Windowed /\ Batching
  /\ Faults \cap {"noreduce", "window", "upload", "finalize", "retry"} = {}

ToRewrite(r) == r.status \in {"READY", "IN_PROGRESS"}

\* Failed, and not on its way to the importer.
GivenUp(r) == r.status = "FAILED" /\ ~r.importingAt

\* Handed to the importer, unmerged.
Done(r) == Unmerged(r) /\ PhaseOf(r) # "open" /\ Normalized(r)

\* Row s is not, and cannot become, an artifact that could have been merged
\* with r.
NoPartner(r, s) ==
  /\ ~ToRewrite(s)
  /\ Unmerged(s) /\ ~GivenUp(s) /\ SamePartition(r, s) =>
       IF Normalized(s) THEN ~FitsBytes(r.shape.bytes + s.shape.bytes)
       ELSE s.status # "COMPACTING" /\ ~(s.status = "COMPACT_READY" /\ Eligible(s))

\* Once an artifact is done, its job has no partner for it.
Apart(R) ==
  \A p, s \in DOMAIN R :
    p # s /\ R[p].job = R[s].job /\ Done(R[p]) => NoPartner(R[p], R[s])

\* Nothing but maintenance finishes artifacts.
NothingForced ==
  /\ \A p \in DOMAIN rows : ~rows[p].finalizeRequested
  /\ \A j \in Job : ~windowExpired[j]
  /\ \A w \in Worker : pc[w] \notin {"finalizing", "scanned"}

\* A job whose rewrites are over: uploads come before them.
RewritesOver(j) ==
  /\ \A p \in DOMAIN rows : rows[p].job = j => ~ToRewrite(rows[p])
  /\ \E p \in DOMAIN rows : ~ToRewrite(rows[p])

\* What a summary says of the rewrites is not out of date when it is used.
SummariesHold ==
  \A w \in Worker, j \in Job :
    pc[w] = "maintaining" =>
      /\ ~scan[w].summary[j].expired
      /\ scan[w].summary[j].ready /\ ~scan[w].summary[j].rewriting => RewritesOver(j)

\* What is claimed for compaction: fragmented artifacts one by one, single-part
\* ones together.
Chosen(B) ==
  /\ \A p \in B : ~ToRewrite(rows[p]) /\ (Eligible(rows[p]) \/ Normalized(rows[p]))
  /\ \A p \in B : B = {p} => Eligible(rows[p])

BatchesChosen ==
  \A w \in Worker : pc[w] \in {"claimed", "compacting"} => Chosen(batch[w])

MergeInv == PInv /\ Mapped /\ NothingForced /\ SummariesHold /\ BatchesChosen /\ Apart(rows)

-----------------------------------------------------------------------------
(* Steps that hand over nothing.                                           *)

\* Row s, after r, is not more of a partner than r was.
Steady(r, s) ==
  /\ s.shape = r.shape
  /\ Live(s) => Live(r)
  /\ GivenUp(r) => GivenUp(s)
  /\ s.status = "COMPACT_READY" => r.status \in {"COMPACT_READY", "COMPACTING"}
  /\ s.status = "COMPACTING" =>
       r.status = "COMPACTING" \/ (r.status = "COMPACT_READY" /\ (Eligible(r) \/ Normalized(r)))

Harmless(r, s) ==
  /\ s.job = r.job /\ s.lineage = r.lineage
  /\ ToRewrite(s) => ToRewrite(r)
  /\ Done(s) => Done(r) /\ ~ToRewrite(r)
  /\ ~ToRewrite(r) => Steady(r, s)

\* A row that stays as it is hands over nothing.
LEMMA HarmlessItself ==
  ASSUME NEW r, RowOK(r)
  PROVE  Harmless(r, r)
  BY DEF Harmless, Steady, Done, PhaseOf, ToRewrite, RowOK

\* A partner to come cannot arise from a row that was none.
LEMMA SteadyNoPartner ==
  ASSUME NEW r, NEW x, NEW y, NoPartner(r, x), Steady(x, y), y.lineage = x.lineage, ~ToRewrite(y)
  PROVE  NoPartner(r, y)
  <1>1. (Unmerged(y) => Unmerged(x)) /\ (GivenUp(x) => GivenUp(y))
    BY DEF Unmerged, Steady
  <1>2. /\ SamePartition(r, y) <=> SamePartition(r, x)
        /\ Normalized(y) <=> Normalized(x)
        /\ Eligible(y) <=> Eligible(x)
        /\ y.shape.bytes = x.shape.bytes
    BY DEF Steady, SamePartition, Touches, Normalized, Eligible
  <1> QED BY <1>1, <1>2 DEF NoPartner, Steady

\* Nor does it matter what else becomes of the artifact that is done.
LEMMA NoPartnerOfSameShape ==
  ASSUME NEW r, NEW t, NEW x, NoPartner(r, x), t.shape = r.shape
  PROVE  NoPartner(t, x)
  <1>1. SamePartition(t, x) <=> SamePartition(r, x)
    BY DEF SamePartition, Touches
  <1> QED BY <1>1 DEF NoPartner

\* Rows may be added that are not done and partners of none.
LEMMA HarmlessApart ==
  ASSUME NEW R, NEW T, Apart(R), DOMAIN R \subseteq DOMAIN T,
         \A p \in DOMAIN R : Harmless(R[p], T[p]),
         \A n \in DOMAIN T \ DOMAIN R :
           /\ ~Done(T[n])
           /\ \A p \in DOMAIN R : Done(R[p]) /\ R[p].job = T[n].job => NoPartner(R[p], T[n])
  PROVE  Apart(T)
  <1>1. SUFFICES ASSUME NEW p \in DOMAIN T, NEW s \in DOMAIN T, p # s, T[p].job = T[s].job, Done(T[p])
                 PROVE  NoPartner(T[p], T[s])
    BY DEF Apart
  <1>2. p \in DOMAIN R /\ Done(R[p]) /\ T[p].shape = R[p].shape /\ T[p].job = R[p].job
    BY <1>1 DEF Harmless, Steady
  <1>3. CASE s \in DOMAIN R
    <2>1. NoPartner(R[p], R[s])
      BY <1>1, <1>2, <1>3 DEF Apart, Harmless
    <2>2. ~ToRewrite(R[s]) /\ ~ToRewrite(T[s]) /\ Steady(R[s], T[s]) /\ T[s].lineage = R[s].lineage
      BY <2>1, <1>3 DEF NoPartner, Harmless
    <2>3. NoPartner(R[p], T[s])
      BY <2>1, <2>2, SteadyNoPartner
    <2> QED BY <2>3, <1>2, NoPartnerOfSameShape
  <1>4. CASE s \notin DOMAIN R
    BY <1>1, <1>2, <1>4, NoPartnerOfSameShape
  <1> QED BY <1>3, <1>4

\* What a step that hands over nothing does to the table ...
TableMoves ==
  /\ DOMAIN rows \subseteq DOMAIN rows'
  /\ \A p \in DOMAIN rows : Harmless(rows[p], rows'[p])
  /\ \A p \in DOMAIN rows' : ~rows'[p].finalizeRequested
  /\ \A j \in Job : ~windowExpired'[j]
  /\ \A n \in DOMAIN rows' \ DOMAIN rows :
       /\ ~Done(rows'[n])
       /\ ToRewrite(rows'[n]) => \A p \in DOMAIN rows : ToRewrite(rows[p])
       /\ \A p \in DOMAIN rows :
            Done(rows[p]) /\ rows[p].job = rows'[n].job => NoPartner(rows[p], rows'[n])

\* ... and to the workers.
WorkersMove ==
  \A v \in Worker :
    /\ pc'[v] \notin {"finalizing", "scanned"}
    /\ pc'[v] = "maintaining" =>
         \A j \in Job : LET m == scan'[v].summary[j]
                        IN ~m.expired /\ (m.ready /\ ~m.rewriting => RewritesOver(j))
    /\ pc'[v] \in {"claimed", "compacting"} => batch'[v] \subseteq DOMAIN rows /\ Chosen(batch'[v])

MergeParts == NothingForced /\ SummariesHold /\ BatchesChosen /\ Apart(rows)

\* What every step does to the table: rewrites come to an end, and nothing
\* changes artifacts.
Onward ==
  /\ DOMAIN rows \subseteq DOMAIN rows'
  /\ \A p \in DOMAIN rows :
       /\ rows'[p].job = rows[p].job
       /\ ~ToRewrite(rows[p]) => ~ToRewrite(rows'[p]) /\ rows'[p].shape = rows[p].shape
  /\ \A p \in DOMAIN rows' : ~rows'[p].finalizeRequested
  /\ \A j \in Job : ~windowExpired'[j]
  /\ \A n \in DOMAIN rows' \ DOMAIN rows :
       ToRewrite(rows'[n]) => \A p \in DOMAIN rows : ToRewrite(rows[p])

\* A step that hands over nothing moves the rows on and keeps done artifacts apart.
LEMMA TableMovesOnward ==
  ASSUME MergeInv, TableMoves
  PROVE  Onward /\ Apart(rows')
  <1>1. Onward
    BY DEF TableMoves, Onward, Harmless, Steady
  <1>2. Apart(rows')
    BY HarmlessApart DEF TableMoves, MergeInv
  <1> QED BY <1>1, <1>2

\* Fragmented and single-part artifacts stay what they are.
LEMMA ChosenKept ==
  ASSUME NEW B \in SUBSET DOMAIN rows, Chosen(B), Onward
  PROVE  /\ \A p \in B : ~ToRewrite(rows'[p]) /\ (Eligible(rows'[p]) \/ Normalized(rows'[p]))
         /\ \A p \in B : B = {p} => Eligible(rows'[p])
  <1>1. \A p \in B : ~ToRewrite(rows[p]) /\ ~ToRewrite(rows'[p]) /\ rows'[p].shape = rows[p].shape
    BY DEF Chosen, Onward
  <1>2. \A p \in B : /\ Eligible(rows'[p]) <=> Eligible(rows[p])
                     /\ Normalized(rows'[p]) <=> Normalized(rows[p])
    BY <1>1 DEF Eligible, Normalized, Touches
  <1> QED BY <1>1, <1>2 DEF Chosen

\* The rewrites of a job do not begin again.
LEMMA RewritesStayOver ==
  ASSUME NEW j, Onward, RewritesOver(j)
  PROVE  RewritesOver(j)'
  <1>1. PICK x \in DOMAIN rows : ~ToRewrite(rows[x])
    BY DEF RewritesOver
  <1>2. ~ToRewrite(rows'[x]) /\ x \in DOMAIN rows'
    BY <1>1 DEF Onward
  <1>3. ASSUME NEW p \in DOMAIN rows', rows'[p].job = j
        PROVE  ~ToRewrite(rows'[p])
    BY <1>1, <1>3 DEF Onward, RewritesOver
  <1>4. (\A p \in DOMAIN rows : rows[p].job = j => ~ToRewrite(rows[p]))'
    BY <1>3 DEF ToRewrite
  <1>5. (\E p \in DOMAIN rows : ~ToRewrite(rows[p]))'
    BY <1>2 DEF ToRewrite
  <1> QED BY <1>4, <1>5 DEF RewritesOver

\* What is left of the invariant follows from the table and the workers.
LEMMA MovesKeepMergeParts ==
  ASSUME MergeInv, Onward, Apart(rows'), WorkersMove
  PROVE  MergeParts'
  <1>1. NothingForced'
    BY DEF Onward, WorkersMove, NothingForced
  <1>2. SummariesHold'
    <2>1. SUFFICES ASSUME NEW w \in Worker, NEW j \in Job, pc'[w] = "maintaining"
                   PROVE  /\ ~scan'[w].summary[j].expired
                          /\ scan'[w].summary[j].ready /\ ~scan'[w].summary[j].rewriting => RewritesOver(j)'
      BY DEF SummariesHold
    <2>2. /\ ~scan'[w].summary[j].expired
          /\ scan'[w].summary[j].ready /\ ~scan'[w].summary[j].rewriting => RewritesOver(j)
      BY <2>1 DEF WorkersMove, MergeInv, SummariesHold
    <2>3. RewritesOver(j) => RewritesOver(j)'
      BY RewritesStayOver
    <2> QED BY <2>2, <2>3
  <1>3. BatchesChosen'
    <2>1. SUFFICES ASSUME NEW w \in Worker, pc'[w] \in {"claimed", "compacting"}
                   PROVE  Chosen(batch[w])'
      BY DEF BatchesChosen
    <2>2. batch'[w] \in SUBSET DOMAIN rows /\ Chosen(batch'[w])
      BY <2>1 DEF WorkersMove
    <2>3. /\ \A p \in batch'[w] : ~ToRewrite(rows'[p]) /\ (Eligible(rows'[p]) \/ Normalized(rows'[p]))
          /\ \A p \in batch'[w] : batch'[w] = {p} => Eligible(rows'[p])
      BY <2>2, ChosenKept
    <2> QED BY <2>3 DEF Chosen, ToRewrite, Eligible, Normalized, Touches
  <1>4. Apart(rows)'
    BY DEF Apart, Done, NoPartner, Unmerged, Live, PhaseOf, Normalized, Touches, ToRewrite, GivenUp,
           SamePartition, FitsBytes, Eligible
  <1> QED BY <1>1, <1>2, <1>3, <1>4 DEF MergeParts

\* A worker that goes on to l without a batch to compact.
LEMMA ContinueMoves ==
  ASSUME MergeInv, NEW w \in Worker, NEW l \in {"idle", "rewriting", "maintain", "claiming", "down"},
         NEW B, Continue(w, l, B)
  PROVE  WorkersMove
  <1>1. pc'[w] = l /\ \A v \in Worker \ {w} : pc'[v] = pc[v] /\ scan'[v] = scan[v] /\ batch'[v] = batch[v]
    BY DEF Continue, MergeInv, PInv, Placed
  <1>2. ASSUME NEW v \in Worker \ {w}, pc[v] \in {"claimed", "compacting"}
        PROVE  batch[v] \subseteq DOMAIN rows /\ Chosen(batch[v])
    BY <1>2 DEF MergeInv, PInv, Placed, BatchesChosen
  <1> QED BY <1>1, <1>2 DEF WorkersMove, MergeInv, NothingForced, SummariesHold

\* Workers that stay where they are.
LEMMA StayMoves ==
  ASSUME MergeInv, UNCHANGED <<pc, batch, scan>>
  PROVE  WorkersMove
  <1>1. ASSUME NEW v \in Worker, pc[v] \in {"claimed", "compacting"}
        PROVE  batch[v] \subseteq DOMAIN rows /\ Chosen(batch[v])
    BY <1>1 DEF MergeInv, PInv, Placed, BatchesChosen
  <1> QED BY <1>1 DEF WorkersMove, MergeInv, NothingForced, SummariesHold

\* A step that does not touch the table.
LEMMA SameTableMoves ==
  ASSUME MergeInv, UNCHANGED storeVars
  PROVE  TableMoves
  <1>1. \A p \in DOMAIN rows : Harmless(rows[p], rows[p])
    BY RowsOK, HarmlessItself DEF MergeInv, PInv
  <1> QED BY <1>1 DEF TableMoves, storeVars, MergeInv, NothingForced

\* One that changes registered rows only.
LEMMA QuietMoves ==
  ASSUME MergeInv, Quiet, \A j \in Job : ~windowExpired'[j],
         NEW S, \A p \in DOMAIN rows \ S : rows'[p] = rows[p],
         \A p \in S \cap DOMAIN rows : Harmless(rows[p], rows'[p]) /\ ~rows'[p].finalizeRequested
  PROVE  TableMoves
  <1>1. \A p \in DOMAIN rows : Harmless(rows[p], rows[p])
    BY RowsOK, HarmlessItself DEF MergeInv, PInv
  <1>2. DOMAIN rows' = DOMAIN rows
    BY DEF Quiet
  <1>3. ASSUME NEW p \in DOMAIN rows
        PROVE  Harmless(rows[p], rows'[p]) /\ ~rows'[p].finalizeRequested
    BY <1>1 DEF MergeInv, NothingForced
  <1> QED BY <1>2, <1>3 DEF TableMoves, MergeInv, NothingForced

\* Or a single one.
LEMMA OneRowMoves ==
  ASSUME MergeInv, Quiet, \A j \in Job : ~windowExpired'[j],
         NEW x \in DOMAIN rows, \A p \in DOMAIN rows \ {x} : rows'[p] = rows[p],
         Harmless(rows[x], rows'[x]), ~rows'[x].finalizeRequested
  PROVE  TableMoves
  <1>1. \A p \in {x} \cap DOMAIN rows : Harmless(rows[p], rows'[p]) /\ ~rows'[p].finalizeRequested
    OBVIOUS
  <1> QED BY <1>1, QuietMoves

-----------------------------------------------------------------------------
(* The calls of the store that hand over nothing.                          *)

\* A row to be rewritten ends as anything but an artifact that is done.
LEMMA RewriteRowHarmless ==
  ASSUME NEW D, NEW r, NEW s, Follows(D, r, s), ToRewrite(r), ~s.importingAt,
         s.status \in {"READY", "IN_PROGRESS", "FAILED", "COMPACT_READY", "FINISHED"},
         s.status = "FINISHED" => s.shape.parts = 0
  PROVE  Harmless(r, s) /\ ~s.finalizeRequested
  <1>1. ~Done(s)
    BY DEF Done, PhaseOf, Normalized
  <1> QED BY <1>1 DEF Harmless, Follows, SameSource, RowOK

\* A row that is claimed, kept, released or failed by compaction.
LEMMA CompactRowHarmless ==
  ASSUME NEW D, NEW r, NEW s, Follows(D, r, s), r.status \in {"COMPACT_READY", "COMPACTING"},
         s.shape = r.shape, ~s.importingAt, s.status \in {"COMPACT_READY", "COMPACTING", "FAILED"},
         s.status = "COMPACTING" => r.status = "COMPACTING" \/ Eligible(r) \/ Normalized(r)
  PROVE  Harmless(r, s)
  <1>1. ~Done(s) /\ ~ToRewrite(r) /\ ~ToRewrite(s)
    BY DEF Done, PhaseOf, ToRewrite
  <1>2. Steady(r, s)
    BY DEF Steady, GivenUp, Follows, SameSource
  <1> QED BY <1>1, <1>2 DEF Harmless, Follows, SameSource

\* A row that is being imported.
LEMMA ImportRowHarmless ==
  ASSUME NEW D, NEW r, NEW s, Follows(D, r, s), r.status \in {"FINISHED", "IMPORTING"},
         s.shape = r.shape, s.status \in {"FINISHED", "IMPORTING", "IMPORTED", "FAILED"}
  PROVE  Harmless(r, s) /\ ~s.finalizeRequested
  <1>1. PhaseOf(r) # "open" /\ ~ToRewrite(r) /\ ~ToRewrite(s)
    BY DEF PhaseOf, ToRewrite
  <1>2. Steady(r, s)
    BY DEF Steady, GivenUp, Follows, SameSource
  <1>3. Unmerged(s) /\ Normalized(s) => Unmerged(r) /\ Normalized(r)
    BY DEF Unmerged, Normalized, Touches, Follows, SameSource
  <1> QED BY <1>1, <1>2, <1>3 DEF Harmless, Done, Follows, SameSource, RowOK

\* The calls of a rewrite.
LEMMA RewriteMoves ==
  ASSUME MergeInv, NEW w \in Worker, NEW x \in DOMAIN rows, RewriteStep(w, x)
  PROVE  TableMoves
  <1>1. rows[x] \in RowType(DOMAIN rows) /\ RowOK(rows[x]) /\ Inv
    BY RowsOK DEF MergeInv, PInv
  <1>2. ToRewrite(rows[x]) /\ ~rows[x].importingAt
    BY <1>1 DEF RewriteStep, ClaimNextReady, MarkCompactReady, MarkFailed, ReleaseInProgress,
                InProgressOwned, RowOK, ToRewrite
  <1>3. Quiet
    BY <1>1, ClaimNextReadyQuiet, MarkCompactReadyQuiet, MarkFailedQuiet, ReleaseInProgressQuiet
    DEF RewriteStep
  <1>4. /\ \A p \in DOMAIN rows \ {x} : rows'[p] = rows[p]
        /\ ~rows'[x].importingAt
        /\ rows'[x].status \in {"READY", "IN_PROGRESS", "FAILED", "COMPACT_READY", "FINISHED"}
        /\ rows'[x].status = "FINISHED" => rows'[x].shape.parts = 0
    <2>1. CASE ClaimNextReady(w, x)
      <3>1. rows'[x] = ClaimedRow(rows[x], w) /\ \A p \in DOMAIN rows \ {x} : rows'[p] = rows[p]
        BY <2>1 DEF ClaimNextReady, Inv, TypeOK, MergeInv, PInv
      <3> QED BY <3>1, <1>1, <1>2 DEF ClaimedRow, RowType
    <2>2. ASSUME NEW s \in Shape, MarkCompactReady(w, x, s)
          PROVE  <1>4!1 /\ <1>4!2 /\ <1>4!3 /\ <1>4!4
      <3>1. rows'[x] = RewrittenRow(rows[x], s) /\ \A p \in DOMAIN rows \ {x} : rows'[p] = rows[p]
        BY <2>2 DEF MarkCompactReady, Inv, TypeOK, MergeInv, PInv
      <3> QED BY <3>1, <1>1, <1>2 DEF RewrittenRow, RowType
    <2>3. CASE MarkFailed(w, x)
      <3>1. /\ rows'[x] = [rows[x] EXCEPT !.status = "FAILED", !.worker = NoWorker]
            /\ \A p \in DOMAIN rows \ {x} : rows'[p] = rows[p]
        BY <2>3 DEF MarkFailed, Inv, TypeOK, MergeInv, PInv
      <3> QED BY <3>1, <1>1, <1>2 DEF RowType
    <2>4. CASE ReleaseInProgress(w, x)
      <3>1. rows'[x] = UnclaimedRow(rows[x]) /\ \A p \in DOMAIN rows \ {x} : rows'[p] = rows[p]
        BY <2>4 DEF ReleaseInProgress, Inv, TypeOK, MergeInv, PInv
      <3> QED BY <3>1, <1>1, <1>2 DEF UnclaimedRow, RowType
    <2> QED BY <2>1, <2>2, <2>3, <2>4 DEF RewriteStep
  <1>5. \A j \in Job : ~windowExpired'[j]
    BY DEF RewriteStep, ClaimNextReady, MarkCompactReady, MarkFailed, ReleaseInProgress,
           MergeInv, NothingForced, PInv, Inv, TypeOK
  <1>6. Harmless(rows[x], rows'[x]) /\ ~rows'[x].finalizeRequested
    BY <1>2, <1>3, <1>4, RewriteRowHarmless DEF Quiet
  <1> QED BY <1>3, <1>4, <1>5, <1>6, OneRowMoves

\* The importer's calls.
LEMMA ImportMoves ==
  ASSUME MergeInv, NEW x \in DOMAIN rows,
         MarkImporting(x) \/ MarkImported(x) \/ ReleaseImport(x) \/ MarkImportFailed(x)
  PROVE  TableMoves
  <1>1. rows[x] \in RowType(DOMAIN rows) /\ Inv
    BY RowsOK DEF MergeInv, PInv
  <1>2. Quiet
    BY <1>1, MarkImportingQuiet, MarkImportedQuiet, ReleaseImportQuiet, MarkImportFailedQuiet
  <1>3. /\ \A p \in DOMAIN rows \ {x} : rows'[p] = rows[p]
        /\ rows[x].status \in {"FINISHED", "IMPORTING"} /\ rows'[x].shape = rows[x].shape
        /\ rows'[x].status \in {"FINISHED", "IMPORTING", "IMPORTED", "FAILED"}
    BY <1>1 DEF MarkImporting, MarkImported, ReleaseImport, MarkImportFailed, RowType, Inv, TypeOK
  <1>4. Harmless(rows[x], rows'[x]) /\ ~rows'[x].finalizeRequested
    BY <1>2, <1>3, ImportRowHarmless DEF Quiet
  <1>5. \A j \in Job : ~windowExpired'[j]
    BY DEF MarkImporting, MarkImported, ReleaseImport, MarkImportFailed, MergeInv, NothingForced
  <1> QED BY <1>2, <1>3, <1>4, <1>5, OneRowMoves

\* The end of a lease, and a heartbeat on a row of a batch.
LEMMA LeaseMoves ==
  ASSUME MergeInv, NEW x \in DOMAIN rows,
         \/ LeaseExpires(x)
         \/ \E w \in Worker : HeartbeatCompactPart(w, x) /\ (Eligible(rows[x]) \/ Normalized(rows[x]))
  PROVE  TableMoves
  <1>1. rows[x] \in RowType(DOMAIN rows) /\ RowOK(rows[x]) /\ Inv
    BY RowsOK DEF MergeInv, PInv
  <1>2. Quiet
    BY <1>1, LeaseExpiresQuiet, HeartbeatCompactPartQuiet
  <1>3. /\ \A p \in DOMAIN rows \ {x} : rows'[p] = rows[p]
        /\ rows[x].status \in {"COMPACT_READY", "COMPACTING"}
        /\ rows'[x].shape = rows[x].shape /\ rows'[x].status = "COMPACTING"
        /\ rows'[x].importingAt = rows[x].importingAt
        /\ rows'[x].finalizeRequested = rows[x].finalizeRequested
    <2>1. CASE LeaseExpires(x)
      BY <2>1, <1>1 DEF LeaseExpires, RowType, Inv, TypeOK
    <2>2. ASSUME NEW w \in Worker, HeartbeatCompactPart(w, x)
          PROVE  <1>3!1 /\ <1>3!2 /\ <1>3!3 /\ <1>3!4 /\ <1>3!5
      <3>1. rows'[x] = HeartbeatRow(rows[x], w) /\ \A p \in DOMAIN rows \ {x} : rows'[p] = rows[p]
        BY <2>2, <1>1 DEF HeartbeatCompactPart, Inv, TypeOK
      <3>2. rows[x].status \in {"COMPACT_READY", "COMPACTING"}
        BY <2>2 DEF HeartbeatCompactPart, CompactOwnedOrUnownedReady
      <3> QED BY <3>1, <3>2, <1>1 DEF HeartbeatRow, RowType
    <2> QED BY <2>1, <2>2
  <1>4. rows[x].status = "COMPACTING" \/ Eligible(rows[x]) \/ Normalized(rows[x])
    BY DEF LeaseExpires
  <1>5. ~rows[x].importingAt /\ ~rows[x].finalizeRequested
    BY <1>1, <1>3 DEF RowOK, MergeInv, NothingForced
  <1>6. Harmless(rows[x], rows'[x]) /\ ~rows'[x].finalizeRequested
    BY <1>2, <1>3, <1>4, <1>5, CompactRowHarmless DEF Quiet
  <1>7. \A j \in Job : ~windowExpired'[j]
    BY DEF LeaseExpires, HeartbeatCompactPart, MergeInv, NothingForced
  <1> QED BY <1>2, <1>3, <1>6, <1>7, OneRowMoves

\* A claim takes a fragmented artifact or several single-part ones.
LEMMA ClaimsAreChosen ==
  ASSUME NEW locked, NEW B \in CompactBatches(locked)
  PROVE  Chosen(B)
  <1>1. \A p \in B : ~ToRewrite(rows[p])
    BY ClaimedAreReady DEF ToRewrite
  <1>2. CASE Fragmented \ locked # {}
    BY <1>1, <1>2 DEF CompactBatches, FragmentedBatches, Fragmented, Chosen
  <1>3. CASE Fragmented \ locked = {}
    <2>1. PICK a : B \in SiblingBatches(a, locked)
      BY <1>3 DEF CompactBatches
    <2>2. Cardinality(B) \in 2 .. MaxArtifacts /\ \A p \in B : Normalized(rows[p])
      BY <2>1 DEF SiblingBatches
    <2>3. Cardinality(B) # 1
      BY <2>2, ConstantAssumption DEF ConstantAssumption
    <2>4. ASSUME NEW p \in B, B = {p}
          PROVE  FALSE
      BY <2>3, <2>4, FS_Singleton
    <2> QED BY <1>1, <2>2, <2>4 DEF Chosen
  <1> QED BY <1>2, <1>3

\* The calls of a compaction, except for its completion.
LEMMA BatchMoves ==
  ASSUME MergeInv, NEW w \in Worker, NEW B,
         \/ \E locked : ClaimNextCompactBatch(w, B, locked)
         \/ ReleaseCompactBatch(w, B, FALSE)
         \/ MarkCompactBatchFailed(w, B)
  PROVE  TableMoves
  <1>1. Inv /\ \A p \in DOMAIN rows : rows[p] \in RowType(DOMAIN rows) /\ RowOK(rows[p])
    BY RowsOK DEF MergeInv, PInv
  <1>2. Quiet
    BY <1>1, ClaimNextCompactBatchQuiet, ReleaseCompactBatchQuiet, MarkCompactBatchFailedQuiet
  <1>3. \A p \in DOMAIN rows : ~rows[p].finalizeRequested
    BY DEF MergeInv, NothingForced
  <1> DEFINE Moved(p) ==
               /\ rows[p].status \in {"COMPACT_READY", "COMPACTING"}
               /\ rows'[p].status \in {"COMPACT_READY", "COMPACTING", "FAILED"}
               /\ rows'[p].status = "COMPACTING" => Eligible(rows[p]) \/ Normalized(rows[p])
               /\ rows'[p].shape = rows[p].shape /\ rows'[p].importingAt = rows[p].importingAt
               /\ ~rows'[p].finalizeRequested
  <1>4. ASSUME NEW p \in B \cap DOMAIN rows
        PROVE  Moved(p)
    <2>1. ASSUME NEW locked, ClaimNextCompactBatch(w, B, locked)
          PROVE  Moved(p)
      <3>1. rows'[p] = CompactClaimedRow(rows[p], w)
        BY <2>1, <1>4 DEF ClaimNextCompactBatch, Apply
      <3>2. rows[p].status = "COMPACT_READY" /\ (Eligible(rows[p]) \/ Normalized(rows[p]))
        BY <2>1, <1>4, ClaimedAreReady, ClaimsAreChosen DEF ClaimNextCompactBatch, Chosen
      <3> QED BY <3>1, <3>2, <1>1, <1>3 DEF CompactClaimedRow, RowType
    <2>2. CASE ReleaseCompactBatch(w, B, FALSE)
      <3>1. rows'[p] = CompactReleasedRow(rows[p], FALSE)
        BY <2>2, <1>4 DEF ReleaseCompactBatch, Apply
      <3>2. rows[p].status \in {"COMPACT_READY", "COMPACTING"}
        BY <2>2, <1>4 DEF ReleaseCompactBatch, CompactOwnedOrUnownedReady
      <3>3. rows[p] \in RowType(DOMAIN rows) /\ ~rows[p].finalizeRequested
        BY <1>1, <1>3
      <3> QED BY <3>1, <3>2, <3>3 DEF CompactReleasedRow, RowType
    <2>3. CASE MarkCompactBatchFailed(w, B)
      <3>1. rows'[p] = CompactFailedRow(rows[p]) /\ rows[p].status = "COMPACTING"
        BY <2>3, <1>4 DEF MarkCompactBatchFailed, Apply
      <3> QED BY <3>1, <1>1, <1>3 DEF CompactFailedRow, RowType
    <2> QED BY <2>1, <2>2, <2>3
  <1>5. \A p \in DOMAIN rows \ B : rows'[p] = rows[p]
    BY DEF ClaimNextCompactBatch, ReleaseCompactBatch, MarkCompactBatchFailed, Apply
  <1>6. \A p \in B \cap DOMAIN rows : Harmless(rows[p], rows'[p]) /\ ~rows'[p].finalizeRequested
    <2>1. SUFFICES ASSUME NEW p \in B \cap DOMAIN rows
                   PROVE  Harmless(rows[p], rows'[p]) /\ ~rows'[p].finalizeRequested
      OBVIOUS
    <2>2. Follows(DOMAIN rows, rows[p], rows'[p]) /\ ~rows[p].importingAt
      BY <1>1, <1>2, <1>4 DEF Quiet, RowOK
    <2> QED BY <1>4, <2>2, CompactRowHarmless
  <1>7. \A j \in Job : ~windowExpired'[j]
    BY DEF ClaimNextCompactBatch, ReleaseCompactBatch, MarkCompactBatchFailed, MergeInv, NothingForced
  <1> QED BY <1>2, <1>5, <1>6, <1>7, QuietMoves

\* A part is uploaded before any rewrite.
LEMMA UploadMoves ==
  ASSUME MergeInv, NEW o \in Original, CreatePart(o), \A p \in DOMAIN rows : rows[p].status = "READY"
  PROVE  TableMoves
  <1>1. DOMAIN rows' = DOMAIN rows \cup {o} /\ rows'[o] = NewPart(o) /\ o \notin DOMAIN rows
    BY DEF CreatePart
  <1>2. \A p \in DOMAIN rows : rows'[p] = rows[p] /\ Harmless(rows[p], rows[p])
    BY RowsOK, HarmlessItself DEF CreatePart, MergeInv, PInv
  <1>3. ~Done(NewPart(o)) /\ ~NewPart(o).finalizeRequested
    BY DEF NewPart, Done, PhaseOf
  <1>4. \A p \in DOMAIN rows : ToRewrite(rows[p]) /\ ~Done(rows[p])
    BY RowsOK DEF ToRewrite, Done, PhaseOf, RowOK, MergeInv, PInv
  <1>5. \A j \in Job : ~windowExpired'[j]
    BY DEF CreatePart, MergeInv, NothingForced
  <1> QED BY <1>1, <1>2, <1>3, <1>4, <1>5 DEF TableMoves, MergeInv, NothingForced

\* An output that is unmerged comes from one fragmented artifact: it is a
\* partner of none that is done, for its input was none.
LEMMA ReductionMoves ==
  ASSUME MergeInv, NEW w \in Worker, NEW B \in SUBSET DOMAIN rows, Chosen(B),
         NEW s \in Reductions(B), CompleteCompaction(w, B, s)
  PROVE  TableMoves
  <1>1. Inv /\ \A p \in DOMAIN rows : rows[p] \in RowType(DOMAIN rows) /\ RowOK(rows[p])
    BY RowsOK DEF MergeInv, PInv
  <1>2. \A p \in DOMAIN rows : ~rows[p].finalizeRequested
    BY DEF MergeInv, NothingForced
  <1>3. PICK newest \in B :
          LET g   == rows[newest].generation + 1
              j   == rows[newest].job
              out == DeriveCompactPartID(B, g)
              status == IF \E p \in B : rows[p].finalizeRequested THEN "FINISHED" ELSE "COMPACT_READY"
              output == NewCompactPart(j, B, g, s, status, BatchLineage(B))
              superseded == Apply(rows, B, LAMBDA r : SupersededRow(r, out))
          IN /\ \A p \in B : rows[p].generation < g /\ rows[p].job = j
             /\ \A p \in B : CompactOwnedOrUnownedReady(rows[p], w)
             /\ out \notin DOMAIN rows
             /\ rows' = [p \in DOMAIN rows \cup {out} |-> IF p = out THEN output ELSE superseded[p]]
             /\ UNCHANGED windowExpired
    BY DEF CompleteCompaction
  <1> DEFINE j == rows[newest].job
             out == DeriveCompactPartID(B, rows[newest].generation + 1)
             output == NewCompactPart(j, B, rows[newest].generation + 1, s, "COMPACT_READY", BatchLineage(B))
  <1>4. /\ DOMAIN rows' = DOMAIN rows \cup {out} /\ out \notin DOMAIN rows
        /\ rows'[out] = output
        /\ \A p \in B : rows'[p] = SupersededRow(rows[p], out)
        /\ \A p \in DOMAIN rows \ B : rows'[p] = rows[p]
    BY <1>2, <1>3 DEF Apply
  <1>5. \A p \in B : rows[p].job = j /\ rows[p].status \in {"COMPACT_READY", "COMPACTING"}
    BY <1>3 DEF CompactOwnedOrUnownedReady
  <1>6. /\ output.job = j /\ output.status = "COMPACT_READY" /\ output.shape = s
        /\ output.lineage = BatchLineage(B) /\ ~output.importingAt /\ ~output.finalizeRequested
    BY DEF NewCompactPart
  <1>7. \A jj \in Job : ~windowExpired'[jj]
    BY <1>3 DEF MergeInv, NothingForced
  <1> HIDE DEF out, output, j
  <1>8. \A p \in B : Harmless(rows[p], rows'[p]) /\ ~rows'[p].finalizeRequested
    <2>1. SUFFICES ASSUME NEW p \in B
                   PROVE  Harmless(rows[p], rows'[p]) /\ ~rows'[p].finalizeRequested
      OBVIOUS
    <2>2. /\ rows'[p].status = "SUPERSEDED" /\ rows'[p].shape = rows[p].shape
          /\ rows'[p].job = rows[p].job /\ rows'[p].lineage = rows[p].lineage
          /\ ~rows'[p].finalizeRequested
      <3>1. rows[p] \in RowType(DOMAIN rows) /\ rows'[p] = SupersededRow(rows[p], out)
        BY <1>1, <1>4
      <3> QED BY <3>1 DEF SupersededRow, RowType
    <2> QED BY <2>2, <1>5 DEF Harmless, Steady, ToRewrite, Done, Unmerged, Live, GivenUp
  <1>9. \A p \in DOMAIN rows \ B : Harmless(rows[p], rows'[p]) /\ ~rows'[p].finalizeRequested
    BY <1>1, <1>2, <1>4, HarmlessItself
  <1>10. ~Done(output) /\ ~ToRewrite(output)
    BY <1>6 DEF Done, PhaseOf, ToRewrite
  <1>11. ASSUME NEW p \in DOMAIN rows, Done(rows[p]), rows[p].job = j
         PROVE  NoPartner(rows[p], output)
    <2>1. SUFFICES ASSUME Unmerged(output), SamePartition(rows[p], output)
                   PROVE  FALSE
      BY <1>10 DEF NoPartner
    <2>2. PICK q \in Partition : Touches(rows[p], q) /\ Touches(output, q)
      BY <2>1 DEF SamePartition
    <2>3. PICK f \in B : Touches(rows[f], q)
      BY <2>2, <1>6 DEF Reductions, Touches
    <2>4. \A x, y \in BatchLineage(B) : x = y
      BY <2>1, <1>6 DEF Unmerged
    <2>5. \A x \in B : rows[x].lineage \subseteq BatchLineage(B) /\ rows[x].lineage # {} /\ Live(rows[x])
      BY <1>5 DEF BatchLineage, MergeInv, Mapped, Live
    <2>6. B = {f}
      <3>1. ASSUME NEW x \in B, x # f
            PROVE  FALSE
        <4>1. rows[x].lineage \cap rows[f].lineage = {}
          BY <2>5, <3>1, <1>1 DEF Inv, ExactlyOnce, NothingTwice
        <4>2. PICK a \in rows[x].lineage : TRUE
          BY <2>5
        <4>3. PICK b \in rows[f].lineage : TRUE
          BY <2>5
        <4> QED BY <2>4, <2>5, <4>1, <4>2, <4>3
      <3> QED BY <3>1
    <2>7. Eligible(rows[f]) /\ f \in DOMAIN rows
      BY <2>6 DEF Chosen
    <2>8. ~Normalized(rows[f])
      <3>1. rows[f].shape.counts \in [Partition -> Nat]
        BY <2>7, <1>1 DEF RowType, ShapeType
      <3> QED BY <2>7, <3>1 DEF Eligible, Normalized, Touches
    <2>9. Unmerged(rows[f]) /\ ~GivenUp(rows[f]) /\ SamePartition(rows[p], rows[f])
      BY <2>2, <2>3, <2>4, <2>5, <1>5 DEF Unmerged, GivenUp, SamePartition
    <2>10. p # f
      BY <1>11, <1>5, <1>1, <2>7 DEF Done, PhaseOf, RowOK
    <2>11. NoPartner(rows[p], rows[f])
      BY <1>11, <1>5, <2>7, <2>10 DEF MergeInv, Apart
    <2> QED BY <2>7, <2>8, <2>9, <2>11, <1>5 DEF NoPartner
  <1> QED BY <1>4, <1>6, <1>7, <1>8, <1>9, <1>10, <1>11 DEF TableMoves

-----------------------------------------------------------------------------
(* Maintenance.                                                            *)

\* While the window is open, what is finalized is a single-part artifact, in a
\* job whose summary knows of no rewrite, and nothing may still merge with it.
LEMMA FinalizedAlone ==
  ASSUME Undisturbed, NEW R, NEW j, NEW m, ~m.expired, NEW p \in Finalizable(R, j, m)
  PROVE  /\ p \in DOMAIN R /\ R[p].job = j /\ R[p].status = "COMPACT_READY" /\ Normalized(R[p])
         /\ m.ready /\ ~m.rewriting /\ ~MayStillMerge(R, p)
  BY DEF Undisturbed, Finalizable

\* An artifact that is finalized has no partner left in the table R.
LEMMA FinalizedHasNoPartner ==
  ASSUME NEW R, NEW p \in DOMAIN R, NEW s \in DOMAIN R, p # s, R[s].job = R[p].job,
         R[p].shape.bytes \in Nat, R[s].shape.bytes \in Nat, R[s].status \in Status,
         R[p].status = "COMPACT_READY", Unmerged(R[p]), Normalized(R[p]), ~MayStillMerge(R, p),
         ~ToRewrite(R[s]), Apart(R)
  PROVE  NoPartner(R[p], R[s])
  <1>1. SUFFICES ASSUME Unmerged(R[s]), ~GivenUp(R[s]), SamePartition(R[p], R[s])
                 PROVE  IF Normalized(R[s]) THEN ~FitsBytes(R[p].shape.bytes + R[s].shape.bytes)
                        ELSE R[s].status # "COMPACTING" /\ ~(R[s].status = "COMPACT_READY" /\ Eligible(R[s]))
    BY DEF NoPartner
  <1>2. SamePartition(R[s], R[p])
    BY <1>1 DEF SamePartition
  <1>3. /\ R[s].status # "COMPACTING"
        /\ R[s].status = "COMPACT_READY" => ~Eligible(R[s])
        /\ R[s].status = "COMPACT_READY" /\ Normalized(R[s])
             => ~FitsBytes(R[s].shape.bytes + R[p].shape.bytes)
    BY <1>2 DEF MayStillMerge, MergeableSibling
  <1>4. R[s].shape.bytes + R[p].shape.bytes = R[p].shape.bytes + R[s].shape.bytes
    OBVIOUS
  <1>5. CASE R[s].status = "COMPACT_READY"
    BY <1>3, <1>4, <1>5
  <1>6. CASE R[s].status # "COMPACT_READY" /\ Normalized(R[s])
    <2>1. R[s].status \in {"FINISHED", "IMPORTING", "IMPORTED", "FAILED"}
      BY <1>1, <1>3, <1>6 DEF Status, ToRewrite, Unmerged, Live
    <2>2. Done(R[s])
      BY <1>1, <1>6, <2>1 DEF Done, PhaseOf, GivenUp
    <2>3. NoPartner(R[s], R[p])
      BY <2>2 DEF Apart
    <2>4. ~FitsBytes(R[s].shape.bytes + R[p].shape.bytes)
      BY <1>2, <2>3 DEF NoPartner, GivenUp
    <2> QED BY <1>4, <1>6, <2>4
  <1> QED BY <1>3, <1>5, <1>6

\* Maintenance hands over artifacts without a partner, whatever has happened
\* since it read the summaries.
LEMMA MaintenanceApart ==
  ASSUME MergeInv, Undisturbed, NEW w \in Worker, pc[w] = "maintaining",
         MaintainCompaction(scan[w].stale, scan[w].summary)
  PROVE  Onward /\ Apart(rows')
  <1> DEFINE S == scan[w].stale
             m == scan[w].summary
             R == ReleasedStale(rows, S)
             F == UNION {Finalizable(R, j, m[j]) : j \in Job}
  <1>1. Inv /\ \A p \in DOMAIN rows : /\ rows[p] \in RowType(DOMAIN rows) /\ RowOK(rows[p])
                                      /\ ~rows[p].finalizeRequested
    BY RowsOK DEF MergeInv, PInv, NothingForced
  <1>2. /\ R = [p \in DOMAIN rows |-> IF p \in S THEN CompactReleasedRow(rows[p], FALSE) ELSE rows[p]]
        /\ S \subseteq Stale
    BY DEF ReleasedStale, Apply, MaintainCompaction
  <1>3. rows' = [p \in DOMAIN R |-> IF p \in F THEN [R[p] EXCEPT !.status = "FINISHED"] ELSE R[p]]
    BY DEF MaintainCompaction, Finalized, Apply
  <1>4. \A j \in Job : ~m[j].expired /\ (m[j].ready /\ ~m[j].rewriting => RewritesOver(j))
    BY DEF MergeInv, SummariesHold
  <1>5. \A p \in F : /\ p \in DOMAIN R /\ R[p].job \in Job /\ R[p].status = "COMPACT_READY"
                     /\ Normalized(R[p]) /\ ~MayStillMerge(R, p) /\ RewritesOver(R[p].job)
    BY <1>4, FinalizedAlone
  <1>6. \A j \in Job : ~windowExpired'[j]
    BY DEF MaintainCompaction, MergeInv, NothingForced
  <1> HIDE DEF R, F, S, m
  <1>7. DOMAIN R = DOMAIN rows /\ DOMAIN rows' = DOMAIN rows
    BY <1>2, <1>3
  <1>8. ASSUME NEW p \in DOMAIN rows
        PROVE  /\ R[p] \in RowType(DOMAIN rows) /\ Follows(DOMAIN rows, rows[p], R[p])
               /\ Harmless(rows[p], R[p]) /\ R[p].shape = rows[p].shape
               /\ ToRewrite(R[p]) <=> ToRewrite(rows[p])
               /\ ~R[p].finalizeRequested
    <2>1. CASE p \in S
      <3>1. R[p] = CompactReleasedRow(rows[p], FALSE) /\ rows[p].status = "COMPACTING"
        BY <2>1, <1>2, <1>8 DEF Stale
      <3>2. Follows(DOMAIN rows, rows[p], R[p])
        BY <3>1, <1>1, CompactReleasedRowFollows
      <3>3. rows[p] \in RowType(DOMAIN rows) /\ ~rows[p].finalizeRequested /\ ~rows[p].importingAt
        BY <3>1, <1>1 DEF RowOK
      <3>4. /\ R[p].shape = rows[p].shape /\ ~R[p].importingAt /\ R[p].status = "COMPACT_READY"
            /\ ~R[p].finalizeRequested
        BY <3>1, <3>3 DEF CompactReleasedRow, RowType
      <3>5. Harmless(rows[p], R[p])
        BY <3>1, <3>2, <3>4, CompactRowHarmless
      <3> QED BY <3>1, <3>2, <3>4, <3>5 DEF ToRewrite, Follows
    <2>2. CASE p \notin S
      BY <2>2, <1>1, <1>2, HarmlessItself, FollowsItself
    <2> QED BY <2>1, <2>2
  <1>9. Apart(R)
    <2>1. Apart(rows) /\ DOMAIN rows \subseteq DOMAIN R /\ DOMAIN R \ DOMAIN rows = {}
      BY <1>7 DEF MergeInv
    <2> QED BY <2>1, <1>8, HarmlessApart
  <1>10. ASSUME NEW p \in DOMAIN rows
         PROVE  /\ rows'[p].job = rows[p].job /\ rows'[p].job = R[p].job
                /\ rows'[p].shape = rows[p].shape /\ rows'[p].shape = R[p].shape
                /\ rows'[p].lineage = R[p].lineage
                /\ ~rows'[p].finalizeRequested
                /\ p \in F => rows'[p].status = "FINISHED"
                /\ p \notin F => rows'[p] = R[p]
    <2>1. /\ rows'[p] = IF p \in F THEN [R[p] EXCEPT !.status = "FINISHED"] ELSE R[p]
          /\ R[p].job = rows[p].job /\ R[p] \in RowType(DOMAIN rows)
      BY <1>3, <1>7, <1>8 DEF Harmless
    <2> QED BY <2>1, <1>8 DEF RowType
  <1>11. Onward
    <2>1. ASSUME NEW p \in DOMAIN rows, ~ToRewrite(rows[p])
          PROVE  ~ToRewrite(rows'[p])
      BY <2>1, <1>8, <1>10 DEF ToRewrite
    <2> QED BY <1>6, <1>7, <1>10, <2>1 DEF Onward
  <1>12. Apart(rows')
    <2>1. SUFFICES ASSUME NEW p \in DOMAIN rows, NEW s \in DOMAIN rows, p # s,
                          rows'[p].job = rows'[s].job, Done(rows'[p])
                   PROVE  NoPartner(rows'[p], rows'[s])
      BY <1>7 DEF Apart
    <2>2. NoPartner(R[p], R[s])
      <3>1. CASE p \in F
        <4>1. /\ R[p].status = "COMPACT_READY" /\ Normalized(R[p]) /\ ~MayStillMerge(R, p)
              /\ RewritesOver(R[p].job)
          BY <3>1, <1>5
        <4>2. R[s].job = R[p].job /\ ~ToRewrite(R[s])
          BY <4>1, <2>1, <1>8, <1>10 DEF RewritesOver
        <4>3. Unmerged(R[p])
          BY <4>1, <2>1, <1>10 DEF Done, Unmerged, Live
        <4>4. R[p].shape.bytes \in Nat /\ R[s].shape.bytes \in Nat /\ R[s].status \in Status
          BY <1>8 DEF RowType, ShapeType
        <4> QED BY <4>1, <4>2, <4>3, <4>4, <2>1, <1>7, <1>9, FinalizedHasNoPartner
      <3>2. CASE p \notin F
        BY <3>2, <2>1, <1>7, <1>9, <1>10 DEF Apart
      <3> QED BY <3>1, <3>2
    <2>3. CASE s \notin F
      BY <2>2, <2>3, <1>10, NoPartnerOfSameShape
    <2>4. CASE s \in F
      <3>1. Steady(R[s], rows'[s]) /\ ~ToRewrite(rows'[s])
        BY <2>4, <1>5, <1>10 DEF Steady, ToRewrite, GivenUp, Live
      <3>2. NoPartner(R[p], rows'[s])
        BY <2>2, <3>1, <1>10, SteadyNoPartner
      <3> QED BY <3>2, <1>10, NoPartnerOfSameShape
    <2> QED BY <2>3, <2>4
  <1> QED BY <1>11, <1>12

-----------------------------------------------------------------------------
(* Every step of an undisturbed pipeline.                                  *)

\* A step that only moves rows on and leaves worker w, if it moves one, with
\* nothing to compact.
LEMMA MovesOnKeeps ==
  ASSUME MergeInv, TableMoves, WorkersMove
  PROVE  MergeParts'
  BY TableMovesOnward, MovesKeepMergeParts

\* runWorker's steps.
LEMMA RewriteKeepsApart ==
  ASSUME MergeInv, NEW w \in Worker, Rewrite(w) \/ RewriteFails(w)
  PROVE  MergeParts'
  <1>1. batch[w] \subseteq DOMAIN rows
    BY DEF MergeInv, PInv, Placed
  <1>2. TableMoves
    <2>1. CASE NoReadyPart(w) \/ RewriteLost(w)
      BY <2>1, SameTableMoves DEF NoReadyPart, RewriteLost
    <2>2. CASE \E x \in DOMAIN rows : RewriteStep(w, x)
      BY <2>2, RewriteMoves
    <2>3. CASE ClaimReady(w) \/ RewriteDone(w) \/ RewriteFails(w) \/ RewriteReleased(w)
      BY <2>2, <2>3, <1>1 DEF ClaimReady, RewriteDone, RewriteFails, RewriteReleased, RewriteStep
    <2> QED BY <2>1, <2>3 DEF Rewrite
  <1>3. \E l \in {"idle", "rewriting", "maintain", "down"} : \E B : Continue(w, l, B)
    BY DEF Rewrite, ClaimReady, NoReadyPart, RewriteDone, RewriteFails, RewriteReleased, RewriteLost, Exit
  <1>4. WorkersMove
    BY <1>3, ContinueMoves
  <1> QED BY <1>2, <1>4, MovesOnKeeps

\* A summary that is read now tells whether rewrites are left.
LEMMA SummaryTells ==
  ASSUME MergeInv, NEW j \in Job, NEW m, m = JobSummary(ReleasedStale(rows, Stale), j)
  PROVE  ~m.expired /\ (m.ready /\ ~m.rewriting => RewritesOver(j))
  <1> DEFINE R == ReleasedStale(rows, Stale)
  <1>1. /\ DOMAIN R = DOMAIN rows
        /\ \A p \in DOMAIN rows : R[p] = IF p \in Stale THEN CompactReleasedRow(rows[p], FALSE) ELSE rows[p]
    BY DEF ReleasedStale, Apply
  <1>2. ASSUME NEW p \in DOMAIN rows
        PROVE  /\ R[p].job = rows[p].job
               /\ R[p].status = "COMPACT_READY" => ~ToRewrite(rows[p])
               /\ ToRewrite(rows[p]) => R[p] = rows[p]
    <2>1. CASE p \in Stale
      <3>1. rows[p] \in RowType(DOMAIN rows) /\ R[p] = CompactReleasedRow(rows[p], FALSE)
        BY <2>1, <1>1, RowsOK DEF MergeInv, PInv
      <3> QED BY <3>1, <2>1 DEF CompactReleasedRow, RowType, Stale, ToRewrite
    <2>2. CASE p \notin Stale
      BY <2>2, <1>1 DEF ToRewrite
    <2> QED BY <2>1, <2>2
  <1> HIDE DEF R
  <1>3. /\ m.ready <=> \E p \in DOMAIN R : R[p].job = j /\ R[p].status \in {"COMPACT_READY"}
        /\ m.rewriting <=> \E p \in DOMAIN R : R[p].job = j /\ R[p].status \in {"READY", "IN_PROGRESS"}
        /\ m.expired = windowExpired[j]
    <2>1. m = JobSummary(R, j)
      BY DEF R
    <2> QED BY <2>1 DEF JobSummary
  <1>4. ~m.expired
    BY <1>3 DEF MergeInv, NothingForced
  <1>5. ASSUME m.ready, ~m.rewriting
        PROVE  RewritesOver(j)
    BY <1>1, <1>2, <1>3, <1>5 DEF RewritesOver, ToRewrite
  <1> QED BY <1>4, <1>5

\* Maintenance.
LEMMA MaintainKeepsApart ==
  ASSUME MergeInv, Undisturbed, NEW w \in Worker, Maintain(w)
  PROVE  MergeParts'
  <1>1. CASE MaintainScan(w)
    <2> DEFINE summary == [j \in Job |-> JobSummary(ReleasedStale(rows, Stale), j)]
    <2>1. /\ pc' = [pc EXCEPT ![w] = "maintaining"] /\ UNCHANGED <<rows, windowExpired, batch>>
          /\ scan' = [scan EXCEPT ![w] = [stale |-> Stale, summary |-> summary]]
      BY <1>1 DEF MaintainScan, storeVars
    <2>2. \A j \in Job : LET m == summary[j] IN ~m.expired /\ (m.ready /\ ~m.rewriting => RewritesOver(j))
      BY SummaryTells
    <2> HIDE DEF summary
    <2>3. /\ pc'[w] = "maintaining" /\ scan'[w].summary = summary
          /\ \A v \in Worker \ {w} : pc'[v] = pc[v] /\ scan'[v] = scan[v]
      BY <2>1 DEF MergeInv, PInv, Placed
    <2>4. ASSUME NEW v \in Worker, pc[v] \in {"claimed", "compacting"}
          PROVE  batch[v] \subseteq DOMAIN rows /\ Chosen(batch[v])
      BY <2>4 DEF MergeInv, PInv, Placed, BatchesChosen
    <2>5. WorkersMove
      BY <2>1, <2>2, <2>3, <2>4 DEF WorkersMove, MergeInv, NothingForced, SummariesHold
    <2>6. TableMoves
      BY <2>1, SameTableMoves DEF storeVars
    <2> QED BY <2>5, <2>6, MovesOnKeeps
  <1>2. CASE MaintainCommit(w)
    <2>1. pc[w] = "maintaining" /\ MaintainCompaction(scan[w].stale, scan[w].summary)
      BY <1>2 DEF MaintainCommit, Running
    <2>2. \E l \in {"idle", "claiming"} : Continue(w, l, {})
      BY <1>2 DEF MaintainCommit
    <2>3. Onward /\ Apart(rows')
      BY <2>1, MaintenanceApart
    <2> QED BY <2>2, <2>3, ContinueMoves, MovesKeepMergeParts
  <1>3. CASE SkipMaintenance(w)
    <2>1. TableMoves /\ WorkersMove
      BY <1>3, SameTableMoves, ContinueMoves DEF SkipMaintenance
    <2> QED BY <2>1, MovesOnKeeps
  <1> QED BY <1>1, <1>2, <1>3 DEF Maintain

\* A worker that goes on with parts to compact.
LEMMA WorkMoves ==
  ASSUME MergeInv, NEW w \in Worker, NEW l \in {"claimed", "compacting"},
         NEW B \in SUBSET DOMAIN rows, Chosen(B), Continue(w, l, B)
  PROVE  WorkersMove
  <1>1. /\ pc'[w] = l /\ batch'[w] = B
        /\ \A v \in Worker \ {w} : pc'[v] = pc[v] /\ scan'[v] = scan[v] /\ batch'[v] = batch[v]
    BY DEF Continue, MergeInv, PInv, Placed
  <1>2. ASSUME NEW v \in Worker \ {w}, pc[v] \in {"claimed", "compacting"}
        PROVE  batch[v] \subseteq DOMAIN rows /\ Chosen(batch[v])
    BY <1>2 DEF MergeInv, PInv, Placed, BatchesChosen
  <1> QED BY <1>1, <1>2 DEF WorkersMove, MergeInv, NothingForced, SummariesHold

\* Batches that end without an output.
LEMMA EndKeepsApart ==
  ASSUME MergeInv, NEW w \in Worker, FailBatch(w) \/ ReleaseBatch(w, FALSE, "down")
  PROVE  MergeParts'
  <1>1. TableMoves
    BY SameTableMoves, BatchMoves DEF FailBatch, ReleaseBatch
  <1>2. \E B : Continue(w, "down", B)
    BY DEF FailBatch, ReleaseBatch, Exit
  <1>3. WorkersMove
    BY <1>2, ContinueMoves
  <1> QED BY <1>1, <1>3, MovesOnKeeps

\* runWorkerCompaction's steps: a batch is never handed over as it is.
LEMMA CompactKeepsApart ==
  ASSUME MergeInv, Undisturbed, NEW w \in Worker,
         Compact(w) \/ CompactFails(w) \/ ProtectionFails(w) \/ Heartbeat(w)
  PROVE  MergeParts'
  <1>1. pc[w] \in {"claimed", "compacting"} =>
          batch[w] \in SUBSET DOMAIN rows /\ Chosen(batch[w]) /\ ~windowExpired[JobOfBatch(w)]
    BY BatchJob DEF MergeInv, PInv, Placed, BatchesChosen, NothingForced, Holding
  <1>2. CASE ClaimNothing(w) \/ BatchLost(w)
    <2>1. TableMoves
      BY <1>2, SameTableMoves DEF ClaimNothing, BatchLost
    <2>2. WorkersMove
      BY <1>2, ContinueMoves DEF ClaimNothing, BatchLost, Exit
    <2> QED BY <2>1, <2>2, MovesOnKeeps
  <1>3. CASE ClaimCompact(w)
    <2>1. PICK locked \in MayBeLocked : \E B \in CompactBatches(locked) :
            ClaimNextCompactBatch(w, B, locked) /\ Continue(w, "claimed", B)
      BY <1>3 DEF ClaimCompact
    <2>2. PICK B \in CompactBatches(locked) :
            ClaimNextCompactBatch(w, B, locked) /\ Continue(w, "claimed", B)
      BY <2>1
    <2>3. B \in SUBSET DOMAIN rows /\ Chosen(B)
      BY ClaimedAreReady, ClaimsAreChosen
    <2>4. TableMoves
      BY <2>2, BatchMoves
    <2>5. WorkersMove
      BY <2>2, <2>3, WorkMoves
    <2> QED BY <2>4, <2>5, MovesOnKeeps
  <1>4. CASE DeadlineFails(w) \/ CompactFails(w) \/ ProtectionFails(w)
    BY <1>4, EndKeepsApart DEF DeadlineFails, CompactFails, ProtectionFails
  <1>5. CASE StartCompaction(w)
    <2>1. TableMoves
      BY <1>5, SameTableMoves DEF StartCompaction
    <2>2. WorkersMove
      BY <1>1, <1>5, WorkMoves DEF StartCompaction
    <2> QED BY <2>1, <2>2, MovesOnKeeps
  <1>6. ~TooLate(w) /\ ~FinalizeScan(w) /\ ~FinalizeCommit(w)
    BY <1>1 DEF TooLate, Running, FinalizeScan, FinalizeCommit, MergeInv, NothingForced
  <1>7. CASE NotReduced(w)
    <2>1. shutdown[w]
      BY <1>1, <1>7 DEF NotReduced, Occurs, Undisturbed, MergeInv, NothingForced
    <2>2. ReleaseBatch(w, FALSE, "down")
      BY <1>7, <2>1 DEF NotReduced
    <2> QED BY <2>2, EndKeepsApart
  <1>8. CASE Reduced(w)
    <2>1. PICK s \in Reductions(batch[w]) : CompleteCompaction(w, batch[w], s)
      BY <1>8 DEF Reduced
    <2>2. TableMoves
      BY <1>1, <1>8, <2>1, ReductionMoves DEF Reduced
    <2>3. WorkersMove
      BY <1>8, ContinueMoves DEF Reduced
    <2> QED BY <2>2, <2>3, MovesOnKeeps
  <1>9. CASE Heartbeat(w)
    <2>1. PICK p \in batch[w] : HeartbeatCompactPart(w, p)
      BY <1>9 DEF Heartbeat
    <2>2. p \in DOMAIN rows /\ (Eligible(rows[p]) \/ Normalized(rows[p]))
      BY <1>1, <1>9, <2>1 DEF Heartbeat, Chosen
    <2>3. TableMoves
      BY <2>1, <2>2, LeaseMoves
    <2>4. WorkersMove
      BY <1>9, StayMoves DEF Heartbeat, workerVars
    <2> QED BY <2>3, <2>4, MovesOnKeeps
  <1> QED BY <1>2, <1>3, <1>4, <1>5, <1>6, <1>7, <1>8, <1>9 DEF Compact

\* Everything around the workers.
LEMMA OthersKeepApart ==
  ASSUME MergeInv, Undisturbed, [Next]_vars,
         ~ \E w \in Worker : Rewrite(w) \/ RewriteFails(w) \/ Maintain(w) \/ Compact(w) \/ CompactFails(w)
                             \/ ProtectionFails(w) \/ Heartbeat(w)
  PROVE  MergeParts'
  <1>1. ASSUME NEW w \in Worker, Stop(w) \/ Crash(w) \/ Restart(w)
        PROVE  MergeParts'
    <2>1. TableMoves
      BY <1>1, SameTableMoves DEF Stop, Crash, Restart
    <2>2. WorkersMove
      BY <1>1, ContinueMoves DEF Stop, Crash, Restart, Exit
    <2> QED BY <2>1, <2>2, MovesOnKeeps
  <1>2. CASE (\E w \in Worker : Shutdown(w)) \/ MaintenanceTick \/ UNCHANGED vars
    <2>1. TableMoves
      BY <1>2, SameTableMoves DEF Shutdown, MaintenanceTick, vars, storeVars
    <2>2. WorkersMove
      BY <1>2, StayMoves DEF Shutdown, MaintenanceTick, vars, workerVars
    <2> QED BY <2>1, <2>2, MovesOnKeeps
  <1>3. ASSUME NEW p \in DOMAIN rows, LeaseRunsOut(p) \/ ImportStarts(p) \/ ImportEnds(p)
        PROVE  MergeParts'
    <2>1. TableMoves
      BY <1>3, LeaseMoves, ImportMoves DEF LeaseRunsOut, ImportStarts, ImportEnds
    <2>2. WorkersMove
      BY <1>3, StayMoves DEF LeaseRunsOut, ImportStarts, ImportEnds, workerVars
    <2> QED BY <2>1, <2>2, MovesOnKeeps
  <1>4. ASSUME NEW o \in Original, Upload(o)
        PROVE  MergeParts'
    <2>1. TableMoves
      BY <1>4, UploadMoves DEF Upload, Undisturbed
    <2>2. WorkersMove
      BY <1>4, StayMoves DEF Upload, workerVars
    <2> QED BY <2>1, <2>2, MovesOnKeeps
  <1>5. /\ \A p \in DOMAIN rows : ~Retry(p)
        /\ \A j \in Job : ~WindowRunsOut(j)
        /\ \A S \in SUBSET DOMAIN rows : ~FinalizeCompaction(S)
    BY DEF Retry, WindowRunsOut, FinalizeCompaction, Occurs, Undisturbed
  <1> QED BY <1>1, <1>2, <1>3, <1>4, <1>5 DEF Next, WorkerStep, FaultStep

\* No artifact is done when the pipeline starts.
LEMMA InitMergeInv == Init => MergeInv
  <1> SUFFICES ASSUME Init PROVE MergeInv
    OBVIOUS
  <1>1. PInv
    BY InitPInv
  <1>2. Mapped /\ Apart(rows) /\ NothingForced
    BY DEF Init, StoreInit, Mapped, Apart, NothingForced
  <1>3. SummariesHold /\ BatchesChosen
    BY DEF Init, SummariesHold, BatchesChosen
  <1> QED BY <1>1, <1>2, <1>3 DEF MergeInv

\* The invariant is inductive.
LEMMA NextMergeInv ==
  ASSUME Undisturbed, MergeInv, [Next]_vars
  PROVE  MergeInv'
  <1>1. PInv'
    BY NextPInv DEF MergeInv
  <1>2. Mapped'
    <2>1. CASE StoreNext
      BY <2>1, StepRefines DEF MergeInv, PInv
    <2>2. CASE UNCHANGED storeVars
      BY <2>2 DEF storeVars, Mapped, MergeInv
    <2> QED BY <2>1, <2>2, NextIsStoreStep DEF MergeInv
  <1>3. MergeParts'
    BY RewriteKeepsApart, MaintainKeepsApart, CompactKeepsApart, OthersKeepApart
  <1> QED BY <1>1, <1>2, <1>3 DEF MergeInv, MergeParts

\* While the window is open, two artifacts of a partition that were never
\* merged and fit the byte cap together are not both handed to the importer,
\* whatever claims, leases, crashes, shutdowns, failures and imports come
\* between the summaries maintenance reads and the rows it finishes.
THEOREM SiblingsLeftToMerge ==
  ASSUME Undisturbed
  PROVE  Spec => []SiblingsMerged
  <1>1. MergeInv /\ [Next]_vars => MergeInv'
    BY NextMergeInv
  <1>2. MergeInv => SiblingsMerged
    <2>1. SUFFICES ASSUME MergeInv, NEW p \in DOMAIN rows, NEW q \in DOMAIN rows, p # q,
                          Done(rows[p]), Done(rows[q]), rows[p].job = rows[q].job,
                          SamePartition(rows[p], rows[q])
                   PROVE  ~FitsBytes(rows[p].shape.bytes + rows[q].shape.bytes)
      BY DEF SiblingsMerged, Done
    <2>2. NoPartner(rows[p], rows[q])
      BY <2>1 DEF MergeInv, Apart
    <2>3. ~GivenUp(rows[q])
      BY <2>1 DEF Done, PhaseOf, GivenUp
    <2> QED BY <2>1, <2>2, <2>3 DEF NoPartner, Done
  <1> QED BY <1>1, <1>2, InitMergeInv, PTL DEF Spec
=============================================================================
