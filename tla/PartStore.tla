------------------------------ MODULE PartStore ------------------------------
(***************************************************************************)
(* The Postgres state store of partforge (package internal/state): one row *)
(* per part, and one action per exported operation of the Store.  Every    *)
(* operation is a single transaction that locks the rows it reads (SELECT  *)
(* ... FOR UPDATE) or a single conditional UPDATE, so an operation is one  *)
(* step.  The callers are left open: this module lets any worker, importer *)
(* or operator call any operation with any argument at any time.           *)
(*                                                                         *)
(* Time is abstracted to the two comparisons the store makes with it: a    *)
(* COMPACTING row's lease has run out (leaseExpired), and a job's compact  *)
(* window has run out (windowExpired).                                     *)
(***************************************************************************)
EXTENDS Integers, FiniteSets, FiniteSetsExt

CONSTANTS
  Original,      \* ids of the source parts registered by the upload commands
  Job,           \* job ids
  JobOf,         \* the job of each original part
  Worker,        \* worker ids
  NoWorker,      \* the empty worker_id
  Partition,     \* destination partition ids
  Shape,         \* what a rewrite or a compaction may produce
  MaxArtifacts,  \* CompactBatching.MaxArtifacts
  MaxBytes,      \* CompactBatching.MaxBytes, 0 disables the cap
  Windowed       \* is the compact window greater than zero?

ShapeType == [counts : [Partition -> Nat], parts : Nat, bytes : Nat]

ASSUME ConstantAssumption ==
  /\ JobOf \in [Original -> Job]
  /\ NoWorker \notin Worker
  /\ Shape \subseteq ShapeType
  /\ MaxArtifacts \in Nat
  /\ MaxBytes \in Nat
  /\ Windowed \in BOOLEAN

VARIABLES
  rows,           \* the state table: a row for each registered part id
  windowExpired   \* has the job's compact window run out?

storeVars == <<rows, windowExpired>>

Status == {"READY", "IN_PROGRESS", "COMPACT_READY", "COMPACTING", "SUPERSEDED",
           "FINISHED", "IMPORTING", "IMPORTED", "FAILED"}

-----------------------------------------------------------------------------
(* Rows.  `supersededBy' is empty or holds one id.  `lineage' is the set of *)
(* originals reached through compact_input_part_ids: the source parts whose *)
(* data the artifact holds.                                                 *)

EmptyShape == [counts |-> [q \in Partition |-> 0], parts |-> 0, bytes |-> 0]

NewPart(o) ==
  [job |-> JobOf[o], status |-> "READY", worker |-> NoWorker,
   generation |-> 0, inputs |-> {}, supersededBy |-> {},
   shape |-> EmptyShape, compactReadyAt |-> FALSE, finalizeRequested |-> FALSE,
   leaseExpired |-> FALSE, importingAt |-> FALSE, lineage |-> {o}]

\* The id is a hash of the generation and the sorted input ids.
DeriveCompactPartID(B, g) == [generation |-> g, inputs |-> B]

NewCompactPart(j, B, g, s, status, lineage) ==
  [job |-> j, status |-> status, worker |-> NoWorker,
   generation |-> g, inputs |-> B, supersededBy |-> {},
   shape |-> s, compactReadyAt |-> TRUE, finalizeRequested |-> FALSE,
   leaseExpired |-> FALSE, importingAt |-> FALSE, lineage |-> lineage]

IsGenerated(r) == r.inputs # {} \/ r.generation > 0

\* The scheduling columns derived on every full write of a row.
Eligible(r) == r.shape.parts > 0 /\ \E q \in Partition : r.shape.counts[q] > 1

Touches(r, q) == r.shape.counts[q] > 0

Normalized(r) ==
  /\ r.shape.parts = 1
  /\ \E q \in Partition :
       /\ r.shape.counts[q] = 1
       /\ \A q2 \in Partition \ {q} : ~Touches(r, q2)

SamePartition(r, s) == \E q \in Partition : Touches(r, q) /\ Touches(s, q)

Live(r) == r.status # "SUPERSEDED"

\* Mutant: the status is not checked, only the owner.
AnyUnownedRow(r, w) == r.worker \in {w, NoWorker}

\* The row belongs to the caller, or it is ready and nobody's.
CompactOwnedOrUnownedReady(r, w) ==
  \/ r.status = "COMPACTING" /\ r.worker = w
  \/ r.status = "COMPACT_READY" /\ r.worker = NoWorker

InProgressOwned(r, w) == r.status = "IN_PROGRESS" /\ r.worker = w

\* The table with every row of S rewritten by F.
Apply(R, S, F(_)) == [p \in DOMAIN R |-> IF p \in S THEN F(R[p]) ELSE R[p]]

-----------------------------------------------------------------------------
(* Registration and rewriting.                                             *)

CreatePart(o) ==
  /\ o \notin DOMAIN rows
  /\ rows' = [p \in DOMAIN rows \cup {o} |-> IF p = o THEN NewPart(o) ELSE rows[p]]
  /\ UNCHANGED windowExpired

\* claimPartInMemory
ClaimedRow(r, w) ==
  [r EXCEPT !.status = "IN_PROGRESS", !.worker = w, !.shape = EmptyShape]

\* Largest source first; which READY row that is does not matter here.
ClaimNextReady(w, p) ==
  /\ p \in DOMAIN rows
  /\ rows[p].status = "READY"
  /\ rows' = [rows EXCEPT ![p] = ClaimedRow(rows[p], w)]
  /\ UNCHANGED windowExpired

RewrittenRow(r, s) ==
  LET done == [r EXCEPT !.generation = 0, !.shape = s, !.worker = NoWorker]
  IN IF s.parts = 0
     THEN [done EXCEPT !.status = "FINISHED", !.compactReadyAt = FALSE]
     ELSE [done EXCEPT !.status = "COMPACT_READY", !.compactReadyAt = TRUE]

\* A new compact_ready_at restarts the job's window; an empty output has none.
MarkCompactReady(w, p, s) ==
  /\ p \in DOMAIN rows
  /\ InProgressOwned(rows[p], w)
  /\ rows' = [rows EXCEPT ![p] = RewrittenRow(rows[p], s)]
  /\ windowExpired' = IF s.parts > 0
                      THEN [windowExpired EXCEPT ![rows[p].job] = FALSE]
                      ELSE windowExpired

MarkFailed(w, p) ==
  /\ p \in DOMAIN rows
  /\ InProgressOwned(rows[p], w)
  /\ rows' = [rows EXCEPT ![p].status = "FAILED", ![p].worker = NoWorker]
  /\ UNCHANGED windowExpired

UnclaimedRow(r) ==
  [r EXCEPT !.status = "READY", !.worker = NoWorker, !.shape = EmptyShape]

ReleaseInProgress(w, p) ==
  /\ p \in DOMAIN rows
  /\ InProgressOwned(rows[p], w)
  /\ rows' = [rows EXCEPT ![p] = UnclaimedRow(rows[p])]
  /\ UNCHANGED windowExpired

-----------------------------------------------------------------------------
(* Claiming compaction work.                                               *)

Batching == MaxArtifacts >= 2

FitsBytes(n) == MaxBytes = 0 \/ n <= MaxBytes

\* Rows s and p could be merged by one batch.
MergeableSibling(R, p, s) ==
  /\ s # p
  /\ R[s].job = R[p].job
  /\ SamePartition(R[s], R[p])
  /\ R[s].status = "COMPACT_READY"
  /\ Normalized(R[s])
  /\ FitsBytes(R[s].shape.bytes + R[p].shape.bytes)

\* Mutant: the queue filter forgets the status.
ClaimableTwice == {p \in DOMAIN rows : /\ rows[p].status \in {"COMPACT_READY", "COMPACTING"}
                                       /\ ~windowExpired[rows[p].job]}

\* Queue filter: COMPACT_READY rows of jobs whose window is still open.
Claimable == {p \in DOMAIN rows : /\ rows[p].status = "COMPACT_READY"
                                  /\ ~windowExpired[rows[p].job]}

Fragmented == {p \in Claimable : Eligible(rows[p])}

\* The most fragmented of the artifacts in Q, alone.
FragmentedBatches(Q) ==
  {{p} : p \in {p \in Q : \A q \in Q : rows[q].shape.parts <= rows[p].shape.parts}}

\* The smallest of the normalized artifacts that can be merged with a sibling.
\* The claim skips rows another transaction holds locked; the look for a
\* sibling takes no lock and sees them.
Anchors(locked) ==
  LET mergeable == {p \in Claimable \ locked :
                      /\ Normalized(rows[p])
                      /\ \E s \in DOMAIN rows : MergeableSibling(rows, p, s)}
  IN {p \in mergeable : \A q \in mergeable : rows[p].shape.bytes <= rows[q].shape.bytes}

BatchBytes(B) == MapThenSumSet(LAMBDA p : rows[p].shape.bytes, B)

\* The smallest siblings of an anchor, as many as MaxArtifacts and the byte
\* cap admit, and at least two.
SiblingBatches(a, locked) ==
  LET candidates == {c \in DOMAIN rows \ locked : /\ rows[c].job = rows[a].job
                                                  /\ rows[c].status = "COMPACT_READY"
                                                  /\ Normalized(rows[c])
                                                  /\ SamePartition(rows[c], rows[a])}
  IN {B \in SUBSET candidates :
        /\ Cardinality(B) \in 2 .. MaxArtifacts
        /\ FitsBytes(BatchBytes(B))
        /\ \A x \in B, y \in candidates \ B :
             /\ rows[x].shape.bytes <= rows[y].shape.bytes
             /\ Cardinality(B) = MaxArtifacts \/ ~FitsBytes(BatchBytes(B \cup {y}))}

\* Fragmented artifacts first; otherwise normalized siblings of one partition.
CompactBatches(locked) ==
  IF Fragmented \ locked # {} THEN FragmentedBatches(Fragmented \ locked)
  ELSE IF Batching THEN UNION {SiblingBatches(a, locked) : a \in Anchors(locked)}
  ELSE {}

\* The claim comes back empty; of several anchors of the same size, one is
\* tried.
NothingToClaim(locked) ==
  /\ Fragmented \ locked = {}
  /\ \/ ~Batching
     \/ Anchors(locked) = {}
     \/ \E a \in Anchors(locked) : SiblingBatches(a, locked) = {}

CompactClaimedRow(r, w) ==
  [r EXCEPT !.status = "COMPACTING", !.worker = w, !.leaseExpired = FALSE]

ClaimNextCompactBatch(w, B, locked) ==
  /\ B \in CompactBatches(locked)
  /\ rows' = Apply(rows, B, LAMBDA r : CompactClaimedRow(r, w))
  /\ UNCHANGED windowExpired

-----------------------------------------------------------------------------
(* Working on a claimed batch.                                             *)

\* updateCompactProgress: a live lease keeps its claim time, an unclaimed row
\* is taken over with a lease that starts now.
HeartbeatRow(r, w) ==
  IF r.status = "COMPACTING"
  THEN [r EXCEPT !.worker = w]
  ELSE [r EXCEPT !.status = "COMPACTING", !.worker = w, !.leaseExpired = FALSE]

\* HeartbeatCompactBatch and UpdateCompactProgress run this statement once
\* for each part of the batch, each in a transaction of its own.
HeartbeatCompactPart(w, p) ==
  /\ p \in DOMAIN rows
  /\ CompactOwnedOrUnownedReady(rows[p], w)
  /\ rows' = [rows EXCEPT ![p] = HeartbeatRow(rows[p], w)]
  /\ UNCHANGED windowExpired

\* Mutant: the release ignores a pending finalization request.
ReleasedIgnoringRequest(r, finalize) ==
  [r EXCEPT !.status = IF finalize THEN "FINISHED" ELSE "COMPACT_READY",
            !.compactReadyAt = TRUE, !.worker = NoWorker,
            !.leaseExpired = FALSE, !.finalizeRequested = FALSE]

\* Mutant: the release does not clear the finalization request it serves.
ReleasedKeepingRequest(r, finalize) ==
  [r EXCEPT !.status = IF finalize \/ r.finalizeRequested THEN "FINISHED" ELSE "COMPACT_READY",
            !.compactReadyAt = TRUE, !.worker = NoWorker, !.leaseExpired = FALSE]

\* The release of a compacting row, by its worker or by maintenance.
CompactReleasedRow(r, finalize) ==
  [r EXCEPT !.status = IF finalize \/ r.finalizeRequested THEN "FINISHED" ELSE "COMPACT_READY",
            !.compactReadyAt = TRUE,
            !.worker = NoWorker,
            !.leaseExpired = FALSE,
            !.finalizeRequested = FALSE]

\* Mutant: rows are released without looking who has them now.
ReleaseUnchecked(w, B, finalize) ==
  /\ B \subseteq DOMAIN rows
  /\ rows' = Apply(rows, B, LAMBDA r : CompactReleasedRow(r, finalize))
  /\ UNCHANGED windowExpired

ReleaseCompactBatch(w, B, finalize) ==
  /\ B \subseteq DOMAIN rows
  /\ \A p \in B : CompactOwnedOrUnownedReady(rows[p], w)
  /\ rows' = Apply(rows, B, LAMBDA r : CompactReleasedRow(r, finalize))
  /\ UNCHANGED windowExpired

CompactFailedRow(r) ==
  [r EXCEPT !.status = "FAILED", !.worker = NoWorker,
            !.leaseExpired = FALSE, !.finalizeRequested = FALSE]

MarkCompactBatchFailed(w, B) ==
  /\ B \subseteq DOMAIN rows
  /\ \A p \in B : rows[p].status = "COMPACTING" /\ rows[p].worker = w
  /\ rows' = Apply(rows, B, CompactFailedRow)
  /\ UNCHANGED windowExpired

\* A compaction is registered only when it left fewer parts than it read, and
\* an artifact without parts cannot be uploaded.  Merging stays within the
\* partitions of its inputs.
Reductions(B) ==
  {s \in Shape :
     /\ 0 < s.parts /\ s.parts < MapThenSumSet(LAMBDA p : rows[p].shape.parts, B)
     /\ \A q \in Partition : s.counts[q] > 0 => \E p \in B : Touches(rows[p], q)}

\* Mutant: superseded_by names an id of the inputs' generation.
SupersededByWrongId(r, out) ==
  [r EXCEPT !.status = "SUPERSEDED", !.worker = NoWorker,
            !.supersededBy = {DeriveCompactPartID(out.inputs, out.generation - 1)},
            !.leaseExpired = FALSE, !.finalizeRequested = FALSE]

SupersededRow(r, out) ==
  [r EXCEPT !.status = "SUPERSEDED", !.supersededBy = {out}, !.worker = NoWorker,
            !.leaseExpired = FALSE, !.finalizeRequested = FALSE]

BatchLineage(B) == UNION {rows[p].lineage : p \in B}

\* Supersede the inputs and insert the output, one generation above the newest
\* of them, under an id that must be unused.
CompleteCompaction(w, B, s) ==
  \E newest \in B :
    LET g      == rows[newest].generation + 1
        j      == rows[newest].job
        out    == DeriveCompactPartID(B, g)
        status == IF \E p \in B : rows[p].finalizeRequested
                  THEN "FINISHED" ELSE "COMPACT_READY"
        output == NewCompactPart(j, B, g, s, status, BatchLineage(B))
        superseded == Apply(rows, B, LAMBDA r : SupersededRow(r, out))
    IN /\ B \subseteq DOMAIN rows
       /\ \A p \in B : rows[p].generation < g /\ rows[p].job = j
       /\ \A p \in B : CompactOwnedOrUnownedReady(rows[p], w)
       /\ out \notin DOMAIN rows
       /\ rows' = [p \in DOMAIN rows \cup {out} |->
                     IF p = out THEN output ELSE superseded[p]]
       /\ UNCHANGED windowExpired

-----------------------------------------------------------------------------
(* Maintenance: stale leases and finalization.                             *)

Stale == {p \in DOMAIN rows : rows[p].status = "COMPACTING" /\ rows[p].leaseExpired}

\* releaseStaleCompactingPartsTx
ReleasedStale(R, S) == Apply(R, S, LAMBDA r : CompactReleasedRow(r, FALSE))

\* What a job summary may say.
SummaryType ==
  {m \in [ready : BOOLEAN, blocked : BOOLEAN, rewriting : BOOLEAN,
          eligible : BOOLEAN, normalized : BOOLEAN, expired : BOOLEAN] :
     /\ m.rewriting => m.blocked
     /\ m.eligible \/ m.normalized => m.ready
     /\ m.expired => Windowed}

\* The job summary read by the first statement of finalizeCompactReadyTx.
JobSummary(R, j) ==
  LET statusIn(S) == \E p \in DOMAIN R : R[p].job = j /\ R[p].status \in S
      ready(P(_)) == \E p \in DOMAIN R : R[p].job = j /\ R[p].status = "COMPACT_READY" /\ P(R[p])
  IN [ready      |-> statusIn({"COMPACT_READY"}),
      blocked    |-> statusIn({"READY", "IN_PROGRESS", "COMPACTING", "FAILED"}),
      rewriting  |-> statusIn({"READY", "IN_PROGRESS"}),
      eligible   |-> ready(Eligible),
      normalized |-> ready(Normalized),
      expired    |-> windowExpired[j]]

\* Mutant: a sibling that is being compacted is forgotten.
MayMergeWithReady(R, p) ==
  \E s \in DOMAIN R :
    \/ MergeableSibling(R, p, s)
    \/ /\ s # p /\ R[s].job = R[p].job
       /\ R[s].status = "COMPACT_READY" /\ Eligible(R[s])
       /\ SamePartition(R[s], R[p])

\* Work that may still produce a merge partner for row p.
MayStillMerge(R, p) ==
  \E s \in DOMAIN R :
    \/ MergeableSibling(R, p, s)
    \/ /\ s # p
       /\ R[s].job = R[p].job
       /\ R[s].status = "COMPACTING" \/ (R[s].status = "COMPACT_READY" /\ Eligible(R[s]))
       /\ SamePartition(R[s], R[p])

\* Mutant: the end of the window does not finalize what cannot be merged.
FinalizableSingles(R, j, m) ==
  {p \in DOMAIN R :
     /\ R[p].job = j /\ R[p].status = "COMPACT_READY"
     /\ m.normalized /\ Normalized(R[p])
     /\ m.expired \/ ~(m.rewriting \/ MayStillMerge(R, p))}

\* The rows its second statement finishes: the summary m may be out of date,
\* the table R is not.
Finalizable(R, j, m) ==
  LET all == ~m.blocked /\ IF Windowed THEN m.expired ELSE ~m.eligible
  IN {p \in DOMAIN R :
        /\ R[p].job = j
        /\ R[p].status = "COMPACT_READY"
        /\ m.ready /\ (all \/ m.normalized)
        /\ IF Normalized(R[p])
           THEN m.expired \/ all \/ ~Batching \/ ~(m.rewriting \/ MayStillMerge(R, p))
           ELSE all}

Finalized(R, S) == Apply(R, S, LAMBDA r : [r EXCEPT !.status = "FINISHED"])

\* The commit of MaintainCompaction: the rows S released and, with the job
\* summaries m read after that release, the artifacts that are done.
MaintainCompaction(S, m) ==
  LET R == ReleasedStale(rows, S)
  IN /\ S \subseteq Stale
     /\ rows' = Finalized(R, UNION {Finalizable(R, j, m[j]) : j \in Job})
     /\ UNCHANGED windowExpired

FinalizeCompactReadyJob(j, m) ==
  /\ rows' = Finalized(rows, Finalizable(rows, j, m))
  /\ UNCHANGED windowExpired

\* Time: compact_stale_at falls behind the lease, the window runs out.
LeaseExpires(p) ==
  /\ p \in DOMAIN rows
  /\ rows[p].status = "COMPACTING" /\ ~rows[p].leaseExpired
  /\ rows' = [rows EXCEPT ![p].leaseExpired = TRUE]
  /\ UNCHANGED windowExpired

WindowExpires(j) ==
  /\ Windowed /\ ~windowExpired[j]
  /\ \E p \in DOMAIN rows : /\ rows[p].job = j /\ rows[p].compactReadyAt
                            /\ ~IsGenerated(rows[p])
  /\ windowExpired' = [windowExpired EXCEPT ![j] = TRUE]
  /\ UNCHANGED rows

-----------------------------------------------------------------------------
(* Operators' commands and the importer.                                   *)

FinalizeRequestedRow(r) ==
  IF r.status = "COMPACT_READY"
  THEN [r EXCEPT !.status = "FINISHED", !.finalizeRequested = FALSE]
  ELSE [r EXCEPT !.finalizeRequested = TRUE]

RequestCompactFinalization(S) ==
  /\ S \subseteq DOMAIN rows
  /\ \A p \in S : rows[p].status \in {"COMPACT_READY", "COMPACTING"}
  /\ rows' = Apply(rows, S, FinalizeRequestedRow)
  /\ UNCHANGED windowExpired

MarkImporting(p) ==
  /\ p \in DOMAIN rows
  /\ rows[p].status = "FINISHED"
  /\ rows' = [rows EXCEPT ![p].status = "IMPORTING", ![p].importingAt = TRUE]
  /\ UNCHANGED windowExpired

MarkImported(p) ==
  /\ p \in DOMAIN rows
  /\ rows[p].status = "IMPORTING"
  /\ rows' = [rows EXCEPT ![p].status = "IMPORTED"]
  /\ UNCHANGED windowExpired

ReleaseImport(p) ==
  /\ p \in DOMAIN rows
  /\ rows[p].status = "IMPORTING"
  /\ rows' = [rows EXCEPT ![p].status = "FINISHED", ![p].importingAt = FALSE]
  /\ UNCHANGED windowExpired

MarkImportFailed(p) ==
  /\ p \in DOMAIN rows
  /\ rows[p].status = "IMPORTING"
  /\ rows' = [rows EXCEPT ![p].status = "FAILED"]
  /\ UNCHANGED windowExpired

\* Mutant: a failed compaction is rewritten again.
RetryRewrites(r) == IF r.importingAt THEN "FINISHED" ELSE "READY"

\* Mutant: a failed import is compacted again.
RetryCompacts(r) == IF r.compactReadyAt THEN "COMPACT_READY" ELSE "READY"

FailedRetryTarget(r) ==
  IF r.importingAt THEN "FINISHED"
  ELSE IF r.compactReadyAt THEN "COMPACT_READY"
  ELSE "READY"

RetriedRow(r, target) ==
  [r EXCEPT !.status = target, !.importingAt = FALSE, !.worker = NoWorker,
            !.shape = IF target = "READY" THEN EmptyShape ELSE r.shape]

\* The command decides the target with the rows it has listed; listing and
\* update are one step here, so commands of two operators do not overlap.
RetryFailedPart(p) ==
  /\ p \in DOMAIN rows
  /\ rows[p].status = "FAILED"
  /\ rows' = [rows EXCEPT ![p] = RetriedRow(rows[p], FailedRetryTarget(rows[p]))]
  /\ UNCHANGED windowExpired

\* retry-failed -include-in-progress and retry-failed -stale
RetryInProgressPart(p) ==
  /\ p \in DOMAIN rows
  /\ rows[p].status = "IN_PROGRESS"
  /\ rows' = [rows EXCEPT ![p] = UnclaimedRow(rows[p])]
  /\ UNCHANGED windowExpired

-----------------------------------------------------------------------------
StoreInit ==
  /\ rows = [p \in {} |-> NewPart(p)]
  /\ windowExpired = [j \in Job |-> FALSE]

RewriteStep(w, p) ==
  \/ ClaimNextReady(w, p)
  \/ \E s \in Shape : MarkCompactReady(w, p, s)
  \/ MarkFailed(w, p)
  \/ ReleaseInProgress(w, p)

ClaimStep(w) ==
  \E locked \in SUBSET Claimable : \E B \in CompactBatches(locked) :
    ClaimNextCompactBatch(w, B, locked)

CompactStep(w, B) ==
  \/ \E finalize \in BOOLEAN : ReleaseCompactBatch(w, B, finalize)
  \/ MarkCompactBatchFailed(w, B)
  \/ \E s \in Reductions(B) : CompleteCompaction(w, B, s)

TimeStep ==
  \/ \E p \in DOMAIN rows : LeaseExpires(p)
  \/ \E j \in Job : WindowExpires(j)

MaintenanceStep ==
  \/ \E j \in Job, m \in SummaryType : FinalizeCompactReadyJob(j, m)
  \/ \E S \in SUBSET Stale, m \in [Job -> SummaryType] : MaintainCompaction(S, m)

OperatorStep(p) ==
  \/ MarkImporting(p)
  \/ MarkImported(p)
  \/ ReleaseImport(p)
  \/ MarkImportFailed(p)
  \/ RetryFailedPart(p)
  \/ RetryInProgressPart(p)

StoreNext ==
  \/ TimeStep
  \/ \E o \in Original : CreatePart(o)
  \/ \E w \in Worker, p \in DOMAIN rows : RewriteStep(w, p) \/ HeartbeatCompactPart(w, p)
  \/ \E p \in DOMAIN rows : OperatorStep(p)
  \/ \E S \in SUBSET DOMAIN rows : RequestCompactFinalization(S)
  \/ \E w \in Worker : ClaimStep(w)
  \/ MaintenanceStep
  \/ \E w \in Worker, B \in SUBSET DOMAIN rows : CompactStep(w, B)

StoreSpec == StoreInit /\ [][StoreNext]_storeVars

-----------------------------------------------------------------------------
(* What the store promises whatever its callers do.                        *)

\* Rows that refer to the ids in D only.
RowType(D) ==
  [job : Job, status : Status, worker : Worker \cup {NoWorker},
   generation : Nat, inputs : SUBSET D, supersededBy : SUBSET D,
   shape : ShapeType, compactReadyAt : BOOLEAN, finalizeRequested : BOOLEAN,
   leaseExpired : BOOLEAN, importingAt : BOOLEAN, lineage : SUBSET D]

\* Every row has its type and refers to registered rows only.
TypeOK ==
  /\ rows \in [DOMAIN rows -> RowType(DOMAIN rows)]
  /\ windowExpired \in [Job -> BOOLEAN]

\* No registered source part is lost: some live artifact still holds its data.
NothingLost ==
  \A o \in DOMAIN rows :
    ~IsGenerated(rows[o]) => \E p \in DOMAIN rows : Live(rows[p]) /\ o \in rows[p].lineage

\* No source part is held twice: whichever live artifacts the importer
\* attaches, no two of them share data.
NothingTwice ==
  \A p, q \in DOMAIN rows :
    p # q /\ Live(rows[p]) /\ Live(rows[q]) => rows[p].lineage \cap rows[q].lineage = {}

\* Compaction moves each source part's data, it neither drops nor duplicates
\* it: not when a lease is stolen from a working worker, when two workers
\* finish the same batch, or when a batch is released, failed and retried.
ExactlyOnce == NothingLost /\ NothingTwice

\* superseded_by and compact_input_part_ids describe the same forest: an
\* artifact's inputs are exactly the rows it superseded, in the same job and of
\* an older generation, and no superseded row ever becomes live again.
Provenance ==
  \A p \in DOMAIN rows :
    /\ rows[p].status = "SUPERSEDED" <=> rows[p].supersededBy # {}
    /\ rows[p].inputs = {q \in DOMAIN rows : p \in rows[q].supersededBy}
    /\ \A q \in rows[p].inputs : /\ rows[q].job = rows[p].job
                                 /\ rows[q].generation < rows[p].generation
                                 /\ rows[q].supersededBy = {p}

\* A row has an owner exactly while somebody works on it, and only a row being
\* compacted carries a lease or a pending finalization request: nothing that
\* takes a row away from its worker leaves them behind.
Ownership ==
  \A p \in DOMAIN rows :
    LET r == rows[p]
    IN /\ r.worker # NoWorker <=> r.status \in {"IN_PROGRESS", "COMPACTING"}
       /\ r.leaseExpired \/ r.finalizeRequested => r.status = "COMPACTING"

\* A row whose artifact has been uploaded is never handed out for rewriting
\* again, however its compaction or its import fails and is retried; only
\* rows with parts are offered for compaction; and only a failed row remembers
\* that an import of it had started.
ArtifactKept ==
  \A p \in DOMAIN rows :
    LET r == rows[p]
    IN /\ r.status \in {"READY", "IN_PROGRESS"} => ~r.compactReadyAt
       /\ r.status \in {"COMPACT_READY", "COMPACTING"} => r.compactReadyAt
       /\ r.compactReadyAt => r.shape.parts > 0
       /\ IsGenerated(r) => r.compactReadyAt
       /\ r.importingAt => r.status \in {"IMPORTING", "IMPORTED", "FAILED"}

\* A finalization request is not lost: a row leaves COMPACTING with a pending
\* request only as FINISHED, superseded by a FINISHED artifact, or FAILED.
FinalizationHonoured ==
  [][\A p \in DOMAIN rows :
       rows[p].finalizeRequested =>
         \/ rows'[p].status = "COMPACTING" /\ rows'[p].finalizeRequested
         \/ rows'[p].status \in {"FINISHED", "FAILED"}
         \/ \E q \in rows'[p].supersededBy : rows'[q].status = "FINISHED"]_storeVars

-----------------------------------------------------------------------------
(* The store implements the ledger of sources.                             *)

\* A row is closed once the importer may attach its artifact, also while its
\* import has failed and waits for a retry.
PhaseOf(r) ==
  IF r.status = "IMPORTED" THEN "imported"
  ELSE IF r.status \in {"FINISHED", "IMPORTING"} \/ r.importingAt THEN "closed"
  ELSE "open"

Ledger ==
  INSTANCE Ledger WITH
    Source <- Original,
    held   <- {[sources |-> rows[p].lineage, phase |-> PhaseOf(rows[p])] :
                 p \in {p \in DOMAIN rows : Live(rows[p])}}

\* Every operation of the store is a step of the ledger, or invisible in it:
\* no interleaving of claims, heartbeats, releases, retries and imports makes
\* an artifact lose, share or regain sources, or reopens one the importer has
\* been offered.
LedgerSpec == Ledger!Spec
=============================================================================
