--------------------------- MODULE PartStoreProofs ---------------------------
(***************************************************************************)
(* Proofs about the state store, for every set of parts, jobs, workers,    *)
(* partitions and shapes: its invariants, its handling of finalization     *)
(* requests, and that it implements the ledger of sources.                 *)
(***************************************************************************)
EXTENDS PartStore, TLAPS

\* Ownership and ArtifactKept speak of one row at a time.
RowOK(r) ==
  /\ r.worker # NoWorker <=> r.status \in {"IN_PROGRESS", "COMPACTING"}
  /\ r.leaseExpired \/ r.finalizeRequested => r.status = "COMPACTING"
  /\ r.status \in {"READY", "IN_PROGRESS"} => ~r.compactReadyAt
  /\ r.status \in {"COMPACT_READY", "COMPACTING"} => r.compactReadyAt
  /\ r.compactReadyAt => r.shape.parts > 0
  /\ IsGenerated(r) => r.compactReadyAt
  /\ r.importingAt => r.status \in {"IMPORTING", "IMPORTED", "FAILED"}

\* What no operation but a completed compaction changes of a row.
SameSource(r, s) ==
  /\ s.job = r.job
  /\ s.generation = r.generation
  /\ s.inputs = r.inputs
  /\ s.supersededBy = r.supersededBy
  /\ s.lineage = r.lineage
  /\ Live(s) <=> Live(r)

\* Row s may follow row r in a table with the ids D.
Follows(D, r, s) == s \in RowType(D) /\ RowOK(s) /\ SameSource(r, s)

-----------------------------------------------------------------------------
(* What the operations make of one row.                                    *)

\* The statistics that clearRewriteProgress leaves are statistics.
LEMMA EmptyShapeType == EmptyShape \in ShapeType
  BY DEF EmptyShape, ShapeType

\* A row claimed for rewriting is well formed and holds the same sources.
LEMMA ClaimedRowFollows ==
  ASSUME NEW D, NEW r \in RowType(D), RowOK(r), NEW w \in Worker,
         r.status = "READY"
  PROVE  Follows(D, r, ClaimedRow(r, w))
  BY EmptyShapeType, ConstantAssumption
  DEF ConstantAssumption, Follows, RowType, RowOK, SameSource, Status, Live, IsGenerated, ClaimedRow

\* The end of a rewrite keeps a row's place in the forest: only originals are rewritten.
LEMMA RewrittenRowFollows ==
  ASSUME NEW D, NEW r \in RowType(D), RowOK(r), NEW s \in Shape,
         r.status = "IN_PROGRESS"
  PROVE  Follows(D, r, RewrittenRow(r, s))
  <1>1. s \in ShapeType /\ s.parts \in Nat
    BY ConstantAssumption DEF ConstantAssumption, ShapeType
  <1>2. r.generation = 0
    BY DEF RowOK, IsGenerated, RowType
  <1>3. CASE s.parts = 0
    BY <1>1, <1>2, <1>3 DEF Follows, RowType, RowOK, SameSource, Status, Live, IsGenerated, RewrittenRow
  <1>4. CASE s.parts > 0
    BY <1>1, <1>2, <1>4 DEF Follows, RowType, RowOK, SameSource, Status, Live, IsGenerated, RewrittenRow
  <1> QED BY <1>1, <1>3, <1>4

\* A rewrite given up leaves a well-formed READY row.
LEMMA UnclaimedRowFollows ==
  ASSUME NEW D, NEW r \in RowType(D), RowOK(r),
         r.status = "IN_PROGRESS"
  PROVE  Follows(D, r, UnclaimedRow(r))
  BY EmptyShapeType DEF Follows, RowType, RowOK, SameSource, Status, Live, IsGenerated, UnclaimedRow

\* A row claimed for compaction keeps its artifact.
LEMMA CompactClaimedRowFollows ==
  ASSUME NEW D, NEW r \in RowType(D), RowOK(r), NEW w \in Worker,
         r.status = "COMPACT_READY"
  PROVE  Follows(D, r, CompactClaimedRow(r, w))
  BY ConstantAssumption DEF ConstantAssumption, Follows, RowType, RowOK, SameSource, Status, Live, IsGenerated, CompactClaimedRow

\* A heartbeat, also one that takes a released row back, keeps the row well formed.
LEMMA HeartbeatRowFollows ==
  ASSUME NEW D, NEW r \in RowType(D), RowOK(r), NEW w \in Worker,
         CompactOwnedOrUnownedReady(r, w)
  PROVE  Follows(D, r, HeartbeatRow(r, w))
  BY ConstantAssumption DEF ConstantAssumption, Follows, RowType, RowOK, SameSource, Status, Live, IsGenerated, HeartbeatRow,
     CompactOwnedOrUnownedReady

\* A released row has no owner, lease or request left.
LEMMA CompactReleasedRowFollows ==
  ASSUME NEW D, NEW r \in RowType(D), RowOK(r), NEW f \in BOOLEAN,
         r.status \in {"COMPACT_READY", "COMPACTING"}
  PROVE  Follows(D, r, CompactReleasedRow(r, f))
  BY DEF Follows, RowType, RowOK, SameSource, Status, Live, IsGenerated, CompactReleasedRow

\* Nor has a row whose compaction failed.
LEMMA CompactFailedRowFollows ==
  ASSUME NEW D, NEW r \in RowType(D), RowOK(r),
         r.status = "COMPACTING"
  PROVE  Follows(D, r, CompactFailedRow(r))
  BY DEF Follows, RowType, RowOK, SameSource, Status, Live, IsGenerated, CompactFailedRow

\* A request finishes a waiting row and marks a compacting one.
LEMMA FinalizeRequestedRowFollows ==
  ASSUME NEW D, NEW r \in RowType(D), RowOK(r),
         r.status \in {"COMPACT_READY", "COMPACTING"}
  PROVE  Follows(D, r, FinalizeRequestedRow(r))
  BY DEF Follows, RowType, RowOK, SameSource, Status, Live, IsGenerated, FinalizeRequestedRow

\* A retry returns a failed row to the stage that failed: never to a rewrite once it has an artifact.
LEMMA RetriedRowFollows ==
  ASSUME NEW D, NEW r \in RowType(D), RowOK(r),
         r.status = "FAILED"
  PROVE  Follows(D, r, RetriedRow(r, FailedRetryTarget(r)))
  BY EmptyShapeType DEF Follows, RowType, RowOK, SameSource, Status, Live, IsGenerated, RetriedRow, FailedRetryTarget, EmptyShape

-----------------------------------------------------------------------------
(* The inductive invariant.  ExactlyOnce needs to know that a compaction's *)
(* inputs are live and that ids are not reused (Provenance), and Provenance *)
(* that no operation resurrects a row or changes its generation, which      *)
(* holds only because an uploaded artifact is never rewritten               *)
(* (ArtifactKept) and rows change hands properly (Ownership).               *)

Inv == TypeOK /\ Ownership /\ ArtifactKept /\ Provenance /\ ExactlyOnce

\* A step that registers nothing and supersedes nothing.
Quiet ==
  /\ rows' = [p \in DOMAIN rows |-> rows'[p]]
  /\ \A p \in DOMAIN rows : Follows(DOMAIN rows, rows[p], rows'[p])

\* The invariant, row by row.
LEMMA RowsOK ==
  ASSUME Inv
  PROVE  \A p \in DOMAIN rows : rows[p] \in RowType(DOMAIN rows) /\ RowOK(rows[p])
  BY DEF Inv, TypeOK, Ownership, ArtifactKept, RowOK

\* Steps that register and supersede nothing keep the invariant.
LEMMA QuietPreserves ==
  ASSUME Inv, Quiet, windowExpired' \in [Job -> BOOLEAN]
  PROVE  Inv'
  <1>1. DOMAIN rows' = DOMAIN rows
    BY DEF Quiet
  <1>2. TypeOK'
    BY <1>1 DEF Quiet, Follows, TypeOK
  <1>3. Ownership' /\ ArtifactKept'
    BY <1>1 DEF Quiet, Follows, RowOK, Ownership, ArtifactKept
  <1>4. \A p \in DOMAIN rows : SameSource(rows[p], rows'[p])
    BY DEF Quiet, Follows
  <1>5. Provenance'
    <2>1. SUFFICES ASSUME NEW p \in DOMAIN rows
                   PROVE  /\ rows'[p].status = "SUPERSEDED" <=> rows'[p].supersededBy # {}
                          /\ rows'[p].inputs = {q \in DOMAIN rows : p \in rows'[q].supersededBy}
                          /\ \A q \in rows'[p].inputs : /\ rows'[q].job = rows'[p].job
                                                        /\ rows'[q].generation < rows'[p].generation
                                                        /\ rows'[q].supersededBy = {p}
      BY <1>1 DEF Provenance
    <2>2. rows'[p].status = "SUPERSEDED" <=> rows'[p].supersededBy # {}
      BY <1>4 DEF Inv, Provenance, SameSource, Live
    <2>3. rows'[p].inputs = {q \in DOMAIN rows : p \in rows'[q].supersededBy}
      BY <1>4 DEF Inv, Provenance, SameSource
    <2>4. rows[p].inputs \subseteq DOMAIN rows
      BY RowsOK DEF RowType
    <2>5. \A q \in rows'[p].inputs : /\ rows'[q].job = rows'[p].job
                                     /\ rows'[q].generation < rows'[p].generation
                                     /\ rows'[q].supersededBy = {p}
      BY <1>4, <2>4 DEF Inv, Provenance, SameSource
    <2> QED BY <2>2, <2>3, <2>5
  <1>6. NothingLost'
    BY <1>1, <1>4 DEF Inv, ExactlyOnce, NothingLost, SameSource, IsGenerated
  <1>7. NothingTwice'
    BY <1>1, <1>4 DEF Inv, ExactlyOnce, NothingTwice, SameSource
  <1> QED BY <1>2, <1>3, <1>5, <1>6, <1>7 DEF Inv, ExactlyOnce
-----------------------------------------------------------------------------
(* Each operation on existing rows is quiet.                               *)

\* A row that does not change follows itself.
LEMMA FollowsItself ==
  ASSUME NEW D, NEW r \in RowType(D), RowOK(r)
  PROVE  Follows(D, r, r)
  BY DEF Follows, SameSource

\* A step that changes one row properly is quiet.
LEMMA OneRow ==
  ASSUME Inv, NEW p \in DOMAIN rows, NEW r, Follows(DOMAIN rows, rows[p], r),
         rows' = [rows EXCEPT ![p] = r]
  PROVE  Quiet
  <1>1. rows = [q \in DOMAIN rows |-> rows[q]]
    BY DEF Inv, TypeOK
  <1>2. rows' = [q \in DOMAIN rows |-> IF q = p THEN r ELSE rows[q]]
    BY <1>1
  <1> QED BY <1>2, RowsOK, FollowsItself DEF Quiet

\* So is one that changes a set of rows properly.
LEMMA SomeRows ==
  ASSUME Inv, NEW S, NEW f,
         \A p \in S \cap DOMAIN rows : Follows(DOMAIN rows, rows[p], f[p]),
         rows' = [p \in DOMAIN rows |-> IF p \in S THEN f[p] ELSE rows[p]]
  PROVE  Quiet
  BY RowsOK, FollowsItself DEF Quiet

\* Store.ClaimNextReady is quiet.
LEMMA ClaimNextReadyQuiet ==
  ASSUME Inv, NEW w \in Worker, NEW p, ClaimNextReady(w, p)
  PROVE  Quiet
  BY RowsOK, ClaimedRowFollows, OneRow DEF ClaimNextReady

\* Store.MarkCompactReady is quiet.
LEMMA MarkCompactReadyQuiet ==
  ASSUME Inv, NEW w \in Worker, NEW p, NEW s \in Shape, MarkCompactReady(w, p, s)
  PROVE  Quiet
  BY RowsOK, RewrittenRowFollows, OneRow DEF MarkCompactReady, InProgressOwned

\* Store.ReleaseInProgress is quiet.
LEMMA ReleaseInProgressQuiet ==
  ASSUME Inv, NEW w \in Worker, NEW p, ReleaseInProgress(w, p)
  PROVE  Quiet
  BY RowsOK, UnclaimedRowFollows, OneRow DEF ReleaseInProgress, InProgressOwned

\* Store.RetryInProgressPart is quiet.
LEMMA RetryInProgressPartQuiet ==
  ASSUME Inv, NEW p, RetryInProgressPart(p)
  PROVE  Quiet
  BY RowsOK, UnclaimedRowFollows, OneRow DEF RetryInProgressPart

\* Store.RetryFailedPart is quiet.
LEMMA RetryFailedPartQuiet ==
  ASSUME Inv, NEW p, RetryFailedPart(p)
  PROVE  Quiet
  BY RowsOK, RetriedRowFollows, OneRow DEF RetryFailedPart

\* The heartbeat of one row is quiet.
LEMMA HeartbeatCompactPartQuiet ==
  ASSUME Inv, NEW w \in Worker, NEW p, HeartbeatCompactPart(w, p)
  PROVE  Quiet
  BY RowsOK, HeartbeatRowFollows, OneRow DEF HeartbeatCompactPart

\* Store.MarkFailed is quiet.
LEMMA MarkFailedQuiet ==
  ASSUME Inv, NEW w \in Worker, NEW p, MarkFailed(w, p)
  PROVE  Quiet
  <1> DEFINE r == [rows[p] EXCEPT !.status = "FAILED", !.worker = NoWorker]
  <1>1. p \in DOMAIN rows /\ rows[p] \in RowType(DOMAIN rows) /\ RowOK(rows[p])
    BY RowsOK DEF MarkFailed
  <1>2. Follows(DOMAIN rows, rows[p], r)
    BY <1>1 DEF MarkFailed, InProgressOwned, Follows, RowType, RowOK, SameSource, Status,
                Live, IsGenerated
  <1>3. rows' = [rows EXCEPT ![p] = r]
    BY <1>1 DEF MarkFailed, Inv, TypeOK
  <1> QED BY <1>1, <1>2, <1>3, OneRow

\* Store.MarkImporting is quiet.
LEMMA MarkImportingQuiet ==
  ASSUME Inv, NEW p, MarkImporting(p)
  PROVE  Quiet
  <1> DEFINE r == [rows[p] EXCEPT !.status = "IMPORTING", !.importingAt = TRUE]
  <1>1. p \in DOMAIN rows /\ rows[p] \in RowType(DOMAIN rows) /\ RowOK(rows[p])
    BY RowsOK DEF MarkImporting
  <1>2. Follows(DOMAIN rows, rows[p], r)
    BY <1>1 DEF MarkImporting, Follows, RowType, RowOK, SameSource, Status, Live, IsGenerated
  <1>3. rows' = [rows EXCEPT ![p] = r]
    BY <1>1 DEF MarkImporting, Inv, TypeOK
  <1> QED BY <1>1, <1>2, <1>3, OneRow

\* Store.MarkImported is quiet.
LEMMA MarkImportedQuiet ==
  ASSUME Inv, NEW p, MarkImported(p)
  PROVE  Quiet
  <1> DEFINE r == [rows[p] EXCEPT !.status = "IMPORTED"]
  <1>1. p \in DOMAIN rows /\ rows[p] \in RowType(DOMAIN rows) /\ RowOK(rows[p])
    BY RowsOK DEF MarkImported
  <1>2. Follows(DOMAIN rows, rows[p], r)
    BY <1>1 DEF MarkImported, Follows, RowType, RowOK, SameSource, Status, Live, IsGenerated
  <1>3. rows' = [rows EXCEPT ![p] = r]
    BY <1>1 DEF MarkImported, Inv, TypeOK
  <1> QED BY <1>1, <1>2, <1>3, OneRow

\* Store.ReleaseImport is quiet.
LEMMA ReleaseImportQuiet ==
  ASSUME Inv, NEW p, ReleaseImport(p)
  PROVE  Quiet
  <1> DEFINE r == [rows[p] EXCEPT !.status = "FINISHED", !.importingAt = FALSE]
  <1>1. p \in DOMAIN rows /\ rows[p] \in RowType(DOMAIN rows) /\ RowOK(rows[p])
    BY RowsOK DEF ReleaseImport
  <1>2. Follows(DOMAIN rows, rows[p], r)
    BY <1>1 DEF ReleaseImport, Follows, RowType, RowOK, SameSource, Status, Live, IsGenerated
  <1>3. rows' = [rows EXCEPT ![p] = r]
    BY <1>1 DEF ReleaseImport, Inv, TypeOK
  <1> QED BY <1>1, <1>2, <1>3, OneRow

\* Store.MarkImportFailed is quiet.
LEMMA MarkImportFailedQuiet ==
  ASSUME Inv, NEW p, MarkImportFailed(p)
  PROVE  Quiet
  <1> DEFINE r == [rows[p] EXCEPT !.status = "FAILED"]
  <1>1. p \in DOMAIN rows /\ rows[p] \in RowType(DOMAIN rows) /\ RowOK(rows[p])
    BY RowsOK DEF MarkImportFailed
  <1>2. Follows(DOMAIN rows, rows[p], r)
    BY <1>1 DEF MarkImportFailed, Follows, RowType, RowOK, SameSource, Status, Live, IsGenerated
  <1>3. rows' = [rows EXCEPT ![p] = r]
    BY <1>1 DEF MarkImportFailed, Inv, TypeOK
  <1> QED BY <1>1, <1>2, <1>3, OneRow

\* The end of a lease is quiet.
LEMMA LeaseExpiresQuiet ==
  ASSUME Inv, NEW p, LeaseExpires(p)
  PROVE  Quiet
  <1> DEFINE r == [rows[p] EXCEPT !.leaseExpired = TRUE]
  <1>1. p \in DOMAIN rows /\ rows[p] \in RowType(DOMAIN rows) /\ RowOK(rows[p])
    BY RowsOK DEF LeaseExpires
  <1>2. Follows(DOMAIN rows, rows[p], r)
    BY <1>1 DEF LeaseExpires, Follows, RowType, RowOK, SameSource, Status, Live, IsGenerated
  <1>3. rows' = [rows EXCEPT ![p] = r]
    BY <1>1 DEF LeaseExpires, Inv, TypeOK
  <1> QED BY <1>1, <1>2, <1>3, OneRow

\* Whatever batch a claim selects, its rows are COMPACT_READY.
LEMMA ClaimedAreReady ==
  ASSUME NEW locked, NEW B \in CompactBatches(locked)
  PROVE  B \subseteq DOMAIN rows /\ \A p \in B : rows[p].status = "COMPACT_READY"
  <1>1. CASE Fragmented \ locked # {}
    BY <1>1 DEF CompactBatches, FragmentedBatches, Fragmented, Claimable
  <1>2. CASE Fragmented \ locked = {}
    <2>1. PICK a : B \in SiblingBatches(a, locked)
      BY <1>2 DEF CompactBatches
    <2> QED BY <2>1 DEF SiblingBatches
  <1> QED BY <1>1, <1>2

\* Store.ClaimNextCompactBatch is quiet.
LEMMA ClaimNextCompactBatchQuiet ==
  ASSUME Inv, NEW w \in Worker, NEW B, NEW locked, ClaimNextCompactBatch(w, B, locked)
  PROVE  Quiet
  <1> DEFINE f == [p \in DOMAIN rows |-> CompactClaimedRow(rows[p], w)]
  <1>1. \A p \in B \cap DOMAIN rows : Follows(DOMAIN rows, rows[p], f[p])
    BY RowsOK, ClaimedAreReady, CompactClaimedRowFollows DEF ClaimNextCompactBatch
  <1>2. rows' = [p \in DOMAIN rows |-> IF p \in B THEN f[p] ELSE rows[p]]
    BY DEF ClaimNextCompactBatch, Apply
  <1> QED BY <1>1, <1>2, SomeRows

\* Store.ReleaseCompactBatch is quiet.
LEMMA ReleaseCompactBatchQuiet ==
  ASSUME Inv, NEW w \in Worker, NEW B, NEW finalize \in BOOLEAN,
         ReleaseCompactBatch(w, B, finalize)
  PROVE  Quiet
  <1> DEFINE f == [p \in DOMAIN rows |-> CompactReleasedRow(rows[p], finalize)]
  <1>1. \A p \in B \cap DOMAIN rows : Follows(DOMAIN rows, rows[p], f[p])
    BY RowsOK, CompactReleasedRowFollows DEF ReleaseCompactBatch, CompactOwnedOrUnownedReady
  <1>2. rows' = [p \in DOMAIN rows |-> IF p \in B THEN f[p] ELSE rows[p]]
    BY DEF ReleaseCompactBatch, Apply
  <1> QED BY <1>1, <1>2, SomeRows

\* Store.MarkCompactBatchFailed is quiet.
LEMMA MarkCompactBatchFailedQuiet ==
  ASSUME Inv, NEW w \in Worker, NEW B, MarkCompactBatchFailed(w, B)
  PROVE  Quiet
  <1> DEFINE f == [p \in DOMAIN rows |-> CompactFailedRow(rows[p])]
  <1>1. \A p \in B \cap DOMAIN rows : Follows(DOMAIN rows, rows[p], f[p])
    BY RowsOK, CompactFailedRowFollows DEF MarkCompactBatchFailed
  <1>2. rows' = [p \in DOMAIN rows |-> IF p \in B THEN f[p] ELSE rows[p]]
    BY DEF MarkCompactBatchFailed, Apply
  <1> QED BY <1>1, <1>2, SomeRows

\* Store.RequestCompactFinalization is quiet.
LEMMA RequestCompactFinalizationQuiet ==
  ASSUME Inv, NEW S, RequestCompactFinalization(S)
  PROVE  Quiet
  <1> DEFINE f == [p \in DOMAIN rows |-> FinalizeRequestedRow(rows[p])]
  <1>1. \A p \in S \cap DOMAIN rows : Follows(DOMAIN rows, rows[p], f[p])
    BY RowsOK, FinalizeRequestedRowFollows DEF RequestCompactFinalization
  <1>2. rows' = [p \in DOMAIN rows |-> IF p \in S THEN f[p] ELSE rows[p]]
    BY DEF RequestCompactFinalization, Apply
  <1> QED BY <1>1, <1>2, SomeRows

\* Finalization only finishes rows that are ready.
LEMMA FinalizedFollows ==
  ASSUME NEW D, NEW r \in RowType(D), NEW s \in RowType(D), RowOK(s), SameSource(r, s),
         s.status = "COMPACT_READY"
  PROVE  Follows(D, r, [s EXCEPT !.status = "FINISHED"])
  BY DEF Follows, RowType, RowOK, SameSource, Status, Live, IsGenerated

\* Finalization is quiet, with any summary.
LEMMA FinalizeCompactReadyJobQuiet ==
  ASSUME Inv, NEW j, NEW m, FinalizeCompactReadyJob(j, m)
  PROVE  Quiet
  <1> DEFINE S == Finalizable(rows, j, m)
             f == [p \in DOMAIN rows |-> [rows[p] EXCEPT !.status = "FINISHED"]]
  <1>1. \A p \in S : p \in DOMAIN rows /\ rows[p].status = "COMPACT_READY"
    BY DEF Finalizable
  <1>2. \A p \in S \cap DOMAIN rows : Follows(DOMAIN rows, rows[p], f[p])
    BY <1>1, RowsOK, FinalizedFollows DEF SameSource
  <1>3. rows' = [p \in DOMAIN rows |-> IF p \in S THEN f[p] ELSE rows[p]]
    BY DEF FinalizeCompactReadyJob, Finalized, Apply
  <1> HIDE DEF S, f
  <1> QED BY <1>2, <1>3, SomeRows

\* Maintenance is quiet: it changes COMPACTING and COMPACT_READY rows only, with any summaries.
LEMMA MaintainCompactionQuiet ==
  ASSUME Inv, NEW S, NEW m, MaintainCompaction(S, m)
  PROVE  Quiet
  <1> DEFINE R == ReleasedStale(rows, S)
             T == UNION {Finalizable(R, j, m[j]) : j \in Job}
  <1>1. R = [p \in DOMAIN rows |-> IF p \in S THEN CompactReleasedRow(rows[p], FALSE) ELSE rows[p]]
    BY DEF ReleasedStale, Apply
  <1>2. \A p \in DOMAIN rows : Follows(DOMAIN rows, rows[p], R[p])
    BY <1>1, RowsOK, CompactReleasedRowFollows, FollowsItself DEF MaintainCompaction, Stale
  <1>3. \A p \in T : R[p].status = "COMPACT_READY"
    BY DEF Finalizable
  <1>4. rows' = [p \in DOMAIN R |-> IF p \in T THEN [R[p] EXCEPT !.status = "FINISHED"] ELSE R[p]]
    BY DEF MaintainCompaction, Finalized, Apply
  <1>5. DOMAIN R = DOMAIN rows
    BY <1>1
  <1> HIDE DEF R, T
  <1>6. \A p \in DOMAIN rows : Follows(DOMAIN rows, rows[p], rows'[p])
    <2>1. SUFFICES ASSUME NEW p \in DOMAIN rows
                   PROVE  Follows(DOMAIN rows, rows[p], rows'[p])
      OBVIOUS
    <2>2. R[p] \in RowType(DOMAIN rows) /\ RowOK(R[p]) /\ SameSource(rows[p], R[p])
      BY <1>2 DEF Follows
    <2>3. CASE p \in T
      <3>1. Follows(DOMAIN rows, rows[p], [R[p] EXCEPT !.status = "FINISHED"])
        BY <2>2, <2>3, <1>3, RowsOK, FinalizedFollows
      <3> QED BY <3>1, <2>3, <1>4, <1>5
    <2>4. CASE p \notin T
      BY <2>4, <1>2, <1>4, <1>5
    <2> QED BY <2>3, <2>4
  <1> QED BY <1>4, <1>5, <1>6 DEF Quiet

-----------------------------------------------------------------------------
(* The two operations that add a row.                                      *)

\* A row stays well typed when ids are added.
LEMMA RowTypeGrows ==
  ASSUME NEW D, NEW E, D \subseteq E, NEW r \in RowType(D)
  PROVE  r \in RowType(E)
  BY DEF RowType

\* A new part is a well-formed row.
LEMMA NewPartOK ==
  ASSUME NEW o \in Original, NEW D, o \in D
  PROVE  NewPart(o) \in RowType(D) /\ RowOK(NewPart(o))
  BY EmptyShapeType, ConstantAssumption
  DEF ConstantAssumption, NewPart, RowType, RowOK, Status, IsGenerated

\* Store.CreatePart adds a source that no row held before.
LEMMA CreatePartPreserves ==
  ASSUME Inv, NEW o \in Original, CreatePart(o)
  PROVE  Inv'
  <1> DEFINE D == DOMAIN rows
             E == D \cup {o}
  <1>1. o \notin D /\ rows' = [p \in E |-> IF p = o THEN NewPart(o) ELSE rows[p]]
    BY DEF CreatePart
  <1>2. DOMAIN rows' = E
    BY <1>1
  <1>3. \A p \in D : rows'[p] = rows[p]
    BY <1>1
  <1>4. rows'[o] = NewPart(o)
    BY <1>1
  <1>5. \A p \in E : rows'[p] \in RowType(E) /\ RowOK(rows'[p])
    BY <1>3, <1>4, RowsOK, RowTypeGrows, NewPartOK
  <1>6. TypeOK'
    BY <1>1, <1>2, <1>5 DEF TypeOK, CreatePart, Inv
  <1>7. Ownership' /\ ArtifactKept'
    BY <1>2, <1>5 DEF RowOK, Ownership, ArtifactKept
  <1>8. /\ rows'[o].inputs = {} /\ rows'[o].supersededBy = {} /\ rows'[o].status = "READY"
        /\ rows'[o].lineage = {o}
    BY <1>4 DEF NewPart
  <1>9. \A p \in D : rows[p].lineage \subseteq D /\ rows[p].inputs \subseteq D
                     /\ rows[p].supersededBy \subseteq D
    BY RowsOK DEF RowType
  <1> HIDE DEF D, E
  <1>10. Provenance'
    <2>1. SUFFICES ASSUME NEW p \in E
                   PROVE  /\ rows'[p].status = "SUPERSEDED" <=> rows'[p].supersededBy # {}
                          /\ rows'[p].inputs = {q \in E : p \in rows'[q].supersededBy}
                          /\ \A q \in rows'[p].inputs : /\ rows'[q].job = rows'[p].job
                                                        /\ rows'[q].generation < rows'[p].generation
                                                        /\ rows'[q].supersededBy = {p}
      BY <1>2 DEF Provenance
    <2>2. CASE p = o
      BY <2>2, <1>1, <1>3, <1>8, <1>9 DEF E
    <2>3. CASE p \in D
      <3>1. {q \in E : p \in rows'[q].supersededBy} = {q \in D : p \in rows[q].supersededBy}
        BY <1>3, <1>8 DEF E
      <3> QED BY <2>3, <3>1, <1>3, <1>9 DEF Inv, Provenance, D
    <2> QED BY <2>2, <2>3 DEF E
  <1>11. NothingLost'
    <2>1. SUFFICES ASSUME NEW x \in E, ~IsGenerated(rows'[x])
                   PROVE  \E p \in E : Live(rows'[p]) /\ x \in rows'[p].lineage
      BY <1>2 DEF NothingLost
    <2>2. CASE x = o
      BY <2>2, <1>8 DEF Live, E
    <2>3. CASE x \in D
      <3>1. PICK p \in D : Live(rows[p]) /\ x \in rows[p].lineage
        BY <2>1, <2>3, <1>3 DEF Inv, ExactlyOnce, NothingLost, D
      <3> QED BY <3>1, <1>3 DEF E
    <2> QED BY <2>2, <2>3 DEF E
  <1>12. NothingTwice'
    BY <1>1, <1>2, <1>3, <1>8, <1>9 DEF Inv, ExactlyOnce, NothingTwice, D, E
  <1> QED BY <1>6, <1>7, <1>10, <1>11, <1>12 DEF Inv, ExactlyOnce

\* What an input r of a compaction into out has become.
Retired(r, out, t) ==
  /\ t.status = "SUPERSEDED"
  /\ t.supersededBy = {out}
  /\ t.inputs = r.inputs
  /\ t.job = r.job
  /\ t.generation = r.generation

\* A superseded row is well formed.
LEMMA SupersededRowOK ==
  ASSUME NEW D, NEW E, D \subseteq E, NEW r \in RowType(D), RowOK(r), NEW out \in E,
         r.status \in {"COMPACT_READY", "COMPACTING"}
  PROVE  /\ SupersededRow(r, out) \in RowType(E)
         /\ RowOK(SupersededRow(r, out))
         /\ Retired(r, out, SupersededRow(r, out))
  BY DEF RowType, RowOK, SupersededRow, Status, IsGenerated, Retired

\* The output of a compaction is a well-formed row.
LEMMA NewCompactPartOK ==
  ASSUME NEW D, NEW j \in Job, NEW B \in SUBSET D, NEW g \in Nat, g > 0, NEW s \in Shape,
         s.parts > 0, NEW status \in {"FINISHED", "COMPACT_READY"}, NEW L \in SUBSET D
  PROVE  NewCompactPart(j, B, g, s, status, L) \in RowType(D)
         /\ RowOK(NewCompactPart(j, B, g, s, status, L))
  BY ConstantAssumption
  DEF ConstantAssumption, NewCompactPart, RowType, RowOK, Status, IsGenerated

\* The table after a completed compaction of B into the new row out.
Compaction(B, out) ==
  LET E == DOMAIN rows \cup {out}
  IN /\ out \notin DOMAIN rows
     /\ B \subseteq DOMAIN rows /\ B # {}
     /\ rows' = [p \in E |-> rows'[p]]
     /\ \A p \in E : rows'[p] \in RowType(E) /\ RowOK(rows'[p])
     /\ \A p \in DOMAIN rows \ B : rows'[p] = rows[p]
     /\ \A p \in B : /\ rows[p].status \in {"COMPACT_READY", "COMPACTING"}
                     /\ rows'[p].status = "SUPERSEDED"
                     /\ rows'[p].supersededBy = {out}
                     /\ rows'[p].inputs = rows[p].inputs
                     /\ rows'[p].job = rows[p].job
                     /\ rows'[p].generation = rows[p].generation
                     /\ rows'[p].job = rows'[out].job
                     /\ rows'[p].generation < rows'[out].generation
                     /\ rows[p].finalizeRequested => rows'[out].status = "FINISHED"
     /\ rows'[out].inputs = B
     /\ rows'[out].supersededBy = {}
     /\ rows'[out].lineage = BatchLineage(B)
     /\ rows'[out].generation > 0
     /\ rows'[out].status \in {"FINISHED", "COMPACT_READY"}
     /\ ~rows'[out].importingAt

\* What Store.CompleteCompaction does to the table, in the terms of the invariant.
LEMMA CompleteCompactionEffect ==
  ASSUME Inv, NEW w \in Worker, NEW B, NEW s \in Reductions(B), CompleteCompaction(w, B, s)
  PROVE  \E out : Compaction(B, out)
  <1>1. PICK newest \in B :
          LET g   == rows[newest].generation + 1
              j   == rows[newest].job
              out == DeriveCompactPartID(B, g)
              status == IF \E p \in B : rows[p].finalizeRequested
                        THEN "FINISHED" ELSE "COMPACT_READY"
              output == NewCompactPart(j, B, g, s, status, BatchLineage(B))
          IN /\ B \subseteq DOMAIN rows
             /\ \A p \in B : rows[p].generation < g /\ rows[p].job = j
             /\ \A p \in B : CompactOwnedOrUnownedReady(rows[p], w)
             /\ out \notin DOMAIN rows
             /\ rows' = [p \in DOMAIN rows \cup {out} |->
                           IF p = out THEN output
                           ELSE Apply(rows, B, LAMBDA r : SupersededRow(r, out))[p]]
    BY DEF CompleteCompaction
  <1> DEFINE g   == rows[newest].generation + 1
             j   == rows[newest].job
             out == DeriveCompactPartID(B, g)
             status == IF \E p \in B : rows[p].finalizeRequested THEN "FINISHED" ELSE "COMPACT_READY"
             output == NewCompactPart(j, B, g, s, status, BatchLineage(B))
             E == DOMAIN rows \cup {out}
  <1>2. /\ B \subseteq DOMAIN rows
        /\ \A p \in B : rows[p].generation < g /\ rows[p].job = j
        /\ \A p \in B : CompactOwnedOrUnownedReady(rows[p], w)
        /\ out \notin DOMAIN rows
        /\ rows' = [p \in E |-> IF p = out THEN output
                                ELSE Apply(rows, B, LAMBDA r : SupersededRow(r, out))[p]]
    BY <1>1
  <1>3. \A p \in DOMAIN rows : rows'[p] = IF p \in B THEN SupersededRow(rows[p], out) ELSE rows[p]
    BY <1>2 DEF Apply
  <1>4. rows'[out] = output
    BY <1>2
  <1>5. \A p \in B : rows[p].status \in {"COMPACT_READY", "COMPACTING"}
    BY <1>2 DEF CompactOwnedOrUnownedReady
  <1>6. g \in Nat /\ g > 0 /\ j \in Job
    BY <1>2, RowsOK DEF RowType
  <1>7. BatchLineage(B) \subseteq DOMAIN rows
    BY <1>2, RowsOK DEF BatchLineage, RowType
  <1>8. s \in Shape /\ s.parts > 0
    BY ConstantAssumption DEF ConstantAssumption, Reductions, ShapeType
  <1>9. status \in {"FINISHED", "COMPACT_READY"}
    OBVIOUS
  <1>10. B \in SUBSET E /\ BatchLineage(B) \in SUBSET E
    BY <1>2, <1>7
  <1>11. output \in RowType(E) /\ RowOK(output)
    BY <1>6, <1>8, <1>9, <1>10, NewCompactPartOK
  <1>12. /\ output.inputs = B /\ output.supersededBy = {} /\ output.lineage = BatchLineage(B)
         /\ output.generation = g /\ output.job = j /\ output.status = status
         /\ ~output.importingAt
    BY DEF NewCompactPart
  <1>13. rows' = [p \in E |-> rows'[p]]
    BY <1>2
  <1>14. \A p \in B : rows[p].finalizeRequested => status = "FINISHED"
    OBVIOUS
  <1>15. DOMAIN rows \subseteq E /\ out \in E
    OBVIOUS
  <1> HIDE DEF g, j, out, status, output, E
  <1>16. \A p \in B : rows'[p] \in RowType(E) /\ RowOK(rows'[p]) /\ Retired(rows[p], out, rows'[p])
    <2>1. SUFFICES ASSUME NEW p \in B
                   PROVE  /\ rows'[p] \in RowType(E)
                          /\ RowOK(rows'[p])
                          /\ Retired(rows[p], out, rows'[p])
      OBVIOUS
    <2>2. rows'[p] = SupersededRow(rows[p], out)
      BY <1>2, <1>3
    <2>3. /\ rows[p] \in RowType(DOMAIN rows)
          /\ RowOK(rows[p])
          /\ rows[p].status \in {"COMPACT_READY", "COMPACTING"}
      BY <1>2, <1>5, RowsOK
    <2> QED BY <1>15, <2>2, <2>3, SupersededRowOK
  <1>17. \A p \in E : rows'[p] \in RowType(E) /\ RowOK(rows'[p])
    <2>1. SUFFICES ASSUME NEW p \in DOMAIN rows
                   PROVE  rows'[p] \in RowType(E) /\ RowOK(rows'[p])
      BY <1>4, <1>11 DEF E
    <2>2. CASE p \in B
      BY <2>2, <1>16
    <2>3. CASE p \notin B
      BY <1>15, <2>3, <1>3, RowsOK, RowTypeGrows
    <2> QED BY <2>2, <2>3
  <1>18. \A p \in DOMAIN rows \ B : rows'[p] = rows[p]
    BY <1>3
  <1>19. \A p \in B : /\ rows'[p].job = rows'[out].job
                      /\ rows'[p].generation < rows'[out].generation
    <2>1. \A p \in B : rows'[p].job = rows[p].job /\ rows'[p].generation = rows[p].generation
      BY <1>16 DEF Retired
    <2>2. rows'[out].job = j /\ rows'[out].generation = g
      BY <1>4, <1>12
    <2> QED BY <1>2, <2>1, <2>2
  <1>20. \A p \in B : rows[p].finalizeRequested => rows'[out].status = "FINISHED"
    BY <1>4, <1>12, <1>14, Zenon
  <1>21. /\ rows'[out].inputs = B /\ rows'[out].supersededBy = {}
         /\ rows'[out].lineage = BatchLineage(B) /\ rows'[out].generation > 0
         /\ rows'[out].status \in {"FINISHED", "COMPACT_READY"} /\ ~rows'[out].importingAt
    BY <1>4, <1>6, <1>9, <1>12
  <1>22. Compaction(B, out)
    <2>1. B # {}
      BY <1>1
    <2> QED BY <2>1, <1>2, <1>5, <1>13, <1>17, <1>16, <1>18, <1>19, <1>20, <1>21
            DEF Compaction, E, Retired
  <1> QED BY <1>22

\* Store.CompleteCompaction moves the sources of its inputs, all live, to an output whose id was unused.
LEMMA CompleteCompactionPreserves ==
  ASSUME Inv, NEW w \in Worker, NEW B, NEW s \in Reductions(B), CompleteCompaction(w, B, s)
  PROVE  Inv'
  <1>1. PICK out : Compaction(B, out)
    BY CompleteCompactionEffect
  <1> DEFINE D == DOMAIN rows
             E == D \cup {out}
  <1>2. DOMAIN rows' = E /\ rows' \in [E -> RowType(E)] /\ \A p \in E : RowOK(rows'[p])
    BY <1>1 DEF Compaction
  <1>3. TypeOK'
    BY <1>2 DEF TypeOK, CompleteCompaction, Inv
  <1>4. Ownership' /\ ArtifactKept'
    BY <1>2 DEF RowOK, Ownership, ArtifactKept
  <1>5. out \notin D /\ B \subseteq D /\ \A p \in D \ B : rows'[p] = rows[p]
    BY <1>1 DEF Compaction
  <1>6. \A p \in B : /\ rows[p].status \in {"COMPACT_READY", "COMPACTING"}
                     /\ rows'[p].status = "SUPERSEDED" /\ rows'[p].supersededBy = {out}
                     /\ rows'[p].inputs = rows[p].inputs /\ rows'[p].job = rows[p].job
                     /\ rows'[p].generation = rows[p].generation
                     /\ rows'[p].job = rows'[out].job
                     /\ rows'[p].generation < rows'[out].generation
    BY <1>1 DEF Compaction
  <1>7. /\ rows'[out].inputs = B /\ rows'[out].supersededBy = {} /\ Live(rows'[out])
        /\ rows'[out].lineage = BatchLineage(B) /\ IsGenerated(rows'[out])
        /\ rows'[out].status # "SUPERSEDED"
    BY <1>1 DEF Compaction, Live, IsGenerated
  <1>8. \A p \in D : rows[p].lineage \subseteq D /\ rows[p].inputs \subseteq D
                     /\ rows[p].supersededBy \subseteq D
    BY RowsOK DEF RowType
  <1>9. \A p \in B : rows[p].supersededBy = {} /\ Live(rows[p])
    BY <1>5, <1>6 DEF Inv, Provenance, Live
  <1> HIDE DEF D, E
  <1>10. Provenance'
    <2>1. SUFFICES ASSUME NEW p \in E
                   PROVE  /\ rows'[p].status = "SUPERSEDED" <=> rows'[p].supersededBy # {}
                          /\ rows'[p].inputs = {q \in E : p \in rows'[q].supersededBy}
                          /\ \A q \in rows'[p].inputs : /\ rows'[q].job = rows'[p].job
                                                        /\ rows'[q].generation < rows'[p].generation
                                                        /\ rows'[q].supersededBy = {p}
      BY <1>2 DEF Provenance
    <2>2. CASE p = out
      <3>1. {q \in E : out \in rows'[q].supersededBy} = B
        BY <1>5, <1>6, <1>7, <1>8 DEF E
      <3> QED BY <2>2, <3>1, <1>6, <1>7
    <2>3. CASE p \in D
      <3>1. {q \in E : p \in rows'[q].supersededBy} = {q \in D : p \in rows[q].supersededBy}
        BY <2>3, <1>5, <1>6, <1>7, <1>9 DEF E
      <3>2. rows[p].inputs = {q \in D : p \in rows[q].supersededBy}
        BY <2>3 DEF Inv, Provenance, D
      <3>3. \A q \in rows[p].inputs : q \in D \ B
        BY <3>2, <1>9
      <3>4. /\ rows'[p].inputs = rows[p].inputs /\ rows'[p].job = rows[p].job
            /\ rows'[p].generation = rows[p].generation
        BY <2>3, <1>5, <1>6
      <3>5. rows'[p].status = "SUPERSEDED" <=> rows'[p].supersededBy # {}
        BY <2>3, <1>5, <1>6 DEF Inv, Provenance, D
      <3>6. \A q \in rows'[p].inputs : /\ rows'[q].job = rows'[p].job
                                       /\ rows'[q].generation < rows'[p].generation
                                       /\ rows'[q].supersededBy = {p}
        BY <2>3, <3>3, <3>4, <1>5 DEF Inv, Provenance, D
      <3> QED BY <3>1, <3>2, <3>4, <3>5, <3>6
    <2> QED BY <2>2, <2>3 DEF E
  <1>11. NothingLost'
    <2>1. SUFFICES ASSUME NEW x \in E, ~IsGenerated(rows'[x])
                   PROVE  \E p \in E : Live(rows'[p]) /\ x \in rows'[p].lineage
      BY <1>2 DEF NothingLost
    <2>2. x \in D /\ ~IsGenerated(rows[x])
      BY <2>1, <1>5, <1>6, <1>7 DEF E, IsGenerated
    <2>3. PICK p \in D : Live(rows[p]) /\ x \in rows[p].lineage
      BY <2>2 DEF Inv, ExactlyOnce, NothingLost, D
    <2>4. CASE p \in B
      BY <2>3, <2>4, <1>7 DEF BatchLineage, E
    <2>5. CASE p \notin B
      BY <2>3, <2>5, <1>5 DEF E
    <2> QED BY <2>4, <2>5
  <1>12. NothingTwice'
    <2>1. \A p \in E : Live(rows'[p]) => p = out \/ (p \in D \ B /\ rows'[p] = rows[p])
      BY <1>5, <1>6 DEF E, Live
    <2>2. \A p \in D \ B : Live(rows[p]) => rows[p].lineage \cap BatchLineage(B) = {}
      <3>1. SUFFICES ASSUME NEW p \in D \ B, Live(rows[p]), NEW q \in B
                     PROVE  rows[p].lineage \cap rows[q].lineage = {}
        BY DEF BatchLineage
      <3> QED BY <3>1, <1>5, <1>9 DEF Inv, ExactlyOnce, NothingTwice, D
    <2>3. SUFFICES ASSUME NEW p \in E, NEW q \in E, p # q, Live(rows'[p]), Live(rows'[q])
                   PROVE  rows'[p].lineage \cap rows'[q].lineage = {}
      BY <1>2 DEF NothingTwice
    <2>4. CASE p = out
      BY <2>1, <2>2, <2>3, <2>4, <1>7
    <2>5. CASE q = out
      BY <2>1, <2>2, <2>3, <2>5, <1>7
    <2>6. CASE p # out /\ q # out
      BY <2>1, <2>3, <2>6 DEF Inv, ExactlyOnce, NothingTwice, D
    <2> QED BY <2>4, <2>5, <2>6
  <1> QED BY <1>3, <1>4, <1>10, <1>11, <1>12 DEF Inv, ExactlyOnce

-----------------------------------------------------------------------------
(* The inductive invariant holds.                                          *)

\* The empty table satisfies the invariant.
LEMMA InitInv == StoreInit => Inv
  <1> SUFFICES ASSUME StoreInit PROVE Inv
    OBVIOUS
  <1>1. DOMAIN rows = {} /\ rows = [p \in {} |-> rows[p]]
    BY DEF StoreInit
  <1>2. TypeOK
    BY <1>1 DEF StoreInit, TypeOK
  <1> QED BY <1>1, <1>2 DEF Inv, Ownership, ArtifactKept, Provenance, ExactlyOnce,
                            NothingLost, NothingTwice

\* The window bits keep their type.
LEMMA WindowType ==
  ASSUME Inv, StoreNext
  PROVE  windowExpired' \in [Job -> BOOLEAN]
  <1>1. CASE UNCHANGED windowExpired
    BY <1>1 DEF Inv, TypeOK
  <1>2. ASSUME NEW w \in Worker, NEW p \in DOMAIN rows, NEW s \in Shape,
               MarkCompactReady(w, p, s)
        PROVE  windowExpired' \in [Job -> BOOLEAN]
    BY <1>2 DEF MarkCompactReady, Inv, TypeOK
  <1>3. ASSUME NEW j \in Job, WindowExpires(j)
        PROVE  windowExpired' \in [Job -> BOOLEAN]
    BY <1>3 DEF WindowExpires, Inv, TypeOK
  <1>4. CASE \E o \in Original : CreatePart(o)
    BY <1>4, <1>1 DEF CreatePart
  <1>5. CASE \E w \in Worker, p \in DOMAIN rows : RewriteStep(w, p) \/ HeartbeatCompactPart(w, p)
    BY <1>5, <1>1, <1>2 DEF RewriteStep, ClaimNextReady, MarkFailed, ReleaseInProgress,
                            HeartbeatCompactPart
  <1>6. CASE \E w \in Worker : ClaimStep(w)
    BY <1>6, <1>1 DEF ClaimStep, ClaimNextCompactBatch
  <1>7. CASE \E w \in Worker, B \in SUBSET DOMAIN rows : CompactStep(w, B)
    BY <1>7, <1>1 DEF CompactStep, ReleaseCompactBatch, MarkCompactBatchFailed, CompleteCompaction
  <1>8. CASE MaintenanceStep \/ TimeStep
    BY <1>8, <1>1, <1>3 DEF MaintenanceStep, MaintainCompaction, FinalizeCompactReadyJob, TimeStep,
                            LeaseExpires
  <1>9. CASE \E S \in SUBSET DOMAIN rows : RequestCompactFinalization(S)
    BY <1>9, <1>1 DEF RequestCompactFinalization
  <1>10. CASE \E p \in DOMAIN rows : OperatorStep(p)
    BY <1>10, <1>1 DEF OperatorStep, MarkImporting, MarkImported, ReleaseImport, MarkImportFailed,
                       RetryFailedPart, RetryInProgressPart
  <1> QED BY <1>4, <1>5, <1>6, <1>7, <1>8, <1>9, <1>10 DEF StoreNext

\* A stuttering step is quiet.
LEMMA UnchangedQuiet ==
  ASSUME Inv, UNCHANGED rows
  PROVE  Quiet
  BY RowsOK, FollowsItself DEF Quiet, Inv, TypeOK

\* Every step registers a part, completes a compaction, or is quiet.
LEMMA StepKinds ==
  ASSUME Inv, StoreNext
  PROVE  \/ \E o \in Original : CreatePart(o)
         \/ \E w \in Worker, B \in SUBSET DOMAIN rows : \E s \in Reductions(B) :
              CompleteCompaction(w, B, s)
         \/ Quiet
  <1>1. ASSUME NEW w \in Worker, NEW p \in DOMAIN rows,
               RewriteStep(w, p) \/ HeartbeatCompactPart(w, p)
        PROVE  Quiet
    BY <1>1, ClaimNextReadyQuiet, MarkCompactReadyQuiet, MarkFailedQuiet, ReleaseInProgressQuiet,
       HeartbeatCompactPartQuiet
    DEF RewriteStep
  <1>2. ASSUME NEW w \in Worker, ClaimStep(w)
        PROVE  Quiet
    BY <1>2, ClaimNextCompactBatchQuiet DEF ClaimStep
  <1>3. ASSUME NEW w \in Worker, NEW B \in SUBSET DOMAIN rows, CompactStep(w, B)
        PROVE  Quiet \/ \E s \in Reductions(B) : CompleteCompaction(w, B, s)
    BY <1>3, ReleaseCompactBatchQuiet, MarkCompactBatchFailedQuiet DEF CompactStep
  <1>4. CASE MaintenanceStep \/ TimeStep
    BY <1>4, MaintainCompactionQuiet, FinalizeCompactReadyJobQuiet, LeaseExpiresQuiet, UnchangedQuiet
    DEF MaintenanceStep, TimeStep, WindowExpires
  <1>5. ASSUME NEW p \in DOMAIN rows, OperatorStep(p)
        PROVE  Quiet
    BY <1>5, MarkImportingQuiet, MarkImportedQuiet, ReleaseImportQuiet, MarkImportFailedQuiet,
       RetryFailedPartQuiet, RetryInProgressPartQuiet
    DEF OperatorStep
  <1> QED BY <1>1, <1>2, <1>3, <1>4, <1>5, RequestCompactFinalizationQuiet DEF StoreNext

\* The invariant is inductive.
LEMMA NextInv == Inv /\ [StoreNext]_storeVars => Inv'
  <1> SUFFICES ASSUME Inv, [StoreNext]_storeVars PROVE Inv'
    OBVIOUS
  <1>1. CASE StoreNext
    BY <1>1, StepKinds, WindowType, CreatePartPreserves, CompleteCompactionPreserves, QuietPreserves
  <1>2. CASE UNCHANGED storeVars
    <2>1. windowExpired' \in [Job -> BOOLEAN] /\ UNCHANGED rows
      BY <1>2 DEF storeVars, Inv, TypeOK
    <2> QED BY <2>1, UnchangedQuiet, QuietPreserves
  <1> QED BY <1>1, <1>2

\* The invariant holds whatever the callers of the store do.
THEOREM StoreInvariant == StoreSpec => []Inv
  BY InitInv, NextInv, PTL DEF StoreSpec

-----------------------------------------------------------------------------
(* The store's promises.                                                   *)

\* Every row of the table has its type and refers to registered rows only.
THEOREM TypeCorrect == StoreSpec => []TypeOK
  <1>1. Inv => TypeOK
    BY DEF Inv
  <1> QED BY <1>1, StoreInvariant, PTL

\* Whatever the callers do, each registered source part is in exactly one
\* live artifact.
THEOREM SourcesExactlyOnce == StoreSpec => []ExactlyOnce
  <1>1. Inv => ExactlyOnce
    BY DEF Inv
  <1> QED BY <1>1, StoreInvariant, PTL

\* The superseded rows and the inputs of the artifacts that superseded them
\* form one forest.
THEOREM ProvenanceForest == StoreSpec => []Provenance
  <1>1. Inv => Provenance
    BY DEF Inv
  <1> QED BY <1>1, StoreInvariant, PTL

\* Owners, leases and finalization requests are only found on rows somebody
\* works on.
THEOREM OwnershipKept == StoreSpec => []Ownership
  <1>1. Inv => Ownership
    BY DEF Inv
  <1> QED BY <1>1, StoreInvariant, PTL

\* An uploaded artifact is never thrown away to be rewritten.
THEOREM ArtifactsKept == StoreSpec => []ArtifactKept
  <1>1. Inv => ArtifactKept
    BY DEF Inv
  <1> QED BY <1>1, StoreInvariant, PTL

-----------------------------------------------------------------------------
(* A finalization request is never lost.                                   *)

\* The request on row p is still pending, or it has been served.
Honoured(p) ==
  \/ rows'[p].status = "COMPACTING" /\ rows'[p].finalizeRequested
  \/ rows'[p].status \in {"FINISHED", "FAILED"}
  \/ \E q \in rows'[p].supersededBy : rows'[q].status = "FINISHED"

\* Only compacting rows have a pending request.
LEMMA RequestPending ==
  ASSUME Inv, NEW p \in DOMAIN rows, rows[p].finalizeRequested
  PROVE  rows[p].status = "COMPACTING"
  BY DEF Inv, Ownership

\* A row that keeps its columns keeps its request.
LEMMA UntouchedHonoured ==
  ASSUME Inv, NEW p \in DOMAIN rows, rows[p].finalizeRequested, rows'[p] = rows[p]
  PROVE  Honoured(p)
  BY RequestPending DEF Honoured

\* Rewrites touch no row with a pending request.
LEMMA RewriteHonoured ==
  ASSUME Inv, NEW p \in DOMAIN rows, rows[p].finalizeRequested,
         NEW w \in Worker, NEW x \in DOMAIN rows, RewriteStep(w, x)
  PROVE  Honoured(p)
  <1>1. rows[x].status # "COMPACTING"
    BY DEF RewriteStep, ClaimNextReady, MarkCompactReady, MarkFailed, ReleaseInProgress, InProgressOwned
  <1>2. x # p
    BY <1>1, RequestPending
  <1>3. rows'[p] = rows[p]
    <2>1. CASE ClaimNextReady(w, x)
      BY <1>2, <2>1 DEF ClaimNextReady, Inv, TypeOK
    <2>2. CASE \E s \in Shape : MarkCompactReady(w, x, s)
      BY <1>2, <2>2 DEF MarkCompactReady, Inv, TypeOK
    <2>3. CASE MarkFailed(w, x)
      BY <1>2, <2>3 DEF MarkFailed, Inv, TypeOK
    <2>4. CASE ReleaseInProgress(w, x)
      BY <1>2, <2>4 DEF ReleaseInProgress, Inv, TypeOK
    <2> QED BY <2>1, <2>2, <2>3, <2>4 DEF RewriteStep
  <1> QED BY <1>3, UntouchedHonoured

\* Neither do imports and retries.
LEMMA OperatorHonoured ==
  ASSUME Inv, NEW p \in DOMAIN rows, rows[p].finalizeRequested,
         NEW x \in DOMAIN rows, OperatorStep(x)
  PROVE  Honoured(p)
  <1>1. rows[x].status # "COMPACTING"
    BY DEF OperatorStep, MarkImporting, MarkImported, ReleaseImport, MarkImportFailed,
           RetryFailedPart, RetryInProgressPart
  <1>2. x # p
    BY <1>1, RequestPending
  <1>3. rows'[p] = rows[p]
    <2>1. CASE MarkImporting(x) \/ MarkImported(x) \/ ReleaseImport(x) \/ MarkImportFailed(x)
      BY <1>2, <2>1 DEF MarkImporting, MarkImported, ReleaseImport, MarkImportFailed, Inv, TypeOK
    <2>2. CASE RetryFailedPart(x) \/ RetryInProgressPart(x)
      BY <1>2, <2>2 DEF RetryFailedPart, RetryInProgressPart, Inv, TypeOK
    <2> QED BY <2>1, <2>2 DEF OperatorStep
  <1> QED BY <1>3, UntouchedHonoured

\* A heartbeat keeps the request.
LEMMA HeartbeatHonoured ==
  ASSUME Inv, NEW p \in DOMAIN rows, rows[p].finalizeRequested,
         NEW w \in Worker, NEW x \in DOMAIN rows, HeartbeatCompactPart(w, x)
  PROVE  Honoured(p)
  <1>1. CASE x # p
    BY <1>1, UntouchedHonoured DEF HeartbeatCompactPart, Inv, TypeOK
  <1>2. CASE x = p
    <2>1. rows'[p] = [rows[p] EXCEPT !.worker = w] /\ rows[p] \in RowType(DOMAIN rows)
      BY <1>2, RequestPending, RowsOK DEF HeartbeatCompactPart, HeartbeatRow
    <2>2. rows'[p].status = rows[p].status /\ rows'[p].finalizeRequested = rows[p].finalizeRequested
      BY <2>1 DEF RowType
    <2> QED BY <2>2, RequestPending DEF Honoured
  <1> QED BY <1>1, <1>2

\* The ends of a batch honour it.
LEMMA BatchHonoured ==
  ASSUME Inv, NEW p \in DOMAIN rows, rows[p].finalizeRequested,
         NEW w \in Worker, NEW B \in SUBSET DOMAIN rows, CompactStep(w, B)
  PROVE  Honoured(p)
  <1>1. rows[p] \in RowType(DOMAIN rows)
    BY RowsOK
  <1>2. ASSUME NEW finalize \in BOOLEAN, ReleaseCompactBatch(w, B, finalize)
        PROVE  Honoured(p)
    <2>1. rows'[p] = IF p \in B THEN CompactReleasedRow(rows[p], finalize) ELSE rows[p]
      BY <1>2 DEF ReleaseCompactBatch, Apply
    <2>2. CompactReleasedRow(rows[p], finalize).status = "FINISHED"
      BY <1>1 DEF CompactReleasedRow, RowType
    <2> QED BY <2>1, <2>2, UntouchedHonoured DEF Honoured
  <1>3. CASE MarkCompactBatchFailed(w, B)
    <2>1. rows'[p] = IF p \in B THEN CompactFailedRow(rows[p]) ELSE rows[p]
      BY <1>3 DEF MarkCompactBatchFailed, Apply
    <2>2. CompactFailedRow(rows[p]).status = "FAILED"
      BY <1>1 DEF CompactFailedRow, RowType
    <2> QED BY <2>1, <2>2, UntouchedHonoured DEF Honoured
  <1>4. ASSUME NEW s \in Reductions(B), CompleteCompaction(w, B, s)
        PROVE  Honoured(p)
    <2>1. PICK out : Compaction(B, out)
      BY <1>4, CompleteCompactionEffect
    <2>2. CASE p \in B
      <3>1. rows'[p].supersededBy = {out} /\ rows'[out].status = "FINISHED"
        BY <2>1, <2>2 DEF Compaction
      <3> QED BY <3>1 DEF Honoured
    <2>3. CASE p \notin B
      <3>1. rows'[p] = rows[p]
        BY <2>1, <2>3 DEF Compaction
      <3> QED BY <3>1, UntouchedHonoured
    <2> QED BY <2>2, <2>3
  <1> QED BY <1>2, <1>3, <1>4 DEF CompactStep

\* So do time and maintenance, which releases a stale row with a request as FINISHED.
LEMMA MaintenanceHonoured ==
  ASSUME Inv, NEW p \in DOMAIN rows, rows[p].finalizeRequested, MaintenanceStep \/ TimeStep
  PROVE  Honoured(p)
  <1>1. rows[p] \in RowType(DOMAIN rows) /\ rows[p].status = "COMPACTING"
    BY RowsOK, RequestPending
  <1>2. ASSUME NEW S, NEW m, MaintainCompaction(S, m)
        PROVE  Honoured(p)
    <2> DEFINE R == ReleasedStale(rows, S)
               T == UNION {Finalizable(R, j, m[j]) : j \in Job}
    <2>1. R = [x \in DOMAIN rows |-> IF x \in S THEN CompactReleasedRow(rows[x], FALSE) ELSE rows[x]]
      BY DEF ReleasedStale, Apply
    <2>2. rows' = [x \in DOMAIN R |-> IF x \in T THEN [R[x] EXCEPT !.status = "FINISHED"] ELSE R[x]]
      BY <1>2 DEF MaintainCompaction, Finalized, Apply
    <2>3. T \subseteq {x \in DOMAIN R : R[x].status = "COMPACT_READY"}
      BY DEF Finalizable
    <2>4. CASE p \in S
      <3>1. CompactReleasedRow(rows[p], FALSE).status = "FINISHED"
        BY <1>1 DEF CompactReleasedRow, RowType
      <3>2. R[p] = CompactReleasedRow(rows[p], FALSE)
        BY <2>1, <2>4
      <3>3. rows'[p] = R[p]
        BY <3>1, <3>2, <2>1, <2>2, <2>3
      <3> QED BY <3>1, <3>2, <3>3 DEF Honoured
    <2>5. CASE p \notin S
      <3>1. R[p] = rows[p]
        BY <2>1, <2>5
      <3>2. rows'[p] = rows[p]
        BY <3>1, <2>1, <2>2, <2>3, <1>1
      <3> QED BY <3>2, UntouchedHonoured
    <2> QED BY <2>4, <2>5
  <1>3. ASSUME NEW j, NEW m, FinalizeCompactReadyJob(j, m)
        PROVE  Honoured(p)
    <2>1. p \notin Finalizable(rows, j, m)
      BY <1>1 DEF Finalizable
    <2>2. rows'[p] = rows[p]
      BY <1>3, <2>1 DEF FinalizeCompactReadyJob, Finalized, Apply
    <2> QED BY <2>2, UntouchedHonoured
  <1>4. ASSUME NEW x, LeaseExpires(x)
        PROVE  Honoured(p)
    <2>1. rows' = [rows EXCEPT ![x].leaseExpired = TRUE] /\ x \in DOMAIN rows
      BY <1>4 DEF LeaseExpires
    <2>2. rows'[p].status = rows[p].status /\ rows'[p].finalizeRequested = rows[p].finalizeRequested
      BY <2>1, <1>1 DEF RowType, Inv, TypeOK
    <2> QED BY <1>1, <2>2 DEF Honoured
  <1>5. ASSUME NEW j, WindowExpires(j)
        PROVE  Honoured(p)
    BY <1>5, UntouchedHonoured DEF WindowExpires
  <1> QED BY <1>2, <1>3, <1>4, <1>5 DEF MaintenanceStep, TimeStep

\* A further request keeps the first one.
LEMMA RequestHonoured ==
  ASSUME Inv, NEW p \in DOMAIN rows, rows[p].finalizeRequested,
         NEW S, RequestCompactFinalization(S)
  PROVE  Honoured(p)
  <1>1. rows[p] \in RowType(DOMAIN rows) /\ rows[p].status = "COMPACTING"
    BY RowsOK, RequestPending
  <1>2. rows'[p] = IF p \in S THEN FinalizeRequestedRow(rows[p]) ELSE rows[p]
    BY DEF RequestCompactFinalization, Apply
  <1>3. FinalizeRequestedRow(rows[p]).status = "COMPACTING" /\ FinalizeRequestedRow(rows[p]).finalizeRequested
    BY <1>1 DEF FinalizeRequestedRow, RowType
  <1> QED BY <1>2, <1>3, UntouchedHonoured DEF Honoured

\* Every step of the store honours pending requests.
LEMMA StepHonours ==
  ASSUME Inv, [StoreNext]_storeVars, NEW p \in DOMAIN rows, rows[p].finalizeRequested
  PROVE  Honoured(p)
  <1>1. CASE UNCHANGED storeVars
    BY <1>1, UntouchedHonoured DEF storeVars
  <1>2. ASSUME NEW o \in Original, CreatePart(o)
        PROVE  Honoured(p)
    BY <1>2, UntouchedHonoured DEF CreatePart
  <1>3. ASSUME NEW w \in Worker, ClaimStep(w)
        PROVE  Honoured(p)
    <2>1. PICK locked \in SUBSET Claimable :
            \E B \in CompactBatches(locked) : ClaimNextCompactBatch(w, B, locked)
      BY <1>3 DEF ClaimStep
    <2>2. PICK B \in CompactBatches(locked) : ClaimNextCompactBatch(w, B, locked)
      BY <2>1
    <2>3. p \notin B
      BY <2>2, ClaimedAreReady, RequestPending
    <2>4. rows'[p] = rows[p]
      BY <2>2, <2>3 DEF ClaimNextCompactBatch, Apply
    <2> QED BY <2>4, UntouchedHonoured
  <1>4. CASE StoreNext
    BY <1>2, <1>3, <1>4, RewriteHonoured, HeartbeatHonoured, BatchHonoured, MaintenanceHonoured,
       RequestHonoured, OperatorHonoured
    DEF StoreNext
  <1> QED BY <1>1, <1>4

\* A row leaves COMPACTING with a pending finalization request only as
\* FINISHED, FAILED, or superseded by a FINISHED artifact.
THEOREM RequestsHonoured == StoreSpec => FinalizationHonoured
  <1>1. ASSUME Inv, [StoreNext]_storeVars
        PROVE  [\A p \in DOMAIN rows :
                  rows[p].finalizeRequested =>
                    \/ rows'[p].status = "COMPACTING" /\ rows'[p].finalizeRequested
                    \/ rows'[p].status \in {"FINISHED", "FAILED"}
                    \/ \E q \in rows'[p].supersededBy : rows'[q].status = "FINISHED"]_storeVars
    BY <1>1, StepHonours DEF Honoured
  <1> QED BY <1>1, StoreInvariant, PTL DEF StoreSpec, FinalizationHonoured

-----------------------------------------------------------------------------
(* The state store implements the ledger of sources: every operation on    *)
(* the rows registers, joins, closes or imports holdings, or leaves them   *)
(* as they are.                                                            *)

\* What the mapping needs beyond Inv: every artifact holds some source, so that
\* different artifacts are different holdings, and a row being imported
\* remembers it, so that it stays closed when its import fails.
Mapped ==
  \A p \in DOMAIN rows : /\ rows[p].lineage # {}
                         /\ rows[p].status = "IMPORTING" => rows[p].importingAt

HoldingOf(r) == [sources |-> r.lineage, phase |-> PhaseOf(r)]

LiveRows == {p \in DOMAIN rows : Live(rows[p])}

Held == {HoldingOf(rows[p]) : p \in LiveRows}

-----------------------------------------------------------------------------
(* What the operations on existing rows do to the phase of one.            *)

\* Row s is where r was in the ledger, or has been closed.
MovesOn(r, s) ==
  /\ PhaseOf(s) = PhaseOf(r) \/ (PhaseOf(r) = "open" /\ PhaseOf(s) = "closed")
  /\ s.status = "IMPORTING" => s.importingAt

Advances == \A p \in DOMAIN rows : MovesOn(rows[p], rows'[p])

\* A row that does not change stays where it is.
LEMMA Stays ==
  ASSUME Mapped, NEW p \in DOMAIN rows, rows'[p] = rows[p]
  PROVE  MovesOn(rows[p], rows'[p])
  BY DEF Mapped, MovesOn

\* The rewrite's operations close a row only when its output is empty.
LEMMA RewriteAdvances ==
  ASSUME Inv, Mapped, NEW w \in Worker, NEW x \in DOMAIN rows, RewriteStep(w, x)
  PROVE  Advances
  <1>1. rows[x] \in RowType(DOMAIN rows) /\ RowOK(rows[x])
    BY RowsOK
  <1>2. rows[x].status \in {"READY", "IN_PROGRESS"} /\ ~rows[x].importingAt
    BY <1>1 DEF RewriteStep, ClaimNextReady, MarkCompactReady, MarkFailed, ReleaseInProgress,
                InProgressOwned, RowOK
  <1>3. PhaseOf(rows[x]) = "open"
    BY <1>2 DEF PhaseOf
  <1>4. CASE ClaimNextReady(w, x)
    <2>1. rows'[x] = ClaimedRow(rows[x], w) /\ \A p \in DOMAIN rows \ {x} : rows'[p] = rows[p]
      BY <1>4 DEF ClaimNextReady, Inv, TypeOK
    <2>2. rows'[x].status = "IN_PROGRESS" /\ ~rows'[x].importingAt
      BY <2>1, <1>1, <1>2 DEF ClaimedRow, RowType
    <2> QED BY <2>1, <2>2, <1>3, Stays DEF Advances, MovesOn, PhaseOf
  <1>5. ASSUME NEW s \in Shape, MarkCompactReady(w, x, s)
        PROVE  Advances
    <2>1. rows'[x] = RewrittenRow(rows[x], s) /\ \A p \in DOMAIN rows \ {x} : rows'[p] = rows[p]
      BY <1>5 DEF MarkCompactReady, Inv, TypeOK
    <2>2. rows'[x].status \in {"FINISHED", "COMPACT_READY"} /\ ~rows'[x].importingAt
      BY <2>1, <1>1, <1>2 DEF RewrittenRow, RowType
    <2> QED BY <2>1, <2>2, <1>3, Stays DEF Advances, MovesOn, PhaseOf
  <1>6. CASE MarkFailed(w, x)
    <2>1. /\ rows'[x] = [rows[x] EXCEPT !.status = "FAILED", !.worker = NoWorker]
          /\ \A p \in DOMAIN rows \ {x} : rows'[p] = rows[p]
      BY <1>6 DEF MarkFailed, Inv, TypeOK
    <2>2. rows'[x].status = "FAILED" /\ ~rows'[x].importingAt
      BY <2>1, <1>1, <1>2 DEF RowType
    <2> QED BY <2>1, <2>2, <1>3, Stays DEF Advances, MovesOn, PhaseOf
  <1>7. CASE ReleaseInProgress(w, x)
    <2>1. rows'[x] = UnclaimedRow(rows[x]) /\ \A p \in DOMAIN rows \ {x} : rows'[p] = rows[p]
      BY <1>7 DEF ReleaseInProgress, Inv, TypeOK
    <2>2. rows'[x].status = "READY" /\ ~rows'[x].importingAt
      BY <2>1, <1>1, <1>2 DEF UnclaimedRow, RowType
    <2> QED BY <2>1, <2>2, <1>3, Stays DEF Advances, MovesOn, PhaseOf
  <1> QED BY <1>4, <1>5, <1>6, <1>7 DEF RewriteStep

\* A row offered for compaction or compacted is open.
LEMMA CompactRowsOpen ==
  ASSUME Inv, NEW p \in DOMAIN rows, rows[p].status \in {"COMPACT_READY", "COMPACTING"}
  PROVE  PhaseOf(rows[p]) = "open" /\ ~rows[p].importingAt /\ rows[p] \in RowType(DOMAIN rows)
  BY RowsOK DEF RowOK, PhaseOf

\* Claims and heartbeats leave it open.
LEMMA ClaimAdvances ==
  ASSUME Inv, Mapped, NEW w \in Worker,
         ClaimStep(w) \/ \E x \in DOMAIN rows : HeartbeatCompactPart(w, x)
  PROVE  Advances
  <1>1. ASSUME NEW B, NEW locked, ClaimNextCompactBatch(w, B, locked), NEW p \in DOMAIN rows
        PROVE  MovesOn(rows[p], rows'[p])
    <2>1. rows'[p] = IF p \in B THEN CompactClaimedRow(rows[p], w) ELSE rows[p]
      BY <1>1 DEF ClaimNextCompactBatch, Apply
    <2>2. CASE p \in B
      <3>1. /\ PhaseOf(rows[p]) = "open" /\ ~rows[p].importingAt
            /\ rows[p] \in RowType(DOMAIN rows)
        BY <1>1, <2>2, ClaimedAreReady, CompactRowsOpen DEF ClaimNextCompactBatch
      <3>2. rows'[p].status = "COMPACTING" /\ ~rows'[p].importingAt
        BY <2>1, <2>2, <3>1 DEF CompactClaimedRow, RowType
      <3> QED BY <3>1, <3>2 DEF MovesOn, PhaseOf
    <2> QED BY <2>1, <2>2, Stays
  <1>2. ASSUME NEW x \in DOMAIN rows, HeartbeatCompactPart(w, x), NEW p \in DOMAIN rows
        PROVE  MovesOn(rows[p], rows'[p])
    <2>1. rows'[p] = IF p = x THEN HeartbeatRow(rows[p], w) ELSE rows[p]
      BY <1>2 DEF HeartbeatCompactPart, Inv, TypeOK
    <2>2. CASE p = x
      <3>1. /\ PhaseOf(rows[p]) = "open" /\ ~rows[p].importingAt
            /\ rows[p] \in RowType(DOMAIN rows)
        BY <1>2, <2>2, CompactRowsOpen DEF HeartbeatCompactPart, CompactOwnedOrUnownedReady
      <3>2. rows'[p].status = "COMPACTING" /\ ~rows'[p].importingAt
        BY <2>1, <2>2, <3>1 DEF HeartbeatRow, RowType
      <3> QED BY <3>1, <3>2 DEF MovesOn, PhaseOf
    <2> QED BY <2>1, <2>2, Stays
  <1> QED BY <1>1, <1>2 DEF ClaimStep, Advances

\* The ends of a batch, and requests to finalize, leave its rows open or close them.
LEMMA BatchAdvances ==
  ASSUME Inv, Mapped, NEW w, NEW B,
         \/ \E finalize \in BOOLEAN : ReleaseCompactBatch(w, B, finalize)
         \/ MarkCompactBatchFailed(w, B)
         \/ RequestCompactFinalization(B)
  PROVE  Advances
  <1>1. SUFFICES ASSUME NEW p \in DOMAIN rows
                 PROVE  MovesOn(rows[p], rows'[p])
    BY DEF Advances
  <1>2. CASE p \notin B
    <2>1. rows'[p] = rows[p]
      BY <1>2 DEF ReleaseCompactBatch, MarkCompactBatchFailed, RequestCompactFinalization, Apply
    <2> QED BY <2>1, Stays
  <1>3. CASE p \in B
    <2>1. rows[p].status \in {"COMPACT_READY", "COMPACTING"}
      BY <1>3 DEF ReleaseCompactBatch, MarkCompactBatchFailed, RequestCompactFinalization,
                  CompactOwnedOrUnownedReady
    <2>2. /\ PhaseOf(rows[p]) = "open" /\ ~rows[p].importingAt
          /\ rows[p] \in RowType(DOMAIN rows)
      BY <2>1, CompactRowsOpen
    <2>3. /\ rows'[p].status \in {"FINISHED", "COMPACT_READY", "COMPACTING", "FAILED"}
          /\ ~rows'[p].importingAt
      <3>1. ASSUME NEW finalize \in BOOLEAN, ReleaseCompactBatch(w, B, finalize)
            PROVE  rows'[p].status \in {"FINISHED", "COMPACT_READY"} /\ ~rows'[p].importingAt
        <4>1. rows'[p] = CompactReleasedRow(rows[p], finalize)
          BY <1>3, <3>1 DEF ReleaseCompactBatch, Apply
        <4> QED BY <4>1, <2>2 DEF CompactReleasedRow, RowType
      <3>2. CASE MarkCompactBatchFailed(w, B)
        <4>1. rows'[p] = CompactFailedRow(rows[p])
          BY <1>3, <3>2 DEF MarkCompactBatchFailed, Apply
        <4> QED BY <4>1, <2>2 DEF CompactFailedRow, RowType
      <3>3. CASE RequestCompactFinalization(B)
        <4>1. rows'[p] = FinalizeRequestedRow(rows[p])
          BY <1>3, <3>3 DEF RequestCompactFinalization, Apply
        <4>2. CASE rows[p].status = "COMPACT_READY"
          BY <4>1, <4>2, <2>2 DEF FinalizeRequestedRow, RowType
        <4>3. CASE rows[p].status = "COMPACTING"
          BY <4>1, <4>3, <2>2 DEF FinalizeRequestedRow, RowType
        <4> QED BY <2>1, <4>2, <4>3
      <3> QED BY <3>1, <3>2, <3>3
    <2> QED BY <2>2, <2>3 DEF MovesOn, PhaseOf
  <1> QED BY <1>2, <1>3

\* Maintenance and finalization close ready rows; time closes none.
LEMMA MaintenanceAdvances ==
  ASSUME Inv, Mapped, MaintenanceStep \/ TimeStep
  PROVE  Advances
  <1>1. SUFFICES ASSUME NEW p \in DOMAIN rows
                 PROVE  MovesOn(rows[p], rows'[p])
    BY DEF Advances
  <1>2. rows[p] \in RowType(DOMAIN rows)
    BY RowsOK
  <1>3. ASSUME NEW S, NEW m, MaintainCompaction(S, m)
        PROVE  MovesOn(rows[p], rows'[p])
    <2> DEFINE R == ReleasedStale(rows, S)
               T == UNION {Finalizable(R, j, m[j]) : j \in Job}
    <2>1. R = [x \in DOMAIN rows |-> IF x \in S THEN CompactReleasedRow(rows[x], FALSE) ELSE rows[x]]
      BY DEF ReleasedStale, Apply
    <2>2. rows' = [x \in DOMAIN R |-> IF x \in T THEN [R[x] EXCEPT !.status = "FINISHED"] ELSE R[x]]
      BY <1>3 DEF MaintainCompaction, Finalized, Apply
    <2>3. T \subseteq {x \in DOMAIN R : R[x].status = "COMPACT_READY"}
      BY DEF Finalizable
    <2> HIDE DEF R, T
    <2>4. CASE rows[p].status \in {"COMPACT_READY", "COMPACTING"}
      <3>1. PhaseOf(rows[p]) = "open" /\ ~rows[p].importingAt
        BY <2>4, CompactRowsOpen
      <3>2. /\ R[p].status \in {"FINISHED", "COMPACT_READY", "COMPACTING"} /\ ~R[p].importingAt
            /\ R[p] \in RowType(DOMAIN rows)
        BY <2>1, <2>4, <3>1, <1>2 DEF CompactReleasedRow, RowType, Status
      <3>3. rows'[p] = IF p \in T THEN [R[p] EXCEPT !.status = "FINISHED"] ELSE R[p]
        BY <2>1, <2>2
      <3>4. rows'[p].status \in {"FINISHED", "COMPACT_READY", "COMPACTING"} /\ ~rows'[p].importingAt
        BY <3>2, <3>3 DEF RowType
      <3> QED BY <3>1, <3>4 DEF MovesOn, PhaseOf
    <2>5. CASE rows[p].status \notin {"COMPACT_READY", "COMPACTING"}
      <3>1. p \notin S
        BY <1>3, <2>5 DEF MaintainCompaction, Stale
      <3>2. R[p] = rows[p] /\ p \notin T
        BY <2>1, <2>3, <2>5, <3>1
      <3>3. rows'[p] = rows[p]
        BY <2>1, <2>2, <3>2
      <3> QED BY <3>3, Stays
    <2> QED BY <2>4, <2>5
  <1>4. ASSUME NEW j, NEW m, FinalizeCompactReadyJob(j, m)
        PROVE  MovesOn(rows[p], rows'[p])
    <2> DEFINE T == Finalizable(rows, j, m)
    <2>1. rows'[p] = IF p \in T THEN [rows[p] EXCEPT !.status = "FINISHED"] ELSE rows[p]
      BY <1>4 DEF FinalizeCompactReadyJob, Finalized, Apply
    <2>2. p \in T => rows[p].status = "COMPACT_READY"
      BY DEF Finalizable
    <2> HIDE DEF T
    <2>3. CASE p \in T
      <3>1. PhaseOf(rows[p]) = "open" /\ ~rows[p].importingAt
        BY <2>2, <2>3, CompactRowsOpen
      <3>2. rows'[p].status = "FINISHED" /\ ~rows'[p].importingAt
        BY <2>1, <2>3, <3>1, <1>2 DEF RowType
      <3> QED BY <3>1, <3>2 DEF MovesOn, PhaseOf
    <2> QED BY <2>1, <2>3, Stays
  <1>5. ASSUME NEW x, LeaseExpires(x)
        PROVE  MovesOn(rows[p], rows'[p])
    <2>1. rows'[p].status = rows[p].status /\ rows'[p].importingAt = rows[p].importingAt
      BY <1>2, <1>5 DEF LeaseExpires, RowType, Inv, TypeOK
    <2> QED BY <2>1 DEF Mapped, MovesOn, PhaseOf
  <1>6. ASSUME NEW j, WindowExpires(j)
        PROVE  MovesOn(rows[p], rows'[p])
    BY <1>6, Stays DEF WindowExpires
  <1> QED BY <1>3, <1>4, <1>5, <1>6 DEF MaintenanceStep, TimeStep

\* Imports and retries keep a row where it is, until its import succeeds.
LEMMA OperatorAdvances ==
  ASSUME Inv, Mapped, NEW x \in DOMAIN rows, OperatorStep(x), ~MarkImported(x)
  PROVE  Advances
  <1>1. rows[x] \in RowType(DOMAIN rows) /\ RowOK(rows[x])
    BY RowsOK
  <1>2. \A p \in DOMAIN rows \ {x} : rows'[p] = rows[p]
    BY DEF OperatorStep, MarkImporting, ReleaseImport, MarkImportFailed, RetryFailedPart,
           RetryInProgressPart, Inv, TypeOK
  <1>3. CASE MarkImporting(x)
    <2>1. rows'[x] = [rows[x] EXCEPT !.status = "IMPORTING", !.importingAt = TRUE]
      BY <1>3 DEF MarkImporting, Inv, TypeOK
    <2>2. rows[x].status = "FINISHED" /\ rows'[x].status = "IMPORTING" /\ rows'[x].importingAt
      BY <1>1, <1>3, <2>1 DEF MarkImporting, RowType
    <2> QED BY <1>2, <2>2, Stays DEF Advances, MovesOn, PhaseOf
  <1>4. CASE ReleaseImport(x)
    <2>1. rows'[x] = [rows[x] EXCEPT !.status = "FINISHED", !.importingAt = FALSE]
      BY <1>4 DEF ReleaseImport, Inv, TypeOK
    <2>2. rows[x].status = "IMPORTING" /\ rows'[x].status = "FINISHED"
      BY <1>1, <1>4, <2>1 DEF ReleaseImport, RowType
    <2> QED BY <1>2, <2>2, Stays DEF Advances, MovesOn, PhaseOf
  <1>5. CASE MarkImportFailed(x)
    <2>1. rows'[x] = [rows[x] EXCEPT !.status = "FAILED"]
      BY <1>5 DEF MarkImportFailed, Inv, TypeOK
    <2>2. /\ rows[x].status = "IMPORTING" /\ rows[x].importingAt
          /\ rows'[x].status = "FAILED" /\ rows'[x].importingAt
      BY <1>1, <1>5, <2>1 DEF MarkImportFailed, RowType, Mapped
    <2> QED BY <1>2, <2>2, Stays DEF Advances, MovesOn, PhaseOf
  <1>6. CASE RetryFailedPart(x)
    <2>1. rows'[x] = RetriedRow(rows[x], FailedRetryTarget(rows[x])) /\ rows[x].status = "FAILED"
      BY <1>6 DEF RetryFailedPart, Inv, TypeOK
    <2>2. /\ rows'[x].status = FailedRetryTarget(rows[x])
          /\ ~rows'[x].importingAt
      BY <1>1, <2>1 DEF RetriedRow, RowType
    <2>3. /\ rows[x].importingAt => rows'[x].status = "FINISHED"
          /\ ~rows[x].importingAt => rows'[x].status \in {"COMPACT_READY", "READY"}
      BY <2>2 DEF FailedRetryTarget
    <2> QED BY <1>2, <2>1, <2>2, <2>3, Stays DEF Advances, MovesOn, PhaseOf
  <1>7. CASE RetryInProgressPart(x)
    <2>1. rows'[x] = UnclaimedRow(rows[x]) /\ rows[x].status = "IN_PROGRESS" /\ ~rows[x].importingAt
      BY <1>1, <1>7 DEF RetryInProgressPart, RowOK, Inv, TypeOK
    <2>2. rows'[x].status = "READY" /\ ~rows'[x].importingAt
      BY <1>1, <2>1 DEF UnclaimedRow, RowType
    <2> QED BY <1>2, <2>1, <2>2, Stays DEF Advances, MovesOn, PhaseOf
  <1> QED BY <1>3, <1>4, <1>5, <1>6, <1>7 DEF OperatorStep

-----------------------------------------------------------------------------
(* What that means for the holdings.                                       *)

\* Different live artifacts are different holdings.
LEMMA DistinctHoldings ==
  ASSUME Inv, Mapped, NEW p \in LiveRows, NEW q \in LiveRows, p # q
  PROVE  HoldingOf(rows[p]) # HoldingOf(rows[q])
  <1>1. rows[p].lineage \cap rows[q].lineage = {} /\ rows[p].lineage # {}
    BY DEF Inv, ExactlyOnce, NothingTwice, LiveRows, Mapped
  <1>2. HoldingOf(rows[p]).sources = rows[p].lineage /\ HoldingOf(rows[q]).sources = rows[q].lineage
    BY DEF HoldingOf
  <1> QED BY <1>1, <1>2

\* An operation that supersedes nothing keeps the live rows and their sources.
LEMMA QuietHeld ==
  ASSUME Inv, Quiet
  PROVE  /\ LiveRows' = LiveRows
         /\ Held' = {HoldingOf(rows'[p]) : p \in LiveRows}
         /\ \A p \in DOMAIN rows : rows'[p].lineage = rows[p].lineage
  <1>1. DOMAIN rows' = DOMAIN rows
    BY DEF Quiet
  <1>2. \A p \in DOMAIN rows : SameSource(rows[p], rows'[p])
    BY DEF Quiet, Follows
  <1>3. LiveRows' = LiveRows
    BY <1>1, <1>2 DEF LiveRows, SameSource
  <1> QED BY <1>2, <1>3 DEF Held, SameSource

\* Rows that move on are a set of holdings that is closed.
LEMMA AdvancesClose ==
  ASSUME Inv, Mapped, Quiet, Advances
  PROVE  Mapped' /\ \E G \in SUBSET Held : Ledger!Close(G)
  <1> DEFINE C == {p \in LiveRows : PhaseOf(rows'[p]) # PhaseOf(rows[p])}
             G == {HoldingOf(rows[p]) : p \in C}
  <1>1. /\ LiveRows' = LiveRows
        /\ Held' = {HoldingOf(rows'[p]) : p \in LiveRows}
        /\ \A p \in DOMAIN rows : rows'[p].lineage = rows[p].lineage
    BY QuietHeld
  <1>2. Mapped'
    <2>1. DOMAIN rows' = DOMAIN rows
      BY DEF Quiet
    <2> QED BY <1>1, <2>1 DEF Mapped, Advances, MovesOn
  <1>3. \A p \in C : /\ p \in LiveRows /\ PhaseOf(rows[p]) = "open"
                     /\ HoldingOf(rows'[p]) = [sources |-> rows[p].lineage, phase |-> "closed"]
    BY <1>1 DEF Advances, MovesOn, LiveRows, HoldingOf
  <1>4. \A p \in LiveRows \ C : HoldingOf(rows'[p]) = HoldingOf(rows[p])
    BY <1>1 DEF LiveRows, HoldingOf
  <1> HIDE DEF C
  <1>5. \A p \in LiveRows \ C : HoldingOf(rows[p]) \notin G
    BY <1>3, DistinctHoldings
  <1>6. Held \ G = {HoldingOf(rows[p]) : p \in LiveRows \ C}
    BY <1>3, <1>5 DEF Held
  <1>7. \A h \in G : h.phase = "open"
    <2>1. \A p \in C : HoldingOf(rows[p]).phase = "open"
      BY <1>3 DEF HoldingOf
    <2> QED BY <2>1
  <1>8. {[sources |-> h.sources, phase |-> "closed"] : h \in G} = {HoldingOf(rows'[p]) : p \in C}
    <2>1. \A p \in C : HoldingOf(rows[p]).sources = rows[p].lineage
      BY DEF HoldingOf
    <2> QED BY <1>3, <2>1
  <1>9. {HoldingOf(rows[p]) : p \in LiveRows \ C} = {HoldingOf(rows'[p]) : p \in LiveRows \ C}
    BY <1>4
  <1>10. Held' = (Held \ G) \cup {[sources |-> h.sources, phase |-> "closed"] : h \in G}
    BY <1>1, <1>3, <1>6, <1>8, <1>9
  <1>11. G \in SUBSET Held
    BY <1>3 DEF Held
  <1> HIDE DEF G
  <1>12. PICK g : g = G
    OBVIOUS
  <1>13. g \in SUBSET Held /\ Ledger!Close(g)
    BY <1>7, <1>10, <1>11, <1>12 DEF Ledger!Close, Ledger!Holding, Held, LiveRows, HoldingOf
  <1> QED BY <1>2, <1>13

\* An import that succeeds imports one closed holding.
LEMMA MarkImportedImports ==
  ASSUME Inv, Mapped, NEW x \in DOMAIN rows, MarkImported(x)
  PROVE  Mapped' /\ \E h \in Held : Ledger!Import(h)
  <1> DEFINE h == HoldingOf(rows[x])
  <1>1. Quiet
    BY MarkImportedQuiet
  <1>2. /\ LiveRows' = LiveRows
        /\ Held' = {HoldingOf(rows'[p]) : p \in LiveRows}
        /\ \A p \in DOMAIN rows : rows'[p].lineage = rows[p].lineage
    BY <1>1, QuietHeld
  <1>3. /\ rows[x].status = "IMPORTING" /\ rows'[x].status = "IMPORTED"
        /\ \A p \in DOMAIN rows \ {x} : rows'[p] = rows[p]
    BY RowsOK DEF MarkImported, Inv, TypeOK, RowType
  <1>4. Mapped'
    <2>1. DOMAIN rows' = DOMAIN rows
      BY <1>1 DEF Quiet
    <2> QED BY <1>2, <1>3, <2>1 DEF Mapped
  <1>5. x \in LiveRows /\ h.phase = "closed" /\ h.sources = rows[x].lineage
    BY <1>3 DEF LiveRows, Live, HoldingOf, PhaseOf
  <1>6. HoldingOf(rows'[x]) = [sources |-> h.sources, phase |-> "imported"]
    BY <1>2, <1>3, <1>5 DEF HoldingOf, PhaseOf
  <1>7. Held \ {h} = {HoldingOf(rows[p]) : p \in LiveRows \ {x}}
    BY <1>5, DistinctHoldings DEF Held
  <1>8. {HoldingOf(rows[p]) : p \in LiveRows \ {x}} = {HoldingOf(rows'[p]) : p \in LiveRows \ {x}}
    BY <1>3 DEF LiveRows
  <1>9. Held' = (Held \ {h}) \cup {[sources |-> h.sources, phase |-> "imported"]}
    BY <1>2, <1>5, <1>6, <1>7, <1>8
  <1>10. h \in Held
    BY <1>5 DEF Held
  <1> HIDE DEF h
  <1>11. PICK k : k = h
    OBVIOUS
  <1>12. k \in Held /\ Ledger!Import(k)
    BY <1>5, <1>9, <1>10, <1>11 DEF Ledger!Import, Ledger!Holding, Held, LiveRows, HoldingOf
  <1> QED BY <1>4, <1>12

\* The upload of a part registers a source nobody holds yet.
LEMMA CreatePartRegisters ==
  ASSUME Inv, Mapped, NEW o \in Original, CreatePart(o)
  PROVE  Mapped' /\ Ledger!Register(o)
  <1>1. /\ o \notin DOMAIN rows /\ DOMAIN rows' = DOMAIN rows \cup {o}
        /\ rows'[o] = NewPart(o) /\ \A p \in DOMAIN rows : rows'[p] = rows[p]
    BY DEF CreatePart
  <1>2. /\ NewPart(o).lineage = {o} /\ NewPart(o).status = "READY" /\ ~NewPart(o).importingAt
        /\ HoldingOf(NewPart(o)) = [sources |-> {o}, phase |-> "open"]
    BY DEF NewPart, HoldingOf, PhaseOf
  <1>3. Mapped'
    BY <1>1, <1>2 DEF Mapped
  <1>4. LiveRows' = LiveRows \cup {o}
    BY <1>1, <1>2 DEF LiveRows, Live
  <1>5. {HoldingOf(rows'[p]) : p \in LiveRows} = Held
    BY <1>1 DEF Held, LiveRows
  <1>6. Held' = Held \cup {[sources |-> {o}, phase |-> "open"]}
    BY <1>1, <1>2, <1>4, <1>5 DEF Held
  <1>7. \A h \in Held : o \notin h.sources
    BY <1>1, RowsOK DEF Held, LiveRows, HoldingOf, RowType
  <1>8. Ledger!Register(o)
    BY <1>6, <1>7 DEF Ledger!Register, Ledger!Sources, Ledger!Holding, Held, LiveRows, HoldingOf
  <1> QED BY <1>3, <1>8

\* A completed compaction merges the holdings of its inputs.
LEMMA CompleteCompactionMerges ==
  ASSUME Inv, Mapped, NEW w \in Worker, NEW B, NEW s \in Reductions(B), CompleteCompaction(w, B, s)
  PROVE  Mapped' /\ \E G \in SUBSET Held, ph \in Ledger!Phase : Ledger!Merge(G, ph)
  <1>1. PICK out : Compaction(B, out)
    BY CompleteCompactionEffect
  <1> DEFINE D  == DOMAIN rows
             G  == {HoldingOf(rows[p]) : p \in B}
             ph == PhaseOf(rows'[out])
  <1>2. /\ out \notin D /\ B \subseteq D /\ B # {} /\ DOMAIN rows' = D \cup {out}
        /\ \A p \in D \ B : rows'[p] = rows[p]
        /\ \A p \in B : /\ rows[p].status \in {"COMPACT_READY", "COMPACTING"}
                        /\ rows'[p].status = "SUPERSEDED"
        /\ rows'[out].lineage = BatchLineage(B)
        /\ rows'[out].status \in {"FINISHED", "COMPACT_READY"} /\ ~rows'[out].importingAt
    BY <1>1 DEF Compaction
  <1>3. BatchLineage(B) # {}
    BY <1>2 DEF BatchLineage, Mapped
  <1>4. \A p \in B : rows'[p].lineage = rows[p].lineage
    <2>1. ASSUME NEW p \in B
          PROVE  \E x : rows'[p] = SupersededRow(rows[p], x)
      <3>1. PICK newest \in B :
              LET g   == rows[newest].generation + 1
                  x   == DeriveCompactPartID(B, g)
                  superseded == Apply(rows, B, LAMBDA r : SupersededRow(r, x))
              IN /\ x \notin D
                 /\ \A q \in D : rows'[q] = superseded[q]
        BY DEF CompleteCompaction
      <3> QED BY <1>2, <3>1 DEF Apply
    <2>2. ASSUME NEW p \in B
          PROVE  rows'[p].lineage = rows[p].lineage
      <3>1. PICK x : rows'[p] = SupersededRow(rows[p], x)
        BY <2>1
      <3>2. rows[p] \in RowType(DOMAIN rows)
        BY <1>2, RowsOK
      <3> QED BY <3>1, <3>2 DEF SupersededRow, RowType
    <2> QED BY <2>2
  <1>5. Mapped'
    BY <1>2, <1>3, <1>4 DEF Mapped
  <1>6. B \subseteq LiveRows /\ LiveRows' = (LiveRows \ B) \cup {out}
    BY <1>2 DEF LiveRows, Live
  <1>7. ph \in {"open", "closed"} /\ HoldingOf(rows'[out]) = [sources |-> BatchLineage(B), phase |-> ph]
    BY <1>2 DEF PhaseOf, HoldingOf
  <1>8. {HoldingOf(rows'[p]) : p \in LiveRows \ B} = {HoldingOf(rows[p]) : p \in LiveRows \ B}
    BY <1>2 DEF LiveRows
  <1>9. Held \ G = {HoldingOf(rows[p]) : p \in LiveRows \ B}
    BY <1>6, DistinctHoldings DEF Held
  <1>10. Held' = (Held \ G) \cup {[sources |-> BatchLineage(B), phase |-> ph]}
    BY <1>6, <1>7, <1>8, <1>9 DEF Held
  <1>11. \A h \in G : h.phase = "open"
    BY <1>2, CompactRowsOpen DEF HoldingOf
  <1>12. G # {} /\ G \in SUBSET Held
    BY <1>2, <1>6 DEF Held
  <1>13. BatchLineage(B) = UNION {h.sources : h \in G}
    <2>1. \A p \in B : HoldingOf(rows[p]).sources = rows[p].lineage
      BY DEF HoldingOf
    <2>2. {h.sources : h \in G} = {rows[p].lineage : p \in B}
      BY <2>1
    <2> QED BY <2>2 DEF BatchLineage
  <1> HIDE DEF G, ph
  <1>14. PICK g, f : g = G /\ f = ph
    OBVIOUS
  <1>15. g \in SUBSET Held /\ f \in Ledger!Phase /\ Ledger!Merge(g, f)
    BY <1>7, <1>10, <1>11, <1>12, <1>13, <1>14
    DEF Ledger!Merge, Ledger!Sources, Ledger!Holding, Ledger!Phase, Held, LiveRows, HoldingOf
  <1> QED BY <1>5, <1>15

-----------------------------------------------------------------------------
(* The refinement.                                                         *)

\* Every operation of the store is a step of the ledger.
LEMMA StepRefines ==
  ASSUME Inv, Mapped, StoreNext
  PROVE  Mapped' /\ Ledger!Next
  <1>1. CASE Quiet /\ Advances
    <2>1. Mapped' /\ \E G \in SUBSET Held : Ledger!Close(G)
      BY <1>1, AdvancesClose
    <2> QED BY <2>1 DEF Ledger!Next, Held, LiveRows, HoldingOf
  <1>2. ASSUME NEW o \in Original, CreatePart(o)
        PROVE  Mapped' /\ Ledger!Next
    BY <1>2, CreatePartRegisters DEF Ledger!Next
  <1>3. ASSUME NEW w \in Worker, NEW B \in SUBSET DOMAIN rows, NEW s \in Reductions(B),
               CompleteCompaction(w, B, s)
        PROVE  Mapped' /\ Ledger!Next
    <2>1. Mapped' /\ \E G \in SUBSET Held, ph \in Ledger!Phase : Ledger!Merge(G, ph)
      BY <1>3, CompleteCompactionMerges
    <2> QED BY <2>1 DEF Ledger!Next, Held, LiveRows, HoldingOf
  <1>4. ASSUME NEW x \in DOMAIN rows, MarkImported(x)
        PROVE  Mapped' /\ Ledger!Next
    <2>1. Mapped' /\ \E h \in Held : Ledger!Import(h)
      BY <1>4, MarkImportedImports
    <2> QED BY <2>1 DEF Ledger!Next, Held, LiveRows, HoldingOf
  <1>5. ASSUME NEW w \in Worker, NEW p \in DOMAIN rows,
               RewriteStep(w, p) \/ HeartbeatCompactPart(w, p)
        PROVE  Quiet /\ Advances
    BY <1>5, RewriteAdvances, ClaimAdvances, ClaimNextReadyQuiet, MarkCompactReadyQuiet,
       MarkFailedQuiet, ReleaseInProgressQuiet, HeartbeatCompactPartQuiet
    DEF RewriteStep
  <1>6. ASSUME NEW w \in Worker, ClaimStep(w)
        PROVE  Quiet /\ Advances
    BY <1>6, ClaimAdvances, ClaimNextCompactBatchQuiet DEF ClaimStep
  <1>7. ASSUME NEW w \in Worker, NEW B \in SUBSET DOMAIN rows, CompactStep(w, B)
        PROVE  (Quiet /\ Advances) \/ \E s \in Reductions(B) : CompleteCompaction(w, B, s)
    BY <1>7, BatchAdvances, ReleaseCompactBatchQuiet, MarkCompactBatchFailedQuiet DEF CompactStep
  <1>8. ASSUME MaintenanceStep \/ TimeStep
        PROVE  Quiet /\ Advances
    BY <1>8, MaintenanceAdvances, MaintainCompactionQuiet, FinalizeCompactReadyJobQuiet,
       LeaseExpiresQuiet, UnchangedQuiet
    DEF MaintenanceStep, TimeStep, WindowExpires
  <1>9. ASSUME NEW p \in DOMAIN rows, OperatorStep(p), ~MarkImported(p)
        PROVE  Quiet /\ Advances
    BY <1>9, OperatorAdvances, MarkImportingQuiet, ReleaseImportQuiet, MarkImportFailedQuiet,
       RetryFailedPartQuiet, RetryInProgressPartQuiet
    DEF OperatorStep
  <1>10. ASSUME NEW S \in SUBSET DOMAIN rows, RequestCompactFinalization(S)
         PROVE  Quiet /\ Advances
    <2>1. Quiet
      BY <1>10, RequestCompactFinalizationQuiet
    <2> QED BY <1>10, <2>1, BatchAdvances
  <1> QED BY <1>1, <1>2, <1>3, <1>4, <1>5, <1>6, <1>7, <1>8, <1>9, <1>10 DEF StoreNext

\* Every operation of the store registers, joins, closes or imports holdings,
\* or is invisible in the ledger: no interleaving of claims, heartbeats,
\* releases, retries and imports makes an artifact lose, share or regain
\* sources, or reopens one the importer has been offered.
THEOREM StoreImplementsLedger == StoreSpec => LedgerSpec
  <1>1. StoreInit => Mapped /\ Ledger!Init
    BY DEF StoreInit, Mapped, Ledger!Init
  <1>2. ASSUME Inv, Mapped, [StoreNext]_storeVars
        PROVE  Mapped' /\ [Ledger!Next]_({[sources |-> rows[p].lineage, phase |-> PhaseOf(rows[p])] :
                                           p \in {p \in DOMAIN rows : Live(rows[p])}})
    <2>1. CASE StoreNext
      BY <2>1, <1>2, StepRefines
    <2>2. CASE UNCHANGED storeVars
      BY <2>2, <1>2 DEF storeVars, Mapped
    <2> QED BY <2>1, <2>2, <1>2
  <1> QED BY <1>1, <1>2, StoreInvariant, PTL DEF StoreSpec, LedgerSpec, Ledger!Spec
=============================================================================
