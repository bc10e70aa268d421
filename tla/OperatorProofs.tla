---------------------------- MODULE OperatorProofs ----------------------------
(***************************************************************************)
(* Proofs about the operators' commands, for any number of operators at a  *)
(* time, any commands, forced ones too, and any uses of set-part-state and *)
(* delete-parts: rows stay well formed, with an owner exactly while        *)
(* somebody works on them, and the artifacts they offer are in S3. Until   *)
(* a row is forced, or a worker replaces rows that a command is about to   *)
(* delete, every source part is held exactly once and a reset of the       *)
(* compaction stays possible; by one operator at a time the timestamps of  *)
(* a row tell how far it has come.                                         *)
(***************************************************************************)
EXTENDS Operator, WellFoundedInduction, TLAPS

-----------------------------------------------------------------------------
(* The inductive invariant.                                                *)

Working == {"IN_PROGRESS", "COMPACTING"}
MayFail == {"IN_PROGRESS", "COMPACTING", "IMPORTING", "FAILED"}
Target == {"READY", "COMPACT_READY", "FINISHED"}

\* Rows, whatever other rows they refer to: those may have been deleted.
RowOf(inputs, supersededBy) ==
  [job : Job, status : Status, worker : Worker \cup {NoWorker}, generation : Nat,
   inputs : {inputs}, supersededBy : {supersededBy}, shape : ShapeType,
   compactReadyAt : BOOLEAN, finalizeRequested : BOOLEAN, leaseExpired : BOOLEAN,
   importingAt : BOOLEAN, lineage : SUBSET Original]

WellFormed(r) ==
  /\ r \in RowOf(r.inputs, r.supersededBy)
  /\ r.worker # NoWorker <=> r.status \in Working

RowsWellFormed == \A p \in DOMAIN rows : WellFormed(rows[p])

\* No artifact has been stored under a prefix that a command was about to delete.
Calm == "objects" \notin raced

\* An artifact is in S3 for as long as a row has statistics of it, whatever
\* the status: a row may be set to a status that offers it.
Kept == Calm => \A p \in DOMAIN rows : rows[p].shape.parts > 0 => p \in stored

CommandType(c) ==
  c \in [command : {c.command}, generated : {c.generated}, todo : {c.todo},
         prefixes : {c.prefixes}, changed : {c.changed}]

\* What a command has before it.
Given(c) ==
  /\ CommandType(c)
  /\ c.changed \subseteq DOMAIN c.todo
  /\ c.prefixes # {} => c.command \in Resets
  /\ \A p \in c.prefixes \cap DOMAIN c.todo : c.todo[p].to = "READY"
  /\ c.command # "reset-compact-timer" => \A p \in DOMAIN c.todo : c.todo[p].to \in Target

\* The prefixes of rows a command has done with belong to no artifact any more.
Spares(c, R) == \A p \in Doomed(c) \cap DOMAIN R : R[p].shape.parts = 0

CommandsGiven ==
  /\ op = [o \in Operator |-> op[o]]
  /\ \A o \in Operator : Given(op[o]) /\ (Calm => Spares(op[o], rows))

Remembered ==
  /\ forced \in BOOLEAN /\ raced \subseteq {"rows", "objects"}
  /\ rewritten \subseteq DOMAIN rows
  /\ DOMAIN failedIn = WithStatus({"FAILED"})
  /\ \A p \in DOMAIN failedIn : failedIn[p] \in {"IN_PROGRESS", "COMPACTING", "IMPORTING"}

OInv == RowsWellFormed /\ Kept /\ CommandsGiven /\ Remembered

-----------------------------------------------------------------------------
(* What the operations make of a row.                                      *)

\* Row s may take the place of row r: no statistics come from nowhere, and only
\* what was worked on fails.
Succeeds(r, s) ==
  /\ WellFormed(s)
  /\ s.shape.parts > 0 => r.shape.parts > 0
  /\ s.status = "FAILED" => r.status \in MayFail

\* The statistics that are left when they are cleared.
LEMMA EmptyShapeFacts == EmptyShape \in ShapeType /\ EmptyShape.parts = 0 /\ ~(EmptyShape.parts > 0)
  BY DEF EmptyShape, ShapeType

\* A row that stays as it is.
LEMMA Itself ==
  ASSUME NEW r, WellFormed(r)
  PROVE  Succeeds(r, r)
  BY DEF Succeeds, MayFail

\* A claimed row.
LEMMA ClaimedSucceeds ==
  ASSUME NEW r, WellFormed(r), NEW w \in Worker
  PROVE  Succeeds(r, ClaimedRow(r, w))
  BY EmptyShapeFacts, ConstantAssumption
  DEF ConstantAssumption, Succeeds, WellFormed, RowOf, ClaimedRow, Status, Working

\* A row whose rewrite was given up.
LEMMA UnclaimedSucceeds ==
  ASSUME NEW r, WellFormed(r)
  PROVE  Succeeds(r, UnclaimedRow(r))
  BY EmptyShapeFacts DEF Succeeds, WellFormed, RowOf, UnclaimedRow, Status, Working

\* A row whose rewrite failed.
LEMMA FailedSucceeds ==
  ASSUME NEW r, WellFormed(r), r.status = "IN_PROGRESS"
  PROVE  Succeeds(r, [r EXCEPT !.status = "FAILED", !.worker = NoWorker])
  BY DEF Succeeds, WellFormed, RowOf, Status, Working, MayFail

\* A row claimed for compaction.
LEMMA CompactClaimedSucceeds ==
  ASSUME NEW r, WellFormed(r), NEW w \in Worker
  PROVE  Succeeds(r, CompactClaimedRow(r, w))
  BY ConstantAssumption
  DEF ConstantAssumption, Succeeds, WellFormed, RowOf, CompactClaimedRow, Status, Working

\* A row released by its worker or by maintenance.
LEMMA CompactReleasedSucceeds ==
  ASSUME NEW r, WellFormed(r), NEW f \in BOOLEAN
  PROVE  Succeeds(r, CompactReleasedRow(r, f))
  <1> DEFINE st == IF f \/ r.finalizeRequested THEN "FINISHED" ELSE "COMPACT_READY"
  <1>1. st \in {"FINISHED", "COMPACT_READY"}
    OBVIOUS
  <1>2. CompactReleasedRow(r, f) =
          [r EXCEPT !.status = st, !.compactReadyAt = TRUE, !.worker = NoWorker,
                    !.leaseExpired = FALSE, !.finalizeRequested = FALSE]
    BY DEF CompactReleasedRow
  <1> HIDE DEF st
  <1> QED BY <1>1, <1>2 DEF Succeeds, WellFormed, RowOf, Status, Working

\* A row whose compaction failed.
LEMMA CompactFailedSucceeds ==
  ASSUME NEW r, WellFormed(r), r.status = "COMPACTING"
  PROVE  Succeeds(r, CompactFailedRow(r))
  BY DEF Succeeds, WellFormed, RowOf, CompactFailedRow, Status, Working, MayFail

\* An input of a compaction.
LEMMA SupersededSucceeds ==
  ASSUME NEW r, WellFormed(r), NEW out
  PROVE  Succeeds(r, SupersededRow(r, out))
  BY DEF Succeeds, WellFormed, RowOf, SupersededRow, Status, Working

\* A row that nobody works on, finished, imported or failed.
LEMMA StatusSucceeds ==
  ASSUME NEW r, WellFormed(r), r.status \notin Working, NEW st \in Status \ Working,
         st = "FAILED" => r.status \in MayFail
  PROVE  Succeeds(r, [r EXCEPT !.status = st])
  BY DEF Succeeds, WellFormed, RowOf, Status, Working

\* A row taken for import.
LEMMA ImportingSucceeds ==
  ASSUME NEW r, WellFormed(r), r.status = "FINISHED"
  PROVE  Succeeds(r, [r EXCEPT !.status = "IMPORTING", !.importingAt = TRUE])
  BY DEF Succeeds, WellFormed, RowOf, Status, Working

\* A row whose lease has run out.
LEMMA LeaseSucceeds ==
  ASSUME NEW r, WellFormed(r)
  PROVE  Succeeds(r, [r EXCEPT !.leaseExpired = TRUE])
  BY DEF Succeeds, WellFormed, RowOf, MayFail

\* A failed row that is retried.
LEMMA RetriedSucceeds ==
  ASSUME NEW r, WellFormed(r), NEW to \in Target
  PROVE  Succeeds(r, RetriedRow(r, to))
  <1> DEFINE sh == IF to = "READY" THEN EmptyShape ELSE r.shape
  <1>1. r.shape \in ShapeType
    BY DEF WellFormed, RowOf
  <1>2. sh \in ShapeType /\ (sh.parts > 0 => r.shape.parts > 0)
    BY <1>1, EmptyShapeFacts
  <1>3. RetriedRow(r, to) = [r EXCEPT !.status = to, !.importingAt = FALSE,
                                      !.worker = NoWorker, !.shape = sh]
    BY DEF RetriedRow
  <1> HIDE DEF sh
  <1> QED BY <1>2, <1>3 DEF Succeeds, WellFormed, RowOf, Status, Working, Target

\* A row retried by force.
LEMMA ForceRetriedSucceeds ==
  ASSUME NEW r, WellFormed(r)
  PROVE  Succeeds(r, ForceRetriedRow(r))
  BY EmptyShapeFacts DEF Succeeds, WellFormed, RowOf, ForceRetriedRow, Status, Working

\* A row that is set to a status, with the statistics and the time it is left.
ToStatus(r, to, sh, at) ==
  [r EXCEPT !.status = to, !.worker = NoWorker, !.leaseExpired = FALSE,
            !.finalizeRequested = FALSE, !.importingAt = FALSE,
            !.supersededBy = {}, !.shape = sh, !.compactReadyAt = at]

\* It succeeds the row if its statistics do.
LEMMA ToStatusSucceeds ==
  ASSUME NEW r, WellFormed(r), NEW to \in Target, NEW sh \in ShapeType, NEW at \in BOOLEAN,
         sh.parts > 0 => r.shape.parts > 0
  PROVE  Succeeds(r, ToStatus(r, to, sh, at)) /\ ToStatus(r, to, sh, at).shape = sh
  <1> DEFINE s == ToStatus(r, to, sh, at)
  <1>1. r \in RowOf(r.inputs, r.supersededBy)
    BY DEF WellFormed
  <1>2. to \in Status \ Working /\ to # "FAILED"
    BY DEF Target, Status, Working
  <1>3. s \in RowOf(r.inputs, {})
    BY <1>1, <1>2 DEF RowOf, ToStatus
  <1>4. s.status = to /\ s.worker = NoWorker /\ s.shape = sh
        /\ s.inputs = r.inputs /\ s.supersededBy = {}
    BY <1>1 DEF RowOf, ToStatus
  <1> HIDE DEF s
  <1>5. WellFormed(s)
    BY <1>2, <1>3, <1>4 DEF WellFormed
  <1>6. Succeeds(r, s) /\ s.shape = sh
    BY <1>2, <1>4, <1>5 DEF Succeeds
  <1> QED BY <1>6 DEF s

\* A row set to another status.
LEMMA SetSucceeds ==
  ASSUME NEW r, WellFormed(r), NEW to \in Target
  PROVE  Succeeds(r, SetRow(r, to))
  <1> DEFINE sh == IF to = "READY" THEN EmptyShape ELSE r.shape
             at == IF to = "READY" THEN FALSE ELSE to = "COMPACT_READY" \/ r.compactReadyAt
  <1>1. r.shape \in ShapeType /\ r.compactReadyAt \in BOOLEAN
    BY DEF WellFormed, RowOf
  <1>2. sh \in ShapeType /\ (sh.parts > 0 => r.shape.parts > 0)
    BY <1>1, EmptyShapeFacts
  <1>3. at \in BOOLEAN
    BY <1>1
  <1>4. SetRow(r, to) = ToStatus(r, to, sh, at)
    BY DEF SetRow, ToStatus
  <1> HIDE DEF sh, at
  <1> QED BY <1>2, <1>3, <1>4, ToStatusSucceeds

\* An original that is reset; to READY, it has no statistics left.
LEMMA ResetSucceeds ==
  ASSUME NEW r, WellFormed(r), NEW to \in Target
  PROVE  Succeeds(r, ResetRow(r, to)) /\ (to = "READY" => ResetRow(r, to).shape.parts = 0)
  <1> DEFINE sh == IF to = "READY" THEN EmptyShape ELSE r.shape
             at == to = "COMPACT_READY"
  <1>1. r \in RowOf(r.inputs, r.supersededBy) /\ r.shape \in ShapeType
    BY DEF WellFormed, RowOf
  <1>2. sh \in ShapeType /\ (sh.parts > 0 => r.shape.parts > 0) /\ (to = "READY" => sh.parts = 0)
    BY <1>1, EmptyShapeFacts
  <1>3. at \in BOOLEAN
    OBVIOUS
  <1>4. ResetRow(r, to) = [[r EXCEPT !.status = to, !.worker = NoWorker, !.leaseExpired = FALSE,
                                     !.finalizeRequested = FALSE, !.importingAt = FALSE,
                                     !.supersededBy = {}, !.shape = sh]
                             EXCEPT !.compactReadyAt = at]
    BY DEF ResetRow, ResetRowKeepingReady
  <1> HIDE DEF sh, at
  <1>5. ResetRow(r, to) = ToStatus(r, to, sh, at)
    BY <1>1, <1>4 DEF RowOf, ToStatus
  <1> QED BY <1>2, <1>3, <1>5, ToStatusSucceeds

\* A row whose timer is reset.
LEMMA TimerSucceeds ==
  ASSUME NEW r, WellFormed(r)
  PROVE  Succeeds(r, [r EXCEPT !.compactReadyAt = TRUE])
  BY DEF Succeeds, WellFormed, RowOf, MayFail

-----------------------------------------------------------------------------
(* Steps that only move rows on.                                           *)

\* No row is new, and each one left takes the place of what it was.
RowsMove ==
  /\ DOMAIN rows' \subseteq DOMAIN rows
  /\ \A p \in DOMAIN rows' : Succeeds(rows[p], rows'[p])

\* No row is touched.
LEMMA NoRowMoves ==
  ASSUME OInv, UNCHANGED rows
  PROVE  RowsMove
  BY Itself DEF RowsMove, OInv, RowsWellFormed

\* One row is.
LEMMA OneRowMoves ==
  ASSUME OInv, NEW p \in DOMAIN rows, NEW r, Succeeds(rows[p], r),
         rows' = [rows EXCEPT ![p] = r]
  PROVE  RowsMove
  <1>1. DOMAIN rows' = DOMAIN rows
    OBVIOUS
  <1>2. \A q \in DOMAIN rows : rows'[q] = IF q = p THEN r ELSE rows[q]
    OBVIOUS
  <1> QED BY <1>1, <1>2, Itself DEF RowsMove, OInv, RowsWellFormed

\* What a moving row keeps: rows are well formed, and have their artifacts.
LEMMA MovingKeeps ==
  ASSUME OInv, RowsMove, stored' = stored, raced' = raced
  PROVE  RowsWellFormed' /\ Kept'
  BY DEF OInv, RowsMove, Succeeds, RowsWellFormed, Kept, Calm

\* The ghosts are right after any step that fails only what was worked on.
LEMMA GhostsRight ==
  ASSUME OInv, NEW done, Ghosts(done), forced' \in BOOLEAN, raced' \subseteq {"rows", "objects"},
         \A p \in DOMAIN rows' : rows'[p].status = "FAILED" =>
           p \in DOMAIN rows /\ rows[p].status \in MayFail
  PROVE  Remembered'
  <1>1. DOMAIN failedIn' = WithStatus({"FAILED"})'
    BY DEF Ghosts, WithStatus
  <1>2. ASSUME NEW p \in DOMAIN failedIn'
        PROVE  failedIn'[p] \in {"IN_PROGRESS", "COMPACTING", "IMPORTING"}
    <2>1. /\ p \in DOMAIN rows /\ rows[p].status \in MayFail
          /\ failedIn'[p] = IF rows[p].status = "FAILED" THEN failedIn[p] ELSE rows[p].status
      BY DEF Ghosts
    <2>2. rows[p].status = "FAILED" => p \in DOMAIN failedIn
      BY <2>1 DEF OInv, Remembered, WithStatus
    <2> QED BY <2>1, <2>2 DEF OInv, Remembered, MayFail
  <1>3. rewritten' \subseteq DOMAIN rows'
    BY DEF Ghosts
  <1> QED BY <1>1, <1>2, <1>3 DEF Remembered

\* A moving row is no danger to what other commands are about to delete.
LEMMA SparesMove ==
  ASSUME OInv, Calm, RowsMove, NEW o \in Operator
  PROVE  Spares(op[o], rows')
  <1> SUFFICES ASSUME NEW p \in Doomed(op[o]), p \in DOMAIN rows'
               PROVE  rows'[p].shape.parts = 0
    BY DEF Spares
  <1>1. p \in DOMAIN rows /\ Succeeds(rows[p], rows'[p]) /\ rows[p].shape.parts = 0
    BY DEF RowsMove, OInv, CommandsGiven, Spares
  <1>2. rows'[p].shape.parts \in Nat /\ ~(rows'[p].shape.parts > 0)
    BY <1>1 DEF Succeeds, WellFormed, RowOf, ShapeType
  <1> QED BY <1>2

\* A command that learns that rows have changed goes on as it was.
LEMMA OutdatedFacts ==
  ASSUME OInv, NEW T, NEW o \in Operator
  PROVE  LET c == Outdated(T)[o]
         IN Given(c) /\ \A R : Spares(op[o], R) => Spares(c, R)
  <1> DEFINE c == [op[o] EXCEPT !.changed = op[o].changed \cup (T \cap DOMAIN op[o].todo)]
  <1>1. Outdated(T)[o] = c
    BY DEF Outdated
  <1>2. Given(op[o])
    BY DEF OInv, CommandsGiven
  <1>3. /\ CommandType(c) /\ c.command = op[o].command /\ c.generated = op[o].generated
        /\ c.todo = op[o].todo /\ c.prefixes = op[o].prefixes
        /\ c.changed = op[o].changed \cup (T \cap DOMAIN op[o].todo)
    BY <1>2 DEF Given, CommandType
  <1> HIDE DEF c
  <1>4. Given(c)
    BY <1>2, <1>3 DEF Given
  <1>5. \A R : Spares(op[o], R) => Spares(c, R)
    BY <1>3 DEF Spares, Doomed
  <1> QED BY <1>1, <1>4, <1>5

\* The commands go on; nothing of this depends on what has changed.
LEMMA WrittenKeeps ==
  ASSUME OInv, NEW T, NEW done, op' = Outdated(T), Ghosts(done), forced' = forced,
         raced' \subseteq {"rows", "objects"}, RowsWellFormed', Kept',
         Calm' => \A o \in Operator : Spares(op[o], rows'),
         \A p \in DOMAIN rows' : rows'[p].status = "FAILED" =>
           p \in DOMAIN rows /\ rows[p].status \in MayFail
  PROVE  OInv'
  <1>1. CommandsGiven'
    <2>1. op' = [o \in Operator |-> op'[o]]
      BY DEF Outdated
    <2>2. \A o \in Operator : Given(op'[o]) /\ (Calm' => Spares(op'[o], rows'))
      BY OutdatedFacts
    <2> QED BY <2>1, <2>2 DEF CommandsGiven
  <1>2. Remembered'
    BY GhostsRight DEF OInv, Remembered
  <1> QED BY <1>1, <1>2 DEF OInv

\* A step of the pipeline that moves rows on.
LEMMA WrittenMoves ==
  ASSUME OInv, NEW T, NEW done, op' = Outdated(T), Ghosts(done), UNCHANGED <<forced, raced>>,
         RowsMove, stored' = stored
  PROVE  OInv'
  <1>1. RowsWellFormed' /\ Kept' /\ raced' \subseteq {"rows", "objects"}
    BY MovingKeeps DEF OInv, Remembered
  <1>2. Calm' => \A o \in Operator : Spares(op[o], rows')
    BY SparesMove DEF Calm
  <1>3. \A p \in DOMAIN rows' : rows'[p].status = "FAILED" =>
          p \in DOMAIN rows /\ rows[p].status \in MayFail
    BY DEF RowsMove, Succeeds
  <1> QED BY <1>1, <1>2, <1>3, WrittenKeeps

\* A command that has ended.
LEMMA IdleFacts ==
  /\ Given(Idle) /\ \A R : Spares(Idle, R)
  /\ Idle.command = "none" /\ Idle.generated = {} /\ Idle.prefixes = {} /\ Idle.changed = {}
  BY DEF Idle, Given, CommandType, Spares, Doomed

\* A step of a command that moves rows on: the command goes on as c.
LEMMA ContinueMoves ==
  ASSUME OInv, RowsMove, stored' = stored, NEW o \in Operator, NEW c, NEW T,
         Continue(o, c, T), Given(c), Calm => Spares(c, rows')
  PROVE  OInv'
  <1> DEFINE d == IF c.generated = {} /\ c.todo = <<>> /\ c.prefixes = {} THEN Idle ELSE c
  <1>1. /\ op' = [Outdated(T) EXCEPT ![o] = d] /\ Ghosts({})
        /\ forced' = (forced \/ c.command \in Overrides) /\ raced' = raced
    BY DEF Continue
  <1>2. Given(d) /\ (Calm => Spares(d, rows'))
    BY IdleFacts
  <1> HIDE DEF d
  <1>3. CommandsGiven'
    <2>1. op' = [x \in Operator |-> IF x = o THEN d ELSE Outdated(T)[x]]
      BY <1>1 DEF Outdated
    <2>2. \A x \in Operator : Given(op'[x]) /\ (Calm => Spares(op'[x], rows'))
      BY <1>2, <2>1, OutdatedFacts, SparesMove
    <2> QED BY <1>1, <2>1, <2>2 DEF CommandsGiven, Calm
  <1>4. \A p \in DOMAIN rows' : rows'[p].status = "FAILED" =>
          p \in DOMAIN rows /\ rows[p].status \in MayFail
    BY DEF RowsMove, Succeeds
  <1>5. Remembered'
    BY <1>1, <1>4, GhostsRight DEF OInv, Remembered
  <1> QED BY <1>1, <1>3, <1>5, MovingKeeps DEF OInv

-----------------------------------------------------------------------------
(* Workers and the importer.                                               *)

\* Whatever batch a claim selects has rows.
LEMMA BatchHasRows ==
  ASSUME NEW B \in CompactBatches({})
  PROVE  B \subseteq DOMAIN rows
  <1>1. CASE Fragmented \ {} # {}
    BY <1>1 DEF CompactBatches, FragmentedBatches, Fragmented, Claimable
  <1>2. CASE Fragmented \ {} = {}
    <2>1. PICK a : B \in SiblingBatches(a, {})
      BY <1>2 DEF CompactBatches
    <2> QED BY <2>1 DEF SiblingBatches
  <1> QED BY <1>1, <1>2

\* Maintenance moves rows on: stale leases, then artifacts that are done.
LEMMA MaintainMoves ==
  ASSUME OInv, NEW S \in SUBSET Stale, NEW m, MaintainCompaction(S, m)
  PROVE  RowsMove
  <1> DEFINE R == ReleasedStale(rows, S)
             F == UNION {Finalizable(R, j, m[j]) : j \in Job}
  <1>1. /\ DOMAIN R = DOMAIN rows
        /\ \A p \in DOMAIN rows : R[p] = IF p \in S THEN CompactReleasedRow(rows[p], FALSE)
                                         ELSE rows[p]
    BY DEF ReleasedStale, Apply
  <1>2. \A p \in DOMAIN rows : Succeeds(rows[p], R[p])
    BY <1>1, CompactReleasedSucceeds, Itself DEF OInv, RowsWellFormed
  <1> HIDE DEF R
  <1>3. \A p \in F : p \in DOMAIN R /\ R[p].status = "COMPACT_READY"
    BY DEF Finalizable
  <1>4. rows' = Finalized(R, F)
    BY DEF MaintainCompaction, R
  <1> HIDE DEF F
  <1>5. /\ DOMAIN rows' = DOMAIN R
        /\ \A p \in DOMAIN R : rows'[p] = IF p \in F THEN [R[p] EXCEPT !.status = "FINISHED"]
                                          ELSE R[p]
    BY <1>4 DEF Finalized, Apply
  <1>6. ASSUME NEW p \in F
        PROVE  Succeeds(rows[p], rows'[p])
    <2>1. p \in DOMAIN rows /\ WellFormed(R[p]) /\ R[p].status = "COMPACT_READY"
      BY <1>1, <1>2, <1>3 DEF Succeeds
    <2>2. Succeeds(R[p], rows'[p]) /\ rows'[p].status # "FAILED"
      <3>1. rows'[p] = [R[p] EXCEPT !.status = "FINISHED"]
        BY <1>3, <1>5
      <3>2. Succeeds(R[p], rows'[p])
        BY <2>1, <3>1, StatusSucceeds DEF Status, Working
      <3>3. rows'[p].status = "FINISHED"
        BY <2>1, <3>1 DEF WellFormed, RowOf
      <3> QED BY <3>2, <3>3
    <2> QED BY <1>2, <2>1, <2>2 DEF Succeeds
  <1> QED BY <1>1, <1>2, <1>5, <1>6 DEF RowsMove

\* Every operation of the pipeline that brings no statistics moves rows on.
LEMMA PipelineMoves ==
  ASSUME OInv, PipelineStep
  PROVE  RowsMove
  <1> USE DEF OInv, RowsWellFormed
  <1>1. ASSUME NEW w \in Worker, NEW p \in DOMAIN rows, ClaimNextReady(w, p)
        PROVE  RowsMove
    BY <1>1, ClaimedSucceeds, OneRowMoves DEF ClaimNextReady
  <1>2. ASSUME NEW w \in Worker, NEW p \in DOMAIN rows, MarkFailed(w, p)
        PROVE  RowsMove
    <2>1. /\ rows' = [rows EXCEPT ![p] = [rows[p] EXCEPT !.status = "FAILED", !.worker = NoWorker]]
          /\ rows[p].status = "IN_PROGRESS"
      BY <1>2 DEF MarkFailed, InProgressOwned
    <2> QED BY <2>1, FailedSucceeds, OneRowMoves
  <1>3. ASSUME NEW w \in Worker, NEW p \in DOMAIN rows, ReleaseInProgress(w, p)
        PROVE  RowsMove
    BY <1>3, UnclaimedSucceeds, OneRowMoves DEF ReleaseInProgress
  <1>4. ASSUME NEW w \in Worker, NEW B \in CompactBatches({}), ClaimNextCompactBatch(w, B, {})
        PROVE  RowsMove
    BY <1>4, CompactClaimedSucceeds, Itself DEF ClaimNextCompactBatch, Apply, RowsMove
  <1>5. ASSUME NEW w \in Worker, NEW B \in SUBSET DOMAIN rows, ReleaseCompactBatch(w, B, FALSE)
        PROVE  RowsMove
    BY <1>5, CompactReleasedSucceeds, Itself DEF ReleaseCompactBatch, Apply, RowsMove
  <1>6. ASSUME NEW w \in Worker, NEW B \in SUBSET DOMAIN rows, MarkCompactBatchFailed(w, B)
        PROVE  RowsMove
    BY <1>6, CompactFailedSucceeds, Itself DEF MarkCompactBatchFailed, Apply, RowsMove
  <1>7. CASE Maintain
    BY <1>7, MaintainMoves DEF Maintain
  <1>8. ASSUME NEW p \in DOMAIN rows, MarkImporting(p)
        PROVE  RowsMove
    <2>1. rows' = [rows EXCEPT ![p] = [rows[p] EXCEPT !.status = "IMPORTING", !.importingAt = TRUE]]
      BY <1>8 DEF MarkImporting
    <2> QED BY <1>8, <2>1, ImportingSucceeds, OneRowMoves DEF MarkImporting
  <1>9. ASSUME NEW p \in DOMAIN rows, MarkImported(p)
        PROVE  RowsMove
    <2>1. rows' = [rows EXCEPT ![p] = [rows[p] EXCEPT !.status = "IMPORTED"]]
      BY <1>9 DEF MarkImported
    <2>2. rows[p].status \notin Working /\ "IMPORTED" \in Status \ Working
      BY <1>9 DEF MarkImported, Working, Status
    <2> QED BY <2>1, <2>2, StatusSucceeds, OneRowMoves
  <1>10. ASSUME NEW p \in DOMAIN rows, MarkImportFailed(p)
         PROVE  RowsMove
    <2>1. rows' = [rows EXCEPT ![p] = [rows[p] EXCEPT !.status = "FAILED"]]
      BY <1>10 DEF MarkImportFailed
    <2>2. /\ rows[p].status \notin Working /\ "FAILED" \in Status \ Working
          /\ rows[p].status \in MayFail
      BY <1>10 DEF MarkImportFailed, Working, Status, MayFail
    <2> QED BY <2>1, <2>2, StatusSucceeds, OneRowMoves
  <1> QED BY <1>1, <1>2, <1>3, <1>4, <1>5, <1>6, <1>7, <1>8, <1>9, <1>10 DEF PipelineStep

\* A completion that stores artifacts of the rows N while no command is about to
\* delete their prefixes.
LEMMA OvertakesCalm ==
  ASSUME OInv, NEW B, NEW N, Overtakes(B, N)
  PROVE  /\ raced' \subseteq {"rows", "objects"} /\ (Calm' => Calm)
         /\ Calm' => \A o \in Operator : N \cap Doomed(op[o]) = {}
  <1>1. raced \subseteq {"rows", "objects"}
    BY DEF OInv, Remembered
  <1>2. ASSUME NEW o \in Operator, N \cap Doomed(op[o]) # {}
        PROVE  ~Calm'
    BY <1>2 DEF Overtakes, Calm
  <1> QED BY <1>1, <1>2 DEF Overtakes, Calm

\* A row after its rewrite.
LEMMA RewrittenWellFormed ==
  ASSUME NEW r, WellFormed(r), NEW s \in ShapeType
  PROVE  WellFormed(RewrittenRow(r, s)) /\ RewrittenRow(r, s).shape = s
         /\ RewrittenRow(r, s).status # "FAILED"
  <1> DEFINE st == IF s.parts = 0 THEN "FINISHED" ELSE "COMPACT_READY"
             t == RewrittenRow(r, s)
  <1>1. r \in RowOf(r.inputs, r.supersededBy)
    BY DEF WellFormed
  <1>2. st \in Status \ Working /\ st # "FAILED" /\ (s.parts # 0) \in BOOLEAN
    BY DEF Status, Working
  <1>3. t = [[r EXCEPT !.generation = 0, !.shape = s, !.worker = NoWorker]
               EXCEPT !.status = st, !.compactReadyAt = (s.parts # 0)]
    BY DEF RewrittenRow
  <1> HIDE DEF st, t
  <1>4. t \in RowOf(r.inputs, r.supersededBy)
    BY <1>1, <1>2, <1>3 DEF RowOf
  <1>5. t.status = st /\ t.worker = NoWorker /\ t.shape = s
        /\ t.inputs = r.inputs /\ t.supersededBy = r.supersededBy
    BY <1>1, <1>3 DEF RowOf
  <1>6. WellFormed(t)
    BY <1>2, <1>4, <1>5 DEF WellFormed
  <1> QED BY <1>2, <1>5, <1>6 DEF t

\* A rewritten row has the artifact it reports.
LEMMA RewriteDoneKeeps ==
  ASSUME OInv, NEW w \in Worker, NEW p \in DOMAIN rows, RewriteDone(w, p)
  PROVE  OInv'
  <1>1. PICK s \in Shape : /\ MarkCompactReady(w, p, s)
                           /\ stored' = IF s.parts > 0 THEN stored \cup {p} ELSE stored
    BY DEF RewriteDone
  <1>2. op' = Outdated({p}) /\ Ghosts({p}) /\ forced' = forced /\ Overtakes({}, {p})
    BY DEF RewriteDone, Written
  <1> DEFINE r == RewrittenRow(rows[p], s)
  <1>3. s \in ShapeType /\ s.parts \in Nat
    BY ConstantAssumption DEF ConstantAssumption, ShapeType
  <1>4. WellFormed(rows[p])
    BY DEF OInv, RowsWellFormed
  <1>5. WellFormed(r) /\ r.shape = s /\ r.status # "FAILED"
    BY <1>3, <1>4, RewrittenWellFormed
  <1> HIDE DEF r
  <1>6. /\ DOMAIN rows' = DOMAIN rows
        /\ \A q \in DOMAIN rows : rows'[q] = IF q = p THEN r ELSE rows[q]
    BY <1>1 DEF MarkCompactReady, r
  <1>7. RowsWellFormed' /\ Kept'
    <2>1. Calm' => Calm
      BY <1>2, OvertakesCalm
    <2> QED BY <1>1, <1>5, <1>6, <2>1 DEF OInv, RowsWellFormed, Kept
  <1>8. \A q \in DOMAIN rows' : rows'[q].status = "FAILED" =>
          q \in DOMAIN rows /\ rows[q].status \in MayFail
    BY <1>5, <1>6 DEF MayFail
  <1>9. ASSUME Calm', NEW o \in Operator
        PROVE  Spares(op[o], rows')
    <2>1. p \notin Doomed(op[o]) /\ Spares(op[o], rows)
      BY <1>2, <1>9, OvertakesCalm DEF OInv, CommandsGiven
    <2> QED BY <1>6, <2>1 DEF Spares
  <1>10. raced' \subseteq {"rows", "objects"}
    BY <1>2, OvertakesCalm
  <1> QED BY <1>2, <1>7, <1>8, <1>9, <1>10, WrittenKeeps

\* A compacted row has the artifact it reports; its inputs are superseded.
LEMMA CompactionDoneKeeps ==
  ASSUME OInv, NEW w \in Worker, NEW B \in SUBSET DOMAIN rows, CompactionDone(w, B)
  PROVE  OInv'
  <1>1. PICK s \in Reductions(B) : CompleteCompaction(w, B, s)
    BY DEF CompactionDone
  <1> DEFINE N == DOMAIN rows' \ DOMAIN rows
  <1>2. /\ op' = Outdated(B) /\ Ghosts(N) /\ forced' = forced /\ Overtakes(B, N)
        /\ stored' = stored \cup N
    BY DEF CompactionDone, Written
  <1>3. PICK newest \in B :
          LET g      == rows[newest].generation + 1
              j      == rows[newest].job
              out    == DeriveCompactPartID(B, g)
              status == IF \E p \in B : rows[p].finalizeRequested
                        THEN "FINISHED" ELSE "COMPACT_READY"
              output == NewCompactPart(j, B, g, s, status, BatchLineage(B))
              superseded == Apply(rows, B, LAMBDA r : SupersededRow(r, out))
          IN /\ out \notin DOMAIN rows
             /\ rows' = [p \in DOMAIN rows \cup {out} |->
                           IF p = out THEN output ELSE superseded[p]]
    BY <1>1 DEF CompleteCompaction
  <1> DEFINE g == rows[newest].generation + 1
             out == DeriveCompactPartID(B, g)
             status == IF \E p \in B : rows[p].finalizeRequested
                       THEN "FINISHED" ELSE "COMPACT_READY"
             output == NewCompactPart(rows[newest].job, B, g, s, status, BatchLineage(B))
  <1>4. /\ out \notin DOMAIN rows /\ DOMAIN rows' = DOMAIN rows \cup {out}
        /\ rows'[out] = output
        /\ \A p \in DOMAIN rows : rows'[p] = IF p \in B THEN SupersededRow(rows[p], out)
                                             ELSE rows[p]
    BY <1>3 DEF Apply
  <1>5. \A p \in DOMAIN rows : Succeeds(rows[p], rows'[p])
    BY <1>4, SupersededSucceeds, Itself DEF OInv, RowsWellFormed
  <1>6. WellFormed(output) /\ output.status # "FAILED"
    <2>1. s \in ShapeType
      BY ConstantAssumption DEF ConstantAssumption, Reductions
    <2>2. \A p \in B : WellFormed(rows[p])
      BY DEF OInv, RowsWellFormed
    <2>3. rows[newest].job \in Job /\ g \in Nat
      BY <2>2 DEF WellFormed, RowOf
    <2>4. BatchLineage(B) \subseteq Original
      BY <2>2 DEF BatchLineage, WellFormed, RowOf
    <2>5. status \in {"FINISHED", "COMPACT_READY"}
      OBVIOUS
    <2> HIDE DEF status, g
    <2> QED BY <2>1, <2>3, <2>4, <2>5 DEF NewCompactPart, WellFormed, RowOf, Status, Working
  <1> HIDE DEF output, out
  <1>7. RowsWellFormed' /\ Kept'
    <2>1. RowsWellFormed'
      BY <1>4, <1>5, <1>6 DEF RowsWellFormed, Succeeds
    <2>2. stored' = stored \cup {out}
      BY <1>2, <1>4
    <2>3. Calm' => Calm
      BY <1>2, OvertakesCalm
    <2>4. Kept'
      BY <1>4, <1>5, <2>2, <2>3 DEF OInv, Kept, Succeeds
    <2> QED BY <2>1, <2>4
  <1>8. \A p \in DOMAIN rows' : rows'[p].status = "FAILED" =>
          p \in DOMAIN rows /\ rows[p].status \in MayFail
    BY <1>4, <1>5, <1>6 DEF Succeeds
  <1>9. ASSUME Calm', NEW o \in Operator
        PROVE  Spares(op[o], rows')
    <2>1. out \notin Doomed(op[o]) /\ Spares(op[o], rows)
      BY <1>2, <1>4, <1>9, OvertakesCalm DEF OInv, CommandsGiven
    <2>2. ASSUME NEW p \in Doomed(op[o]) \cap DOMAIN rows'
          PROVE  rows'[p].shape.parts = 0
      <3>1. p \in DOMAIN rows /\ Succeeds(rows[p], rows'[p]) /\ rows[p].shape.parts = 0
        BY <1>4, <1>5, <2>1 DEF Spares
      <3>2. rows'[p].shape.parts \in Nat /\ ~(rows'[p].shape.parts > 0)
        BY <3>1 DEF Succeeds, WellFormed, RowOf, ShapeType
      <3> QED BY <3>2
    <2> QED BY <2>2 DEF Spares
  <1>10. raced' \subseteq {"rows", "objects"}
    BY <1>2, OvertakesCalm
  <1> HIDE DEF N
  <1> QED BY <1>2, <1>7, <1>8, <1>9, <1>10, WrittenKeeps

\* Progress reports and heartbeats.
LEMMA ProgressKeeps ==
  ASSUME OInv, NEW p, Progress(p)
  PROVE  OInv'
  BY NoRowMoves, WrittenMoves DEF Progress, Written

\* Leases and windows run out.
LEMMA TimeKeeps ==
  ASSUME OInv, Time
  PROVE  OInv'
  <1>1. ASSUME NEW p \in DOMAIN rows, LeaseExpires(p)
        PROVE  RowsMove
    <2>1. rows' = [rows EXCEPT ![p] = [rows[p] EXCEPT !.leaseExpired = TRUE]]
      BY <1>1 DEF LeaseExpires
    <2> QED BY <2>1, LeaseSucceeds, OneRowMoves DEF OInv, RowsWellFormed
  <1>2. ASSUME NEW j \in Job, WindowExpires(j)
        PROVE  RowsMove
    BY <1>2, NoRowMoves DEF WindowExpires
  <1> QED BY <1>1, <1>2, WrittenMoves DEF Time

-----------------------------------------------------------------------------
(* Commands list rows.                                                     *)

\* A command begins with the rows it has selected.
LEMMA StartsKeeps ==
  ASSUME OInv, NEW o \in Operator, NEW command, NEW todo, Starts(o, command, todo),
         command # "reset-compact-timer" => \A p \in DOMAIN todo : todo[p].to \in Target
  PROVE  OInv'
  <1> DEFINE c == [Idle EXCEPT !.command = command, !.todo = todo]
  <1>1. Continue(o, c, {}) /\ UNCHANGED <<rows, stored>>
    BY DEF Starts
  <1>2. /\ CommandType(c) /\ c.command = command /\ c.todo = todo
        /\ c.generated = {} /\ c.prefixes = {} /\ c.changed = {}
    BY DEF Idle, CommandType
  <1> HIDE DEF c
  <1>3. Given(c) /\ Spares(c, rows')
    BY <1>2 DEF Given, Spares, Doomed
  <1> QED BY <1>1, <1>3, NoRowMoves, ContinueMoves

\* The commands that select rows and update them.
LEMMA ListSelectionKeeps ==
  ASSUME OInv, NEW o \in Operator,
         \/ ListRetry(o) \/ ListForceRetry(o) \/ ListSetPartState(o) \/ ListResetCompactTimer(o)
  PROVE  OInv'
  <1>1. CASE ListRetry(o)
    <2>1. PICK S : Starts(o, "retry-failed",
                     [p \in S |-> [from |-> rows[p].status,
                                   to |-> IF rows[p].status = "FAILED"
                                          THEN FailedRetryTarget(rows[p]) ELSE "READY"]])
      BY <1>1 DEF ListRetry
    <2>2. \A r : FailedRetryTarget(r) \in Target
      BY DEF FailedRetryTarget, Target
    <2>3. \A r : (IF r.status = "FAILED" THEN FailedRetryTarget(r) ELSE "READY") \in Target
      BY <2>2 DEF Target
    <2> QED BY <2>1, <2>3, StartsKeeps
  <1>2. CASE ListForceRetry(o)
    <2>1. PICK S : Starts(o, "retry-failed -force",
                     [p \in S |-> [from |-> rows[p].status, to |-> "READY"]])
      BY <1>2 DEF ListForceRetry
    <2> QED BY <2>1, StartsKeeps DEF Target
  <1>3. CASE ListSetPartState(o)
    <2>1. PICK x \in Settings : \E S \in Selections(WithStatus({x[1]})) :
            Starts(o, "set-part-state", [p \in S |-> [from |-> x[1], to |-> x[2]]])
      BY <1>3 DEF ListSetPartState
    <2>2. PICK S : Starts(o, "set-part-state", [p \in S |-> [from |-> x[1], to |-> x[2]]])
      BY <2>1
    <2>3. x[2] \in Target
      BY OperatorAssumption DEF OperatorAssumption, Target
    <2> QED BY <2>2, <2>3, StartsKeeps
  <1>4. CASE ListResetCompactTimer(o)
    BY <1>4, StartsKeeps DEF ListResetCompactTimer
  <1> QED BY <1>1, <1>2, <1>3, <1>4

\* reset-job and reset-compaction delete the prefixes of rows that they have
\* deleted, or reset to READY, before.
LEMMA ListResetKeeps ==
  ASSUME OInv, NEW o \in Operator, NEW command \in Resets, ListReset(o, command)
  PROVE  OInv'
  <1> DEFINE to == IF command = "reset-job" THEN "READY" ELSE "COMPACT_READY"
             todo == [p \in Originals(rows) |-> [to |-> to]]
  <1>1. PICK deleteS3 \in BOOLEAN :
          Continue(o, [command |-> command, generated |-> Generated(rows), todo |-> todo,
                       prefixes |-> IF deleteS3 THEN ResetPrefixes(command) ELSE {},
                       changed |-> {}], {})
    BY DEF ListReset
  <1>2. UNCHANGED <<rows, stored>>
    BY DEF ListReset
  <1> DEFINE prefixes == IF deleteS3 THEN ResetPrefixes(command) ELSE {}
             c == [command |-> command, generated |-> Generated(rows), todo |-> todo,
                   prefixes |-> prefixes, changed |-> {}]
  <1>3. to \in Target /\ (command = "reset-job" => to = "READY")
    BY DEF Target
  <1> HIDE DEF to
  <1>4. DOMAIN todo = Originals(rows) /\ \A p \in Originals(rows) : todo[p].to = to
    OBVIOUS
  <1>5. \A p \in prefixes : p \in Generated(rows) \/ (command = "reset-job" /\ p \in Originals(rows))
    BY DEF ResetPrefixes, Generated
  <1>6. Generated(rows) \cap Originals(rows) = {}
    BY DEF Generated
  <1> HIDE DEF todo, prefixes
  <1>7. Given(c)
    BY <1>3, <1>4, <1>5, <1>6 DEF Given, CommandType
  <1>8. Spares(c, rows')
    BY <1>4, <1>5 DEF Spares, Doomed
  <1> QED BY <1>1, <1>2, <1>7, <1>8, NoRowMoves, ContinueMoves DEF prefixes

\* delete-parts
LEMMA ListDeletePartsKeeps ==
  ASSUME OInv, NEW o \in Operator, ListDeleteParts(o)
  PROVE  OInv'
  <1>1. PICK S : Continue(o, [Idle EXCEPT !.command = "delete-parts", !.generated = S], {})
    BY DEF ListDeleteParts
  <1>2. UNCHANGED <<rows, stored>>
    BY DEF ListDeleteParts
  <1> DEFINE c == [Idle EXCEPT !.command = "delete-parts", !.generated = S]
  <1>3. /\ CommandType(c) /\ c.command = "delete-parts" /\ c.todo = <<>>
        /\ c.generated = S /\ c.prefixes = {} /\ c.changed = {}
    BY DEF Idle, CommandType
  <1> HIDE DEF c
  <1>4. Given(c) /\ Spares(c, rows')
    BY <1>3 DEF Given, Spares, Doomed
  <1> QED BY <1>1, <1>2, <1>4, NoRowMoves, ContinueMoves DEF c

-----------------------------------------------------------------------------
(* Commands update rows.                                                   *)

\* A command that ends early.
LEMMA GivesUp ==
  ASSUME OInv, NEW o \in Operator, Continue(o, Idle, {}), UNCHANGED <<rows, stored>>
  PROVE  OInv'
  BY IdleFacts, NoRowMoves, ContinueMoves

\* The command is one row further.
LEMMA OneLess ==
  ASSUME OInv, NEW o \in Operator, NEW p
  PROVE  LET c == [op[o] EXCEPT !.todo = Without(op[o].todo, p), !.changed = op[o].changed \ {p}]
         IN /\ Given(c)
            /\ \A R : /\ Spares(op[o], R)
                      /\ p \in op[o].prefixes \cap DOMAIN op[o].todo \cap DOMAIN R
                           => R[p].shape.parts = 0
                      => Spares(c, R)
  <1> DEFINE c == [op[o] EXCEPT !.todo = Without(op[o].todo, p), !.changed = op[o].changed \ {p}]
  <1>1. Given(op[o])
    BY DEF OInv, CommandsGiven
  <1>2. /\ CommandType(c) /\ c.command = op[o].command /\ c.generated = op[o].generated
        /\ c.prefixes = op[o].prefixes /\ c.todo = Without(op[o].todo, p)
        /\ c.changed = op[o].changed \ {p}
    BY <1>1 DEF Given, CommandType
  <1> HIDE DEF c
  <1>3. /\ DOMAIN c.todo = DOMAIN op[o].todo \ {p}
        /\ \A q \in DOMAIN c.todo : c.todo[q] = op[o].todo[q]
    BY <1>2 DEF Without
  <1>4. Given(c)
    BY <1>1, <1>2, <1>3 DEF Given
  <1>5. ASSUME NEW R, Spares(op[o], R),
               p \in op[o].prefixes \cap DOMAIN op[o].todo \cap DOMAIN R => R[p].shape.parts = 0
        PROVE  Spares(c, R)
    BY <1>2, <1>3, <1>5 DEF Spares, Doomed
  <1> QED BY <1>4, <1>5 DEF c

\* One update of one row.
LEMMA UpdateKeeps ==
  ASSUME OInv, NEW o \in Operator, NEW p, NEW matches, NEW row, Update(o, p, matches, row),
         p \in DOMAIN rows /\ matches => Succeeds(rows[p], row),
         op[o].command \in Resets /\ op[o].todo[p].to = "READY" /\ p \in DOMAIN rows /\ matches
           => row.shape.parts = 0
  PROVE  OInv'
  <1> DEFINE c == [op[o] EXCEPT !.todo = Without(op[o].todo, p), !.changed = op[o].changed \ {p}]
  <1>1. /\ p \in DOMAIN op[o].todo /\ stored' = stored
        /\ \/ p \in DOMAIN rows /\ matches /\ rows' = [rows EXCEPT ![p] = row] /\ Continue(o, c, {p})
           \/ rows' = rows /\ Continue(o, Idle, {})
    BY DEF Update
  <1>2. CASE p \in DOMAIN rows /\ matches /\ rows' = [rows EXCEPT ![p] = row] /\ Continue(o, c, {p})
    <2>1. RowsMove
      BY <1>2, OneRowMoves
    <2>2. Calm => Spares(op[o], rows')
      BY <2>1, SparesMove
    <2>3. rows'[p] = row
      BY <1>2
    <2>4. p \in op[o].prefixes => op[o].command \in Resets /\ op[o].todo[p].to = "READY"
      BY <1>1 DEF OInv, CommandsGiven, Given
    <2>5. Given(c) /\ (Calm => Spares(c, rows'))
      BY <1>2, <2>2, <2>3, <2>4, OneLess
    <2> QED BY <1>1, <1>2, <2>1, <2>5, ContinueMoves
  <1>3. CASE rows' = rows /\ Continue(o, Idle, {})
    BY <1>1, <1>3, GivesUp
  <1> QED BY <1>1, <1>2, <1>3

\* What an update is going to make of its rows.
LEMMA TargetOf ==
  ASSUME OInv, NEW o \in Operator, NEW p \in DOMAIN op[o].todo,
         op[o].command # "reset-compact-timer"
  PROVE  op[o].todo[p].to \in Target
  BY DEF OInv, CommandsGiven, Given

\* retry-failed
LEMMA RetryPartKeeps ==
  ASSUME OInv, NEW o \in Operator, NEW p, RetryPart(o, p)
  PROVE  OInv'
  <1> DEFINE x == op[o].todo[p]
             row == IF x.from = "FAILED" THEN RetriedRow(rows[p], x.to) ELSE UnclaimedRow(rows[p])
  <1>1. /\ op[o].command = "retry-failed" /\ p \in DOMAIN op[o].todo
        /\ Update(o, p, rows[p].status = x.from, row)
    BY DEF RetryPart
  <1>2. x.to \in Target
    BY <1>1, TargetOf
  <1>3. p \in DOMAIN rows => Succeeds(rows[p], row)
    BY <1>2, RetriedSucceeds, UnclaimedSucceeds DEF OInv, RowsWellFormed
  <1>4. op[o].command \notin Resets
    BY <1>1 DEF Resets
  <1> HIDE DEF row
  <1> QED BY <1>1, <1>3, <1>4, UpdateKeeps

\* retry-failed -force
LEMMA ForceRetryPartKeeps ==
  ASSUME OInv, NEW o \in Operator, NEW p, ForceRetryPart(o, p)
  PROVE  OInv'
  <1>1. /\ op[o].command = "retry-failed -force"
        /\ Update(o, p, TRUE, ForceRetriedRow(rows[p]))
    BY DEF ForceRetryPart
  <1>2. p \in DOMAIN rows => Succeeds(rows[p], ForceRetriedRow(rows[p]))
    BY ForceRetriedSucceeds DEF OInv, RowsWellFormed
  <1>3. op[o].command \notin Resets
    BY <1>1 DEF Resets
  <1> QED BY <1>1, <1>2, <1>3, UpdateKeeps

\* set-part-state
LEMMA ForceSetPartStatusKeeps ==
  ASSUME OInv, NEW o \in Operator, NEW p, ForceSetPartStatus(o, p)
  PROVE  OInv'
  <1> DEFINE to == op[o].todo[p].to
  <1>1. /\ op[o].command = "set-part-state" /\ p \in DOMAIN op[o].todo
        /\ Update(o, p, p \notin op[o].changed, SetRow(rows[p], to))
    BY DEF ForceSetPartStatus
  <1>2. to \in Target
    BY <1>1, TargetOf
  <1>3. p \in DOMAIN rows => Succeeds(rows[p], SetRow(rows[p], to))
    BY <1>2, SetSucceeds DEF OInv, RowsWellFormed
  <1>4. op[o].command \notin Resets
    BY <1>1 DEF Resets
  <1> QED BY <1>1, <1>3, <1>4, UpdateKeeps

\* reset-job and reset-compaction
LEMMA ResetOriginalPartKeeps ==
  ASSUME OInv, NEW o \in Operator, NEW p, ResetOriginalPart(o, p)
  PROVE  OInv'
  <1> DEFINE to == op[o].todo[p].to
  <1>1. /\ op[o].command \in Resets /\ p \in DOMAIN op[o].todo
        /\ Update(o, p, p \notin op[o].changed, ResetRow(rows[p], to))
    BY DEF ResetOriginalPart
  <1>2. to \in Target
    BY <1>1, TargetOf DEF Resets
  <1>3. p \in DOMAIN rows => /\ Succeeds(rows[p], ResetRow(rows[p], to))
                             /\ to = "READY" => ResetRow(rows[p], to).shape.parts = 0
    BY <1>2, ResetSucceeds DEF OInv, RowsWellFormed
  <1> QED BY <1>1, <1>3, UpdateKeeps

\* reset-compact-timer
LEMMA ResetCompactTimerKeeps ==
  ASSUME OInv, NEW o \in Operator, NEW p, ResetCompactTimer(o, p)
  PROVE  OInv'
  <1> DEFINE c == [op[o] EXCEPT !.todo = Without(op[o].todo, p), !.changed = op[o].changed \ {p}]
             row == [rows[p] EXCEPT !.compactReadyAt = TRUE]
  <1>1. /\ op[o].command = "reset-compact-timer" /\ stored' = stored
        /\ \/ p \in DOMAIN rows /\ rows' = [rows EXCEPT ![p] = row] /\ Continue(o, c, {})
           \/ rows' = rows /\ Continue(o, Idle, {})
    BY DEF ResetCompactTimer
  <1>2. CASE p \in DOMAIN rows /\ rows' = [rows EXCEPT ![p] = row] /\ Continue(o, c, {})
    <2>1. Succeeds(rows[p], row)
      BY <1>2, TimerSucceeds DEF OInv, RowsWellFormed
    <2> HIDE DEF row
    <2>2. RowsMove
      BY <1>2, <2>1, OneRowMoves
    <2>3. op[o].prefixes = {}
      BY <1>1 DEF OInv, CommandsGiven, Given, Resets
    <2>4. Given(c) /\ (Calm => Spares(c, rows'))
      BY <2>2, <2>3, SparesMove, OneLess
    <2> QED BY <1>1, <1>2, <2>2, <2>4, ContinueMoves
  <1>3. CASE rows' = rows /\ Continue(o, Idle, {})
    BY <1>1, <1>3, GivesUp
  <1> QED BY <1>1, <1>2, <1>3

\* DeleteJobParts, of delete-parts and of the resets
LEMMA DeleteJobPartsKeeps ==
  ASSUME OInv, NEW o \in Operator, DeleteJobParts(o)
  PROVE  OInv'
  <1> DEFINE c == [op[o] EXCEPT !.generated = {}]
  <1>1. /\ stored' = stored
        /\ \/ /\ rows' = [p \in DOMAIN rows \ op[o].generated |-> rows[p]]
              /\ Continue(o, c, op[o].generated)
           \/ rows' = rows /\ Continue(o, Idle, {})
    BY DEF DeleteJobParts
  <1>2. CASE /\ rows' = [p \in DOMAIN rows \ op[o].generated |-> rows[p]]
             /\ Continue(o, c, op[o].generated)
    <2>1. RowsMove
      BY <1>2, Itself DEF RowsMove, OInv, RowsWellFormed
    <2>2. Given(op[o]) /\ (Calm => Spares(op[o], rows'))
      BY <2>1, SparesMove DEF OInv, CommandsGiven
    <2>3. /\ CommandType(c) /\ c.command = op[o].command /\ c.generated = {}
          /\ c.prefixes = op[o].prefixes /\ c.todo = op[o].todo /\ c.changed = op[o].changed
      BY <2>2 DEF Given, CommandType
    <2> HIDE DEF c
    <2>4. Given(c)
      BY <2>2, <2>3 DEF Given
    <2>5. \A p \in op[o].generated : p \notin DOMAIN rows'
      BY <1>2
    <2>6. Calm => Spares(c, rows')
      BY <2>2, <2>3, <2>5 DEF Spares, Doomed
    <2> QED BY <1>1, <1>2, <2>1, <2>4, <2>6, ContinueMoves
  <1>3. CASE rows' = rows /\ Continue(o, Idle, {})
    BY <1>1, <1>3, GivesUp
  <1> QED BY <1>1, <1>2, <1>3

\* -delete-s3 deletes objects of rows without an artifact.
LEMMA DeleteResetPrefixKeeps ==
  ASSUME OInv, NEW o \in Operator, NEW p, DeleteResetPrefix(o, p)
  PROVE  OInv'
  <1> DEFINE c == [op[o] EXCEPT !.prefixes = op[o].prefixes \ {p}]
             d == IF c.generated = {} /\ c.todo = <<>> /\ c.prefixes = {} THEN Idle ELSE c
  <1>1. /\ op[o].generated = {} /\ op[o].todo = <<>> /\ p \in op[o].prefixes
        /\ stored' = stored \ {p} /\ rows' = rows /\ Continue(o, c, {})
    BY DEF DeleteResetPrefix
  <1>2. Given(op[o]) /\ (Calm => Spares(op[o], rows))
    BY DEF OInv, CommandsGiven
  <1>3. /\ CommandType(c) /\ c.command = op[o].command /\ c.generated = op[o].generated
        /\ c.prefixes = op[o].prefixes \ {p} /\ c.todo = op[o].todo /\ c.changed = op[o].changed
    BY <1>2 DEF Given, CommandType
  <1> HIDE DEF c
  <1>4. Given(c) /\ (Calm => Spares(c, rows))
    BY <1>2, <1>3 DEF Given, Spares, Doomed
  <1>5. Calm /\ p \in DOMAIN rows => rows[p].shape.parts = 0
    BY <1>1, <1>2 DEF Spares, Doomed
  <1>6. RowsWellFormed' /\ Kept'
    <2>1. RowsWellFormed'
      BY <1>1 DEF OInv, RowsWellFormed
    <2>2. Kept'
      BY <1>1, <1>5 DEF OInv, Kept, Calm, Continue
    <2> QED BY <2>1, <2>2
  <1>7. /\ op' = [Outdated({}) EXCEPT ![o] = d] /\ Ghosts({})
        /\ forced' = (forced \/ c.command \in Overrides) /\ raced' = raced
    BY <1>1 DEF Continue
  <1>8. Given(d) /\ (Calm => Spares(d, rows))
    BY <1>4, IdleFacts
  <1> HIDE DEF d
  <1>9. CommandsGiven'
    <2>1. op' = [x \in Operator |-> IF x = o THEN d ELSE Outdated({})[x]]
      BY <1>7 DEF Outdated
    <2>2. \A x \in Operator : Given(op'[x]) /\ (Calm => Spares(op'[x], rows))
      BY <1>8, <2>1, OutdatedFacts DEF OInv, CommandsGiven
    <2> QED BY <1>1, <1>7, <2>1, <2>2 DEF CommandsGiven, Calm
  <1>10. Remembered'
    BY <1>1, <1>7, GhostsRight DEF OInv, Remembered, MayFail
  <1> QED BY <1>6, <1>9, <1>10 DEF OInv

\* A command that is interrupted leaves the rows it has not come to.
LEMMA InterruptedKeeps ==
  ASSUME OInv, NEW o \in Operator, Interrupted(o)
  PROVE  OInv'
  BY GivesUp DEF Interrupted

-----------------------------------------------------------------------------
(* The theorem.                                                            *)

\* The invariant holds before any command.
LEMMA OInvInit == Init => OInv
  <1> SUFFICES ASSUME Init PROVE OInv
    OBVIOUS
  <1>1. PICK S \in SUBSET Original : rows = [o \in S |-> NewPart(o)]
    BY DEF Init
  <1>2. \A o \in S : WellFormed(NewPart(o)) /\ NewPart(o).shape.parts = 0
    <2> TAKE o \in S
    <2>1. JobOf[o] \in Job /\ {o} \subseteq Original
      BY ConstantAssumption DEF ConstantAssumption
    <2> QED BY <2>1, EmptyShapeFacts DEF NewPart, WellFormed, RowOf, Status, Working
  <1>3. RowsWellFormed /\ Kept
    BY <1>1, <1>2 DEF RowsWellFormed, Kept
  <1>4. op = [o \in Operator |-> Idle]
    BY DEF Init
  <1>5. CommandsGiven
    BY <1>4, IdleFacts DEF CommandsGiven
  <1>6. \A o \in S : NewPart(o).status = "READY"
    BY DEF NewPart
  <1>7. WithStatus({"FAILED"}) = {}
    BY <1>1, <1>6 DEF WithStatus
  <1>8. rewritten = {} /\ failedIn = <<>> /\ forced = FALSE /\ raced = {}
    BY DEF Init
  <1>9. DOMAIN failedIn = {}
    BY <1>8
  <1>10. Remembered
    BY <1>7, <1>8, <1>9 DEF Remembered
  <1> QED BY <1>3, <1>5, <1>10 DEF OInv

\* A step that changes nothing.
LEMMA OInvStutter ==
  ASSUME OInv, UNCHANGED vars
  PROVE  OInv'
  <1>1. UNCHANGED <<rows, op, stored, rewritten, failedIn, forced, raced>>
    BY DEF vars
  <1>2. RowsWellFormed' /\ Kept' /\ CommandsGiven'
    BY <1>1 DEF OInv, RowsWellFormed, Kept, CommandsGiven, Calm
  <1>3. Remembered'
    BY <1>1 DEF OInv, Remembered, WithStatus
  <1> QED BY <1>2, <1>3 DEF OInv

\* No step of an operator, a worker or the importer breaks it.
LEMMA OInvNext ==
  ASSUME OInv, [Next]_vars
  PROVE  OInv'
  <1>1. CASE PipelineStep
    BY <1>1, PipelineMoves, WrittenMoves DEF PipelineStep, Written
  <1>2. ASSUME NEW o \in Operator, List(o) PROVE OInv'
    BY <1>2, ListSelectionKeeps, ListResetKeeps, ListDeletePartsKeeps DEF List
  <1>3. ASSUME NEW o \in Operator, Updates(o) PROVE OInv'
    BY <1>3, RetryPartKeeps, ForceRetryPartKeeps, ForceSetPartStatusKeeps,
       ResetCompactTimerKeeps, ResetOriginalPartKeeps, DeleteJobPartsKeeps,
       DeleteResetPrefixKeeps DEF Updates
  <1> QED BY <1>1, <1>2, <1>3, RewriteDoneKeeps, CompactionDoneKeeps, ProgressKeeps, TimeKeeps,
             InterruptedKeeps, OInvStutter DEF Next

\* What the invariant is for.
LEMMA OInvImplies == OInv => OperatorInv
  <1> SUFFICES ASSUME OInv PROVE OperatorInv
    OBVIOUS
  <1>1. \A p \in DOMAIN rows : WellFormed(rows[p])
    BY DEF OInv, RowsWellFormed
  <1>2. OperatorTypeOK
    BY <1>1 DEF OInv, Remembered, CommandsGiven, Given, OperatorTypeOK, WellFormed, RowOf
  <1>3. OwnerIffWorking
    BY <1>1 DEF OwnerIffWorking, WellFormed, Working
  <1>4. ArtifactStored
    BY DEF OInv, Kept, ArtifactStored, Calm
  <1> QED BY <1>2, <1>3, <1>4 DEF OperatorInv

\* However operators' commands, forced ones too, interleave with each other and
\* with workers and importers, are interrupted and act on lists that are out of
\* date, rows have an owner exactly while somebody works on them; and what they
\* offer is in S3, until a worker stores an artifact of a row that a reset has
\* already reset or deleted, under a prefix which that reset goes on to delete.
THEOREM CommandsKeepRowsRight == Spec => []OperatorInv
  <1>1. OInv /\ [Next]_vars => OInv'
    BY OInvNext
  <1> QED BY <1>1, OInvInit, OInvImplies, PTL DEF Spec

-----------------------------------------------------------------------------
(* What the rows hold. The invariant relates rows to each other: those a   *)
(* command is still going to write or delete, and inputs to their outputs. *)

\* What is left out of the uses the commands allow: no row that is superseded is set
\* to another status, or picked by its status for deletion, and a row is set to READY
\* only from a rewriting status. Workers and importers do not rest. The hash of
\* compacted inputs is not the id of an original.
Restrained ==
  /\ "SUPERSEDED" \notin DeleteStatus
  /\ \A x \in Settings :
       x[1] # "SUPERSEDED" /\ (x[2] = "READY" => x[1] \in {"READY", "IN_PROGRESS"})
  /\ \A B, g : DeriveCompactPartID(B, g) \notin Original

\* No completion has replaced rows that a command was about to delete.
Unraced == "rows" \notin raced

\* A row of the kind its id says; a superseded row says by what.
RowRight(p, r) ==
  /\ IF p \in Original
     THEN r.inputs = {} /\ r.generation = 0 /\ r.lineage = {p}
     ELSE /\ p = DeriveCompactPartID(r.inputs, r.generation) /\ r.inputs # {}
          /\ r.compactReadyAt /\ r.status \notin {"READY", "IN_PROGRESS"}
  /\ r.status = "SUPERSEDED" <=> r.supersededBy # {}
  /\ \A x \in r.supersededBy : x \notin Original /\ p \in x.inputs

\* Every row is of the kind its id says, whoever overtakes whom.
RowsRight == \A p \in DOMAIN rows : RowRight(p, rows[p])

\* The inputs of a generated row are there, superseded by it.
Linked ==
  \A p \in DOMAIN rows \ Original :
    /\ \A q \in rows[p].inputs : /\ q \in DOMAIN rows /\ rows[q].supersededBy = {p}
                                 /\ rows[q].generation < rows[p].generation
    /\ rows[p].lineage = UNION {rows[q].lineage : q \in rows[p].inputs}

\* HeldOnce, by ids.
Held ==
  /\ NothingTwice
  /\ \A o \in DOMAIN rows \cap Original :
       \E p \in DOMAIN rows :
         /\ o \in rows[p].lineage
         /\ Live(rows[p]) \/ rows[p].supersededBy \cap DOMAIN rows = {}

\* The originals that a generated row holds are superseded, and one is of its job.
Rooted ==
  \A g \in DOMAIN rows \ Original :
    /\ \A o \in rows[g].lineage : o \in DOMAIN rows /\ ~Live(rows[o])
    /\ \E o \in rows[g].lineage : rows[o].job = rows[g].job

\* What the rows hold and refer to is right.
Lineages == Linked /\ Held /\ Rooted

\* What a command may delete and reset.
Formed(c) ==
  /\ c.generated # {} => c.command \in Resets \cup {"delete-parts"}
  /\ c.command \in Resets => DOMAIN c.todo \subseteq Original /\ c.generated \cap Original = {}

\* What it is going to update.
SettingsFit(c, R) == c.command = "set-part-state" =>
  \A p \in DOMAIN c.todo :
    /\ c.todo[p].from # "SUPERSEDED"
    /\ c.todo[p].to = "READY" => c.todo[p].from \in {"READY", "IN_PROGRESS"}
    /\ p \notin c.changed => p \in DOMAIN R /\ R[p].status = c.todo[p].from

\* What retry-failed is going to update: only an original goes back to READY.
RetriesFit(c) == c.command = "retry-failed" =>
  \A p \in DOMAIN c.todo :
    /\ c.todo[p].from \in {"FAILED", "IN_PROGRESS"}
    /\ c.todo[p].from = "FAILED" /\ c.todo[p].to = "READY" => p \in Original

\* What a listed command is still going to do suits rows R.
Fits(c, R) == Formed(c) /\ SettingsFit(c, R) /\ RetriesFit(c)

\* What it is going to delete: live rows, or all of them. A reset deletes generated rows
\* with all that they were made of; those that workers have made in the meantime hold
\* nothing of what it still deletes, or resets without noticing that it has changed.
DeletesFit(c, R) ==
  /\ c.command = "delete-parts" =>
       \/ DOMAIN R \subseteq c.generated
       \/ \A p \in c.generated \cap DOMAIN R : Live(R[p])
  /\ c.command \in Resets =>
       /\ \A g \in c.generated : g.inputs \ Original \subseteq c.generated
       /\ \A x \in (DOMAIN R \ Original) \ c.generated :
            /\ R[x].lineage \cap (DOMAIN c.todo \ c.changed) = {}
            /\ \A g \in c.generated \cap DOMAIN R : R[x].lineage \cap R[g].lineage = {}

\* The inductive invariant, until a command that overrides the state of rows is used; of
\* what rows hold together, until a worker replaces rows that are about to be deleted.
LInv == ~forced =>
  /\ RowsRight /\ \A o \in Operator : Fits(op[o], rows)
  /\ Unraced => Lineages /\ \A o \in Operator : DeletesFit(op[o], rows)

-----------------------------------------------------------------------------
\* Row s is row r with another status: what it holds and refers to is the same.
Advances(p, r, s) ==
  /\ s.inputs = r.inputs /\ s.generation = r.generation /\ s.lineage = r.lineage
  /\ s.supersededBy = r.supersededBy /\ s.job = r.job
  /\ s.status = "SUPERSEDED" <=> r.status = "SUPERSEDED"
  /\ p \notin Original => s.compactReadyAt /\ s.status \notin {"READY", "IN_PROGRESS"}

\* The step makes and deletes no row, and keeps what the rows hold.
RowsAdvance ==
  /\ DOMAIN rows' = DOMAIN rows
  /\ \A p \in DOMAIN rows : Advances(p, rows[p], rows'[p])

\* The step makes no row; those that are left hold what they held, and live if they did.
Holds ==
  /\ DOMAIN rows' \subseteq DOMAIN rows
  /\ \A p \in DOMAIN rows' : /\ rows'[p].lineage = rows[p].lineage
                             /\ Live(rows[p]) => Live(rows'[p])

\* A row that a statement does not match stays right.
LEMMA ItselfAdvances ==
  ASSUME NEW p, NEW r, RowRight(p, r)
  PROVE  Advances(p, r, r)
  BY DEF Advances, RowRight

\* A step that writes no row: a progress report, a refused update.
LEMMA NoRowAdvances ==
  ASSUME RowsRight, UNCHANGED rows
  PROVE  RowsAdvance
  BY ItselfAdvances DEF RowsAdvance, RowsRight

\* An UPDATE of one row.
LEMMA OneRowAdvances ==
  ASSUME RowsRight, NEW p \in DOMAIN rows, NEW r, Advances(p, rows[p], r),
         rows' = [rows EXCEPT ![p] = r]
  PROVE  RowsAdvance
  <1>1. DOMAIN rows' = DOMAIN rows
    OBVIOUS
  <1>2. \A q \in DOMAIN rows : rows'[q] = IF q = p THEN r ELSE rows[q]
    OBVIOUS
  <1> QED BY <1>1, <1>2, ItselfAdvances DEF RowsAdvance, RowsRight

\* Advancing rows keep what they hold and refer to.
LEMMA AdvancingKeeps ==
  ASSUME RowsRight, RowsAdvance
  PROVE  RowsRight' /\ Holds /\ (Lineages => Lineages')
  <1>1. /\ DOMAIN rows' = DOMAIN rows
        /\ \A p \in DOMAIN rows : Advances(p, rows[p], rows'[p])
    BY DEF RowsAdvance
  <1>2. RowsRight'
    BY <1>1 DEF RowsRight, RowRight, Advances
  <1>3. ASSUME Linked PROVE Linked'
    <2> SUFFICES ASSUME NEW p \in DOMAIN rows \ Original
                 PROVE  /\ \A q \in rows'[p].inputs :
                             /\ q \in DOMAIN rows /\ rows'[q].supersededBy = {p}
                             /\ rows'[q].generation < rows'[p].generation
                        /\ rows'[p].lineage = UNION {rows'[q].lineage : q \in rows'[p].inputs}
      BY <1>1 DEF Linked
    <2>1. rows'[p].inputs = rows[p].inputs /\ rows'[p].lineage = rows[p].lineage
      BY <1>1 DEF Advances
    <2>2. \A q \in rows[p].inputs :
            /\ q \in DOMAIN rows /\ rows[q].supersededBy = {p}
            /\ rows[q].generation < rows[p].generation
      BY <1>3 DEF Linked
    <2>3. \A q \in rows[p].inputs : rows'[q].lineage = rows[q].lineage
      BY <1>1, <2>2 DEF Advances
    <2>4. rows[p].lineage = UNION {rows[q].lineage : q \in rows[p].inputs}
      BY <1>3 DEF Linked
    <2>5. {rows'[q].lineage : q \in rows[p].inputs} = {rows[q].lineage : q \in rows[p].inputs}
      BY <2>3
    <2>6. \A q \in rows[p].inputs :
            /\ q \in DOMAIN rows /\ rows'[q].supersededBy = {p}
            /\ rows'[q].generation < rows'[p].generation
      BY <1>1, <2>2 DEF Advances
    <2> QED BY <2>1, <2>4, <2>5, <2>6
  <1>4. \A p \in DOMAIN rows : /\ rows'[p].lineage = rows[p].lineage
                               /\ rows'[p].supersededBy = rows[p].supersededBy
                               /\ rows'[p].job = rows[p].job
                               /\ Live(rows'[p]) <=> Live(rows[p])
    BY <1>1 DEF Advances, Live
  <1>5. Held => Held'
    BY <1>1, <1>4 DEF Held, NothingTwice
  <1>6. Rooted => Rooted'
    BY <1>1, <1>4 DEF Rooted
  <1>7. Holds
    BY <1>1, <1>4 DEF Holds
  <1> QED BY <1>2, <1>3, <1>5, <1>6, <1>7 DEF Lineages

\* No compaction output is left.
OnlyOriginals == DOMAIN rows \subseteq Original

\* Originals alone hold themselves.
LEMMA OriginalsHold == RowsRight /\ OnlyOriginals => Lineages
  <1> USE DEF OnlyOriginals
  <1> SUFFICES ASSUME RowsRight, OnlyOriginals PROVE Lineages
    OBVIOUS
  <1>1. Linked /\ Rooted
    BY DEF Linked, Rooted
  <1>2. \A p \in DOMAIN rows : rows[p].lineage = {p} /\ rows[p].supersededBy \cap DOMAIN rows = {}
    BY DEF RowsRight, RowRight
  <1>3. NothingTwice
    BY <1>2 DEF NothingTwice
  <1>4. Held
    BY <1>2, <1>3 DEF Held
  <1> QED BY <1>1, <1>4 DEF Lineages

\* The same after a step.
LEMMA OriginalsHoldNext == RowsRight' /\ OnlyOriginals' => Lineages'
  BY OriginalsHold, PTL

-----------------------------------------------------------------------------
(* Commands                                                                *)

\* Rows that are not among the written rows T stay, with their status.
Leaves(T) == \A p \in DOMAIN rows \ T : p \in DOMAIN rows' /\ rows'[p].status = rows[p].status

\* A command another process has overtaken still suits the rows: what is written under
\* it counts as changed, and nothing rests on the status it read for those rows.
LEMMA OutdatedFits ==
  ASSUME OInv, NEW T, Leaves(T), NEW o \in Operator, Fits(op[o], rows)
  PROVE  Fits(Outdated(T)[o], rows')
  <1> DEFINE c == [op[o] EXCEPT !.changed = op[o].changed \cup (T \cap DOMAIN op[o].todo)]
  <1>1. Outdated(T)[o] = c
    BY DEF Outdated
  <1>2. /\ c.command = op[o].command /\ c.generated = op[o].generated /\ c.todo = op[o].todo
        /\ c.changed = op[o].changed \cup (T \cap DOMAIN op[o].todo)
    BY DEF OInv, CommandsGiven, Given, CommandType
  <1> HIDE DEF c
  <1>3. Formed(c)
    BY <1>2 DEF Fits, Formed
  <1>4. SettingsFit(c, rows')
    BY <1>2 DEF Fits, SettingsFit, Leaves
  <1>5. RetriesFit(c)
    BY <1>2 DEF Fits, RetriesFit
  <1> QED BY <1>1, <1>3, <1>4, <1>5 DEF Fits

\* A command that has less before it, among rows that hold what they held.
LEMMA FewerDeletes ==
  ASSUME Holds, NEW c, NEW d, DeletesFit(c, rows), d.command = c.command,
         \/ d.generated = c.generated
         \/ d.generated = {} /\ c.generated \cap DOMAIN rows' = {},
         DOMAIN d.todo \ d.changed \subseteq DOMAIN c.todo \ c.changed
  PROVE  DeletesFit(d, rows')
  <1>1. ASSUME c.command = "delete-parts"
        PROVE  DOMAIN rows' \subseteq d.generated \/ \A p \in d.generated \cap DOMAIN rows' : Live(rows'[p])
    BY <1>1 DEF DeletesFit, Holds
  <1>2. ASSUME c.command \in Resets
        PROVE  \A g \in d.generated : g.inputs \ Original \subseteq d.generated
    BY <1>2 DEF DeletesFit
  <1>3. ASSUME c.command \in Resets, NEW x \in (DOMAIN rows' \ Original) \ d.generated
        PROVE  /\ rows'[x].lineage \cap (DOMAIN d.todo \ d.changed) = {}
               /\ \A g \in d.generated \cap DOMAIN rows' : rows'[x].lineage \cap rows'[g].lineage = {}
    <2>1. x \in (DOMAIN rows \ Original) \ c.generated /\ rows'[x].lineage = rows[x].lineage
      BY DEF Holds
    <2>2. rows[x].lineage \cap (DOMAIN c.todo \ c.changed) = {}
      BY <1>3, <2>1 DEF DeletesFit
    <2>3. ASSUME NEW g \in d.generated \cap DOMAIN rows'
          PROVE  rows'[x].lineage \cap rows'[g].lineage = {}
      <3>1. g \in c.generated \cap DOMAIN rows /\ rows'[g].lineage = rows[g].lineage
        BY DEF Holds
      <3> QED BY <1>3, <2>1, <3>1 DEF DeletesFit
    <2> QED BY <2>1, <2>2, <2>3
  <1> QED BY <1>1, <1>2, <1>3 DEF DeletesFit

\* What an overtaken command deletes is still right.
LEMMA OutdatedDeletes ==
  ASSUME OInv, NEW T, Holds, NEW o \in Operator, DeletesFit(op[o], rows)
  PROVE  DeletesFit(Outdated(T)[o], rows')
  <1> DEFINE c == [op[o] EXCEPT !.changed = op[o].changed \cup (T \cap DOMAIN op[o].todo)]
  <1>1. Outdated(T)[o] = c
    BY DEF Outdated
  <1>2. /\ c.command = op[o].command /\ c.generated = op[o].generated /\ c.todo = op[o].todo
        /\ c.changed = op[o].changed \cup (T \cap DOMAIN op[o].todo)
    BY DEF OInv, CommandsGiven, Given, CommandType
  <1> HIDE DEF c
  <1>3. DeletesFit(c, rows')
    BY <1>2, FewerDeletes
  <1> QED BY <1>1, <1>3

\* An operator with no command is going to do nothing.
LEMMA IdleFits == \A R : Fits(Idle, R) /\ DeletesFit(Idle, R)
  BY IdleFacts DEF Fits, Formed, DeletesFit, SettingsFit, RetriesFit, Resets

\* A step of the pipeline that keeps the lineages keeps every command fitting.
LEMMA WrittenFits ==
  ASSUME OInv, LInv, NEW T, op' = Outdated(T), forced' = forced, Unraced' => Unraced, Leaves(T),
         ~forced => RowsRight',
         ~forced /\ Unraced' => Lineages' /\ \A o \in Operator : DeletesFit(Outdated(T)[o], rows')
  PROVE  LInv'
  <1> SUFFICES ASSUME ~forced'
               PROVE  /\ RowsRight' /\ \A o \in Operator : Fits(op'[o], rows')
                      /\ Unraced' => Lineages' /\ \A o \in Operator : DeletesFit(op'[o], rows')
    BY DEF LInv
  <1>1. \A o \in Operator : Fits(op'[o], rows')
    BY OutdatedFits DEF LInv
  <1> QED BY <1>1

\* Steps of the pipeline that only advance rows.
LEMMA AdvancingFits ==
  ASSUME OInv, LInv, ~forced, NEW T, op' = Outdated(T), forced' = forced, Unraced' => Unraced,
         RowsAdvance, \A p \in DOMAIN rows \ T : rows'[p].status = rows[p].status
  PROVE  LInv'
  <1>1. RowsRight' /\ Holds /\ (Lineages => Lineages')
    BY AdvancingKeeps DEF LInv
  <1>2. Leaves(T)
    BY DEF Leaves, RowsAdvance
  <1>3. Unraced' => \A o \in Operator : DeletesFit(Outdated(T)[o], rows')
    BY <1>1, OutdatedDeletes DEF LInv
  <1> QED BY <1>1, <1>2, <1>3, WrittenFits DEF LInv

\* A step of a command that keeps the lineages and its own fit keeps the others'.
LEMMA ContinueFits ==
  ASSUME OInv, LInv, NEW o \in Operator, NEW c, NEW T, Continue(o, c, T), Leaves(T),
         ~forced /\ c.command \notin Overrides => RowsRight' /\ Fits(c, rows'),
         ~forced /\ c.command \notin Overrides /\ Unraced =>
           Holds /\ Lineages' /\ DeletesFit(c, rows')
  PROVE  LInv'
  <1> SUFFICES ASSUME ~forced'
               PROVE  /\ RowsRight' /\ \A x \in Operator : Fits(op'[x], rows')
                      /\ Unraced' => Lineages' /\ \A x \in Operator : DeletesFit(op'[x], rows')
    BY DEF LInv
  <1> DEFINE d == IF c.generated = {} /\ c.todo = <<>> /\ c.prefixes = {} THEN Idle ELSE c
  <1>1. /\ op' = [Outdated(T) EXCEPT ![o] = d]
        /\ forced' = (forced \/ c.command \in Overrides) /\ raced' = raced
    BY DEF Continue
  <1>2. ~forced /\ c.command \notin Overrides /\ (Unraced' <=> Unraced)
    BY <1>1 DEF Unraced
  <1>3. Fits(d, rows') /\ (Unraced => DeletesFit(d, rows'))
    BY <1>2, IdleFits
  <1> HIDE DEF d
  <1>4. op' = [x \in Operator |-> IF x = o THEN d ELSE Outdated(T)[x]]
    BY <1>1 DEF Outdated
  <1>5. \A x \in Operator : Fits(op'[x], rows')
    BY <1>2, <1>3, <1>4, OutdatedFits DEF LInv
  <1>6. Unraced => \A x \in Operator : DeletesFit(op'[x], rows')
    BY <1>2, <1>3, <1>4, OutdatedDeletes DEF LInv
  <1> QED BY <1>2, <1>5, <1>6

-----------------------------------------------------------------------------
(* Rows advance                                                            *)

\* ClaimNextReady takes a READY row, an original.
LEMMA ClaimedAdvances ==
  ASSUME NEW p, NEW r, WellFormed(r), RowRight(p, r), NEW w, r.status = "READY"
  PROVE  Advances(p, r, ClaimedRow(r, w))
  BY DEF WellFormed, RowOf, RowRight, Advances, ClaimedRow

\* ReleaseInProgress and retry-failed give an IN_PROGRESS row back.
LEMMA UnclaimedAdvances ==
  ASSUME NEW p, NEW r, WellFormed(r), RowRight(p, r), r.status = "IN_PROGRESS"
  PROVE  Advances(p, r, UnclaimedRow(r))
  BY DEF WellFormed, RowOf, RowRight, Advances, UnclaimedRow

\* MarkFailed ends a rewrite.
LEMMA FailedAdvances ==
  ASSUME NEW p, NEW r, WellFormed(r), RowRight(p, r), r.status = "IN_PROGRESS"
  PROVE  Advances(p, r, [r EXCEPT !.status = "FAILED", !.worker = NoWorker])
  BY DEF WellFormed, RowOf, RowRight, Advances

\* ClaimCompactBatch takes COMPACT_READY rows.
LEMMA CompactClaimedAdvances ==
  ASSUME NEW p, NEW r, WellFormed(r), RowRight(p, r), NEW w, r.status = "COMPACT_READY"
  PROVE  Advances(p, r, CompactClaimedRow(r, w))
  BY DEF WellFormed, RowOf, RowRight, Advances, CompactClaimedRow

\* ReleaseCompacting gives the inputs of a compaction back, or finishes them.
LEMMA CompactReleasedAdvances ==
  ASSUME NEW p, NEW r, WellFormed(r), RowRight(p, r), NEW f \in BOOLEAN, Live(r)
  PROVE  Advances(p, r, CompactReleasedRow(r, f))
  <1> DEFINE st == IF f \/ r.finalizeRequested THEN "FINISHED" ELSE "COMPACT_READY"
  <1>1. st \in {"FINISHED", "COMPACT_READY"}
    OBVIOUS
  <1>2. CompactReleasedRow(r, f) =
          [r EXCEPT !.status = st, !.compactReadyAt = TRUE, !.worker = NoWorker,
                    !.leaseExpired = FALSE, !.finalizeRequested = FALSE]
    BY DEF CompactReleasedRow
  <1> HIDE DEF st
  <1> QED BY <1>1, <1>2 DEF WellFormed, RowOf, RowRight, Advances, Live

\* MarkCompactFailed ends a compaction, its inputs unchanged.
LEMMA CompactFailedAdvances ==
  ASSUME NEW p, NEW r, WellFormed(r), RowRight(p, r), r.status = "COMPACTING"
  PROVE  Advances(p, r, CompactFailedRow(r))
  BY DEF WellFormed, RowOf, RowRight, Advances, CompactFailedRow

\* A finalization or the end of an import changes the status of a live row.
LEMMA StatusAdvances ==
  ASSUME NEW p, NEW r, WellFormed(r), RowRight(p, r), Live(r),
         NEW st, st \notin {"SUPERSEDED", "READY", "IN_PROGRESS"}
  PROVE  Advances(p, r, [r EXCEPT !.status = st])
  BY DEF WellFormed, RowOf, RowRight, Advances, Live

\* MarkImporting takes a live row.
LEMMA ImportingAdvances ==
  ASSUME NEW p, NEW r, WellFormed(r), RowRight(p, r), Live(r)
  PROVE  Advances(p, r, [r EXCEPT !.status = "IMPORTING", !.importingAt = TRUE])
  BY DEF WellFormed, RowOf, RowRight, Advances, Live

\* A lease that expires changes no status.
LEMMA LeaseAdvances ==
  ASSUME NEW p, NEW r, WellFormed(r), RowRight(p, r)
  PROVE  Advances(p, r, [r EXCEPT !.leaseExpired = TRUE])
  BY DEF WellFormed, RowOf, RowRight, Advances

\* RetryFailedPart puts a FAILED row where it failed, originals alone back to READY.
LEMMA RetriedAdvances ==
  ASSUME NEW p, NEW r, WellFormed(r), RowRight(p, r), r.status = "FAILED",
         NEW to \in Target, to = "READY" => p \in Original
  PROVE  Advances(p, r, RetriedRow(r, to))
  <1> DEFINE sh == IF to = "READY" THEN EmptyShape ELSE r.shape
  <1>1. RetriedRow(r, to) = [r EXCEPT !.status = to, !.importingAt = FALSE, !.worker = NoWorker,
                                      !.shape = sh]
    BY DEF RetriedRow
  <1> HIDE DEF sh
  <1> QED BY <1>1 DEF WellFormed, RowOf, RowRight, Advances, Target

\* set-part-state sets a live row.
LEMMA SetAdvances ==
  ASSUME NEW p, NEW r, WellFormed(r), RowRight(p, r), Live(r),
         NEW to \in Target, to = "READY" => r.status \in {"READY", "IN_PROGRESS"}
  PROVE  Advances(p, r, SetRow(r, to))
  <1> DEFINE sh == IF to = "READY" THEN EmptyShape ELSE r.shape
             at == IF to = "READY" THEN FALSE ELSE to = "COMPACT_READY" \/ r.compactReadyAt
             s == ToStatus(r, to, sh, at)
  <1>1. SetRow(r, to) = s
    BY DEF SetRow, ToStatus
  <1>2. r \in RowOf(r.inputs, r.supersededBy) /\ r.supersededBy = {}
    BY DEF WellFormed, RowRight, Live
  <1>3. p \notin Original => at /\ to # "READY"
    BY DEF RowRight
  <1> HIDE DEF sh, at
  <1>4. /\ s.inputs = r.inputs /\ s.generation = r.generation /\ s.lineage = r.lineage
        /\ s.supersededBy = {} /\ s.status = to /\ s.compactReadyAt = at /\ s.job = r.job
    BY <1>2 DEF RowOf, ToStatus
  <1> HIDE DEF s
  <1> QED BY <1>1, <1>2, <1>3, <1>4 DEF Advances, Target, Live

\* MarkCompactReady ends a rewrite: the row holds the artifact of its own source.
LEMMA RewrittenAdvances ==
  ASSUME NEW p, NEW r, WellFormed(r), RowRight(p, r), r.status = "IN_PROGRESS", NEW s
  PROVE  Advances(p, r, RewrittenRow(r, s))
  <1> DEFINE st == IF s.parts = 0 THEN "FINISHED" ELSE "COMPACT_READY"
             t == RewrittenRow(r, s)
  <1>1. r \in RowOf(r.inputs, r.supersededBy) /\ p \in Original /\ r.generation = 0
    BY DEF WellFormed, RowRight
  <1>2. st \in {"FINISHED", "COMPACT_READY"}
    OBVIOUS
  <1>3. t = [[r EXCEPT !.generation = 0, !.shape = s, !.worker = NoWorker]
               EXCEPT !.status = st, !.compactReadyAt = (s.parts # 0)]
    BY DEF RewrittenRow
  <1> HIDE DEF st, t
  <1>4. /\ t.status = st /\ t.inputs = r.inputs /\ t.generation = 0 /\ t.lineage = r.lineage
        /\ t.supersededBy = r.supersededBy /\ t.job = r.job
    BY <1>1, <1>3 DEF RowOf
  <1>5. Advances(p, r, t)
    BY <1>1, <1>2, <1>4 DEF Advances
  <1> QED BY <1>5 DEF t

-----------------------------------------------------------------------------
(* Workers and the importer advance rows.                                  *)

\* ClaimCompactBatch only takes COMPACT_READY rows.
LEMMA BatchIsReady ==
  ASSUME NEW B \in CompactBatches({}), NEW p \in B
  PROVE  rows[p].status = "COMPACT_READY"
  <1>1. CASE Fragmented \ {} # {}
    BY <1>1 DEF CompactBatches, FragmentedBatches, Fragmented, Claimable
  <1>2. CASE Fragmented \ {} = {}
    <2>1. PICK a : B \in SiblingBatches(a, {})
      BY <1>2 DEF CompactBatches
    <2> QED BY <2>1 DEF SiblingBatches
  <1> QED BY <1>1, <1>2

\* Finalization only finishes COMPACT_READY rows.
LEMMA MaintainAdvances ==
  ASSUME OInv, RowsRight, NEW S \in SUBSET Stale, NEW m, MaintainCompaction(S, m)
  PROVE  RowsAdvance
  <1> DEFINE R == ReleasedStale(rows, S)
             F == UNION {Finalizable(R, j, m[j]) : j \in Job}
  <1>1. /\ DOMAIN R = DOMAIN rows
        /\ \A p \in DOMAIN rows : R[p] = IF p \in S THEN CompactReleasedRow(rows[p], FALSE)
                                         ELSE rows[p]
    BY DEF ReleasedStale, Apply
  <1>2. \A p \in DOMAIN rows : Advances(p, rows[p], R[p]) /\ WellFormed(R[p])
    <2>1. \A p \in S : Live(rows[p])
      BY DEF Stale, Live
    <2>2. \A p \in DOMAIN rows : Advances(p, rows[p], R[p])
      BY <1>1, <2>1, CompactReleasedAdvances, ItselfAdvances DEF OInv, RowsWellFormed, RowsRight
    <2>3. \A p \in DOMAIN rows : Succeeds(rows[p], R[p])
      BY <1>1, CompactReleasedSucceeds, Itself DEF OInv, RowsWellFormed
    <2> QED BY <2>2, <2>3 DEF Succeeds
  <1> HIDE DEF R
  <1>3. \A p \in F : p \in DOMAIN R /\ R[p].status = "COMPACT_READY"
    BY DEF Finalizable
  <1>4. rows' = Finalized(R, F)
    BY DEF MaintainCompaction, R
  <1> HIDE DEF F
  <1>5. /\ DOMAIN rows' = DOMAIN R
        /\ \A p \in DOMAIN R : rows'[p] = IF p \in F THEN [R[p] EXCEPT !.status = "FINISHED"]
                                          ELSE R[p]
    BY <1>4 DEF Finalized, Apply
  <1>6. ASSUME NEW p \in F
        PROVE  Advances(p, rows[p], rows'[p])
    <2>1. /\ p \in DOMAIN rows /\ WellFormed(R[p]) /\ Advances(p, rows[p], R[p])
          /\ rows'[p] = [R[p] EXCEPT !.status = "FINISHED"] /\ R[p].status = "COMPACT_READY"
      BY <1>1, <1>2, <1>3, <1>5
    <2> QED BY <2>1 DEF Advances, WellFormed, RowOf
  <1> QED BY <1>1, <1>2, <1>5, <1>6 DEF RowsAdvance

\* Each statement of the workers and of the importer advances the rows it matches.
LEMMA PipelineAdvances ==
  ASSUME OInv, RowsRight, PipelineStep
  PROVE  RowsAdvance
  <1> USE DEF OInv, RowsWellFormed, RowsRight
  <1>1. ASSUME NEW w \in Worker, NEW p \in DOMAIN rows, ClaimNextReady(w, p)
        PROVE  RowsAdvance
    BY <1>1, ClaimedAdvances, OneRowAdvances DEF ClaimNextReady
  <1>2. ASSUME NEW w \in Worker, NEW p \in DOMAIN rows, MarkFailed(w, p)
        PROVE  RowsAdvance
    <2>1. /\ rows' = [rows EXCEPT ![p] = [rows[p] EXCEPT !.status = "FAILED", !.worker = NoWorker]]
          /\ rows[p].status = "IN_PROGRESS"
      BY <1>2 DEF MarkFailed, InProgressOwned
    <2> QED BY <2>1, FailedAdvances, OneRowAdvances
  <1>3. ASSUME NEW w \in Worker, NEW p \in DOMAIN rows, ReleaseInProgress(w, p)
        PROVE  RowsAdvance
    BY <1>3, UnclaimedAdvances, OneRowAdvances DEF ReleaseInProgress, InProgressOwned
  <1>4. ASSUME NEW w \in Worker, NEW B \in CompactBatches({}), ClaimNextCompactBatch(w, B, {})
        PROVE  RowsAdvance
    BY <1>4, BatchIsReady, CompactClaimedAdvances, ItselfAdvances
    DEF ClaimNextCompactBatch, Apply, RowsAdvance
  <1>5. ASSUME NEW w \in Worker, NEW B \in SUBSET DOMAIN rows, ReleaseCompactBatch(w, B, FALSE)
        PROVE  RowsAdvance
    <2>1. \A p \in B : Live(rows[p])
      BY <1>5 DEF ReleaseCompactBatch, CompactOwnedOrUnownedReady, Live
    <2> QED BY <1>5, <2>1, CompactReleasedAdvances, ItselfAdvances
        DEF ReleaseCompactBatch, Apply, RowsAdvance
  <1>6. ASSUME NEW w \in Worker, NEW B \in SUBSET DOMAIN rows, MarkCompactBatchFailed(w, B)
        PROVE  RowsAdvance
    BY <1>6, CompactFailedAdvances, ItselfAdvances DEF MarkCompactBatchFailed, Apply, RowsAdvance
  <1>7. CASE Maintain
    BY <1>7, MaintainAdvances DEF Maintain
  <1>8. ASSUME NEW p \in DOMAIN rows, MarkImporting(p)
        PROVE  RowsAdvance
    <2>1. /\ rows' = [rows EXCEPT ![p] = [rows[p] EXCEPT !.status = "IMPORTING", !.importingAt = TRUE]]
          /\ Live(rows[p])
      BY <1>8 DEF MarkImporting, Live
    <2> QED BY <2>1, ImportingAdvances, OneRowAdvances
  <1>9. ASSUME NEW p \in DOMAIN rows, MarkImported(p)
        PROVE  RowsAdvance
    <2>1. rows' = [rows EXCEPT ![p] = [rows[p] EXCEPT !.status = "IMPORTED"]] /\ Live(rows[p])
      BY <1>9 DEF MarkImported, Live
    <2> QED BY <2>1, StatusAdvances, OneRowAdvances
  <1>10. ASSUME NEW p \in DOMAIN rows, MarkImportFailed(p)
         PROVE  RowsAdvance
    <2>1. rows' = [rows EXCEPT ![p] = [rows[p] EXCEPT !.status = "FAILED"]] /\ Live(rows[p])
      BY <1>10 DEF MarkImportFailed, Live
    <2> QED BY <2>1, StatusAdvances, OneRowAdvances
  <1> QED BY <1>1, <1>2, <1>3, <1>4, <1>5, <1>6, <1>7, <1>8, <1>9, <1>10 DEF PipelineStep

\* Claims, releases, failures, finalizations and imports keep the invariant.
LEMMA PipelineKeepsLineages ==
  ASSUME OInv, LInv, ~forced, PipelineStep
  PROVE  LInv'
  <1> DEFINE T == {p \in DOMAIN rows : rows'[p] # rows[p]}
  <1>1. op' = Outdated(T) /\ forced' = forced /\ raced' = raced
    BY DEF PipelineStep, Written
  <1>2. RowsAdvance
    BY PipelineAdvances DEF LInv
  <1>3. \A p \in DOMAIN rows \ T : rows'[p].status = rows[p].status
    OBVIOUS
  <1> HIDE DEF T
  <1> QED BY <1>1, <1>2, <1>3, AdvancingFits DEF Unraced

\* A completion that replaces no rows overtakes no deletion.
LEMMA OvertakesUnraced ==
  ASSUME OInv, NEW B, NEW N, Overtakes(B, N)
  PROVE  /\ Unraced' => Unraced
         /\ Unraced' => \A o \in Operator : op[o].generated \cap B = {}
  <1>1. ASSUME NEW o \in Operator, op[o].generated \cap B # {}
        PROVE  ~Unraced'
    BY <1>1 DEF Overtakes, Unraced
  <1> QED BY <1>1 DEF Overtakes, Unraced

\* The end of a rewrite keeps the invariant.
LEMMA RewriteDoneKeepsLineages ==
  ASSUME OInv, LInv, ~forced, NEW w \in Worker, NEW p \in DOMAIN rows, RewriteDone(w, p)
  PROVE  LInv'
  <1>1. PICK s \in Shape : MarkCompactReady(w, p, s)
    BY DEF RewriteDone
  <1>2. op' = Outdated({p}) /\ forced' = forced /\ (Unraced' => Unraced)
    BY OvertakesUnraced DEF RewriteDone, Written
  <1>3. rows' = [rows EXCEPT ![p] = RewrittenRow(rows[p], s)] /\ rows[p].status = "IN_PROGRESS"
    BY <1>1 DEF MarkCompactReady, InProgressOwned
  <1>4. RowsAdvance
    BY <1>3, RewrittenAdvances, OneRowAdvances DEF OInv, RowsWellFormed, LInv, RowsRight
  <1>5. \A q \in DOMAIN rows \ {p} : rows'[q].status = rows[q].status
    BY <1>3
  <1> QED BY <1>2, <1>4, <1>5, AdvancingFits

\* A progress report keeps the invariant.
LEMMA ProgressKeepsLineages ==
  ASSUME OInv, LInv, ~forced, NEW p, Progress(p)
  PROVE  LInv'
  <1>1. RowsAdvance /\ rows' = rows /\ raced' = raced
    BY NoRowAdvances DEF Progress, LInv
  <1>2. op' = Outdated({p}) /\ forced' = forced
    BY DEF Progress, Written
  <1> QED BY <1>1, <1>2, AdvancingFits DEF Unraced

\* Leases and compact windows that expire keep the invariant.
LEMMA TimeKeepsLineages ==
  ASSUME OInv, LInv, ~forced, Time
  PROVE  LInv'
  <1>1. ASSUME NEW p \in DOMAIN rows, LeaseExpires(p)
        PROVE  RowsAdvance /\ \A q \in DOMAIN rows : rows'[q].status = rows[q].status
    <2>1. rows' = [rows EXCEPT ![p] = [rows[p] EXCEPT !.leaseExpired = TRUE]]
      BY <1>1 DEF LeaseExpires
    <2>2. WellFormed(rows[p]) /\ RowRight(p, rows[p])
      BY DEF OInv, RowsWellFormed, LInv, RowsRight
    <2>3. [rows[p] EXCEPT !.leaseExpired = TRUE].status = rows[p].status
      BY <2>2 DEF WellFormed, RowOf
    <2>4. RowsAdvance
      BY <2>1, <2>2, LeaseAdvances, OneRowAdvances DEF LInv
    <2> QED BY <2>1, <2>3, <2>4
  <1>2. ASSUME NEW j \in Job, WindowExpires(j)
        PROVE  RowsAdvance /\ \A q \in DOMAIN rows : rows'[q].status = rows[q].status
    BY <1>2, NoRowAdvances DEF WindowExpires, LInv
  <1>3. RowsAdvance /\ \A q \in DOMAIN rows : rows'[q].status = rows[q].status
    BY <1>1, <1>2 DEF Time
  <1>4. op' = Outdated({}) /\ forced' = forced /\ raced' = raced
    BY DEF Time
  <1> QED BY <1>3, <1>4, AdvancingFits DEF Unraced

-----------------------------------------------------------------------------
(* A compaction: the output holds what its inputs held.                    *)

\* An input of a compaction is superseded by the output made of it.
LEMMA SupersededRight ==
  ASSUME NEW p, NEW r, WellFormed(r), RowRight(p, r), Live(r),
         NEW B, NEW g, p \in B, DeriveCompactPartID(B, g) \notin Original,
         r.status \notin {"READY", "IN_PROGRESS"}
  PROVE  LET out == DeriveCompactPartID(B, g)
             s == SupersededRow(r, out)
         IN /\ RowRight(p, s) /\ s.supersededBy = {out} /\ ~Live(s) /\ s.job = r.job
            /\ s.lineage = r.lineage /\ s.inputs = r.inputs /\ s.generation = r.generation
  <1> DEFINE out == DeriveCompactPartID(B, g)
             s == SupersededRow(r, out)
  <1>1. out \notin Original /\ p \in out.inputs
    BY DEF DeriveCompactPartID
  <1> HIDE DEF out
  <1>2. /\ s.supersededBy = {out} /\ s.status = "SUPERSEDED" /\ s.lineage = r.lineage
        /\ s.inputs = r.inputs /\ s.generation = r.generation
        /\ s.compactReadyAt = r.compactReadyAt /\ s.job = r.job
    BY DEF WellFormed, RowOf, SupersededRow
  <1> HIDE DEF s
  <1>3. RowRight(p, s)
    BY <1>1, <1>2 DEF RowRight
  <1>4. ~Live(s)
    BY <1>2 DEF Live
  <1>5. /\ RowRight(p, s) /\ s.supersededBy = {out} /\ ~Live(s) /\ s.job = r.job
        /\ s.lineage = r.lineage /\ s.inputs = r.inputs /\ s.generation = r.generation
    BY <1>2, <1>3, <1>4
  <1> QED BY <1>5 DEF s, out

\* The rows B have become inputs of the new row `out', and nothing else has happened.
CompactsTo(B, out) ==
  /\ B \subseteq DOMAIN rows /\ B # {}
  /\ out \notin DOMAIN rows \cup Original /\ out.inputs = B
  /\ DOMAIN rows' = DOMAIN rows \cup {out}
  /\ rows'[out].inputs = B /\ rows'[out].lineage = BatchLineage(B) /\ Live(rows'[out])
  /\ \E q \in B : rows'[out].job = rows[q].job
  /\ \A p \in B : /\ Live(rows[p]) /\ ~Live(rows'[p]) /\ rows'[p].supersededBy = {out}
                  /\ rows[p].generation < rows'[out].generation
  /\ \A p \in DOMAIN rows : /\ rows'[p].lineage = rows[p].lineage
                            /\ rows'[p].inputs = rows[p].inputs
                            /\ rows'[p].generation = rows[p].generation
                            /\ rows'[p].job = rows[p].job
  /\ \A p \in DOMAIN rows \ B : rows'[p] = rows[p]

\* CompleteCompaction inserts the output and supersedes its inputs in one transaction.
LEMMA CompactionCompacts ==
  ASSUME OInv, RowsRight, Restrained,
         NEW w \in Worker, NEW B \in SUBSET DOMAIN rows, CompactionDone(w, B)
  PROVE  RowsRight' /\ \E out : CompactsTo(B, out)
  <1>1. PICK s \in Reductions(B) : CompleteCompaction(w, B, s)
    BY DEF CompactionDone
  <1>3. PICK newest \in B :
          LET g      == rows[newest].generation + 1
              j      == rows[newest].job
              out    == DeriveCompactPartID(B, g)
              status == IF \E p \in B : rows[p].finalizeRequested
                        THEN "FINISHED" ELSE "COMPACT_READY"
              output == NewCompactPart(j, B, g, s, status, BatchLineage(B))
              superseded == Apply(rows, B, LAMBDA r : SupersededRow(r, out))
          IN /\ \A p \in B : rows[p].generation < g /\ rows[p].job = j
             /\ \A p \in B : CompactOwnedOrUnownedReady(rows[p], w)
             /\ out \notin DOMAIN rows
             /\ rows' = [p \in DOMAIN rows \cup {out} |->
                           IF p = out THEN output ELSE superseded[p]]
    BY <1>1 DEF CompleteCompaction
  <1> DEFINE g == rows[newest].generation + 1
             out == DeriveCompactPartID(B, g)
             status == IF \E p \in B : rows[p].finalizeRequested
                       THEN "FINISHED" ELSE "COMPACT_READY"
             output == NewCompactPart(rows[newest].job, B, g, s, status, BatchLineage(B))
  <1>4. /\ out \notin DOMAIN rows /\ DOMAIN rows' = DOMAIN rows \cup {out}
        /\ rows'[out] = output
        /\ \A p \in DOMAIN rows : rows'[p] = IF p \in B THEN SupersededRow(rows[p], out)
                                             ELSE rows[p]
    BY <1>3 DEF Apply
  <1>5. out \notin Original
    BY DEF Restrained
  <1>6. \A p \in B : /\ rows[p].generation < g /\ Live(rows[p])
                     /\ rows[p].status \notin {"READY", "IN_PROGRESS"}
    BY <1>3 DEF CompactOwnedOrUnownedReady, Live
  <1>7. \A p \in DOMAIN rows : WellFormed(rows[p]) /\ RowRight(p, rows[p])
    BY DEF OInv, RowsWellFormed, RowsRight
  <1>8. /\ output.inputs = B /\ output.generation = g /\ output.lineage = BatchLineage(B)
        /\ output.supersededBy = {} /\ output.compactReadyAt
        /\ output.status \in {"FINISHED", "COMPACT_READY"} /\ output.job = rows[newest].job
    BY DEF NewCompactPart
  <1>9. RowRight(out, output) /\ Live(output)
    BY <1>5, <1>8 DEF RowRight, Live
  <1>10. \A p \in B : /\ RowRight(p, rows'[p]) /\ rows'[p].supersededBy = {out} /\ ~Live(rows'[p])
                      /\ rows'[p].lineage = rows[p].lineage /\ rows'[p].inputs = rows[p].inputs
                      /\ rows'[p].generation = rows[p].generation /\ rows'[p].job = rows[p].job
    <2> TAKE p \in B
    <2>1. rows'[p] = SupersededRow(rows[p], out)
      BY <1>4
    <2> QED BY <2>1, <1>5, <1>6, <1>7, SupersededRight
  <1>11. \A p \in DOMAIN rows \ B : rows'[p] = rows[p]
    BY <1>4
  <1>12. out.inputs = B
    BY DEF DeriveCompactPartID
  <1> HIDE DEF output, out, g
  <1>13. RowsRight'
    BY <1>4, <1>7, <1>9, <1>10, <1>11 DEF RowsRight
  <1>14. \A p \in DOMAIN rows : /\ rows'[p].lineage = rows[p].lineage
                                /\ rows'[p].inputs = rows[p].inputs
                                /\ rows'[p].generation = rows[p].generation
                                /\ rows'[p].job = rows[p].job
    BY <1>10, <1>11
  <1>15. CompactsTo(B, out)
    BY <1>4, <1>5, <1>6, <1>8, <1>9, <1>10, <1>11, <1>12, <1>14 DEF CompactsTo
  <1> QED BY <1>13, <1>15

\* The originals in the lineage of a row are rows, and of a live one they are either the
\* row itself or superseded.
LEMMA LineageRooted ==
  ASSUME RowsRight, Rooted, NEW p \in DOMAIN rows, NEW o \in rows[p].lineage
  PROVE  o \in DOMAIN rows /\ (o = p \/ ~Live(rows[o]))
  <1>1. CASE p \in Original
    BY <1>1 DEF RowsRight, RowRight
  <1>2. CASE p \notin Original
    BY <1>2 DEF Rooted
  <1> QED BY <1>1, <1>2

\* The output holds the union of what its inputs held, which nothing else holds.
LEMMA CompactedLineages ==
  ASSUME RowsRight, Lineages, NEW B, NEW out, CompactsTo(B, out)
  PROVE  Lineages'
  <1> USE DEF CompactsTo
  <1>1. Linked'
    <2> SUFFICES ASSUME NEW p \in DOMAIN rows' \ Original
                 PROVE  /\ \A q \in rows'[p].inputs :
                             /\ q \in DOMAIN rows' /\ rows'[q].supersededBy = {p}
                             /\ rows'[q].generation < rows'[p].generation
                        /\ rows'[p].lineage = UNION {rows'[q].lineage : q \in rows'[p].inputs}
      BY DEF Linked
    <2>1. CASE p = out
      <3>1. {rows'[q].lineage : q \in B} = {rows[q].lineage : q \in B}
        OBVIOUS
      <3> QED BY <2>1, <3>1 DEF BatchLineage
    <2>2. CASE p # out
      <3>1. p \in DOMAIN rows \ Original
        BY <2>2
      <3>2. /\ \A q \in rows[p].inputs : /\ q \in DOMAIN rows /\ rows[q].supersededBy = {p}
                                         /\ rows[q].generation < rows[p].generation
            /\ rows[p].lineage = UNION {rows[q].lineage : q \in rows[p].inputs}
        BY <3>1 DEF Lineages, Linked
      <3>3. \A q \in rows[p].inputs : q \notin B
        BY <3>2 DEF RowsRight, RowRight, Live
      <3>4. {rows'[q].lineage : q \in rows[p].inputs} = {rows[q].lineage : q \in rows[p].inputs}
        BY <3>2
      <3>5. \A q \in rows[p].inputs :
              /\ q \in DOMAIN rows' /\ rows'[q].supersededBy = {p}
              /\ rows'[q].generation < rows'[p].generation
        BY <3>1, <3>2, <3>3
      <3> QED BY <3>1, <3>2, <3>4, <3>5
    <2> QED BY <2>1, <2>2
  <1>2. NothingTwice'
    <2>1. NothingTwice
      BY DEF Lineages, Held
    <2>2. \A p \in DOMAIN rows \ B : Live(rows[p]) => rows[p].lineage \cap BatchLineage(B) = {}
      BY <2>1 DEF NothingTwice, BatchLineage
    <2>3. \A p \in DOMAIN rows' : Live(rows'[p]) => p = out \/ (p \in DOMAIN rows \ B /\ Live(rows[p]))
      OBVIOUS
    <2>4. ASSUME NEW p \in DOMAIN rows', NEW q \in DOMAIN rows', p # q,
                 Live(rows'[p]), Live(rows'[q])
          PROVE  rows'[p].lineage \cap rows'[q].lineage = {}
      <3>1. CASE p = out
        BY <3>1, <2>2, <2>3, <2>4
      <3>2. CASE q = out
        BY <3>2, <2>2, <2>3, <2>4
      <3>3. CASE p # out /\ q # out
        BY <3>3, <2>1, <2>3, <2>4 DEF NothingTwice
      <3> QED BY <3>1, <3>2, <3>3
    <2> QED BY <2>4 DEF NothingTwice
  <1>3. ASSUME NEW o \in DOMAIN rows' \cap Original
        PROVE  \E p \in DOMAIN rows' :
                 /\ o \in rows'[p].lineage
                 /\ Live(rows'[p]) \/ rows'[p].supersededBy \cap DOMAIN rows' = {}
    <2>1. o \in DOMAIN rows \cap Original
      OBVIOUS
    <2>2. PICK p \in DOMAIN rows : /\ o \in rows[p].lineage
                                   /\ Live(rows[p]) \/ rows[p].supersededBy \cap DOMAIN rows = {}
      BY <2>1 DEF Lineages, Held
    <2>3. CASE p \in B
      <3>1. o \in rows'[out].lineage /\ Live(rows'[out]) /\ out \in DOMAIN rows'
        BY <2>2, <2>3 DEF BatchLineage
      <3> QED BY <3>1
    <2>4. CASE p \notin B
      <3>1. rows'[p] = rows[p] /\ p \in DOMAIN rows'
        BY <2>4
      <3>2. out \notin rows[p].supersededBy
        BY <2>4 DEF RowsRight, RowRight
      <3> QED BY <2>2, <3>1, <3>2
    <2> QED BY <2>3, <2>4
  <1>4. Rooted'
    <2> SUFFICES ASSUME NEW x \in DOMAIN rows' \ Original
                 PROVE  /\ \A o \in rows'[x].lineage : o \in DOMAIN rows' /\ ~Live(rows'[o])
                        /\ \E o \in rows'[x].lineage : rows'[o].job = rows'[x].job
      BY DEF Rooted
    <2>1. \A p \in DOMAIN rows : ~Live(rows[p]) => ~Live(rows'[p])
      OBVIOUS
    <2>2. ASSUME NEW q \in DOMAIN rows
          PROVE  \E o \in rows[q].lineage : o \in DOMAIN rows /\ rows[o].job = rows[q].job
      <3>1. CASE q \in Original
        BY <3>1 DEF RowsRight, RowRight
      <3>2. CASE q \notin Original
        BY <3>2 DEF Lineages, Rooted
      <3> QED BY <3>1, <3>2
    <2>3. CASE x # out
      <3>1. x \in DOMAIN rows \ Original
        BY <2>3
      <3>2. \A o \in rows[x].lineage : o \in DOMAIN rows /\ ~Live(rows[o])
        BY <3>1 DEF Lineages, Rooted
      <3>3. \A o \in rows'[x].lineage : o \in DOMAIN rows' /\ ~Live(rows'[o])
        BY <2>1, <3>1, <3>2
      <3>4. \E o \in rows[x].lineage : o \in DOMAIN rows /\ rows[o].job = rows[x].job
        BY <2>2, <3>1
      <3>5. \E o \in rows'[x].lineage : rows'[o].job = rows'[x].job
        BY <3>1, <3>4
      <3> QED BY <3>3, <3>5
    <2>4. CASE x = out
      <3>1. ASSUME NEW o \in rows'[x].lineage PROVE o \in DOMAIN rows' /\ ~Live(rows'[o])
        <4>1. PICK q \in B : o \in rows[q].lineage
          BY <2>4 DEF BatchLineage
        <4>2. o \in DOMAIN rows /\ (o = q \/ ~Live(rows[o]))
          BY <4>1, LineageRooted DEF Lineages
        <4> QED BY <2>1, <4>2
      <3>2. PICK q \in B : rows'[out].job = rows[q].job
        OBVIOUS
      <3>3. PICK o \in rows[q].lineage : o \in DOMAIN rows /\ rows[o].job = rows[q].job
        BY <2>2
      <3>4. o \in rows'[x].lineage /\ rows'[o].job = rows'[x].job
        BY <2>4, <3>2, <3>3 DEF BatchLineage
      <3> QED BY <3>1, <3>4
    <2> QED BY <2>3, <2>4
  <1> QED BY <1>1, <1>2, <1>3, <1>4 DEF Lineages, Held

\* A completion that replaces nothing that command c is about to delete: a row that it
\* makes again is made of originals, and one that it makes in addition holds nothing that
\* c goes on to delete or to reset.
LEMMA CompactedDeletes ==
  ASSUME RowsRight, Lineages, NEW B, NEW out, CompactsTo(B, out), NEW c, NEW d,
         Formed(c), DeletesFit(c, rows), c.generated \cap B = {},
         d.command = c.command, d.generated = c.generated, d.todo = c.todo,
         d.changed = c.changed \cup (B \cap DOMAIN c.todo)
  PROVE  DeletesFit(d, rows')
  <1> USE DEF CompactsTo
  <1>1. ASSUME c.command = "delete-parts", NEW p \in c.generated \cap DOMAIN rows'
        PROVE  Live(rows'[p])
    <2>1. \A q \in c.generated \cap DOMAIN rows : Live(rows[q])
      BY <1>1 DEF DeletesFit
    <2> QED BY <2>1
  <1>2. ASSUME c.command \in Resets
        PROVE  \A g \in c.generated : g.inputs \ Original \subseteq c.generated
    BY <1>2 DEF DeletesFit
  <1>3. ASSUME c.command \in Resets, NEW x \in (DOMAIN rows \ Original) \ c.generated
        PROVE  /\ rows[x].lineage \cap (DOMAIN c.todo \ c.changed) = {}
               /\ \A g \in c.generated \cap DOMAIN rows : rows[x].lineage \cap rows[g].lineage = {}
    BY <1>3 DEF DeletesFit
  <1>4. ASSUME NEW g \in DOMAIN rows \ Original, NEW q \in B \cap Original
        PROVE  q \notin rows[g].lineage
    BY DEF Lineages, Rooted
  <1>5. \A q \in B \cap Original : rows[q].lineage = {q}
    BY DEF RowsRight, RowRight
  <1>6. ASSUME c.command \in Resets, NEW x \in (DOMAIN rows' \ Original) \ c.generated
        PROVE  rows'[x].lineage \cap (DOMAIN d.todo \ d.changed) = {}
    <2>1. CASE x # out
      BY <1>3, <1>6, <2>1
    <2>2. CASE x = out
      <3> SUFFICES ASSUME NEW o \in BatchLineage(B), o \in DOMAIN c.todo \ d.changed
                   PROVE  FALSE
        BY <2>2
      <3>1. PICK q \in B : o \in rows[q].lineage
        BY DEF BatchLineage
      <3>2. CASE q \in Original
        BY <1>5, <3>1, <3>2
      <3>3. CASE q \notin Original
        BY <1>3, <1>6, <3>1, <3>3
      <3> QED BY <3>2, <3>3
    <2> QED BY <2>1, <2>2
  <1>7. ASSUME c.command \in Resets, NEW x \in (DOMAIN rows' \ Original) \ c.generated,
               NEW g \in c.generated \cap DOMAIN rows'
        PROVE  rows'[x].lineage \cap rows'[g].lineage = {}
    <2> g \notin Original
      BY <1>7 DEF Formed
    <2>1. CASE x # out /\ g # out
      BY <1>3, <1>7, <2>1
    <2>2. CASE x = out
      <3>1. g \in c.generated \cap (DOMAIN rows \ Original) /\ rows'[g].lineage = rows[g].lineage
        BY <1>7, <2>2
      <3>2. ASSUME NEW q \in B PROVE rows[q].lineage \cap rows[g].lineage = {}
        <4>1. CASE q \in Original
          BY <1>4, <1>5, <3>1, <4>1
        <4>2. CASE q \notin Original
          BY <1>3, <1>7, <3>1, <4>2
        <4> QED BY <4>1, <4>2
      <3> QED BY <2>2, <3>1, <3>2 DEF BatchLineage
    <2>3. CASE g = out
      <3>1. B \subseteq Original
        BY <1>2, <1>7, <2>3
      <3>2. x \in DOMAIN rows \ Original /\ rows'[x].lineage = rows[x].lineage
        BY <1>7, <2>3
      <3>3. \A q \in B : rows[q].lineage = {q} /\ q \notin rows[x].lineage
        BY <1>4, <1>5, <3>1, <3>2
      <3> QED BY <2>3, <3>2, <3>3 DEF BatchLineage
    <2> QED BY <2>1, <2>2, <2>3
  <1> QED BY <1>1, <1>2, <1>6, <1>7 DEF DeletesFit

\* The completion of a compaction keeps the invariant.
LEMMA CompactionDoneKeepsLineages ==
  ASSUME OInv, LInv, ~forced, Restrained,
         NEW w \in Worker, NEW B \in SUBSET DOMAIN rows, CompactionDone(w, B)
  PROVE  LInv'
  <1>1. RowsRight
    BY DEF LInv
  <1>2. RowsRight' /\ \E out : CompactsTo(B, out)
    BY <1>1, CompactionCompacts
  <1>3. PICK out : CompactsTo(B, out)
    BY <1>2
  <1>4. op' = Outdated(B) /\ forced' = forced /\ Overtakes(B, DOMAIN rows' \ DOMAIN rows)
    BY DEF CompactionDone, Written
  <1>5. Unraced' => Unraced /\ \A o \in Operator : op[o].generated \cap B = {}
    BY <1>4, OvertakesUnraced
  <1>6. Leaves(B)
    BY <1>3 DEF CompactsTo, Leaves
  <1>7. ASSUME Unraced', NEW o \in Operator PROVE DeletesFit(Outdated(B)[o], rows')
    <2> DEFINE d == [op[o] EXCEPT !.changed = op[o].changed \cup (B \cap DOMAIN op[o].todo)]
    <2>1. Outdated(B)[o] = d
      BY DEF Outdated
    <2>2. /\ d.command = op[o].command /\ d.generated = op[o].generated /\ d.todo = op[o].todo
          /\ d.changed = op[o].changed \cup (B \cap DOMAIN op[o].todo)
      BY DEF OInv, CommandsGiven, Given, CommandType
    <2> HIDE DEF d
    <2>3. /\ Lineages /\ Formed(op[o]) /\ DeletesFit(op[o], rows)
          /\ op[o].generated \cap B = {}
      BY <1>5, <1>7 DEF LInv, Fits
    <2>4. DeletesFit(d, rows')
      BY <1>1, <1>3, <2>2, <2>3, CompactedDeletes
    <2> QED BY <2>1, <2>4
  <1>8. Unraced' => Lineages'
    BY <1>1, <1>3, <1>5, CompactedLineages DEF LInv
  <1> QED BY <1>2, <1>4, <1>5, <1>6, <1>7, <1>8, WrittenFits

-----------------------------------------------------------------------------
(* Commands list.                                                          *)

\* A listing writes nothing.
LEMMA ListingFits ==
  ASSUME OInv, LInv, NEW o \in Operator, NEW c, Continue(o, c, {}), UNCHANGED rows,
         ~forced /\ c.command \notin Overrides => Fits(c, rows),
         ~forced /\ c.command \notin Overrides /\ Unraced => DeletesFit(c, rows)
  PROVE  LInv'
  <1>1. Leaves({}) /\ Holds
    BY DEF Leaves, Holds
  <1>2. (RowsRight => RowsRight') /\ (Lineages => Lineages')
    BY DEF Lineages, RowsRight, Linked, Held, NothingTwice, Rooted
  <1> QED BY <1>1, <1>2, ContinueFits DEF LInv

\* A listed command that deletes nothing fits when its selection does.
LEMMA StartsFits ==
  ASSUME OInv, LInv, NEW o \in Operator, NEW command, NEW todo, Starts(o, command, todo),
         command \notin Resets \cup {"delete-parts"},
         ~forced /\ command = "set-part-state" => \A p \in DOMAIN todo :
           /\ todo[p].from # "SUPERSEDED"
           /\ todo[p].to = "READY" => todo[p].from \in {"READY", "IN_PROGRESS"}
           /\ p \in DOMAIN rows /\ rows[p].status = todo[p].from,
         ~forced /\ command = "retry-failed" => \A p \in DOMAIN todo :
           /\ todo[p].from \in {"FAILED", "IN_PROGRESS"}
           /\ todo[p].from = "FAILED" /\ todo[p].to = "READY" => p \in Original
  PROVE  LInv'
  <1> DEFINE c == [Idle EXCEPT !.command = command, !.todo = todo]
  <1>1. Continue(o, c, {}) /\ UNCHANGED rows
    BY DEF Starts
  <1>2. c.command = command /\ c.todo = todo /\ c.generated = {} /\ c.changed = {}
    BY DEF Idle
  <1> HIDE DEF c
  <1>3. Formed(c) /\ DeletesFit(c, rows)
    BY <1>2 DEF Formed, DeletesFit
  <1>4. ~forced => SettingsFit(c, rows)
    BY <1>2 DEF SettingsFit
  <1>5. ~forced => RetriesFit(c)
    BY <1>2 DEF RetriesFit
  <1> QED BY <1>1, <1>3, <1>4, <1>5, ListingFits DEF Fits

\* retry-failed, set-part-state and reset-compact-timer list rows by their status.
LEMMA ListSelectionFits ==
  ASSUME OInv, LInv, Restrained, NEW o \in Operator,
         \/ ListRetry(o) \/ ListForceRetry(o) \/ ListSetPartState(o) \/ ListResetCompactTimer(o)
  PROVE  LInv'
  <1>1. CASE ListRetry(o)
    <2> DEFINE to(r) == IF r.status = "FAILED" THEN FailedRetryTarget(r) ELSE "READY"
    <2>1. PICK S \in Selections(WithStatus({"FAILED"})) \cup
                     Selections(WithStatus({"FAILED", "IN_PROGRESS"})) :
            Starts(o, "retry-failed", [p \in S |-> [from |-> rows[p].status, to |-> to(rows[p])]])
      BY <1>1 DEF ListRetry
    <2>2. \A p \in S : p \in DOMAIN rows /\ rows[p].status \in {"FAILED", "IN_PROGRESS"}
      BY DEF Selections, WithStatus
    <2>3. ~forced => \A p \in S : rows[p].status = "FAILED" /\ to(rows[p]) = "READY" => p \in Original
      BY <2>2 DEF LInv, RowsRight, RowRight, FailedRetryTarget
    <2> HIDE DEF to
    <2> QED BY <2>1, <2>2, <2>3, StartsFits DEF Resets
  <1>2. CASE ListForceRetry(o)
    <2>1. PICK S : Starts(o, "retry-failed -force",
                     [p \in S |-> [from |-> rows[p].status, to |-> "READY"]])
      BY <1>2 DEF ListForceRetry
    <2> QED BY <2>1, StartsFits DEF Resets
  <1>3. CASE ListSetPartState(o)
    <2>1. PICK x \in Settings : \E S \in Selections(WithStatus({x[1]})) :
            Starts(o, "set-part-state", [p \in S |-> [from |-> x[1], to |-> x[2]]])
      BY <1>3 DEF ListSetPartState
    <2>2. PICK S \in Selections(WithStatus({x[1]})) :
            Starts(o, "set-part-state", [p \in S |-> [from |-> x[1], to |-> x[2]]])
      BY <2>1
    <2>3. \A p \in S : p \in DOMAIN rows /\ rows[p].status = x[1]
      BY DEF Selections, WithStatus
    <2>4. x[1] # "SUPERSEDED" /\ (x[2] = "READY" => x[1] \in {"READY", "IN_PROGRESS"})
      BY DEF Restrained
    <2> QED BY <2>2, <2>3, <2>4, StartsFits DEF Resets
  <1>4. CASE ListResetCompactTimer(o)
    BY <1>4, StartsFits DEF ListResetCompactTimer, Resets
  <1> QED BY <1>1, <1>2, <1>3, <1>4

\* IsGenerated, which looks at a row's inputs, tells the same as the row's id.
LEMMA OriginalsById ==
  ASSUME RowsRight
  PROVE  Originals(rows) = DOMAIN rows \cap Original /\ Generated(rows) = DOMAIN rows \ Original
  <1>1. \A p \in DOMAIN rows : IsGenerated(rows[p]) <=> p \notin Original
    BY DEF RowsRight, RowRight, IsGenerated
  <1> QED BY <1>1 DEF Originals, Generated

\* reset-job and reset-compaction list all originals, and all outputs for deletion.
LEMMA ListResetFits ==
  ASSUME OInv, LInv, NEW o \in Operator, NEW command \in Resets, ListReset(o, command)
  PROVE  LInv'
  <1> DEFINE todo == [p \in Originals(rows) |->
                        [to |-> IF command = "reset-job" THEN "READY" ELSE "COMPACT_READY"]]
  <1>1. PICK deleteS3 \in BOOLEAN :
          Continue(o, [command |-> command, generated |-> Generated(rows), todo |-> todo,
                       prefixes |-> IF deleteS3 THEN ResetPrefixes(command) ELSE {},
                       changed |-> {}], {})
    BY DEF ListReset
  <1>2. UNCHANGED rows
    BY DEF ListReset
  <1> DEFINE c == [command |-> command, generated |-> Generated(rows), todo |-> todo,
                   prefixes |-> IF deleteS3 THEN ResetPrefixes(command) ELSE {},
                   changed |-> {}]
  <1>3. /\ c.command = command /\ c.generated = Generated(rows)
        /\ DOMAIN c.todo = Originals(rows)
    OBVIOUS
  <1>4. Continue(o, c, {})
    BY <1>1
  <1> HIDE DEF c
  <1>5. command \notin {"delete-parts", "set-part-state", "retry-failed"}
    BY DEF Resets
  <1>6. ASSUME ~forced
        PROVE  Originals(rows) = DOMAIN rows \cap Original /\ Generated(rows) = DOMAIN rows \ Original
    BY <1>6, OriginalsById DEF LInv
  <1>7. ~forced => Fits(c, rows)
    BY <1>3, <1>5, <1>6 DEF Fits, Formed, SettingsFit, RetriesFit
  <1>8. ASSUME ~forced, Unraced PROVE DeletesFit(c, rows)
    <2>1. ASSUME NEW g \in DOMAIN rows \ Original PROVE g.inputs \subseteq DOMAIN rows
      <3>1. g = DeriveCompactPartID(rows[g].inputs, rows[g].generation)
        BY <1>8 DEF LInv, RowsRight, RowRight
      <3>2. rows[g].inputs \subseteq DOMAIN rows
        BY <1>8 DEF LInv, Lineages, Linked
      <3>3. g.inputs = rows[g].inputs
        BY <3>1 DEF DeriveCompactPartID
      <3> QED BY <3>2, <3>3
    <2> QED BY <1>3, <1>5, <1>6, <1>8, <2>1 DEF DeletesFit
  <1> QED BY <1>2, <1>4, <1>7, <1>8, ListingFits

\* delete-parts lists rows by status, never superseded ones, or every row of the job.
LEMMA ListDeletePartsFits ==
  ASSUME OInv, LInv, Restrained, NEW o \in Operator, ListDeleteParts(o)
  PROVE  LInv'
  <1>1. PICK S \in Selections(WithStatus(DeleteStatus)) \cup {DOMAIN rows} :
          Continue(o, [Idle EXCEPT !.command = "delete-parts", !.generated = S], {})
    BY DEF ListDeleteParts
  <1>2. UNCHANGED rows
    BY DEF ListDeleteParts
  <1> DEFINE c == [Idle EXCEPT !.command = "delete-parts", !.generated = S]
  <1>3. c.command = "delete-parts" /\ c.generated = S
    BY DEF Idle
  <1>4. Continue(o, c, {})
    BY <1>1
  <1> HIDE DEF c
  <1>5. S = DOMAIN rows \/ \A p \in S : Live(rows[p])
    <2>1. \A p \in WithStatus(DeleteStatus) : Live(rows[p])
      BY DEF WithStatus, Restrained, Live
    <2>2. S = DOMAIN rows \/ S \subseteq WithStatus(DeleteStatus)
      BY DEF Selections
    <2> QED BY <2>1, <2>2
  <1>6. DeletesFit(c, rows)
    BY <1>3, <1>5 DEF DeletesFit, Resets
  <1>7. Fits(c, rows)
    BY <1>3 DEF Fits, Formed, SettingsFit, RetriesFit, Resets
  <1> QED BY <1>2, <1>4, <1>6, <1>7, ListingFits

-----------------------------------------------------------------------------
(* Commands update.                                                        *)

\* A command that stops at an error.
LEMMA GivingUpFits ==
  ASSUME OInv, LInv, NEW o \in Operator, Continue(o, Idle, {}), UNCHANGED rows
  PROVE  LInv'
  BY IdleFits, ListingFits

\* A command that is done with one row fits with the rows it has left.
LEMMA OneLessFits ==
  ASSUME OInv, NEW o \in Operator, NEW p, Leaves({p}), Fits(op[o], rows)
  PROVE  LET c == [op[o] EXCEPT !.todo = Without(op[o].todo, p), !.changed = op[o].changed \ {p}]
         IN Fits(c, rows') /\ (Holds /\ DeletesFit(op[o], rows) => DeletesFit(c, rows'))
  <1> DEFINE c == [op[o] EXCEPT !.todo = Without(op[o].todo, p), !.changed = op[o].changed \ {p}]
  <1>1. /\ c.command = op[o].command /\ c.generated = op[o].generated
        /\ c.todo = Without(op[o].todo, p) /\ c.changed = op[o].changed \ {p}
    BY DEF OInv, CommandsGiven, Given, CommandType
  <1> HIDE DEF c
  <1>2. /\ DOMAIN c.todo = DOMAIN op[o].todo \ {p}
        /\ \A q \in DOMAIN c.todo : c.todo[q] = op[o].todo[q]
    BY <1>1 DEF Without
  <1>3. Formed(c)
    BY <1>1, <1>2 DEF Fits, Formed
  <1>4. SettingsFit(c, rows')
    BY <1>1, <1>2 DEF Fits, SettingsFit, Leaves
  <1>5. RetriesFit(c)
    BY <1>1, <1>2 DEF Fits, RetriesFit
  <1>6. Holds /\ DeletesFit(op[o], rows) => DeletesFit(c, rows')
    BY <1>1, <1>2, FewerDeletes
  <1> QED BY <1>3, <1>4, <1>5, <1>6 DEF Fits, c

\* An update of one row that keeps what rows hold.
LEMMA UpdateFits ==
  ASSUME OInv, LInv, ~forced, NEW o \in Operator, NEW p, NEW matches, NEW row,
         Update(o, p, matches, row),
         p \in DOMAIN rows /\ matches /\ rows' = [rows EXCEPT ![p] = row]
           => RowsRight' /\ (Unraced => Holds /\ Lineages')
  PROVE  LInv'
  <1> DEFINE c == [op[o] EXCEPT !.todo = Without(op[o].todo, p), !.changed = op[o].changed \ {p}]
  <1>1. \/ p \in DOMAIN rows /\ matches /\ rows' = [rows EXCEPT ![p] = row] /\ Continue(o, c, {p})
        \/ rows' = rows /\ Continue(o, Idle, {})
    BY DEF Update
  <1>2. CASE p \in DOMAIN rows /\ matches /\ rows' = [rows EXCEPT ![p] = row] /\ Continue(o, c, {p})
    <2>1. DOMAIN rows' = DOMAIN rows /\ \A q \in DOMAIN rows : rows'[q] = IF q = p THEN row ELSE rows[q]
      BY <1>2
    <2>2. Leaves({p})
      BY <2>1 DEF Leaves
    <2>3. Fits(c, rows') /\ (Holds /\ DeletesFit(op[o], rows) => DeletesFit(c, rows'))
      BY <2>2, OneLessFits DEF LInv
    <2> HIDE DEF c
    <2>4. RowsRight' /\ (Unraced => Holds /\ Lineages' /\ DeletesFit(c, rows'))
      BY <1>2, <2>3 DEF LInv
    <2> QED BY <1>2, <2>2, <2>3, <2>4, ContinueFits
  <1>3. CASE rows' = rows /\ Continue(o, Idle, {})
    BY <1>3, GivingUpFits
  <1> QED BY <1>1, <1>2, <1>3

\* retry-failed updates a row whose status is still the one it read.
LEMMA RetryPartFits ==
  ASSUME OInv, LInv, ~forced, NEW o \in Operator, NEW p, RetryPart(o, p)
  PROVE  LInv'
  <1> DEFINE x == op[o].todo[p]
             row == IF x.from = "FAILED" THEN RetriedRow(rows[p], x.to) ELSE UnclaimedRow(rows[p])
  <1>1. /\ op[o].command = "retry-failed" /\ p \in DOMAIN op[o].todo
        /\ Update(o, p, rows[p].status = x.from, row)
    BY DEF RetryPart
  <1>2. x.to \in Target
    BY <1>1, TargetOf
  <1>3. /\ x.from \in {"FAILED", "IN_PROGRESS"}
        /\ x.from = "FAILED" /\ x.to = "READY" => p \in Original
    BY <1>1 DEF LInv, Fits, RetriesFit
  <1>4. ASSUME p \in DOMAIN rows, rows[p].status = x.from
        PROVE  Advances(p, rows[p], row)
    <2>1. WellFormed(rows[p]) /\ RowRight(p, rows[p])
      BY <1>4 DEF OInv, RowsWellFormed, LInv, RowsRight
    <2>2. CASE x.from = "FAILED"
      BY <1>2, <1>3, <1>4, <2>1, <2>2, RetriedAdvances
    <2>3. CASE x.from # "FAILED"
      BY <1>3, <1>4, <2>1, <2>3, UnclaimedAdvances
    <2> QED BY <2>2, <2>3
  <1> HIDE DEF row
  <1>5. ASSUME p \in DOMAIN rows, rows[p].status = x.from, rows' = [rows EXCEPT ![p] = row]
        PROVE  RowsRight' /\ (Unraced => Holds /\ Lineages')
    <2>1. RowsAdvance
      BY <1>4, <1>5, OneRowAdvances DEF LInv
    <2> QED BY <2>1, AdvancingKeeps DEF LInv
  <1> QED BY <1>1, <1>5, UpdateFits

\* set-part-state updates a row nobody has written since it was listed.
LEMMA ForceSetPartStatusFits ==
  ASSUME OInv, LInv, ~forced, NEW o \in Operator, NEW p, ForceSetPartStatus(o, p)
  PROVE  LInv'
  <1> DEFINE x == op[o].todo[p]
             row == SetRow(rows[p], x.to)
  <1>1. /\ op[o].command = "set-part-state" /\ p \in DOMAIN op[o].todo
        /\ Update(o, p, p \notin op[o].changed, row)
    BY DEF ForceSetPartStatus
  <1>2. x.to \in Target
    BY <1>1, TargetOf
  <1>3. ASSUME p \in DOMAIN rows, p \notin op[o].changed
        PROVE  Advances(p, rows[p], row)
    <2>1. WellFormed(rows[p]) /\ RowRight(p, rows[p])
      BY <1>3 DEF OInv, RowsWellFormed, LInv, RowsRight
    <2>2. /\ Live(rows[p])
          /\ x.to = "READY" => rows[p].status \in {"READY", "IN_PROGRESS"}
      BY <1>1, <1>3 DEF LInv, Fits, SettingsFit, Live
    <2> QED BY <1>2, <2>1, <2>2, SetAdvances
  <1> HIDE DEF row
  <1>4. ASSUME p \in DOMAIN rows, p \notin op[o].changed, rows' = [rows EXCEPT ![p] = row]
        PROVE  RowsRight' /\ (Unraced => Holds /\ Lineages')
    <2>1. RowsAdvance
      BY <1>3, <1>4, OneRowAdvances DEF LInv
    <2> QED BY <2>1, AdvancingKeeps DEF LInv
  <1> QED BY <1>1, <1>4, UpdateFits

\* An original that no generated row holds any more holds itself when it is live again.
LEMMA ResetLineages ==
  ASSUME RowsRight, Lineages, NEW p \in DOMAIN rows \cap Original, NEW row,
         rows' = [rows EXCEPT ![p] = row], Live(row), row.inputs = {}, row.lineage = {p},
         \A g \in DOMAIN rows \ Original : p \notin rows[g].lineage
  PROVE  Lineages' /\ Holds
  <1>1. DOMAIN rows' = DOMAIN rows /\ \A q \in DOMAIN rows : rows'[q] = IF q = p THEN row ELSE rows[q]
    OBVIOUS
  <1>2. rows[p].lineage = {p}
    BY DEF RowsRight, RowRight
  <1>3. \A q \in DOMAIN rows : rows'[q].lineage = rows[q].lineage
    BY <1>1, <1>2
  <1>4. \A q \in DOMAIN rows : q # p => p \notin rows[q].lineage
    BY DEF RowsRight, RowRight
  <1>5. Linked'
    <2> SUFFICES ASSUME NEW x \in DOMAIN rows \ Original
                 PROVE  /\ \A q \in rows'[x].inputs :
                             /\ q \in DOMAIN rows' /\ rows'[q].supersededBy = {x}
                             /\ rows'[q].generation < rows'[x].generation
                        /\ rows'[x].lineage = UNION {rows'[q].lineage : q \in rows'[x].inputs}
      BY <1>1 DEF Linked
    <2>1. rows'[x] = rows[x]
      BY <1>1
    <2>2. /\ \A q \in rows[x].inputs : /\ q \in DOMAIN rows /\ rows[q].supersededBy = {x}
                                       /\ rows[q].generation < rows[x].generation
          /\ rows[x].lineage = UNION {rows[q].lineage : q \in rows[x].inputs}
      BY DEF Lineages, Linked
    <2>3. p \notin rows[x].inputs
      BY <1>2, <2>2
    <2>4. {rows'[q].lineage : q \in rows[x].inputs} = {rows[q].lineage : q \in rows[x].inputs}
      BY <1>3, <2>2
    <2>5. \A q \in rows[x].inputs : /\ q \in DOMAIN rows' /\ rows'[q].supersededBy = {x}
                                    /\ rows'[q].generation < rows[x].generation
      BY <1>1, <2>2, <2>3
    <2> QED BY <2>1, <2>2, <2>4, <2>5
  <1>6. NothingTwice'
    <2> SUFFICES ASSUME NEW x \in DOMAIN rows, NEW y \in DOMAIN rows, x # y,
                        Live(rows'[x]), Live(rows'[y])
                 PROVE  rows[x].lineage \cap rows[y].lineage = {}
      BY <1>1, <1>3 DEF NothingTwice
    <2>1. CASE x = p \/ y = p
      BY <1>2, <1>4, <2>1
    <2>2. CASE x # p /\ y # p
      BY <1>1, <2>2 DEF Lineages, Held, NothingTwice
    <2> QED BY <2>1, <2>2
  <1>7. ASSUME NEW o \in DOMAIN rows' \cap Original
        PROVE  \E q \in DOMAIN rows' : /\ o \in rows'[q].lineage
                                       /\ Live(rows'[q]) \/ rows'[q].supersededBy \cap DOMAIN rows' = {}
    <2>1. PICK q \in DOMAIN rows : /\ o \in rows[q].lineage
                                   /\ Live(rows[q]) \/ rows[q].supersededBy \cap DOMAIN rows = {}
      BY <1>1 DEF Lineages, Held
    <2> QED BY <1>1, <1>3, <2>1
  <1>8. Rooted'
    <2> SUFFICES ASSUME NEW x \in DOMAIN rows \ Original
                 PROVE  /\ \A o \in rows'[x].lineage : o \in DOMAIN rows' /\ ~Live(rows'[o])
                        /\ \E o \in rows'[x].lineage : rows'[o].job = rows'[x].job
      BY <1>1 DEF Rooted
    <2>1. rows'[x] = rows[x] /\ p \notin rows[x].lineage
      BY <1>1
    <2> QED BY <1>1, <2>1 DEF Lineages, Rooted
  <1>9. Holds
    BY <1>1, <1>3 DEF Holds
  <1> QED BY <1>5, <1>6, <1>7, <1>8, <1>9 DEF Lineages, Held

\* When originals are reset no generated row is left that holds them.
LEMMA ResetOriginalPartFits ==
  ASSUME OInv, LInv, ~forced, NEW o \in Operator, NEW p, ResetOriginalPart(o, p)
  PROVE  LInv'
  <1> DEFINE to == op[o].todo[p].to
             row == ResetRow(rows[p], to)
  <1>1. /\ op[o].command \in Resets /\ p \in DOMAIN op[o].todo /\ op[o].generated = {}
        /\ Update(o, p, p \notin op[o].changed, row)
    BY DEF ResetOriginalPart, Update
  <1>2. to \in Target
    BY <1>1, TargetOf DEF Resets
  <1>3. p \in Original
    BY <1>1 DEF LInv, Fits, Formed
  <1>4. ASSUME p \in DOMAIN rows
        PROVE  /\ RowRight(p, row) /\ Live(row) /\ row.inputs = {} /\ row.lineage = {p}
    <2> DEFINE sh == IF to = "READY" THEN EmptyShape ELSE rows[p].shape
               at == to = "COMPACT_READY"
    <2>1. rows[p] \in RowOf(rows[p].inputs, rows[p].supersededBy) /\ RowRight(p, rows[p])
      BY <1>4 DEF OInv, RowsWellFormed, WellFormed, LInv, RowsRight
    <2>2. row = [[rows[p] EXCEPT !.status = to, !.worker = NoWorker, !.leaseExpired = FALSE,
                                 !.finalizeRequested = FALSE, !.importingAt = FALSE,
                                 !.supersededBy = {}, !.shape = sh]
                   EXCEPT !.compactReadyAt = at]
      BY DEF ResetRow, ResetRowKeepingReady
    <2> HIDE DEF sh, at, row
    <2>3. /\ row.inputs = rows[p].inputs /\ row.generation = rows[p].generation
          /\ row.lineage = rows[p].lineage /\ row.supersededBy = {} /\ row.status = to
      BY <2>1, <2>2 DEF RowOf
    <2> QED BY <1>2, <1>3, <2>1, <2>3 DEF RowRight, Live, Target
  <1> HIDE DEF row
  <1>5. ASSUME p \in DOMAIN rows, p \notin op[o].changed, rows' = [rows EXCEPT ![p] = row]
        PROVE  RowsRight' /\ (Unraced => Holds /\ Lineages')
    <2>1. DOMAIN rows' = DOMAIN rows /\ \A q \in DOMAIN rows : rows'[q] = IF q = p THEN row ELSE rows[q]
      BY <1>5
    <2>2. RowsRight'
      BY <1>4, <1>5, <2>1 DEF LInv, RowsRight
    <2>3. ASSUME Unraced PROVE Holds /\ Lineages'
      <3>1. Lineages /\ DeletesFit(op[o], rows) /\ RowsRight
        BY <2>3 DEF LInv
      <3>2. \A g \in DOMAIN rows \ Original : p \notin rows[g].lineage
        BY <1>1, <1>5, <3>1 DEF DeletesFit
      <3> QED BY <1>3, <1>4, <1>5, <3>1, <3>2, ResetLineages
    <2> QED BY <2>2, <2>3
  <1> QED BY <1>1, <1>5, UpdateFits

\* Deleting all rows, live rows, or generated rows that nothing left is made of leaves
\* what was held.
LEMMA DeletedLineages ==
  ASSUME OInv, RowsRight, Lineages, NEW c, Formed(c), DeletesFit(c, rows), c.generated # {},
         rows' = [p \in DOMAIN rows \ c.generated |-> rows[p]]
  PROVE  Lineages'
  <1> DEFINE G == c.generated
  <1>1. DOMAIN rows' = DOMAIN rows \ G /\ \A p \in DOMAIN rows' : rows'[p] = rows[p]
    OBVIOUS
  <1>2. RowsRight'
    BY <1>1 DEF RowsRight
  <1>3. CASE DOMAIN rows \subseteq G
    BY <1>1, <1>2, <1>3, OriginalsHoldNext DEF OnlyOriginals
  <1>4. CASE ~(DOMAIN rows \subseteq G)
    <2>1. \/ \A p \in G \cap DOMAIN rows : Live(rows[p])
          \/ /\ G \cap Original = {}
             /\ \A x \in (DOMAIN rows \ Original) \ G : \A g \in G \cap DOMAIN rows :
                  rows[x].lineage \cap rows[g].lineage = {}
      BY <1>4 DEF Formed, DeletesFit, Resets
    <2> HIDE DEF G
    <2>2. \A p \in DOMAIN rows \ Original :
            /\ rows[p].lineage = UNION {rows[q].lineage : q \in rows[p].inputs}
            /\ \A q \in rows[p].inputs : /\ q \in DOMAIN rows /\ rows[q].supersededBy = {p}
                                         /\ rows[q].generation < rows[p].generation
      BY DEF Lineages, Linked
    <2>3. \A p \in DOMAIN rows : rows[p].lineage # {}
      BY DEF RowsRight, RowRight, Lineages, Rooted
    <2>4. ASSUME NEW p \in DOMAIN rows' \ Original, NEW q \in rows[p].inputs
          PROVE  q \in DOMAIN rows'
      <3>1. q \in DOMAIN rows /\ ~Live(rows[q])
        BY <1>1, <2>2 DEF RowsRight, RowRight, Live
      <3>2. rows[q].lineage \subseteq rows[p].lineage /\ rows[q].lineage # {}
        BY <1>1, <2>2, <2>3, <3>1
      <3> QED BY <1>1, <2>1, <3>1, <3>2
    <2>5. Linked'
      <3> SUFFICES ASSUME NEW p \in DOMAIN rows' \ Original
                   PROVE  /\ \A q \in rows'[p].inputs :
                               /\ q \in DOMAIN rows' /\ rows'[q].supersededBy = {p}
                               /\ rows'[q].generation < rows'[p].generation
                          /\ rows'[p].lineage = UNION {rows'[q].lineage : q \in rows'[p].inputs}
        BY DEF Linked
      <3>1. p \in DOMAIN rows \ Original /\ rows'[p] = rows[p]
        BY <1>1
      <3>2. {rows'[q].lineage : q \in rows[p].inputs} = {rows[q].lineage : q \in rows[p].inputs}
        BY <1>1, <2>4
      <3> QED BY <1>1, <2>2, <2>4, <3>1, <3>2
    <2>6. NothingTwice'
      BY <1>1 DEF Lineages, Held, NothingTwice
    <2>7. ASSUME NEW x \in DOMAIN rows' \cap Original
          PROVE  \E p \in DOMAIN rows' :
                   /\ x \in rows'[p].lineage
                   /\ Live(rows'[p]) \/ rows'[p].supersededBy \cap DOMAIN rows' = {}
      <3>1. PICK p \in DOMAIN rows :
              /\ x \in rows[p].lineage
              /\ Live(rows[p]) \/ rows[p].supersededBy \cap DOMAIN rows = {}
        BY <1>1 DEF Lineages, Held
      <3>2. CASE p \in DOMAIN rows'
        BY <1>1, <3>1, <3>2
      <3>3. CASE p \notin DOMAIN rows'
        <4>1. p \in G \ Original
          BY <1>1, <3>1, <3>3 DEF RowsRight, RowRight
        <4>2. CASE \A g \in G \cap DOMAIN rows : Live(rows[g])
          <5>1. PICK q \in rows[p].inputs : x \in rows[q].lineage
            BY <2>2, <3>1, <4>1
          <5>2. q \in DOMAIN rows /\ rows[q].supersededBy = {p} /\ ~Live(rows[q])
            BY <2>2, <4>1 DEF RowsRight, RowRight, Live
          <5>3. q \in DOMAIN rows' /\ rows'[q] = rows[q]
            BY <1>1, <4>2, <5>2
          <5> QED BY <3>3, <5>1, <5>2, <5>3
        <4>3. CASE \A y \in (DOMAIN rows \ Original) \ G : \A g \in G \cap DOMAIN rows :
                     rows[y].lineage \cap rows[g].lineage = {}
          <5>1. x \in rows[x].lineage /\ rows'[x] = rows[x]
            BY <1>1 DEF RowsRight, RowRight
          <5>2. ASSUME NEW y \in rows[x].supersededBy, y \in DOMAIN rows' PROVE FALSE
            <6>1. y \in (DOMAIN rows \ Original) \ G /\ x \in y.inputs
              BY <1>1, <5>2 DEF RowsRight, RowRight
            <6>2. y = DeriveCompactPartID(rows[y].inputs, rows[y].generation)
              BY <6>1 DEF RowsRight, RowRight
            <6>3. y.inputs = rows[y].inputs
              BY <6>2 DEF DeriveCompactPartID
            <6>4. x \in rows[y].lineage
              BY <2>2, <5>1, <6>1, <6>3
            <6> QED BY <3>1, <4>1, <4>3, <6>1, <6>4
          <5> QED BY <5>1, <5>2
        <4> QED BY <2>1, <4>2, <4>3
      <3> QED BY <3>2, <3>3
    <2>8. Rooted'
      <3> SUFFICES ASSUME NEW x \in DOMAIN rows' \ Original
                   PROVE  /\ \A o \in rows'[x].lineage : o \in DOMAIN rows' /\ ~Live(rows'[o])
                          /\ \E o \in rows'[x].lineage : rows'[o].job = rows'[x].job
        BY DEF Rooted
      <3>1. x \in DOMAIN rows \ Original /\ rows'[x] = rows[x]
        BY <1>1
      <3>2. /\ \A o \in rows[x].lineage : o \in DOMAIN rows /\ ~Live(rows[o])
            /\ \E o \in rows[x].lineage : rows[o].job = rows[x].job
        BY <3>1 DEF Lineages, Rooted
      <3>3. \A o \in rows[x].lineage : o \in Original
        BY <3>1 DEF OInv, RowsWellFormed, WellFormed, RowOf
      <3>4. \A o \in rows[x].lineage : o \in DOMAIN rows' /\ rows'[o] = rows[o]
        BY <1>1, <2>1, <3>2, <3>3
      <3> QED BY <3>1, <3>2, <3>4
    <2> QED BY <1>2, <2>5, <2>6, <2>7, <2>8 DEF Lineages, Held
  <1> QED BY <1>3, <1>4

\* DeleteJobParts deletes all the outputs (a reset) or the rows delete-parts listed.
LEMMA DeleteJobPartsFits ==
  ASSUME OInv, LInv, ~forced, NEW o \in Operator, DeleteJobParts(o)
  PROVE  LInv'
  <1> DEFINE c == [op[o] EXCEPT !.generated = {}]
  <1>1. /\ op[o].generated # {}
        /\ \/ /\ rows' = [p \in DOMAIN rows \ op[o].generated |-> rows[p]]
              /\ Continue(o, c, op[o].generated)
           \/ rows' = rows /\ Continue(o, Idle, {})
    BY DEF DeleteJobParts
  <1>2. CASE /\ rows' = [p \in DOMAIN rows \ op[o].generated |-> rows[p]]
             /\ Continue(o, c, op[o].generated)
    <2>1. /\ DOMAIN rows' = DOMAIN rows \ op[o].generated
          /\ \A p \in DOMAIN rows' : rows'[p] = rows[p]
      BY <1>2
    <2>2. Leaves(op[o].generated) /\ Holds
      BY <2>1 DEF Leaves, Holds
    <2>3. RowsRight'
      BY <2>1 DEF LInv, RowsRight
    <2>4. /\ c.command = op[o].command /\ c.generated = {} /\ c.todo = op[o].todo
          /\ c.changed = op[o].changed
      BY DEF OInv, CommandsGiven, Given, CommandType
    <2> HIDE DEF c
    <2>5. Formed(op[o]) /\ op[o].command \in Resets \cup {"delete-parts"}
      BY <1>1 DEF LInv, Fits, Formed
    <2>6. Fits(c, rows')
      BY <2>4, <2>5 DEF Fits, Formed, SettingsFit, RetriesFit, Resets
    <2>7. ASSUME Unraced PROVE Lineages' /\ DeletesFit(c, rows')
      <3>1. RowsRight /\ Lineages /\ DeletesFit(op[o], rows)
        BY <2>7 DEF LInv
      <3>2. Lineages'
        BY <1>1, <1>2, <2>5, <3>1, DeletedLineages
      <3>3. DeletesFit(c, rows')
        BY <2>1, <2>2, <2>4, <3>1, FewerDeletes
      <3> QED BY <3>2, <3>3
    <2> QED BY <1>2, <2>2, <2>3, <2>6, <2>7, ContinueFits
  <1>3. CASE rows' = rows /\ Continue(o, Idle, {})
    BY <1>3, GivingUpFits
  <1> QED BY <1>1, <1>2, <1>3

\* Deleting objects in S3 leaves the rows alone.
LEMMA DeleteResetPrefixFits ==
  ASSUME OInv, LInv, ~forced, NEW o \in Operator, NEW p, DeleteResetPrefix(o, p)
  PROVE  LInv'
  <1> DEFINE c == [op[o] EXCEPT !.prefixes = op[o].prefixes \ {p}]
  <1>1. rows' = rows /\ Continue(o, c, {})
    BY DEF DeleteResetPrefix
  <1>2. /\ c.command = op[o].command /\ c.generated = op[o].generated /\ c.todo = op[o].todo
        /\ c.changed = op[o].changed
    BY DEF OInv, CommandsGiven, Given, CommandType
  <1> HIDE DEF c
  <1>3. Fits(op[o], rows) => Fits(c, rows)
    BY <1>2 DEF Fits, Formed, SettingsFit, RetriesFit
  <1>4. DeletesFit(op[o], rows) => DeletesFit(c, rows)
    BY <1>2 DEF DeletesFit
  <1> QED BY <1>1, <1>3, <1>4, ListingFits DEF LInv

\* What a command that overrides the state of rows does is not looked at.
LEMMA OverridesFit ==
  ASSUME OInv, LInv, NEW o \in Operator, NEW p, ForceRetryPart(o, p) \/ ResetCompactTimer(o, p)
  PROVE  LInv'
  <1> DEFINE c == [op[o] EXCEPT !.todo = Without(op[o].todo, p), !.changed = op[o].changed \ {p}]
  <1>1. op[o].command \in Overrides
    BY DEF ForceRetryPart, ResetCompactTimer, Overrides
  <1>2. c.command = op[o].command
    BY DEF OInv, CommandsGiven, Given, CommandType
  <1>3. (\E T : Continue(o, c, T)) \/ (rows' = rows /\ Continue(o, Idle, {}))
    BY DEF ForceRetryPart, ResetCompactTimer, Update
  <1> HIDE DEF c
  <1>4. CASE \E T : Continue(o, c, T)
    BY <1>1, <1>2, <1>4 DEF Continue, LInv
  <1>5. CASE rows' = rows /\ Continue(o, Idle, {})
    BY <1>5, GivingUpFits
  <1> QED BY <1>3, <1>4, <1>5

-----------------------------------------------------------------------------
\* A planned job: originals that hold themselves.
LEMMA LInvInit == Init => LInv
  <1> SUFFICES ASSUME Init PROVE LInv
    OBVIOUS
  <1>1. PICK S \in SUBSET Original : rows = [o \in S |-> NewPart(o)]
    BY DEF Init
  <1>2. \A o \in S : RowRight(o, NewPart(o))
    BY DEF RowRight, NewPart
  <1>3. RowsRight /\ OnlyOriginals
    BY <1>1, <1>2 DEF RowsRight, OnlyOriginals
  <1>4. op = [o \in Operator |-> Idle]
    BY DEF Init
  <1> QED BY <1>3, <1>4, OriginalsHold, IdleFits DEF LInv

\* Once rows have been forced nothing is claimed any more.
LEMMA ForcedStays ==
  ASSUME forced, [Next]_vars
  PROVE  forced'
  <1>1. \A o \in Operator : \A c, T : Continue(o, c, T) => forced'
    BY DEF Continue
  <1>2. \A T, done : Written(T, done) => forced'
    BY DEF Written
  <1>3. CASE UNCHANGED vars
    BY <1>3 DEF vars
  <1>4. CASE PipelineStep \/ Time
    BY <1>2, <1>4 DEF PipelineStep, Time
  <1>5. ASSUME NEW w \in Worker, NEW p \in DOMAIN rows, RewriteDone(w, p) PROVE forced'
    BY <1>2, <1>5 DEF RewriteDone
  <1>6. ASSUME NEW w \in Worker, NEW B \in SUBSET DOMAIN rows, CompactionDone(w, B) PROVE forced'
    BY <1>2, <1>6 DEF CompactionDone
  <1>7. ASSUME NEW p \in DOMAIN rows, Progress(p) PROVE forced'
    BY <1>2, <1>7 DEF Progress
  <1>8. ASSUME NEW o \in Operator, List(o) PROVE forced'
    BY <1>1, <1>8 DEF List, ListRetry, ListForceRetry, ListSetPartState, ListResetCompactTimer,
                      ListDeleteParts, ListReset, Starts
  <1>9. ASSUME NEW o \in Operator, Updates(o) PROVE forced'
    BY <1>1, <1>9 DEF Updates, RetryPart, ForceRetryPart, ForceSetPartStatus, ResetCompactTimer,
                      ResetOriginalPart, DeleteJobParts, DeleteResetPrefix, Update
  <1>10. ASSUME NEW o \in Operator, Interrupted(o) PROVE forced'
    BY <1>1, <1>10 DEF Interrupted
  <1> QED BY <1>3, <1>4, <1>5, <1>6, <1>7, <1>8, <1>9, <1>10 DEF Next

\* Every step keeps the invariant.
LEMMA LInvNext ==
  ASSUME Restrained, OInv, LInv, [Next]_vars
  PROVE  LInv'
  <1>1. CASE forced
    BY <1>1, ForcedStays DEF LInv
  <1>2. CASE ~forced
    <2> USE <1>2
    <2>1. CASE UNCHANGED vars
      <3>1. UNCHANGED <<rows, op, forced, raced>>
        BY <2>1 DEF vars
      <3>2. (RowsRight => RowsRight') /\ (Lineages => Lineages')
        BY <3>1 DEF Lineages, RowsRight, Linked, Held, NothingTwice, Rooted
      <3> QED BY <3>1, <3>2 DEF LInv, Unraced
    <2>2. ASSUME NEW o \in Operator, List(o) PROVE LInv'
      BY <2>2, ListSelectionFits, ListResetFits, ListDeletePartsFits DEF List
    <2>3. ASSUME NEW o \in Operator, Updates(o) PROVE LInv'
      BY <2>3, RetryPartFits, ForceSetPartStatusFits, OverridesFit, ResetOriginalPartFits,
         DeleteJobPartsFits, DeleteResetPrefixFits DEF Updates
    <2>4. ASSUME NEW o \in Operator, Interrupted(o) PROVE LInv'
      BY <2>4, GivingUpFits DEF Interrupted
    <2> QED BY <2>1, <2>2, <2>3, <2>4, PipelineKeepsLineages, RewriteDoneKeepsLineages,
               CompactionDoneKeepsLineages, ProgressKeepsLineages, TimeKeepsLineages DEF Next
  <1> QED BY <1>1, <1>2

\* Rows know their generation, so no row is made of itself.
LEMMA NoCycle ==
  ASSUME RowsWellFormed, Lineages, NEW S \in SUBSET (DOMAIN rows \ Original), S # {}
  PROVE  \E g \in S : rows[g].inputs \cap S = {}
  <1> DEFINE N == {rows[g].generation : g \in S}
  <1>1. \A g \in S : rows[g].generation \in Nat
    BY DEF RowsWellFormed, WellFormed, RowOf
  <1>2. N \subseteq Nat /\ N # {}
    BY <1>1
  <1>3. PICK n \in N : \A m \in N : ~(<<m, n>> \in OpToRel(<, Nat))
    BY <1>2, NatLessThanWellFounded, WFMin
  <1>4. \A m \in N : ~(m < n)
    BY <1>2, <1>3 DEF OpToRel
  <1>5. PICK g \in S : rows[g].generation = n
    OBVIOUS
  <1>6. \A q \in rows[g].inputs : rows[q].generation < n
    BY <1>5 DEF Lineages, Linked
  <1> QED BY <1>4, <1>5, <1>6

\* The invariant is enough.
LEMMA LInvImplies == OInv /\ LInv => HeldOnce /\ ResetStaysPossible
  <1> SUFFICES ASSUME OInv, LInv, ~forced, Unraced
               PROVE  HeldOnce /\ ResetStaysPossible
    BY DEF HeldOnce, ResetStaysPossible, Unraced
  <1>1. Lineages /\ RowsRight
    BY DEF LInv
  <1>2. Originals(rows) = DOMAIN rows \cap Original /\ Generated(rows) = DOMAIN rows \ Original
    BY <1>1, OriginalsById
  <1>3. HeldOnce
    BY <1>1, <1>2 DEF HeldOnce, Lineages, Held
  <1>4. ASSUME NEW g \in Generated(rows), NEW p \in rows[g].inputs
        PROVE  p \in DOMAIN rows /\ p # g /\ rows[p].supersededBy \subseteq {g}
    <2>1. p \in DOMAIN rows /\ rows[p].supersededBy = {g} /\ rows[p].generation < rows[g].generation
      BY <1>1, <1>2 DEF Lineages, Linked
    <2>2. rows[p].generation \in Nat
      BY <2>1 DEF OInv, RowsWellFormed, WellFormed, RowOf
    <2> QED BY <2>1, <2>2
  <1>5. ASSUME NEW p \in DOMAIN rows, NEW g \in rows[p].supersededBy \cap DOMAIN rows
        PROVE  IsGenerated(rows[g]) /\ p \in rows[g].inputs
    <2>1. g \notin Original /\ p \in g.inputs
      BY <1>1 DEF RowsRight, RowRight
    <2>2. g = DeriveCompactPartID(rows[g].inputs, rows[g].generation) /\ rows[g].inputs # {}
      BY <1>1, <2>1 DEF RowsRight, RowRight
    <2>3. g.inputs = rows[g].inputs
      BY <2>2 DEF DeriveCompactPartID
    <2> QED BY <2>1, <2>2, <2>3 DEF IsGenerated
  <1>6. ~\E S \in (SUBSET Generated(rows)) \ {{}} : \A g \in S : rows[g].inputs \cap S # {}
    BY <1>1, <1>2, NoCycle DEF OInv
  <1>7. ResetStaysPossible
    BY <1>4, <1>5, <1>6 DEF ResetStaysPossible, LineageValid
  <1> QED BY <1>3, <1>7

\* However operators' lists, retries, resets and deletions interleave with the workers'
\* claims and completions and with imports, no two live rows hold the same source part
\* and no source part of a job is held by none: it would be imported twice, or lost. This
\* holds until a completion replaces rows that a reset or delete-parts has listed and not
\* deleted yet, or a row is forced; with the uses of Restrained.
THEOREM SourcesHeldOnce ==
  ASSUME Restrained
  PROVE  Spec => []HeldOnce
  <1>1. OInv /\ LInv /\ [Next]_vars => OInv' /\ LInv'
    BY OInvNext, LInvNext
  <1> QED BY <1>1, OInvInit, LInvInit, LInvImplies, PTL DEF Spec

\* Beside running workers too validateResetLineage never refuses a job: every output's
\* inputs are there and superseded by it, whatever superseded a row names it as an input,
\* and no output is made of itself, by any chain of compactions. The exceptions are those
\* of SourcesHeldOnce.
THEOREM ResetsStayPossible ==
  ASSUME Restrained
  PROVE  Spec => []ResetStaysPossible
  <1>1. OInv /\ LInv /\ [Next]_vars => OInv' /\ LInv'
    BY OInvNext, LInvNext
  <1> QED BY <1>1, OInvInit, LInvInit, LInvImplies, PTL DEF Spec

-----------------------------------------------------------------------------
(* Stages: what the timestamps of a row say about how far it has come.      *)

\* The stages before an artifact is uploaded.
Rewriting == {"READY", "IN_PROGRESS"}

\* One operator at a time, beside workers and importers: two could retry the same row,
\* the second with a target chosen when it had failed elsewhere. Rewritten parts are not
\* copied into the job, failed rows are left to retry-failed, and a row that is not
\* rewritten yet is only set to READY.
Sequential ==
  /\ Restrained /\ Copied = {}
  /\ \A x, y \in Operator : x = y
  /\ \A x \in Settings : x[1] # "FAILED" /\ (x[1] \in Rewriting => x[2] = "READY")

\* Where a row is, or was when it failed.
Stage(p) == IF rows[p].status = "FAILED" THEN failedIn[p] ELSE rows[p].status

\* What the timestamps of row r in phase ph are.
Timed(r, ph) ==
  /\ ph \in Rewriting => ~r.compactReadyAt /\ ~r.importingAt
  /\ ph \in {"COMPACT_READY", "COMPACTING", "SUPERSEDED"} => r.compactReadyAt /\ ~r.importingAt
  /\ ph = "FINISHED" => ~r.importingAt
  /\ ph = "IMPORTING" => r.importingAt

\* Timestamps tell the stage, and whatever is beyond the rewrite has been rewritten; so
\* has what reset-compaction takes for rewritten.
Staged ==
  \A p \in DOMAIN rows :
    /\ Timed(rows[p], Stage(p))
    /\ Stage(p) \notin Rewriting => p \in rewritten
    /\ p \in described => Stage(p) \notin Rewriting

\* What a command of the only operator has listed.
Listed(c, R, D) ==
  /\ c.command = "retry-failed" => \A p \in DOMAIN c.todo :
       c.todo[p].from = "FAILED" =>
         /\ p \in DOMAIN R /\ R[p].status = "FAILED"
         /\ c.todo[p].to = FailedRetryTarget(R[p])
  /\ c.command = "set-part-state" => \A p \in DOMAIN c.todo :
       c.todo[p].from # "FAILED" /\ (c.todo[p].from \in Rewriting => c.todo[p].to = "READY")
  /\ c.command = "reset-job" => \A p \in DOMAIN c.todo : c.todo[p].to = "READY"
  /\ c.command = "reset-compaction" => \A p \in DOMAIN c.todo :
       c.todo[p].to = "COMPACT_READY" /\ p \in D

\* The inductive invariant, beside OInv and LInv.
SInv == ~forced => Staged /\ \A o \in Operator : Listed(op[o], rows, described)

-----------------------------------------------------------------------------
(* Rows move between stages.                                               *)

\* The stage of a row that becomes s: a row that fails remembers where it was.
StageAfter(ph, s) == IF s.status = "FAILED" THEN ph ELSE s.status

\* Row s in the place of row r of stage ph: it is rewritten as much as r was.
MovesTo(r, ph, s) ==
  /\ Timed(s, StageAfter(ph, s))
  /\ StageAfter(ph, s) \in Rewriting <=> ph \in Rewriting

\* A failed row waits for an operator.
FailedStays(r, s) ==
  r.status = "FAILED" => s.status = "FAILED" /\ FailedRetryTarget(s) = FailedRetryTarget(r)

\* Row s in the place of r when no operator retries it.
Moves(r, ph, s) == MovesTo(r, ph, s) /\ FailedStays(r, s)

\* Row r is in stage ph.
InStage(r, ph) ==
  /\ WellFormed(r) /\ Timed(r, ph)
  /\ r.status # "FAILED" => ph = r.status

\* The step makes and deletes no row, and moves each in its place.
StagesMove ==
  /\ DOMAIN rows' = DOMAIN rows
  /\ \A p \in DOMAIN rows : Moves(rows[p], Stage(p), rows'[p])

\* Every row is in its stage.
LEMMA RowsInStage ==
  ASSUME OInv, Staged, NEW p \in DOMAIN rows
  PROVE  InStage(rows[p], Stage(p))
  BY DEF OInv, RowsWellFormed, Staged, Stage, InStage

\* A row that a statement does not match.
LEMMA ItselfMoves ==
  ASSUME NEW r, NEW ph, InStage(r, ph)
  PROVE  Moves(r, ph, r)
  BY DEF InStage, Moves, MovesTo, FailedStays, StageAfter

\* ClaimNextReady.
LEMMA ClaimedMoves ==
  ASSUME NEW r, NEW ph, InStage(r, ph), NEW w, r.status = "READY"
  PROVE  Moves(r, ph, ClaimedRow(r, w))
  BY DEF InStage, WellFormed, RowOf, Moves, MovesTo, FailedStays, StageAfter, Timed, Rewriting, ClaimedRow

\* ReleaseInProgress and retry-failed.
LEMMA UnclaimedMoves ==
  ASSUME NEW r, NEW ph, InStage(r, ph), r.status = "IN_PROGRESS"
  PROVE  Moves(r, ph, UnclaimedRow(r))
  BY DEF InStage, WellFormed, RowOf, Moves, MovesTo, FailedStays, StageAfter, Timed, Rewriting, UnclaimedRow

\* MarkFailed, MarkCompactFailed and MarkImportFailed: the timestamps stay.
LEMMA FailedMoves ==
  ASSUME NEW r, NEW ph, InStage(r, ph), r.status # "FAILED", NEW s, s.status = "FAILED",
         s.compactReadyAt = r.compactReadyAt, s.importingAt = r.importingAt
  PROVE  Moves(r, ph, s)
  BY DEF InStage, Moves, MovesTo, FailedStays, StageAfter, Timed

\* ClaimCompactBatch.
LEMMA CompactClaimedMoves ==
  ASSUME NEW r, NEW ph, InStage(r, ph), NEW w, r.status = "COMPACT_READY"
  PROVE  Moves(r, ph, CompactClaimedRow(r, w))
  BY DEF InStage, WellFormed, RowOf, Moves, MovesTo, FailedStays, StageAfter, Timed, Rewriting, CompactClaimedRow

\* ReleaseCompacting, by the worker or by maintenance.
LEMMA CompactReleasedMoves ==
  ASSUME NEW r, NEW ph, InStage(r, ph), NEW f \in BOOLEAN, r.status \in {"COMPACTING", "COMPACT_READY"}
  PROVE  Moves(r, ph, CompactReleasedRow(r, f))
  <1> DEFINE st == IF f \/ r.finalizeRequested THEN "FINISHED" ELSE "COMPACT_READY"
             s == CompactReleasedRow(r, f)
  <1>1. st \in {"FINISHED", "COMPACT_READY"}
    OBVIOUS
  <1>2. s = [r EXCEPT !.status = st, !.compactReadyAt = TRUE, !.worker = NoWorker,
                      !.leaseExpired = FALSE, !.finalizeRequested = FALSE]
    BY DEF CompactReleasedRow
  <1> HIDE DEF st, s
  <1>3. s.status = st /\ s.compactReadyAt = TRUE /\ s.importingAt = r.importingAt
    BY <1>2 DEF InStage, WellFormed, RowOf
  <1>4. Moves(r, ph, s)
    BY <1>1, <1>3 DEF InStage, Moves, MovesTo, FailedStays, StageAfter, Timed, Rewriting
  <1> QED BY <1>4 DEF s

\* Finalization, or the end of an import.
LEMMA ClosedMoves ==
  ASSUME NEW r, NEW ph, InStage(r, ph), NEW st,
         \/ r.status = "COMPACT_READY" /\ st = "FINISHED"
         \/ r.status = "IMPORTING" /\ st = "IMPORTED"
  PROVE  Moves(r, ph, [r EXCEPT !.status = st])
  BY DEF InStage, WellFormed, RowOf, Moves, MovesTo, FailedStays, StageAfter, Timed, Rewriting

\* MarkImporting.
LEMMA ImportingMoves ==
  ASSUME NEW r, NEW ph, InStage(r, ph), r.status = "FINISHED"
  PROVE  Moves(r, ph, [r EXCEPT !.status = "IMPORTING", !.importingAt = TRUE])
  BY DEF InStage, WellFormed, RowOf, Moves, MovesTo, FailedStays, StageAfter, Timed, Rewriting

\* An UPDATE of one row.
LEMMA OneRowChangesStage ==
  ASSUME OInv, Staged, NEW p \in DOMAIN rows, NEW r, Moves(rows[p], Stage(p), r),
         rows' = [rows EXCEPT ![p] = r]
  PROVE  StagesMove
  <1>1. DOMAIN rows' = DOMAIN rows /\ \A q \in DOMAIN rows : rows'[q] = IF q = p THEN r ELSE rows[q]
    OBVIOUS
  <1>2. \A q \in DOMAIN rows : InStage(rows[q], Stage(q))
    BY RowsInStage
  <1>3. \A q \in DOMAIN rows : Moves(rows[q], Stage(q), rows'[q])
    BY <1>1, <1>2, ItselfMoves
  <1> QED BY <1>1, <1>3 DEF StagesMove

\* Finalization, after the release of stale leases.
LEMMA MaintainChangesStage ==
  ASSUME OInv, Staged, NEW S \in SUBSET Stale, NEW m, MaintainCompaction(S, m)
  PROVE  StagesMove
  <1> DEFINE R == ReleasedStale(rows, S)
             F == UNION {Finalizable(R, j, m[j]) : j \in Job}
  <1>1. /\ DOMAIN R = DOMAIN rows
        /\ \A p \in DOMAIN rows : R[p] = IF p \in S THEN CompactReleasedRow(rows[p], FALSE)
                                         ELSE rows[p]
    BY DEF ReleasedStale, Apply
  <1>2. ASSUME NEW p \in DOMAIN rows
        PROVE  Moves(rows[p], Stage(p), R[p]) /\ WellFormed(R[p])
    <2>1. p \in S => rows[p].status = "COMPACTING"
      BY DEF Stale
    <2>2. Moves(rows[p], Stage(p), R[p])
      BY <1>1, <2>1, RowsInStage, CompactReleasedMoves, ItselfMoves
    <2>3. Succeeds(rows[p], R[p])
      BY <1>1, CompactReleasedSucceeds, Itself DEF OInv, RowsWellFormed
    <2> QED BY <2>2, <2>3 DEF Succeeds
  <1> HIDE DEF R
  <1>3. \A p \in F : p \in DOMAIN R /\ R[p].status = "COMPACT_READY"
    BY DEF Finalizable
  <1>4. rows' = Finalized(R, F)
    BY DEF MaintainCompaction, R
  <1> HIDE DEF F
  <1>5. /\ DOMAIN rows' = DOMAIN R
        /\ \A p \in DOMAIN R : rows'[p] = IF p \in F THEN [R[p] EXCEPT !.status = "FINISHED"]
                                          ELSE R[p]
    BY <1>4 DEF Finalized, Apply
  <1>6. ASSUME NEW p \in F
        PROVE  Moves(rows[p], Stage(p), rows'[p])
    <2>1. /\ p \in DOMAIN rows /\ Moves(rows[p], Stage(p), R[p]) /\ WellFormed(R[p])
          /\ rows'[p] = [R[p] EXCEPT !.status = "FINISHED"] /\ R[p].status = "COMPACT_READY"
      BY <1>1, <1>2, <1>3, <1>5
    <2>2. /\ rows'[p].status = "FINISHED" /\ rows'[p].importingAt = R[p].importingAt
      BY <2>1 DEF WellFormed, RowOf
    <2> QED BY <2>1, <2>2 DEF Moves, MovesTo, FailedStays, StageAfter, Timed, Rewriting
  <1> QED BY <1>1, <1>2, <1>5, <1>6 DEF StagesMove

\* Each statement of the workers and of the importer moves the rows it matches, none
\* of which has failed.
LEMMA PipelineChangesStage ==
  ASSUME OInv, Staged, PipelineStep
  PROVE  StagesMove
  <1> USE RowsInStage
  <1>1. ASSUME NEW w \in Worker, NEW p \in DOMAIN rows, ClaimNextReady(w, p)
        PROVE  StagesMove
    BY <1>1, ClaimedMoves, OneRowChangesStage DEF ClaimNextReady
  <1>2. ASSUME NEW w \in Worker, NEW p \in DOMAIN rows, MarkFailed(w, p)
        PROVE  StagesMove
    <2> DEFINE s == [rows[p] EXCEPT !.status = "FAILED", !.worker = NoWorker]
    <2>1. rows' = [rows EXCEPT ![p] = s] /\ rows[p].status = "IN_PROGRESS"
      BY <1>2 DEF MarkFailed, InProgressOwned
    <2>2. /\ s.status = "FAILED" /\ s.compactReadyAt = rows[p].compactReadyAt
          /\ s.importingAt = rows[p].importingAt
      BY DEF InStage, WellFormed, RowOf
    <2> HIDE DEF s
    <2> QED BY <2>1, <2>2, FailedMoves, OneRowChangesStage
  <1>3. ASSUME NEW w \in Worker, NEW p \in DOMAIN rows, ReleaseInProgress(w, p)
        PROVE  StagesMove
    BY <1>3, UnclaimedMoves, OneRowChangesStage DEF ReleaseInProgress, InProgressOwned
  <1>4. ASSUME NEW w \in Worker, NEW B \in CompactBatches({}), ClaimNextCompactBatch(w, B, {})
        PROVE  StagesMove
    BY <1>4, BatchIsReady, CompactClaimedMoves, ItselfMoves
    DEF ClaimNextCompactBatch, Apply, StagesMove
  <1>5. ASSUME NEW w \in Worker, NEW B \in SUBSET DOMAIN rows, ReleaseCompactBatch(w, B, FALSE)
        PROVE  StagesMove
    <2>1. \A p \in B : rows[p].status \in {"COMPACTING", "COMPACT_READY"}
      BY <1>5 DEF ReleaseCompactBatch, CompactOwnedOrUnownedReady
    <2> QED BY <1>5, <2>1, CompactReleasedMoves, ItselfMoves
        DEF ReleaseCompactBatch, Apply, StagesMove
  <1>6. ASSUME NEW w \in Worker, NEW B \in SUBSET DOMAIN rows, MarkCompactBatchFailed(w, B)
        PROVE  StagesMove
    <2>1. ASSUME NEW p \in B PROVE Moves(rows[p], Stage(p), CompactFailedRow(rows[p]))
      <3> DEFINE s == CompactFailedRow(rows[p])
      <3>1. /\ s.status = "FAILED" /\ s.compactReadyAt = rows[p].compactReadyAt
            /\ s.importingAt = rows[p].importingAt
        BY DEF InStage, WellFormed, RowOf, CompactFailedRow
      <3>2. rows[p].status = "COMPACTING"
        BY <1>6 DEF MarkCompactBatchFailed
      <3> HIDE DEF s
      <3>3. Moves(rows[p], Stage(p), s)
        BY <3>1, <3>2, FailedMoves
      <3> QED BY <3>3 DEF s
    <2> QED BY <1>6, <2>1, ItselfMoves DEF MarkCompactBatchFailed, Apply, StagesMove
  <1>7. CASE Maintain
    BY <1>7, MaintainChangesStage DEF Maintain
  <1>8. ASSUME NEW p \in DOMAIN rows, MarkImporting(p)
        PROVE  StagesMove
    <2>1. /\ rows' = [rows EXCEPT ![p] = [rows[p] EXCEPT !.status = "IMPORTING", !.importingAt = TRUE]]
          /\ rows[p].status = "FINISHED"
      BY <1>8 DEF MarkImporting
    <2> QED BY <2>1, ImportingMoves, OneRowChangesStage
  <1>9. ASSUME NEW p \in DOMAIN rows, MarkImported(p)
        PROVE  StagesMove
    <2>1. /\ rows' = [rows EXCEPT ![p] = [rows[p] EXCEPT !.status = "IMPORTED"]]
          /\ rows[p].status = "IMPORTING"
      BY <1>9 DEF MarkImported
    <2> QED BY <2>1, ClosedMoves, OneRowChangesStage
  <1>10. ASSUME NEW p \in DOMAIN rows, MarkImportFailed(p)
         PROVE  StagesMove
    <2> DEFINE s == [rows[p] EXCEPT !.status = "FAILED"]
    <2>1. rows' = [rows EXCEPT ![p] = s] /\ rows[p].status = "IMPORTING"
      BY <1>10 DEF MarkImportFailed
    <2>2. /\ s.status = "FAILED" /\ s.compactReadyAt = rows[p].compactReadyAt
          /\ s.importingAt = rows[p].importingAt
      BY DEF InStage, WellFormed, RowOf
    <2> HIDE DEF s
    <2> QED BY <2>1, <2>2, FailedMoves, OneRowChangesStage
  <1> QED BY <1>1, <1>2, <1>3, <1>4, <1>5, <1>6, <1>7, <1>8, <1>9, <1>10 DEF PipelineStep

-----------------------------------------------------------------------------
(* Steps keep the stages.                                                  *)

\* What becomes of row p in a step that completes the rows `done': it moves on, is
\* complete, or is reset to be rewritten, and its description goes with it.
Settles(p, done) ==
  \/ /\ p \in DOMAIN rows /\ MovesTo(rows[p], Stage(p), rows'[p])
     /\ p \in described' => p \in described
  \/ /\ p \in done /\ rows'[p].status \notin Rewriting \cup {"FAILED"}
     /\ Timed(rows'[p], rows'[p].status)
  \/ /\ rows'[p].status = "READY" /\ Timed(rows'[p], "READY") /\ p \notin described'

\* The stage of a row after a step.
LEMMA StageNext ==
  ASSUME NEW done, Ghosts(done), NEW p \in DOMAIN rows'
  PROVE  Stage(p)' = StageAfter(Stage(p), rows'[p])
  BY DEF Ghosts, Stage, StageAfter

\* Rows that settle are in their stages.
LEMMA SettlingKeeps ==
  ASSUME Staged, NEW done, Ghosts(done), \A p \in DOMAIN rows' : Settles(p, done)
  PROVE  Staged'
  <1> SUFFICES ASSUME NEW p \in DOMAIN rows'
               PROVE  /\ Timed(rows'[p], Stage(p)')
                      /\ Stage(p)' \notin Rewriting => p \in rewritten'
                      /\ p \in described' => Stage(p)' \notin Rewriting
    BY DEF Staged
  <1> DEFINE a == StageAfter(Stage(p), rows'[p])
  <1>1. Stage(p)' = a
    BY StageNext
  <1>2. (p \in rewritten \/ p \in done) /\ rows'[p].status \notin Rewriting => p \in rewritten'
    BY DEF Ghosts, Rewriting
  <1>3. a \notin Rewriting => rows'[p].status \notin Rewriting
    BY DEF StageAfter, Rewriting
  <1>4. CASE /\ p \in DOMAIN rows /\ MovesTo(rows[p], Stage(p), rows'[p])
             /\ p \in described' => p \in described
    <2>1. Timed(rows'[p], a) /\ (a \in Rewriting <=> Stage(p) \in Rewriting)
      BY <1>4 DEF MovesTo
    <2>2. /\ Stage(p) \notin Rewriting => p \in rewritten
          /\ p \in described => Stage(p) \notin Rewriting
      BY <1>4 DEF Staged
    <2> HIDE DEF a
    <2> QED BY <1>1, <1>2, <1>3, <1>4, <2>1, <2>2
  <1>5. CASE /\ p \in done /\ rows'[p].status \notin Rewriting \cup {"FAILED"}
             /\ Timed(rows'[p], rows'[p].status)
    <2>1. a = rows'[p].status
      BY <1>5 DEF StageAfter
    <2> HIDE DEF a
    <2> QED BY <1>1, <1>2, <1>5, <2>1
  <1>6. CASE rows'[p].status = "READY" /\ Timed(rows'[p], "READY") /\ p \notin described'
    <2>1. a = "READY"
      BY <1>6 DEF StageAfter
    <2> HIDE DEF a
    <2> QED BY <1>1, <1>6, <2>1 DEF Rewriting
  <1> QED BY <1>4, <1>5, <1>6 DEF Settles

\* Rows that only move settle.
LEMMA MovingSettles ==
  ASSUME StagesMove, described' = described, NEW done, NEW p \in DOMAIN rows'
  PROVE  Settles(p, done)
  BY DEF StagesMove, Moves, Settles

\* No row is written or deleted.
LEMMA NoRowChangesStage ==
  ASSUME OInv, Staged, UNCHANGED rows
  PROVE  StagesMove
  BY RowsInStage, ItselfMoves DEF StagesMove

\* A step that leaves failed rows to the operator.
FailedWaits ==
  \A p \in DOMAIN rows : rows[p].status = "FAILED" =>
    p \in DOMAIN rows' /\ FailedStays(rows[p], rows'[p])

\* A step of the pipeline while a command is listed.
LEMMA WrittenListed ==
  ASSUME OInv, SInv, ~forced, NEW T, op' = Outdated(T), forced' = forced, FailedWaits,
         described \subseteq described', Staged'
  PROVE  SInv'
  <1>2. ASSUME NEW o \in Operator
        PROVE  Listed(op'[o], rows', described')
    <2> DEFINE c == [op[o] EXCEPT !.changed = op[o].changed \cup (T \cap DOMAIN op[o].todo)]
    <2>1. op'[o] = c
      BY DEF Outdated
    <2>2. c.command = op[o].command /\ c.todo = op[o].todo
      BY DEF OInv, CommandsGiven, Given, CommandType
    <2> HIDE DEF c
    <2>3. Listed(op[o], rows, described)
      BY DEF SInv
    <2>4. Listed(c, rows', described')
      BY <2>2, <2>3 DEF Listed, FailedWaits, FailedStays
    <2> QED BY <2>1, <2>4
  <1> QED BY <1>2 DEF SInv

\* Steps that only move rows.
LEMMA MovingListed ==
  ASSUME OInv, SInv, ~forced, NEW T, NEW done, op' = Outdated(T), Ghosts(done), forced' = forced,
         StagesMove, described' = described
  PROVE  SInv'
  <1>1. Staged'
    BY MovingSettles, SettlingKeeps DEF SInv
  <1>2. FailedWaits
    BY DEF StagesMove, Moves, FailedWaits
  <1> QED BY <1>1, <1>2, WrittenListed

\* Claims, releases, failures, finalizations and imports.
LEMMA PipelineStages ==
  ASSUME OInv, SInv, ~forced, PipelineStep
  PROVE  SInv' /\ FailedWaits
  <1>1. StagesMove
    BY PipelineChangesStage DEF SInv
  <1>2. PICK T : op' = Outdated(T) /\ Ghosts({}) /\ forced' = forced /\ described' = described
    BY DEF PipelineStep, Written
  <1> QED BY <1>1, <1>2, MovingListed DEF StagesMove, Moves, FailedWaits

\* A progress report.
LEMMA ProgressStages ==
  ASSUME OInv, SInv, ~forced, NEW p, Progress(p)
  PROVE  SInv' /\ FailedWaits
  <1>1. StagesMove /\ described' = described
    BY NoRowChangesStage DEF Progress, SInv
  <1>2. op' = Outdated({p}) /\ Ghosts({}) /\ forced' = forced
    BY DEF Progress, Written
  <1> QED BY <1>1, <1>2, MovingListed DEF StagesMove, Moves, FailedWaits

\* Leases and windows that expire.
LEMMA TimeStages ==
  ASSUME OInv, SInv, ~forced, Time
  PROVE  SInv' /\ FailedWaits
  <1>1. ASSUME NEW p \in DOMAIN rows, LeaseExpires(p)
        PROVE  StagesMove
    <2> DEFINE s == [rows[p] EXCEPT !.leaseExpired = TRUE]
    <2>1. rows' = [rows EXCEPT ![p] = s]
      BY <1>1 DEF LeaseExpires
    <2>2. InStage(rows[p], Stage(p))
      BY RowsInStage DEF SInv
    <2>3. s.status = rows[p].status /\ s.compactReadyAt = rows[p].compactReadyAt /\ s.importingAt = rows[p].importingAt
      BY <2>2 DEF InStage, WellFormed, RowOf
    <2> HIDE DEF s
    <2>4. Moves(rows[p], Stage(p), s)
      BY <2>2, <2>3 DEF InStage, Timed, Moves, MovesTo, FailedStays, StageAfter, FailedRetryTarget
    <2> QED BY <2>1, <2>4, OneRowChangesStage DEF SInv
  <1>2. ASSUME NEW j \in Job, WindowExpires(j)
        PROVE  StagesMove
    BY <1>2, NoRowChangesStage DEF WindowExpires, SInv
  <1>3. /\ StagesMove /\ described' = described
        /\ op' = Outdated({}) /\ Ghosts({}) /\ forced' = forced
    BY <1>1, <1>2 DEF Time
  <1> QED BY <1>3, MovingListed DEF StagesMove, Moves, FailedWaits

\* The end of a rewrite: the row is complete and described.
LEMMA RewriteDoneStages ==
  ASSUME OInv, SInv, ~forced, NEW w \in Worker, NEW p \in DOMAIN rows, RewriteDone(w, p)
  PROVE  SInv' /\ FailedWaits
  <1>1. PICK s \in Shape : MarkCompactReady(w, p, s)
    BY DEF RewriteDone
  <1>2. /\ op' = Outdated({p}) /\ Ghosts({p}) /\ forced' = forced
        /\ described' = described \cup {p}
    BY DEF RewriteDone, Written
  <1> DEFINE t == RewrittenRow(rows[p], s)
             st == IF s.parts = 0 THEN "FINISHED" ELSE "COMPACT_READY"
  <1>3. rows' = [rows EXCEPT ![p] = t] /\ rows[p].status = "IN_PROGRESS"
    BY <1>1 DEF MarkCompactReady, InProgressOwned
  <1>4. InStage(rows[p], Stage(p))
    BY RowsInStage DEF SInv
  <1>5. (st = "FINISHED" /\ s.parts = 0) \/ (st = "COMPACT_READY" /\ s.parts # 0)
    OBVIOUS
  <1>6. t = [[rows[p] EXCEPT !.generation = 0, !.shape = s, !.worker = NoWorker]
               EXCEPT !.status = st, !.compactReadyAt = (s.parts # 0)]
    BY DEF RewrittenRow
  <1> HIDE DEF t, st
  <1>7. t.status = st /\ t.importingAt = rows[p].importingAt /\ t.compactReadyAt = (s.parts # 0)
    BY <1>4, <1>6 DEF InStage, WellFormed, RowOf
  <1>8. t.status \notin Rewriting \cup {"FAILED"} /\ Timed(t, t.status)
    BY <1>3, <1>4, <1>5, <1>7 DEF InStage, Timed, Rewriting
  <1>9. DOMAIN rows' = DOMAIN rows /\ \A q \in DOMAIN rows : rows'[q] = IF q = p THEN t ELSE rows[q]
    BY <1>3
  <1>10. ASSUME NEW q \in DOMAIN rows', q # p PROVE Settles(q, {p})
    BY <1>2, <1>9, <1>10, RowsInStage, ItselfMoves DEF SInv, Settles, Moves
  <1>11. Settles(p, {p})
    BY <1>8, <1>9 DEF Settles
  <1>12. Staged'
    BY <1>2, <1>10, <1>11, SettlingKeeps DEF SInv
  <1>13. FailedWaits
    BY <1>3, <1>9 DEF FailedWaits, FailedStays
  <1> QED BY <1>2, <1>12, <1>13, WrittenListed

\* A compaction: its inputs are superseded and the output is complete.
LEMMA CompactionDoneStages ==
  ASSUME OInv, SInv, ~forced, NEW w \in Worker, NEW B \in SUBSET DOMAIN rows, CompactionDone(w, B)
  PROVE  SInv' /\ FailedWaits
  <1>1. PICK s \in Reductions(B) : CompleteCompaction(w, B, s)
    BY DEF CompactionDone
  <1> DEFINE done == DOMAIN rows' \ DOMAIN rows
  <1>2. op' = Outdated(B) /\ Ghosts(done) /\ forced' = forced /\ described' = described
    BY DEF CompactionDone, Written
  <1>3. PICK newest \in B :
          LET g      == rows[newest].generation + 1
              j      == rows[newest].job
              out    == DeriveCompactPartID(B, g)
              status == IF \E p \in B : rows[p].finalizeRequested
                        THEN "FINISHED" ELSE "COMPACT_READY"
              output == NewCompactPart(j, B, g, s, status, BatchLineage(B))
              superseded == Apply(rows, B, LAMBDA r : SupersededRow(r, out))
          IN /\ \A p \in B : CompactOwnedOrUnownedReady(rows[p], w)
             /\ out \notin DOMAIN rows
             /\ rows' = [p \in DOMAIN rows \cup {out} |->
                           IF p = out THEN output ELSE superseded[p]]
    BY <1>1 DEF CompleteCompaction
  <1> DEFINE g == rows[newest].generation + 1
             out == DeriveCompactPartID(B, g)
             status == IF \E p \in B : rows[p].finalizeRequested
                       THEN "FINISHED" ELSE "COMPACT_READY"
             output == NewCompactPart(rows[newest].job, B, g, s, status, BatchLineage(B))
  <1>4. /\ out \notin DOMAIN rows /\ DOMAIN rows' = DOMAIN rows \cup {out}
        /\ rows'[out] = output
        /\ \A p \in DOMAIN rows : rows'[p] = IF p \in B THEN SupersededRow(rows[p], out)
                                             ELSE rows[p]
    BY <1>3 DEF Apply
  <1>5. \A p \in B : rows[p].status \in {"COMPACTING", "COMPACT_READY"}
    BY <1>3 DEF CompactOwnedOrUnownedReady
  <1>6. /\ output.compactReadyAt = TRUE /\ output.importingAt = FALSE
        /\ output.status \in {"FINISHED", "COMPACT_READY"}
    BY DEF NewCompactPart
  <1> HIDE DEF output, out, g
  <1>7. Settles(out, done)
    BY <1>4, <1>6 DEF Settles, Timed, Rewriting
  <1>8. ASSUME NEW p \in B PROVE MovesTo(rows[p], Stage(p), SupersededRow(rows[p], out))
    <2> DEFINE t == SupersededRow(rows[p], out)
    <2>1. InStage(rows[p], Stage(p))
      BY RowsInStage DEF SInv
    <2>2. /\ t.status = "SUPERSEDED" /\ t.compactReadyAt = rows[p].compactReadyAt
          /\ t.importingAt = rows[p].importingAt
      BY <2>1 DEF InStage, WellFormed, RowOf, SupersededRow
    <2> HIDE DEF t
    <2>3. MovesTo(rows[p], Stage(p), t)
      BY <1>5, <2>1, <2>2 DEF InStage, MovesTo, StageAfter, Timed, Rewriting
    <2> QED BY <2>3 DEF t
  <1>9. \A p \in DOMAIN rows : Settles(p, done)
    BY <1>2, <1>4, <1>8, RowsInStage, ItselfMoves DEF SInv, Settles, Moves
  <1>10. \A p \in DOMAIN rows' : Settles(p, done)
    BY <1>4, <1>7, <1>9
  <1> HIDE DEF done
  <1>11. Staged'
    BY <1>2, <1>10, SettlingKeeps DEF SInv
  <1>12. FailedWaits
    BY <1>4, <1>5 DEF FailedWaits, FailedStays
  <1> QED BY <1>2, <1>11, <1>12, WrittenListed

-----------------------------------------------------------------------------
(* Commands keep the stages.                                               *)

\* A step of the only operator.
LEMMA ContinueListed ==
  ASSUME Sequential, SInv, NEW o \in Operator, NEW c, NEW T, Continue(o, c, T),
         ~forced /\ c.command \notin Overrides => Staged' /\ Listed(c, rows', described')
  PROVE  SInv'
  <1> SUFFICES ASSUME ~forced'
               PROVE  Staged' /\ \A x \in Operator : Listed(op'[x], rows', described')
    BY DEF SInv
  <1> DEFINE d == IF c.generated = {} /\ c.todo = <<>> /\ c.prefixes = {} THEN Idle ELSE c
  <1>1. /\ op' = [Outdated(T) EXCEPT ![o] = d]
        /\ forced' = (forced \/ c.command \in Overrides)
    BY DEF Continue
  <1>2. ~forced /\ c.command \notin Overrides
    BY <1>1
  <1>3. Listed(Idle, rows', described')
    BY IdleFacts DEF Listed
  <1>4. Listed(d, rows', described')
    BY <1>2, <1>3
  <1> HIDE DEF d
  <1>5. op'[o] = d
    BY <1>1 DEF Outdated
  <1>6. \A x \in Operator : x = o
    BY DEF Sequential
  <1> QED BY <1>2, <1>4, <1>5, <1>6

\* A command lists rows, gives up or deletes objects: the rows stay.
LEMMA RestingListed ==
  ASSUME Sequential, OInv, SInv, NEW o \in Operator, NEW c, Continue(o, c, {}), UNCHANGED rows,
         described' \subseteq described,
         ~forced /\ c.command \notin Overrides => Listed(c, rows, described')
  PROVE  SInv'
  <1>1. ASSUME ~forced PROVE Staged'
    <2>1. Staged /\ Ghosts({})
      BY <1>1 DEF SInv, Continue
    <2>2. ASSUME NEW p \in DOMAIN rows' PROVE Settles(p, {})
      BY <2>1, RowsInStage, ItselfMoves DEF Settles, Moves
    <2> QED BY <2>1, <2>2, SettlingKeeps
  <1> QED BY <1>1, ContinueListed

\* The command is given up.
LEMMA GivingUpListed ==
  ASSUME Sequential, OInv, SInv, NEW o \in Operator, Continue(o, Idle, {}), UNCHANGED rows,
         described' \subseteq described
  PROVE  SInv'
  <1>1. Listed(Idle, rows, described')
    BY IdleFacts DEF Listed
  <1> QED BY <1>1, RestingListed

\* What the commands that select rows list.
LEMMA StartsListed ==
  ASSUME Sequential, OInv, SInv, NEW o \in Operator, NEW command, NEW todo, Starts(o, command, todo),
         command \notin Resets,
         command = "retry-failed" => \A p \in DOMAIN todo : todo[p].from = "FAILED" =>
           /\ p \in DOMAIN rows /\ rows[p].status = "FAILED"
           /\ todo[p].to = FailedRetryTarget(rows[p]),
         command = "set-part-state" => \A p \in DOMAIN todo :
           todo[p].from # "FAILED" /\ (todo[p].from \in Rewriting => todo[p].to = "READY")
  PROVE  SInv'
  <1> DEFINE c == [Idle EXCEPT !.command = command, !.todo = todo]
  <1>1. Continue(o, c, {}) /\ UNCHANGED <<rows, described>>
    BY DEF Starts
  <1>2. c.command = command /\ c.todo = todo
    BY DEF Idle
  <1> HIDE DEF c
  <1>3. Listed(c, rows, described)
    BY <1>2 DEF Listed, Resets
  <1> QED BY <1>1, <1>3, RestingListed

\* retry-failed decides the targets of failed rows with the rows it lists.
LEMMA ListSelectionListed ==
  ASSUME Sequential, OInv, SInv, NEW o \in Operator,
         \/ ListRetry(o) \/ ListForceRetry(o) \/ ListSetPartState(o) \/ ListResetCompactTimer(o)
  PROVE  SInv'
  <1>1. CASE ListRetry(o)
    <2> DEFINE to(r) == IF r.status = "FAILED" THEN FailedRetryTarget(r) ELSE "READY"
    <2>1. PICK S \in Selections(WithStatus({"FAILED"})) \cup
                     Selections(WithStatus({"FAILED", "IN_PROGRESS"})) :
            Starts(o, "retry-failed", [p \in S |-> [from |-> rows[p].status, to |-> to(rows[p])]])
      BY <1>1 DEF ListRetry
    <2> DEFINE todo == [p \in S |-> [from |-> rows[p].status, to |-> to(rows[p])]]
    <2>2. S \subseteq DOMAIN rows
      BY DEF Selections, WithStatus
    <2>3. Starts(o, "retry-failed", todo)
      BY <2>1
    <2>4. \A p \in DOMAIN todo : todo[p].from = "FAILED" =>
            /\ p \in DOMAIN rows /\ rows[p].status = "FAILED"
            /\ todo[p].to = FailedRetryTarget(rows[p])
      BY <2>2
    <2> HIDE DEF todo
    <2> QED BY <2>3, <2>4, StartsListed DEF Resets
  <1>2. CASE ListForceRetry(o)
    <2>1. PICK todo : Starts(o, "retry-failed -force", todo)
      BY <1>2 DEF ListForceRetry
    <2> QED BY <2>1, StartsListed DEF Resets
  <1>3. CASE ListSetPartState(o)
    <2>1. PICK x \in Settings : \E S \in Selections(WithStatus({x[1]})) :
            Starts(o, "set-part-state", [p \in S |-> [from |-> x[1], to |-> x[2]]])
      BY <1>3 DEF ListSetPartState
    <2>2. PICK S \in Selections(WithStatus({x[1]})) :
            Starts(o, "set-part-state", [p \in S |-> [from |-> x[1], to |-> x[2]]])
      BY <2>1
    <2>3. x[1] # "FAILED" /\ (x[1] \in Rewriting => x[2] = "READY")
      BY DEF Sequential
    <2> QED BY <2>2, <2>3, StartsListed DEF Resets
  <1>4. CASE ListResetCompactTimer(o)
    BY <1>4, StartsListed DEF ListResetCompactTimer, Resets
  <1> QED BY <1>1, <1>2, <1>3, <1>4

\* reset-compaction lists originals that are described.
LEMMA ListResetListed ==
  ASSUME Sequential, OInv, SInv, NEW o \in Operator, NEW command \in Resets, ListReset(o, command)
  PROVE  SInv'
  <1> DEFINE to == IF command = "reset-job" THEN "READY" ELSE "COMPACT_READY"
             todo == [p \in Originals(rows) |-> [to |-> to]]
  <1>1. PICK deleteS3 \in BOOLEAN :
          Continue(o, [command |-> command, generated |-> Generated(rows), todo |-> todo,
                       prefixes |-> IF deleteS3 THEN ResetPrefixes(command) ELSE {},
                       changed |-> {}], {})
    BY DEF ListReset
  <1> DEFINE c == [command |-> command, generated |-> Generated(rows), todo |-> todo,
                   prefixes |-> IF deleteS3 THEN ResetPrefixes(command) ELSE {},
                   changed |-> {}]
  <1>2. Continue(o, c, {}) /\ UNCHANGED <<rows, described>>
    BY <1>1 DEF ListReset
  <1>3. c.command = command /\ c.todo = todo
    OBVIOUS
  <1>4. DOMAIN todo = Originals(rows) /\ \A p \in DOMAIN todo : todo[p].to = to
    OBVIOUS
  <1>5. command = "reset-compaction" => Originals(rows) \subseteq described
    BY DEF ListReset, ResetAllowed
  <1> HIDE DEF c, todo
  <1>6. Listed(c, rows, described)
    BY <1>3, <1>4, <1>5 DEF Listed, Resets
  <1> QED BY <1>2, <1>6, RestingListed

\* delete-parts updates no row.
LEMMA ListDeletePartsListed ==
  ASSUME Sequential, OInv, SInv, NEW o \in Operator, ListDeleteParts(o)
  PROVE  SInv'
  <1>1. PICK S : Continue(o, [Idle EXCEPT !.command = "delete-parts", !.generated = S], {})
    BY DEF ListDeleteParts
  <1> DEFINE c == [Idle EXCEPT !.command = "delete-parts", !.generated = S]
  <1>2. Continue(o, c, {}) /\ UNCHANGED <<rows, described>>
    BY <1>1 DEF ListDeleteParts
  <1>3. c.command = "delete-parts"
    BY DEF Idle
  <1> HIDE DEF c
  <1>4. Listed(c, rows, described)
    BY <1>3 DEF Listed
  <1> QED BY <1>2, <1>4, RestingListed

\* An update of one row, after which the command goes on with the others.
LEMMA UpdateListed ==
  ASSUME Sequential, OInv, SInv, ~forced, NEW o \in Operator, NEW p, NEW matches, NEW row,
         Update(o, p, matches, row), described' \subseteq described,
         op[o].command = "reset-compaction" => described' = described,
         p \in DOMAIN rows /\ matches /\ rows' = [rows EXCEPT ![p] = row] => Settles(p, {})
  PROVE  SInv'
  <1> DEFINE c == [op[o] EXCEPT !.todo = Without(op[o].todo, p), !.changed = op[o].changed \ {p}]
  <1>1. \/ p \in DOMAIN rows /\ matches /\ rows' = [rows EXCEPT ![p] = row] /\ Continue(o, c, {p})
        \/ rows' = rows /\ Continue(o, Idle, {})
    BY DEF Update
  <1>2. CASE p \in DOMAIN rows /\ matches /\ rows' = [rows EXCEPT ![p] = row] /\ Continue(o, c, {p})
    <2>1. DOMAIN rows' = DOMAIN rows /\ \A q \in DOMAIN rows \ {p} : rows'[q] = rows[q]
      BY <1>2
    <2>2. Staged /\ Ghosts({})
      BY <1>2 DEF SInv, Continue
    <2>3. \A q \in DOMAIN rows \ {p} : Settles(q, {})
      BY <2>1, <2>2, RowsInStage, ItselfMoves DEF Settles, Moves
    <2>4. Staged'
      BY <1>2, <2>1, <2>2, <2>3, SettlingKeeps
    <2>5. c.command = op[o].command /\ c.todo = Without(op[o].todo, p)
      BY DEF OInv, CommandsGiven, Given, CommandType
    <2> HIDE DEF c
    <2>6. /\ DOMAIN c.todo = DOMAIN op[o].todo \ {p}
          /\ \A q \in DOMAIN c.todo : c.todo[q] = op[o].todo[q]
      BY <2>5 DEF Without
    <2>7. Listed(op[o], rows, described)
      BY DEF SInv
    <2>8. Listed(c, rows', described')
      BY <2>1, <2>5, <2>6, <2>7 DEF Listed
    <2> QED BY <1>2, <2>4, <2>8, ContinueListed
  <1>3. CASE rows' = rows /\ Continue(o, Idle, {})
    BY <1>3, GivingUpListed
  <1> QED BY <1>1, <1>2, <1>3

\* RetryFailedPart puts a failed row back to where it failed.
LEMMA RetriedMoves ==
  ASSUME NEW r, NEW ph \in {"IN_PROGRESS", "COMPACTING", "IMPORTING"}, InStage(r, ph),
         r.status = "FAILED"
  PROVE  LET s == RetriedRow(r, FailedRetryTarget(r))
         IN /\ MovesTo(r, ph, s)
            /\ s.status = CASE ph = "IN_PROGRESS" -> "READY"
                            [] ph = "COMPACTING"  -> "COMPACT_READY"
                            [] ph = "IMPORTING"   -> "FINISHED"
  <1> DEFINE to == FailedRetryTarget(r)
             sh == IF to = "READY" THEN EmptyShape ELSE r.shape
             s == RetriedRow(r, to)
  <1>1. s = [r EXCEPT !.status = to, !.importingAt = FALSE, !.worker = NoWorker, !.shape = sh]
    BY DEF RetriedRow
  <1>2. to = CASE ph = "IN_PROGRESS" -> "READY"
               [] ph = "COMPACTING"  -> "COMPACT_READY"
               [] ph = "IMPORTING"   -> "FINISHED"
    BY DEF InStage, Timed, Rewriting, FailedRetryTarget
  <1> HIDE DEF to, sh, s
  <1>3. s.status = to /\ s.importingAt = FALSE /\ s.compactReadyAt = r.compactReadyAt
    BY <1>1 DEF InStage, WellFormed, RowOf
  <1>4. MovesTo(r, ph, s)
    BY <1>2, <1>3 DEF InStage, MovesTo, StageAfter, Timed, Rewriting
  <1>5. MovesTo(r, ph, s) /\ s.status = CASE ph = "IN_PROGRESS" -> "READY"
                                          [] ph = "COMPACTING"  -> "COMPACT_READY"
                                          [] ph = "IMPORTING"   -> "FINISHED"
    BY <1>2, <1>3, <1>4
  <1> QED BY <1>5 DEF s, to

\* set-part-state sets a row that has not failed; a rewriting row only to READY.
LEMMA SetMoves ==
  ASSUME NEW r, NEW ph, InStage(r, ph), r.status # "FAILED",
         NEW to \in Target, to = "READY" <=> r.status \in Rewriting
  PROVE  MovesTo(r, ph, SetRow(r, to))
  <1> DEFINE sh == IF to = "READY" THEN EmptyShape ELSE r.shape
             at == IF to = "READY" THEN FALSE ELSE to = "COMPACT_READY" \/ r.compactReadyAt
             s == ToStatus(r, to, sh, at)
  <1>1. SetRow(r, to) = s
    BY DEF SetRow, ToStatus
  <1>2. r \in RowOf(r.inputs, r.supersededBy)
    BY DEF InStage, WellFormed
  <1>3. (to = "READY" => ~at) /\ (to = "COMPACT_READY" => at)
    OBVIOUS
  <1> HIDE DEF sh, at
  <1>4. s.status = to /\ s.compactReadyAt = at /\ s.importingAt = FALSE
    BY <1>2 DEF RowOf, ToStatus
  <1> HIDE DEF s
  <1> QED BY <1>1, <1>3, <1>4 DEF InStage, MovesTo, StageAfter, Timed, Rewriting, Target

\* A reset sets every timestamp to what the stage needs.
LEMMA ResetFacts ==
  ASSUME NEW r, WellFormed(r), NEW to \in {"READY", "COMPACT_READY"}
  PROVE  ResetRow(r, to).status = to /\ Timed(ResetRow(r, to), to)
  <1> DEFINE sh == IF to = "READY" THEN EmptyShape ELSE r.shape
             at == to = "COMPACT_READY"
             s == ResetRow(r, to)
  <1>1. s = [[r EXCEPT !.status = to, !.worker = NoWorker, !.leaseExpired = FALSE,
                       !.finalizeRequested = FALSE, !.importingAt = FALSE,
                       !.supersededBy = {}, !.shape = sh]
               EXCEPT !.compactReadyAt = at]
    BY DEF ResetRow, ResetRowKeepingReady
  <1>2. (to = "READY" => ~at) /\ (to = "COMPACT_READY" => at)
    OBVIOUS
  <1> HIDE DEF sh, at, s
  <1>3. s.status = to /\ s.compactReadyAt = at /\ s.importingAt = FALSE
    BY <1>1 DEF WellFormed, RowOf
  <1>4. s.status = to /\ Timed(s, to)
    BY <1>2, <1>3 DEF Timed, Rewriting
  <1> QED BY <1>4 DEF s

\* The stage of a failed row is one that fails.
LEMMA FailedStage ==
  ASSUME OInv, NEW p \in DOMAIN rows, rows[p].status = "FAILED"
  PROVE  Stage(p) \in {"IN_PROGRESS", "COMPACTING", "IMPORTING"} /\ Stage(p) = failedIn[p]
  BY DEF OInv, Remembered, WithStatus, Stage

\* What retry-failed makes of the row it updates.
LEMMA RetryPartMoves ==
  ASSUME OInv, SInv, ~forced, NEW o \in Operator, NEW p \in DOMAIN rows, RetryPart(o, p),
         rows[p].status = op[o].todo[p].from
  PROVE  LET row == IF op[o].todo[p].from = "FAILED" THEN RetriedRow(rows[p], op[o].todo[p].to)
                    ELSE UnclaimedRow(rows[p])
         IN /\ op[o].todo[p].from \in {"FAILED", "IN_PROGRESS"} => MovesTo(rows[p], Stage(p), row)
            /\ rows[p].status = "FAILED" =>
                 row.status = CASE failedIn[p] = "IN_PROGRESS" -> "READY"
                                [] failedIn[p] = "COMPACTING"  -> "COMPACT_READY"
                                [] failedIn[p] = "IMPORTING"   -> "FINISHED"
  <1>1. op[o].command = "retry-failed" /\ p \in DOMAIN op[o].todo
    BY DEF RetryPart
  <1>2. InStage(rows[p], Stage(p))
    BY RowsInStage DEF SInv
  <1>3. CASE rows[p].status = "FAILED"
    <2>1. op[o].todo[p].to = FailedRetryTarget(rows[p])
      BY <1>1, <1>3 DEF SInv, Listed
    <2> QED BY <1>2, <1>3, <2>1, FailedStage, RetriedMoves
  <1>4. CASE rows[p].status = "IN_PROGRESS"
    BY <1>2, <1>4, UnclaimedMoves DEF Moves
  <1>5. CASE rows[p].status \notin {"FAILED", "IN_PROGRESS"}
    BY <1>5
  <1> QED BY <1>3, <1>4, <1>5

\* retry-failed goes on with rows that nobody else has moved.
LEMMA RetryPartListed ==
  ASSUME Sequential, OInv, LInv, SInv, ~forced, NEW o \in Operator, NEW p, RetryPart(o, p)
  PROVE  SInv'
  <1> DEFINE x == op[o].todo[p]
             row == IF x.from = "FAILED" THEN RetriedRow(rows[p], x.to) ELSE UnclaimedRow(rows[p])
  <1>1. /\ op[o].command = "retry-failed" /\ p \in DOMAIN op[o].todo
        /\ Update(o, p, rows[p].status = x.from, row) /\ described' = described
    BY DEF RetryPart
  <1>2. x.from \in {"FAILED", "IN_PROGRESS"}
    BY <1>1 DEF LInv, Fits, RetriesFit
  <1>3. ASSUME p \in DOMAIN rows, rows[p].status = x.from PROVE MovesTo(rows[p], Stage(p), row)
    BY <1>2, <1>3, RetryPartMoves
  <1> HIDE DEF row
  <1>4. ASSUME p \in DOMAIN rows, rows[p].status = x.from, rows' = [rows EXCEPT ![p] = row]
        PROVE  Settles(p, {})
    BY <1>1, <1>3, <1>4 DEF Settles
  <1> QED BY <1>1, <1>4, UpdateListed

\* set-part-state finds the status it read, because updated_at is compared.
LEMMA ForceSetPartStatusListed ==
  ASSUME Sequential, OInv, LInv, SInv, ~forced, NEW o \in Operator, NEW p, ForceSetPartStatus(o, p)
  PROVE  SInv'
  <1> DEFINE x == op[o].todo[p]
             row == SetRow(rows[p], x.to)
  <1>1. /\ op[o].command = "set-part-state" /\ p \in DOMAIN op[o].todo
        /\ Update(o, p, p \notin op[o].changed, row) /\ described' = described
    BY DEF ForceSetPartStatus
  <1>2. x.to \in Target
    BY <1>1, TargetOf
  <1>3. ASSUME p \in DOMAIN rows, p \notin op[o].changed
        PROVE  MovesTo(rows[p], Stage(p), row)
    <2>1. rows[p].status = x.from /\ (x.to = "READY" => x.from \in Rewriting)
      BY <1>1, <1>3 DEF LInv, Fits, SettingsFit, Rewriting
    <2>2. x.from # "FAILED" /\ (x.from \in Rewriting => x.to = "READY")
      BY <1>1 DEF SInv, Listed
    <2>3. InStage(rows[p], Stage(p))
      BY <1>3, RowsInStage DEF SInv
    <2> QED BY <1>2, <2>1, <2>2, <2>3, SetMoves
  <1> HIDE DEF row
  <1>4. ASSUME p \in DOMAIN rows, p \notin op[o].changed, rows' = [rows EXCEPT ![p] = row]
        PROVE  Settles(p, {})
    BY <1>1, <1>3, <1>4 DEF Settles
  <1> QED BY <1>1, <1>4, UpdateListed

\* reset-job removes the description of what it makes READY; reset-compaction offers
\* what is described.
LEMMA ResetOriginalPartListed ==
  ASSUME Sequential, OInv, SInv, ~forced, NEW o \in Operator, NEW p, ResetOriginalPart(o, p)
  PROVE  SInv'
  <1> DEFINE to == op[o].todo[p].to
             same == p \notin op[o].changed
             row == ResetRow(rows[p], to)
  <1>1. /\ op[o].command \in Resets /\ p \in DOMAIN op[o].todo
        /\ Update(o, p, same, row)
        /\ described' = IF same /\ to = "READY" THEN described \ ({p} \ Copied) ELSE described
    BY DEF ResetOriginalPart
  <1>2. Copied = {}
    BY DEF Sequential
  <1>3. /\ op[o].command = "reset-job" => to = "READY"
        /\ op[o].command = "reset-compaction" => to = "COMPACT_READY" /\ p \in described
    BY <1>1 DEF SInv, Listed
  <1>4. to \in {"READY", "COMPACT_READY"} /\ (to = "READY" => op[o].command # "reset-compaction")
    BY <1>1, <1>3 DEF Resets
  <1>5. ASSUME p \in DOMAIN rows PROVE row.status = to /\ Timed(row, to)
    BY <1>4, <1>5, ResetFacts DEF OInv, RowsWellFormed
  <1> HIDE DEF row
  <1>6. ASSUME p \in DOMAIN rows, same, rows' = [rows EXCEPT ![p] = row]
        PROVE  Settles(p, {})
    <2>1. rows'[p] = row
      BY <1>6
    <2>2. CASE to = "READY"
      BY <1>1, <1>2, <1>5, <1>6, <2>1, <2>2 DEF Settles
    <2>3. CASE to = "COMPACT_READY"
      <3>1. op[o].command = "reset-compaction" /\ p \in described /\ described' = described
        BY <1>1, <1>3, <2>3 DEF Resets
      <3>2. Stage(p) \notin Rewriting
        BY <1>6, <3>1 DEF SInv, Staged
      <3>3. MovesTo(rows[p], Stage(p), row)
        BY <1>5, <1>6, <2>3, <3>2 DEF MovesTo, StageAfter, Rewriting
      <3> QED BY <1>6, <2>1, <3>1, <3>3 DEF Settles
    <2> QED BY <1>4, <2>2, <2>3
  <1>7. described' \subseteq described /\ (op[o].command = "reset-compaction" => described' = described)
    BY <1>1, <1>4
  <1> HIDE DEF same
  <1> QED BY <1>1, <1>6, <1>7, UpdateListed

\* Deletions delete rows for a reset or delete-parts; the rows that are left stay.
LEMMA DeleteJobPartsListed ==
  ASSUME Sequential, OInv, LInv, SInv, ~forced, NEW o \in Operator, DeleteJobParts(o)
  PROVE  SInv'
  <1> DEFINE c == [op[o] EXCEPT !.generated = {}]
  <1>1. /\ op[o].generated # {} /\ described' = described
        /\ \/ /\ rows' = [p \in DOMAIN rows \ op[o].generated |-> rows[p]]
              /\ Continue(o, c, op[o].generated)
           \/ rows' = rows /\ Continue(o, Idle, {})
    BY DEF DeleteJobParts
  <1>2. CASE /\ rows' = [p \in DOMAIN rows \ op[o].generated |-> rows[p]]
             /\ Continue(o, c, op[o].generated)
    <2>1. Staged /\ Ghosts({})
      BY <1>2 DEF SInv, Continue
    <2>2. \A p \in DOMAIN rows' : p \in DOMAIN rows /\ rows'[p] = rows[p]
      BY <1>2
    <2>3. ASSUME NEW p \in DOMAIN rows' PROVE Settles(p, {})
      BY <1>1, <2>1, <2>2, RowsInStage, ItselfMoves DEF Settles, Moves
    <2>4. Staged'
      BY <2>1, <2>3, SettlingKeeps
    <2>5. c.command = op[o].command /\ c.todo = op[o].todo
      BY DEF OInv, CommandsGiven, Given, CommandType
    <2> HIDE DEF c
    <2>6. op[o].command \in Resets \cup {"delete-parts"}
      BY <1>1 DEF LInv, Fits, Formed
    <2>7. Listed(op[o], rows, described)
      BY DEF SInv
    <2>8. Listed(c, rows', described')
      BY <1>1, <2>5, <2>6, <2>7 DEF Listed, Resets
    <2> QED BY <1>2, <2>4, <2>8, ContinueListed
  <1>3. CASE rows' = rows /\ Continue(o, Idle, {})
    BY <1>1, <1>3, GivingUpListed
  <1> QED BY <1>1, <1>2, <1>3

\* Deleting objects in S3 leaves the rows alone.
LEMMA DeleteResetPrefixListed ==
  ASSUME Sequential, OInv, SInv, ~forced, NEW o \in Operator, NEW p, DeleteResetPrefix(o, p)
  PROVE  SInv'
  <1> DEFINE c == [op[o] EXCEPT !.prefixes = op[o].prefixes \ {p}]
  <1>1. rows' = rows /\ described' = described /\ Continue(o, c, {})
    BY DEF DeleteResetPrefix
  <1>2. c.command = op[o].command /\ c.todo = op[o].todo
    BY DEF OInv, CommandsGiven, Given, CommandType
  <1> HIDE DEF c
  <1>3. Listed(c, rows, described)
    BY <1>2 DEF SInv, Listed
  <1> QED BY <1>1, <1>3, RestingListed

\* What a command that overrides the state of rows does is not looked at.
LEMMA OverridesListed ==
  ASSUME Sequential, OInv, SInv, NEW o \in Operator, NEW p, ForceRetryPart(o, p) \/ ResetCompactTimer(o, p)
  PROVE  SInv'
  <1> DEFINE c == [op[o] EXCEPT !.todo = Without(op[o].todo, p), !.changed = op[o].changed \ {p}]
  <1>1. op[o].command \in Overrides
    BY DEF ForceRetryPart, ResetCompactTimer, Overrides
  <1>2. c.command = op[o].command
    BY DEF OInv, CommandsGiven, Given, CommandType
  <1>3. (\E T : Continue(o, c, T)) \/ (rows' = rows /\ described' = described /\ Continue(o, Idle, {}))
    BY DEF ForceRetryPart, ResetCompactTimer, Update
  <1> HIDE DEF c
  <1>4. CASE \E T : Continue(o, c, T)
    BY <1>1, <1>2, <1>4 DEF Continue, SInv
  <1>5. CASE rows' = rows /\ described' = described /\ Continue(o, Idle, {})
    BY <1>5, GivingUpListed
  <1> QED BY <1>3, <1>4, <1>5

-----------------------------------------------------------------------------
\* A planned job: every row is READY and none is described.
LEMMA SInvInit == Sequential /\ Init => SInv
  <1> SUFFICES ASSUME Sequential, Init PROVE SInv
    OBVIOUS
  <1>1. PICK S \in SUBSET Original : rows = [o \in S |-> NewPart(o)]
    BY DEF Init
  <1>2. \A p \in DOMAIN rows : /\ rows[p].status = "READY" /\ rows[p].compactReadyAt = FALSE
                               /\ rows[p].importingAt = FALSE
    BY <1>1 DEF NewPart
  <1>3. described = {}
    BY DEF Init, Sequential
  <1>4. Staged
    BY <1>2, <1>3 DEF Staged, Stage, Timed, Rewriting
  <1>5. \A o \in Operator : Listed(op[o], rows, described)
    BY IdleFacts DEF Init, Listed
  <1> QED BY <1>4, <1>5 DEF SInv

\* Every step of one operator at a time keeps the invariant.
LEMMA SInvNext ==
  ASSUME Sequential, OInv, LInv, SInv, [Next]_vars
  PROVE  SInv'
  <1>1. CASE forced
    BY <1>1, ForcedStays DEF SInv
  <1>2. CASE ~forced
    <2> USE <1>2
    <2>1. CASE UNCHANGED vars
      BY <2>1 DEF vars, SInv, Staged, Stage, Listed
    <2>2. ASSUME NEW o \in Operator, List(o) PROVE SInv'
      BY <2>2, ListSelectionListed, ListResetListed, ListDeletePartsListed DEF List
    <2>3. ASSUME NEW o \in Operator, Updates(o) PROVE SInv'
      BY <2>3, RetryPartListed, ForceSetPartStatusListed, OverridesListed, ResetOriginalPartListed,
         DeleteJobPartsListed, DeleteResetPrefixListed DEF Updates
    <2>4. ASSUME NEW o \in Operator, Interrupted(o) PROVE SInv'
      BY <2>4, GivingUpListed DEF Interrupted
    <2> QED BY <2>1, <2>2, <2>3, <2>4, PipelineStages, RewriteDoneStages,
               CompactionDoneStages, ProgressStages, TimeStages DEF Next
  <1> QED BY <1>1, <1>2

\* A row that is ready is an original with the timestamp, or is made of one.
LEMMA SInvImplies == OInv /\ LInv /\ SInv => MaintenanceDefined /\ OfferedMeansRewritten
  <1> SUFFICES ASSUME OInv, LInv, SInv, ~forced
               PROVE  MaintenanceDefined /\ OfferedMeansRewritten
    BY DEF MaintenanceDefined, OfferedMeansRewritten
  <1>1. OfferedMeansRewritten
    BY DEF SInv, Staged, Stage, OfferedMeansRewritten, Rewriting
  <1>2. \A p \in DOMAIN rows :
          rows[p].status \in {"COMPACT_READY", "SUPERSEDED"} => rows[p].compactReadyAt
    BY DEF SInv, Staged, Stage, Timed
  <1>3. ASSUME Unraced, NEW j \in Job, JobSummary(rows, j).ready
        PROVE  \E p \in Originals(rows) : rows[p].job = j /\ rows[p].compactReadyAt
    <2>1. PICK p \in DOMAIN rows : rows[p].job = j /\ rows[p].status = "COMPACT_READY"
      BY <1>3 DEF JobSummary
    <2>2. Originals(rows) = DOMAIN rows \cap Original
      BY OriginalsById DEF LInv
    <2>3. CASE p \in Original
      BY <1>2, <2>1, <2>2, <2>3
    <2>4. CASE p \notin Original
      <3>1. PICK x \in rows[p].lineage : x \in DOMAIN rows /\ rows[x].job = rows[p].job /\ ~Live(rows[x])
        BY <1>3, <2>4 DEF LInv, Lineages, Rooted
      <3>3. x \in Original
        BY DEF OInv, RowsWellFormed, WellFormed, RowOf
      <3>2. rows[x].status = "SUPERSEDED"
        BY <3>1 DEF Live
      <3> QED BY <1>2, <2>1, <2>2, <3>1, <3>2, <3>3
    <2> QED BY <2>3, <2>4
  <1>4. MaintenanceDefined
    BY <1>3 DEF MaintenanceDefined, Unraced
  <1> QED BY <1>1, <1>4

\* What retry-failed may do to the status of failed rows.
RetriesBack ==
  ~forced => \A p \in DOMAIN rows :
    Retries /\ rows[p].status = "FAILED" /\ rows'[p].status # "FAILED" =>
      rows'[p].status = CASE failedIn[p] = "IN_PROGRESS" -> "READY"
                          [] failedIn[p] = "COMPACTING"  -> "COMPACT_READY"
                          [] failedIn[p] = "IMPORTING"   -> "FINISHED"

\* While retry-failed runs no other step moves a failed row.
LEMMA RetryStep ==
  ASSUME Sequential, OInv, LInv, SInv, [Next]_vars
  PROVE  RetriesBack
  <1> SUFFICES ASSUME ~forced, NEW p \in DOMAIN rows, rows[p].status = "FAILED",
                      rows'[p].status # "FAILED", NEW o \in Operator, op[o].command = "retry-failed"
               PROVE  rows'[p].status = CASE failedIn[p] = "IN_PROGRESS" -> "READY"
                                          [] failedIn[p] = "COMPACTING"  -> "COMPACT_READY"
                                          [] failedIn[p] = "IMPORTING"   -> "FINISHED"
    BY DEF RetriesBack, Retries
  <1>1. ~FailedWaits /\ rows' # rows
    BY DEF FailedWaits, FailedStays
  <1>2. PICK x \in Operator : List(x) \/ Updates(x) \/ Interrupted(x)
    BY <1>1, PipelineStages, RewriteDoneStages, CompactionDoneStages, ProgressStages, TimeStages
    DEF Next, vars
  <1>3. x = o
    BY DEF Sequential
  <1>4. ~List(x) /\ ~Interrupted(x)
    BY <1>1 DEF List, ListRetry, ListForceRetry, ListSetPartState, ListResetCompactTimer,
       ListDeleteParts, ListReset, Starts, Interrupted
  <1>5. op[o].generated = {}
    BY DEF LInv, Fits, Formed, Resets
  <1>6. PICK q : q \in DOMAIN op[o].todo /\ RetryPart(o, q)
    BY <1>1, <1>2, <1>3, <1>4, <1>5 DEF Updates, ForceRetryPart, ForceSetPartStatus, ResetCompactTimer,
       ResetOriginalPart, Resets, DeleteJobParts, DeleteResetPrefix
  <1> DEFINE from == op[o].todo[q].from
             row == IF from = "FAILED" THEN RetriedRow(rows[q], op[o].todo[q].to)
                    ELSE UnclaimedRow(rows[q])
  <1>7. q \in DOMAIN rows /\ rows[q].status = from /\ rows' = [rows EXCEPT ![q] = row]
    BY <1>1, <1>6 DEF RetryPart, Update
  <1>8. rows[q].status = "FAILED" =>
          row.status = CASE failedIn[q] = "IN_PROGRESS" -> "READY"
                         [] failedIn[q] = "COMPACTING"  -> "COMPACT_READY"
                         [] failedIn[q] = "IMPORTING"   -> "FINISHED"
    BY <1>6, <1>7, RetryPartMoves
  <1> HIDE DEF row
  <1>9. p = q /\ rows'[p] = row
    BY <1>7
  <1> QED BY <1>8, <1>9

-----------------------------------------------------------------------------
\* Commands of one operator at a time keep the three invariants.
LEMMA CommandsKeepStages ==
  ASSUME Sequential
  PROVE  Spec => [](OInv /\ LInv /\ SInv)
  <1>1. OInv /\ LInv /\ SInv /\ [Next]_vars => OInv' /\ LInv' /\ SInv'
    BY OInvNext, LInvNext, SInvNext DEF Sequential
  <1>2. Init => SInv
    BY SInvInit
  <1> QED BY <1>1, <1>2, OInvInit, LInvInit, PTL DEF Spec

\* By one operator at a time beside running workers finalizeCompactReadyTx, which ends
\* the maintenance of all jobs with an error when a job that is ready has no original
\* compact-ready timestamp, never meets such a job: not after resets, partial or
\* interrupted, deletions, retries and any chain of compactions; with the exceptions of
\* SourcesHeldOnce. delete-parts of SUPERSEDED originals, which does leave such a job, is
\* one of the uses that Restrained excludes.
THEOREM MaintenanceStaysDefined ==
  ASSUME Sequential
  PROVE  Spec => []MaintenanceDefined
  BY CommandsKeepStages, SInvImplies, PTL

\* By one operator at a time beside running workers no row is offered for compaction or
\* import that has not been rewritten since it was last READY: reset-compaction, which
\* looks for descriptions in S3 and not at the rows, does not skip a rewrite. Parts whose
\* rewrite was copied from another job are excluded.
THEOREM OffersAreRewritten ==
  ASSUME Sequential
  PROVE  Spec => []OfferedMeansRewritten
  BY CommandsKeepStages, SInvImplies, PTL

\* By one operator at a time beside running workers retry-failed returns a row to the
\* stage it failed in, although it decides by two timestamps it read when it listed the row.
THEOREM RetriesReturn ==
  ASSUME Sequential
  PROVE  Spec => RetryReturnsToFailedStage
  <1>1. OInv /\ LInv /\ SInv /\ [Next]_vars => [RetriesBack]_vars
    BY RetryStep
  <1>2. [][RetriesBack]_vars => RetryReturnsToFailedStage
    BY PTL DEF RetriesBack, RetryReturnsToFailedStage
  <1> QED BY <1>1, <1>2, CommandsKeepStages, PTL DEF Spec
=============================================================================
