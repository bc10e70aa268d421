------------------------------ MODULE Operator ------------------------------
(* The operators' commands that change the state of a job's parts           *)
(* (cmd/partforge/main.go): retry-failed, set-part-state, reset-compact-    *)
(* timer, reset-job, reset-compaction and delete-parts, on top of the store *)
(* and of the workers and importers that keep using it.                     *)
(*                                                                          *)
(* A command lists the job's rows, decides, and then updates row by row, in *)
(* transactions of their own.  What it has read is out of date by then:     *)
(* `changed' holds the rows whose updated_at is no longer the one read.     *)
EXTENDS PartStore

CONSTANTS
  Operator,       \* commands that may run at the same time
  MaxEffort,      \* bound on a behaviour: a command counts two, a step of others
                  \* while a command resets or deletes counts one
  MaxForced,      \* bound on the rows of a job when they are forced
  Command,        \* the commands operators use
  Settings,       \* <<from, to>>: uses of set-part-state -status
  DeleteStatus,   \* uses of delete-parts -status
  Copied          \* originals registered by upload-freeze -copy-parts-from-job

ASSUME OperatorAssumption ==
  /\ Command \subseteq {"retry-failed", "retry-failed -force", "set-part-state",
                        "reset-compact-timer", "reset-job", "reset-compaction", "delete-parts"}
  /\ Settings \subseteq Status \X {"READY", "COMPACT_READY", "FINISHED"}
  /\ MaxEffort \in Nat /\ MaxForced \in Nat
  /\ DeleteStatus \subseteq Status /\ Copied \subseteq Original

VARIABLES
  op,          \* every operator's command
  effort,      \* what MaxEffort bounds
  described,   \* originals with destination metadata
  stored,      \* rows whose finished key holds an artifact in S3
  rewritten,   \* ghost: rows whose data has been rewritten since they were READY
  failedIn,    \* ghost: the status in which every FAILED row failed
  forced,      \* ghost: a command that overrides the state of rows was used
  raced        \* ghost: how a worker has overtaken a command, see Overtakes

vars == <<rows, windowExpired, op, effort, described, stored, rewritten, failedIn, forced, raced>>

\* todo: the rows still to be updated, with the status read and the target.
Idle == [command |-> "none", generated |-> {}, todo |-> <<>>, prefixes |-> {}, changed |-> {}]

Resets == {"reset-job", "reset-compaction"}
Overrides == {"retry-failed -force", "reset-compact-timer"}

Originals(R) == {p \in DOMAIN R : ~IsGenerated(R[p])}
Generated(R) == DOMAIN R \ Originals(R)

Init ==
  /\ \E S \in (SUBSET Original) \ {{}} : rows = [o \in S |-> NewPart(o)]
  /\ windowExpired = [j \in Job |-> FALSE]
  /\ op = [o \in Operator |-> Idle] /\ effort = 0
  /\ described = Copied
  /\ stored = {} /\ rewritten = {} /\ failedIn = <<>> /\ forced = FALSE /\ raced = {}

\* The ghosts of a step that completes the rows `done': a row that fails
\* remembers where it came from.
Ghosts(done) ==
  /\ failedIn' = [p \in {p \in DOMAIN rows' : rows'[p].status = "FAILED"} |->
                    IF rows[p].status = "FAILED" THEN failedIn[p] ELSE rows[p].status]
  /\ rewritten' = {p \in (rewritten \cup done) \cap DOMAIN rows' :
                     rows'[p].status \notin {"READY", "IN_PROGRESS"}}

\* The commands have an old updated_at for the rows T.
Outdated(T) ==
  [x \in Operator |-> [op[x] EXCEPT !.changed = @ \cup (T \cap DOMAIN op[x].todo)]]

\* A step of operator o writes the rows T; its command goes on as c.
Continue(o, c, T) ==
  /\ op' = [Outdated(T) EXCEPT ![o] =
              IF c.generated = {} /\ c.todo = <<>> /\ c.prefixes = {} THEN Idle ELSE c]
  /\ effort' = IF op[o] = Idle THEN effort + 2 ELSE effort
  /\ forced' = (forced \/ c.command \in Overrides)
  /\ UNCHANGED raced
  /\ Ghosts({})

Without(f, p) == [x \in DOMAIN f \ {p} |-> f[x]]

-----------------------------------------------------------------------------
(* Workers and the importer: the store's operations, which set updated_at.  *)

Deleting == \E o \in Operator : op[o].command \in Resets \cup {"delete-parts"}

\* Their steps write the rows T and complete the rows `done'.
Written(T, done) ==
  /\ Deleting => effort < MaxEffort
  /\ effort' = IF Deleting THEN effort + 1 ELSE effort
  /\ op' = Outdated(T) /\ Ghosts(done) /\ UNCHANGED forced

\* Prefixes whose rows the command has done with.
Doomed(c) == c.prefixes \ (c.generated \cup DOMAIN c.todo)

\* The two ways in which a completion overtakes a reset or delete-parts: it
\* replaces rows B that the command has listed for deletion, or stores the
\* artifact of a row N that the command has deleted or reset already, under a
\* prefix that it is going to delete.
Overtakes(B, N) ==
  raced' = raced \cup {x \in {"rows", "objects"} : \E o \in Operator :
                         \/ x = "rows" /\ op[o].generated \cap B # {}
                         \/ x = "objects" /\ N \cap Doomed(op[o]) # {}}

\* Exact summaries; what stale ones may do is the business of Pipeline.
Maintain == \E S \in SUBSET Stale : MaintainCompaction(S, [j \in Job |-> JobSummary(ReleasedStale(rows, S), j)])

PipelineStep ==
  /\ \/ \E w \in Worker, p \in DOMAIN rows :
          ClaimNextReady(w, p) \/ MarkFailed(w, p) \/ ReleaseInProgress(w, p)
     \/ \E w \in Worker, B \in CompactBatches({}) : ClaimNextCompactBatch(w, B, {})
     \/ \E w \in Worker, B \in SUBSET DOMAIN rows :
          ReleaseCompactBatch(w, B, FALSE) \/ MarkCompactBatchFailed(w, B)
     \/ Maintain
     \/ \E p \in DOMAIN rows : MarkImporting(p) \/ MarkImported(p) \/ MarkImportFailed(p)
  /\ Written({p \in DOMAIN rows : rows'[p] # rows[p]}, {})
  /\ UNCHANGED <<described, stored, raced>>

\* The artifact is uploaded before the row says so; an empty output has none.
RewriteDone(w, p) ==
  /\ \E s \in Shape : /\ MarkCompactReady(w, p, s)
                      /\ stored' = IF s.parts > 0 THEN stored \cup {p} ELSE stored
  /\ described' = described \cup {p}
  /\ Written({p}, {p}) /\ Overtakes({}, {p})

CompactionDone(w, B) ==
  /\ \E s \in Reductions(B) : CompleteCompaction(w, B, s)
  /\ stored' = stored \cup (DOMAIN rows' \ DOMAIN rows)
  /\ UNCHANGED described
  /\ Written(B, DOMAIN rows' \ DOMAIN rows) /\ Overtakes(B, DOMAIN rows' \ DOMAIN rows)

\* Progress reports and heartbeats set updated_at and change nothing else here.
Progress(p) ==
  /\ p \in DOMAIN rows /\ rows[p].status \in {"IN_PROGRESS", "COMPACTING"}
  /\ UNCHANGED <<rows, windowExpired, described, stored, raced>>
  /\ Written({p}, {})

Time ==
  /\ \/ \E p \in DOMAIN rows : LeaseExpires(p)
     \/ \E j \in Job : WindowExpires(j)
  /\ op' = Outdated({}) /\ Ghosts({})
  /\ UNCHANGED <<effort, described, stored, forced, raced>>

-----------------------------------------------------------------------------
(* Commands: what they list and decide                                      *)

WithStatus(S) == {p \in DOMAIN rows : rows[p].status \in S}

\* -all, -status or -part-id: all of S or one of it.
Selections(S) == ({S} \cup {{p} : p \in S}) \ {{}}

Starts(o, command, todo) ==
  /\ op[o] = Idle /\ command \in Command
  /\ UNCHANGED <<rows, windowExpired, described, stored>>
  /\ Continue(o, [Idle EXCEPT !.command = command, !.todo = todo], {})

\* retry-failed, also with -include-in-progress or -stale: the target of a
\* failed row is computed from the row as listed.
ListRetry(o) ==
  \E S \in Selections(WithStatus({"FAILED"})) \cup Selections(WithStatus({"FAILED", "IN_PROGRESS"})) :
    Starts(o, "retry-failed",
      [p \in S |-> [from |-> rows[p].status,
                    to |-> IF rows[p].status = "FAILED" THEN FailedRetryTarget(rows[p]) ELSE "READY"]])

ListForceRetry(o) ==
  Cardinality(DOMAIN rows) <= MaxForced /\ \E S \in Selections(DOMAIN rows) :
    Starts(o, "retry-failed -force", [p \in S |-> [from |-> rows[p].status, to |-> "READY"]])

ListSetPartState(o) ==
  \E x \in Settings : \E S \in Selections(WithStatus({x[1]})) :
    Starts(o, "set-part-state", [p \in S |-> [from |-> x[1], to |-> x[2]]])

ListResetCompactTimer(o) ==
  /\ DOMAIN rows # {} /\ Cardinality(DOMAIN rows) <= MaxForced
  /\ Starts(o, "reset-compact-timer", [p \in DOMAIN rows |-> [from |-> rows[p].status, to |-> rows[p].status]])

\* validateResetLineage
LineageValid(R) ==
  /\ \A g \in Generated(R) : \A p \in R[g].inputs :
       p \in DOMAIN R /\ p # g /\ R[p].supersededBy \subseteq {g}
  /\ \A p \in DOMAIN R : \A g \in R[p].supersededBy \cap DOMAIN R :
       IsGenerated(R[g]) /\ p \in R[g].inputs
  /\ ~\E S \in (SUBSET Generated(R)) \ {{}} : \A g \in S : R[g].inputs \cap S # {}

ImportStarted(r) == r.status \in {"IMPORTING", "IMPORTED"} \/ r.importingAt

\* Mutant: reset-compaction does not ask whether the originals were rewritten.
ResetAllowedUnrewritten(command) ==
  /\ \A p \in DOMAIN rows : ~ImportStarted(rows[p])
  /\ Originals(rows) # {}
  /\ LineageValid(rows)

\* buildResetPlan refuses the job otherwise.
ResetAllowed(command) ==
  /\ \A p \in DOMAIN rows : ~ImportStarted(rows[p])
  /\ \A g \in Generated(rows) : rows[g].inputs # {}
  /\ Originals(rows) # {}
  /\ LineageValid(rows)
  /\ command = "reset-compaction" => Originals(rows) \subseteq described

\* Mutant: reset-compaction deletes the originals' artifacts too.
AllPrefixes(command) == DOMAIN rows

\* resetS3Prefixes
ResetPrefixes(command) ==
  IF command = "reset-job" THEN DOMAIN rows ELSE Generated(rows)

ListReset(o, command) ==
  /\ op[o] = Idle /\ command \in Command \cap Resets
  /\ ResetAllowed(command)
  /\ UNCHANGED <<rows, windowExpired, described, stored>>
  /\ \E deleteS3 \in BOOLEAN :
       Continue(o, [command |-> command, generated |-> Generated(rows),
                    todo |-> [p \in Originals(rows) |->
                                [to |-> IF command = "reset-job" THEN "READY" ELSE "COMPACT_READY"]],
                    prefixes |-> IF deleteS3 THEN ResetPrefixes(command) ELSE {},
                    changed |-> {}], {})

\* delete-parts deletes in the transaction that follows the list.
ListDeleteParts(o) ==
  /\ op[o] = Idle /\ "delete-parts" \in Command
  /\ UNCHANGED <<rows, windowExpired, described, stored>>
  /\ \E S \in Selections(WithStatus(DeleteStatus)) \cup {DOMAIN rows} :
       Continue(o, [Idle EXCEPT !.command = "delete-parts", !.generated = S], {})

-----------------------------------------------------------------------------
(* Commands: their updates                                                  *)

\* One update of operator o; an update that does not find the row as it
\* expects ends the command.
Update(o, p, matches, row) ==
  /\ p \in DOMAIN op[o].todo /\ op[o].generated = {}
  /\ IF p \in DOMAIN rows /\ matches
     THEN /\ rows' = [rows EXCEPT ![p] = row]
          /\ Continue(o, [op[o] EXCEPT !.todo = Without(@, p), !.changed = @ \ {p}], {p})
     ELSE rows' = rows /\ Continue(o, Idle, {})
  /\ UNCHANGED stored

\* RetryFailedPart and RetryInProgressPart: the status is checked, the rest of
\* what was read is not.
RetryPart(o, p) ==
  /\ op[o].command = "retry-failed"
  /\ p \in DOMAIN op[o].todo
  /\ LET x == op[o].todo[p]
     IN Update(o, p, rows[p].status = x.from,
               IF x.from = "FAILED" THEN RetriedRow(rows[p], x.to) ELSE UnclaimedRow(rows[p]))
  /\ UNCHANGED <<windowExpired, described>>

\* compact_ready_at, superseded_by and a finalization request stay.
ForceRetriedRow(r) == [r EXCEPT !.status = "READY", !.worker = NoWorker,
                                !.shape = EmptyShape, !.importingAt = FALSE]

ForceRetryPart(o, p) ==
  /\ op[o].command = "retry-failed -force"
  /\ Update(o, p, TRUE, ForceRetriedRow(rows[p]))
  /\ UNCHANGED <<windowExpired, described>>

SetRow(r, to) ==
  [r EXCEPT !.status = to, !.worker = NoWorker, !.leaseExpired = FALSE,
            !.finalizeRequested = FALSE, !.importingAt = FALSE, !.supersededBy = {},
            !.shape = IF to = "READY" THEN EmptyShape ELSE @,
            !.compactReadyAt = IF to = "READY" THEN FALSE ELSE to = "COMPACT_READY" \/ @]

\* Mutant: updated_at is not compared.
SetPartStatusAlways(o, p) ==
  /\ op[o].command = "set-part-state" /\ p \in DOMAIN op[o].todo
  /\ Update(o, p, TRUE, SetRow(rows[p], op[o].todo[p].to))
  /\ UNCHANGED <<windowExpired, described>>

ForceSetPartStatus(o, p) ==
  /\ op[o].command = "set-part-state" /\ p \in DOMAIN op[o].todo
  /\ Update(o, p, p \notin op[o].changed, SetRow(rows[p], op[o].todo[p].to))
  /\ UNCHANGED <<windowExpired, described>>

\* On every row, whatever its status; updated_at stays.
ResetCompactTimer(o, p) ==
  /\ op[o].command = "reset-compact-timer" /\ p \in DOMAIN op[o].todo
  /\ IF p \in DOMAIN rows
     THEN /\ rows' = [rows EXCEPT ![p].compactReadyAt = TRUE]
          /\ windowExpired' = IF IsGenerated(rows[p]) THEN windowExpired
                              ELSE [windowExpired EXCEPT ![rows[p].job] = FALSE]
          /\ Continue(o, [op[o] EXCEPT !.todo = Without(@, p), !.changed = @ \ {p}], {})
     ELSE UNCHANGED <<rows, windowExpired>> /\ Continue(o, Idle, {})
  /\ UNCHANGED <<described, stored>>

\* Mutant: generated rows that are already superseded stay.
DeleteLiveGenerated(o) ==
  /\ op[o].generated # {}
  /\ rows' = [p \in DOMAIN rows \ {g \in op[o].generated : Live(rows[g])} |-> rows[p]]
  /\ Continue(o, [op[o] EXCEPT !.generated = {}], op[o].generated)
  /\ UNCHANGED <<windowExpired, described, stored>>

\* DeleteJobParts: all of the selected rows, whatever has become of them, or
\* none when one is gone.
DeleteJobParts(o) ==
  /\ op[o].generated # {}
  /\ IF op[o].generated \subseteq DOMAIN rows
     THEN /\ rows' = [p \in DOMAIN rows \ op[o].generated |-> rows[p]]
          /\ Continue(o, [op[o] EXCEPT !.generated = {}], op[o].generated)
     ELSE rows' = rows /\ Continue(o, Idle, {})
  /\ UNCHANGED <<windowExpired, described, stored>>

\* Mutant: compact_ready_at survives a reset to READY.
ResetRowKeepingReady(r, to) ==
  [r EXCEPT !.status = to, !.worker = NoWorker, !.leaseExpired = FALSE,
            !.finalizeRequested = FALSE, !.importingAt = FALSE, !.supersededBy = {},
            !.shape = IF to = "READY" THEN EmptyShape ELSE @]

\* ResetOriginalPartToReady and ResetOriginalPartToCompactReady
ResetRow(r, to) == [ResetRowKeepingReady(r, to) EXCEPT !.compactReadyAt = (to = "COMPACT_READY")]

ResetOriginalPart(o, p) ==
  /\ op[o].command \in Resets /\ p \in DOMAIN op[o].todo
  /\ LET to == op[o].todo[p].to
         same == p \notin op[o].changed
     IN /\ Update(o, p, same, ResetRow(rows[p], to))
        /\ windowExpired' = IF same /\ to = "COMPACT_READY"
                            THEN [windowExpired EXCEPT ![rows[p].job] = FALSE] ELSE windowExpired
        /\ described' = IF same /\ to = "READY" THEN described \ ({p} \ Copied) ELSE described

\* -delete-s3, after the rows have been reset
DeleteResetPrefix(o, p) ==
  /\ op[o].generated = {} /\ op[o].todo = <<>> /\ p \in op[o].prefixes
  /\ stored' = stored \ {p}
  /\ UNCHANGED <<rows, windowExpired, described>>
  /\ Continue(o, [op[o] EXCEPT !.prefixes = @ \ {p}], {})

\* The command is interrupted, or an update fails.
Interrupted(o) ==
  /\ op[o] # Idle
  /\ UNCHANGED <<rows, windowExpired, described, stored>>
  /\ Continue(o, Idle, {})

-----------------------------------------------------------------------------
List(o) ==
  /\ effort + 2 <= MaxEffort
  /\ \/ ListRetry(o) \/ ListForceRetry(o) \/ ListSetPartState(o)
     \/ ListResetCompactTimer(o) \/ ListDeleteParts(o)
     \/ \E command \in Resets : ListReset(o, command)

Updates(o) ==
  \/ \E p \in DOMAIN op[o].todo :
       \/ RetryPart(o, p) \/ ForceRetryPart(o, p) \/ ForceSetPartStatus(o, p)
       \/ ResetCompactTimer(o, p) \/ ResetOriginalPart(o, p)
  \/ DeleteJobParts(o)
  \/ \E p \in op[o].prefixes : DeleteResetPrefix(o, p)

Next ==
  \/ PipelineStep
  \/ \E w \in Worker, p \in DOMAIN rows : RewriteDone(w, p)
  \/ \E w \in Worker, B \in SUBSET DOMAIN rows : CompactionDone(w, B)
  \/ \E p \in DOMAIN rows : Progress(p)
  \/ Time
  \/ \E o \in Operator : List(o) \/ Updates(o) \/ Interrupted(o)

Spec == Init /\ [][Next]_vars

-----------------------------------------------------------------------------
(* Properties                                                               *)

\* Types; rows may refer to deleted rows.
OperatorTypeOK ==
  /\ \A p \in DOMAIN rows : rows[p].status \in Status /\ rows[p].lineage \subseteq Original
  /\ forced \in BOOLEAN /\ raced \subseteq {"rows", "objects"}
  /\ rewritten \subseteq DOMAIN rows
  /\ DOMAIN failedIn = WithStatus({"FAILED"})
  /\ \A p \in DOMAIN failedIn : failedIn[p] \in {"IN_PROGRESS", "COMPACTING", "IMPORTING"}
  /\ \A o \in Operator : op[o].changed \subseteq DOMAIN op[o].todo

\* Whatever the commands and the workers between them do, no source part is
\* held by two live rows, and none is lost: it is held by a live row or by one
\* whose successor was deleted, by a reset that can be repeated or after import;
\* unless rows were forced, or a completion has replaced rows that a reset or
\* delete-parts had listed and not yet deleted: what it produced is then beside
\* the command's list.
HeldOnce == ~forced /\ "rows" \notin raced =>
  /\ NothingTwice
  /\ \A o \in Originals(rows) :
       \E p \in DOMAIN rows :
         /\ o \in rows[p].lineage
         /\ Live(rows[p]) \/ rows[p].supersededBy \cap DOMAIN rows = {}

\* A reset is refused only because of an import or a missing rewrite: the
\* lineage validates at all times, also after interrupted resets and beside
\* running workers, with the exceptions of HeldOnce.
ResetStaysPossible == ~forced /\ "rows" \notin raced => LineageValid(rows)

\* Every row that is offered for compaction or import with parts has its
\* artifact in S3, whatever resets have deleted; unless a worker stored an
\* artifact of a row that a reset had done with, before the reset deleted the
\* row's prefix.
ArtifactStored == "objects" \notin raced =>
  \A p \in DOMAIN rows :
    rows[p].status \in {"COMPACT_READY", "COMPACTING", "FINISHED"} /\ rows[p].shape.parts > 0
      => p \in stored

\* maintenance.go:151 does not meet a job without an original compact-ready
\* timestamp, an error that would end the maintenance of all jobs, with the
\* exceptions of HeldOnce.
MaintenanceDefined == ~forced /\ "rows" \notin raced =>
  \A j \in Job :
    LET m == JobSummary(rows, j)
    IN m.ready /\ ~m.blocked =>
         \E p \in Originals(rows) : rows[p].job = j /\ rows[p].compactReadyAt

\* docs/operations.md:117: reset-compaction moves "rewritten originals back to
\* COMPACT_READY"; no row that was not forced is offered before it has been
\* rewritten.
OfferedMeansRewritten == ~forced =>
  \A p \in DOMAIN rows :
    rows[p].status \in {"COMPACT_READY", "COMPACTING", "FINISHED"} => p \in rewritten

\* A row has an owner exactly while somebody works on it, whatever is forced.
OwnerIffWorking ==
  \A p \in DOMAIN rows :
    rows[p].worker # NoWorker <=> rows[p].status \in {"IN_PROGRESS", "COMPACTING"}

Retries == \E o \in Operator : op[o].command = "retry-failed" /\ op'[o] # op[o]

\* docs/operations.md:126: retry-failed moves failed rewrites back to READY
\* and failed imports back to FINISHED, unless rows were forced.
RetryReturnsToFailedStage ==
  [][~forced => \A p \in DOMAIN rows :
       Retries /\ rows[p].status = "FAILED" /\ rows'[p].status # "FAILED" =>
         rows'[p].status = CASE failedIn[p] = "IN_PROGRESS" -> "READY"
                             [] failedIn[p] = "COMPACTING"  -> "COMPACT_READY"
                             [] failedIn[p] = "IMPORTING"   -> "FINISHED"]_vars

\* What no command breaks, forced or not: rows and commands are well formed,
\* owners are those who work, and artifacts on offer are in S3.
OperatorInv == OperatorTypeOK /\ OwnerIffWorking /\ ArtifactStored
=============================================================================
