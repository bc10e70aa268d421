------------------------------- MODULE Rewrite -------------------------------
(* One part from its claim to its registered artifact: ProcessPart,         *)
(* rewritePart and uploadFinishedArtifact (internal/rewrite/processor.go)   *)
(* under the worker that runs them (cmd/partforge/main.go), the progress    *)
(* heartbeat goroutine, the part's row and the objects under its finished   *)
(* key.  Attempts fail, are cancelled, crash and are claimed again; every   *)
(* attempt replaces the objects of the one before.                          *)
(*                                                                          *)
(* The stages' local work on ClickHouse is the business of InsertSelect and *)
(* MergeWait; here it succeeds or fails.  Rows written by two attempts are  *)
(* the same, the names of the parts that hold them are not.                 *)
EXTENDS Integers, Sequences, FiniteSets

CONSTANTS
  Worker, NoWorker,
  File,          \* names of finished part tarballs
  MaxAttempts    \* bound on claims

ASSUME RewriteAssumption ==
  /\ NoWorker \notin Worker /\ MaxAttempts \in Nat

\* The stages a part goes through, in the order they are reported; download_source
\* is reported again when the manifest refers to objects of another job.  A row's
\* stage is a position in this list.
Stages ==
  <<"process_part", "prepare_work_dir", "download_source", "read_manifest",
    "download_source",
    "prepare_worker_tables", "attach_source_part", "insert_select",
    "configure_merge_settings", "wait_merges", "measure_destination_parts",
    "freeze_destination_parts", "archive_finished_parts",
    "delete_finished_artifact", "upload_finished_tarballs", "complete_part">>

Index(stage) == CHOOSE i \in DOMAIN Stages : Stages[i] = stage

ReadingManifest == Index("read_manifest")
Measuring == Index("measure_destination_parts")
Deleting == Index("delete_finished_artifact")
Uploading == Index("upload_finished_tarballs")
Last == Len(Stages)

VARIABLES
  source,     \* empty: its rewrite has no rows; zeroCopy: its manifest lists objects
  row,        \* the part's row: status, worker, attempts, stage, parts
  objects,    \* objects under the finished key: the attempt that wrote each
  proc,       \* every worker's ProcessPart
  beat,       \* every worker's heartbeat goroutine, and reportMu
  overlapped  \* ghost: an operator retried the row while its worker still ran

vars == <<source, row, objects, proc, beat, overlapped>>

NoObject == 0
Idle == [attempt |-> 0, at |-> 0, files |-> {}, todo |-> {}, cancelled |-> FALSE]

\* What the heartbeat is about to write; locked means it holds reportMu.
NoBeat == [locked |-> FALSE, stage |-> 0]

Init ==
  /\ source \in [empty : BOOLEAN, zeroCopy : BOOLEAN]
  /\ row = [status |-> "READY", worker |-> NoWorker, attempts |-> 0, stage |-> 0,
            files |-> {}]
  /\ objects = [f \in File |-> NoObject]
  /\ proc = [w \in Worker |-> Idle]
  /\ beat = [w \in Worker |-> NoBeat]
  /\ overlapped = FALSE

Busy(w) == proc[w].at > 0
Owns(w) == row.status = "IN_PROGRESS" /\ row.worker = w
Stored == {f \in File : objects[f] # NoObject}

\* The worker claims the part and starts ProcessPart and its heartbeat.
Claim(w) ==
  /\ ~Busy(w) /\ row.status = "READY" /\ row.attempts < MaxAttempts
  /\ row' = [row EXCEPT !.status = "IN_PROGRESS", !.worker = w,
                        !.attempts = @ + 1, !.stage = 1]
  /\ proc' = [proc EXCEPT ![w] = [Idle EXCEPT !.attempt = row.attempts + 1, !.at = 1]]
  /\ UNCHANGED <<source, objects, beat>>

\* The next stage; an empty output is neither archived nor uploaded.
NextStage(w) ==
  LET at == proc[w].at
  IN IF at = Measuring /\ source.empty THEN Last
     ELSE IF at = ReadingManifest /\ ~source.zeroCopy THEN at + 2
     ELSE at + 1

\* The work of a stage is done when no object is left to delete or upload.
StageDone(w) == proc[w].todo = {}

\* Objects the new stage has to delete or upload.
Todo(w, at) ==
  IF at = Deleting THEN Stored ELSE IF at = Uploading THEN proc[w].files ELSE {}

\* reportStageProgress: under reportMu the tracker moves to the next stage and
\* the row is written, which fails when the row is not this worker's.
ReportStage(w) ==
  /\ Busy(w) /\ proc[w].at < Last /\ StageDone(w)
  /\ ~proc[w].cancelled /\ ~beat[w].locked
  /\ Owns(w)
  /\ LET at == NextStage(w)
     IN \E files \in SUBSET File :
          /\ IF at = Measuring THEN (files = {}) = source.empty ELSE files = proc[w].files
          /\ proc' = [proc EXCEPT ![w].at = at, ![w].files = files,
                                  ![w].todo = Todo(w, at)]
          /\ row' = [row EXCEPT !.stage = at]
  /\ UNCHANGED <<source, objects, beat>>

\* Mutant: what an earlier attempt left behind is not deleted.
DeleteNothing(w) ==
  /\ Busy(w) /\ proc[w].at = Deleting /\ proc[w].todo # {} /\ ~proc[w].cancelled
  /\ proc' = [proc EXCEPT ![w].todo = {}]
  /\ UNCHANGED <<source, row, objects, beat>>

\* DeletePrefixIfExists removes what it lists.
DeleteObject(w) ==
  /\ Busy(w) /\ proc[w].at = Deleting /\ ~proc[w].cancelled
  /\ \E f \in proc[w].todo :
       /\ objects' = [objects EXCEPT ![f] = NoObject]
       /\ proc' = [proc EXCEPT ![w].todo = @ \ {f}]
  /\ UNCHANGED <<source, row, beat>>

\* UploadDir writes the tarballs one by one.
UploadFile(w) ==
  /\ Busy(w) /\ proc[w].at = Uploading /\ ~proc[w].cancelled
  /\ \E f \in proc[w].todo :
       /\ objects' = [objects EXCEPT ![f] = proc[w].attempt]
       /\ proc' = [proc EXCEPT ![w].todo = @ \ {f}]
  /\ UNCHANGED <<source, row, beat>>

Ends(w) == proc' = [proc EXCEPT ![w] = Idle] /\ beat' = [beat EXCEPT ![w] = NoBeat]

\* MarkCompactReady registers the result; a row that is not this worker's any
\* more stays as it is, and the worker ends.
Complete(w) ==
  /\ Busy(w) /\ proc[w].at = Last /\ ~proc[w].cancelled /\ ~beat[w].locked
  /\ row' = IF Owns(w)
            THEN [row EXCEPT !.status = "COMPACT_READY", !.worker = NoWorker,
                             !.files = proc[w].files]
            ELSE row
  /\ Ends(w)
  /\ UNCHANGED <<source, objects>>

\* A stage, a report or the heartbeat fails: MarkFailed, if the row is still
\* this worker's.  On shutdown the part goes back to READY instead, also when
\* the artifact is complete already.
Fail(w) ==
  /\ Busy(w) /\ ~beat[w].locked
  /\ row' \in IF Owns(w)
              THEN {[row EXCEPT !.status = "FAILED", !.worker = NoWorker],
                    [row EXCEPT !.status = "READY", !.worker = NoWorker, !.stage = 0]}
              ELSE {row}
  /\ Ends(w)
  /\ UNCHANGED <<source, objects>>

\* The process dies: nothing is recorded.
Crash(w) ==
  /\ Busy(w)
  /\ Ends(w)
  /\ UNCHANGED <<source, row, objects>>

-----------------------------------------------------------------------------
(* The heartbeat goroutine                                                  *)

\* Mutant: the snapshot is taken without reportMu.
SnapshotUnlocked(w) ==
  /\ Busy(w) /\ beat[w].stage = 0
  /\ beat' = [beat EXCEPT ![w].stage = proc[w].at]
  /\ UNCHANGED <<source, row, objects, proc>>

\* reportStageSnapshot takes reportMu and a snapshot of the tracker ...
Snapshot(w) ==
  /\ Busy(w) /\ ~beat[w].locked /\ ~proc[w].cancelled
  /\ beat' = [beat EXCEPT ![w] = [locked |-> TRUE, stage |-> proc[w].at]]
  /\ UNCHANGED <<source, row, objects, proc>>

\* Mutant: reportMu stays locked when the row is lost.
WriteSnapshotLocked(w) ==
  /\ beat[w].stage # 0
  /\ IF Owns(w)
     THEN row' = [row EXCEPT !.stage = beat[w].stage] /\ beat' = [beat EXCEPT ![w] = NoBeat]
     ELSE UNCHANGED row /\ beat' = [beat EXCEPT ![w].stage = 0]
  /\ UNCHANGED <<source, objects, proc>>

\* ... and writes it; an error cancels the part's context.
WriteSnapshot(w) ==
  /\ beat[w].stage # 0
  /\ beat' = [beat EXCEPT ![w] = NoBeat]
  /\ IF Owns(w)
     THEN row' = [row EXCEPT !.stage = beat[w].stage] /\ UNCHANGED proc
     ELSE proc' = [proc EXCEPT ![w].cancelled = TRUE] /\ UNCHANGED row
  /\ UNCHANGED <<source, objects>>

\* The write itself fails.
WriteFails(w) ==
  /\ beat[w].stage # 0
  /\ beat' = [beat EXCEPT ![w] = NoBeat]
  /\ proc' = [proc EXCEPT ![w].cancelled = TRUE]
  /\ UNCHANGED <<source, row, objects>>

-----------------------------------------------------------------------------
\* retry-failed, also -include-in-progress, whether or not the row's worker
\* is gone.
Retry ==
  /\ row.status \in {"FAILED", "IN_PROGRESS"}
  /\ row' = [row EXCEPT !.status = "READY", !.worker = NoWorker, !.stage = 0]
  /\ overlapped' = (overlapped \/ (row.status = "IN_PROGRESS" /\ Busy(row.worker)))
  /\ UNCHANGED <<source, objects, proc, beat>>

Over ==
  /\ \A w \in Worker : ~Busy(w)
  /\ row.status \in {"COMPACT_READY", "READY", "FAILED"}
  /\ UNCHANGED vars

Step(w) == ReportStage(w) \/ DeleteObject(w) \/ UploadFile(w) \/ Complete(w)
Beat(w) == Snapshot(w) \/ WriteSnapshot(w)

Next ==
  \/ /\ \E w \in Worker :
          Claim(w) \/ Step(w) \/ Beat(w) \/ WriteFails(w) \/ Fail(w) \/ Crash(w)
     /\ UNCHANGED overlapped
  \/ Retry
  \/ Over

Spec == Init /\ [][Next]_vars

\* The work goes on, and an error is acted upon; SF because the heartbeat
\* takes reportMu again and again.
FairSpec ==
  /\ Spec
  /\ \A w \in Worker :
       /\ SF_vars(Step(w) /\ UNCHANGED overlapped)
       /\ WF_vars(WriteSnapshot(w) /\ UNCHANGED overlapped)
       /\ SF_vars(Fail(w) /\ (proc[w].cancelled \/ ~Owns(w)) /\ UNCHANGED overlapped)

-----------------------------------------------------------------------------
(* Properties                                                               *)

\* Types.
RewriteTypeOK ==
  /\ source \in [empty : BOOLEAN, zeroCopy : BOOLEAN]
  /\ row.status \in {"READY", "IN_PROGRESS", "COMPACT_READY", "FAILED"}
  /\ (row.status = "IN_PROGRESS") = (row.worker \in Worker)
  /\ row.attempts \in 0..MaxAttempts /\ row.stage \in 0..Last /\ row.files \subseteq File
  /\ objects \in [File -> 0..MaxAttempts]
  /\ \A w \in Worker :
       /\ proc[w].at \in 0..Last /\ proc[w].attempt \in 0..MaxAttempts
       /\ proc[w].files \subseteq File /\ proc[w].todo \subseteq File
       /\ beat[w].stage <= proc[w].at

\* A registered artifact consists of the files its attempt measured and of no
\* object of an earlier attempt, however many attempts ended halfway through
\* deleting or uploading; an empty output has no objects.  Two attempts that run
\* at the same time, which only a retry of a running row allows, may mix.
ArtifactIsOneAttempt ==
  row.status = "COMPACT_READY" /\ ~overlapped =>
     /\ Stored = row.files
     /\ \A f \in Stored : objects[f] = row.attempts
     /\ source.empty => Stored = {}

\* The stage recorded for an attempt never moves back: a heartbeat's snapshot
\* does not overwrite a later stage.
StageMovesForward ==
  [][row'.attempts = row.attempts /\ row.status = "IN_PROGRESS" /\ row'.status = "IN_PROGRESS"
       => row'.stage >= row.stage]_vars

\* A claimed part does not stay with a worker that keeps running: it is
\* registered, failed, released or its worker dies.
ClaimSettles ==
  \A w \in Worker : Busy(w) ~> ~Busy(w)

\* Rows and workers agree, and a registered artifact is that of one attempt.
RewriteInv == RewriteTypeOK /\ ArtifactIsOneAttempt
=============================================================================
