------------------------------- MODULE Upload -------------------------------
(* The commands that create and delete jobs (cmd/partforge/main.go):       *)
(* upload-freeze and upload-backup, upload-freeze -copy-parts-from-job,    *)
(* upload-chain and delete-job -delete-s3, with the state rows and the     *)
(* objects under s3://bucket/prefix/jobs/<job> they leave for workers.     *)
(* Parts go through processTasksInParallel (module TaskPool), here in any  *)
(* order.  A part keeps its label in the jobs derived from its job:        *)
(* DerivePartID gives one part id per job, source part and SQL.            *)
(* upload-backup reads the backups of module Backup, which are taken first.*)
EXTENDS Backup

CONSTANTS
  Job, Part,
  Origins,     \* functions Job -> what creates it: [kind, from, parts]
  NoKey,       \* no reference
  MaxFaults    \* failed or interrupted commands

Kinds == {"upload", "copy", "chain", "none"}
Key == Job \X Part

ASSUME UploadAssumption ==
  /\ IsFiniteSet(Job) /\ IsFiniteSet(Part) /\ NoKey \notin Key
  /\ Origins \subseteq [Job -> [kind : Kinds, from : Job, parts : SUBSET Part]]
  /\ \A o \in Origins, j \in Job : o[j].kind \in {"copy", "chain"} => o[j].from # j
  /\ MaxFaults \in Nat

VARIABLES
  rows,      \* state rows: a function on the keys that have one
  objects,   \* S3: <<"source", key>> and <<"finished", key>>
  create,    \* Job -> the command that creates it
  delete,    \* Job -> the delete-job command for it
  broken,    \* jobs whose objects a failed delete-job may have removed
  faults,
  origin,       \* what creates each job, one of Origins; parts: what an upload finds
  overlapped    \* ghost: a job was listed while its upload still ran

uploadVars == <<rows, objects, create, delete, broken, faults, origin, overlapped>>
vars == <<uploadVars, backup>>

Source(k) == <<"source", k>>
Finished(k) == <<"finished", k>>
Under(j) == {o \in objects : o[2][1] = j}       \* the objects below jobs/<j>

\* ListJobParts
Rows(j) == {k \in DOMAIN rows : k[1] = j}

\* sourcePartRef: the row that owns the source objects.
OwnerOf(k) == IF rows[k].owner # NoKey THEN rows[k].owner ELSE k

\* source: whose source objects the row's SourceKey names; owner: the row
\* SourceJobID and SourcePartID refer to; parent: SourceFinishedKey.
NewPart(source, owner, parent) ==
  [status |-> "READY", source |-> source, owner |-> owner, parent |-> parent]

NotCopied == [source |-> NoKey, owner |-> NoKey]

Init ==
  /\ rows = << >> /\ objects = {}
  /\ create = [j \in Job |-> [phase |-> "idle", todo |-> {}, sent |-> {},
                             copied |-> [p \in Part |-> NotCopied]]]
  /\ delete = [j \in Job |-> [phase |-> "idle", listed |-> {}]]
  /\ broken = {} /\ faults = 0
  /\ origin \in Origins /\ overlapped = FALSE
  /\ BackupInit

Locked == UNION {delete[j].listed : j \in {i \in Job : delete[i].phase \in {"locked", "erased"}}}
Put(k, row) == [i \in DOMAIN rows \cup {k} |-> IF i = k THEN row ELSE rows[i]]
Sets(j, phase) == create' = [create EXCEPT ![j].phase = phase]
Fault == faults < MaxFaults /\ faults' = faults + 1

\* A command lists the rows of job j, whose upload may not be over.
Listed(j) == overlapped' = (overlapped \/ create[j].phase = "running")

-----------------------------------------------------------------------------
(* Creating a job                                                           *)

Begin(j, parts, copied) ==
  create' = [create EXCEPT ![j] = [phase |-> "running", todo |-> {j} \X parts, sent |-> {},
                                   copied |-> copied]]

\* upload-freeze, of frozen parts, or upload-backup, of a chain of backups that
\* can be resolved.
BeginUpload(j) ==
  /\ origin[j].kind = "upload" /\ create[j].phase = "idle"
  /\ layers # << >> => Prepared
  /\ ForgetBackup
  /\ Begin(j, origin[j].parts, create[j].copied)
  /\ UNCHANGED <<rows, objects, delete, broken, faults, overlapped>>

\* Mutant: parts that are not finished are left out.
SelectFinished(j) ==
  {k \in Rows(j) : rows[k].status = "FINISHED"}

\* selectChainSourceParts: nothing unless every row is finished.
SelectChainSourceParts(j) ==
  IF \A k \in Rows(j) : rows[k].status \in {"FINISHED", "EMPTY"}
  THEN {k \in Rows(j) : rows[k].status = "FINISHED"} ELSE {}

\* upload-freeze -copy-parts-from-job and upload-chain list the rows of the
\* other job once; without a part to read they fail.  upload-chain reads
\* the job's SQL from a source manifest.
BeginDerived(j) ==
  LET from == origin[j].from
      parts == IF origin[j].kind = "copy" THEN Rows(from) ELSE SelectChainSourceParts(from)
  IN /\ origin[j].kind \in {"copy", "chain"} /\ create[j].phase = "idle"
     /\ Rows(from) # {}
     /\ Listed(from)
     /\ IF parts = {} \/ (origin[j].kind = "chain" /\
                          ~\E k \in Rows(from) : Source(rows[k].source) \in objects)
        THEN Sets(j, "failed")
        ELSE Begin(j, {k[2] : k \in parts},
                   [p \in Part |-> IF origin[j].kind = "copy" /\ <<from, p>> \in parts
                                  THEN [source |-> rows[<<from, p>>].source,
                                        owner |-> OwnerOf(<<from, p>>)]
                                  ELSE NotCopied])
     /\ UNCHANGED <<rows, objects, delete, broken, faults>>

\* Mutant: an upload that failed counts as done.
SendPartAnyway(j, k) ==
  /\ create[j].phase = "running" /\ k \in create[j].todo
  /\ origin[j].kind # "copy"
  /\ objects' \in {objects, objects \cup {Source(k)}}
  /\ create' = [create EXCEPT ![j].todo = @ \ {k}, ![j].sent = @ \cup {k}]
  /\ UNCHANGED <<rows, delete, broken, faults>>

\* uploadFreezePart, materializeBackupPart, registerChainPart: UploadDir;
\* registerSourcePartsFromJob: read the manifest of the part to copy, one
\* part after the other.
SendPart(j, k) ==
  /\ create[j].phase = "running" /\ k \in create[j].todo
  /\ \/ origin[j].kind # "copy" /\ objects' = objects \cup {Source(k)}
     \/ /\ origin[j].kind = "copy" /\ create[j].sent = {}
        /\ Source(create[j].copied[k[2]].source) \in objects
        /\ UNCHANGED objects
  /\ create' = [create EXCEPT ![j].todo = @ \ {k}, ![j].sent = @ \cup {k}]
  /\ UNCHANGED <<rows, delete, broken, faults>>

\* CreatePart locks the source row it refers to, and waits for it.
SourceRowLocked(owner) == owner \in (DOMAIN rows \ Locked) \cup {NoKey}

CreatePart(j, k) ==
  LET copied == create[j].copied[k[2]]
      parent == IF origin[j].kind = "chain" THEN <<origin[j].from, k[2]>> ELSE NoKey
  IN /\ create[j].phase = "running" /\ k \in create[j].sent /\ k \notin DOMAIN rows
     /\ SourceRowLocked(copied.owner)
     /\ copied.owner # NoKey => rows[copied.owner].source = copied.source
     /\ rows' = Put(k, NewPart(IF copied = NotCopied THEN k ELSE copied.source,
                               copied.owner, parent))
     /\ create' = [create EXCEPT ![j].sent = @ \ {k},
                     ![j].phase = IF create[j].todo = {} /\ create[j].sent = {k}
                                  THEN "done" ELSE "running"]
     /\ UNCHANGED <<objects, delete, broken, faults>>

\* A copied part whose manifest or source row is gone fails the command.
CopyFails(j) ==
  /\ create[j].phase = "running" /\ origin[j].kind = "copy"
  /\ \/ \E k \in create[j].todo : Source(create[j].copied[k[2]].source) \notin objects
     \/ \E k \in create[j].sent : create[j].copied[k[2]].owner \notin DOMAIN rows
  /\ Sets(j, "failed")
  /\ UNCHANGED <<rows, objects, delete, broken, faults>>

\* An upload fails or the process ends; what it has done stays.
CreateFails(j) ==
  /\ create[j].phase = "running" /\ Fault
  /\ Sets(j, "failed")
  /\ UNCHANGED <<rows, objects, delete, broken>>

-----------------------------------------------------------------------------
(* Workers; module Rewrite has the steps of a rewrite                       *)

\* The source artifact, or for a chained part the parent's finished one.
Readable(k) ==
  /\ Source(rows[k].source) \in objects
  /\ rows[k].parent # NoKey => Finished(rows[k].parent) \in objects

\* A worker rewrites a part and uploads its output, if there is one.
Rewrite(k, status) ==
  /\ k \in DOMAIN rows \ Locked /\ rows[k].status = "READY"
  /\ IF Readable(k) THEN status \in {"FINISHED", "EMPTY"} ELSE status = "FAILED"
  /\ rows' = [rows EXCEPT ![k].status = status]
  /\ objects' = objects \cup IF status = "FINISHED" THEN {Finished(k)} ELSE {}
  /\ UNCHANGED <<create, delete, broken, faults>>

-----------------------------------------------------------------------------
(* delete-job -delete-s3                                                    *)

ListJobParts(j) ==
  /\ delete[j].phase = "idle" /\ Rows(j) # {}
  /\ Listed(j)
  /\ delete' = [delete EXCEPT ![j] = [phase |-> "listed", listed |-> Rows(j)]]
  /\ UNCHANGED <<rows, objects, create, broken, faults>>

\* sourceDependentTx
SourceDependent(j) ==
  \E k \in DOMAIN rows : rows[k].owner \in delete[j].listed

\* DeleteJobPartsAfterLock: lock the listed rows, all of which must exist,
\* and refuse if some row refers to one of them.
LockSelection(j) ==
  /\ delete[j].phase = "listed"
  /\ delete' = [delete EXCEPT ![j].phase =
        IF delete[j].listed \subseteq DOMAIN rows /\ ~SourceDependent(j)
        THEN "locked" ELSE "refused"]
  /\ UNCHANGED <<rows, objects, create, broken, faults>>

\* jobS3Prefixes and DeletePrefix: everything below jobs/<j>.
DeletePrefix(j) ==
  /\ delete[j].phase = "locked"
  /\ objects' = objects \ Under(j)
  /\ delete' = [delete EXCEPT ![j].phase = "erased"]
  /\ UNCHANGED <<rows, create, broken, faults>>

Commit(j) ==
  /\ delete[j].phase = "erased"
  /\ rows' = [k \in DOMAIN rows \ delete[j].listed |-> rows[k]]
  /\ delete' = [delete EXCEPT ![j].phase = "done"]
  /\ UNCHANGED <<objects, create, broken, faults>>

\* The deletion of a prefix or the commit fails: the transaction is rolled
\* back, the objects deleted so far are not.
RollBack(j) ==
  /\ delete[j].phase \in {"locked", "erased"} /\ Fault
  /\ \E gone \in SUBSET Under(j) : objects' = objects \ gone
  /\ delete' = [delete EXCEPT ![j].phase = "failed"]
  /\ broken' = broken \cup {j}
  /\ UNCHANGED <<rows, create>>

-----------------------------------------------------------------------------
\* Backups are taken before the jobs.
Backing == TakeBackup /\ (\A j \in Job : create[j].phase = "idle") /\ UNCHANGED uploadVars

Creation(j) ==
  \/ CopyFails(j) \/ CreateFails(j)
  \/ \E k \in {j} \X Part : SendPart(j, k) \/ CreatePart(j, k)

Deletion(j) == LockSelection(j) \/ DeletePrefix(j) \/ Commit(j) \/ RollBack(j)

Work(k) == \E s \in {"FINISHED", "EMPTY", "FAILED"} : Rewrite(k, s)

Next ==
  \/ Backing
  \/ \E j \in Job : BeginUpload(j) /\ UNCHANGED origin
  \/ \E j \in Job : (BeginDerived(j) \/ ListJobParts(j)) /\ UNCHANGED <<origin, backup>>
  \/ /\ (\E j \in Job : Creation(j) \/ Deletion(j)) \/ (\E k \in Key : Work(k))
     /\ UNCHANGED <<origin, overlapped, backup>>

Spec == Init /\ [][Next]_vars

-----------------------------------------------------------------------------
(* Properties                                                               *)

\* Types; a command works on the rows of its job.
UploadTypeOK ==
  /\ DOMAIN rows \subseteq Key
  /\ \A k \in DOMAIN rows :
       /\ rows[k].status \in {"READY", "FINISHED", "EMPTY", "FAILED"}
       /\ {rows[k].owner, rows[k].parent} \subseteq Key \cup {NoKey}
  /\ objects \subseteq {"source", "finished"} \X Key
  /\ broken \subseteq Job
  /\ \A j \in Job : create[j].todo \cup create[j].sent \cup delete[j].listed \subseteq {j} \X Part

\* A job that owns referenced source parts is never deleted, and what is
\* referred to is a row that owns its source, however copies, copies of
\* copies and deletions interleave.
OwnerKept ==
  \A k \in DOMAIN rows :
    rows[k].owner # NoKey =>
      rows[k].owner \in DOMAIN rows /\ rows[rows[k].owner].owner = NoKey

\* Every registered part can be read by a worker: its source objects were
\* complete before the row appeared, and no delete-job removes them, its own
\* aside, unless one ended in the middle or listed a job whose upload still ran.
SourcesKept == ~overlapped =>
  \A k \in DOMAIN rows :
    rows[k].source[1] \notin broken /\ delete[k[1]].phase # "erased"
      => Source(rows[k].source) \in objects

\* A copied or chained job that was created completely reads every part
\* of the job it is derived from: nothing is dropped, unless that job's upload
\* was still running.
DerivedComplete == ~overlapped =>
  \A j \in Job :
    create[j].phase = "done" /\ origin[j].kind # "upload" /\ delete[j].phase = "idle" =>
      \A k \in Rows(origin[j].from) :
        \/ origin[j].kind = "chain" /\ rows[k].status = "EMPTY"
        \/ <<j, k[2]>> \in DOMAIN rows

\* What a registered part refers to is there: the row that owns its source, and
\* the source objects.
UploadInv == UploadTypeOK /\ OwnerKept /\ SourcesKept
=============================================================================
