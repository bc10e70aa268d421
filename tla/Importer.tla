------------------------------ MODULE Importer ------------------------------
(* import-finished (internal/parts/importer.go): the finished artifacts of  *)
(* a job are downloaded into a work directory, unpacked, and their parts    *)
(* moved one by one into the destination table's detached directory and     *)
(* attached.  The rows, the files and the table change at different times   *)
(* and nothing spans them: commands are cancelled, fail, crash and are      *)
(* repeated, also while another one runs.                                   *)
(*                                                                          *)
(* Every artifact comes from a ClickHouse server of its own, so that parts  *)
(* of different artifacts may have the same name.  An attached part gets a  *)
(* new name, and its name in detached is free again.                        *)
EXTENDS Integers, Sequences, FiniteSets, FiniteSetsExt

CONSTANTS
  Importer,      \* import-finished commands
  Name,          \* part names
  PartsOf,       \* the part names of the job's artifacts, in the order of their keys
  MaxRuns        \* bound on commands

ASSUME ImporterAssumption ==
  PartsOf \in Seq(SUBSET Name) /\ MaxRuns \in Nat

Artifact == DOMAIN PartsOf
NoArtifact == 0
Part == {p \in Artifact \X Name : p[2] \in PartsOf[p[1]]}

\* A directory with parts: the artifact the part of each name is from.
Directory == [Name -> Artifact \cup {NoArtifact}]
EmptyDir == [n \in Name |-> NoArtifact]
NamesIn(d) == {n \in Name : d[n] # NoArtifact}

VARIABLES
  status,     \* the rows: FINISHED, IMPORTING, IMPORTED or FAILED
  data,       \* downloaded archives, per artifact work directory
  extracted,  \* unpacked parts, per artifact work directory
  detached,   \* the table's detached directory
  attached,   \* how often each part of each artifact is in the table
  run, runs,  \* the commands, and how many there have been
  requireEmpty,  \* -require-empty
  overlapped     \* ghost: a command was started while another one ran

files == <<data, extracted>>
commands == <<runs, requireEmpty, overlapped>>
vars == <<status, data, extracted, detached, attached, run, commands>>

\* A command: the artifacts it still has to import, how many it has begun (the
\* number of its current work directory) and the parts left of the current one,
\* the one that is in detached apart.
NoCommand == [pc |-> "none", todo |-> {}, begun |-> 0, artifact |-> NoArtifact, left |-> {}, moved |-> {}]

NoFiles == [d \in Artifact |-> EmptyDir]

Init ==
  /\ status = [a \in Artifact |-> "FINISHED"]
  /\ data = NoFiles
  /\ extracted = NoFiles
  /\ detached = EmptyDir
  /\ attached = [p \in Part |-> 0]
  /\ run = [i \in Importer |-> NoCommand]
  /\ runs = 0 /\ requireEmpty \in BOOLEAN /\ overlapped = FALSE

Running(i) == run[i].pc # "none"
Importing(i) == run[i].pc \in {"download", "extract", "move", "attach"}

\* The work directory of the job, whichever command's it is, is removed.
RemoveWork ==
  /\ data' = NoFiles
  /\ extracted' = NoFiles

Ends(i) ==
  /\ run' = [run EXCEPT ![i] = NoCommand]
  /\ RemoveWork

-----------------------------------------------------------------------------
\* All finished artifacts are selected, or the one given by -part-id.
ListFinishedParts(i) ==
  /\ ~Running(i) /\ runs < MaxRuns
  /\ LET finished == {a \in Artifact : status[a] = "FINISHED"}
     IN \E S \in ({finished} \cup {{a} : a \in finished}) \ {{}} :
          run' = [run EXCEPT ![i] = [NoCommand EXCEPT !.pc = "check", !.todo = S]]
  /\ runs' = runs + 1
  /\ overlapped' = (overlapped \/ \E x \in Importer : Running(x))
  /\ UNCHANGED <<status, files, detached, attached, requireEmpty>>

\* Mutant: parts that wait in detached count as the table's, attached ones do not.
NothingDetached == detached = EmptyDir

TableEmpty == \A p \in Part : attached[p] = 0

\* The destination is checked, and the job's work directory is made anew.
PrepareDestination(i) ==
  /\ run[i].pc = "check"
  /\ requireEmpty => TableEmpty
  /\ run' = [run EXCEPT ![i].pc = "next"]
  /\ RemoveWork
  /\ UNCHANGED <<status, detached, attached, commands>>

\* The destination is not empty, or not usable.
Refused(i) ==
  /\ run[i].pc = "check"
  /\ run' = [run EXCEPT ![i] = NoCommand]
  /\ UNCHANGED <<status, files, detached, attached, commands>>

\* The row must still be FINISHED, or the command ends.
MarkImporting(i) ==
  /\ run[i].pc = "next"
  /\ LET a == Min(run[i].todo)
     IN IF status[a] = "FINISHED"
        THEN /\ status' = [status EXCEPT ![a] = "IMPORTING"]
             /\ run' = [run EXCEPT ![i].pc = "download", ![i].artifact = a,
                                   ![i].todo = @ \ {a}, ![i].begun = @ + 1]
             /\ UNCHANGED files
        ELSE Ends(i) /\ UNCHANGED status
  /\ UNCHANGED <<detached, attached, commands>>

\* The archives are copied into the work directory of that number; a file of
\* that name is overwritten.  An empty output has nothing to import.
DownloadPrefix(i) ==
  /\ run[i].pc = "download"
  /\ LET a == run[i].artifact
     IN IF PartsOf[a] = {}
        THEN run' = [run EXCEPT ![i].pc = "move"] /\ UNCHANGED data
        ELSE /\ data' = [data EXCEPT ![run[i].begun] = [n \in Name |-> IF n \in PartsOf[a] THEN a ELSE @[n]]]
             /\ run' = [run EXCEPT ![i].pc = "extract"]
  /\ UNCHANGED <<status, extracted, detached, attached, commands>>

\* What the directory has is unpacked, into files that must not exist.
ExtractFinishedTarballs(i) ==
  /\ run[i].pc = "extract"
  /\ LET d == run[i].begun
         names == NamesIn(data[d])
     IN /\ names # {}
        /\ names \cap NamesIn(extracted[d]) = {}
        /\ extracted' = [extracted EXCEPT ![d] = [n \in Name |-> IF n \in names THEN data[d][n] ELSE @[n]]]
        /\ run' = [run EXCEPT ![i].pc = "move", ![i].left = names]
  /\ UNCHANGED <<status, data, detached, attached, commands>>

\* Mutant: a part of that name in detached is taken for the one to be moved.
MovePartOver(i) ==
  /\ run[i].pc = "move"
  /\ \E n \in run[i].left \cap NamesIn(extracted[run[i].begun]) :
       /\ detached' = IF detached[n] = NoArtifact
                      THEN [detached EXCEPT ![n] = extracted[run[i].begun][n]] ELSE detached
       /\ extracted' = [extracted EXCEPT ![run[i].begun][n] = NoArtifact]
       /\ run' = [run EXCEPT ![i].pc = "attach", ![i].left = @ \ {n}, ![i].moved = {n}]
  /\ UNCHANGED <<status, data, attached, commands>>

\* A part moves from the work directory to detached, where its name is free.
MovePart(i) ==
  /\ run[i].pc = "move"
  /\ \E n \in run[i].left \cap NamesIn(extracted[run[i].begun]) :
       /\ detached[n] = NoArtifact
       /\ detached' = [detached EXCEPT ![n] = extracted[run[i].begun][n]]
       /\ extracted' = [extracted EXCEPT ![run[i].begun][n] = NoArtifact]
       /\ run' = [run EXCEPT ![i].pc = "attach", ![i].left = @ \ {n}, ![i].moved = {n}]
  /\ UNCHANGED <<status, data, attached, commands>>

\* ATTACH PART attaches what detached has under that name.
Attached(n) ==
  /\ attached' = [attached EXCEPT ![<<detached[n], n>>] = @ + 1]
  /\ detached' = [detached EXCEPT ![n] = NoArtifact]

AttachPart(i) ==
  /\ run[i].pc = "attach"
  /\ \E n \in run[i].moved : Attached(n)
  /\ run' = [run EXCEPT ![i].pc = "move", ![i].moved = {}]
  /\ UNCHANGED <<status, files, commands>>

\* No part is left: the row becomes IMPORTED and the work directory of this
\* artifact is removed.  A row that is not IMPORTING any more ends the command.
MarkImported(i) ==
  /\ run[i].pc = "move" /\ run[i].left = {}
  /\ IF status[run[i].artifact] = "IMPORTING"
     THEN /\ status' = [status EXCEPT ![run[i].artifact] = "IMPORTED"]
          /\ IF run[i].todo = {} THEN Ends(i)
             ELSE /\ run' = [run EXCEPT ![i].pc = "next", ![i].artifact = NoArtifact]
                  /\ data' = [data EXCEPT ![run[i].begun] = EmptyDir]
                  /\ extracted' = [extracted EXCEPT ![run[i].begun] = EmptyDir]
     ELSE Ends(i) /\ UNCHANGED status
  /\ UNCHANGED <<detached, attached, commands>>

\* An error in importArtifact: MarkImportFailed if the row is IMPORTING.  The
\* attach may have taken place before the error.
ImportFails(i) ==
  /\ Importing(i)
  /\ \/ UNCHANGED <<detached, attached>>
     \/ \E n \in run[i].moved : Attached(n)
  /\ status' = IF status[run[i].artifact] = "IMPORTING"
               THEN [status EXCEPT ![run[i].artifact] = "FAILED"] ELSE status
  /\ Ends(i)
  /\ UNCHANGED commands

\* The command is cancelled: ReleaseImport, whatever has been attached, by the
\* statement that was cancelled too.
ReleaseImport(i) ==
  /\ Importing(i)
  /\ \/ UNCHANGED <<detached, attached>>
     \/ \E n \in run[i].moved : Attached(n)
  /\ status' = IF status[run[i].artifact] = "IMPORTING"
               THEN [status EXCEPT ![run[i].artifact] = "FINISHED"] ELSE status
  /\ Ends(i)
  /\ UNCHANGED commands

\* The state store cannot be reached: the command ends, the row stays.
StoreFails(i) ==
  /\ run[i].pc = "next" \/ Importing(i)
  /\ Ends(i)
  /\ UNCHANGED <<status, detached, attached, commands>>

\* The process dies: files stay where they are as well.
Crash(i) ==
  /\ Running(i)
  /\ run' = [run EXCEPT ![i] = NoCommand]
  /\ UNCHANGED <<status, files, detached, attached, commands>>

\* retry-failed, or set-part-state for a row whose command is gone.
Retry(a) ==
  /\ \/ status[a] = "FAILED"
     \/ status[a] = "IMPORTING" /\ \A i \in Importer : run[i].artifact # a
  /\ status' = [status EXCEPT ![a] = "FINISHED"]
  /\ UNCHANGED <<files, detached, attached, run, commands>>

\* The operator clears a detached part that is in the way.
ClearDetached(n) ==
  /\ n \in NamesIn(detached)
  /\ \A i \in Importer : ~Running(i)
  /\ detached' = [detached EXCEPT ![n] = NoArtifact]
  /\ UNCHANGED <<status, files, attached, run, commands>>

\* Mutant: a command that cannot go on does not give up.
StepOnly(i) ==
  \/ PrepareDestination(i) \/ MarkImporting(i) \/ DownloadPrefix(i)
  \/ ExtractFinishedTarballs(i) \/ MovePart(i) \/ AttachPart(i) \/ MarkImported(i)

\* What ImportJob does next, errors included.
ImportJob(i) ==
  \/ PrepareDestination(i) \/ MarkImporting(i) \/ DownloadPrefix(i)
  \/ ExtractFinishedTarballs(i) \/ MovePart(i) \/ AttachPart(i) \/ MarkImported(i)
  \/ Refused(i) \/ ImportFails(i) \/ StoreFails(i)

Next ==
  \/ \E i \in Importer : ListFinishedParts(i) \/ ImportJob(i) \/ ReleaseImport(i) \/ Crash(i)
  \/ \E a \in Artifact : Retry(a)
  \/ \E n \in Name : ClearDetached(n)

Spec == Init /\ [][Next]_vars

\* A command goes on: it takes its next step or gives up with an error.
FairSpec == Spec /\ \A i \in Importer : WF_vars(ImportJob(i))

-----------------------------------------------------------------------------
(* Properties                                                               *)

\* Types.  A part in the work directory of number d comes from an artifact of
\* the job that some command selected.
ImporterTypeOK ==
  /\ status \in [Artifact -> {"FINISHED", "IMPORTING", "IMPORTED", "FAILED"}]
  /\ data \in [Artifact -> Directory] /\ extracted \in [Artifact -> Directory]
  /\ detached \in Directory
  /\ \A d \in Artifact : \A n \in NamesIn(extracted[d]) : n \in PartsOf[extracted[d][n]]
  /\ \A i \in Importer :
       /\ run[i].todo \subseteq Artifact /\ run[i].left \subseteq Name
       /\ run[i].begun \in Artifact \cup {0}
       /\ (run[i].artifact # NoArtifact) <=> Importing(i)
  /\ runs \in 0..MaxRuns /\ requireEmpty \in BOOLEAN

\* main.go:2979: -require-empty "fail[s] if the destination table already has
\* active parts, preventing accidental duplicate attaches": no part is
\* attached twice, however often commands are cancelled, fail, crash and are
\* repeated, as long as they do not overlap.
AttachedOnce == requireEmpty /\ ~overlapped => \A p \in Part : attached[p] <= 1

\* ALTER TABLE ... ATTACH PART, then "Mark Postgres row IMPORTED"
\* (docs/rewrite-flow.md:34): every part of an imported artifact is in the
\* table; neither a leftover in detached nor the files of another artifact
\* were attached in its place, as long as commands do not overlap.
ImportedMeansAttached == ~overlapped =>
  \A a \in Artifact : status[a] = "IMPORTED" => \A n \in PartsOf[a] : attached[<<a, n>>] >= 1

\* MarkImporting: two commands never import the same artifact at the same
\* time, though both may have listed it as FINISHED.
OneImporter ==
  \A i, x \in Importer :
    i # x /\ Importing(i) /\ Importing(x) => run[i].artifact # run[x].artifact

\* Every command ends.
CommandsEnd == \A i \in Importer : Running(i) ~> ~Running(i)

\* An artifact is imported by one command at a time, and IMPORTED only with all
\* of its parts in the table.
ImporterInv == ImporterTypeOK /\ OneImporter /\ ImportedMeansAttached
=============================================================================
