---------------------------- MODULE RewriteProofs ----------------------------
(* Proofs about the rewrite of one part, for any number of workers, files   *)
(* and attempts, and about the local server a worker runs for a part, for   *)
(* any number of parts and restarts.                                        *)
EXTENDS Rewrite, LocalServer, TLAPS

-----------------------------------------------------------------------------
(* The inductive invariant.                                                 *)

RowType ==
  [status : {"READY", "IN_PROGRESS", "COMPACT_READY", "FAILED"},
   worker : Worker \cup {NoWorker}, attempts : 0..MaxAttempts, stage : 0..Last,
   files : SUBSET File]

ProcType ==
  [attempt : 0..MaxAttempts, at : 0..Last, files : SUBSET File, todo : SUBSET File,
   cancelled : BOOLEAN]

BeatType == [locked : BOOLEAN, stage : 0..Last]

Typed ==
  /\ source \in [empty : BOOLEAN, zeroCopy : BOOLEAN]
  /\ row \in RowType
  /\ row.status = "IN_PROGRESS" <=> row.worker # NoWorker
  /\ objects \in [File -> 0..MaxAttempts]
  /\ proc \in [Worker -> ProcType]
  /\ beat \in [Worker -> BeatType]
  /\ overlapped \in BOOLEAN

\* What a heartbeat is about to write is where ProcessPart still is: it holds
\* reportMu.
BeatsCurrent ==
  \A w \in Worker : /\ beat[w].locked <=> beat[w].stage # 0
                    /\ beat[w].stage # 0 => beat[w].stage = proc[w].at

\* A running worker that owns the row has claimed it for its own attempt, and
\* the row says where it is.
ClaimCurrent ==
  \A w \in Worker : Busy(w) /\ Owns(w) => /\ proc[w].attempt = row.attempts
                                          /\ row.stage = proc[w].at

\* Nobody but the owner works on the part unless an operator retried it.
Alone == ~overlapped => \A w \in Worker : Busy(w) => Owns(w)

\* An empty output is never uploaded.
EmptyStays ==
  source.empty => /\ \A f \in File : objects[f] = NoObject
                  /\ \A w \in Worker : /\ proc[w].files = {}
                                       /\ proc[w].at = Uploading => proc[w].todo = {}

\* How far the running attempt has replaced the objects of earlier ones.
Replaced(w) ==
  LET own == \A f \in Stored : objects[f] = proc[w].attempt
  IN /\ proc[w].attempt # 0
     /\ proc[w].at = Deleting => proc[w].todo = Stored
     /\ proc[w].at = Uploading =>
          /\ proc[w].todo \subseteq proc[w].files
          /\ Stored = proc[w].files \ proc[w].todo
          /\ own
     /\ proc[w].at = Last => Stored = proc[w].files /\ own

Replacing == ~overlapped => \A w \in Worker : Busy(w) => Replaced(w)

RInv == Typed /\ BeatsCurrent /\ ClaimCurrent /\ Alone /\ EmptyStays /\ Replacing
        /\ ArtifactIsOneAttempt

-----------------------------------------------------------------------------
\* The places in the list of stages that matter.
LEMMA StageNumbers ==
  ReadingManifest = 4 /\ Measuring = 11 /\ Deleting = 14 /\ Uploading = 15 /\ Last = 16
  <1>1. DOMAIN Stages = 1..16 /\ Last = 16
    BY DEF Stages, Last
  <1>2. \A i \in 1..16 : Stages[i] = "read_manifest" <=> i = 4
    BY DEF Stages
  <1>3. \A i \in 1..16 : Stages[i] = "measure_destination_parts" <=> i = 11
    BY DEF Stages
  <1>4. \A i \in 1..16 : Stages[i] = "delete_finished_artifact" <=> i = 14
    BY DEF Stages
  <1>5. \A i \in 1..16 : Stages[i] = "upload_finished_tarballs" <=> i = 15
    BY DEF Stages
  <1> QED BY <1>1, <1>2, <1>3, <1>4, <1>5 DEF Index, ReadingManifest, Measuring, Deleting, Uploading

\* The stage only moves forward, by the places the list allows.
LEMMA NextStageFact ==
  ASSUME Typed, NEW w \in Worker, proc[w].at \in 1..15
  PROVE  /\ NextStage(w) \in 1..16 /\ NextStage(w) > proc[w].at
         /\ NextStage(w) = 15 => proc[w].at = 14
         /\ NextStage(w) = 16 => proc[w].at = 15 \/ (proc[w].at = 11 /\ source.empty)
  BY StageNumbers DEF NextStage, Typed

-----------------------------------------------------------------------------
(* The invariant, action by action.                                         *)

\* A worker that is alone with the row: nobody else works on the part.
LEMMA OnlyOwner ==
  ASSUME RInv, ~overlapped, NEW w \in Worker, Owns(w) \/ Busy(w)
  PROVE  \A v \in Worker \ {w} : ~Busy(v)
  BY DEF RInv, Alone, Owns

\* A claim starts a new attempt of a part nobody works on.
LEMMA ClaimPreserves ==
  ASSUME RInv, NEW w \in Worker, Claim(w), UNCHANGED overlapped
  PROVE  RInv'
  <1>1. /\ proc[w].at = 0 /\ row.status = "READY" /\ row.attempts < MaxAttempts
        /\ row' = [row EXCEPT !.status = "IN_PROGRESS", !.worker = w,
                              !.attempts = row.attempts + 1, !.stage = 1]
        /\ proc' = [proc EXCEPT ![w] = [Idle EXCEPT !.attempt = row.attempts + 1, !.at = 1]]
        /\ UNCHANGED <<source, objects, beat, overlapped>>
    BY DEF Claim, Busy, RInv, Typed, ProcType
  <1>4. row.attempts \in Nat /\ row.attempts + 1 \in 0..MaxAttempts
    BY <1>1, RewriteAssumption DEF RInv, Typed, RowType, RewriteAssumption
  <1>a. row' = [status |-> "IN_PROGRESS", worker |-> w, attempts |-> row.attempts + 1,
                stage |-> 1, files |-> row.files]
    BY <1>1 DEF RInv, Typed, RowType
  <1>b. 1 \in 0..Last /\ row.files \in SUBSET File
    BY StageNumbers DEF RInv, Typed, RowType
  <1>2. /\ row' \in RowType /\ row'.status = "IN_PROGRESS" /\ row'.worker = w
        /\ row'.attempts = row.attempts + 1 /\ row'.stage = 1
    BY <1>a, <1>b, <1>4 DEF RowType
  <1>c. Idle \in ProcType
    BY StageNumbers, RewriteAssumption DEF Idle, ProcType, RewriteAssumption
  <1>d. LET p == [Idle EXCEPT !.attempt = row.attempts + 1, !.at = 1]
        IN /\ p \in ProcType /\ p.at = 1 /\ p.attempt = row.attempts + 1
           /\ p.files = {} /\ p.todo = {}
    <2>1. Idle.files = {} /\ Idle.todo = {}
      BY DEF Idle
    <2> QED BY <1>b, <1>c, <1>4, <2>1 DEF ProcType
  <1>3. /\ proc' \in [Worker -> ProcType]
        /\ \A v \in Worker \ {w} : proc'[v] = proc[v]
        /\ proc'[w].at = 1 /\ proc'[w].attempt = row.attempts + 1
        /\ proc'[w].files = {} /\ proc'[w].todo = {}
    BY <1>1, <1>d DEF RInv, Typed
  <1>5. Typed'
    BY <1>1, <1>2, <1>3, RewriteAssumption DEF RInv, Typed, RewriteAssumption
  <1>6. beat[w].stage = 0
    BY <1>1 DEF RInv, BeatsCurrent
  <1>7. BeatsCurrent'
    BY <1>1, <1>3, <1>6 DEF RInv, BeatsCurrent
  <1>8. \A v \in Worker \ {w} : ~Owns(v)'
    BY <1>2 DEF Owns
  <1>9. ClaimCurrent'
    BY <1>2, <1>3, <1>8 DEF ClaimCurrent
  <1>10. ~overlapped => \A v \in Worker \ {w} : ~Busy(v)'
    BY <1>1, <1>3 DEF RInv, Alone, Owns, Busy
  <1>11. Alone'
    BY <1>1, <1>2, <1>10 DEF Alone, Owns
  <1>12. EmptyStays'
    BY <1>1, <1>3, StageNumbers DEF RInv, EmptyStays
  <1>13. Replaced(w)'
    BY <1>3, <1>4, StageNumbers DEF Replaced
  <1>14. Replacing'
    BY <1>1, <1>10, <1>13 DEF Replacing
  <1>15. ArtifactIsOneAttempt'
    BY <1>2 DEF ArtifactIsOneAttempt
  <1> QED BY <1>5, <1>7, <1>9, <1>11, <1>12, <1>14, <1>15 DEF RInv

\* The next stage is reported under reportMu: no snapshot of the last one is
\* waiting to be written.
LEMMA ReportStagePreserves ==
  ASSUME RInv, NEW w \in Worker, ReportStage(w), UNCHANGED overlapped
  PROVE  RInv'
  <1> DEFINE at == NextStage(w)
  <1>1. /\ proc[w].at \in 1..15 /\ proc[w].todo = {} /\ beat[w].stage = 0
        /\ Owns(w) /\ Busy(w)
        /\ UNCHANGED <<source, objects, beat, overlapped>>
    BY StageNumbers DEF ReportStage, Busy, StageDone, RInv, Typed, ProcType, BeatsCurrent
  <1>2. PICK files \in SUBSET File :
          /\ IF at = Measuring THEN (files = {}) = source.empty ELSE files = proc[w].files
          /\ proc' = [proc EXCEPT ![w].at = at, ![w].files = files, ![w].todo = Todo(w, at)]
          /\ row' = [row EXCEPT !.stage = at]
    BY DEF ReportStage
  <1>3. /\ at \in 1..16 /\ at > proc[w].at
        /\ at = 15 => proc[w].at = 14
        /\ at = 16 => proc[w].at = 15 \/ (proc[w].at = 11 /\ source.empty)
    BY <1>1, NextStageFact DEF RInv
  <1> HIDE DEF at
  <1>4. Todo(w, at) \subseteq File
    BY DEF Todo, Stored, RInv, Typed, ProcType
  <1>a. proc' = [proc EXCEPT ![w] = [proc[w] EXCEPT !.at = at, !.files = files,
                                                   !.todo = Todo(w, at)]]
    BY <1>2 DEF RInv, Typed
  <1>b. proc[w] \in ProcType /\ at \in 0..Last
    BY <1>3, StageNumbers DEF RInv, Typed
  <1>c. LET p == [proc[w] EXCEPT !.at = at, !.files = files, !.todo = Todo(w, at)]
        IN /\ p \in ProcType /\ p.at = at /\ p.attempt = proc[w].attempt
           /\ p.files = files /\ p.todo = Todo(w, at)
    BY <1>b, <1>4 DEF ProcType
  <1>5. /\ proc' \in [Worker -> ProcType]
        /\ \A v \in Worker \ {w} : proc'[v] = proc[v]
        /\ proc'[w].at = at /\ proc'[w].attempt = proc[w].attempt
        /\ proc'[w].files = files /\ proc'[w].todo = Todo(w, at)
    BY <1>a, <1>c DEF RInv, Typed
  <1>6. /\ row' \in RowType /\ row'.stage = at
        /\ row'.status = row.status /\ row'.worker = row.worker /\ row'.attempts = row.attempts
    BY <1>2, <1>3, StageNumbers DEF RInv, Typed, RowType
  <1>7. Typed'
    BY <1>1, <1>5, <1>6 DEF RInv, Typed
  <1>8. BeatsCurrent'
    BY <1>1, <1>5 DEF RInv, BeatsCurrent
  <1>9. \A v \in Worker : Owns(v)' <=> Owns(v)
    BY <1>6 DEF Owns
  <1>10. \A v \in Worker \ {w} : ~Owns(v)
    BY <1>1 DEF Owns
  <1>11. ClaimCurrent'
    BY <1>1, <1>5, <1>6, <1>9, <1>10 DEF RInv, ClaimCurrent
  <1>12. Alone'
    BY <1>1, <1>5, <1>9 DEF RInv, Alone, Busy
  <1>13. source.empty => files = {}
    BY <1>2 DEF RInv, EmptyStays
  <1>14. EmptyStays'
    <2>1. source.empty /\ at = Uploading => Todo(w, at) = {}
      BY StageNumbers DEF RInv, EmptyStays, Todo
    <2> QED BY <1>1, <1>5, <1>13, <2>1 DEF RInv, EmptyStays
  <1>15. ~overlapped => Replaced(w)'
    <2>1. SUFFICES ASSUME ~overlapped PROVE Replaced(w)'
      OBVIOUS
    <2>2. Replaced(w) /\ Stored' = Stored
      BY <1>1, <2>1 DEF RInv, Replacing, Stored
    <2>3. CASE at = 14
      BY <1>1, <1>5, <2>2, <2>3, StageNumbers DEF Replaced, Todo
    <2>4. CASE at = 15
      <3>1. Stored = {} /\ files = proc[w].files
        BY <1>1, <1>2, <1>3, <2>2, <2>4, StageNumbers DEF Replaced
      <3> QED BY <1>5, <2>2, <2>4, <3>1, StageNumbers DEF Replaced, Todo
    <2>5. CASE at = 16 /\ proc[w].at = 15
      <3>1. files = proc[w].files
        BY <1>2, <2>5, StageNumbers
      <3> QED BY <1>1, <1>5, <2>2, <2>5, <3>1, StageNumbers DEF Replaced
    <2>6. CASE at = 16 /\ source.empty
      <3>1. Stored = {} /\ files = {}
        BY <2>6, <1>13 DEF RInv, EmptyStays, Stored
      <3> QED BY <1>1, <1>5, <2>2, <2>6, <3>1, StageNumbers DEF Replaced
    <2>7. CASE at \notin {14, 15, 16}
      BY <1>5, <2>2, <2>7, StageNumbers DEF Replaced
    <2> QED BY <1>3, <2>3, <2>4, <2>5, <2>6, <2>7
  <1>16. Replacing'
    BY <1>1, <1>5, <1>15, OnlyOwner DEF Replacing, Busy
  <1>17. ArtifactIsOneAttempt'
    BY <1>1, <1>6 DEF ArtifactIsOneAttempt, Owns
  <1> QED BY <1>7, <1>8, <1>11, <1>12, <1>14, <1>16, <1>17 DEF RInv

\* An object less to delete or to upload.
LEMMA TodoShrinks ==
  ASSUME RInv, NEW w \in Worker, NEW f, proc' = [proc EXCEPT ![w].todo = @ \ {f}]
  PROVE  /\ proc' \in [Worker -> ProcType]
         /\ \A v \in Worker \ {w} : proc'[v] = proc[v]
         /\ proc'[w].todo = proc[w].todo \ {f}
         /\ proc'[w].attempt = proc[w].attempt /\ proc'[w].at = proc[w].at
         /\ proc'[w].files = proc[w].files
  <1>1. proc[w] \in ProcType /\ proc[w].todo \ {f} \in SUBSET File
    BY DEF RInv, Typed, ProcType
  <1>2. LET p == [proc[w] EXCEPT !.todo = proc[w].todo \ {f}]
        IN /\ p \in ProcType /\ p.todo = proc[w].todo \ {f} /\ p.attempt = proc[w].attempt
           /\ p.at = proc[w].at /\ p.files = proc[w].files
    BY <1>1 DEF ProcType
  <1>3. proc' = [proc EXCEPT ![w] = [proc[w] EXCEPT !.todo = proc[w].todo \ {f}]]
    BY DEF RInv, Typed
  <1> QED BY <1>2, <1>3 DEF RInv, Typed

\* Deleting an object, which is one the attempt has listed.
LEMMA DeleteObjectPreserves ==
  ASSUME RInv, NEW w \in Worker, DeleteObject(w), UNCHANGED overlapped
  PROVE  RInv'
  <1>1. /\ Busy(w) /\ proc[w].at = 14
        /\ UNCHANGED <<source, row, beat, overlapped>>
    BY StageNumbers DEF DeleteObject
  <1>2. PICK f \in proc[w].todo : /\ objects' = [objects EXCEPT ![f] = NoObject]
                                  /\ proc' = [proc EXCEPT ![w].todo = @ \ {f}]
    BY DEF DeleteObject
  <1>3. /\ proc' \in [Worker -> ProcType]
        /\ \A v \in Worker \ {w} : proc'[v] = proc[v]
        /\ proc'[w].todo = proc[w].todo \ {f}
        /\ proc'[w].attempt = proc[w].attempt /\ proc'[w].at = proc[w].at
        /\ proc'[w].files = proc[w].files
    BY <1>2, TodoShrinks
  <1>4. f \in File
    BY DEF RInv, Typed, ProcType
  <1>5. objects' \in [File -> 0..MaxAttempts] /\ Stored' = Stored \ {f}
    BY <1>2, <1>4, RewriteAssumption DEF RInv, Typed, Stored, NoObject, RewriteAssumption
  <1>6. Typed'
    BY <1>1, <1>3, <1>5 DEF RInv, Typed
  <1>7. BeatsCurrent'
    BY <1>1, <1>3 DEF RInv, BeatsCurrent
  <1>8. \A v \in Worker : (Owns(v)' <=> Owns(v)) /\ (Busy(v)' <=> Busy(v))
    BY <1>1, <1>3 DEF Owns, Busy
  <1>9. ClaimCurrent' /\ Alone'
    BY <1>1, <1>3, <1>8 DEF RInv, ClaimCurrent, Alone
  <1>10. EmptyStays'
    BY <1>1, <1>2, <1>3, <1>4, StageNumbers DEF RInv, EmptyStays, NoObject, Typed
  <1>11. ~overlapped => Replaced(w)'
    BY <1>1, <1>3, <1>5, StageNumbers DEF RInv, Replacing, Replaced
  <1>12. Replacing'
    BY <1>1, <1>8, <1>11, OnlyOwner DEF Replacing
  <1>13. ~overlapped => row.status # "COMPACT_READY"
    BY <1>1 DEF RInv, Alone, Owns
  <1>14. ArtifactIsOneAttempt'
    BY <1>1, <1>13 DEF ArtifactIsOneAttempt
  <1> QED BY <1>6, <1>7, <1>9, <1>10, <1>12, <1>14 DEF RInv

\* Uploading a tarball of the attempt's own.
LEMMA UploadFilePreserves ==
  ASSUME RInv, NEW w \in Worker, UploadFile(w), UNCHANGED overlapped
  PROVE  RInv'
  <1>1. /\ Busy(w) /\ proc[w].at = 15
        /\ UNCHANGED <<source, row, beat, overlapped>>
    BY StageNumbers DEF UploadFile
  <1>2. PICK f \in proc[w].todo : /\ objects' = [objects EXCEPT ![f] = proc[w].attempt]
                                  /\ proc' = [proc EXCEPT ![w].todo = @ \ {f}]
    BY DEF UploadFile
  <1>3. /\ proc' \in [Worker -> ProcType]
        /\ \A v \in Worker \ {w} : proc'[v] = proc[v]
        /\ proc'[w].todo = proc[w].todo \ {f}
        /\ proc'[w].attempt = proc[w].attempt /\ proc'[w].at = proc[w].at
        /\ proc'[w].files = proc[w].files
    BY <1>2, TodoShrinks
  <1>4. f \in File /\ proc[w].attempt \in 0..MaxAttempts
    BY DEF RInv, Typed, ProcType
  <1>5. /\ objects' \in [File -> 0..MaxAttempts]
        /\ objects'[f] = proc[w].attempt
        /\ \A g \in File \ {f} : objects'[g] = objects[g]
    BY <1>2, <1>4 DEF RInv, Typed
  <1>6. Typed'
    BY <1>1, <1>3, <1>5 DEF RInv, Typed
  <1>7. BeatsCurrent'
    BY <1>1, <1>3 DEF RInv, BeatsCurrent
  <1>8. \A v \in Worker : (Owns(v)' <=> Owns(v)) /\ (Busy(v)' <=> Busy(v))
    BY <1>1, <1>3 DEF Owns, Busy
  <1>9. ClaimCurrent' /\ Alone'
    BY <1>1, <1>3, <1>8 DEF RInv, ClaimCurrent, Alone
  <1>10. ~source.empty
    BY <1>1, <1>2, StageNumbers DEF RInv, EmptyStays
  <1>11. EmptyStays'
    BY <1>1, <1>10 DEF EmptyStays
  <1>12. ~overlapped => Replaced(w)'
    <2>1. SUFFICES ASSUME ~overlapped PROVE Replaced(w)'
      OBVIOUS
    <2>2. Replaced(w)
      BY <1>1, <2>1 DEF RInv, Replacing
    <2>3. Stored' = Stored \cup {f}
      BY <1>4, <1>5, <2>2 DEF Stored, Replaced, NoObject
    <2>4. \A g \in Stored' : objects'[g] = proc[w].attempt
      BY <1>1, <1>4, <1>5, <2>2, <2>3, StageNumbers DEF Replaced, Stored
    <2>5. /\ proc[w].todo \subseteq proc[w].files
          /\ Stored = proc[w].files \ proc[w].todo
      BY <1>1, <2>2, StageNumbers DEF Replaced
    <2>6. Stored' = proc[w].files \ (proc[w].todo \ {f})
      BY <2>3, <2>5
    <2> QED BY <1>1, <1>3, <2>2, <2>4, <2>5, <2>6, StageNumbers DEF Replaced
  <1>13. Replacing'
    BY <1>1, <1>8, <1>12, OnlyOwner DEF Replacing
  <1>14. ~overlapped => row.status # "COMPACT_READY"
    BY <1>1 DEF RInv, Alone, Owns
  <1>15. ArtifactIsOneAttempt'
    BY <1>1, <1>14 DEF ArtifactIsOneAttempt
  <1> QED BY <1>6, <1>7, <1>9, <1>11, <1>13, <1>15 DEF RInv

\* A worker that ends leaves the row as it is or, if the row is its own, gives
\* it up.
LEMMA EndsPreserves ==
  ASSUME RInv, NEW w \in Worker, Ends(w), UNCHANGED <<source, objects, overlapped>>,
         \/ row' = row
         \/ Owns(w) /\ row' \in RowType /\ row'.status # "IN_PROGRESS" /\ row'.worker = NoWorker,
         ArtifactIsOneAttempt'
  PROVE  RInv'
  <1>1. Idle \in ProcType /\ NoBeat \in BeatType
    BY StageNumbers, RewriteAssumption DEF Idle, ProcType, NoBeat, BeatType, RewriteAssumption
  <1>2. /\ proc' \in [Worker -> ProcType] /\ beat' \in [Worker -> BeatType]
        /\ \A v \in Worker \ {w} : proc'[v] = proc[v] /\ beat'[v] = beat[v]
        /\ proc'[w] = Idle /\ beat'[w] = NoBeat
    BY <1>1 DEF RInv, Typed, Ends
  <1>3. proc'[w].at = 0 /\ proc'[w].files = {} /\ proc'[w].todo = {}
    BY <1>2 DEF Idle
  <1>4. ~beat'[w].locked /\ beat'[w].stage = 0
    BY <1>2 DEF NoBeat
  <1>5. Typed'
    BY <1>2 DEF RInv, Typed
  <1>6. BeatsCurrent'
    BY <1>2, <1>4 DEF RInv, BeatsCurrent
  <1>7. ~Busy(w)' /\ \A v \in Worker \ {w} : Busy(v)' <=> Busy(v)
    BY <1>2, <1>3 DEF Busy
  <1>8. ClaimCurrent'
    BY <1>2, <1>7 DEF RInv, ClaimCurrent, Owns
  <1>9. Alone'
    BY <1>7, OnlyOwner DEF RInv, Alone, Owns
  <1>10. EmptyStays'
    BY <1>2, <1>3 DEF RInv, EmptyStays
  <1>11. Stored' = Stored
    BY DEF Stored
  <1>12. Replacing'
    BY <1>2, <1>7, <1>11 DEF RInv, Replacing, Replaced
  <1> QED BY <1>5, <1>6, <1>8, <1>9, <1>10, <1>12 DEF RInv

\* The artifact that is registered is the one the attempt has put in place.
LEMMA CompletePreserves ==
  ASSUME RInv, NEW w \in Worker, Complete(w), UNCHANGED overlapped
  PROVE  RInv'
  <1>1. /\ Busy(w) /\ proc[w].at = 16 /\ Ends(w) /\ UNCHANGED <<source, objects, overlapped>>
    BY StageNumbers DEF Complete
  <1>2. Stored' = Stored
    BY <1>1 DEF Stored
  <1>3. CASE ~Owns(w)
    <2>1. row' = row
      BY <1>3 DEF Complete
    <2>2. ArtifactIsOneAttempt'
      BY <1>1, <1>2, <2>1 DEF RInv, ArtifactIsOneAttempt
    <2> QED BY <1>1, <2>1, <2>2, EndsPreserves
  <1>4. CASE Owns(w)
    <2>1. /\ row' = [row EXCEPT !.status = "COMPACT_READY", !.worker = NoWorker,
                                !.files = proc[w].files]
          /\ proc[w].files \in SUBSET File
      BY <1>4 DEF Complete, RInv, Typed, ProcType
    <2>2. /\ row' \in RowType /\ row'.status = "COMPACT_READY" /\ row'.worker = NoWorker
          /\ row'.files = proc[w].files /\ row'.attempts = row.attempts
      BY <2>1 DEF RInv, Typed, RowType
    <2>3. ~overlapped => /\ Stored = proc[w].files
                         /\ \A f \in Stored : objects[f] = row.attempts
      BY <1>1, <1>4, StageNumbers DEF RInv, Replacing, Replaced, ClaimCurrent
    <2>4. source.empty => Stored = {}
      BY DEF RInv, EmptyStays, Stored
    <2>5. ArtifactIsOneAttempt'
      BY <1>1, <1>2, <2>2, <2>3, <2>4 DEF ArtifactIsOneAttempt
    <2> QED BY <1>1, <1>4, <2>2, <2>5, EndsPreserves
  <1> QED BY <1>3, <1>4

\* A failed attempt registers nothing: the row becomes FAILED or READY.
LEMMA FailPreserves ==
  ASSUME RInv, NEW w \in Worker, Fail(w), UNCHANGED overlapped
  PROVE  RInv'
  <1>1. Ends(w) /\ UNCHANGED <<source, objects, overlapped>>
    BY DEF Fail
  <1>2. CASE ~Owns(w)
    <2>1. row' = row
      BY <1>2 DEF Fail
    <2>2. ArtifactIsOneAttempt'
      BY <1>1, <2>1 DEF RInv, ArtifactIsOneAttempt, Stored
    <2> QED BY <1>1, <2>1, <2>2, EndsPreserves
  <1>3. CASE Owns(w)
    <2>1. \/ row' = [row EXCEPT !.status = "FAILED", !.worker = NoWorker]
          \/ row' = [row EXCEPT !.status = "READY", !.worker = NoWorker, !.stage = 0]
      BY <1>3 DEF Fail
    <2>2. row' \in RowType /\ row'.status \in {"FAILED", "READY"} /\ row'.worker = NoWorker
      <3>1. row \in RowType /\ 0 \in 0..Last
        BY StageNumbers DEF RInv, Typed
      <3>2. CASE row' = [row EXCEPT !.status = "FAILED", !.worker = NoWorker]
        BY <3>1, <3>2 DEF RowType
      <3>3. CASE row' = [row EXCEPT !.status = "READY", !.worker = NoWorker, !.stage = 0]
        BY <3>1, <3>3 DEF RowType
      <3> QED BY <2>1, <3>2, <3>3
    <2>3. ArtifactIsOneAttempt'
      BY <2>2 DEF ArtifactIsOneAttempt
    <2> QED BY <1>1, <1>3, <2>2, <2>3, EndsPreserves
  <1> QED BY <1>2, <1>3

\* A crash leaves the row with a worker that is gone.
LEMMA CrashPreserves ==
  ASSUME RInv, NEW w \in Worker, Crash(w), UNCHANGED overlapped
  PROVE  RInv'
  <1>1. Ends(w) /\ UNCHANGED <<source, row, objects, overlapped>>
    BY DEF Crash
  <1>2. ArtifactIsOneAttempt'
    BY <1>1 DEF RInv, ArtifactIsOneAttempt, Stored
  <1> QED BY <1>1, <1>2, EndsPreserves

\* The heartbeat reads the stage while it holds reportMu.
LEMMA SnapshotPreserves ==
  ASSUME RInv, NEW w \in Worker, Snapshot(w), UNCHANGED overlapped
  PROVE  RInv'
  <1>1. /\ proc[w].at \in 1..Last
        /\ beat' = [beat EXCEPT ![w] = [locked |-> TRUE, stage |-> proc[w].at]]
        /\ UNCHANGED <<source, row, objects, proc, overlapped>>
    BY StageNumbers DEF Snapshot, Busy, RInv, Typed, ProcType
  <1>2. [locked |-> TRUE, stage |-> proc[w].at] \in BeatType
    BY <1>1, StageNumbers DEF BeatType
  <1>3. Typed'
    BY <1>1, <1>2 DEF RInv, Typed
  <1>4. BeatsCurrent'
    BY <1>1 DEF RInv, Typed, BeatsCurrent
  <1> QED BY <1>1, <1>3, <1>4
          DEF RInv, ClaimCurrent, Alone, EmptyStays, Replacing, Replaced, ArtifactIsOneAttempt,
              Owns, Busy, Stored

\* A context that is cancelled changes nothing the invariant is about.
LEMMA CancelPreserves ==
  ASSUME RInv, NEW w \in Worker, beat' = [beat EXCEPT ![w] = NoBeat],
         proc' = [proc EXCEPT ![w].cancelled = TRUE],
         UNCHANGED <<source, row, objects, overlapped>>
  PROVE  RInv'
  <1>1. NoBeat \in BeatType /\ ~NoBeat.locked /\ NoBeat.stage = 0
    BY StageNumbers DEF NoBeat, BeatType
  <1>2. beat' \in [Worker -> BeatType] /\ beat'[w] = NoBeat
        /\ \A v \in Worker \ {w} : beat'[v] = beat[v]
    BY <1>1 DEF RInv, Typed
  <1>3. proc[w] \in ProcType
    BY DEF RInv, Typed
  <1>4. LET p == [proc[w] EXCEPT !.cancelled = TRUE]
        IN /\ p \in ProcType /\ p.todo = proc[w].todo /\ p.attempt = proc[w].attempt
           /\ p.at = proc[w].at /\ p.files = proc[w].files
    BY <1>3 DEF ProcType
  <1>5. proc' = [proc EXCEPT ![w] = [proc[w] EXCEPT !.cancelled = TRUE]]
    BY DEF RInv, Typed
  <1>6. proc' \in [Worker -> ProcType]
    BY <1>4, <1>5 DEF RInv, Typed
  <1>7. \A v \in Worker : /\ proc'[v].todo = proc[v].todo /\ proc'[v].attempt = proc[v].attempt
                          /\ proc'[v].at = proc[v].at /\ proc'[v].files = proc[v].files
    BY <1>4, <1>5 DEF RInv, Typed
  <1>8. Typed'
    BY <1>2, <1>6 DEF RInv, Typed
  <1>9. BeatsCurrent'
    BY <1>1, <1>2, <1>7 DEF RInv, BeatsCurrent
  <1>10. \A v \in Worker : (Owns(v)' <=> Owns(v)) /\ (Busy(v)' <=> Busy(v))
    BY <1>7 DEF Owns, Busy
  <1>11. ClaimCurrent' /\ Alone' /\ EmptyStays'
    BY <1>7, <1>10 DEF RInv, ClaimCurrent, Alone, EmptyStays
  <1>12. Stored' = Stored
    BY DEF Stored
  <1>13. \A v \in Worker : Replaced(v)' <=> Replaced(v)
    BY <1>7, <1>12 DEF Replaced
  <1>14. Replacing'
    BY <1>10, <1>13 DEF RInv, Replacing
  <1>15. ArtifactIsOneAttempt'
    BY <1>12 DEF RInv, ArtifactIsOneAttempt
  <1> QED BY <1>8, <1>9, <1>11, <1>14, <1>15 DEF RInv

\* The owner writes the stage it is in.
LEMMA WriteSnapshotPreserves ==
  ASSUME RInv, NEW w \in Worker, WriteSnapshot(w), UNCHANGED overlapped
  PROVE  RInv' /\ (Owns(w) => row'.stage = row.stage)
  <1>1. CASE ~Owns(w)
    BY <1>1, CancelPreserves DEF WriteSnapshot
  <1>2. CASE Owns(w)
    <2>1. /\ beat[w].stage # 0 /\ beat' = [beat EXCEPT ![w] = NoBeat]
          /\ row' = [row EXCEPT !.stage = beat[w].stage]
          /\ UNCHANGED <<source, objects, proc, overlapped>>
      BY <1>2 DEF WriteSnapshot
    <2>2. Busy(w) /\ beat[w].stage = row.stage
      BY <1>2, <2>1 DEF RInv, Typed, BeatType, BeatsCurrent, ClaimCurrent, Busy
    <2>3. row' = row
      BY <2>1, <2>2 DEF RInv, Typed, RowType
    <2>4. NoBeat \in BeatType /\ ~NoBeat.locked /\ NoBeat.stage = 0
      BY StageNumbers DEF NoBeat, BeatType
    <2>5. beat' \in [Worker -> BeatType] /\ beat'[w] = NoBeat
          /\ \A v \in Worker \ {w} : beat'[v] = beat[v]
      BY <2>1, <2>4 DEF RInv, Typed
    <2>6. Typed' /\ BeatsCurrent'
      <3>1. Typed'
        BY <2>1, <2>3, <2>5 DEF RInv, Typed
      <3>2. BeatsCurrent'
        BY <2>1, <2>4, <2>5 DEF RInv, BeatsCurrent
      <3> QED BY <3>1, <3>2
    <2>7. ClaimCurrent' /\ Alone' /\ EmptyStays'
      <3>1. \A v \in Worker : (Owns(v)' <=> Owns(v)) /\ (Busy(v)' <=> Busy(v))
        BY <2>1, <2>3 DEF Owns, Busy
      <3>2. ClaimCurrent'
        BY <2>1, <2>3, <3>1 DEF RInv, ClaimCurrent
      <3>3. Alone'
        BY <2>1, <3>1 DEF RInv, Alone
      <3>4. EmptyStays'
        BY <2>1 DEF RInv, EmptyStays
      <3> QED BY <3>2, <3>3, <3>4
    <2>8. Stored' = Stored
      BY <2>1 DEF Stored
    <2>9. Replacing'
      BY <2>1, <2>8 DEF RInv, Replacing, Replaced, Busy
    <2>10. ArtifactIsOneAttempt'
      BY <2>1, <2>3, <2>8 DEF RInv, ArtifactIsOneAttempt
    <2> QED BY <2>3, <2>6, <2>7, <2>9, <2>10 DEF RInv
  <1> QED BY <1>1, <1>2

\* A retry takes the row from whoever has it, and is remembered if that worker
\* runs.
LEMMA RetryPreserves ==
  ASSUME RInv, Retry
  PROVE  RInv'
  <1>1. /\ row.status \in {"FAILED", "IN_PROGRESS"}
        /\ row' = [row EXCEPT !.status = "READY", !.worker = NoWorker, !.stage = 0]
        /\ overlapped' = (overlapped \/ (row.status = "IN_PROGRESS" /\ Busy(row.worker)))
        /\ UNCHANGED <<source, objects, proc, beat>>
    BY DEF Retry
  <1>2. row' \in RowType /\ row'.status = "READY" /\ row'.worker = NoWorker
    <2>1. row \in RowType /\ 0 \in 0..Last
      BY StageNumbers DEF RInv, Typed
    <2> QED BY <1>1, <2>1 DEF RowType
  <1>3. overlapped' \in BOOLEAN
    BY <1>1
  <1>4. ~overlapped' => ~overlapped /\ \A v \in Worker : ~Busy(v)'
    BY <1>1 DEF RInv, Alone, Owns, Busy
  <1>5. Typed' /\ BeatsCurrent'
    BY <1>1, <1>2, <1>3 DEF RInv, Typed, BeatsCurrent
  <1>6. ClaimCurrent' /\ Alone' /\ Replacing' /\ ArtifactIsOneAttempt'
    BY <1>2, <1>4 DEF ClaimCurrent, Alone, Replacing, ArtifactIsOneAttempt, Owns
  <1>7. EmptyStays'
    BY <1>1 DEF RInv, EmptyStays
  <1> QED BY <1>5, <1>6, <1>7 DEF RInv

\* A step that changes nothing keeps the invariant.
LEMMA UnchangedPreserves ==
  ASSUME RInv, UNCHANGED vars
  PROVE  RInv'
  BY DEF vars, RInv, Typed, BeatsCurrent, ClaimCurrent, Alone, EmptyStays, Replacing, Replaced,
         ArtifactIsOneAttempt, Owns, Busy, Stored

-----------------------------------------------------------------------------
(* The theorems.                                                            *)

\* The part starts READY, with no object stored and no worker on it.
LEMMA InitRInv == Init => RInv
  <1> SUFFICES ASSUME Init PROVE RInv
    OBVIOUS
  <1>1. Idle \in ProcType /\ NoBeat \in BeatType
    BY StageNumbers, RewriteAssumption DEF Idle, ProcType, NoBeat, BeatType, RewriteAssumption
  <1>2. Idle.at = 0 /\ Idle.files = {} /\ Idle.todo = {}
    BY DEF Idle
  <1>3. ~NoBeat.locked /\ NoBeat.stage = 0
    BY DEF NoBeat
  <1>4. row \in RowType
    BY StageNumbers, RewriteAssumption DEF Init, RowType, RewriteAssumption
  <1>5. objects \in [File -> 0..MaxAttempts]
    BY RewriteAssumption DEF Init, NoObject, RewriteAssumption
  <1>6. Typed
    BY <1>1, <1>4, <1>5 DEF Init, Typed
  <1>7. \A w \in Worker : proc[w] = Idle /\ beat[w] = NoBeat /\ ~Busy(w)
    BY <1>2 DEF Init, Busy
  <1>8. BeatsCurrent /\ ClaimCurrent /\ Alone /\ Replacing
    BY <1>3, <1>7 DEF BeatsCurrent, ClaimCurrent, Alone, Replacing
  <1>9. EmptyStays
    BY <1>2, <1>7 DEF EmptyStays, Init
  <1>10. ArtifactIsOneAttempt
    BY DEF ArtifactIsOneAttempt, Init
  <1> QED BY <1>6, <1>8, <1>9, <1>10 DEF RInv

\* The invariant is inductive.
LEMMA NextRInv == RInv /\ [Next]_vars => RInv'
  <1> SUFFICES ASSUME RInv, [Next]_vars PROVE RInv'
    OBVIOUS
  <1>1. ASSUME NEW w \in Worker, UNCHANGED overlapped, Claim(w) PROVE RInv'
    BY <1>1, ClaimPreserves
  <1>2. ASSUME NEW w \in Worker, UNCHANGED overlapped, Step(w) PROVE RInv'
    BY <1>2, ReportStagePreserves, DeleteObjectPreserves, UploadFilePreserves,
       CompletePreserves DEF Step
  <1>3. ASSUME NEW w \in Worker, UNCHANGED overlapped, Beat(w) PROVE RInv'
    BY <1>3, SnapshotPreserves, WriteSnapshotPreserves DEF Beat
  <1>4. ASSUME NEW w \in Worker, UNCHANGED overlapped, WriteFails(w) PROVE RInv'
    BY <1>4, CancelPreserves DEF WriteFails
  <1>5. ASSUME NEW w \in Worker, UNCHANGED overlapped, Fail(w) \/ Crash(w) PROVE RInv'
    BY <1>5, FailPreserves, CrashPreserves
  <1>6. CASE Retry
    BY <1>6, RetryPreserves
  <1>7. CASE Over \/ UNCHANGED vars
    BY <1>7, UnchangedPreserves DEF Over
  <1> QED BY <1>1, <1>2, <1>3, <1>4, <1>5, <1>6, <1>7 DEF Next

\* The invariant holds in every state.
THEOREM RewriteInvariant == Spec => []RInv
  BY InitRInv, NextRInv, PTL DEF Spec

\* A registered artifact consists of the objects of exactly one attempt, for any
\* number of workers, attempts, failures and crashes, and rows and workers keep
\* their types.
THEOREM ArtifactOfOneAttempt == Spec => []RewriteInv
  <1>1. RInv => RewriteTypeOK
    <2> SUFFICES ASSUME RInv PROVE RewriteTypeOK
      OBVIOUS
    <2>1. /\ source \in [empty : BOOLEAN, zeroCopy : BOOLEAN]
          /\ row \in RowType
          /\ row.status = "IN_PROGRESS" <=> row.worker \in Worker
      BY RewriteAssumption DEF RInv, Typed, RowType, RewriteAssumption
    <2>2. ASSUME NEW w \in Worker
          PROVE  proc[w] \in ProcType /\ beat[w].stage <= proc[w].at
      BY StageNumbers DEF RInv, Typed, ProcType, BeatType, BeatsCurrent
    <2> QED BY <2>1, <2>2 DEF RewriteTypeOK, RInv, Typed, RowType, ProcType
  <1>2. RInv => RewriteInv
    BY <1>1 DEF RInv, RewriteInv
  <1> QED BY <1>2, RewriteInvariant, PTL

\* A heartbeat never turns the recorded stage of an attempt back.
THEOREM StagesMoveForward == Spec => StageMovesForward
  <1> DEFINE Forward == row'.attempts = row.attempts /\ row.status = "IN_PROGRESS"
                          /\ row'.status = "IN_PROGRESS" => row'.stage >= row.stage
  <1>1. RInv /\ [Next]_vars => [Forward]_vars
    <2> SUFFICES ASSUME RInv, Next PROVE Forward
      OBVIOUS
    <2>1. row.stage \in Nat /\ (UNCHANGED row => Forward)
      BY StageNumbers DEF RInv, Typed, RowType
    <2>2. ASSUME NEW w \in Worker, Claim(w) PROVE Forward
      BY <2>2 DEF Claim
    <2>3. ASSUME NEW w \in Worker, ReportStage(w) PROVE Forward
      <3>1. proc[w].at \in 1..15 /\ Busy(w) /\ Owns(w) /\ row' = [row EXCEPT !.stage = NextStage(w)]
        BY <2>3, StageNumbers DEF ReportStage, Busy, RInv, Typed, ProcType
      <3>2. NextStage(w) \in 1..16 /\ NextStage(w) > proc[w].at /\ row.stage = proc[w].at
        BY <3>1, NextStageFact DEF RInv, ClaimCurrent
      <3> QED BY <3>1, <3>2 DEF RInv, Typed, RowType
    <2>4. ASSUME NEW w \in Worker, DeleteObject(w) \/ UploadFile(w) \/ Crash(w) \/ Snapshot(w)
                                     \/ WriteFails(w)
          PROVE  Forward
      BY <2>1, <2>4 DEF DeleteObject, UploadFile, Crash, Snapshot, WriteFails
    <2>5. ASSUME NEW w \in Worker, Complete(w) PROVE Forward
      <3>1. row' = row \/ row' = [row EXCEPT !.status = "COMPACT_READY", !.worker = NoWorker,
                                            !.files = proc[w].files]
        BY <2>5 DEF Complete
      <3> QED BY <2>1, <3>1 DEF RInv, Typed, RowType
    <2>6. ASSUME NEW w \in Worker, Fail(w) PROVE Forward
      <3>1. \/ row' = row
            \/ row' = [row EXCEPT !.status = "FAILED", !.worker = NoWorker]
            \/ row' = [row EXCEPT !.status = "READY", !.worker = NoWorker, !.stage = 0]
        BY <2>6 DEF Fail
      <3> QED BY <2>1, <3>1 DEF RInv, Typed, RowType
    <2>7. ASSUME NEW w \in Worker, WriteSnapshot(w), UNCHANGED overlapped PROVE Forward
      <3>1. CASE Owns(w)
        BY <2>1, <2>7, <3>1, WriteSnapshotPreserves
      <3>2. CASE ~Owns(w)
        BY <2>1, <2>7, <3>2 DEF WriteSnapshot
      <3> QED BY <3>1, <3>2
    <2>8. Retry => Forward
      BY DEF Retry, RInv, Typed, RowType
    <2>9. Over => Forward
      BY <2>1 DEF Over, vars
    <2> QED BY <2>2, <2>3, <2>4, <2>5, <2>6, <2>7, <2>8, <2>9 DEF Next, Step, Beat
  <1>2. [][Forward]_vars => StageMovesForward
    BY DEF StageMovesForward
  <1> QED BY <1>1, <1>2, RewriteInvariant, PTL DEF Spec, StageMovesForward

-----------------------------------------------------------------------------
(* The local server: the worker is answered by its own.                     *)

\* The processes; a server that has not been started has none.
Processes ==
  /\ started \in Nat /\ part \in Nat /\ dir \in [Server -> Nat]
  /\ main \in [Server -> {"none", "running", "terminated", "failed"}]
  /\ child \in [Server -> {"none", "loading", "listening", "terminated", "failed"}]
  /\ \A s \in Server : s > started => child[s] = "none"

\* The server Stop waits for has its lock in the directory of the part.
InItsDirectory ==
  pc \notin {"idle", "ended"} => \A s \in Server : s = started => dir[s] = part

\* Unless one outlived its part, only the last server is alive, and none when
\* the worker starts another.
OnlyLast ==
  ~outlived => \A s \in Server : Alive(s) => s = started /\ pc # "idle"

\* Listening on the port alone is not inductive: a server becomes the one that
\* answers long after it was started.
ServerInv == Processes /\ InItsDirectory /\ OnlyLast

\* Servers are numbered.
LEMMA ServerNumbers == \A s \in Server : s \in Nat
  BY ServerAssumption DEF ServerAssumption, Server

\* Nothing runs at first.
LEMMA InitServer == ServerInit => ServerInv
  <1> SUFFICES ASSUME ServerInit PROVE ServerInv
    OBVIOUS
  <1>1. Processes
    BY DEF ServerInit, Processes
  <1>2. InItsDirectory /\ OnlyLast
    BY DEF ServerInit, InItsDirectory, OnlyLast, Alive
  <1> QED BY <1>1, <1>2 DEF ServerInv

\* ClickHouse: processes load, listen and exit.
LEMMA ProcessKeepsServer ==
  ASSUME ServerInv, NEW s \in Server, Process(s)
  PROVE  ServerInv'
  <1> USE DEF ServerInv, Processes, InItsDirectory, OnlyLast, Alive
  <1>1. CASE Listen(s)
    BY <1>1 DEF Listen
  <1>2. CASE ChildExits(s)
    BY <1>2 DEF ChildExits
  <1>3. CASE MainExits(s)
    BY <1>3 DEF MainExits
  <1> QED BY <1>1, <1>2, <1>3 DEF Process

\* A start: no server is alive, and the new one has the directory of the part.
LEMMA StartKeepsServer ==
  ASSUME ServerInv, Start
  PROVE  ServerInv'
  <1> USE DEF ServerInv, Processes, Start
  <1>1. Processes'
    <2>1. started' \in Nat /\ part' \in Nat
      OBVIOUS
    <2>2. dir' \in [Server -> Nat]
      <3>1. part \in Nat /\ dir \in [Server -> Nat] /\ dir' = [dir EXCEPT ![started + 1] = part]
        OBVIOUS
      <3> QED BY <3>1, Zenon
    <2>3. main' \in [Server -> {"none", "running", "terminated", "failed"}]
      OBVIOUS
    <2>4. child' \in [Server -> {"none", "loading", "listening", "terminated", "failed"}]
      OBVIOUS
    <2>5. \A s \in Server : s > started' => child'[s] = "none"
      BY ServerNumbers
    <2> QED BY <2>1, <2>2, <2>3, <2>4, <2>5
  <1>2. InItsDirectory'
    BY DEF InItsDirectory
  <1>3. OnlyLast'
    BY DEF OnlyLast, Alive
  <1> QED BY <1>1, <1>2, <1>3

\* Steps of the worker between a start and the end of a stop.
LEMMA WorkKeepsServer ==
  ASSUME ServerInv,
         Ready \/ ExitedEarly \/ GiveUp \/ Restart \/ Cleanup \/ Signal \/ Exited
  PROVE  ServerInv'
  BY DEF ServerInv, Processes, InItsDirectory, OnlyLast, Alive,
         Ready, ExitedEarly, GiveUp, Restart, Cleanup, Signal, Exited

\* The worker leaves Stop when its server is gone, or gives up, or remembers
\* that the server of a finished part has outlived it.
LEMMA StopKeepsServer ==
  ASSUME ServerInv, ExitedOtherwise \/ Unlocked \/ StopTimesOut \/ StopFails
  PROVE  ServerInv'
  <1>1. UNCHANGED <<started, dir, main, child>> /\ part' \in {part, part + 1}
        /\ pc' \in {"idle", "ended"}
    BY DEF ServerInv, Processes, ExitedOtherwise, Unlocked, StopTimesOut, StopFails, GivesUp, AfterStop
  <1>2. Processes' /\ InItsDirectory'
    BY <1>1 DEF ServerInv, Processes, InItsDirectory
  <1>3. OnlyLast'
    <2>1. CASE GivesUp
      BY <2>1, <1>1 DEF ServerInv, Processes, OnlyLast, Alive, GivesUp, AfterStop
    <2>2. CASE Unlocked
      BY <2>2, <1>1 DEF ServerInv, OnlyLast, InItsDirectory, Alive, Unlocked
    <2> QED BY <2>1, <2>2 DEF ExitedOtherwise, StopTimesOut, StopFails
  <1> QED BY <1>2, <1>3 DEF ServerInv

\* Every step keeps the invariant.
LEMMA NextKeepsServer == ServerInv /\ [ServerNext]_serverVars => ServerInv'
  <1> SUFFICES ASSUME ServerInv, [ServerNext]_serverVars PROVE ServerInv'
    OBVIOUS
  <1>1. CASE \E s \in Server : Process(s)
    BY <1>1, ProcessKeepsServer
  <1>2. CASE Start
    BY <1>2, StartKeepsServer
  <1>3. CASE Ready \/ ExitedEarly \/ GiveUp \/ Restart \/ Cleanup \/ Signal \/ Exited
    BY <1>3, WorkKeepsServer
  <1>4. CASE ExitedOtherwise \/ Unlocked \/ StopTimesOut \/ StopFails
    BY <1>4, StopKeepsServer
  <1>5. CASE UNCHANGED serverVars
    BY <1>5 DEF serverVars, ServerInv, Processes, InItsDirectory, OnlyLast, Alive
  <1> QED BY <1>1, <1>2, <1>3, <1>4, <1>5 DEF ServerNext, WorkerStep

\* However parts, restarts, exits of the two processes and timeouts of Start
\* and Stop follow each other, the worker is never answered by a server other
\* than its own, unless the server of a finished part outlived Stop.
THEOREM WorkerTalksToItsServer == ServerSpec => []OwnServer
  <1>1. ServerInv => OwnServer
    BY DEF ServerInv, OnlyLast, OwnServer, Listening, Alive
  <1> QED BY <1>1, InitServer, NextKeepsServer, PTL DEF ServerSpec
=============================================================================
