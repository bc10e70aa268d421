---------------------------- MODULE UploadProofs ----------------------------
(***************************************************************************)
(* Proofs about the commands that create and delete jobs, for any jobs,    *)
(* parts and failures: what a registered part refers to is kept, derived   *)
(* jobs are complete, however copies, chains and deletions interleave, the *)
(* pool that works on the parts of a command keeps its promise, and chains *)
(* of backups are read as they were written.                               *)
(***************************************************************************)
EXTENDS Upload, TaskPool, FiniteSetTheorems, SequenceTheorems, WellFoundedInduction, TLAPS

-----------------------------------------------------------------------------
(* The inductive invariant.                                                *)

Reference == Key \cup {NoKey}

RowType == [status : {"READY", "FINISHED", "EMPTY", "FAILED"}, source : Key,
            owner : Reference, parent : Reference]

CreateType == [phase : {"idle", "running", "done", "failed"}, todo : SUBSET Key, sent : SUBSET Key,
               copied : [Part -> [source : Reference, owner : Reference]]]

DeleteType == [phase : {"idle", "listed", "locked", "erased", "done", "refused", "failed"},
               listed : SUBSET Key]

\* UploadTypeOK, with the records written out.
Typed ==
  /\ DOMAIN rows \subseteq Key
  /\ \A k \in DOMAIN rows : rows[k] \in RowType
  /\ objects \subseteq {"source", "finished"} \X Key
  /\ create \in [Job -> CreateType]
  /\ delete \in [Job -> DeleteType]
  /\ \A j \in Job : create[j].todo \cup create[j].sent \cup delete[j].listed \subseteq {j} \X Part
  /\ broken \subseteq Job /\ origin \in Origins /\ overlapped \in BOOLEAN

\* A row's SourceKey names the objects of the row it refers to, or its own.
OwnSources ==
  \A k \in DOMAIN rows : rows[k].source = OwnerOf(k) /\ rows[k].owner # k

\* What a copy has listed agrees, and a copy has listed all it registers.
CopiesRefer ==
  /\ \A j \in Job : \A p \in Part :
       \/ create[j].copied[p] = NotCopied
       \/ /\ create[j].copied[p].owner \in Key
          /\ create[j].copied[p].source = create[j].copied[p].owner
  /\ \A j \in Job : origin[j].kind = "copy" =>
       \A k \in create[j].todo \cup create[j].sent : create[j].copied[k[2]] # NotCopied

\* Nothing refers to a row that a deletion has locked.
LocksHold == \A k \in DOMAIN rows : rows[k].owner \notin Locked

Derived(j) == origin[j].kind \in {"copy", "chain"}
Begun(j) == create[j].phase \in {"running", "done"}
Over(j) == create[j].phase \in {"done", "failed"}
Deleting(j) == delete[j].phase \in {"listed", "locked", "erased"}

\* Jobs are listed only once their creation is over, so that a deletion knows
\* all rows of its job.
Sequential ==
  /\ \A j \in Job : delete[j].phase # "idle" => Over(j)
  /\ \A j \in Job : Deleting(j) => Rows(j) \subseteq delete[j].listed
  /\ \A j \in Job : Derived(j) /\ Begun(j) => Over(origin[j].from)

\* A creation registers what it has begun with.
Created ==
  \A j \in Job :
    /\ create[j].phase = "idle" => Rows(j) = {}
    /\ create[j].phase \in {"idle", "done"} => create[j].todo = {} /\ create[j].sent = {}
    /\ create[j].phase # "idle" => origin[j].kind # "none"

\* Source objects are there for as long as a row, or an upload, needs them.
ObjectsThere ==
  /\ \A k \in DOMAIN rows :
       rows[k].source[1] \notin broken /\ delete[rows[k].source[1]].phase # "erased"
         => Source(rows[k].source) \in objects
  /\ \A j \in Job : create[j].phase = "running" /\ origin[j].kind # "copy" =>
       \A k \in create[j].sent : Source(k) \in objects

\* The part <<j, k[2]>> of a derived job stands for the part k it reads.
Represented(j, k) ==
  \/ origin[j].kind = "chain" /\ rows[k].status = "EMPTY"
  \/ <<j, k[2]>> \in create[j].todo \cup create[j].sent \cup DOMAIN rows

\* A derived job has all parts of the job it reads, or will have them.
Covers ==
  \A j \in Job : Derived(j) /\ Begun(j) /\ delete[j].phase = "idle" =>
    \A k \in Rows(origin[j].from) : Represented(j, k)

Always == Typed /\ OwnSources /\ OwnerKept /\ CopiesRefer /\ LocksHold /\ Created
Orderly == Sequential /\ ObjectsThere /\ Covers

UInv == Always /\ (~overlapped => Orderly)

-----------------------------------------------------------------------------
(* Keys, rows and locks.                                                   *)

\* A key is a pair, and NoKey is none.
LEMMA KeyFacts ==
  /\ \A k \in Key : k[1] \in Job /\ k[2] \in Part /\ k = <<k[1], k[2]>>
  /\ \A j \in Job, p \in Part : <<j, p>> \in Key
  /\ NoKey \notin Key
  BY UploadAssumption DEF Key, UploadAssumption

\* What creates a job.
LEMMA OriginFacts ==
  ASSUME Typed, NEW j \in Job
  PROVE  origin[j].kind \in Kinds /\ origin[j].from \in Job /\ origin[j].parts \subseteq Part
  BY UploadAssumption DEF Typed, UploadAssumption

\* Locked rows are those of deletions that hold locks.
LEMMA LockedFacts ==
  ASSUME Typed
  PROVE  /\ Locked \subseteq Key
         /\ \A j \in Job : delete[j].phase \in {"locked", "erased"} =>
              delete[j].listed \subseteq Locked
         /\ \A k \in Locked : \E j \in Job : /\ delete[j].phase \in {"locked", "erased"}
                                            /\ k \in delete[j].listed
  <1>1. \A k : k \in Locked <=> \E j \in Job : /\ delete[j].phase \in {"locked", "erased"}
                                              /\ k \in delete[j].listed
    BY DEF Locked
  <1>2. \A j \in Job : delete[j].listed \subseteq Key
    BY DEF Typed, DeleteType
  <1> QED BY <1>1, <1>2

\* The objects of a row are those of the row it refers to.
LEMMA SourceRow ==
  ASSUME Always, NEW k \in DOMAIN rows
  PROVE  /\ k \in Key /\ rows[k] \in RowType
         /\ rows[k].source = IF rows[k].owner # NoKey THEN rows[k].owner ELSE k
         /\ rows[k].owner # NoKey => rows[k].owner \in DOMAIN rows /\ rows[k].owner \in Key
  BY DEF Always, Typed, OwnSources, OwnerKept, OwnerOf

\* While a deletion holds its locks, the sources of other rows are not below
\* its prefix.
LEMMA ErasedUnused ==
  ASSUME Always, Sequential, NEW j \in Job, delete[j].phase \in {"locked", "erased"},
         NEW k \in DOMAIN rows, rows[k].source[1] = j
  PROVE  k \in delete[j].listed
  <1>1. delete[j].listed \subseteq Locked /\ Rows(j) \subseteq delete[j].listed
    BY LockedFacts DEF Always, Sequential, Deleting
  <1>2. CASE rows[k].owner # NoKey
    <2>1. rows[k].owner \in Rows(j)
      BY <1>2, SourceRow DEF Rows
    <2> QED BY <1>1, <2>1 DEF Always, LocksHold
  <1>3. CASE rows[k].owner = NoKey
    BY <1>1, <1>3, SourceRow DEF Rows
  <1> QED BY <1>2, <1>3

-----------------------------------------------------------------------------
(* Steps that leave the rows alone.                                        *)

\* What such a step does to the commands.
RowsStay ==
  /\ UNCHANGED <<rows, origin>>
  /\ Typed'
  /\ Locked' \subseteq Locked \cup {k \in Key : \A x \in DOMAIN rows : rows[x].owner # k}

\* The rows still refer to rows that nobody has locked.
LEMMA RowsStayKeep ==
  ASSUME Always, RowsStay, CopiesRefer', Created'
  PROVE  Always'
  <1>1. OwnSources' /\ OwnerKept'
    BY DEF RowsStay, Always, OwnSources, OwnerKept, OwnerOf
  <1>2. LocksHold'
    BY DEF RowsStay, Always, LocksHold
  <1> QED BY <1>1, <1>2 DEF Always, RowsStay

-----------------------------------------------------------------------------
(* Creating jobs.                                                          *)

\* What creation j has before it agrees with what it was asked to create.
Fits(j) ==
  /\ create[j].todo \cup create[j].sent \subseteq {j} \X Part
  /\ \A p \in Part : \/ create[j].copied[p] = NotCopied
                     \/ /\ create[j].copied[p].owner \in Key
                        /\ create[j].copied[p].source = create[j].copied[p].owner
  /\ origin[j].kind = "copy" =>
       \A k \in create[j].todo \cup create[j].sent : create[j].copied[k[2]] # NotCopied

\* All the parts that a derived job reads are represented.
Complete(j) ==
  Derived(j) => Over(origin[j].from) /\ \A k \in Rows(origin[j].from) : Represented(j, k)

\* Only the creation of job j moves on, and may upload.
CreateMoves(j) ==
  /\ UNCHANGED <<rows, delete, broken, origin>>
  /\ objects \subseteq objects' /\ objects' \subseteq {"source", "finished"} \X Key
  /\ create' \in [Job -> CreateType] /\ overlapped' \in BOOLEAN /\ (overlapped => overlapped')
  /\ \A i \in Job \ {j} : create'[i] = create[i]
  /\ create[j].phase \in {"idle", "running"} /\ create'[j].phase \in {"running", "failed"}
  /\ origin[j].kind # "none"

\* Each command agrees with what it was asked to create.
LEMMA FitsFact ==
  ASSUME Always, NEW j \in Job
  PROVE  Fits(j)
  BY DEF Always, Typed, CopiesRefer, Fits

\* Such a step keeps what the others have registered.
LEMMA CreateMovesAlways ==
  ASSUME Always, NEW j \in Job, CreateMoves(j), Fits(j)'
  PROVE  Always'
  <1>1. Typed'
    BY DEF Always, Typed, CreateMoves, Fits
  <1>2. RowsStay
    BY <1>1 DEF RowsStay, CreateMoves, Locked
  <1>3. CopiesRefer'
    BY DEF Always, CopiesRefer, CreateMoves, Fits
  <1>4. Created'
    BY DEF Always, Created, CreateMoves, Rows
  <1> QED BY <1>2, <1>3, <1>4, RowsStayKeep

\* It disturbs no other command.
LEMMA CreateMovesOrderly ==
  ASSUME Always, Orderly, NEW j \in Job, CreateMoves(j),
         create'[j].phase = "running" /\ origin[j].kind # "copy" =>
           \A k \in create'[j].sent : Source(k) \in objects',
         create'[j].phase = "running" => Complete(j)'
  PROVE  Orderly'
  <1>1. Sequential /\ ObjectsThere /\ Covers
    BY DEF Orderly
  <1>2. \A i \in Job : /\ Over(i) => Over(i)' /\ i # j
                       /\ i # j => create'[i] = create[i]
                       /\ origin[i].from \in Job
    BY OriginFacts DEF Over, CreateMoves, Always
  <1>3. Begun(j)' => create'[j].phase = "running"
    BY DEF Begun, CreateMoves
  <1>4. Sequential'
    BY <1>1, <1>2, <1>3 DEF Sequential, Derived, Begun, Deleting, Rows, CreateMoves, Complete
  <1>5. ObjectsThere'
    BY <1>1, <1>2 DEF ObjectsThere, CreateMoves
  <1>6. Covers'
    <2> SUFFICES ASSUME NEW i \in Job, (Derived(i) /\ Begun(i) /\ delete[i].phase = "idle")',
                        NEW k \in Rows(origin[i].from)'
                 PROVE  Represented(i, k)'
      BY DEF Covers
    <2>1. CASE i = j
      BY <2>1, <1>3 DEF Complete
    <2>2. CASE i # j
      <3>1. Represented(i, k)
        BY <2>2, <1>1, <1>2 DEF Covers, CreateMoves, Derived, Begun, Rows
      <3> QED BY <2>2, <3>1, <1>2 DEF Represented, CreateMoves
    <2> QED BY <2>1, <2>2
  <1> QED BY <1>4, <1>5, <1>6 DEF Orderly

\* upload-freeze and upload-backup begin.
LEMMA BeginUploadKeeps ==
  ASSUME UInv, NEW j \in Job, BeginUpload(j), UNCHANGED origin
  PROVE  UInv'
  <1> DEFINE c == [phase |-> "running", todo |-> {j} \X origin[j].parts, sent |-> {},
                   copied |-> create[j].copied]
  <1>1. /\ origin[j].kind = "upload" /\ create[j].phase = "idle"
        /\ create' = [create EXCEPT ![j] = c]
        /\ UNCHANGED <<rows, objects, delete, broken, overlapped>>
    BY DEF BeginUpload, Begin
  <1>2. Typed /\ create[j] \in CreateType /\ origin[j].parts \subseteq Part
    BY OriginFacts DEF UInv, Always, Typed
  <1>3. {j} \X origin[j].parts \subseteq {j} \X Part /\ {j} \X Part \subseteq Key
    BY <1>2 DEF Key
  <1>4. c \in CreateType
    BY <1>2, <1>3 DEF CreateType
  <1>5. CreateMoves(j) /\ create'[j] = c
    BY <1>1, <1>2, <1>4 DEF CreateMoves, Typed
  <1>6. Fits(j)'
    BY <1>1, <1>3, <1>5, FitsFact DEF UInv, Fits
  <1>7. Complete(j)'
    BY <1>1 DEF Complete, Derived
  <1> QED BY <1>1, <1>5, <1>6, <1>7, CreateMovesAlways, CreateMovesOrderly DEF UInv

\* An upload or a copy that fails, or whose process ends, has had its say.
LEMMA FailingKeeps ==
  ASSUME UInv, NEW j \in Job, Sets(j, "failed"), origin[j].kind # "none",
         create[j].phase \in {"idle", "running"},
         overlapped' \in BOOLEAN, overlapped => overlapped',
         UNCHANGED <<rows, objects, delete, broken, origin>>
  PROVE  UInv'
  <1>1. Typed /\ create[j] \in CreateType
    BY DEF UInv, Always, Typed
  <1>2. create'[j] = [create[j] EXCEPT !.phase = "failed"] /\ CreateMoves(j)
    BY <1>1 DEF Sets, CreateMoves, Typed, CreateType
  <1>3. /\ create'[j].phase = "failed" /\ create'[j].todo = create[j].todo
        /\ create'[j].sent = create[j].sent /\ create'[j].copied = create[j].copied
    BY <1>1, <1>2 DEF CreateType
  <1>4. Fits(j)'
    BY <1>3, FitsFact DEF UInv, Fits
  <1> QED BY <1>2, <1>3, <1>4, CreateMovesAlways, CreateMovesOrderly DEF UInv

\* upload-freeze -copy-parts-from-job and upload-chain begin: a copy lists all
\* rows of the job it reads, a chain those that are not empty.
LEMMA BeginDerivedKeeps ==
  ASSUME UInv, NEW j \in Job, BeginDerived(j), UNCHANGED origin
  PROVE  UInv'
  <1> DEFINE from == origin[j].from
             parts == IF origin[j].kind = "copy" THEN Rows(from)
                      ELSE SelectChainSourceParts(from)
             copied == [p \in Part |-> IF origin[j].kind = "copy" /\ <<from, p>> \in parts
                                       THEN [source |-> rows[<<from, p>>].source,
                                             owner |-> OwnerOf(<<from, p>>)]
                                       ELSE NotCopied]
             todo == {j} \X {k[2] : k \in parts}
             c == [phase |-> "running", todo |-> todo, sent |-> {}, copied |-> copied]
  <1>1. /\ origin[j].kind \in {"copy", "chain"} /\ create[j].phase = "idle"
        /\ Rows(from) # {} /\ overlapped' = (overlapped \/ create[from].phase = "running")
        /\ UNCHANGED <<rows, objects, delete, broken>>
        /\ \/ Sets(j, "failed")
           \/ parts # {} /\ create' = [create EXCEPT ![j] = c]
    BY DEF BeginDerived, Begin, Listed
  <1>2. Always /\ Typed /\ create[j] \in CreateType /\ from \in Job /\ overlapped \in BOOLEAN
    BY OriginFacts DEF UInv, Always, Typed
  <1>3. CASE Sets(j, "failed")
    BY <1>1, <1>2, <1>3, FailingKeeps
  <1>4. CASE parts # {} /\ create' = [create EXCEPT ![j] = c]
    <2>1. parts \subseteq Rows(from) /\ Rows(from) \subseteq DOMAIN rows
      BY DEF SelectChainSourceParts, Rows
    <2>2. \A k \in Rows(from) : k[2] \in Part /\ k = <<from, k[2]>>
      BY <1>2, KeyFacts DEF Rows, Typed
    <2>3. todo \subseteq {j} \X Part /\ todo \subseteq Key
      BY <2>1, <2>2 DEF Key
    <2>4. \A p \in Part : <<from, p>> \in parts =>
            /\ rows[<<from, p>>].source \in Key /\ OwnerOf(<<from, p>>) = rows[<<from, p>>].source
      BY <1>2, <2>1 DEF Always, Typed, RowType, OwnSources
    <2>5. \A p \in Part : /\ copied[p] \in [source : Reference, owner : Reference]
                          /\ \/ copied[p] = NotCopied
                             \/ /\ copied[p].owner \in Key
                                /\ copied[p].source = copied[p].owner
      BY <2>4 DEF NotCopied, Reference
    <2>6. \A k \in todo : /\ <<from, k[2]>> \in parts /\ k[2] \in Part
      BY <2>1, <2>2
    <2>7. ASSUME origin[j].kind = "copy"
          PROVE  \A k \in todo : copied[k[2]] # NotCopied
      <3> TAKE k \in todo
      <3>1. <<from, k[2]>> \in parts /\ k[2] \in Part
        BY <2>6
      <3>2. copied[k[2]].owner \in Key
        BY <2>4, <2>7, <3>1
      <3> QED BY <3>2, KeyFacts DEF NotCopied
    <2>8. c \in CreateType
      BY <2>3, <2>5 DEF CreateType
    <2>9. CreateMoves(j) /\ create'[j] = c
      <3> HIDE DEF c
      <3> QED BY <1>1, <1>2, <1>4, <2>8 DEF CreateMoves, Typed, c
    <2>10. Fits(j)'
      <3>1. create'[j].todo = todo /\ create'[j].sent = {} /\ create'[j].copied = copied
        BY <2>9
      <3> HIDE DEF todo, copied, c
      <3> QED BY <1>1, <2>3, <2>5, <2>7, <3>1 DEF Fits
    <2>11. Always'
      BY <1>2, <2>9, <2>10, CreateMovesAlways
    <2>12. ASSUME ~overlapped'
           PROVE  Orderly'
      <3>1. Orderly /\ create[from].phase # "running"
        BY <1>1, <2>12 DEF UInv
      <3>2. Over(from) /\ from # j
        BY <1>1, <1>2, <3>1 DEF Over, Always, Created, Typed, CreateType
      <3>3. \A k \in Rows(from) : k \in parts => <<j, k[2]>> \in todo
        OBVIOUS
      <3>4. \A k \in Rows(from) : k \notin parts =>
              origin[j].kind = "chain" /\ rows[k].status = "EMPTY"
        BY <1>1, <1>4 DEF SelectChainSourceParts
      <3>5. Complete(j)'
        BY <1>1, <1>2, <2>9, <3>2, <3>3, <3>4
        DEF Complete, Over, Rows, Represented, CreateMoves
      <3> QED BY <1>2, <2>9, <3>1, <3>5, CreateMovesOrderly
    <2> QED BY <2>11, <2>12 DEF UInv
  <1> QED BY <1>1, <1>3, <1>4

\* A part is uploaded, or the manifest of the part to copy is read.
LEMMA SendPartKeeps ==
  ASSUME UInv, NEW j \in Job, NEW k \in {j} \X Part, SendPart(j, k),
         UNCHANGED <<origin, overlapped>>
  PROVE  UInv'
  <1>1. /\ create[j].phase = "running" /\ k \in create[j].todo
        /\ create' = [create EXCEPT ![j] = [@ EXCEPT !.todo = create[j].todo \ {k},
                                                    !.sent = create[j].sent \cup {k}]]
        /\ UNCHANGED <<rows, delete, broken>>
        /\ objects \subseteq objects' /\ objects' \subseteq objects \cup {Source(k)}
        /\ origin[j].kind # "copy" => Source(k) \in objects'
    BY DEF SendPart
  <1>2. Always /\ Typed /\ create[j] \in CreateType
    BY DEF UInv, Always, Typed
  <1>3. k \in Key /\ Source(k) \in {"source", "finished"} \X Key
    BY DEF Key, Source
  <1>4. /\ create'[j] \in CreateType
        /\ create'[j].phase = "running" /\ create'[j].copied = create[j].copied
        /\ create'[j].todo = create[j].todo \ {k} /\ create'[j].sent = create[j].sent \cup {k}
    BY <1>1, <1>2, <1>3 DEF CreateType, Typed
  <1>5. \A i \in Job \ {j} : create'[i] = create[i] /\ create'[i] \in CreateType
    BY <1>1, <1>2 DEF Typed
  <1>6. create' \in [Job -> CreateType]
    BY <1>1, <1>2, <1>4, <1>5 DEF Typed
  <1>7. origin[j].kind # "none"
    BY <1>1, <1>2 DEF Always, Created
  <1>8. CreateMoves(j)
    BY <1>1, <1>2, <1>3, <1>4, <1>5, <1>6, <1>7 DEF CreateMoves, Typed
  <1>9. create'[j].todo \cup create'[j].sent = create[j].todo \cup create[j].sent
    BY <1>1, <1>4
  <1>10. Always'
    <2>1. Fits(j)'
      BY <1>2, <1>4, <1>9, FitsFact DEF Fits
    <2> QED BY <1>2, <1>8, <2>1, CreateMovesAlways
  <1>11. ASSUME ~overlapped
         PROVE  Orderly'
    <2>1. Orderly
      BY <1>11 DEF UInv
    <2>2. origin[j].kind # "copy" => \A x \in create'[j].sent : Source(x) \in objects'
      BY <1>1, <1>4, <2>1 DEF Orderly, ObjectsThere
    <2>3. delete[j].phase = "idle" /\ Begun(j)
      BY <1>1, <2>1 DEF Orderly, Sequential, Over, Begun
    <2>4. Complete(j)
      BY <2>1, <2>3 DEF Orderly, Sequential, Covers, Complete
    <2>5. Derived(j) => origin[j].from # j /\ origin[j].from \in Job
      BY <1>1, <2>4, <1>2, OriginFacts DEF Complete, Over
    <2>6. Complete(j)'
      <3>1. Derived(j)' => Over(origin[j].from)'
        BY <1>5, <2>4, <2>5 DEF Complete, Over, Derived
      <3>2. ASSUME Derived(j)', NEW x \in Rows(origin[j].from)'
            PROVE  Represented(j, x)'
        <4>1. Represented(j, x)
          BY <1>1, <2>4, <3>2 DEF Complete, Derived, Rows
        <4> QED BY <1>1, <1>9, <4>1 DEF Represented
      <3> QED BY <3>1, <3>2 DEF Complete, Rows
    <2> QED BY <1>2, <1>8, <2>1, <2>2, <2>6, CreateMovesOrderly
  <1> QED BY <1>10, <1>11 DEF UInv

\* A copy that finds a manifest or a source row gone fails.
LEMMA CopyFailsKeeps ==
  ASSUME UInv, NEW j \in Job, CopyFails(j), UNCHANGED <<origin, overlapped>>
  PROVE  UInv'
  BY FailingKeeps DEF CopyFails, UInv, Always, Typed

\* So does an upload, anywhere.
LEMMA CreateFailsKeeps ==
  ASSUME UInv, NEW j \in Job, CreateFails(j), UNCHANGED <<origin, overlapped>>
  PROVE  UInv'
  <1>1. origin[j].kind # "none" /\ overlapped \in BOOLEAN
    BY DEF CreateFails, UInv, Always, Typed, Created
  <1> QED BY <1>1, FailingKeeps DEF CreateFails

\* CreatePart registers a part; its reference is to a row that no deletion has
\* locked and that owns its source.
LEMMA CreatePartKeeps ==
  ASSUME UInv, NEW j \in Job, NEW k \in {j} \X Part, CreatePart(j, k),
         UNCHANGED <<origin, overlapped>>
  PROVE  UInv'
  <1> DEFINE cp == create[j].copied[k[2]]
             parent == IF origin[j].kind = "chain" THEN <<origin[j].from, k[2]>> ELSE NoKey
             row == NewPart(IF cp = NotCopied THEN k ELSE cp.source, cp.owner, parent)
             ph == IF create[j].todo = {} /\ create[j].sent = {k} THEN "done" ELSE "running"
  <1>1. /\ create[j].phase = "running" /\ k \in create[j].sent /\ k \notin DOMAIN rows
        /\ cp.owner \in (DOMAIN rows \ Locked) \cup {NoKey}
        /\ cp.owner # NoKey => rows[cp.owner].source = cp.source
        /\ rows' = Put(k, row)
        /\ create' = [create EXCEPT ![j] = [@ EXCEPT !.sent = create[j].sent \ {k},
                                                    !.phase = ph]]
        /\ UNCHANGED <<objects, delete, broken>>
    BY DEF CreatePart, SourceRowLocked
  <1>2. Always /\ Typed /\ create[j] \in CreateType
    BY DEF UInv, Always, Typed
  <1>3. k \in Key /\ k[1] = j /\ k[2] \in Part
    BY DEF Key
  <1>4. /\ create'[j] \in CreateType
        /\ create'[j].phase = ph /\ create'[j].copied = create[j].copied
        /\ create'[j].todo = create[j].todo /\ create'[j].sent = create[j].sent \ {k}
    <2>1. ph \in {"running", "done"}
      OBVIOUS
    <2> HIDE DEF ph
    <2> QED BY <1>1, <1>2, <2>1 DEF CreateType, Typed
  <1>5. /\ \A i \in Job \ {j} : create'[i] = create[i] /\ create'[i] \in CreateType
        /\ create' \in [Job -> CreateType]
    BY <1>1, <1>2, <1>4 DEF Typed
  <1>6. /\ cp = NotCopied \/ (cp.owner \in Key /\ cp.source = cp.owner)
        /\ cp \in [source : Reference, owner : Reference]
        /\ NotCopied.owner = NoKey
    BY <1>2, <1>3, FitsFact DEF Fits, CreateType, NotCopied
  <1>7. /\ row.status = "READY" /\ row.owner = cp.owner /\ row.parent = parent
        /\ row.source = IF cp.owner # NoKey THEN cp.owner ELSE k
        /\ row.source \in Key
    BY <1>3, <1>6, KeyFacts DEF NewPart
  <1>8. row \in RowType
    <2>1. parent \in Reference
      BY <1>2, <1>3, OriginFacts DEF Reference, Key
    <2>2. cp.owner \in Reference
      BY <1>6
    <2> HIDE DEF parent, cp
    <2> QED BY <1>3, <1>6, <1>7, <2>1, <2>2 DEF NewPart, RowType
  <1> HIDE DEF row
  <1>9. /\ DOMAIN rows' = DOMAIN rows \cup {k} /\ rows'[k] = row
        /\ \A x \in DOMAIN rows : x # k /\ rows'[x] = rows[x]
    BY <1>1 DEF Put
  <1>10. cp.owner # NoKey => /\ cp.owner \in DOMAIN rows /\ cp.owner \notin Locked
                             /\ rows[cp.owner].owner = NoKey
    <2> SUFFICES ASSUME cp.owner # NoKey
                 PROVE  /\ cp.owner \in DOMAIN rows /\ cp.owner \notin Locked
                        /\ rows[cp.owner].owner = NoKey
      OBVIOUS
    <2>1. cp.owner \in DOMAIN rows /\ cp.owner \notin Locked /\ rows[cp.owner].source = cp.owner
      BY <1>1, <1>6
    <2> QED BY <2>1, <1>2 DEF Always, OwnSources, OwnerOf
  <1>11. Typed'
    BY <1>1, <1>2, <1>3, <1>4, <1>5, <1>8, <1>9 DEF Typed
  <1>12. OwnSources' /\ OwnerKept'
    <2>1. row.owner # k /\ row.source = IF row.owner # NoKey THEN row.owner ELSE k
      BY <1>1, <1>3, <1>7, <1>10, KeyFacts
    <2>2. OwnSources'
      BY <1>2, <1>9, <2>1 DEF Always, OwnSources, OwnerOf
    <2>3. OwnerKept'
      BY <1>2, <1>7, <1>9, <1>10 DEF Always, OwnerKept
    <2> QED BY <2>2, <2>3
  <1>13. CopiesRefer'
    BY <1>2, <1>4, <1>5 DEF Always, CopiesRefer
  <1>14. LocksHold'
    <2>1. NoKey \notin Locked
      BY <1>2, LockedFacts, KeyFacts
    <2>2. Locked' = Locked
      BY <1>1 DEF Locked
    <2> QED BY <1>2, <1>7, <1>9, <1>10, <2>1, <2>2 DEF Always, LocksHold
  <1>15. Created'
    <2>1. \A i \in Job \ {j} : Rows(i)' = Rows(i)
      BY <1>3, <1>9 DEF Rows
    <2>2. \A i \in Job \ {j} : create'[i] = create[i]
      BY <1>5
    <2> QED BY <1>1, <1>2, <1>4, <2>1, <2>2 DEF Always, Created
  <1>16. Always'
    BY <1>11, <1>12, <1>13, <1>14, <1>15 DEF Always
  <1>17. ASSUME ~overlapped
         PROVE  Orderly'
    <2>1. Sequential /\ ObjectsThere /\ Covers
      BY <1>17 DEF UInv, Orderly
    <2>2. delete[j].phase = "idle" /\ Begun(j) /\ ~Over(j)
      BY <1>1, <2>1 DEF Sequential, Over, Begun
    <2>3. \A i \in Job : /\ Over(i) => Over(i)' /\ i # j
                         /\ Begun(i)' <=> Begun(i)
                         /\ i # j => create'[i] = create[i] /\ Rows(i)' = Rows(i)
                         /\ origin[i].from \in Job
      BY <1>2, <1>3, <1>4, <1>5, <1>9, <2>2, OriginFacts DEF Over, Begun, Rows
    <2>4. Sequential'
      BY <1>1, <2>1, <2>2, <2>3 DEF Sequential, Derived, Deleting
    <2>5. ObjectsThere'
      <3>1. ASSUME row.source[1] \notin broken, delete[row.source[1]].phase # "erased"
            PROVE  Source(row.source) \in objects
        <4>1. CASE cp.owner # NoKey
          <5>1. rows[cp.owner].source = row.source /\ cp.owner \in DOMAIN rows
            BY <4>1, <1>1, <1>6, <1>7, <1>10
          <5> QED BY <3>1, <5>1, <2>1 DEF ObjectsThere
        <4>2. CASE cp.owner = NoKey
          <5>1. cp = NotCopied /\ row.source = k
            BY <4>2, <1>6, <1>7, KeyFacts
          <5>2. origin[j].kind # "copy"
            BY <5>1, <1>1, <1>2 DEF Always, CopiesRefer
          <5> QED BY <5>1, <5>2, <1>1, <2>1 DEF ObjectsThere
        <4> QED BY <4>1, <4>2
      <3>2. \A i \in Job : create'[i].phase = "running" =>
              create[i].phase = "running" /\ create'[i].sent \subseteq create[i].sent
        BY <1>1, <1>4, <1>5
      <3> QED BY <1>1, <1>9, <2>1, <3>1, <3>2 DEF ObjectsThere
    <2>6. Covers'
      <3> SUFFICES ASSUME NEW i \in Job, (Derived(i) /\ Begun(i) /\ delete[i].phase = "idle")',
                          NEW x \in Rows(origin[i].from)'
                   PROVE  Represented(i, x)'
        BY DEF Covers
      <3>1. Derived(i) /\ Begun(i) /\ delete[i].phase = "idle"
        BY <1>1, <2>3 DEF Derived
      <3>2. origin[i].from # j /\ origin[i].from \in Job
        BY <2>1, <2>3, <3>1 DEF Sequential
      <3>3. x \in Rows(origin[i].from) /\ x \in DOMAIN rows
        BY <2>3, <3>2 DEF Rows
      <3>4. Represented(i, x)
        BY <2>1, <3>1, <3>3 DEF Covers
      <3>5. \/ origin[i].kind = "chain" /\ rows'[x].status = "EMPTY"
            \/ <<i, x[2]>> \in create[i].todo \cup create[i].sent \cup DOMAIN rows
        BY <1>9, <3>3, <3>4 DEF Represented
      <3>6. create[i].todo \cup create[i].sent \cup DOMAIN rows
              \subseteq create'[i].todo \cup create'[i].sent \cup DOMAIN rows'
        BY <1>4, <1>5, <1>9
      <3> QED BY <1>1, <3>5, <3>6 DEF Represented
    <2> QED BY <2>4, <2>5, <2>6 DEF Orderly
  <1> QED BY <1>16, <1>17 DEF UInv

-----------------------------------------------------------------------------
(* Workers.                                                                *)

\* A rewrite changes the status of a row that no deletion has locked, and adds
\* objects.
LEMMA RewriteKeeps ==
  ASSUME UInv, NEW k \in Key, NEW s \in {"FINISHED", "EMPTY", "FAILED"}, Rewrite(k, s),
         UNCHANGED <<origin, overlapped>>
  PROVE  UInv'
  <1>1. /\ k \in DOMAIN rows /\ rows[k].status = "READY"
        /\ rows' = [rows EXCEPT ![k] = [@ EXCEPT !.status = s]]
        /\ objects \subseteq objects' /\ objects' \subseteq objects \cup {Finished(k)}
        /\ UNCHANGED <<create, delete, broken>>
    BY DEF Rewrite
  <1>2. Always /\ Typed /\ rows[k] \in RowType
    BY <1>1 DEF UInv, Always, Typed
  <1>3. /\ rows'[k] \in RowType /\ rows'[k].source = rows[k].source
        /\ rows'[k].owner = rows[k].owner
    BY <1>1, <1>2 DEF RowType
  <1>4. /\ DOMAIN rows' = DOMAIN rows
        /\ \A x \in DOMAIN rows : x # k => rows'[x] = rows[x]
    BY <1>1
  <1>5. \A x \in DOMAIN rows : /\ rows'[x] \in RowType /\ rows'[x].source = rows[x].source
                               /\ rows'[x].owner = rows[x].owner
                               /\ rows[x].status = "EMPTY" => rows'[x].status = "EMPTY"
    BY <1>1, <1>2, <1>3, <1>4 DEF Typed
  <1>6. \A i : Rows(i)' = Rows(i)
    BY <1>4 DEF Rows
  <1>7. Typed'
    <2>1. Finished(k) \in {"source", "finished"} \X Key
      BY DEF Finished
    <2> QED BY <1>1, <1>2, <1>4, <1>5, <2>1 DEF Typed
  <1>8. OwnSources' /\ OwnerKept'
    BY <1>2, <1>4, <1>5 DEF Always, OwnSources, OwnerKept, OwnerOf
  <1>9. CopiesRefer' /\ Created'
    BY <1>1, <1>2, <1>6 DEF Always, CopiesRefer, Created
  <1>10. LocksHold'
    BY <1>1, <1>2, <1>4, <1>5 DEF Always, LocksHold, Locked
  <1>11. Always'
    BY <1>7, <1>8, <1>9, <1>10 DEF Always
  <1>12. ASSUME ~overlapped
         PROVE  Orderly'
    <2>1. Sequential /\ ObjectsThere /\ Covers
      BY <1>12 DEF UInv, Orderly
    <2>2. Sequential'
      BY <1>1, <1>6, <2>1 DEF Sequential, Over, Derived, Begun, Deleting
    <2>3. ObjectsThere'
      BY <1>1, <1>4, <1>5, <2>1 DEF ObjectsThere
    <2>4. Covers'
      <3> SUFFICES ASSUME NEW i \in Job, (Derived(i) /\ Begun(i) /\ delete[i].phase = "idle")',
                          NEW x \in Rows(origin[i].from)'
                   PROVE  Represented(i, x)'
        BY DEF Covers
      <3>1. x \in Rows(origin[i].from) /\ x \in DOMAIN rows
        BY <1>6 DEF Rows
      <3>2. Represented(i, x)
        BY <1>1, <2>1, <3>1 DEF Covers, Derived, Begun
      <3> QED BY <1>1, <1>4, <1>5, <3>1, <3>2 DEF Represented
    <2> QED BY <2>2, <2>3, <2>4 DEF Orderly
  <1> QED BY <1>11, <1>12 DEF UInv

-----------------------------------------------------------------------------
(* Deleting jobs.                                                          *)

\* Only the deletion of job j moves on, short of its commit, and it locks
\* nothing that a row refers to.
DeleteMoves(j) ==
  /\ UNCHANGED <<rows, create, origin>>
  /\ overlapped' \in BOOLEAN /\ (overlapped => overlapped')
  /\ objects' \subseteq objects /\ broken \subseteq broken' /\ broken' \subseteq broken \cup {j}
  /\ delete' \in [Job -> DeleteType] /\ delete'[j].listed \subseteq {j} \X Part
  /\ \A i \in Job \ {j} : delete'[i] = delete[i]
  /\ delete'[j].phase # "idle"
  /\ delete'[j].phase \in {"locked", "erased"} =>
       \/ delete[j].phase \in {"locked", "erased"} /\ delete'[j].listed = delete[j].listed
       \/ \A x \in DOMAIN rows : rows[x].owner \notin delete'[j].listed

\* Such a step keeps what is registered.
LEMMA DeleteMovesAlways ==
  ASSUME Always, NEW j \in Job, DeleteMoves(j)
  PROVE  Always'
  <1>1. Typed'
    BY DEF Always, Typed, DeleteMoves
  <1>2. RowsStay
    <2>1. ASSUME NEW k \in Locked'
          PROVE  k \in Key /\ (k \in Locked \/ \A x \in DOMAIN rows : rows[x].owner # k)
      <3>1. PICK i \in Job : delete'[i].phase \in {"locked", "erased"} /\ k \in delete'[i].listed
        BY DEF Locked
      <3>2. k \in Key
        BY <3>1 DEF DeleteMoves, DeleteType
      <3>3. CASE delete[i].phase \in {"locked", "erased"} /\ delete'[i].listed = delete[i].listed
        BY <3>1, <3>2, <3>3, LockedFacts DEF Always
      <3>4. CASE i = j /\ \A x \in DOMAIN rows : rows[x].owner \notin delete'[j].listed
        BY <3>1, <3>2, <3>4
      <3> QED BY <3>1, <3>3, <3>4 DEF DeleteMoves
    <2> QED BY <1>1, <2>1 DEF RowsStay, DeleteMoves
  <1>3. CopiesRefer' /\ Created'
    BY DEF Always, CopiesRefer, Created, DeleteMoves, Rows
  <1> QED BY <1>2, <1>3, RowsStayKeep

\* It removes no object that is still needed: only objects below the prefix of
\* its job, whose rows are the ones it deletes.
LEMMA DeleteMovesOrderly ==
  ASSUME Always, Orderly, NEW j \in Job, DeleteMoves(j), Over(j),
         Deleting(j)' => Rows(j) \subseteq delete'[j].listed,
         \A o \in objects \ objects' : o[2][1] = j,
         objects' # objects \/ delete[j].phase = "erased" =>
           delete'[j].phase = "erased" \/ j \in broken'
  PROVE  Orderly'
  <1>1. Sequential /\ ObjectsThere /\ Covers
    BY DEF Orderly
  <1>2. \A k : Source(k)[2] = k
    BY DEF Source
  <1>3. Sequential'
    BY <1>1 DEF Sequential, Over, Derived, Begun, Deleting, Rows, DeleteMoves
  <1>4. \A k \in DOMAIN rows :
          rows[k].source[1] \notin broken' /\ delete'[rows[k].source[1]].phase # "erased"
            => Source(rows[k].source) \in objects'
    <2> SUFFICES ASSUME NEW k \in DOMAIN rows, rows[k].source[1] \notin broken',
                        delete'[rows[k].source[1]].phase # "erased"
                 PROVE  Source(rows[k].source) \in objects'
      OBVIOUS
    <2>1. rows[k].source[1] \in Job
      BY SourceRow, KeyFacts DEF RowType
    <2>2. CASE rows[k].source[1] = j
      <3>1. objects' = objects /\ delete[j].phase # "erased" /\ j \notin broken
        BY <2>2 DEF DeleteMoves
      <3> QED BY <1>1, <2>2, <3>1 DEF ObjectsThere
    <2>3. CASE rows[k].source[1] # j
      <3>1. Source(rows[k].source) \in objects
        BY <1>1, <2>1, <2>3 DEF ObjectsThere, DeleteMoves
      <3> QED BY <1>2, <2>3, <3>1
    <2> QED BY <2>2, <2>3
  <1>5. \A i \in Job : create[i].phase = "running" /\ origin[i].kind # "copy" =>
          \A k \in create[i].sent : Source(k) \in objects'
    <2> SUFFICES ASSUME NEW i \in Job, create[i].phase = "running", origin[i].kind # "copy",
                        NEW k \in create[i].sent
                 PROVE  Source(k) \in objects'
      OBVIOUS
    <2>1. Source(k) \in objects /\ i # j
      BY <1>1 DEF ObjectsThere, Over
    <2>2. k[1] = i
      BY DEF Always, Typed
    <2> QED BY <1>2, <2>1, <2>2
  <1>6. ObjectsThere'
    BY <1>4, <1>5 DEF ObjectsThere, DeleteMoves
  <1>7. Covers'
    BY <1>1 DEF Covers, Derived, Begun, Rows, Represented, DeleteMoves
  <1> QED BY <1>3, <1>6, <1>7 DEF Orderly

\* A deletion goes from one phase to the next with what it has listed.
LEMMA DeleteFacts ==
  ASSUME Always, NEW j \in Job,
         NEW p \in {"listed", "locked", "erased", "done", "refused", "failed"},
         delete' = [delete EXCEPT ![j].phase = p]
  PROVE  /\ delete' \in [Job -> DeleteType] /\ \A i \in Job \ {j} : delete'[i] = delete[i]
         /\ delete'[j].phase = p /\ delete'[j].listed = delete[j].listed
         /\ delete[j].listed \subseteq {j} \X Part
  <1>1. delete \in [Job -> DeleteType] /\ delete[j] \in DeleteType
        /\ delete[j].listed \subseteq {j} \X Part
    BY DEF Always, Typed
  <1>2. delete' = [delete EXCEPT ![j] = [@ EXCEPT !.phase = p]]
    OBVIOUS
  <1>3. delete'[j] \in DeleteType /\ delete'[j].phase = p /\ delete'[j].listed = delete[j].listed
    BY <1>1, <1>2 DEF DeleteType
  <1> QED BY <1>1, <1>2, <1>3

\* ListJobParts
LEMMA ListJobPartsKeeps ==
  ASSUME UInv, NEW j \in Job, ListJobParts(j), UNCHANGED origin
  PROVE  UInv'
  <1> DEFINE d == [phase |-> "listed", listed |-> Rows(j)]
  <1>1. /\ delete[j].phase = "idle" /\ Rows(j) # {} /\ delete' = [delete EXCEPT ![j] = d]
        /\ overlapped' = (overlapped \/ create[j].phase = "running")
        /\ UNCHANGED <<rows, objects, create, broken>>
    BY DEF ListJobParts, Listed
  <1>2. Always /\ Typed /\ delete \in [Job -> DeleteType] /\ overlapped \in BOOLEAN
    BY DEF UInv, Always, Typed
  <1>3. Rows(j) \subseteq {j} \X Part /\ Rows(j) \subseteq Key
    BY <1>2, KeyFacts DEF Typed, Rows, Key
  <1>4. d \in DeleteType
    BY <1>3 DEF DeleteType
  <1>5. delete'[j] = d /\ delete' \in [Job -> DeleteType]
    BY <1>1, <1>2, <1>4
  <1>6. DeleteMoves(j)
    BY <1>1, <1>2, <1>3, <1>5 DEF DeleteMoves
  <1>7. ASSUME ~overlapped'
        PROVE  Orderly'
    <2>1. Orderly /\ create[j].phase # "running"
      BY <1>1, <1>7 DEF UInv
    <2>2. Over(j)
      BY <1>1, <1>2, <2>1 DEF Over, Always, Created, Typed, CreateType
    <2>3. Rows(j) \subseteq delete'[j].listed
      BY <1>5
    <2> QED BY <1>1, <1>2, <1>6, <2>1, <2>2, <2>3, DeleteMovesOrderly
  <1> QED BY <1>2, <1>6, <1>7, DeleteMovesAlways DEF UInv

\* DeleteJobPartsAfterLock takes its locks, unless a row refers to one.
LEMMA LockSelectionKeeps ==
  ASSUME UInv, NEW j \in Job, LockSelection(j), UNCHANGED <<origin, overlapped>>
  PROVE  UInv'
  <1> DEFINE p == IF delete[j].listed \subseteq DOMAIN rows /\ ~SourceDependent(j)
                  THEN "locked" ELSE "refused"
  <1>1. /\ delete[j].phase = "listed" /\ delete' = [delete EXCEPT ![j].phase = p]
        /\ UNCHANGED <<rows, objects, create, broken>>
    BY DEF LockSelection
  <1>2. p \in {"locked", "refused"} /\ (p = "locked" => ~SourceDependent(j))
    OBVIOUS
  <1> HIDE DEF p
  <1>3. Always /\ overlapped \in BOOLEAN
    BY DEF UInv, Always, Typed
  <1>4. /\ delete' \in [Job -> DeleteType] /\ \A i \in Job \ {j} : delete'[i] = delete[i]
        /\ delete'[j].phase = p /\ delete'[j].listed = delete[j].listed
        /\ delete[j].listed \subseteq {j} \X Part
    BY <1>1, <1>2, <1>3, DeleteFacts
  <1>5. DeleteMoves(j)
    BY <1>1, <1>2, <1>3, <1>4 DEF DeleteMoves, SourceDependent
  <1>6. ASSUME ~overlapped
        PROVE  Orderly'
    <2>1. Orderly
      BY <1>6 DEF UInv
    <2>2. Over(j) /\ Rows(j) \subseteq delete'[j].listed
      BY <1>1, <1>4, <2>1 DEF Orderly, Sequential, Deleting
    <2> QED BY <1>1, <1>3, <1>5, <2>1, <2>2, DeleteMovesOrderly
  <1> QED BY <1>3, <1>5, <1>6, DeleteMovesAlways DEF UInv

\* DeletePrefix empties the prefix of the job.
LEMMA DeletePrefixKeeps ==
  ASSUME UInv, NEW j \in Job, DeletePrefix(j), UNCHANGED <<origin, overlapped>>
  PROVE  UInv'
  <1>1. /\ delete[j].phase = "locked" /\ delete' = [delete EXCEPT ![j].phase = "erased"]
        /\ objects' = objects \ Under(j)
        /\ UNCHANGED <<rows, create, broken>>
    BY DEF DeletePrefix
  <1>2. Always /\ overlapped \in BOOLEAN
    BY DEF UInv, Always, Typed
  <1>3. /\ delete' \in [Job -> DeleteType] /\ \A i \in Job \ {j} : delete'[i] = delete[i]
        /\ delete'[j].phase = "erased" /\ delete'[j].listed = delete[j].listed
        /\ delete[j].listed \subseteq {j} \X Part
    BY <1>1, <1>2, DeleteFacts
  <1>4. DeleteMoves(j)
    BY <1>1, <1>2, <1>3 DEF DeleteMoves
  <1>5. ASSUME ~overlapped
        PROVE  Orderly'
    <2>1. Orderly
      BY <1>5 DEF UInv
    <2>2. Over(j) /\ Rows(j) \subseteq delete'[j].listed
      BY <1>1, <1>3, <2>1 DEF Orderly, Sequential, Deleting
    <2>3. \A o \in objects \ objects' : o[2][1] = j
      BY <1>1 DEF Under
    <2> QED BY <1>2, <1>3, <1>4, <2>1, <2>2, <2>3, DeleteMovesOrderly
  <1> QED BY <1>2, <1>4, <1>5, DeleteMovesAlways DEF UInv

\* A deletion that fails has lost some objects of its job and keeps the rows.
LEMMA RollBackKeeps ==
  ASSUME UInv, NEW j \in Job, RollBack(j), UNCHANGED <<origin, overlapped>>
  PROVE  UInv'
  <1>1. PICK gone \in SUBSET Under(j) : objects' = objects \ gone
    BY DEF RollBack
  <1>2. /\ delete[j].phase \in {"locked", "erased"}
        /\ delete' = [delete EXCEPT ![j].phase = "failed"]
        /\ broken' = broken \cup {j}
        /\ UNCHANGED <<rows, create>>
    BY DEF RollBack
  <1>3. Always /\ overlapped \in BOOLEAN
    BY DEF UInv, Always, Typed
  <1>4. /\ delete' \in [Job -> DeleteType] /\ \A i \in Job \ {j} : delete'[i] = delete[i]
        /\ delete'[j].phase = "failed" /\ delete'[j].listed = delete[j].listed
        /\ delete[j].listed \subseteq {j} \X Part
    BY <1>2, <1>3, DeleteFacts
  <1>5. DeleteMoves(j)
    BY <1>1, <1>2, <1>3, <1>4 DEF DeleteMoves
  <1>6. ASSUME ~overlapped
        PROVE  Orderly'
    <2>1. Orderly
      BY <1>6 DEF UInv
    <2>2. Over(j) /\ ~Deleting(j)'
      BY <1>2, <1>4, <2>1 DEF Orderly, Sequential, Deleting
    <2>3. \A o \in objects \ objects' : o[2][1] = j
      BY <1>1 DEF Under
    <2> QED BY <1>2, <1>3, <1>5, <2>1, <2>2, <2>3, DeleteMovesOrderly
  <1> QED BY <1>3, <1>5, <1>6, DeleteMovesAlways DEF UInv

\* The commit removes the rows it has locked, to which no other row refers.
LEMMA CommitKeeps ==
  ASSUME UInv, NEW j \in Job, Commit(j), UNCHANGED <<origin, overlapped>>
  PROVE  UInv'
  <1>1. /\ delete[j].phase = "erased" /\ delete' = [delete EXCEPT ![j].phase = "done"]
        /\ DOMAIN rows' = DOMAIN rows \ delete[j].listed
        /\ \A x \in DOMAIN rows' : rows'[x] = rows[x]
        /\ UNCHANGED <<objects, create, broken>>
    BY DEF Commit
  <1>2. Always /\ Typed
    BY DEF UInv, Always, Typed
  <1>3. /\ delete' \in [Job -> DeleteType] /\ \A i \in Job \ {j} : delete'[i] = delete[i]
        /\ delete'[j].phase = "done" /\ delete'[j].listed = delete[j].listed
        /\ delete[j].listed \subseteq {j} \X Part
    BY <1>1, <1>2, DeleteFacts
  <1>4. delete[j].listed \subseteq Locked /\ NoKey \notin Locked
    BY <1>1, <1>2, LockedFacts, KeyFacts
  <1>5. Locked' \subseteq Locked
    <2> SUFFICES ASSUME NEW k \in Locked' PROVE k \in Locked
      OBVIOUS
    <2>1. PICK i \in Job : delete'[i].phase \in {"locked", "erased"} /\ k \in delete'[i].listed
      BY DEF Locked
    <2> QED BY <1>2, <1>3, <2>1, LockedFacts
  <1>6. Typed'
    BY <1>1, <1>2, <1>3 DEF Typed
  <1>7. OwnSources'
    BY <1>1, <1>2 DEF Always, OwnSources, OwnerOf
  <1>8. OwnerKept'
    BY <1>1, <1>2, <1>4 DEF Always, OwnerKept, LocksHold
  <1>9. CopiesRefer' /\ LocksHold'
    BY <1>1, <1>2, <1>5 DEF Always, CopiesRefer, LocksHold
  <1>10. \A i : Rows(i)' \subseteq Rows(i)
    BY <1>1 DEF Rows
  <1>11. Created'
    BY <1>1, <1>2, <1>10 DEF Always, Created
  <1>12. Always'
    BY <1>6, <1>7, <1>8, <1>9, <1>11 DEF Always
  <1>13. ASSUME ~overlapped
         PROVE  Orderly'
    <2>1. Sequential /\ ObjectsThere /\ Covers
      BY <1>13 DEF UInv, Orderly
    <2>2. Sequential'
      BY <1>1, <1>3, <1>10, <2>1 DEF Sequential, Over, Derived, Begun, Deleting
    <2>3. \A x \in DOMAIN rows' : rows[x].source[1] # j /\ rows[x].source[1] \in Job
      <3> TAKE x \in DOMAIN rows'
      <3>1. x \in DOMAIN rows /\ x \notin delete[j].listed
        BY <1>1
      <3>2. rows[x].source[1] # j
        BY <1>1, <1>2, <2>1, <3>1, ErasedUnused
      <3>3. rows[x].source[1] \in Job
        BY <1>2, <3>1, SourceRow, KeyFacts DEF RowType
      <3> QED BY <3>2, <3>3
    <2>4. ObjectsThere'
      BY <1>1, <1>3, <2>1, <2>3 DEF ObjectsThere
    <2>5. Covers'
      <3> SUFFICES ASSUME NEW i \in Job, (Derived(i) /\ Begun(i) /\ delete[i].phase = "idle")',
                          NEW x \in Rows(origin[i].from)'
                   PROVE  Represented(i, x)'
        BY DEF Covers
      <3>1. x \in Rows(origin[i].from) /\ x \in DOMAIN rows' /\ rows'[x] = rows[x]
        BY <1>1, <1>10 DEF Rows
      <3>2. i # j /\ delete[i].phase = "idle"
        BY <1>3
      <3>3. Represented(i, x)
        BY <1>1, <2>1, <3>1, <3>2 DEF Covers, Derived, Begun
      <3>4. <<i, x[2]>> \notin delete[j].listed
        BY <1>3, <3>2
      <3> QED BY <1>1, <3>1, <3>3, <3>4 DEF Represented
    <2> QED BY <2>2, <2>4, <2>5 DEF Orderly
  <1> QED BY <1>12, <1>13 DEF UInv

-----------------------------------------------------------------------------
(* The theorems.                                                           *)

\* The invariant holds before any command.
LEMMA UInvInit == Init => UInv
  <1> SUFFICES ASSUME Init PROVE UInv
    OBVIOUS
  <1> DEFINE c == [phase |-> "idle", todo |-> {}, sent |-> {},
                   copied |-> [p \in Part |-> NotCopied]]
             d == [phase |-> "idle", listed |-> {}]
  <1>1. /\ DOMAIN rows = {} /\ objects = {} /\ create = [i \in Job |-> c]
        /\ delete = [i \in Job |-> d] /\ broken = {} /\ origin \in Origins /\ overlapped = FALSE
    BY DEF Init
  <1>2. c \in CreateType /\ d \in DeleteType
    BY DEF CreateType, DeleteType, NotCopied, Reference
  <1>3. \A i \in Job : /\ create[i].phase = "idle" /\ create[i].todo = {} /\ create[i].sent = {}
                       /\ \A p \in Part : create[i].copied[p] = NotCopied
                       /\ delete[i].phase = "idle" /\ delete[i].listed = {}
    BY <1>1
  <1> HIDE DEF c, d
  <1>4. Typed
    BY <1>1, <1>2, <1>3 DEF Typed
  <1>5. OwnSources /\ OwnerKept /\ LocksHold
    BY <1>1 DEF OwnSources, OwnerKept, LocksHold
  <1>6. CopiesRefer /\ Created
    BY <1>1, <1>3 DEF CopiesRefer, Created, Rows
  <1>7. Sequential /\ ObjectsThere /\ Covers
    BY <1>1, <1>3 DEF Sequential, ObjectsThere, Covers, Deleting, Begun
  <1> QED BY <1>4, <1>5, <1>6, <1>7 DEF UInv, Always, Orderly

\* No step of a command or a worker breaks it.
LEMMA UInvNext == UInv /\ [Next]_vars => UInv'
  <1> SUFFICES ASSUME UInv, [Next]_vars PROVE UInv'
    OBVIOUS
  <1>1. CASE Backing \/ UNCHANGED vars
    <2>1. UNCHANGED <<rows, objects, create, delete, broken, origin, overlapped>>
      BY <1>1 DEF Backing, vars, uploadVars
    <2>2. Always'
      BY <2>1 DEF UInv, Always, Typed, OwnSources, OwnerKept, OwnerOf, CopiesRefer, LocksHold,
                  Locked, Created, Rows
    <2>3. ~overlapped' => Orderly'
      BY <2>1 DEF UInv, Orderly, Sequential, ObjectsThere, Covers, Represented, Derived,
                  Begun, Over, Deleting, Rows
    <2> QED BY <2>2, <2>3 DEF UInv
  <1>2. ASSUME NEW j \in Job, BeginUpload(j), UNCHANGED origin PROVE UInv'
    BY <1>2, BeginUploadKeeps
  <1>3. ASSUME NEW j \in Job, BeginDerived(j), UNCHANGED origin PROVE UInv'
    BY <1>3, BeginDerivedKeeps
  <1>4. ASSUME NEW j \in Job, ListJobParts(j), UNCHANGED origin PROVE UInv'
    BY <1>4, ListJobPartsKeeps
  <1>5. ASSUME NEW j \in Job, Creation(j), UNCHANGED <<origin, overlapped>> PROVE UInv'
    BY <1>5, SendPartKeeps, CreatePartKeeps, CopyFailsKeeps, CreateFailsKeeps DEF Creation
  <1>6. ASSUME NEW j \in Job, Deletion(j), UNCHANGED <<origin, overlapped>> PROVE UInv'
    BY <1>6, LockSelectionKeeps, DeletePrefixKeeps, CommitKeeps, RollBackKeeps DEF Deletion
  <1>7. ASSUME NEW k \in Key, Work(k), UNCHANGED <<origin, overlapped>> PROVE UInv'
    BY <1>7, RewriteKeeps DEF Work
  <1> QED BY <1>1, <1>2, <1>3, <1>4, <1>5, <1>6, <1>7 DEF Next

\* What the invariant is for: references are kept, and readable.
LEMMA UInvReferences == UInv => UploadInv
  <1> SUFFICES ASSUME UInv PROVE UploadInv
    OBVIOUS
  <1>1. Always /\ Typed /\ OwnerKept
    BY DEF UInv, Always
  <1>2. UploadTypeOK
    BY <1>1 DEF Typed, UploadTypeOK, RowType, Reference
  <1>3. SourcesKept
    <2> SUFFICES ASSUME ~overlapped, NEW k \in DOMAIN rows, rows[k].source[1] \notin broken,
                        delete[k[1]].phase # "erased"
                 PROVE  Source(rows[k].source) \in objects
      BY DEF SourcesKept
    <2>1. Sequential /\ ObjectsThere
      BY DEF UInv, Orderly
    <2>2. rows[k].source[1] \in Job
      BY <1>1, SourceRow, KeyFacts DEF RowType
    <2>3. delete[rows[k].source[1]].phase # "erased"
      <3> SUFFICES ASSUME delete[rows[k].source[1]].phase = "erased" PROVE FALSE
        OBVIOUS
      <3>1. k \in delete[rows[k].source[1]].listed
        BY <1>1, <2>1, <2>2, ErasedUnused
      <3>2. k[1] = rows[k].source[1]
        BY <1>1, <2>2, <3>1 DEF Typed
      <3> QED BY <3>2
    <2> QED BY <2>1, <2>3 DEF ObjectsThere
  <1> QED BY <1>1, <1>2, <1>3 DEF UploadInv

\* And derived jobs leave out nothing.
LEMMA UInvDerived == UInv => DerivedComplete
  <1> SUFFICES ASSUME UInv, ~overlapped, NEW j \in Job, create[j].phase = "done",
                      origin[j].kind # "upload", delete[j].phase = "idle",
                      NEW k \in Rows(origin[j].from)
               PROVE  \/ origin[j].kind = "chain" /\ rows[k].status = "EMPTY"
                      \/ <<j, k[2]>> \in DOMAIN rows
    BY DEF DerivedComplete
  <1>1. Typed /\ Created /\ Covers
    BY DEF UInv, Always, Orderly
  <1>2. origin[j].kind # "none" /\ create[j].todo = {} /\ create[j].sent = {}
    BY <1>1 DEF Created
  <1>3. Derived(j) /\ Begun(j)
    BY <1>1, <1>2, OriginFacts DEF Derived, Begun, Kinds
  <1> QED BY <1>1, <1>2, <1>3 DEF Covers, Represented

\* The row and the source objects that a registered part refers to are there,
\* however copies, copies of copies and deletions interleave and fail.
THEOREM ReferencesKept == Spec => []UploadInv
  BY UInvInit, UInvNext, UInvReferences, PTL DEF Spec

\* A copied or chained job that was created completely leaves out no part of
\* the job it was derived from.
THEOREM DerivedJobsComplete == Spec => []DerivedComplete
  BY UInvInit, UInvNext, UInvDerived, PTL DEF Spec

-----------------------------------------------------------------------------
(* processTasksInParallel, for any number of goroutines and tasks.         *)
(* The inductive invariant of the pool.                                     *)

Place == {"receive", "process", "send", "cancel", "exit"}

PoolTyped ==
  /\ ctx \in BOOLEAN /\ cancelled \in BOOLEAN /\ closed \in BOOLEAN
  /\ next \in 1..NumTasks + 1 /\ completed \in Nat
  /\ worker \in [Worker -> [at : Place, task : 0..NumTasks]]
  /\ pc \in {"loop", "drain", "returned"} /\ err \in {"nil", "task", "context"}
  /\ done \subseteq Task /\ failed \subseteq Task /\ errCh \subseteq failed
  /\ done \cap failed = {}

\* A task is taken by one worker, and is neither done nor failed while it is
\* processed.
Taken ==
  /\ \A t \in done \cup failed : t < next
  /\ \A w \in Worker : worker[w].task < next
  /\ \A w \in Worker : At(w, "process") =>
       /\ worker[w].task \in Task \ (done \cup failed)
       /\ \A v \in Worker \ {w} : At(v, "process") => worker[v].task # worker[w].task
  /\ \A w \in Worker : At(w, "cancel") => failed # {}

\* Results that are counted, or on their way to be, are those of tasks done.
Senders == {w \in Worker : At(w, "send")}

Counted ==
  /\ completed + Cardinality(Senders) <= Cardinality(done)
  /\ pc # "loop" /\ err = "nil" => completed = NumTasks
  /\ pc # "loop" /\ err = "task" => failed # {}
  /\ pc # "loop" /\ err = "context" => ctx

\* Until something is cancelled nothing is lost: every task sent is processed,
\* done or failed, and every result arrives.
NothingLost ==
  ~cancelled =>
    /\ pc = "loop" /\ ~ctx
    /\ closed => next = NumTasks + 1
    /\ \A w \in Worker : At(w, "exit") => closed
    /\ \A t \in Task : t < next =>
         t \in done \cup failed \/ \E w \in Worker : At(w, "process") /\ worker[w].task = t
    /\ completed + Cardinality(Senders) = Cardinality(done)

\* Whoever cancels has a reason the caller will find.
Explained ==
  pc = "loop" => /\ cancelled => ctx \/ failed # {}
                 /\ failed # {} => errCh # {}

TInv == PoolTyped /\ Taken /\ Counted /\ NothingLost /\ Explained /\ (ctx => cancelled)
        /\ (pc = "returned" => ResultsClosed)

-----------------------------------------------------------------------------
(* Lemmas about the operators.                                              *)

\* Sets of tasks are finite; counting up to NumTasks means all of them.
LEMMA DoneFinite ==
  ASSUME NEW S \in SUBSET Task
  PROVE  /\ IsFiniteSet(S) /\ Cardinality(S) \in Nat /\ Cardinality(S) <= NumTasks
         /\ Cardinality(S) = NumTasks => S = Task
         /\ \A t : t \notin S => Cardinality(S \cup {t}) = Cardinality(S) + 1
  <1>1. IsFiniteSet(Task) /\ Cardinality(Task) = NumTasks
    BY PoolAssumption, FS_Interval DEF PoolAssumption, Task
  <1>2. /\ IsFiniteSet(S) /\ Cardinality(S) <= NumTasks
        /\ Cardinality(S) = NumTasks => S = Task
    BY <1>1, FS_Subset
  <1>3. Cardinality(S) \in Nat
    BY <1>2, FS_CardinalityType
  <1>4. \A t : t \notin S => Cardinality(S \cup {t}) = Cardinality(S) + 1
    BY <1>2, FS_AddElement
  <1> QED BY <1>2, <1>3, <1>4

\* Sets of workers are finite and counted one by one.
LEMMA WorkersFinite ==
  ASSUME NEW S \in SUBSET Worker
  PROVE  /\ IsFiniteSet(S) /\ Cardinality(S) \in Nat /\ Cardinality(S) <= Cardinality(Worker)
         /\ \A w \in S : Cardinality(S \ {w}) = Cardinality(S) - 1
         /\ \A w : w \notin S => Cardinality(S \cup {w}) = Cardinality(S) + 1
         /\ Cardinality({}) = 0
  <1>1. IsFiniteSet(S) /\ Cardinality(S) <= Cardinality(Worker)
    BY PoolAssumption, FS_Subset DEF PoolAssumption
  <1> QED BY <1>1, FS_CardinalityType, FS_AddElement, FS_RemoveElement, FS_EmptySet

\* A worker moves on with the task it holds.
LEMMA PlaceChanges ==
  ASSUME PoolTyped, NEW w \in Worker, NEW p \in Place, worker' = [worker EXCEPT ![w].at = p]
  PROVE  /\ worker' \in [Worker -> [at : Place, task : 0..NumTasks]]
         /\ worker'[w].at = p /\ worker'[w].task = worker[w].task
         /\ \A v \in Worker \ {w} : worker'[v] = worker[v]
  BY DEF PoolTyped

\* The workers with a result on their way to the caller change by the one
\* that moves.
LEMMA SendersChange ==
  ASSUME PoolTyped, NEW w \in Worker, NEW p \in Place, worker' = [worker EXCEPT ![w].at = p]
  PROVE  LET n == Cardinality(Senders)
         IN  /\ n \in Nat
             /\ (p # "send" /\ ~At(w, "send")) => Cardinality(Senders') = n
             /\ (p = "send" /\ ~At(w, "send")) => Cardinality(Senders') = n + 1
             /\ (p # "send" /\ At(w, "send")) => Cardinality(Senders') = n - 1
  <1>1. Senders \in SUBSET Worker
    BY DEF Senders
  <1>2. p # "send" /\ ~At(w, "send") => Senders' = Senders
    BY PlaceChanges DEF Senders, At
  <1>3. p = "send" /\ ~At(w, "send") => Senders' = Senders \cup {w} /\ w \notin Senders
    BY PlaceChanges DEF Senders, At
  <1>4. p # "send" /\ At(w, "send") => Senders' = Senders \ {w} /\ w \in Senders
    <2>1. \A v \in Worker \ {w} : At(v, "send")' <=> At(v, "send")
      BY PlaceChanges DEF At
    <2>2. At(w, "send")' <=> p = "send"
      BY PlaceChanges DEF At
    <2> QED BY <2>1, <2>2 DEF Senders
  <1> QED BY <1>1, <1>2, <1>3, <1>4, WorkersFinite

-----------------------------------------------------------------------------
(* Every step of the feeder, the workers and the caller preserves it.       *)

\* The pool starts with every worker waiting for a task.
LEMMA InitTInv == PoolInit => TInv
  <1> SUFFICES ASSUME PoolInit PROVE TInv
    OBVIOUS
  <1>1. PoolTyped
    <2>1. 0 \in 0..NumTasks /\ 1 \in 1..NumTasks + 1
      BY PoolAssumption DEF PoolAssumption
    <2> QED BY <2>1 DEF PoolInit, PoolTyped, Place, Task
  <1>2. Taken /\ Explained
    BY DEF PoolInit, Taken, Explained, At
  <1>3. Senders = {} /\ Cardinality(Senders) = 0 /\ Cardinality(done) = 0
    BY FS_EmptySet DEF PoolInit, Senders, At
  <1>4. Counted /\ NothingLost
    BY <1>3 DEF PoolInit, Counted, NothingLost, At, Task
  <1> QED BY <1>1, <1>2, <1>4 DEF PoolInit, TInv

\* Cancellation by the caller keeps the invariant.
LEMMA CancelTInv == TInv /\ Cancel => TInv'
  <1> SUFFICES ASSUME TInv, Cancel PROVE TInv'
    OBVIOUS
  <1>1. Senders' = Senders
    BY DEF Cancel, Senders, At
  <1>2. PoolTyped' /\ Taken'
    BY DEF TInv, PoolTyped, Taken, Cancel, At
  <1>3. Counted' /\ NothingLost' /\ Explained'
    BY <1>1 DEF TInv, PoolTyped, Counted, NothingLost, Explained, Cancel
  <1> QED BY <1>2, <1>3 DEF TInv, Cancel

\* So does handing a task to a worker.
LEMMA FeedTInv == ASSUME TInv, NEW w \in Worker, Feed(w) PROVE TInv'
  <1> DEFINE c == [at |-> IF cancelled THEN "exit" ELSE "process", task |-> next]
  <1>1. /\ c \in [at : Place, task : 0..NumTasks]
        /\ c.at = IF cancelled THEN "exit" ELSE "process"
        /\ c.task = next
    BY PoolAssumption DEF PoolAssumption, TInv, PoolTyped, Feed, Place
  <1>2. worker' = [worker EXCEPT ![w] = c]
    BY DEF Feed
  <1> HIDE DEF c
  <1>3. /\ worker' \in [Worker -> [at : Place, task : 0..NumTasks]]
        /\ worker'[w] = c /\ \A v \in Worker \ {w} : worker'[v] = worker[v]
    BY <1>1, <1>2 DEF TInv, PoolTyped
  <1>4. Senders' = Senders
    BY <1>1, <1>3 DEF Senders, At, Feed
  <1>5. next \in Task /\ next' = next + 1 /\ \A t \in done \cup failed : t < next
    BY PoolAssumption DEF PoolAssumption, TInv, PoolTyped, Taken, Feed, Task
  <1>6. PoolTyped'
    BY <1>3, PoolAssumption DEF PoolAssumption, TInv, PoolTyped, Feed, Task
  <1>7. Taken'
    <2>1. (\A t \in done \cup failed : t < next)' /\ (\A v \in Worker : worker[v].task < next)'
      BY <1>1, <1>3, <1>5 DEF TInv, PoolTyped, Taken, Feed, Task
    <2>2. ASSUME NEW v \in Worker, At(v, "process")'
          PROVE  (worker[v].task \in Task \ (done \cup failed))'
      BY <1>1, <1>3, <1>5, <2>2 DEF TInv, PoolTyped, Taken, Feed, Task, At
    <2>3. ASSUME NEW v \in Worker, At(v, "process")', NEW u \in Worker \ {v}, At(u, "process")'
          PROVE  worker'[u].task # worker'[v].task
      BY <1>1, <1>3, <1>5, <2>3 DEF TInv, PoolTyped, Taken, Feed, Task, At
    <2>4. (\A v \in Worker : At(v, "cancel") => failed # {})'
      BY <1>1, <1>3 DEF TInv, Taken, Feed, At
    <2> QED BY <2>1, <2>2, <2>3, <2>4 DEF Taken, At
  <1>8. Counted' /\ Explained'
    BY <1>4 DEF TInv, Counted, Explained, Feed
  <1>9. NothingLost'
    <2> SUFFICES ASSUME ~cancelled PROVE NothingLost'
      BY DEF NothingLost, Feed
    <2>1. c.at = "process"
      BY <1>1
    <2>2. (\A v \in Worker : At(v, "exit") => closed)'
      BY <1>3, <2>1 DEF TInv, NothingLost, Feed, At
    <2>3. ASSUME NEW t \in Task, t < next'
          PROVE  t \in done \cup failed \/ \E v \in Worker : At(v, "process")' /\ worker'[v].task = t
      <3>1. CASE t = next
        BY <1>1, <1>3, <2>1, <3>1 DEF At
      <3>2. CASE t < next
        BY <1>3, <3>2 DEF TInv, NothingLost, Feed, At
      <3> QED BY <1>5, <2>3, <3>1, <3>2 DEF Task
    <2> QED BY <1>4, <2>2, <2>3 DEF TInv, NothingLost, Feed, At
  <1> QED BY <1>6, <1>7, <1>8, <1>9 DEF TInv, ResultsClosed, Feed, At

\* So does closing the task channel.
LEMMA CloseTasksTInv == TInv /\ CloseTasks => TInv'
  <1> SUFFICES ASSUME TInv, CloseTasks PROVE TInv'
    OBVIOUS
  <1>1. Senders' = Senders
    BY DEF CloseTasks, Senders, At
  <1>2. PoolTyped' /\ Taken' /\ Counted' /\ Explained'
    BY <1>1 DEF TInv, PoolTyped, Taken, Counted, Explained, CloseTasks, At
  <1>3. NothingLost'
    BY <1>1, PoolAssumption
    DEF PoolAssumption, TInv, PoolTyped, NothingLost, CloseTasks, At
  <1> QED BY <1>2, <1>3 DEF TInv, ResultsClosed, CloseTasks, At

\* So does the exit of a worker that finds it closed.
LEMMA NoMoreTasksTInv == ASSUME TInv, NEW w \in Worker, NoMoreTasks(w) PROVE TInv'
  <1>1. /\ "exit" \in Place /\ worker' = [worker EXCEPT ![w].at = "exit"]
        /\ PoolTyped /\ ~At(w, "send") /\ ~At(w, "process")
    BY DEF TInv, NoMoreTasks, Place, At
  <1>2. Cardinality(Senders') = Cardinality(Senders)
    BY <1>1, SendersChange
  <1>3. PoolTyped' /\ Taken'
    BY <1>1, PlaceChanges DEF TInv, PoolTyped, Taken, NoMoreTasks, At
  <1>4. Counted' /\ Explained'
    BY <1>2 DEF TInv, Counted, Explained, NoMoreTasks
  <1>5. NothingLost'
    BY <1>1, <1>2, PlaceChanges DEF TInv, NothingLost, NoMoreTasks, At
  <1> QED BY <1>3, <1>4, <1>5 DEF TInv, ResultsClosed, NoMoreTasks, At

\* So does a task that succeeds.
LEMMA ProcessOKTInv == ASSUME TInv, NEW w \in Worker, ProcessOK(w) PROVE TInv'
  <1> DEFINE t == worker[w].task
  <1>1. /\ "send" \in Place /\ worker' = [worker EXCEPT ![w].at = "send"]
        /\ PoolTyped /\ ~At(w, "send")
    BY DEF TInv, ProcessOK, Place, At
  <1>2. t \in Task \ (done \cup failed) /\ t < next /\ done' = done \cup {t}
    BY DEF TInv, Taken, ProcessOK
  <1>3. Cardinality(Senders') = Cardinality(Senders) + 1 /\ Cardinality(Senders) \in Nat
    BY <1>1, SendersChange
  <1>4. Cardinality(done') = Cardinality(done) + 1 /\ Cardinality(done) \in Nat
    BY <1>2, DoneFinite DEF TInv, PoolTyped
  <1>5. PoolTyped'
    BY <1>1, <1>2, PlaceChanges DEF TInv, PoolTyped, ProcessOK
  <1>6. Taken'
    <2>1. (\A u \in done \cup failed : u < next)' /\ (\A v \in Worker : worker[v].task < next)'
      BY <1>1, <1>2, PlaceChanges DEF TInv, Taken, ProcessOK
    <2>2. ASSUME NEW v \in Worker, At(v, "process")'
          PROVE  v # w /\ At(v, "process") /\ worker'[v] = worker[v]
      BY <1>1, <2>2, PlaceChanges DEF At
    <2>3. ASSUME NEW v \in Worker, At(v, "process")'
          PROVE  (worker[v].task \in Task \ (done \cup failed))'
      BY <1>2, <2>2, <2>3 DEF TInv, Taken, ProcessOK
    <2>4. ASSUME NEW v \in Worker, At(v, "process")', NEW u \in Worker \ {v}, At(u, "process")'
          PROVE  worker'[u].task # worker'[v].task
      BY <2>2, <2>4 DEF TInv, Taken
    <2>5. (\A v \in Worker : At(v, "cancel") => failed # {})'
      BY <1>1, <1>2, PlaceChanges DEF TInv, Taken, ProcessOK, At
    <2> QED BY <2>1, <2>3, <2>4, <2>5 DEF Taken, At
  <1>7. Counted' /\ Explained'
    BY <1>3, <1>4 DEF TInv, PoolTyped, Counted, Explained, ProcessOK
  <1>8. NothingLost'
    <2> SUFFICES ASSUME ~cancelled PROVE NothingLost'
      BY DEF NothingLost, ProcessOK
    <2>1. ASSUME NEW u \in Task, u < next'
          PROVE  u \in done' \cup failed \/ \E v \in Worker : At(v, "process")' /\ worker'[v].task = u
      BY <1>1, <1>2, <2>1, PlaceChanges DEF TInv, NothingLost, ProcessOK, At
    <2> QED BY <1>1, <1>3, <1>4, <2>1, PlaceChanges DEF TInv, PoolTyped, NothingLost, ProcessOK, At
  <1> QED BY <1>5, <1>6, <1>7, <1>8 DEF TInv, ResultsClosed, ProcessOK, At

\* So does one that fails.
LEMMA ProcessFailsTInv == ASSUME TInv, NEW w \in Worker, ProcessFails(w) PROVE TInv'
  <1> DEFINE t == worker[w].task
  <1>1. /\ "cancel" \in Place /\ worker' = [worker EXCEPT ![w].at = "cancel"]
        /\ PoolTyped /\ ~At(w, "send")
    BY DEF TInv, ProcessFails, Place, At
  <1>2. /\ t \in Task \ (done \cup failed) /\ t < next /\ failed' = failed \cup {t}
        /\ errCh' \subseteq failed' /\ errCh' # {}
    BY DEF TInv, PoolTyped, Taken, ProcessFails
  <1>3. Cardinality(Senders') = Cardinality(Senders)
    BY <1>1, SendersChange
  <1>4. PoolTyped'
    BY <1>1, <1>2, PlaceChanges DEF TInv, PoolTyped, ProcessFails
  <1>5. Taken'
    <2>1. (\A u \in done \cup failed : u < next)' /\ (\A v \in Worker : worker[v].task < next)'
      BY <1>1, <1>2, PlaceChanges DEF TInv, Taken, ProcessFails
    <2>2. ASSUME NEW v \in Worker, At(v, "process")'
          PROVE  v # w /\ At(v, "process") /\ worker'[v] = worker[v]
      BY <1>1, <2>2, PlaceChanges DEF At
    <2>3. ASSUME NEW v \in Worker, At(v, "process")'
          PROVE  (worker[v].task \in Task \ (done \cup failed))'
      BY <1>2, <2>2, <2>3 DEF TInv, Taken, ProcessFails
    <2>4. ASSUME NEW v \in Worker, At(v, "process")', NEW u \in Worker \ {v}, At(u, "process")'
          PROVE  worker'[u].task # worker'[v].task
      BY <2>2, <2>4 DEF TInv, Taken
    <2>5. (\A v \in Worker : At(v, "cancel") => failed # {})'
      BY <1>1, <1>2, PlaceChanges DEF TInv, Taken, ProcessFails, At
    <2> QED BY <2>1, <2>3, <2>4, <2>5 DEF Taken, At
  <1>6. Counted' /\ Explained'
    BY <1>2, <1>3 DEF TInv, Counted, Explained, ProcessFails
  <1>7. NothingLost'
    <2> SUFFICES ASSUME ~cancelled PROVE NothingLost'
      BY DEF NothingLost, ProcessFails
    <2>1. ASSUME NEW u \in Task, u < next'
          PROVE  u \in done \cup failed' \/ \E v \in Worker : At(v, "process")' /\ worker'[v].task = u
      BY <1>1, <1>2, <2>1, PlaceChanges DEF TInv, NothingLost, ProcessFails, At
    <2> QED BY <1>1, <1>3, <2>1, PlaceChanges DEF TInv, NothingLost, ProcessFails, At
  <1> QED BY <1>4, <1>5, <1>6, <1>7 DEF TInv, ResultsClosed, ProcessFails, At

\* So does the cancellation a failure triggers.
LEMMA CancelOthersTInv == ASSUME TInv, NEW w \in Worker, CancelOthers(w) PROVE TInv'
  <1>1. /\ "exit" \in Place /\ worker' = [worker EXCEPT ![w].at = "exit"]
        /\ PoolTyped /\ ~At(w, "send") /\ failed # {}
    BY DEF TInv, Taken, CancelOthers, Place, At
  <1>2. Cardinality(Senders') = Cardinality(Senders)
    BY <1>1, SendersChange
  <1>3. PoolTyped' /\ Taken'
    BY <1>1, PlaceChanges DEF TInv, PoolTyped, Taken, CancelOthers, At
  <1>4. Counted' /\ Explained' /\ NothingLost'
    BY <1>1, <1>2 DEF TInv, Counted, Explained, NothingLost, CancelOthers
  <1> QED BY <1>3, <1>4 DEF TInv, ResultsClosed, CancelOthers, At

\* So does handing a result to the caller.
LEMMA SendResultTInv == ASSUME TInv, NEW w \in Worker, SendResult(w) PROVE TInv'
  <1>1. /\ "receive" \in Place /\ worker' = [worker EXCEPT ![w].at = "receive"]
        /\ PoolTyped /\ At(w, "send")
    BY DEF TInv, SendResult, Place, At
  <1>2. Cardinality(Senders') = Cardinality(Senders) - 1 /\ Cardinality(Senders) \in Nat
    BY <1>1, SendersChange
  <1>3. Cardinality(done) \in Nat
    BY DoneFinite DEF TInv, PoolTyped
  <1>4. PoolTyped' /\ Taken'
    BY <1>1, PlaceChanges DEF TInv, PoolTyped, Taken, SendResult, At
  <1>5. Counted' /\ Explained'
    BY <1>2, <1>3 DEF TInv, PoolTyped, Counted, Explained, SendResult
  <1>6. NothingLost'
    BY <1>1, <1>2, <1>3, PlaceChanges DEF TInv, PoolTyped, NothingLost, SendResult, At
  <1> QED BY <1>4, <1>5, <1>6 DEF TInv, ResultsClosed, SendResult, At

\* So does dropping one after a cancellation.
LEMMA DropResultTInv == ASSUME TInv, NEW w \in Worker, DropResult(w) PROVE TInv'
  <1>1. /\ "exit" \in Place /\ worker' = [worker EXCEPT ![w].at = "exit"]
        /\ PoolTyped /\ At(w, "send")
    BY DEF TInv, DropResult, Place, At
  <1>2. Cardinality(Senders') = Cardinality(Senders) - 1 /\ Cardinality(Senders) \in Nat
    BY <1>1, SendersChange
  <1>3. Cardinality(done) \in Nat
    BY DoneFinite DEF TInv, PoolTyped
  <1>4. PoolTyped' /\ Taken'
    BY <1>1, PlaceChanges DEF TInv, PoolTyped, Taken, DropResult, At
  <1>5. Counted' /\ Explained' /\ NothingLost'
    BY <1>2, <1>3 DEF TInv, PoolTyped, Counted, Explained, NothingLost, DropResult
  <1> QED BY <1>4, <1>5 DEF TInv, ResultsClosed, DropResult, At

\* The caller leaves its loop for a reason it can name.
LEMMA DrainTInv == TInv /\ (AllCounted \/ TakeError \/ CallerCancelled) => TInv'
  <1> SUFFICES ASSUME TInv, AllCounted \/ TakeError \/ CallerCancelled PROVE TInv'
    OBVIOUS
  <1> USE DEF AllCounted, TakeError, CallerCancelled, Drain
  <1>1. Senders' = Senders
    BY DEF Senders, At
  <1>2. PoolTyped' /\ Taken'
    BY DEF TInv, PoolTyped, Taken, At
  <1>3. Counted' /\ Explained' /\ NothingLost'
    BY <1>1 DEF TInv, PoolTyped, Counted, Explained, NothingLost
  <1> QED BY <1>2, <1>3 DEF TInv

\* When every worker has returned and neither an error nor the caller's context
\* says why, nothing was cancelled, so every task was sent, done and counted.
LEMMA StoppedImpossible ==
  ASSUME TInv, pc = "loop", ResultsClosed, errCh = {}, ~ctx
  PROVE  completed = NumTasks
  <1>1. ~cancelled /\ failed = {}
    BY DEF TInv, PoolTyped, Explained
  <1>2. closed /\ next = NumTasks + 1
    BY <1>1, PoolAssumption DEF PoolAssumption, TInv, NothingLost, ResultsClosed
  <1>3. done = Task
    <2>1. ASSUME NEW t \in Task PROVE t \in done
      <3>1. t < next
        BY <1>2, PoolAssumption DEF PoolAssumption, Task
      <3>2. ~\E w \in Worker : At(w, "process") /\ worker[w].task = t
        BY DEF ResultsClosed, At
      <3> QED BY <1>1, <3>1, <3>2 DEF TInv, NothingLost
    <2> QED BY <2>1 DEF TInv, PoolTyped
  <1>4. Senders = {}
    BY DEF Senders, ResultsClosed, At
  <1>5. Cardinality(done) = NumTasks
    BY <1>3, FS_Interval, PoolAssumption DEF PoolAssumption, Task
  <1> QED BY <1>1, <1>4, <1>5, FS_EmptySet, PoolAssumption
          DEF PoolAssumption, TInv, PoolTyped, NothingLost

\* So does the return of the caller with results missing.
LEMMA IncompleteTInv == TInv /\ Incomplete => TInv'
  <1> SUFFICES ASSUME TInv, Incomplete PROVE TInv'
    OBVIOUS
  <1>1. Senders' = Senders
    BY DEF Incomplete, Senders, At
  <1>2. errCh # {} \/ ctx
    BY StoppedImpossible, PoolAssumption DEF PoolAssumption, Incomplete, TInv, PoolTyped
  <1>3. PoolTyped' /\ Taken'
    BY <1>2 DEF TInv, PoolTyped, Taken, Incomplete, At
  <1>4. Counted' /\ Explained' /\ NothingLost'
    BY <1>1, <1>2 DEF TInv, PoolTyped, Counted, Explained, NothingLost, Incomplete
  <1> QED BY <1>3, <1>4 DEF TInv, ResultsClosed, Incomplete, At

\* So does its return once the workers are gone.
LEMMA DrainedTInv == TInv /\ Drained => TInv'
  <1> SUFFICES ASSUME TInv, Drained PROVE TInv'
    OBVIOUS
  <1>1. Senders' = Senders
    BY DEF Drained, Senders, At
  <1>2. PoolTyped' /\ Taken'
    BY DEF TInv, PoolTyped, Taken, Drained, At
  <1>3. Counted' /\ Explained' /\ NothingLost'
    BY <1>1 DEF TInv, PoolTyped, Counted, Explained, NothingLost, Drained
  <1> QED BY <1>2, <1>3 DEF TInv, ResultsClosed, Drained, At

\* The invariant is inductive.
LEMMA NextTInv == TInv /\ [PoolNext]_poolVars => TInv'
  <1> SUFFICES ASSUME TInv, [PoolNext]_poolVars PROVE TInv'
    OBVIOUS
  <1>1. CASE Cancel \/ CloseTasks
    BY <1>1, CancelTInv, CloseTasksTInv
  <1>2. CASE \E w \in Worker : Goroutine(w)
    <2> PICK w \in Worker : Goroutine(w)
      BY <1>2
    <2> QED BY FeedTInv, NoMoreTasksTInv, ProcessOKTInv, ProcessFailsTInv, CancelOthersTInv,
               SendResultTInv, DropResultTInv DEF Goroutine
  <1>3. CASE Caller
    BY <1>3, DrainTInv, IncompleteTInv, DrainedTInv DEF Caller
  <1>4. CASE UNCHANGED poolVars
    <2>1. Senders' = Senders /\ (ResultsClosed' <=> ResultsClosed)
      BY <1>4 DEF poolVars, Senders, ResultsClosed, At
    <2>2. PoolTyped' /\ Taken'
      BY <1>4 DEF poolVars, TInv, PoolTyped, Taken, At
    <2>3. Counted' /\ NothingLost' /\ Explained'
      BY <1>4, <2>1 DEF poolVars, TInv, Counted, NothingLost, Explained, At
    <2> QED BY <1>4, <2>1, <2>2, <2>3 DEF poolVars, TInv
  <1> QED BY <1>1, <1>2, <1>3, <1>4 DEF PoolNext

\* The invariant above holds of every behaviour of the pool.
THEOREM PoolInvariant == PoolSpec => []TInv
  BY InitTInv, NextTInv, PTL DEF PoolSpec

-----------------------------------------------------------------------------
(* What it says to the callers of processTasksInParallel.                   *)

\* The inductive invariant implies the one the run checks.
LEMMA TInvMeansPoolInv == TInv => PoolInv
  <1> SUFFICES ASSUME TInv PROVE PoolInv
    OBVIOUS
  <1>1. Cardinality(Senders) \in Nat
    BY WorkersFinite DEF Senders
  <1>2. Cardinality(done) \in Nat /\ Cardinality(done) <= NumTasks
    BY DoneFinite DEF TInv, PoolTyped
  <1>3. completed \in 0..Cardinality(done)
    BY <1>1, <1>2 DEF TInv, PoolTyped, Counted
  <1>4. completed = NumTasks => done = Task
    BY <1>2, <1>3, DoneFinite, PoolAssumption DEF PoolAssumption, TInv, PoolTyped
  <1>5. \A w \in Worker : worker[w].at \in Place /\ worker[w].task \in 0..next - 1
    BY DEF TInv, PoolTyped, Taken
  <1>6. PoolTypeOK
    BY <1>3, <1>5 DEF TInv, PoolTyped, PoolTypeOK, Place
  <1>7. NeverStoppedUnexplained
    BY DEF TInv, PoolTyped, NeverStoppedUnexplained
  <1>8. ReturnsTheTruth
    BY <1>4 DEF TInv, Counted, ReturnsTheTruth
  <1> QED BY <1>6, <1>7, <1>8 DEF PoolInv

\* processTasksInParallel returns nil only when every task is done and counted,
\* an error only when there is one, and never reports workers that stopped for
\* no reason, for any number of goroutines and tasks.
THEOREM PoolReportsTheTruth == PoolSpec => []PoolInv
  BY PoolInvariant, TInvMeansPoolInv, PTL

-----------------------------------------------------------------------------
(* Refinement of Tasks.                                                     *)

Processing == {w \in Worker : At(w, "process")}
Running == {worker[w].task : w \in Processing}
Outcome == IF pc # "returned" THEN "none" ELSE IF err = "nil" THEN "nil" ELSE "error"

\* Tasks counts with the same Cardinality.
LEMMA SameCardinality == ASSUME NEW S PROVE Abstract!Cardinality(S) = Cardinality(S)
  BY DEF Abstract!Cardinality, Cardinality

\* A goroutine that waits for a task leaves room for one more.
LEMMA RoomForOne ==
  ASSUME PoolTyped, NEW w \in Worker, ~At(w, "process")
  PROVE  Cardinality(Running) < Cardinality(Worker)
  <1> DEFINE f == [v \in Processing |-> worker[v].task]
  <1>1. Processing \in SUBSET (Worker \ {w})
    BY DEF Processing
  <1>2. Worker \ {w} \in SUBSET Worker /\ Worker \in SUBSET Worker
    OBVIOUS
  <1>3. /\ IsFiniteSet(Worker \ {w}) /\ Cardinality(Worker) \in Nat
        /\ Cardinality(Worker \ {w}) = Cardinality(Worker) - 1
    BY <1>2, WorkersFinite
  <1>4. IsFiniteSet(Processing) /\ Cardinality(Processing) <= Cardinality(Worker \ {w})
    BY <1>1, <1>3, FS_Subset
  <1>5. f \in Surjection(Processing, Running)
    BY DEF Surjection, Running
  <1>6. IsFiniteSet(Running) /\ Cardinality(Running) <= Cardinality(Processing)
    BY <1>4, <1>5, FS_Surjection
  <1>7. Cardinality(Running) \in Nat /\ Cardinality(Processing) \in Nat
    BY <1>4, <1>6, FS_CardinalityType
  <1> QED BY <1>3, <1>4, <1>6, <1>7

\* Handing over a task starts it, in the abstract pool.
LEMMA FeedStarts == ASSUME TInv, NEW w \in Worker, Feed(w)
                    PROVE  [Abstract!Next]_<<Running, done, failed, Outcome>>
  <1>1. UNCHANGED <<done, failed, Outcome>>
    BY DEF Feed, Outcome
  <1>2. worker \in [Worker -> [at : Place, task : 0..NumTasks]] /\ ~At(w, "process")
    BY DEF TInv, PoolTyped, Feed, At
  <1>3. CASE cancelled
    <2>1. /\ \A v \in Worker : At(v, "process")' <=> At(v, "process")
          /\ \A v \in Worker : At(v, "process") => worker'[v] = worker[v]
      BY <1>2, <1>3 DEF Feed, At
    <2>2. Running' = Running
      BY <2>1 DEF Running, Processing
    <2> QED BY <1>1, <2>2
  <1>4. CASE ~cancelled
    <2>1. /\ \A v \in Worker : At(v, "process")' <=> At(v, "process") \/ v = w
          /\ \A v \in Worker \ {w} : worker'[v] = worker[v]
          /\ worker'[w].task = next
      BY <1>2, <1>4 DEF Feed, At
    <2>2. Running' = Running \cup {next}
      BY <1>2, <2>1 DEF Running, Processing
    <2>3. next \in Task /\ next \notin Running \cup done \cup failed
      BY PoolAssumption
      DEF PoolAssumption, TInv, PoolTyped, Taken, Feed, Running, Processing, Task
    <2>4. Outcome = "none"
      BY <1>4 DEF TInv, NothingLost, Outcome
    <2>5. Cardinality(Running) < Cardinality(Worker)
      BY <1>2, RoomForOne DEF TInv
    <2>6. PICK t \in Task : t = next
      BY <2>3
    <2>7. Abstract!Cardinality(Running) < Cardinality(Worker)
      BY <2>5, SameCardinality
    <2>8. Abstract!Start(t)
      BY <1>1, <2>2, <2>3, <2>4, <2>6, <2>7
      DEF Abstract!Start, Running, Processing, Outcome
    <2> QED BY <2>8 DEF Abstract!Next
  <1> QED BY <1>3, <1>4

\* The end of a task finishes it there.
LEMMA ProcessFinishes ==
  ASSUME TInv, NEW w \in Worker, ProcessOK(w) \/ ProcessFails(w)
  PROVE  [Abstract!Next]_<<Running, done, failed, Outcome>>
  <1> DEFINE t == worker[w].task
  <1>1. /\ PoolTyped /\ At(w, "process") /\ t \in Task
        /\ \A v \in Worker \ {w} : At(v, "process") => worker[v].task # t
    BY DEF TInv, Taken, ProcessOK, ProcessFails
  <1>2. PICK p \in Place \ {"process"} : worker' = [worker EXCEPT ![w].at = p]
    BY DEF ProcessOK, ProcessFails, Place
  <1>3. /\ \A v \in Worker : At(v, "process")' <=> (At(v, "process") /\ v # w)
        /\ \A v \in Worker \ {w} : worker'[v] = worker[v]
    <2>1. worker'[w].at = p /\ \A v \in Worker \ {w} : worker'[v] = worker[v]
      BY <1>1, <1>2, PlaceChanges
    <2> QED BY <1>2, <2>1 DEF At
  <1>4. t \in Running /\ Running' = Running \ {t}
    BY <1>1, <1>3 DEF Running, Processing
  <1>5. Outcome' = Outcome
    BY DEF ProcessOK, ProcessFails, Outcome
  <1>6. \/ done' = done \cup {t} /\ UNCHANGED failed
        \/ failed' = failed \cup {t} /\ UNCHANGED done
    BY DEF ProcessOK, ProcessFails
  <1>7. PICK u \in Task : u = t
    BY <1>1
  <1>8. Abstract!Finish(u)
    BY <1>4, <1>5, <1>6, <1>7 DEF Abstract!Finish, Running, Processing, Outcome
  <1> QED BY <1>8 DEF Abstract!Next

\* The other steps of the workers leave what is processed alone.
LEMMA WorkerStutters ==
  ASSUME TInv, NEW w \in Worker,
         NoMoreTasks(w) \/ CancelOthers(w) \/ SendResult(w) \/ DropResult(w)
  PROVE  UNCHANGED <<Running, done, failed, Outcome>>
  <1>1. PICK p \in Place \ {"process"} :
          worker' = [worker EXCEPT ![w].at = p] /\ ~At(w, "process")
    BY DEF NoMoreTasks, CancelOthers, SendResult, DropResult, Place, At
  <1>2. /\ \A v \in Worker : At(v, "process")' <=> At(v, "process")
        /\ \A v \in Worker : At(v, "process") => worker'[v] = worker[v]
    BY <1>1, PlaceChanges DEF TInv, At
  <1>3. Running' = Running
    BY <1>2 DEF Running, Processing
  <1> QED BY <1>3 DEF NoMoreTasks, CancelOthers, SendResult, DropResult, Outcome

\* The return of the caller is its return there.
LEMMA CallerReturns ==
  ASSUME TInv, TInv', Incomplete \/ Drained
  PROVE  [Abstract!Next]_<<Running, done, failed, Outcome>>
  <1>1. Running = {}
    BY DEF Incomplete, Drained, ResultsClosed, Running, Processing, At
  <1>2. UNCHANGED <<Running, done, failed>>
    BY DEF Incomplete, Drained, Running, Processing, At
  <1>3. Outcome = "none" /\ ((Outcome' = "nil" /\ done = Task) \/ Outcome' = "error")
    <2>1. ReturnsTheTruth'
      BY TInvMeansPoolInv, PTL DEF PoolInv
    <2> QED BY <2>1 DEF ReturnsTheTruth, Incomplete, Drained, Outcome, Task
  <1>4. Abstract!Return
    BY <1>1, <1>2, <1>3 DEF Abstract!Return, Running, Processing, Outcome
  <1> QED BY <1>4 DEF Abstract!Next

\* Every step of the pool is one of the abstract pool, or invisible there.
LEMMA StepImplements ==
  ASSUME TInv, TInv', [PoolNext]_poolVars
  PROVE  [Abstract!Next]_<<Running, done, failed, Outcome>>
  <1>1. CASE \E w \in Worker : Goroutine(w)
    <2> PICK w \in Worker : Goroutine(w)
      BY <1>1
    <2> QED BY FeedStarts, ProcessFinishes, WorkerStutters DEF Goroutine
  <1>2. CASE Incomplete \/ Drained
    BY <1>2, CallerReturns
  <1>3. CASE Cancel \/ CloseTasks \/ AllCounted \/ TakeError \/ CallerCancelled \/ UNCHANGED poolVars
    BY <1>3 DEF Cancel, CloseTasks, AllCounted, TakeError, CallerCancelled, Drain, poolVars,
                Running, Processing, Outcome, At
  <1> QED BY <1>1, <1>2, <1>3 DEF PoolNext, Caller

\* processTasksInParallel implements Tasks: at most `concurrency' parts are worked
\* on at a time and each at most once, and the call returns only when nothing
\* runs any more, nil only when every part is done.
THEOREM PoolImplementsTasks == PoolSpec => TasksSpec
  <1>1. PoolInit => Abstract!Init
    BY DEF PoolInit, Abstract!Init, At
  <1>2. TInv /\ TInv' /\ [PoolNext]_poolVars => [Abstract!Next]_<<Running, done, failed, Outcome>>
    BY StepImplements
  <1>3. TInv /\ TInv' /\ [PoolNext]_poolVars => [Abstract!Next]_(Abstract!vars)
    BY <1>2 DEF Abstract!vars, Running, Processing, Outcome
  <1> QED BY <1>1, <1>3, PoolInvariant, PTL DEF PoolSpec, TasksSpec, Abstract!Spec

-----------------------------------------------------------------------------
(* Backups: recursive functions of the reader, by induction.               *)

\* The smallest of some natural numbers.
LEMMA LeastOf ==
  ASSUME NEW S \in SUBSET Nat, S # {}
  PROVE  \E m \in S : \A n \in S : m <= n
  <1>1. PICK m \in S : \A n \in S : ~(<<n, m>> \in OpToRel(<, Nat))
    BY NatLessThanWellFounded, WFMin
  <1>2. \A n \in S : ~(n < m)
    BY <1>1 DEF OpToRel
  <1>3. m \in Nat /\ \A n \in S : n \in Nat
    OBVIOUS
  <1> QED BY <1>2, <1>3

\* Induction up to n, with a set in the place of a predicate.
LEMMA Induction ==
  ASSUME NEW n \in Nat, NEW S, 0 \in S, \A i \in 1..n : i - 1 \in S => i \in S
  PROVE  \A i \in 0..n : i \in S
  <1> SUFFICES ASSUME \E i \in 0..n : i \notin S PROVE FALSE
    OBVIOUS
  <1> DEFINE B == {i \in 0..n : i \notin S}
  <1>1. B \subseteq Nat /\ B # {}
    OBVIOUS
  <1>2. PICK m \in B : \A i \in B : m <= i
    BY <1>1, LeastOf
  <1>3. m \in 1..n /\ m - 1 \in 0..n /\ m - 1 \notin B
    BY <1>2
  <1> QED BY <1>3

\* One step of Prepare's way down.
FoundBody(found, l) ==
  FindContent(layers[l], IF l = 1 THEN {} ELSE IF l = 2 THEN Needs(HeadFiles)
                         ELSE Needs({found[l - 1][k] : k \in DOMAIN found[l - 1]}))

\* What Prepare finds in the layers, one after the other.
LEMMA MatchesEquation ==
  ASSUME Depth \in Nat
  PROVE  Matches = [l \in 1..Depth |-> FoundBody(Matches, l)]
  <1> DEFINE S == {m \in 0..Depth : \E f : f = [l \in 1..m |-> FoundBody(f, l)]}
  <1>1. ASSUME NEW f, NEW g, NEW l \in Nat \ {0}, l > 2 => f[l - 1] = g[l - 1]
        PROVE  FoundBody(f, l) = FoundBody(g, l)
    <2>1. CASE l = 1 \/ l = 2
      BY <2>1 DEF FoundBody
    <2>2. CASE ~(l = 1 \/ l = 2) /\ l > 2
      BY <1>1, <2>2 DEF FoundBody
    <2> QED BY <2>1, <2>2
  <1>2. 0 \in S
    <2> DEFINE f == [l \in 1..0 |-> 0]
    <2>1. f = [l \in 1..0 |-> FoundBody(f, l)]
      OBVIOUS
    <2> HIDE DEF f
    <2>2. \E g : g = [l \in 1..0 |-> FoundBody(g, l)]
      BY <2>1, Zenon
    <2>3. 0 \in 0..Depth
      OBVIOUS
    <2> QED BY <2>2, <2>3, Zenon
  <1>3. ASSUME NEW m \in 1..Depth, m - 1 \in S PROVE m \in S
    <2>1. PICK f : f = [l \in 1..m - 1 |-> FoundBody(f, l)]
      BY <1>3
    <2> DEFINE g == [l \in 1..m |-> IF l = m THEN FoundBody(f, m) ELSE f[l]]
    <2>2. ASSUME NEW l \in 1..m PROVE g[l] = FoundBody(g, l)
      <3>1. g[l] = FoundBody(f, l)
        BY <2>1
      <3>2. l > 2 => f[l - 1] = g[l - 1]
        OBVIOUS
      <3> HIDE DEF g
      <3> QED BY <1>1, <3>1, <3>2
    <2>3. g = [l \in 1..m |-> g[l]]
      OBVIOUS
    <2> HIDE DEF g
    <2>4. g = [l \in 1..m |-> FoundBody(g, l)]
      BY <2>2, <2>3
    <2> QED BY <2>4
  <1> HIDE DEF S
  <1>4. Depth \in S
    BY <1>2, <1>3, Induction
  <1>5. \E f : f = [l \in 1..Depth |-> FoundBody(f, l)]
    BY <1>4 DEF S
  <1>6. Matches = CHOOSE f : f = [l \in 1..Depth |-> FoundBody(f, l)]
    BY DEF Matches, FoundBody
  <1> QED BY <1>5, <1>6

-----------------------------------------------------------------------------
(* What ClickHouse has written.                                             *)

\* How a content may be encoded on top of the layers from l + 1 on.
Legal(l, content, reused) ==
  \A i \in Names :
    /\ Slot[i] = "metadata" => content[i] # Absent
    /\ content[i] = Absent => reused[i] = 0
    /\ content[i] # Absent => reused[i] <= Len(content[i])
    /\ reused[i] > 0 => l < Len(layers) /\ Has(layers[l + 1], SubSeq(content[i], 1, reused[i]))

\* The contents of a table's files, the lengths reused, and the layers there are.
Contents == [Names -> Content \cup {Absent}]
Reused == [Names -> Nat]
LayerSet == {Layer(content, reused) : content \in Contents, reused \in Reused}

\* Every layer is such an encoding.
Chained ==
  \A l \in 1..Len(layers) : \E content \in Contents : \E reused \in Reused :
    layers[l] = Layer(content, reused) /\ Legal(l, content, reused)

\* The invariant of the backups: none is taken once they are forgotten.
BackupKept ==
  \/ table \in Backups /\ layers \in Seq(LayerSet) /\ Chained
  \/ table.maxLayers = 0 /\ layers = << >>

\* What is assumed of the table.
LEMMA TableFacts ==
  ASSUME table \in Backups
  PROVE  /\ Len(Slot) \in Nat /\ Names = 1..Len(Slot) /\ MaxLayers \in Nat
         /\ \A c \in Content : c \in Seq(Nat) /\ Len(c) \in Nat /\ \A n \in 0..Len(c) : SubSeq(c, 1, n) # Absent
         /\ Absent \notin Content
         /\ \E i \in Names : Slot[i] = "metadata"
         /\ \A i, j, k \in Names :
              i < j /\ j < k /\ Slot[i] = Slot[k] /\ Slot[i] \in DOMAIN Partition => Slot[j] = Slot[i]
  <1>1. /\ Len(Slot) \in Nat /\ Names = 1..Len(Slot) /\ MaxLayers \in Nat
        /\ \E i \in Names : Slot[i] = "metadata"
        /\ \A c \in Content : c \in Seq(Nat) /\ \A n \in 0..Len(c) : SubSeq(c, 1, n) # Absent
    BY BackupAssumption DEF BackupAssumption, Slot, Names, MaxLayers, Content
  <1>2. \A i, j, k \in Names :
           i < j /\ j < k /\ Slot[i] = Slot[k] /\ Slot[i] \in DOMAIN Partition => Slot[j] = Slot[i]
    BY BackupAssumption DEF BackupAssumption, Slot, Names
  <1>3. ASSUME NEW c \in Content PROVE Len(c) \in Nat /\ c # Absent
    <2>1. c \in Seq(Nat)
      BY <1>1
    <2>2. Len(c) \in Nat /\ SubSeq(c, 1, Len(c)) = c
      BY <2>1
    <2> QED BY <1>1, <2>2
  <1> QED BY <1>1, <1>2, <1>3

\* Another backup is added to the chain.
LEMMA TakeBackupKept == BackupKept /\ TakeBackup => BackupKept'
  <1> SUFFICES ASSUME BackupKept, TakeBackup PROVE BackupKept'
    OBVIOUS
  <1>1. table \in Backups /\ layers \in Seq(LayerSet) /\ Chained
    <2>1. ASSUME layers = << >>, MaxLayers = 0 PROVE FALSE
      BY <2>1 DEF TakeBackup
    <2> QED BY <2>1 DEF BackupKept, MaxLayers
  <1>2. UNCHANGED table
    BY DEF TakeBackup
  <1>3. PICK content \in Contents : \E reused \in [Names -> {Len(c) : c \in Content}] :
           /\ \A i \in Names :
                /\ Slot[i] = "metadata" => content[i] \notin {Absent, << >>}
                /\ reused[i] > 0 =>
                     /\ content[i] # Absent /\ reused[i] <= Len(content[i]) /\ layers # << >>
                     /\ Has(layers[1], SubSeq(content[i], 1, reused[i]))
           /\ layers' = <<Layer(content, reused)>> \o layers
    BY DEF TakeBackup, Contents
  <1>4. PICK reused \in [Names -> {Len(c) : c \in Content}] :
           /\ \A i \in Names :
                /\ Slot[i] = "metadata" => content[i] \notin {Absent, << >>}
                /\ reused[i] > 0 =>
                     /\ content[i] # Absent /\ reused[i] <= Len(content[i]) /\ layers # << >>
                     /\ Has(layers[1], SubSeq(content[i], 1, reused[i]))
           /\ layers' = <<Layer(content, reused)>> \o layers
    BY <1>3
  <1>5. reused \in Reused
    BY <1>1, TableFacts DEF Reused
  <1>6. UNCHANGED <<Names, Slot, Content, Contents, Reused, LayerSet>>
    BY <1>2 DEF Names, Slot, Content, Contents, Reused, LayerSet, Layer, Index
  <1>7. Layer(content, reused) \in LayerSet
    BY <1>5 DEF LayerSet
  <1> DEFINE top == Layer(content, reused)
  <1>8. /\ layers' \in Seq(LayerSet) /\ Len(layers') = Len(layers) + 1 /\ Len(layers) \in Nat
        /\ layers'[1] = top
        /\ \A l \in 1..Len(layers) : layers'[l + 1] = layers[l]
    <2> HIDE DEF top
    <2>1. layers' = <<top>> \o layers /\ top \in LayerSet
      BY <1>4, <1>7 DEF top
    <2> QED BY <1>1, <2>1
  <1>9. \A c \in Contents, r \in Reused : Layer(c, r)' = Layer(c, r)
    BY <1>2 DEF Layer, Index, Names, Slot
  <1>10. \A layer, c : Has(layer, c)' <=> Has(layer, c)
    BY <1>6 DEF Has
  <1>11. ASSUME NEW l \in 1..Len(layers')
         PROVE  \E c \in Contents : \E r \in Reused :
                  layers'[l] = Layer(c, r) /\ Legal(l, c, r)'
    <2>1. CASE l = 1
      <3>1. ASSUME NEW i \in Names
            PROVE  /\ Slot[i] = "metadata" => content[i] # Absent
                   /\ content[i] = Absent => reused[i] = 0
                   /\ content[i] # Absent => reused[i] <= Len(content[i])
                   /\ reused[i] > 0 => Has(layers[1], SubSeq(content[i], 1, reused[i])) /\ layers # << >>
        <4>1. reused[i] \in Nat /\ (content[i] # Absent => Len(content[i]) \in Nat)
          BY <1>1, <1>5, TableFacts DEF Reused, Contents
        <4> QED BY <1>4, <4>1
      <3>2. layers # << >> => 1 < Len(layers') /\ layers'[2] = layers[1]
        BY <1>1, <1>8
      <3>3. Legal(1, content, reused)'
        BY <1>6, <1>10, <3>1, <3>2 DEF Legal
      <3> QED BY <1>5, <1>8, <2>1, <3>3
    <2>2. CASE l # 1
      <3>1. l - 1 \in 1..Len(layers) /\ layers'[l] = layers[l - 1]
        BY <1>8, <2>2
      <3>2. PICK c \in Contents, r \in Reused : layers[l - 1] = Layer(c, r) /\ Legal(l - 1, c, r)
        BY <1>1, <3>1 DEF Chained
      <3>3. l - 1 < Len(layers) => l < Len(layers') /\ layers'[l + 1] = layers[(l - 1) + 1]
        BY <1>8, <3>1
      <3>4. Legal(l, c, r)'
        BY <1>6, <1>10, <3>2, <3>3 DEF Legal
      <3> QED BY <3>1, <3>2, <3>4
    <2> QED BY <2>1, <2>2
  <1>12. Chained'
    BY <1>6, <1>9, <1>11 DEF Chained
  <1> QED BY <1>1, <1>2, <1>6, <1>8, <1>12 DEF BackupKept

-----------------------------------------------------------------------------
(* What the reader makes of an index.                                       *)

\* The files of a layer, by name.
IndexOf(l) == ScanIndex(layers[l])

\* A file whose content can be put together from its layer and the next.
CanRead(f, l) ==
  /\ f.name \in Names /\ f.checksum = layers[l].content[f.name]
  /\ f.checksum \in Seq(Nat) /\ f.size = Len(f.checksum) /\ f.baseSize \in 0..f.size
  /\ f.baseSize = 0 => BaseKey(f) = {}
  /\ f.baseSize > 0 => BaseKey(f) = {<<f.baseSize, SubSeq(f.checksum, 1, f.baseSize)>>}
  /\ f.size > f.baseSize =>
        /\ f.dataFile \in Names
        /\ layers[l].data[f.dataFile] = SubSeq(f.checksum, f.baseSize + 1, f.size)
  /\ f.baseSize > 0 =>
        l < Len(layers) /\ \E j \in DOMAIN IndexOf(l + 1) :
          /\ IndexOf(l + 1)[j].size = f.baseSize
          /\ IndexOf(l + 1)[j].checksum = SubSeq(f.checksum, 1, f.baseSize)

\* An entry of an index, and what the reader knows of it.
Raw(i, c, n, d) == [Entry(i, c, n) EXCEPT !.dataFile = d]

Describes(f, i, c, n, d) ==
  /\ f.name = i /\ f.size = Len(c) /\ f.checksum = c /\ f.baseSize = n
  /\ f.dataFile = (IF Len(c) > n /\ d = 0 THEN i ELSE d)
  /\ n \notin {0, Len(c)} => f.baseChecksum = SubSeq(c, 1, n)

\* normalizeFile finds out how much of a file is in the base.
LEMMA Normalized ==
  ASSUME NEW i, NEW c \in Seq(Nat), NEW n \in 0..Len(c), NEW d
  PROVE  Describes(NormalizeFile(Raw(i, c, n, d)), i, c, n, d)
  <1> DEFINE e == Raw(i, c, n, d)
             b == IF e.size = 0 THEN 0
                  ELSE IF e.baseSizeXML # {} THEN CHOOSE m \in e.baseSizeXML : TRUE
                  ELSE IF e.useBase THEN e.size ELSE 0
  <1>1. /\ e.name = i /\ e.size = Len(c) /\ e.checksum = c
        /\ e.useBase <=> n > 0
        /\ e.baseSizeXML = (IF n \in {0, Len(c)} THEN {} ELSE {n})
        /\ e.baseChecksum = (IF n \in {0, Len(c)} THEN << >> ELSE SubSeq(c, 1, n))
        /\ e.dataFile = d
    BY DEF Entry, Raw
  <1> HIDE DEF e
  <1>2. Len(c) \in Nat
    OBVIOUS
  <1>3. b = n
    <2>1. CASE n = 0
      BY <1>1, <1>2, <2>1
    <2>2. CASE n = Len(c) /\ n # 0
      BY <1>1, <1>2, <2>2
    <2>3. CASE n \notin {0, Len(c)}
      <3>1. e.size # 0 /\ e.baseSizeXML = {n}
        BY <1>1, <1>2, <2>3
      <3>2. (CHOOSE m \in {n} : TRUE) = n
        OBVIOUS
      <3> QED BY <3>1, <3>2
    <2> QED BY <2>1, <2>2, <2>3
  <1> HIDE DEF b
  <1>4. NormalizeFile(e) =
          [name |-> e.name, size |-> e.size, checksum |-> e.checksum,
           baseSize |-> b, baseChecksum |-> e.baseChecksum,
           dataFile |-> IF e.size > b /\ e.dataFile = 0 THEN e.name ELSE e.dataFile]
    BY DEF NormalizeFile, b
  <1>5. /\ NormalizeFile(e).name = i /\ NormalizeFile(e).size = Len(c)
        /\ NormalizeFile(e).checksum = c /\ NormalizeFile(e).baseSize = n
        /\ NormalizeFile(e).dataFile = (IF Len(c) > n /\ d = 0 THEN i ELSE d)
        /\ NormalizeFile(e).baseChecksum = e.baseChecksum
    BY <1>1, <1>3, <1>4
  <1> QED BY <1>1, <1>5 DEF e, Describes

\* File i of a layer with this content, as the reader sees it.
ListedAs(f, i, content, reused) ==
  /\ content[i] \in Seq(Nat) /\ reused[i] \in 0..Len(content[i])
  /\ f.name = i /\ f.checksum = content[i]
  /\ f.size = Len(content[i]) /\ f.baseSize = reused[i]
  /\ reused[i] \notin {0, Len(content[i])} => f.baseChecksum = SubSeq(content[i], 1, reused[i])
  /\ reused[i] < Len(content[i]) =>
       f.dataFile \in {k \in Names : content[k] = content[i] /\ reused[k] = reused[i]}

\* The files of an index of ClickHouse's are the files that were backed up.
LEMMA EntryFields ==
  ASSUME table \in Backups, NEW l \in 1..Len(layers),
         NEW content \in Contents, NEW reused \in Reused,
         layers[l] = Layer(content, reused), Legal(l, content, reused)
  PROVE  /\ DOMAIN IndexOf(l) = {i \in Names : content[i] # Absent}
         /\ \A i \in DOMAIN IndexOf(l) : ListedAs(IndexOf(l)[i], i, content, reused)
  <1>1. layers[l].index = Index(content, reused)
    BY DEF Layer
  <1>2. DOMAIN IndexOf(l) = {i \in Names : content[i] # Absent}
    BY <1>1 DEF IndexOf, ScanIndex, Index
  <1>3. ASSUME NEW i \in DOMAIN IndexOf(l)
        PROVE  ListedAs(IndexOf(l)[i], i, content, reused)
    <2> DEFINE same == {k \in Names : content[k] = content[i] /\ reused[k] = reused[i]}
               first == CHOOSE k \in same : \A m \in same : k <= m
               d == IF first = i THEN 0 ELSE first
               e == Raw(i, content[i], reused[i], d)
    <2>1. i \in Names /\ content[i] # Absent
      BY <1>2
    <2>2. content[i] \in Seq(Nat) /\ reused[i] \in 0..Len(content[i])
      BY <2>1, TableFacts DEF Contents, Reused, Legal
    <2>3. i \in same /\ same \subseteq Nat /\ \A k \in same : k # 0
      BY <2>1, TableFacts
    <2>4. \E k \in same : \A m \in same : k <= m
      BY <2>3, LeastOf
    <2>5. first \in same
      BY <2>4
    <2>6. IndexOf(l)[i] = NormalizeFile(e)
      BY <1>1, <1>2, <2>1 DEF IndexOf, ScanIndex, Index, Raw
    <2> HIDE DEF e, d, first, same
    <2>7. Describes(IndexOf(l)[i], i, content[i], reused[i], d)
      BY <2>2, <2>6, Normalized DEF e
    <2>8. reused[i] < Len(content[i]) => IndexOf(l)[i].dataFile \in same
      BY <2>2, <2>3, <2>5, <2>7 DEF d, Describes
    <2> QED BY <2>2, <2>7, <2>8 DEF same, Describes, ListedAs
  <1> QED BY <1>2, <1>3

\* Every file of every layer can be put together.
LEMMA EntriesReadable ==
  ASSUME table \in Backups, layers \in Seq(LayerSet), Chained, NEW l \in 1..Len(layers), NEW i \in DOMAIN IndexOf(l)
  PROVE  CanRead(IndexOf(l)[i], l) /\ IndexOf(l)[i].name = i
  <1> DEFINE f == IndexOf(l)[i]
  <1>1. PICK content \in Contents, reused \in Reused :
           layers[l] = Layer(content, reused) /\ Legal(l, content, reused)
    BY DEF Chained
  <1>2. i \in Names /\ content[i] # Absent /\ ListedAs(f, i, content, reused)
    BY <1>1, EntryFields
  <1>3. /\ i \in Names /\ content[i] # Absent
        /\ content[i] \in Seq(Nat) /\ reused[i] \in 0..Len(content[i])
        /\ f.name = i /\ f.checksum = content[i]
        /\ f.size = Len(content[i]) /\ f.baseSize = reused[i]
        /\ reused[i] \notin {0, Len(content[i])} => f.baseChecksum = SubSeq(content[i], 1, reused[i])
        /\ reused[i] < Len(content[i]) =>
             f.dataFile \in {k \in Names : content[k] = content[i] /\ reused[k] = reused[i]}
    BY <1>2 DEF ListedAs
  <1>4. layers[l].content = content
    BY <1>1 DEF Layer
  <1> HIDE DEF f
  <1>5. Len(content[i]) \in Nat /\ reused[i] \in Nat
    BY <1>3
  <1>6. f.baseSize = 0 => BaseKey(f) = {}
    BY DEF BaseKey
  <1>7. f.baseSize > 0 => BaseKey(f) = {<<f.baseSize, SubSeq(f.checksum, 1, f.baseSize)>>}
    <2>1. SubSeq(content[i], 1, Len(content[i])) = content[i]
      BY <1>3
    <2>2. f.baseSize > 0 => (IF f.baseSize = f.size THEN f.checksum ELSE f.baseChecksum)
                             = SubSeq(f.checksum, 1, f.baseSize)
      BY <1>3, <1>5, <2>1
    <2>3. f.baseSize > 0 => f.baseSize # 0
      BY <1>3, <1>5
    <2> QED BY <2>2, <2>3 DEF BaseKey
  <1>8. ASSUME f.size > f.baseSize
        PROVE  /\ f.dataFile \in Names
               /\ layers[l].data[f.dataFile] = SubSeq(f.checksum, f.baseSize + 1, f.size)
    <2>1. f.dataFile \in Names /\ content[f.dataFile] = content[i] /\ reused[f.dataFile] = reused[i]
      BY <1>3, <1>5, <1>8
    <2>2. layers[l].data[f.dataFile] =
            SubSeq(content[f.dataFile], reused[f.dataFile] + 1, Len(content[f.dataFile]))
      <3>1. layers[l].data = [k \in Names |-> IF content[k] = Absent THEN << >>
                               ELSE SubSeq(content[k], reused[k] + 1, Len(content[k]))]
        BY <1>1 DEF Layer
      <3> QED BY <1>3, <2>1, <3>1
    <2> QED BY <1>3, <2>1, <2>2
  <1>9. ASSUME f.baseSize > 0
        PROVE  l < Len(layers) /\ \E j \in DOMAIN IndexOf(l + 1) :
                 /\ IndexOf(l + 1)[j].size = f.baseSize
                 /\ IndexOf(l + 1)[j].checksum = SubSeq(f.checksum, 1, f.baseSize)
    <2> DEFINE s == SubSeq(content[i], 1, reused[i])
    <2>1. l < Len(layers) /\ Has(layers[l + 1], s)
      BY <1>1, <1>3, <1>9 DEF Legal
    <2>2. s # Absent /\ Len(s) = reused[i]
      <3>1. content[i] \in Content
        BY <1>3 DEF Contents
      <3>2. s # Absent
        BY <1>3, <3>1, TableFacts
      <3>3. Len(s) = reused[i]
        BY <1>3, <1>5
      <3> QED BY <3>2, <3>3
    <2> HIDE DEF s
    <2>3. l + 1 \in 1..Len(layers)
      BY <2>1
    <2>4. PICK c \in Contents, r \in Reused :
            layers[l + 1] = Layer(c, r) /\ Legal(l + 1, c, r)
      BY <2>3 DEF Chained
    <2>5. layers[l + 1].content = c
      BY <2>4 DEF Layer
    <2>6. PICK j \in Names : c[j] = s
      BY <2>1, <2>5 DEF Has
    <2>7. /\ j \in DOMAIN IndexOf(l + 1)
          /\ IndexOf(l + 1)[j].checksum = s /\ IndexOf(l + 1)[j].size = Len(s)
      <3>1. j \in DOMAIN IndexOf(l + 1) /\ ListedAs(IndexOf(l + 1)[j], j, c, r)
        BY <2>2, <2>3, <2>4, <2>6, EntryFields
      <3> QED BY <2>6, <3>1 DEF ListedAs
    <2> QED BY <1>3, <2>1, <2>2, <2>7 DEF s
  <1>10. CanRead(f, l)
    BY <1>3, <1>4, <1>5, <1>6, <1>7, <1>8, <1>9 DEF CanRead
  <1> QED BY <1>3, <1>10 DEF f

-----------------------------------------------------------------------------
(* The scan of the newest index, part by part.                              *)

\* One step of the scan.
ScanBody(files, scan, n) ==
  IF n = 0 THEN [parts |-> << >>, current |-> NoFiles]
  ELSE IF n \in DOMAIN files THEN ScanFile(scan[n - 1], files[n]) ELSE scan[n - 1]

\* scanTable goes through the index once.
LEMMA ScanEquation ==
  ASSUME Len(Slot) \in Nat, NEW layer
  PROVE  \E scan : /\ scan = [n \in 0..Len(Slot) |-> ScanBody(ScanIndex(layer), scan, n)]
                   /\ ScanTable(layer) = Flush(scan[Len(Slot)]).parts
  <1> DEFINE F == ScanIndex(layer)
             N == Len(Slot)
             S == {m \in 0..N : \E f : f = [n \in 0..m |-> ScanBody(F, f, n)]}
  <1> HIDE DEF F, N
  <1>0. N \in Nat
    BY DEF N
  <1>1. ASSUME NEW f, NEW g, NEW n \in Nat, n > 0 => f[n - 1] = g[n - 1]
        PROVE  ScanBody(F, f, n) = ScanBody(F, g, n)
    BY <1>1 DEF ScanBody
  <1>2. 0 \in S
    <2> DEFINE f == [n \in 0..0 |-> ScanBody(F, << >>, 0)]
    <2>1. f = [n \in 0..0 |-> ScanBody(F, f, n)]
      BY <1>1
    <2> HIDE DEF f
    <2>2. \E g : g = [n \in 0..0 |-> ScanBody(F, g, n)]
      BY <2>1, Zenon
    <2>3. 0 \in 0..N
      BY <1>0
    <2> QED BY <2>2, <2>3, Zenon
  <1>3. ASSUME NEW m \in 1..N, m - 1 \in S PROVE m \in S
    <2>1. PICK f : f = [n \in 0..m - 1 |-> ScanBody(F, f, n)]
      BY <1>3
    <2> DEFINE g == [n \in 0..m |-> IF n = m THEN ScanBody(F, f, m) ELSE f[n]]
    <2>2. ASSUME NEW n \in 0..m PROVE g[n] = ScanBody(F, g, n)
      <3>1. g[n] = ScanBody(F, f, n)
        BY <1>0, <2>1
      <3>2. n > 0 => f[n - 1] = g[n - 1]
        BY <1>0
      <3> HIDE DEF g
      <3> QED BY <1>0, <1>1, <3>1, <3>2
    <2>3. g = [n \in 0..m |-> g[n]]
      OBVIOUS
    <2> HIDE DEF g
    <2>4. g = [n \in 0..m |-> ScanBody(F, g, n)]
      BY <2>2, <2>3
    <2>5. \E h : h = [n \in 0..m |-> ScanBody(F, h, n)]
      BY <2>4, Zenon
    <2>6. m \in 0..N
      BY <1>0
    <2> QED BY <2>5, <2>6, Zenon
  <1> HIDE DEF S
  <1>4. N \in S
    BY <1>0, <1>2, <1>3, Induction
  <1>5. \E f : f = [n \in 0..N |-> ScanBody(F, f, n)]
    BY <1>4 DEF S
  <1> DEFINE scan == CHOOSE f : f = [n \in 0..N |-> ScanBody(F, f, n)]
  <1>6. scan = [n \in 0..N |-> ScanBody(F, scan, n)]
    BY <1>5
  <1>7. ScanTable(layer) = Flush(scan[N]).parts
    BY DEF ScanTable, ScanBody, F, N
  <1> HIDE DEF scan
  <1> QED BY <1>6, <1>7 DEF F, N

\* The files of a layer.
EntrySet(l) == {IndexOf(l)[i] : i \in DOMAIN IndexOf(l)}

\* The parts that are asked for, and the files of a part among the first n names.
Wanted == {p \in DOMAIN Partition : IsIncluded(p)}
Present(n, p) == {i \in DOMAIN IndexOf(1) : i <= n /\ Slot[i] = p}
PartType == [name : DOMAIN Partition, files : Seq(EntrySet(1))]

\* A part with all of its files among the first n names.
Whole(r, n) ==
  /\ r \in PartType /\ r.name \in Wanted
  /\ {f.name : f \in ToSet(r.files)} = Present(n, r.name) /\ Present(n, r.name) # {}

\* The scan after n names: no name to come is of a part it has handed out.
ScanRight(s, n) ==
  /\ s = [parts |-> s.parts, current |-> s.current] /\ s.parts \in Seq(PartType)
  /\ s.current # NoFiles =>
        Whole(s.current, n) /\ \A x \in DOMAIN s.parts : s.parts[x].name # s.current.name
  /\ \A x \in DOMAIN s.parts :
        Whole(s.parts[x], n) /\ \A k \in Names : k > n => Slot[k] # s.parts[x].name
  /\ \A x, y \in DOMAIN s.parts : s.parts[x].name = s.parts[y].name => x = y
  /\ \A p \in Wanted : Present(n, p) # {} =>
        s.current.name = p \/ \E x \in DOMAIN s.parts : s.parts[x].name = p

\* The scan of a chain's newest index.
HeadThere == table \in Backups /\ layers \in Seq(LayerSet) /\ Chained /\ layers # << >>

\* The names and the files of the newest index.
LEMMA HeadFacts ==
  ASSUME HeadThere
  PROVE  /\ Len(Slot) \in Nat /\ Names = 1..Len(Slot) /\ 1 \in 1..Len(layers) /\ Len(layers) \in Nat
         /\ DOMAIN IndexOf(1) \subseteq Names
         /\ \A i \in DOMAIN IndexOf(1) : IndexOf(1)[i].name = i /\ IndexOf(1)[i] \in EntrySet(1)
  <1>1. Len(Slot) \in Nat /\ Names = 1..Len(Slot)
    BY TableFacts DEF HeadThere
  <1>2. Len(layers) \in Nat /\ 1 \in 1..Len(layers)
    BY DEF HeadThere
  <1>3. \A i \in DOMAIN IndexOf(1) : CanRead(IndexOf(1)[i], 1) /\ IndexOf(1)[i].name = i
    BY <1>2, EntriesReadable DEF HeadThere
  <1> QED BY <1>1, <1>2, <1>3 DEF CanRead, EntrySet

\* Handing out the current part, when none of its names is to come.
LEMMA FlushRight ==
  ASSUME HeadThere, NEW m \in 0..Len(Slot), NEW s, ScanRight(s, m),
         s.current # NoFiles => \A k \in Names : k > m => Slot[k] # s.current.name
  PROVE  ScanRight(Flush(s), m) /\ Flush(s).current = NoFiles
  <1>1. CASE s.current = NoFiles
    BY <1>1 DEF Flush
  <1>2. CASE s.current # NoFiles
    <2> DEFINE t == [parts |-> Append(s.parts, s.current), current |-> NoFiles]
    <2>1. s = [parts |-> s.parts, current |-> s.current]
      BY DEF ScanRight
    <2>2. Flush(s) = t
      BY <1>2, <2>1 DEF Flush
    <2>3. /\ s.parts \in Seq(PartType) /\ s.current \in PartType /\ Whole(s.current, m)
          /\ \A x \in DOMAIN s.parts : s.parts[x].name # s.current.name
          /\ \A x \in DOMAIN s.parts :
               Whole(s.parts[x], m) /\ \A k \in Names : k > m => Slot[k] # s.parts[x].name
          /\ \A x, y \in DOMAIN s.parts : s.parts[x].name = s.parts[y].name => x = y
          /\ \A p \in Wanted : Present(m, p) # {} =>
               s.current.name = p \/ \E x \in DOMAIN s.parts : s.parts[x].name = p
      BY <1>2 DEF ScanRight, Whole
    <2> DEFINE q == s.parts
               L == Len(s.parts)
    <2>4. L \in Nat /\ DOMAIN q = 1..L
      BY <2>3
    <2>5. /\ Append(q, s.current) \in Seq(PartType)
          /\ DOMAIN Append(q, s.current) = 1..L + 1
          /\ \A x \in 1..L : Append(q, s.current)[x] = q[x]
          /\ Append(q, s.current)[L + 1] = s.current
      BY <2>3
    <2> DEFINE a == Append(q, s.current)
    <2>6. t.parts = a /\ t.current = NoFiles /\ t = [parts |-> t.parts, current |-> t.current]
      OBVIOUS
    <2> HIDE DEF t, a, q, L
    <2>7. \A x \in DOMAIN a : (x \in DOMAIN q /\ a[x] = q[x]) \/ (x = L + 1 /\ a[x] = s.current)
      BY <2>4, <2>5 DEF a
    <2>8. \A x \in DOMAIN a :
            Whole(a[x], m) /\ \A k \in Names : k > m => Slot[k] # a[x].name
      BY <1>2, <2>3, <2>7 DEF q
    <2>9. \A x, y \in DOMAIN a : a[x].name = a[y].name => x = y
      BY <2>3, <2>7 DEF q
    <2>10. \A p \in Wanted : Present(m, p) # {} => \E x \in DOMAIN a : a[x].name = p
      <3>1. L + 1 \in DOMAIN a /\ \A x \in DOMAIN q : x \in DOMAIN a /\ a[x] = q[x]
        BY <2>4, <2>5 DEF a
      <3> QED BY <2>3, <2>5, <3>1 DEF a, q
    <2>11. a \in Seq(PartType)
      BY <2>5 DEF a
    <2>12. ScanRight(t, m)
      BY <2>6, <2>8, <2>9, <2>10, <2>11 DEF ScanRight
    <2> QED BY <2>2, <2>6, <2>12
  <1> QED BY <1>1, <1>2

\* A name that is of no wanted part, or not in the index, adds nothing.
LEMMA SkipRight ==
  ASSUME HeadThere, NEW n \in Names, NEW s, ScanRight(s, n - 1),
         n \notin DOMAIN IndexOf(1) \/ Slot[n] \notin Wanted
  PROVE  ScanRight(s, n)
  <1>1. n \in Nat /\ \A k \in Names : k \in Nat
    BY HeadFacts
  <1>2. \A p \in Wanted : Present(n, p) = Present(n - 1, p)
    BY <1>1, HeadFacts DEF Present
  <1>3. \A r : Whole(r, n - 1) => Whole(r, n)
    BY <1>2 DEF Whole
  <1>4. \A k \in Names : k > n => k > n - 1
    BY <1>1
  <1> QED BY <1>2, <1>3, <1>4 DEF ScanRight

\* A file of a wanted part joins the current part, or begins it.
LEMMA AddRight ==
  ASSUME HeadThere, NEW n \in DOMAIN IndexOf(1), NEW s, ScanRight(s, n - 1), Slot[n] \in Wanted,
         s.current = NoFiles \/ s.current.name = Slot[n]
  PROVE  ScanRight([s EXCEPT !.current =
                     [name |-> Slot[n], files |-> Append(s.current.files, IndexOf(1)[n])]], n)
  <1> DEFINE p == Slot[n]
             f == IndexOf(1)[n]
             r == [name |-> p, files |-> Append(s.current.files, f)]
             t == [s EXCEPT !.current = r]
  <1>1. n \in Nat /\ n \in Names /\ \A k \in Names : k \in Nat
    BY HeadFacts
  <1>2. p \in DOMAIN Partition /\ p \in Wanted /\ f \in EntrySet(1) /\ f.name = n
    BY HeadFacts DEF Wanted
  <1>3. Present(n, p) = Present(n - 1, p) \cup {n} /\ \A o \in Wanted : o # p => Present(n, o) = Present(n - 1, o)
    BY <1>1, HeadFacts DEF Present
  <1>4. \A x \in DOMAIN s.parts : s.parts[x].name # p
    BY <1>1 DEF ScanRight
  <1>5. /\ s.current.files \in Seq(EntrySet(1))
        /\ {g.name : g \in ToSet(s.current.files)} = Present(n - 1, p)
    <2>1. CASE s.current = NoFiles
      <3>1. s.current.files = << >> /\ s.current.name = NoPart
        BY <2>1 DEF NoFiles
      <3>2. p # NoPart
        BY <1>2, BackupAssumption DEF BackupAssumption
      <3>3. Present(n - 1, p) = {}
        BY <1>2, <1>4, <3>1, <3>2 DEF ScanRight
      <3>4. ToSet(s.current.files) = {}
        BY <3>1 DEF ToSet
      <3> QED BY <3>1, <3>3, <3>4
    <2>2. CASE s.current # NoFiles
      <3>1. s.current.name = p /\ Whole(s.current, n - 1)
        BY <2>2 DEF ScanRight
      <3> QED BY <3>1 DEF Whole, PartType
    <2> QED BY <2>1, <2>2
  <1>6. /\ Append(s.current.files, f) \in Seq(EntrySet(1))
        /\ ToSet(Append(s.current.files, f)) = ToSet(s.current.files) \cup {f}
    <2> DEFINE c == s.current.files
    <2>1. c \in Seq(EntrySet(1))
      BY <1>5
    <2> HIDE DEF c, f
    <2>2. /\ Append(c, f) \in Seq(EntrySet(1)) /\ Len(c) \in Nat /\ DOMAIN c = 1..Len(c)
          /\ DOMAIN Append(c, f) = 1..Len(c) + 1 /\ Append(c, f)[Len(c) + 1] = f
          /\ \A x \in 1..Len(c) : Append(c, f)[x] = c[x]
      BY <1>2, <2>1
    <2>3. ToSet(Append(c, f)) = ToSet(c) \cup {f}
      BY <2>2 DEF ToSet
    <2> QED BY <2>2, <2>3 DEF c
  <1>7. Whole(r, n)
    <2>1. r \in PartType /\ r.name = p /\ r.files = Append(s.current.files, f)
      BY <1>2, <1>6 DEF PartType
    <2> HIDE DEF r, f
    <2>2. {g.name : g \in ToSet(r.files)} = {g.name : g \in ToSet(s.current.files)} \cup {n}
      BY <1>2, <1>6, <2>1
    <2> QED BY <1>2, <1>3, <1>5, <2>1, <2>2 DEF Whole
  <1>8. t = [parts |-> s.parts, current |-> r]
    <2> DEFINE q == s.parts
               c == s.current
    <2>1. s = [parts |-> q, current |-> c]
      BY DEF ScanRight
    <2> HIDE DEF q, c, r
    <2>2. t = [parts |-> q, current |-> r]
      BY <2>1
    <2> QED BY <2>2 DEF q
  <1>9. t.parts = s.parts /\ t.current = r /\ t = [parts |-> t.parts, current |-> t.current] /\ r.name = p
    BY <1>8
  <1>10. ASSUME NEW x \in DOMAIN s.parts
         PROVE  Whole(s.parts[x], n) /\ \A k \in Names : k > n => Slot[k] # s.parts[x].name
    <2>1. Whole(s.parts[x], n - 1) /\ \A k \in Names : k > n - 1 => Slot[k] # s.parts[x].name
      BY DEF ScanRight
    <2>2. s.parts[x].name # p
      BY <1>4
    <2>3. \A k \in Names : k > n => k > n - 1
      BY <1>1
    <2> QED BY <1>3, <2>1, <2>2, <2>3 DEF Whole
  <1>11. \A o \in Wanted : Present(n, o) # {} =>
            o = p \/ \E x \in DOMAIN s.parts : s.parts[x].name = o
    <2>1. \A o \in Wanted : o # p /\ Present(n - 1, o) # {} =>
            s.current.name = o \/ \E x \in DOMAIN s.parts : s.parts[x].name = o
      BY DEF ScanRight
    <2>2. \A o \in Wanted : o # p => s.current.name # o
      BY BackupAssumption DEF BackupAssumption, NoFiles, Wanted
    <2> QED BY <1>3, <2>1, <2>2
  <1>12. s.parts \in Seq(PartType) /\ \A x, y \in DOMAIN s.parts : s.parts[x].name = s.parts[y].name => x = y
    BY DEF ScanRight
  <1> HIDE DEF t, r
  <1>13. /\ t.current # NoFiles =>
              Whole(t.current, n) /\ \A x \in DOMAIN t.parts : t.parts[x].name # t.current.name
         /\ \A o \in Wanted : Present(n, o) # {} =>
              t.current.name = o \/ \E x \in DOMAIN t.parts : t.parts[x].name = o
    BY <1>4, <1>7, <1>9, <1>11
  <1>14. /\ t.parts \in Seq(PartType)
         /\ \A x, y \in DOMAIN t.parts : t.parts[x].name = t.parts[y].name => x = y
         /\ \A x \in DOMAIN t.parts :
              Whole(t.parts[x], n) /\ \A k \in Names : k > n => Slot[k] # t.parts[x].name
    BY <1>9, <1>10, <1>12
  <1>15. ScanRight(t, n)
    BY <1>9, <1>13, <1>14 DEF ScanRight
  <1> QED BY <1>15 DEF t, r

\* One name of the index.
LEMMA ScanFileRight ==
  ASSUME HeadThere, NEW n \in DOMAIN IndexOf(1), NEW s, ScanRight(s, n - 1)
  PROVE  ScanRight(ScanFile(s, IndexOf(1)[n]), n)
  <1> DEFINE f == IndexOf(1)[n]
             p == Slot[n]
  <1>1. n \in Names /\ n \in Nat /\ n - 1 \in 0..Len(Slot) /\ f.name = n /\ \A k \in Names : k \in Nat
    BY HeadFacts
  <1>2. ASSUME s.current # NoFiles, s.current.name # p
        PROVE  \A k \in Names : k > n - 1 => Slot[k] # s.current.name
    <2> SUFFICES ASSUME NEW k \in Names, k > n - 1, Slot[k] = s.current.name PROVE FALSE
      OBVIOUS
    <2>1. s.current.name \in DOMAIN Partition /\ Present(n - 1, s.current.name) # {}
      BY <1>2 DEF ScanRight, Whole, Wanted
    <2>2. PICK i \in Present(n - 1, s.current.name) : TRUE
      BY <2>1
    <2>3. i \in Names /\ i <= n - 1 /\ Slot[i] = s.current.name
      BY <2>2, HeadFacts DEF Present
    <2>4. k # n
      BY <1>2
    <2>5. i < n /\ n < k
      <3>1. n \in Nat /\ i \in Nat /\ k \in Nat /\ i <= n - 1 /\ k > n - 1 /\ k # n
        BY <1>1, <2>3, <2>4
      <3> HIDE DEF p, f
      <3> QED BY <3>1
    <2>6. Slot[n] = Slot[i]
      BY <1>1, <2>1, <2>3, <2>5, TableFacts DEF HeadThere
    <2> QED BY <1>2, <2>3, <2>6
  <1>3. p \in DOMAIN Partition /\ IsIncluded(p) <=> p \in Wanted
    BY DEF Wanted
  <1>4. CASE p \notin Wanted
    <2>1. ScanFile(s, f) = Flush(s)
      BY <1>1, <1>3, <1>4 DEF ScanFile
    <2>2. s.current # NoFiles => s.current.name # p
      BY <1>4 DEF ScanRight, Whole
    <2>3. ScanRight(Flush(s), n - 1)
      BY <1>1, <1>2, <2>2, FlushRight
    <2> QED BY <1>1, <1>4, <2>1, <2>3, SkipRight
  <1>5. CASE p \in Wanted
    <2> DEFINE here == IF s.current.name = p THEN s ELSE Flush(s)
    <2>1. ScanFile(s, f) =
            [here EXCEPT !.current = [name |-> p, files |-> Append(here.current.files, f)]]
      BY <1>1, <1>3, <1>5 DEF ScanFile
    <2>2. /\ ScanRight(here, n - 1)
          /\ here.current = NoFiles \/ here.current.name = p
      <3>1. CASE s.current.name = p
        BY <3>1
      <3>2. CASE s.current.name # p
        BY <1>1, <1>2, <3>2, FlushRight
      <3> QED BY <3>1, <3>2
    <2> HIDE DEF here
    <2>3. ScanRight([here EXCEPT !.current =
                       [name |-> p, files |-> Append(here.current.files, f)]], n)
      BY <1>5, <2>2, AddRight
    <2> QED BY <2>1, <2>3
  <1> QED BY <1>4, <1>5

\* The scan is right from the first name to the last.
LEMMA ScanTableRight ==
  ASSUME HeadThere
  PROVE  \E s : /\ ScanRight(s, Len(Slot)) /\ s.current = NoFiles
                /\ ScanTable(layers[1]) = s.parts
  <1> DEFINE N == Len(Slot)
             F == IndexOf(1)
  <1>1. PICK scan : /\ scan = [n \in 0..N |-> ScanBody(F, scan, n)]
                    /\ ScanTable(layers[1]) = Flush(scan[N]).parts
    BY HeadFacts, ScanEquation DEF IndexOf
  <1>2. N \in Nat /\ Names = 1..N /\ DOMAIN F \subseteq Names
    BY HeadFacts
  <1> DEFINE S == {n \in 0..N : ScanRight(scan[n], n)}
  <1>3. 0 \in S
    <2> DEFINE t == [parts |-> << >>, current |-> NoFiles]
    <2>1. scan[0] = t
      BY <1>1, <1>2 DEF ScanBody
    <2>2. t.parts = << >> /\ t.current = NoFiles /\ t = [parts |-> t.parts, current |-> t.current]
      OBVIOUS
    <2> HIDE DEF t
    <2>3. \A p : Present(0, p) = {}
      BY <1>2 DEF Present
    <2>4. << >> \in Seq(PartType) /\ DOMAIN t.parts = {}
      BY <2>2
    <2>5. ScanRight(t, 0)
      BY <2>2, <2>3, <2>4 DEF ScanRight
    <2> QED BY <1>2, <2>1, <2>5
  <1>4. ASSUME NEW n \in 1..N, n - 1 \in S PROVE n \in S
    <2>1. ScanRight(scan[n - 1], n - 1) /\ n \in Names /\ n \in 0..N /\ n # 0
      BY <1>2, <1>4
    <2>2. CASE n \in DOMAIN F
      <3>1. scan[n] = ScanFile(scan[n - 1], F[n])
        BY <1>1, <2>1, <2>2 DEF ScanBody
      <3> QED BY <2>1, <2>2, <3>1, ScanFileRight
    <2>3. CASE n \notin DOMAIN F
      <3>1. scan[n] = scan[n - 1]
        BY <1>1, <2>1, <2>3 DEF ScanBody
      <3> QED BY <2>1, <2>3, <3>1, SkipRight
    <2> QED BY <2>2, <2>3
  <1>5. N \in S
    <2> HIDE DEF S, N
    <2>1. N \in Nat /\ \A n \in 1..N : n - 1 \in S => n \in S
      BY <1>2, <1>4
    <2>2. \A n \in 0..N : n \in S
      BY <1>3, <2>1, Induction
    <2> QED BY <2>1, <2>2
  <1> HIDE DEF S
  <1>6. ScanRight(scan[N], N) /\ N \in 0..N
    BY <1>2, <1>5 DEF S
  <1>7. \A k \in Names : ~(k > N)
    BY <1>2
  <1>8. ScanRight(Flush(scan[N]), N) /\ Flush(scan[N]).current = NoFiles
    BY <1>6, <1>7, FlushRight
  <1> QED BY <1>1, <1>8

\* Every wanted part is handed out once and whole.
LEMMA PartsOnceHolds == BackupKept => PartsOnce
  <1> SUFFICES ASSUME HeadThere PROVE PartsOnce
    BY DEF BackupKept, HeadThere, PartsOnce
  <1> DEFINE parts == ScanTable(layers[1])
             Files(p) == {i \in Names : Slot[i] = p /\ layers[1].content[i] # Absent}
  <1>1. PICK s : ScanRight(s, Len(Slot)) /\ s.current = NoFiles /\ parts = s.parts
    BY ScanTableRight
  <1>2. PICK content \in Contents, reused \in Reused :
           layers[1] = Layer(content, reused) /\ Legal(1, content, reused)
    BY HeadFacts DEF HeadThere, Chained
  <1>3. layers[1].content = content
    BY <1>2 DEF Layer
  <1>4. DOMAIN IndexOf(1) = {i \in Names : content[i] # Absent}
    BY <1>2, HeadFacts, EntryFields DEF HeadThere
  <1>5. \A p : Present(Len(Slot), p) = Files(p)
    BY <1>3, <1>4, HeadFacts DEF Present
  <1>6. NoFiles.name = NoPart /\ NoPart \notin Wanted
    BY BackupAssumption DEF BackupAssumption, NoFiles, Wanted
  <1> HIDE DEF parts, Files
  <1>7. \A p \in Wanted : Files(p) # {} => \E x \in DOMAIN parts : parts[x].name = p
    BY <1>1, <1>5, <1>6 DEF ScanRight
  <1>8. \A x \in DOMAIN parts :
           /\ parts[x].name \in Wanted /\ Files(parts[x].name) # {}
           /\ {f.name : f \in ToSet(parts[x].files)} = Files(parts[x].name)
           /\ \A y \in DOMAIN parts : parts[x].name = parts[y].name => x = y
    BY <1>1, <1>5 DEF ScanRight, Whole
  <1>9. {parts[i].name : i \in DOMAIN parts} =
           {p \in DOMAIN Partition : IsIncluded(p) /\ Files(p) # {}}
    BY <1>7, <1>8 DEF Wanted
  <1> QED BY <1>8, <1>9 DEF PartsOnce, parts, Files

\* What Prepare starts from are files of the newest layer.
LEMMA HeadFilesListed ==
  ASSUME HeadThere
  PROVE  HeadFiles \subseteq EntrySet(1)
  <1> DEFINE F == IndexOf(1)
  <1>1. Metadata(layers[1]) \in EntrySet(1)
    <2>1. PICK content \in Contents, reused \in Reused :
             layers[1] = Layer(content, reused) /\ Legal(1, content, reused)
      BY HeadFacts DEF HeadThere, Chained
    <2>2. DOMAIN F = {i \in Names : content[i] # Absent}
      BY <2>1, HeadFacts, EntryFields DEF HeadThere
    <2>3. PICK i \in Names : Slot[i] = "metadata"
      BY TableFacts DEF HeadThere
    <2>4. i \in DOMAIN F
      BY <2>1, <2>2, <2>3 DEF Legal
    <2>5. \A k \in DOMAIN F : F[k].name = k
      BY HeadFacts
    <2>6. \E k \in DOMAIN F : Slot[F[k].name] = "metadata"
      BY <2>3, <2>4, <2>5
    <2>7. Metadata(layers[1]) = F[CHOOSE k \in DOMAIN F : Slot[F[k].name] = "metadata"]
      BY DEF Metadata, IndexOf
    <2> QED BY <2>6, <2>7 DEF EntrySet
  <1> DEFINE parts == ScanTable(layers[1])
  <1>2. PICK s : ScanRight(s, Len(Slot)) /\ parts = s.parts
    BY ScanTableRight
  <1> HIDE DEF parts
  <1>3. \A x \in DOMAIN parts : parts[x].files \in Seq(EntrySet(1))
    BY <1>2 DEF ScanRight, Whole, PartType
  <1>4. \A x \in DOMAIN parts : ToSet(parts[x].files) \subseteq EntrySet(1)
    BY <1>3 DEF ToSet
  <1>5. HeadFiles = {Metadata(layers[1])} \cup UNION {ToSet(parts[i].files) : i \in DOMAIN parts}
    BY DEF HeadFiles, parts
  <1> QED BY <1>1, <1>4, <1>5

-----------------------------------------------------------------------------
(* Prepare, downwards.                                                      *)

\* What is found of what is wanted: files of the layer, each under its size and checksum.
FoundOf(m, l, wanted) ==
  /\ DOMAIN m = {k \in wanted : \E f \in EntrySet(l) : <<f.size, f.checksum>> = k}
  /\ \A k \in DOMAIN m : m[k] \in EntrySet(l) /\ <<m[k].size, m[k].checksum>> = k

\* findContent finds all that the layer has of what is wanted.
LEMMA FoundListed ==
  ASSUME HeadThere, NEW l \in 1..Len(layers), NEW wanted
  PROVE  FoundOf(FindContent(layers[l], wanted), l, wanted)
  <1> DEFINE F == IndexOf(l)
             With(key) == {i \in DOMAIN F : <<F[i].size, F[i].checksum>> = key}
             found == [key \in {k \in wanted : With(k) # {}} |->
                         F[CHOOSE i \in With(key) : \A j \in With(key) : i <= j]]
  <1>1. FindContent(layers[l], wanted) = found
    BY DEF FindContent, IndexOf
  <1>2. \A k : With(k) # {} <=> \E f \in EntrySet(l) : <<f.size, f.checksum>> = k
    BY DEF EntrySet
  <1>3. DOMAIN F \subseteq Nat
    <2>1. \A i \in DOMAIN F : CanRead(F[i], l) /\ F[i].name = i
      BY EntriesReadable DEF HeadThere
    <2> QED BY <2>1, HeadFacts DEF CanRead
  <1>4. ASSUME NEW k \in wanted, With(k) # {}
        PROVE  found[k] \in EntrySet(l) /\ <<found[k].size, found[k].checksum>> = k
    <2> DEFINE A == With(k)
               c == CHOOSE i \in A : \A j \in A : i <= j
    <2>1. A \subseteq Nat /\ A # {}
      BY <1>3, <1>4
    <2>2. \E i \in A : \A j \in A : i <= j
      BY <2>1, LeastOf
    <2>3. c \in A
      BY <2>2
    <2>4. found[k] = F[c]
      BY <1>4
    <2> QED BY <2>3, <2>4 DEF EntrySet
  <1> HIDE DEF With, F
  <1>5. DOMAIN found = {k \in wanted : With(k) # {}}
    OBVIOUS
  <1> HIDE DEF found
  <1> QED BY <1>1, <1>2, <1>4, <1>5 DEF FoundOf

\* What a file takes from its base is a file of the next layer.
LEMMA BaseListed ==
  ASSUME HeadThere, NEW l \in 1..Len(layers), NEW f \in EntrySet(l), NEW k \in BaseKey(f)
  PROVE  l < Len(layers) /\ \E g \in EntrySet(l + 1) : <<g.size, g.checksum>> = k
  <1>1. CanRead(f, l)
    BY EntriesReadable DEF EntrySet, HeadThere
  <1>2. f.baseSize > 0
    BY <1>1 DEF CanRead
  <1>3. k = <<f.baseSize, SubSeq(f.checksum, 1, f.baseSize)>>
    BY <1>1, <1>2 DEF CanRead
  <1> QED BY <1>1, <1>2, <1>3 DEF CanRead, EntrySet

\* What is asked of a layer.
LEMMA RequiredListed ==
  ASSUME HeadThere, NEW l \in 2..Len(layers) + 1
  PROVE  \A k \in Required(l) :
            l <= Len(layers) /\ \E g \in EntrySet(l) : <<g.size, g.checksum>> = k
  <1>1. Depth = Len(layers) /\ Len(layers) \in Nat
    BY HeadFacts DEF Depth
  <1>2. \A f \in EntrySet(l - 1) : \A k \in BaseKey(f) :
           l <= Len(layers) /\ \E g \in EntrySet(l) : <<g.size, g.checksum>> = k
    <2>1. l - 1 \in 1..Len(layers) /\ (l - 1) + 1 = l /\ (l - 1 < Len(layers) => l <= Len(layers))
      BY <1>1
    <2> QED BY <2>1, BaseListed
  <1>3. CASE l = 2
    BY <1>2, <1>3, HeadFilesListed DEF Required, Needs
  <1>4. CASE l # 2
    <2> DEFINE m == Matches[l - 1]
    <2>1. l - 1 \in 1..Depth
      BY <1>1
    <2>2. m = FoundBody(Matches, l - 1)
      BY <1>1, <2>1, MatchesEquation
    <2>3. \A k \in DOMAIN m : m[k] \in EntrySet(l - 1)
      BY <1>1, <2>1, <2>2, FoundListed DEF FoundBody, FoundOf
    <2>4. Required(l) = Needs({m[k] : k \in DOMAIN m})
      BY <1>4 DEF Required
    <2> QED BY <1>2, <2>3, <2>4 DEF Needs
  <1> QED BY <1>3, <1>4

\* Prepare finds in every layer exactly what is asked of it.
LEMMA MatchesDomain ==
  ASSUME HeadThere, NEW l \in 2..Len(layers)
  PROVE  /\ DOMAIN Matches[l] = Required(l)
         /\ \A k \in DOMAIN Matches[l] :
              Matches[l][k] \in EntrySet(l) /\ <<Matches[l][k].size, Matches[l][k].checksum>> = k
  <1>1. Depth = Len(layers) /\ Len(layers) \in Nat /\ l \in 1..Len(layers) /\ l \in 2..Len(layers) + 1
    BY HeadFacts DEF Depth
  <1>2. Matches[l] = FoundBody(Matches, l)
    BY <1>1, MatchesEquation
  <1>3. FoundBody(Matches, l) = FindContent(layers[l], Required(l))
    BY <1>1 DEF FoundBody, Required
  <1>4. \A k \in Required(l) : \E g \in EntrySet(l) : <<g.size, g.checksum>> = k
    BY <1>1, RequiredListed
  <1> DEFINE R == Required(l)
             m == FindContent(layers[l], R)
  <1>5. /\ DOMAIN m = {k \in R : \E f \in EntrySet(l) : <<f.size, f.checksum>> = k}
        /\ \A k \in DOMAIN m : m[k] \in EntrySet(l) /\ <<m[k].size, m[k].checksum>> = k
    <2>1. l \in 1..Len(layers)
      BY <1>1
    <2>2. FoundOf(m, l, R)
      BY <2>1, FoundListed
    <2> HIDE DEF m, R
    <2> QED BY <2>2 DEF FoundOf
  <1>6. Matches[l] = m /\ \A k \in R : \E g \in EntrySet(l) : <<g.size, g.checksum>> = k
    BY <1>2, <1>3, <1>4
  <1> HIDE DEF m, R
  <1>7. DOMAIN m = R
    BY <1>5, <1>6
  <1>8. DOMAIN Matches[l] = R
    BY <1>6, <1>7
  <1> QED BY <1>5, <1>6, <1>8 DEF R

\* Prepare finds what it asks of ClickHouse's chains.
LEMMA ChainResolvesHolds == BackupKept => ChainResolves
  <1> SUFFICES ASSUME HeadThere PROVE Prepared
    BY DEF BackupKept, HeadThere, ChainResolves
  <1>1. Depth = Len(layers) /\ Len(layers) \in Nat /\ 1 \in 1..Len(layers)
    BY HeadFacts DEF Depth
  <1>2. \A l \in 2..Depth : Required(l) \subseteq DOMAIN Matches[l]
    BY <1>1, MatchesDomain
  <1>3. Required(Depth + 1) = {}
    <2>1. Len(layers) + 1 \in 2..Len(layers) + 1 /\ ~(Len(layers) + 1 <= Len(layers))
      BY <1>1
    <2> QED BY <1>1, <2>1, RequiredListed
  <1> QED BY <1>2, <1>3 DEF Prepared

-----------------------------------------------------------------------------
(* Prepare, upwards, and the download of what it returns.                   *)

\* One step of joining sequences.
JoinBody(q, f, i) == IF i = 1 THEN q[i] ELSE f[i - 1] \o q[i]

\* The joined prefixes of a sequence of sequences.
Joins(q, n, f) == f = [i \in 1..n |-> JoinBody(q, f, i)]

\* Joining goes through the sequences once.
LEMMA JoinEquation ==
  ASSUME NEW q, Len(q) \in Nat \ {0}
  PROVE  \E f : Joins(q, Len(q), f) /\ FlattenSeq(q) = f[Len(q)]
  <1> DEFINE N == Len(q)
             S == {m \in 0..N : \E f : Joins(q, m, f)}
  <1>0. N \in Nat /\ N # 0
    OBVIOUS
  <1>1. 0 \in S
    <2> DEFINE f == [i \in 1..0 |-> 0]
    <2>1. f = [i \in 1..0 |-> JoinBody(q, f, i)]
      OBVIOUS
    <2> HIDE DEF f
    <2>2. \E g : Joins(q, 0, g)
      BY <2>1, Zenon DEF Joins
    <2>3. 0 \in 0..N
      BY <1>0
    <2> QED BY <2>2, <2>3, Zenon
  <1>2. ASSUME NEW m \in 1..N, m - 1 \in S PROVE m \in S
    <2> HIDE DEF N
    <2>1. PICK f : f = [i \in 1..m - 1 |-> JoinBody(q, f, i)]
      BY <1>2 DEF Joins
    <2> DEFINE g == [i \in 1..m |-> IF i = m THEN JoinBody(q, f, m) ELSE f[i]]
    <2>2. ASSUME NEW i \in 1..m PROVE g[i] = JoinBody(q, g, i)
      <3>1. g[i] = JoinBody(q, f, i)
        BY <1>0, <2>1
      <3>2. i # 1 => f[i - 1] = g[i - 1]
        BY <1>0
      <3> HIDE DEF g
      <3> QED BY <3>1, <3>2 DEF JoinBody
    <2>3. g = [i \in 1..m |-> g[i]]
      OBVIOUS
    <2> HIDE DEF g
    <2>4. Joins(q, m, g)
      BY <2>2, <2>3 DEF Joins
    <2>5. m \in 0..N
      BY <1>0
    <2> QED BY <2>4, <2>5
  <1>3. N \in S
    <2> HIDE DEF S, N
    <2>1. N \in Nat /\ \A n \in 1..N : n - 1 \in S => n \in S
      BY <1>0, <1>2
    <2>2. \A n \in 0..N : n \in S
      BY <1>1, <2>1, Induction
    <2> QED BY <2>1, <2>2
  <1>4. \E f : f = [i \in 1..N |-> JoinBody(q, f, i)]
    BY <1>3 DEF Joins
  <1> DEFINE flat == CHOOSE f : f = [i \in 1..N |-> JoinBody(q, f, i)]
  <1>5. flat = [i \in 1..N |-> JoinBody(q, flat, i)]
    BY <1>4
  <1>6. FlattenSeq(q) = flat[N]
    BY <1>0 DEF FlattenSeq, JoinBody
  <1> HIDE DEF flat
  <1> QED BY <1>5, <1>6 DEF Joins

\* A joined prefix is the one before it and the next sequence.
LEMMA JoinsAt ==
  ASSUME NEW n \in Nat, NEW q, NEW f, Joins(q, n, f), NEW i \in 1..n
  PROVE  f[i] = JoinBody(q, f, i)
  <1> DEFINE h == [k \in 1..n |-> JoinBody(q, f, k)]
  <1>1. h[i] = JoinBody(q, f, i)
    OBVIOUS
  <1>2. f = h
    BY DEF Joins
  <1> HIDE DEF h
  <1> QED BY <1>1, <1>2

\* The joined prefixes depend on nothing behind them.
LEMMA JoinsAgree ==
  ASSUME NEW n \in Nat, NEW m \in Nat, n <= m, NEW q, NEW r, NEW f, NEW g,
         Joins(q, n, f), Joins(r, m, g), \A i \in 1..n : q[i] = r[i]
  PROVE  \A i \in 1..n : f[i] = g[i]
  <1> DEFINE S == {i \in 0..n : i > 0 => f[i] = g[i]}
  <1>1. 0 \in S
    OBVIOUS
  <1>2. ASSUME NEW i \in 1..n, i - 1 \in S PROVE i \in S
    <2>1. f[i] = JoinBody(q, f, i) /\ g[i] = JoinBody(r, g, i)
      <3>1. i \in 1..m
        OBVIOUS
      <3> QED BY <3>1, JoinsAt
    <2>2. i # 1 => f[i - 1] = g[i - 1]
      BY <1>2
    <2> QED BY <2>1, <2>2 DEF JoinBody
  <1> HIDE DEF S
  <1>3. \A i \in 0..n : i \in S
    BY <1>1, <1>2, Induction
  <1> QED BY <1>3 DEF S

\* Joining one sequence more.
LEMMA FlattenAppend ==
  ASSUME NEW q \in Seq(Seq(Nat)), NEW x \in Seq(Nat)
  PROVE  FlattenSeq(Append(q, x)) = FlattenSeq(q) \o x
  <1> DEFINE r == Append(q, x)
             n == Len(q)
  <1>1. /\ n \in Nat /\ Len(r) = n + 1 /\ r[n + 1] = x /\ \A i \in 1..n : r[i] = q[i]
    OBVIOUS
  <1> HIDE DEF r
  <1>2. PICK g : Joins(r, Len(r), g) /\ FlattenSeq(r) = g[Len(r)]
    BY <1>1, JoinEquation
  <1>3. g[n + 1] = JoinBody(r, g, n + 1)
    <2>1. Joins(r, n + 1, g) /\ n + 1 \in Nat /\ n + 1 \in 1..n + 1
      BY <1>1, <1>2
    <2> HIDE DEF n
    <2> QED BY <2>1, JoinsAt
  <1>4. CASE n = 0
    <2>1. q = << >> /\ FlattenSeq(q) = << >>
      BY <1>4 DEF FlattenSeq
    <2>2. FlattenSeq(r) = x
      BY <1>1, <1>2, <1>3, <1>4 DEF JoinBody
    <2>3. << >> \o x = x
      OBVIOUS
    <2> QED BY <2>1, <2>2, <2>3 DEF r
  <1>5. CASE n # 0
    <2>1. PICK f : Joins(q, n, f) /\ FlattenSeq(q) = f[n]
      BY <1>1, <1>5, JoinEquation
    <2>2. f[n] = g[n]
      <3>1. n + 1 \in Nat /\ n <= n + 1 /\ n \in 1..n
        BY <1>1, <1>5
      <3>2. Joins(r, n + 1, g) /\ \A i \in 1..n : q[i] = r[i]
        BY <1>1, <1>2
      <3> DEFINE m == n + 1
      <3>3. m \in Nat /\ n <= m /\ Joins(r, m, g) /\ Joins(q, n, f) /\ n \in Nat
        BY <1>1, <2>1, <3>1, <3>2
      <3> HIDE DEF n, m
      <3>4. \A i \in 1..n : f[i] = g[i]
        BY <3>2, <3>3, JoinsAgree
      <3> QED BY <3>1, <3>4
    <2>3. g[n + 1] = g[n] \o x
      BY <1>1, <1>3, <1>5 DEF JoinBody
    <2> QED BY <1>1, <1>2, <2>1, <2>2, <2>3 DEF r
  <1> QED BY <1>4, <1>5

\* The objects of a chain, and what each holds.
Segment == [layer : 1..Len(layers), file : Names]
DataOf(y) == layers[y.layer].data[y.file]

\* Every object is a sequence of bytes.
LEMMA DataIsBytes ==
  ASSUME HeadThere
  PROVE  \A y \in Segment : DataOf(y) \in Seq(Nat)
  <1> SUFFICES ASSUME NEW y \in Segment PROVE DataOf(y) \in Seq(Nat)
    OBVIOUS
  <1> DEFINE l == y.layer
             i == y.file
  <1>1. l \in 1..Len(layers) /\ i \in Names
    BY DEF Segment
  <1>2. PICK content \in Contents, reused \in Reused :
           layers[l] = Layer(content, reused) /\ Legal(l, content, reused)
    BY <1>1 DEF HeadThere, Chained
  <1>3. layers[l].data[i] = IF content[i] = Absent THEN << >>
                            ELSE SubSeq(content[i], reused[i] + 1, Len(content[i]))
    <2>1. layers[l].data = [k \in Names |-> IF content[k] = Absent THEN << >>
                             ELSE SubSeq(content[k], reused[k] + 1, Len(content[k]))]
      BY <1>2 DEF Layer
    <2> QED BY <1>1, <2>1
  <1>4. CASE content[i] = Absent
    BY <1>3, <1>4 DEF DataOf
  <1>5. CASE content[i] # Absent
    <2> DEFINE c == content[i]
               n == reused[i]
    <2>1. c \in Seq(Nat) /\ n \in Nat
      BY <1>1, <1>5, TableFacts DEF HeadThere, Contents, Reused
    <2> HIDE DEF c, n
    <2>2. SubSeq(c, n + 1, Len(c)) \in Seq(Nat)
      <3>1. n + 1 \in 1..Len(c) + 1 \/ n + 1 > Len(c)
        BY <2>1
      <3> QED BY <2>1, <3>1
    <2> QED BY <1>3, <1>5, <2>2 DEF DataOf, c, n
  <1> QED BY <1>4, <1>5

\* A sequence with one element more, element by element.
LEMMA AppendAsFunction ==
  ASSUME NEW S, NEW d \in Seq(S), NEW z \in S, NEW n \in Nat, Len(d) = n
  PROVE  Append(d, z) = [i \in 1..n + 1 |-> IF i = n + 1 THEN z ELSE d[i]]
  <1> DEFINE e == [i \in 1..n + 1 |-> IF i = n + 1 THEN z ELSE d[i]]
             a == Append(d, z)
  <1>1. a \in Seq(S) /\ Len(a) = n + 1 /\ \A i \in 1..n + 1 : a[i] = IF i = n + 1 THEN z ELSE d[i]
    BY AppendProperties
  <1>2. \A i \in 1..n + 1 : e[i] \in S
    OBVIOUS
  <1>3. e \in Seq(S) /\ Len(e) = n + 1
    BY <1>2
  <1>4. \A i \in 1..n + 1 : e[i] = a[i]
    BY <1>1
  <1> HIDE DEF e, a
  <1>5. a = e
    BY <1>1, <1>3, <1>4, SeqEqual
  <1> QED BY <1>5 DEF a, e

\* One object more to download.
LEMMA DownloadAppend ==
  ASSUME HeadThere, NEW q \in Seq(Segment), NEW y \in Segment
  PROVE  DownloadBackupFile(Append(q, y)) = DownloadBackupFile(q) \o DataOf(y)
  <1> DEFINE D(s) == [i \in DOMAIN s |-> DataOf(s[i])]
             a == Append(q, y)
  <1>1. Len(q) \in Nat /\ DOMAIN q = 1..Len(q) /\ \A i \in 1..Len(q) : q[i] \in Segment
    OBVIOUS
  <1>2. DOMAIN a = 1..Len(q) + 1 /\ a[Len(q) + 1] = y /\ \A i \in 1..Len(q) : a[i] = q[i]
    OBVIOUS
  <1> HIDE DEF a
  <1>3. D(q) \in Seq(Seq(Nat)) /\ DataOf(y) \in Seq(Nat)
    BY <1>1, DataIsBytes
  <1>4. /\ DOMAIN D(q) = 1..Len(q) /\ \A i \in 1..Len(q) : D(q)[i] = DataOf(q[i])
        /\ D(a) = [i \in 1..Len(q) + 1 |-> DataOf(a[i])]
    BY <1>1, <1>2
  <1>5. D(a) = Append(D(q), DataOf(y))
    <2> DEFINE d == D(q)
               z == DataOf(y)
    <2>1. d \in Seq(Seq(Nat)) /\ z \in Seq(Nat) /\ Len(d) = Len(q)
      BY <1>1, <1>3, <1>4
    <2>2. D(a) = [i \in 1..Len(q) + 1 |-> IF i = Len(q) + 1 THEN z ELSE d[i]]
      BY <1>1, <1>2, <1>4
    <2> HIDE DEF d, z
    <2>3. Append(d, z) = [i \in 1..Len(q) + 1 |-> IF i = Len(q) + 1 THEN z ELSE d[i]]
      BY <1>1, <2>1, AppendAsFunction
    <2> QED BY <2>2, <2>3 DEF d, z
  <1>6. DownloadBackupFile(q) = FlattenSeq(D(q)) /\ DownloadBackupFile(a) = FlattenSeq(D(a))
    BY DEF DownloadBackupFile, DataOf
  <1> HIDE DEF D
  <1>7. FlattenSeq(Append(D(q), DataOf(y))) = FlattenSeq(D(q)) \o DataOf(y)
    BY <1>3, FlattenAppend
  <1> QED BY <1>5, <1>6, <1>7 DEF a

\* One step of Prepare's way up.
ResolvedBody(r, l) ==
  IF l = Depth + 1 THEN << >>
  ELSE [k \in DOMAIN Matches[l] |->
          ResolveRawFile(Matches[l][k], l, BaseSegments(Matches[l][k], r[l + 1]))]

\* The segments of the files that Prepare has found, from the oldest layer up.
LEMMA ResolvedEquation ==
  ASSUME Depth \in Nat
  PROVE  \A l \in 1..Depth + 1 : ResolvedBelow[l] = ResolvedBody(ResolvedBelow, l)
  <1> DEFINE N == Depth
             Up(m) == (N + 1 - m)..(N + 1)
             S == {m \in 0..N : \E f : f = [l \in Up(m) |-> ResolvedBody(f, l)]}
  <1>0. N \in Nat /\ Depth = N
    OBVIOUS
  <1> HIDE DEF N
  <1>1. ASSUME NEW f, NEW g, NEW l, l # N + 1 => f[l + 1] = g[l + 1]
        PROVE  ResolvedBody(f, l) = ResolvedBody(g, l)
    BY <1>0, <1>1 DEF ResolvedBody
  <1>2. 0 \in S
    <2> DEFINE f == [l \in Up(0) |-> << >>]
    <2>1. \A l \in Up(0) : l = N + 1
      BY <1>0
    <2>2. \A l \in Up(0) : ResolvedBody(f, l) = << >>
      BY <1>0, <2>1 DEF ResolvedBody
    <2>3. f = [l \in Up(0) |-> ResolvedBody(f, l)]
      BY <2>2
    <2> HIDE DEF f
    <2>4. \E g : g = [l \in Up(0) |-> ResolvedBody(g, l)]
      BY <2>3, Zenon
    <2>5. 0 \in 0..N
      BY <1>0
    <2> QED BY <2>4, <2>5, Zenon
  <1>3. ASSUME NEW m \in 1..N, m - 1 \in S PROVE m \in S
    <2>1. PICK f : f = [l \in Up(m - 1) |-> ResolvedBody(f, l)]
      BY <1>3
    <2> DEFINE o == N + 1 - m
               g == [l \in Up(m) |-> IF l = o THEN ResolvedBody(f, o) ELSE f[l]]
    <2>2. /\ \A l \in Up(m) : l = o \/ l \in Up(m - 1)
          /\ \A l \in Up(m) : l # N + 1 => l + 1 \in Up(m) /\ l + 1 # o
      BY <1>0
    <2>3. \A l \in Up(m - 1) : f[l] = ResolvedBody(f, l)
      <3> DEFINE h == [l \in Up(m - 1) |-> ResolvedBody(f, l)]
      <3>1. \A l \in Up(m - 1) : h[l] = ResolvedBody(f, l)
        OBVIOUS
      <3>2. f = h
        BY <2>1
      <3> HIDE DEF h
      <3> QED BY <3>1, <3>2
    <2> HIDE DEF Up, o
    <2>4. ASSUME NEW l \in Up(m) PROVE g[l] = ResolvedBody(g, l)
      <3>1. g[l] = ResolvedBody(f, l)
        BY <2>2, <2>3
      <3>2. l # N + 1 => f[l + 1] = g[l + 1]
        BY <2>2
      <3> HIDE DEF g
      <3> QED BY <1>1, <3>1, <3>2
    <2>5. g = [l \in Up(m) |-> g[l]]
      OBVIOUS
    <2> HIDE DEF g
    <2>6. g = [l \in Up(m) |-> ResolvedBody(g, l)]
      BY <2>4, <2>5
    <2>7. \E h : h = [l \in Up(m) |-> ResolvedBody(h, l)]
      BY <2>6, Zenon
    <2>8. m \in 0..N
      BY <1>0
    <2> QED BY <2>7, <2>8, Zenon
  <1> HIDE DEF S
  <1>4. N \in S
    BY <1>0, <1>2, <1>3, Induction
  <1>5. \E f : f = [l \in 1..N + 1 |-> ResolvedBody(f, l)]
    <2>1. Up(N) = 1..N + 1
      BY <1>0
    <2> QED BY <1>4, <2>1 DEF S
  <1> DEFINE r == CHOOSE f : f = [l \in 1..Depth + 1 |-> ResolvedBody(f, l)]
             h == [l \in 1..Depth + 1 |-> ResolvedBody(r, l)]
  <1>6. r = h
    BY <1>0, <1>5
  <1>7. ResolvedBelow = r
    BY DEF ResolvedBelow, ResolvedBody
  <1>8. \A l \in 1..Depth + 1 : h[l] = ResolvedBody(r, l)
    OBVIOUS
  <1> HIDE DEF h, r
  <1> QED BY <1>6, <1>7, <1>8

\* Segments that download to a content.
Holds(q, c) == q \in Seq(Segment) /\ DownloadBackupFile(q) = c

\* Nothing to download is an empty file.
LEMMA HoldsNothing == Holds(<< >>, << >>)
  <1>1. [i \in DOMAIN << >> |-> layers[<< >>[i].layer].data[<< >>[i].file]] = << >>
    OBVIOUS
  <1>2. FlattenSeq(<< >>) = << >>
    BY DEF FlattenSeq
  <1> QED BY <1>1, <1>2 DEF Holds, DownloadBackupFile

\* What a file has of its base, and then its own data, is its content.
LEMMA RawFileRight ==
  ASSUME HeadThere, NEW l \in 1..Len(layers), NEW f \in EntrySet(l), NEW base,
         Holds(base, SubSeq(f.checksum, 1, f.baseSize))
  PROVE  Holds(ResolveRawFile(f, l, base), f.checksum)
  <1> DEFINE c == f.checksum
             n == f.baseSize
  <1>1. CanRead(f, l)
    BY EntriesReadable DEF EntrySet, HeadThere
  <1>2. /\ c \in Seq(Nat) /\ f.size = Len(c) /\ Len(c) \in Nat /\ n \in 0..Len(c)
        /\ Len(c) > n => f.dataFile \in Names /\ layers[l].data[f.dataFile] = SubSeq(c, n + 1, Len(c))
    BY <1>1 DEF CanRead
  <1>3. base \in Seq(Segment) /\ DownloadBackupFile(base) = SubSeq(c, 1, n)
    BY DEF Holds
  <1>4. SubSeq(c, 1, Len(c)) = c
    BY <1>2
  <1>5. CASE Len(c) > n
    <2> DEFINE y == [layer |-> l, file |-> f.dataFile]
    <2>1. y \in Segment /\ DataOf(y) = SubSeq(c, n + 1, Len(c))
      BY <1>2, <1>5 DEF Segment, DataOf
    <2>2. ResolveRawFile(f, l, base) = base \o <<y>>
      BY <1>2, <1>5 DEF ResolveRawFile
    <2> HIDE DEF y
    <2>3. base \o <<y>> = Append(base, y) /\ Append(base, y) \in Seq(Segment)
      BY <1>3, <2>1, AppendIsConcat, AppendProperties
    <2>4. DownloadBackupFile(Append(base, y)) = SubSeq(c, 1, n) \o SubSeq(c, n + 1, Len(c))
      BY <1>3, <2>1, DownloadAppend
    <2>5. SubSeq(c, 1, n) \o SubSeq(c, n + 1, Len(c)) = SubSeq(c, 1, Len(c))
      <3> HIDE DEF c, n
      <3>1. 1 \in 1..Len(c) + 1 /\ n \in 1 - 1..Len(c) /\ Len(c) \in n..Len(c)
        BY <1>2
      <3> QED BY <1>2, <3>1, ConcatAdjacentSubSeq
    <2> QED BY <1>4, <2>2, <2>3, <2>4, <2>5 DEF Holds
  <1>6. CASE ~(Len(c) > n)
    <2>1. n = Len(c)
      BY <1>2, <1>6
    <2>2. ResolveRawFile(f, l, base) = base \o << >>
      BY <1>2, <1>6 DEF ResolveRawFile
    <2>3. base \o << >> = base
      BY <1>3
    <2> QED BY <1>3, <1>4, <2>1, <2>2, <2>3 DEF Holds
  <1> QED BY <1>5, <1>6

\* The base's part of a file, when the layer below is read right.
LEMMA BaseRight ==
  ASSUME HeadThere, NEW l \in 1..Len(layers), NEW f \in EntrySet(l), NEW below,
         \A k \in BaseKey(f) : Holds(below[k], k[2])
  PROVE  Holds(BaseSegments(f, below), SubSeq(f.checksum, 1, f.baseSize))
  <1>1. CanRead(f, l)
    BY EntriesReadable DEF EntrySet, HeadThere
  <1>2. CASE f.baseSize = 0
    <2>1. BaseSegments(f, below) = << >>
      BY <1>1, <1>2 DEF CanRead, BaseSegments
    <2>2. SubSeq(f.checksum, 1, 0) = << >>
      BY <1>1 DEF CanRead
    <2> QED BY <1>2, <2>1, <2>2, HoldsNothing
  <1>3. CASE f.baseSize # 0
    <2> DEFINE key == <<f.baseSize, SubSeq(f.checksum, 1, f.baseSize)>>
    <2>1. f.baseSize > 0
      BY <1>1, <1>3 DEF CanRead
    <2>2. BaseKey(f) = {key}
      BY <1>1, <2>1 DEF CanRead
    <2>3. key[2] = SubSeq(f.checksum, 1, f.baseSize)
      OBVIOUS
    <2> HIDE DEF key
    <2>4. BaseSegments(f, below) = below[key]
      BY <2>2 DEF BaseSegments
    <2> QED BY <2>2, <2>3, <2>4
  <1> QED BY <1>2, <1>3

\* What is asked of a layer is put together right, from the oldest layer up.
LEMMA LayersRight ==
  ASSUME HeadThere
  PROVE  \A l \in 2..Depth + 1 : \A k \in Required(l) : Holds(ResolvedBelow[l][k], k[2])
  <1> DEFINE N == Depth - 1
             S == {m \in 0..N : \A k \in Required(Depth + 1 - m) :
                                  Holds(ResolvedBelow[Depth + 1 - m][k], k[2])}
  <1>1. Depth = Len(layers) /\ Depth \in Nat /\ N \in Nat
    BY HeadFacts DEF Depth
  <1>2. 0 \in S
    <2>1. Depth + 1 - 0 = Depth + 1 /\ 0 \in 0..N /\ Depth + 1 \in 2..Depth + 1 /\ ~(Depth + 1 <= Depth)
      BY <1>1
    <2>2. Required(Depth + 1) = {}
      BY <1>1, <2>1, RequiredListed
    <2> QED BY <2>1, <2>2
  <1>3. ASSUME NEW m \in 1..N, m - 1 \in S PROVE m \in S
    <2> DEFINE l == Depth + 1 - m
    <2>1. /\ l \in 2..Depth /\ l \in 1..Depth + 1 /\ l \in 1..Depth /\ l # Depth + 1 /\ l + 1 # 2
          /\ l + 1 = Depth + 1 - (m - 1) /\ (l + 1) - 1 = l /\ m \in 0..N
      BY <1>1
    <2>2. \A k \in Required(l + 1) : Holds(ResolvedBelow[l + 1][k], k[2])
      BY <1>3, <2>1
    <2> HIDE DEF l
    <2>3. ASSUME NEW k \in Required(l) PROVE Holds(ResolvedBelow[l][k], k[2])
      <3> DEFINE f == Matches[l][k]
      <3>1. k \in DOMAIN Matches[l] /\ f \in EntrySet(l) /\ f.checksum = k[2]
        <4>1. l \in 2..Len(layers)
          BY <1>1, <2>1
        <4>2. k \in DOMAIN Matches[l]
          BY <4>1, MatchesDomain
        <4>3. f \in EntrySet(l) /\ <<f.size, f.checksum>> = k
          BY <4>1, <4>2, MatchesDomain
        <4> QED BY <4>2, <4>3
      <3>2. BaseKey(f) \subseteq Required(l + 1)
        <4>1. Required(l + 1) = Needs({Matches[l][j] : j \in DOMAIN Matches[l]})
          BY <2>1 DEF Required
        <4> QED BY <3>1, <4>1 DEF Needs
      <3>3. ResolvedBelow[l][k] = ResolveRawFile(f, l, BaseSegments(f, ResolvedBelow[l + 1]))
        <4>1. ResolvedBelow[l] = ResolvedBody(ResolvedBelow, l)
          BY <1>1, <2>1, ResolvedEquation
        <4>2. ResolvedBody(ResolvedBelow, l) =
                [j \in DOMAIN Matches[l] |->
                   ResolveRawFile(Matches[l][j], l, BaseSegments(Matches[l][j], ResolvedBelow[l + 1]))]
          BY <2>1 DEF ResolvedBody
        <4> QED BY <3>1, <4>1, <4>2
      <3> HIDE DEF f
      <3>4. Holds(BaseSegments(f, ResolvedBelow[l + 1]), SubSeq(f.checksum, 1, f.baseSize))
        BY <1>1, <2>1, <2>2, <3>1, <3>2, BaseRight
      <3>5. Holds(ResolveRawFile(f, l, BaseSegments(f, ResolvedBelow[l + 1])), f.checksum)
        BY <1>1, <2>1, <3>1, <3>4, RawFileRight
      <3> QED BY <3>1, <3>3, <3>5
    <2> QED BY <2>1, <2>3 DEF l
  <1>4. \A m \in 0..N : m \in S
    <2> HIDE DEF S, N
    <2> QED BY <1>1, <1>2, <1>3, Induction
  <1>5. ASSUME NEW l \in 2..Depth + 1, NEW k \in Required(l) PROVE Holds(ResolvedBelow[l][k], k[2])
    <2>1. Depth + 1 - l \in 0..N /\ Depth + 1 - (Depth + 1 - l) = l
      BY <1>1
    <2>2. Depth + 1 - l \in S
      BY <1>4, <2>1
    <2> QED BY <2>1, <2>2
  <1> QED BY <1>5

\* Every file of the plan downloads to what was backed up.
LEMMA ResolvedRight == BackupKept => ResolvedIsContent
  <1> SUFFICES ASSUME HeadThere, NEW f \in HeadFiles
               PROVE  DownloadBackupFile(Resolved[f]) = layers[1].content[f.name]
    BY DEF BackupKept, HeadThere, ResolvedIsContent
  <1>1. Depth = Len(layers) /\ Depth \in Nat /\ 1 \in 1..Len(layers) /\ 2 \in 2..Depth + 1
    BY HeadFacts DEF Depth
  <1>2. f \in EntrySet(1)
    BY HeadFilesListed
  <1>3. BaseKey(f) \subseteq Required(2)
    BY DEF Required, Needs
  <1>4. \A k \in BaseKey(f) : Holds(ResolvedBelow[2][k], k[2])
    BY <1>1, <1>3, LayersRight
  <1>5. Resolved[f] = ResolveRawFile(f, 1, BaseSegments(f, ResolvedBelow[2]))
    BY DEF Resolved
  <1>6. Holds(BaseSegments(f, ResolvedBelow[2]), SubSeq(f.checksum, 1, f.baseSize))
    BY <1>1, <1>2, <1>4, BaseRight
  <1>7. Holds(Resolved[f], f.checksum)
    BY <1>1, <1>2, <1>5, <1>6, RawFileRight
  <1>8. CanRead(f, 1)
    BY <1>1, <1>2, EntriesReadable DEF EntrySet, HeadThere
  <1> QED BY <1>7, <1>8 DEF Holds, CanRead

\* The backups are kept by every step: they are taken, forgotten or left alone.
LEMMA BackupKeptNext == BackupKept /\ [Next]_vars => BackupKept'
  <1> SUFFICES ASSUME BackupKept, [Next]_vars PROVE BackupKept'
    OBVIOUS
  <1>1. CASE UNCHANGED backup
    <2>1. UNCHANGED <<table, layers>>
      BY <1>1 DEF backup
    <2>2. UNCHANGED <<Names, Slot, Contents, Reused, LayerSet>>
      BY <2>1 DEF Names, Slot, Content, Contents, Reused, LayerSet, Layer, Index
    <2>3. \A c \in Contents, r \in Reused : Layer(c, r)' = Layer(c, r)
      BY <2>1 DEF Layer, Index, Names, Slot
    <2>4. \A layer, c : Has(layer, c)' <=> Has(layer, c)
      BY <2>2 DEF Has
    <2>5. \A l, c, r : Legal(l, c, r) => Legal(l, c, r)'
      BY <2>1, <2>2, <2>4 DEF Legal
    <2>6. Chained => Chained'
      BY <2>1, <2>2, <2>3, <2>5 DEF Chained
    <2> QED BY <2>1, <2>2, <2>6 DEF BackupKept
  <1>2. CASE TakeBackup
    BY <1>2, TakeBackupKept
  <1>3. CASE ForgetBackup
    BY <1>3 DEF ForgetBackup, BackupKept
  <1> QED BY <1>1, <1>2, <1>3 DEF Next, Backing, BeginUpload, vars

\* upload-backup reads the table as it was backed up, whatever ClickHouse has put
\* into which layer, for any table, any number of layers and any encoding: each
\* part once and whole, every file of it found, and put together from the layers
\* to the content that was backed up.
THEOREM BackupsAreReadExactly == Spec => []BackupReadExactly
  <1>1. Init => BackupKept
    <2> SUFFICES ASSUME BackupInit PROVE BackupKept
      BY DEF Init
    <2>1. layers \in Seq(LayerSet) /\ Len(layers) = 0
      BY DEF BackupInit
    <2>2. Chained
      BY <2>1 DEF Chained
    <2> QED BY <2>1, <2>2 DEF BackupInit, BackupKept
  <1>2. BackupKept => BackupReadExactly
    BY ChainResolvesHolds, PartsOnceHolds, ResolvedRight DEF BackupReadExactly
  <1> QED BY <1>1, <1>2, BackupKeptNext, PTL DEF Spec
=============================================================================
