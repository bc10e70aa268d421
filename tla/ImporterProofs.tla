--------------------------- MODULE ImporterProofs ---------------------------
(* Proofs about import-finished, for any number of commands, artifacts and  *)
(* part names.                                                              *)
EXTENDS Importer, FiniteSetTheorems, WellFoundedInduction, TLAPS

-----------------------------------------------------------------------------
(* The inductive invariant.                                                 *)

Command ==
  [pc : {"none", "check", "next", "download", "extract", "move", "attach"},
   todo : SUBSET Artifact, begun : 0..Len(PartsOf), artifact : Artifact \cup {NoArtifact},
   left : SUBSET Name, moved : SUBSET Name]

Typed ==
  /\ status \in [Artifact -> {"FINISHED", "IMPORTING", "IMPORTED", "FAILED"}]
  /\ data \in [Artifact -> Directory] /\ extracted \in [Artifact -> Directory]
  /\ detached \in Directory
  /\ attached \in [Part -> Nat]
  /\ run \in [Importer -> Command]
  /\ runs \in 0..MaxRuns /\ requireEmpty \in BOOLEAN /\ overlapped \in BOOLEAN

\* A command never begins more artifacts than it has selected, so that each of
\* them has a work directory of its own.
Counts(i) ==
  /\ run[i].artifact # NoArtifact <=> Importing(i)
  /\ run[i].begun + Cardinality(run[i].todo) <= Len(PartsOf)
  /\ Importing(i) => run[i].begun # 0
  /\ run[i].pc \in {"check", "next"} => run[i].todo # {}

Counted == \A i \in Importer : Counts(i)

\* Work directories hold parts of artifacts only.
OwnParts(dir) == \A d \in Artifact : \A n \in NamesIn(dir[d]) : n \in PartsOf[dir[d][n]]

Unpacked == OwnParts(data) /\ OwnParts(extracted)

\* A row that a command works on is IMPORTING.
Held ==
  /\ \A i \in Importer : Importing(i) => status[run[i].artifact] = "IMPORTING"
  /\ OneImporter

Sole == ~overlapped => \A i, x \in Importer : Running(i) /\ Running(x) => i = x

Clean(d) == data[d] = EmptyDir /\ extracted[d] = EmptyDir

\* The parts of artifact a with these names.
Holding(a, names) == [n \in Name |-> IF n \in names THEN a ELSE NoArtifact]

\* Where the parts of the current artifact are, when no other command interferes:
\* packed in the work directory, unpacked there, in detached or in the table.
Worked(i) ==
  LET a == run[i].artifact
      d == run[i].begun
  IN /\ run[i].pc \in {"next", "download"} => \A e \in Artifact : Clean(e)
     /\ Importing(i) => \A e \in Artifact \ {d} : Clean(e)
     /\ a \notin run[i].todo
     /\ run[i].pc # "attach" => run[i].moved = {}
     /\ run[i].pc \notin {"move", "attach"} => run[i].left = {}
     /\ run[i].pc = "extract" => data[d] = Holding(a, PartsOf[a]) /\ extracted[d] = EmptyDir
     /\ run[i].pc \in {"move", "attach"} =>
          /\ run[i].left \subseteq PartsOf[a]
          /\ extracted[d] = Holding(a, run[i].left)
          /\ \A n \in PartsOf[a] \ (run[i].left \cup run[i].moved) : attached[<<a, n>>] >= 1
     /\ run[i].pc = "attach" =>
          \E n \in PartsOf[a] \ run[i].left : run[i].moved = {n} /\ detached[n] = a

Working == ~overlapped => \A i \in Importer : Worked(i)

\* What the command has still to attach is not in the table, which was empty
\* when it began.
Missing(i) ==
  LET a == run[i].artifact
  IN /\ run[i].pc \notin {"none", "check"} =>
          \A b \in run[i].todo : \A n \in PartsOf[b] : attached[<<b, n>>] = 0
     /\ run[i].pc \in {"download", "extract"} => \A n \in PartsOf[a] : attached[<<a, n>>] = 0
     /\ run[i].pc \in {"move", "attach"} =>
          \A n \in run[i].left \cup run[i].moved : attached[<<a, n>>] = 0

Unattached == requireEmpty /\ ~overlapped => \A i \in Importer : Missing(i)

IInv ==
  /\ Typed /\ Counted /\ Unpacked /\ Held /\ Sole /\ Working /\ Unattached
  /\ AttachedOnce /\ ImportedMeansAttached

-----------------------------------------------------------------------------
(* Lemmas about the operators.                                              *)

\* Artifacts are numbered, and their parts are named within them.
LEMMA ArtifactFacts ==
  /\ Len(PartsOf) \in Nat /\ Artifact = 1..Len(PartsOf) /\ NoArtifact \notin Artifact
  /\ \A a \in Artifact : PartsOf[a] \subseteq Name
  /\ \A a \in Artifact : \A n \in PartsOf[a] : <<a, n>> \in Part
  /\ \A p \in Part : p[1] \in Artifact /\ p[2] \in PartsOf[p[1]] /\ p = <<p[1], p[2]>>
  <1>1. /\ Len(PartsOf) \in Nat /\ Artifact = 1..Len(PartsOf)
        /\ \A a \in Artifact : PartsOf[a] \subseteq Name
    BY ImporterAssumption DEF ImporterAssumption, Artifact
  <1>2. NoArtifact \notin Artifact
    BY <1>1 DEF NoArtifact
  <1>3. \A a \in Artifact : \A n \in PartsOf[a] : <<a, n>> \in Part
    BY <1>1 DEF Part
  <1>4. \A p \in Part : p[1] \in Artifact /\ p[2] \in PartsOf[p[1]] /\ p = <<p[1], p[2]>>
    BY DEF Part
  <1> QED BY <1>1, <1>2, <1>3, <1>4

\* Empty directories hold nothing.
LEMMA DirectoryFacts ==
  /\ EmptyDir \in Directory /\ NamesIn(EmptyDir) = {}
  /\ NoFiles \in [Artifact -> Directory] /\ OwnParts(NoFiles)
  /\ \A d \in Artifact : NoFiles[d] = EmptyDir
  BY DEF EmptyDir, Directory, NamesIn, NoFiles, OwnParts

\* The artifact a command takes next is one it has selected.
LEMMA MinSelected ==
  ASSUME NEW S \in SUBSET Nat, S # {}
  PROVE  Min(S) \in S
  <1>1. \E x \in S : \A y \in S : ~ (<<y, x>> \in OpToRel(<, Nat))
    BY NatLessThanWellFounded, WFMin
  <1>2. \A x, y \in Nat : y < x => <<y, x>> \in OpToRel(<, Nat)
    BY DEF OpToRel
  <1>3. PICK x \in S : \A y \in S : ~ (<<y, x>> \in OpToRel(<, Nat))
    BY <1>1
  <1>4. \A y \in S : ~(y < x)
    BY <1>2, <1>3
  <1>5. \A y \in S : x <= y
    BY <1>4
  <1> QED BY <1>5 DEF Min

\* A set of artifacts is finite and shrinks by one with each that is taken out.
LEMMA TodoFinite ==
  ASSUME NEW S \in SUBSET Artifact
  PROVE  /\ IsFiniteSet(S) /\ Cardinality(S) \in Nat /\ Cardinality(S) <= Len(PartsOf)
         /\ \A a \in S : Cardinality(S \ {a}) = Cardinality(S) - 1
         /\ S # {} => Cardinality(S) # 0
  <1>1. IsFiniteSet(Artifact) /\ Cardinality(Artifact) = Len(PartsOf)
    BY ArtifactFacts, FS_Interval
  <1>2. IsFiniteSet(S) /\ Cardinality(S) <= Len(PartsOf)
    BY <1>1, FS_Subset
  <1> QED BY <1>2, FS_CardinalityType, FS_RemoveElement, FS_EmptySet

\* The value that stands for no command has the type of one.
LEMMA NoCommandType ==
  /\ NoCommand \in Command /\ NoCommand.pc = "none" /\ NoCommand.todo = {}
  /\ NoCommand.begun = 0 /\ NoCommand.artifact = NoArtifact
  /\ NoCommand.left = {} /\ NoCommand.moved = {}
  BY ArtifactFacts DEF NoCommand, Command

\* One command changes.
LEMMA CommandChanges ==
  ASSUME Typed, NEW i \in Importer, NEW c \in Command, run' = [run EXCEPT ![i] = c]
  PROVE  /\ run' \in [Importer -> Command] /\ run'[i] = c
         /\ \A x \in Importer \ {i} : run'[x] = run[x]
  BY DEF Typed

-----------------------------------------------------------------------------
(* The invariant, action by action.                                         *)

\* Without overlap the other commands are over.
LEMMA OthersOver ==
  ASSUME IInv, ~overlapped, NEW i \in Importer, Running(i)
  PROVE  \A x \in Importer \ {i} : run[x].pc = "none" /\ Worked(x)
  BY DEF IInv, Sole, Running, Working

\* A step of a running command that changes at most the row it holds or takes,
\* and keeps its own account right, keeps the invariant.
LEMMA OneCommandSteps ==
  ASSUME IInv, NEW i \in Importer, Running(i), Typed', UNCHANGED <<runs, requireEmpty, overlapped>>,
         \A x \in Importer \ {i} : run'[x] = run[x],
         Counts(i)', Unpacked',
         Importing(i)' => /\ status'[run'[i].artifact] = "IMPORTING"
                          /\ \/ Importing(i) /\ run'[i].artifact = run[i].artifact
                             \/ status[run'[i].artifact] = "FINISHED",
         \A a \in Artifact : \/ status'[a] = status[a]
                             \/ Importing(i) /\ a = run[i].artifact
                             \/ status[a] = "FINISHED",
         ~overlapped => Worked(i)', requireEmpty /\ ~overlapped => Missing(i)',
         AttachedOnce', ImportedMeansAttached'
  PROVE  IInv'
  <1>1. Counted'
    BY DEF IInv, Counted, Counts, Importing
  <1>2. \A x \in Importer \ {i} : /\ Importing(x)' <=> Importing(x)
                                  /\ Running(x)' <=> Running(x)
    BY DEF Importing, Running
  <1>3. \A x \in Importer \ {i} : Importing(x) =>
          /\ run[x].artifact \in Artifact /\ status[run[x].artifact] = "IMPORTING"
          /\ status'[run[x].artifact] = "IMPORTING"
    <2> SUFFICES ASSUME NEW x \in Importer \ {i}, Importing(x)
                 PROVE  /\ run[x].artifact \in Artifact /\ status[run[x].artifact] = "IMPORTING"
                        /\ status'[run[x].artifact] = "IMPORTING"
      OBVIOUS
    <2>1. run[x].artifact \in Artifact /\ status[run[x].artifact] = "IMPORTING"
      BY DEF IInv, Held, Counted, Counts, Typed, Command
    <2>2. ~(Importing(i) /\ run[x].artifact = run[i].artifact)
      BY DEF IInv, Held, OneImporter
    <2> QED BY <2>1, <2>2
  <1>4. \A x \in Importer \ {i} : Importing(x) /\ Importing(i)' =>
          run[x].artifact # run'[i].artifact
    BY <1>3 DEF IInv, Held, OneImporter
  <1>5. \A x \in Importer : Importing(x)' => status'[run'[x].artifact] = "IMPORTING"
    BY <1>2, <1>3
  <1>6. OneImporter'
    BY <1>2, <1>4 DEF IInv, Held, OneImporter
  <1>7. Sole'
    BY <1>2 DEF IInv, Sole
  <1>8. Working'
    <2> SUFFICES ASSUME ~overlapped, NEW x \in Importer \ {i} PROVE Worked(x)'
      BY DEF Working
    <2>1. run'[x] = run[x] /\ run[x].pc = "none" /\ Worked(x)
      BY OthersOver
    <2> QED BY <2>1 DEF Worked, Importing
  <1>9. Unattached'
    <2> SUFFICES ASSUME ~overlapped, NEW x \in Importer \ {i} PROVE Missing(x)'
      BY DEF Unattached
    <2>1. run'[x] = run[x] /\ run[x].pc = "none"
      BY OthersOver
    <2> QED BY <2>1 DEF Missing
  <1> QED BY <1>1, <1>5, <1>6, <1>7, <1>8, <1>9 DEF IInv, Held

\* What ATTACH PART does to the table.
LEMMA AttachedFacts ==
  ASSUME Typed, NEW n \in Name, Attached(n), NEW t, t = <<detached[n], n>>
  PROVE  /\ attached' \in [Part -> Nat] /\ detached' \in Directory
         /\ \A p \in Part : /\ attached'[p] >= attached[p]
                            /\ p # t => attached'[p] = attached[p]
                            /\ p = t => attached'[p] = attached[p] + 1
  <1>2. attached' = [attached EXCEPT ![t] = attached[t] + 1] /\ attached \in [Part -> Nat]
    BY DEF Attached, Typed
  <1>3. detached' \in Directory
    BY DEF Typed, Attached, Directory
  <1>a. attached' = [p \in Part |-> IF p = t THEN attached[t] + 1 ELSE attached[p]]
    BY <1>2, Zenon
  <1>b. \A p \in Part : attached[p] \in Nat
    BY <1>2
  <1>4. attached' \in [Part -> Nat]
    BY <1>a, <1>b
  <1>5. \A p \in Part : /\ attached'[p] >= attached[p]
                        /\ p # t => attached'[p] = attached[p]
                        /\ p = t => attached'[p] = attached[p] + 1
    <2> TAKE p \in Part
    <2>1. attached[p] \in Nat
      BY <1>b
    <2>2. CASE p = t
      <3>1. attached'[p] = attached[p] + 1
        BY <1>a, <2>2
      <3> QED BY <2>1, <2>2, <3>1
    <2>3. CASE p # t
      <3>1. attached'[p] = attached[p]
        BY <1>a, <2>3
      <3> QED BY <2>1, <2>3, <3>1
    <2> QED BY <2>2, <2>3
  <1> QED BY <1>3, <1>4, <1>5

\* A command that ends, with or without an error, changes the row it holds at
\* most; it may have attached the part that was in detached.
LEMMA EndPreserves ==
  ASSUME IInv, NEW i \in Importer, Running(i), UNCHANGED <<runs, requireEmpty, overlapped>>,
         run' = [run EXCEPT ![i] = NoCommand],
         RemoveWork \/ UNCHANGED <<data, extracted>>,
         \/ UNCHANGED <<detached, attached>>
         \/ Importing(i) /\ \E n \in run[i].moved : Attached(n),
         \/ UNCHANGED status
         \/ /\ Importing(i)
            /\ \E st \in {"FINISHED", "FAILED", "IMPORTED"} :
                 status' = [status EXCEPT ![run[i].artifact] = st],
         Importing(i) /\ status'[run[i].artifact] = "IMPORTED" /\ ~overlapped =>
           \A n \in PartsOf[run[i].artifact] : attached[<<run[i].artifact, n>>] >= 1
  PROVE  IInv'
  <1>1. /\ run' \in [Importer -> Command] /\ run'[i] = NoCommand
        /\ \A x \in Importer \ {i} : run'[x] = run[x]
    BY CommandChanges, NoCommandType DEF IInv
  <1>2. /\ data' \in [Artifact -> Directory] /\ extracted' \in [Artifact -> Directory]
        /\ Unpacked'
    BY DirectoryFacts DEF IInv, Typed, RemoveWork, Unpacked, OwnParts
  <1>3. run[i].moved \subseteq Name
    BY DEF IInv, Typed, Command
  <1>4. /\ attached' \in [Part -> Nat] /\ detached' \in Directory
        /\ \A p \in Part : attached'[p] >= attached[p]
    <2>1. CASE UNCHANGED <<detached, attached>>
      BY <2>1 DEF IInv, Typed
    <2>2. ASSUME NEW n \in run[i].moved, Attached(n)
          PROVE  /\ attached' \in [Part -> Nat] /\ detached' \in Directory
                 /\ \A p \in Part : attached'[p] >= attached[p]
      BY <1>3, <2>2, AttachedFacts DEF IInv
    <2> QED BY <2>1, <2>2
  <1>5. /\ status' \in [Artifact -> {"FINISHED", "IMPORTING", "IMPORTED", "FAILED"}]
        /\ \A a \in Artifact : \/ status'[a] = status[a]
                               \/ Importing(i) /\ a = run[i].artifact
    BY DEF IInv, Typed
  <1>6. Typed'
    BY <1>1, <1>2, <1>4, <1>5 DEF IInv, Typed
  <1>7. ~Importing(i)' /\ Counts(i)'
    <2>1. run'[i].pc = "none" /\ run'[i].todo = {} /\ run'[i].begun = 0
          /\ run'[i].artifact = NoArtifact
      BY <1>1, NoCommandType
    <2>2. 0 + Cardinality({}) <= Len(PartsOf)
      BY FS_EmptySet, ArtifactFacts
    <2> QED BY <2>1, <2>2 DEF Importing, Counts
  <1>8. Worked(i)' /\ Missing(i)'
    BY <1>1, <1>7, NoCommandType DEF Worked, Missing
  <1>9. AttachedOnce'
    <2> SUFFICES ASSUME requireEmpty, ~overlapped, NEW p \in Part PROVE attached'[p] <= 1
      BY DEF AttachedOnce
    <2>1. CASE UNCHANGED attached
      BY <2>1 DEF IInv, AttachedOnce
    <2>2. ASSUME Importing(i), NEW n \in run[i].moved, Attached(n) PROVE attached'[p] <= 1
      <3>1. Worked(i) /\ Missing(i)
        BY DEF IInv, Working, Unattached
      <3>2. run[i].pc = "attach" /\ detached[n] = run[i].artifact
        BY <2>2, <3>1 DEF Worked
      <3>3. attached[<<detached[n], n>>] = 0
        BY <2>2, <3>1, <3>2 DEF Missing
      <3>4. attached[p] \in Nat /\ attached[p] <= 1
        BY DEF IInv, Typed, AttachedOnce
      <3> QED BY <1>3, <2>2, <3>3, <3>4, AttachedFacts DEF IInv
    <2> QED BY <2>1, <2>2
  <1>10. ImportedMeansAttached'
    <2> SUFFICES ASSUME ~overlapped, NEW a \in Artifact, status'[a] = "IMPORTED",
                        NEW n \in PartsOf[a]
                 PROVE  attached'[<<a, n>>] >= 1
      BY DEF ImportedMeansAttached
    <2>1. attached[<<a, n>>] >= 1 /\ <<a, n>> \in Part
      BY <1>5, ArtifactFacts DEF IInv, ImportedMeansAttached
    <2>2. attached[<<a, n>>] \in Nat /\ attached'[<<a, n>>] \in Nat
      BY <1>4, <2>1 DEF IInv, Typed
    <2> QED BY <1>4, <2>1, <2>2
  <1> QED BY <1>1, <1>2, <1>5, <1>6, <1>7, <1>8, <1>9, <1>10, OneCommandSteps

\* A command starts: it is alone or remembered as overlapping.
LEMMA ListFinishedPartsPreserves ==
  ASSUME IInv, NEW i \in Importer, ListFinishedParts(i)
  PROVE  IInv'
  <1>1. PICK S \in SUBSET Artifact :
          /\ S # {}
          /\ run' = [run EXCEPT ![i] = [NoCommand EXCEPT !.pc = "check", !.todo = S]]
    BY DEF ListFinishedParts
  <1>2. /\ ~Running(i) /\ runs' = runs + 1 /\ runs < MaxRuns
        /\ overlapped' = (overlapped \/ \E x \in Importer : Running(x))
        /\ UNCHANGED <<status, data, extracted, detached, attached, requireEmpty>>
    BY DEF ListFinishedParts, files
  <1> DEFINE c == [NoCommand EXCEPT !.pc = "check", !.todo = S]
  <1>3. /\ c \in Command /\ c.pc = "check" /\ c.todo = S /\ c.begun = 0
        /\ c.artifact = NoArtifact /\ c.left = {} /\ c.moved = {}
    BY NoCommandType DEF Command
  <1> HIDE DEF c
  <1>4. /\ run' \in [Importer -> Command] /\ run'[i] = c
        /\ \A x \in Importer \ {i} : run'[x] = run[x]
    BY <1>1, <1>3, CommandChanges DEF IInv, c
  <1>5. runs' \in 0..MaxRuns /\ overlapped' \in BOOLEAN
    BY <1>2, ImporterAssumption DEF IInv, Typed, ImporterAssumption
  <1>6. Typed'
    BY <1>2, <1>4, <1>5 DEF IInv, Typed
  <1>7. Counts(i)' /\ ~Importing(i)'
    <2>1. 0 + Cardinality(S) <= Len(PartsOf)
      BY TodoFinite, ArtifactFacts
    <2> QED BY <1>1, <1>3, <1>4, <2>1 DEF Counts, Importing
  <1>8. \A x \in Importer \ {i} : /\ Importing(x)' <=> Importing(x)
                                  /\ Counts(x)' <=> Counts(x)
    BY <1>4 DEF Importing, Counts
  <1>9. Counted' /\ Unpacked'
    BY <1>2, <1>7, <1>8 DEF IInv, Counted, Unpacked, OwnParts
  <1>10. Held'
    BY <1>2, <1>4, <1>7, <1>8 DEF IInv, Held, OneImporter
  <1>11. ~overlapped' => ~overlapped /\ \A x \in Importer : run[x].pc = "none"
    BY <1>2 DEF Running
  <1>12. Sole'
    BY <1>4, <1>11 DEF Sole, Running
  <1>13. Working'
    <2> SUFFICES ASSUME ~overlapped', NEW x \in Importer PROVE Worked(x)'
      BY DEF Working
    <2>1. CASE x = i
      BY <1>3, <1>4, <1>7, <2>1, ArtifactFacts DEF Worked
    <2>2. CASE x # i
      <3>1. run'[x] = run[x] /\ run[x].pc = "none" /\ Worked(x)
        BY <1>4, <1>11, <2>2 DEF IInv, Working
      <3> QED BY <3>1 DEF Worked, Importing
    <2> QED BY <2>1, <2>2
  <1>14. Unattached'
    BY <1>3, <1>4, <1>11 DEF Unattached, Missing
  <1>15. AttachedOnce' /\ ImportedMeansAttached'
    BY <1>2, <1>11 DEF IInv, AttachedOnce, ImportedMeansAttached
  <1> QED BY <1>6, <1>9, <1>10, <1>12, <1>13, <1>14, <1>15 DEF IInv

\* The work directory is emptied, and with -require-empty the table is empty.
LEMMA PrepareDestinationPreserves ==
  ASSUME IInv, NEW i \in Importer, PrepareDestination(i)
  PROVE  IInv'
  <1>1. /\ run[i].pc = "check" /\ (requireEmpty => TableEmpty)
        /\ run' = [run EXCEPT ![i].pc = "next"]
        /\ data' = NoFiles /\ extracted' = NoFiles
        /\ UNCHANGED <<status, detached, attached, runs, requireEmpty, overlapped>>
    BY DEF PrepareDestination, RemoveWork, commands
  <1> DEFINE c == [run[i] EXCEPT !.pc = "next"]
  <1>2. /\ c \in Command /\ c.pc = "next" /\ c.todo = run[i].todo /\ c.begun = run[i].begun
        /\ c.artifact = run[i].artifact /\ c.left = run[i].left /\ c.moved = run[i].moved
    BY DEF IInv, Typed, Command
  <1>3. run' = [run EXCEPT ![i] = c]
    BY <1>1 DEF IInv, Typed
  <1> HIDE DEF c
  <1>4. /\ run' \in [Importer -> Command] /\ run'[i] = c
        /\ \A x \in Importer \ {i} : run'[x] = run[x]
    BY <1>2, <1>3, CommandChanges DEF IInv
  <1>5. Typed' /\ Unpacked' /\ \A d \in Artifact : Clean(d)'
    BY <1>1, <1>4, DirectoryFacts DEF IInv, Typed, Unpacked, OwnParts, Clean
  <1>6. Running(i) /\ ~Importing(i) /\ ~Importing(i)' /\ Counts(i)'
    BY <1>1, <1>2, <1>4 DEF IInv, Running, Importing, Counted, Counts
  <1>7. ~overlapped => Worked(i)'
    BY <1>1, <1>2, <1>4, <1>5, <1>6 DEF IInv, Working, Worked
  <1>8. requireEmpty => Missing(i)'
    <2> SUFFICES ASSUME requireEmpty PROVE Missing(i)'
      OBVIOUS
    <2>1. run[i].todo \subseteq Artifact
      BY DEF IInv, Typed, Command
    <2>2. \A b \in run[i].todo : \A n \in PartsOf[b] : attached[<<b, n>>] = 0
      BY <1>1, <2>1, ArtifactFacts DEF TableEmpty
    <2> QED BY <1>1, <1>2, <1>4, <2>2 DEF Missing
  <1>9. AttachedOnce' /\ ImportedMeansAttached'
    BY <1>1 DEF IInv, AttachedOnce, ImportedMeansAttached
  <1> QED BY <1>1, <1>4, <1>5, <1>6, <1>7, <1>8, <1>9, OneCommandSteps

\* A row that is still FINISHED is taken; its parts are not in the table yet.
LEMMA MarkImportingPreserves ==
  ASSUME IInv, NEW i \in Importer, MarkImporting(i)
  PROVE  IInv'
  <1> DEFINE a == Min(run[i].todo)
  <1>1. run[i].pc = "next" /\ UNCHANGED <<detached, attached, runs, requireEmpty, overlapped>>
    BY DEF MarkImporting, commands
  <1>2. Running(i) /\ ~Importing(i) /\ run[i].todo # {} /\ run[i].todo \in SUBSET Artifact
    BY <1>1 DEF IInv, Counted, Counts, Typed, Command, Running, Importing
  <1>3. a \in run[i].todo /\ a \in Artifact
    BY <1>2, MinSelected, ArtifactFacts
  <1>4. CASE status[a] # "FINISHED"
    <2>1. run' = [run EXCEPT ![i] = NoCommand] /\ RemoveWork /\ UNCHANGED status
      BY <1>4 DEF MarkImporting, Ends
    <2> QED BY <1>1, <1>2, <2>1, EndPreserves
  <1>5. CASE status[a] = "FINISHED"
    <2>1. /\ status' = [status EXCEPT ![a] = "IMPORTING"]
          /\ run' = [run EXCEPT ![i].pc = "download", ![i].artifact = a,
                                ![i].todo = run[i].todo \ {a}, ![i].begun = run[i].begun + 1]
          /\ UNCHANGED <<data, extracted>>
      BY <1>5 DEF MarkImporting, files, IInv, Typed
    <2> HIDE DEF a
    <2> DEFINE c == [run[i] EXCEPT !.pc = "download", !.artifact = a,
                                   !.todo = run[i].todo \ {a}, !.begun = run[i].begun + 1]
    <2>2. /\ run[i].begun \in Nat /\ run[i].begun + Cardinality(run[i].todo) <= Len(PartsOf)
          /\ Cardinality(run[i].todo) \in Nat /\ Cardinality(run[i].todo) # 0
          /\ Cardinality(run[i].todo \ {a}) = Cardinality(run[i].todo) - 1
      <3>1. run[i].begun \in Nat /\ run[i].begun + Cardinality(run[i].todo) <= Len(PartsOf)
        BY ArtifactFacts DEF IInv, Counted, Counts, Typed, Command
      <3>2. /\ Cardinality(run[i].todo) \in Nat /\ Cardinality(run[i].todo) # 0
            /\ Cardinality(run[i].todo \ {a}) = Cardinality(run[i].todo) - 1
        BY <1>2, <1>3, TodoFinite
      <3> QED BY <3>1, <3>2
    <2>3. run[i].begun + 1 \in 0..Len(PartsOf)
      BY <2>2, ArtifactFacts
    <2>4. /\ c \in Command /\ c.pc = "download" /\ c.todo = run[i].todo \ {a}
          /\ c.begun = run[i].begun + 1 /\ c.artifact = a /\ c.left = run[i].left
          /\ c.moved = run[i].moved
      BY <1>2, <1>3, <2>3 DEF IInv, Typed, Command
    <2>5. run' = [run EXCEPT ![i] = c]
      BY <2>1 DEF IInv, Typed
    <2> HIDE DEF c
    <2>6. /\ run' \in [Importer -> Command] /\ run'[i] = c
          /\ \A x \in Importer \ {i} : run'[x] = run[x]
      BY <2>4, <2>5, CommandChanges DEF IInv
    <2>7. /\ status' \in [Artifact -> {"FINISHED", "IMPORTING", "IMPORTED", "FAILED"}]
          /\ status'[a] = "IMPORTING" /\ \A b \in Artifact \ {a} : status'[b] = status[b]
      BY <1>3, <2>1 DEF IInv, Typed
    <2>8. Typed' /\ Unpacked'
      BY <1>1, <2>1, <2>6, <2>7 DEF IInv, Typed, Unpacked, OwnParts
    <2>9. Counts(i)'
      <3>1. run[i].begun + 1 + (Cardinality(run[i].todo) - 1) <= Len(PartsOf)
            /\ run[i].begun + 1 # 0
        BY <2>2, ArtifactFacts
      <3> QED BY <1>3, <2>2, <2>4, <2>6, <3>1, ArtifactFacts DEF Counts, Importing
    <2>10. ~overlapped => Worked(i)'
      <3> SUFFICES ASSUME ~overlapped PROVE Worked(i)'
        OBVIOUS
      <3>1. run[i].left = {} /\ run[i].moved = {} /\ \A e \in Artifact : Clean(e)'
        BY <1>1, <2>1 DEF IInv, Working, Worked, Clean
      <3> QED BY <2>4, <2>6, <3>1 DEF Worked
    <2>11. requireEmpty /\ ~overlapped => Missing(i)'
      BY <1>1, <1>3, <2>4, <2>6 DEF IInv, Unattached, Missing
    <2>12. AttachedOnce' /\ ImportedMeansAttached'
      BY <1>1, <2>7 DEF IInv, AttachedOnce, ImportedMeansAttached
    <2> QED BY <1>1, <1>2, <1>3, <1>5, <2>4, <2>6, <2>7, <2>8, <2>9, <2>10, <2>11, <2>12,
               OneCommandSteps
  <1> QED BY <1>4, <1>5

\* The archives of the artifact are the only ones in its work directory.
LEMMA DownloadPrefixPreserves ==
  ASSUME IInv, NEW i \in Importer, DownloadPrefix(i)
  PROVE  IInv'
  <1> DEFINE a == run[i].artifact
             d == run[i].begun
             c == [run[i] EXCEPT !.pc = IF PartsOf[a] = {} THEN "move" ELSE "extract"]
  <1>1. /\ run[i].pc = "download"
        /\ UNCHANGED <<status, extracted, detached, attached, runs, requireEmpty, overlapped>>
    BY DEF DownloadPrefix, commands
  <1>2. /\ Running(i) /\ Importing(i) /\ a \in Artifact /\ d \in Artifact /\ a # NoArtifact
    BY <1>1, ArtifactFacts DEF IInv, Counted, Counts, Typed, Command, Running, Importing
  <1>3. /\ c \in Command /\ c.pc = IF PartsOf[a] = {} THEN "move" ELSE "extract"
        /\ c.todo = run[i].todo /\ c.begun = d /\ c.artifact = a /\ c.left = run[i].left
        /\ c.moved = run[i].moved
    BY DEF IInv, Typed, Command
  <1>4. run' = [run EXCEPT ![i] = c]
    BY <1>1 DEF IInv, Typed, DownloadPrefix
  <1> HIDE DEF c
  <1>5. /\ run' \in [Importer -> Command] /\ run'[i] = c
        /\ \A x \in Importer \ {i} : run'[x] = run[x]
    BY <1>3, <1>4, CommandChanges DEF IInv
  <1>6. /\ data' \in [Artifact -> Directory]
        /\ \A e \in Artifact \ {d} : data'[e] = data[e]
        /\ PartsOf[a] = {} => data' = data
        /\ PartsOf[a] # {} =>
              data'[d] = [n \in Name |-> IF n \in PartsOf[a] THEN a ELSE data[d][n]]
    <2>1. CASE PartsOf[a] = {}
      BY <1>1, <2>1 DEF DownloadPrefix, IInv, Typed
    <2>2. CASE PartsOf[a] # {}
      <3>1. data' = [data EXCEPT ![d] = [n \in Name |-> IF n \in PartsOf[a] THEN a ELSE data[d][n]]]
        BY <1>1, <1>2, <2>2 DEF DownloadPrefix, IInv, Typed
      <3>2. [n \in Name |-> IF n \in PartsOf[a] THEN a ELSE data[d][n]] \in Directory
        BY <1>2 DEF IInv, Typed, Directory
      <3> QED BY <1>2, <2>2, <3>1, <3>2 DEF IInv, Typed
    <2> QED BY <2>1, <2>2
  <1>7. Typed'
    BY <1>1, <1>5, <1>6 DEF IInv, Typed
  <1>8. Unpacked'
    <2>1. OwnParts(extracted)'
      BY <1>1 DEF IInv, Unpacked, OwnParts
    <2>2. \A n \in NamesIn(data'[d]) : n \in PartsOf[data'[d][n]]
      BY <1>2, <1>6 DEF IInv, Unpacked, OwnParts, NamesIn
    <2> QED BY <1>6, <2>1, <2>2 DEF IInv, Unpacked, OwnParts
  <1>9. Importing(i)' /\ Counts(i)'
    BY <1>2, <1>3, <1>5 DEF IInv, Counted, Counts, Importing
  <1>10. ~overlapped => Worked(i)'
    <2> SUFFICES ASSUME ~overlapped PROVE Worked(i)'
      OBVIOUS
    <2>1. /\ run[i].left = {} /\ run[i].moved = {} /\ a \notin run[i].todo
          /\ \A e \in Artifact : Clean(e)
      BY <1>1 DEF IInv, Working, Worked
    <2>2. \A e \in Artifact \ {d} : Clean(e)'
      BY <1>1, <1>6, <2>1 DEF Clean
    <2>3. extracted'[d] = EmptyDir /\ EmptyDir = Holding(a, {})
      BY <1>1, <1>2, <2>1 DEF Clean, EmptyDir, Holding
    <2>4. PartsOf[a] # {} => data'[d] = Holding(a, PartsOf[a])
      BY <1>2, <1>6, <2>1 DEF Clean, EmptyDir, Holding
    <2> QED BY <1>3, <1>5, <2>1, <2>2, <2>3, <2>4 DEF Worked
  <1>11. requireEmpty /\ ~overlapped => Missing(i)'
    <2> SUFFICES ASSUME requireEmpty, ~overlapped PROVE Missing(i)'
      OBVIOUS
    <2>1. run[i].left = {} /\ run[i].moved = {} /\ Missing(i)
      BY <1>1 DEF IInv, Working, Worked, Unattached
    <2> QED BY <1>1, <1>3, <1>5, <2>1 DEF Missing
  <1>12. AttachedOnce' /\ ImportedMeansAttached'
    BY <1>1 DEF IInv, AttachedOnce, ImportedMeansAttached
  <1>13. status[a] = "IMPORTING"
    BY <1>2 DEF IInv, Held
  <1> QED BY <1>1, <1>2, <1>3, <1>5, <1>7, <1>8, <1>9, <1>10, <1>11, <1>12, <1>13,
             OneCommandSteps

\* The parts are unpacked where no part of that name is.
LEMMA ExtractPreserves ==
  ASSUME IInv, NEW i \in Importer, ExtractFinishedTarballs(i)
  PROVE  IInv'
  <1> DEFINE a == run[i].artifact
             d == run[i].begun
             names == NamesIn(data[d])
             c == [run[i] EXCEPT !.pc = "move", !.left = names]
  <1>1. /\ run[i].pc = "extract"
        /\ UNCHANGED <<status, data, detached, attached, runs, requireEmpty, overlapped>>
    BY DEF ExtractFinishedTarballs, commands
  <1>2. /\ Running(i) /\ Importing(i) /\ a \in Artifact /\ d \in Artifact /\ a # NoArtifact
    BY <1>1, ArtifactFacts DEF IInv, Counted, Counts, Typed, Command, Running, Importing
  <1>3. /\ c \in Command /\ c.pc = "move" /\ c.todo = run[i].todo /\ c.begun = d
        /\ c.artifact = a /\ c.left = names /\ c.moved = run[i].moved
    <2>1. names \in SUBSET Name
      BY DEF NamesIn
    <2> QED BY <2>1 DEF IInv, Typed, Command
  <1>4. run' = [run EXCEPT ![i] = c]
    BY <1>1 DEF IInv, Typed, ExtractFinishedTarballs
  <1> HIDE DEF c
  <1>5. /\ run' \in [Importer -> Command] /\ run'[i] = c
        /\ \A x \in Importer \ {i} : run'[x] = run[x]
    BY <1>3, <1>4, CommandChanges DEF IInv
  <1>6. /\ extracted' \in [Artifact -> Directory]
        /\ \A e \in Artifact \ {d} : extracted'[e] = extracted[e]
        /\ extracted'[d] = [n \in Name |-> IF n \in names THEN data[d][n] ELSE extracted[d][n]]
    <2>1. extracted' = [extracted EXCEPT
              ![d] = [n \in Name |-> IF n \in names THEN data[d][n] ELSE extracted[d][n]]]
      BY <1>1, <1>2 DEF ExtractFinishedTarballs, IInv, Typed
    <2>2. [n \in Name |-> IF n \in names THEN data[d][n] ELSE extracted[d][n]] \in Directory
      BY <1>2 DEF IInv, Typed, Directory
    <2> QED BY <1>2, <2>1, <2>2 DEF IInv, Typed
  <1>7. Typed'
    BY <1>1, <1>5, <1>6 DEF IInv, Typed
  <1>8. Unpacked'
    <2>1. OwnParts(data)'
      BY <1>1 DEF IInv, Unpacked, OwnParts
    <2>2. \A n \in NamesIn(extracted'[d]) : n \in PartsOf[extracted'[d][n]]
      BY <1>2, <1>6 DEF IInv, Unpacked, OwnParts, NamesIn
    <2> QED BY <1>6, <2>1, <2>2 DEF IInv, Unpacked, OwnParts
  <1>9. Importing(i)' /\ Counts(i)'
    BY <1>2, <1>3, <1>5 DEF IInv, Counted, Counts, Importing
  <1>10. ~overlapped =>
           /\ data[d] = Holding(a, PartsOf[a]) /\ extracted[d] = EmptyDir
           /\ names = PartsOf[a] /\ run[i].moved = {} /\ a \notin run[i].todo
           /\ \A e \in Artifact \ {d} : Clean(e)
    <2> SUFFICES ASSUME ~overlapped
                 PROVE  /\ data[d] = Holding(a, PartsOf[a]) /\ extracted[d] = EmptyDir
                        /\ names = PartsOf[a] /\ run[i].moved = {} /\ a \notin run[i].todo
                        /\ \A e \in Artifact \ {d} : Clean(e)
      OBVIOUS
    <2>1. /\ data[d] = Holding(a, PartsOf[a]) /\ extracted[d] = EmptyDir
          /\ run[i].moved = {} /\ a \notin run[i].todo
          /\ \A e \in Artifact \ {d} : Clean(e)
      BY <1>1, <1>2 DEF IInv, Working, Worked
    <2>2. NamesIn(Holding(a, PartsOf[a])) = PartsOf[a]
      BY <1>2, ArtifactFacts DEF NamesIn, Holding
    <2> QED BY <2>1, <2>2
  <1>11. ~overlapped => Worked(i)'
    <2> SUFFICES ASSUME ~overlapped PROVE Worked(i)'
      OBVIOUS
    <2>1. \A e \in Artifact \ {d} : Clean(e)'
      BY <1>1, <1>6, <1>10 DEF Clean
    <2>2. extracted'[d] = Holding(a, PartsOf[a])
      BY <1>2, <1>6, <1>10 DEF Holding, EmptyDir
    <2> QED BY <1>3, <1>5, <1>10, <2>1, <2>2 DEF Worked
  <1>12. requireEmpty /\ ~overlapped => Missing(i)'
    BY <1>1, <1>3, <1>5, <1>10 DEF IInv, Unattached, Missing
  <1>13. AttachedOnce' /\ ImportedMeansAttached'
    BY <1>1 DEF IInv, AttachedOnce, ImportedMeansAttached
  <1>14. status[a] = "IMPORTING"
    BY <1>2 DEF IInv, Held
  <1> QED BY <1>1, <1>2, <1>3, <1>5, <1>7, <1>8, <1>9, <1>11, <1>12, <1>13, <1>14,
             OneCommandSteps

\* A part is moved into detached only where its name is free: what waits there
\* under the name afterwards is the part itself.
LEMMA MovePartPreserves ==
  ASSUME IInv, NEW i \in Importer, MovePart(i)
  PROVE  IInv'
  <1> DEFINE a == run[i].artifact
             d == run[i].begun
  <1>1. /\ run[i].pc = "move"
        /\ UNCHANGED <<status, data, attached, runs, requireEmpty, overlapped>>
    BY DEF MovePart, commands
  <1>2. /\ Running(i) /\ Importing(i) /\ a \in Artifact /\ d \in Artifact /\ a # NoArtifact
    BY <1>1, ArtifactFacts DEF IInv, Counted, Counts, Typed, Command, Running, Importing
  <1>3. PICK n \in run[i].left \cap NamesIn(extracted[d]) :
          /\ detached' = [detached EXCEPT ![n] = extracted[d][n]]
          /\ extracted' = [extracted EXCEPT ![d][n] = NoArtifact]
          /\ run' = [run EXCEPT ![i].pc = "attach", ![i].left = @ \ {n}, ![i].moved = {n}]
    BY DEF MovePart
  <1> DEFINE c == [run[i] EXCEPT !.pc = "attach", !.left = run[i].left \ {n}, !.moved = {n}]
  <1>4. /\ c \in Command /\ c.pc = "attach" /\ c.todo = run[i].todo /\ c.begun = d
        /\ c.artifact = a /\ c.left = run[i].left \ {n} /\ c.moved = {n}
    <2>1. n \in Name /\ run[i].left \ {n} \in SUBSET Name
      BY DEF NamesIn, IInv, Typed, Command
    <2> QED BY <2>1 DEF IInv, Typed, Command
  <1>5. run' = [run EXCEPT ![i] = c]
    BY <1>3 DEF IInv, Typed
  <1> HIDE DEF c
  <1>6. /\ run' \in [Importer -> Command] /\ run'[i] = c
        /\ \A x \in Importer \ {i} : run'[x] = run[x]
    BY <1>4, <1>5, CommandChanges DEF IInv
  <1>7. n \in Name /\ n \in run[i].left /\ extracted[d] \in Directory
        /\ extracted[d][n] \in Artifact \cup {NoArtifact}
    BY <1>2, <1>3 DEF NamesIn, IInv, Typed, Directory
  <1>8. /\ extracted' \in [Artifact -> Directory]
        /\ \A e \in Artifact \ {d} : extracted'[e] = extracted[e]
        /\ extracted'[d] = [extracted[d] EXCEPT ![n] = NoArtifact]
    <2>1. extracted' = [extracted EXCEPT ![d] = [extracted[d] EXCEPT ![n] = NoArtifact]]
      BY <1>2, <1>3 DEF IInv, Typed
    <2>2. [extracted[d] EXCEPT ![n] = NoArtifact] \in Directory
      BY <1>7 DEF Directory
    <2> QED BY <1>2, <2>1, <2>2 DEF IInv, Typed
  <1>9. detached' \in Directory /\ detached'[n] = extracted[d][n]
    BY <1>3, <1>7 DEF IInv, Typed, Directory
  <1>10. Typed'
    BY <1>1, <1>6, <1>8, <1>9 DEF IInv, Typed
  <1>11. Unpacked'
    <2>1. OwnParts(data)'
      BY <1>1 DEF IInv, Unpacked, OwnParts
    <2>2. \A m \in NamesIn(extracted'[d]) : m \in PartsOf[extracted'[d][m]]
      BY <1>2, <1>7, <1>8 DEF IInv, Unpacked, OwnParts, NamesIn, Directory
    <2> QED BY <1>8, <2>1, <2>2 DEF IInv, Unpacked, OwnParts
  <1>12. Importing(i)' /\ Counts(i)'
    BY <1>2, <1>4, <1>6 DEF IInv, Counted, Counts, Importing
  <1>13. ~overlapped =>
           /\ run[i].left \subseteq PartsOf[a] /\ extracted[d] = Holding(a, run[i].left)
           /\ run[i].moved = {} /\ a \notin run[i].todo
           /\ \A e \in Artifact \ {d} : Clean(e)
           /\ \A m \in PartsOf[a] \ run[i].left : attached[<<a, m>>] >= 1
    BY <1>1, <1>2 DEF IInv, Working, Worked
  <1>14. ~overlapped => Worked(i)'
    <2> SUFFICES ASSUME ~overlapped PROVE Worked(i)'
      OBVIOUS
    <2>1. \A e \in Artifact \ {d} : Clean(e)'
      BY <1>1, <1>8, <1>13 DEF Clean
    <2>2. detached'[n] = a
      BY <1>7, <1>9, <1>13 DEF Holding
    <2>3. extracted'[d] = Holding(a, run[i].left \ {n})
      BY <1>7, <1>8, <1>13 DEF Holding
    <2>4. n \in PartsOf[a] \ (run[i].left \ {n})
      BY <1>7, <1>13
    <2>5. \A m \in PartsOf[a] \ ((run[i].left \ {n}) \cup {n}) : attached'[<<a, m>>] >= 1
      BY <1>1, <1>13
    <2> QED BY <1>4, <1>6, <1>13, <2>1, <2>2, <2>3, <2>4, <2>5 DEF Worked
  <1>15. requireEmpty /\ ~overlapped => Missing(i)'
    BY <1>1, <1>4, <1>6, <1>7 DEF IInv, Unattached, Missing
  <1>16. AttachedOnce' /\ ImportedMeansAttached'
    BY <1>1 DEF IInv, AttachedOnce, ImportedMeansAttached
  <1>17. status[a] = "IMPORTING"
    BY <1>2 DEF IInv, Held
  <1> QED BY <1>1, <1>2, <1>4, <1>6, <1>10, <1>11, <1>12, <1>14, <1>15, <1>16, <1>17,
             OneCommandSteps

\* The part that is attached is the command's own, for the first time.
LEMMA AttachPartPreserves ==
  ASSUME IInv, NEW i \in Importer, AttachPart(i)
  PROVE  IInv'
  <1> DEFINE a == run[i].artifact
             d == run[i].begun
             c == [run[i] EXCEPT !.pc = "move", !.moved = {}]
  <1>1. /\ run[i].pc = "attach"
        /\ run' = [run EXCEPT ![i].pc = "move", ![i].moved = {}]
        /\ UNCHANGED <<status, data, extracted, runs, requireEmpty, overlapped>>
    BY DEF AttachPart, commands, files
  <1>2. /\ Running(i) /\ Importing(i) /\ a \in Artifact /\ d \in Artifact /\ a # NoArtifact
    BY <1>1, ArtifactFacts DEF IInv, Counted, Counts, Typed, Command, Running, Importing
  <1>3. PICK n \in run[i].moved : Attached(n)
    BY DEF AttachPart
  <1>4. /\ c \in Command /\ c.pc = "move" /\ c.todo = run[i].todo /\ c.begun = d
        /\ c.artifact = a /\ c.left = run[i].left /\ c.moved = {}
    BY DEF IInv, Typed, Command
  <1>5. run' = [run EXCEPT ![i] = c]
    BY <1>1 DEF IInv, Typed
  <1> HIDE DEF c
  <1>6. /\ run' \in [Importer -> Command] /\ run'[i] = c
        /\ \A x \in Importer \ {i} : run'[x] = run[x]
    BY <1>4, <1>5, CommandChanges DEF IInv
  <1>7. PICK t : t = <<detached[n], n>>
    OBVIOUS
  <1>8. /\ attached' \in [Part -> Nat] /\ detached' \in Directory
        /\ \A p \in Part : /\ attached'[p] >= attached[p]
                           /\ p # t => attached'[p] = attached[p]
                           /\ p = t => attached'[p] = attached[p] + 1
    <2>1. n \in Name
      BY DEF IInv, Typed, Command
    <2> QED BY <1>3, <1>7, <2>1, AttachedFacts DEF IInv
  <1>9. Typed' /\ Unpacked'
    BY <1>1, <1>6, <1>8 DEF IInv, Typed, Unpacked, OwnParts
  <1>10. Importing(i)' /\ Counts(i)'
    BY <1>2, <1>4, <1>6 DEF IInv, Counted, Counts, Importing
  <1>11. \A p \in Part : attached[p] \in Nat
    BY DEF IInv, Typed
  <1>12. ~overlapped =>
           /\ run[i].left \subseteq PartsOf[a] /\ extracted[d] = Holding(a, run[i].left)
           /\ run[i].moved = {n} /\ n \in PartsOf[a] \ run[i].left /\ detached[n] = a
           /\ a \notin run[i].todo /\ \A e \in Artifact \ {d} : Clean(e)
           /\ \A m \in PartsOf[a] \ (run[i].left \cup {n}) : attached[<<a, m>>] >= 1
    BY <1>1, <1>2 DEF IInv, Working, Worked
  <1>13. ~overlapped => t \in Part /\ t = <<a, n>>
    BY <1>2, <1>7, <1>12, ArtifactFacts
  <1>14. ~overlapped => Worked(i)'
    <2> SUFFICES ASSUME ~overlapped PROVE Worked(i)'
      OBVIOUS
    <2>1. \A e \in Artifact \ {d} : Clean(e)'
      BY <1>1, <1>12 DEF Clean
    <2>2. extracted'[d] = Holding(a, run[i].left)
      BY <1>1, <1>12
    <2>3. ASSUME NEW m \in PartsOf[a] \ run[i].left PROVE attached'[<<a, m>>] >= 1
      <3>1. PICK p \in Part : p = <<a, m>>
        BY <1>2, ArtifactFacts
      <3>2. CASE m = n
        BY <1>8, <1>11, <1>13, <3>1, <3>2
      <3>3. CASE m # n
        <4>1. attached[p] >= 1
          BY <1>12, <3>1, <3>3
        <4> QED BY <1>8, <1>11, <3>1, <4>1
      <3> QED BY <3>2, <3>3
    <2> QED BY <1>4, <1>6, <1>12, <2>1, <2>2, <2>3 DEF Worked
  <1>15. requireEmpty /\ ~overlapped => Missing(i)' /\ attached[t] = 0
    <2> SUFFICES ASSUME requireEmpty, ~overlapped PROVE Missing(i)' /\ attached[t] = 0
      OBVIOUS
    <2>1. /\ \A b \in run[i].todo : \A m \in PartsOf[b] : attached[<<b, m>>] = 0
          /\ \A m \in run[i].left \cup {n} : attached[<<a, m>>] = 0
      BY <1>1, <1>12 DEF IInv, Unattached, Missing
    <2>2. run[i].todo \subseteq Artifact
      BY DEF IInv, Typed, Command
    <2>3. ASSUME NEW b \in run[i].todo, NEW m \in PartsOf[b] PROVE attached'[<<b, m>>] = 0
      <3>1. <<b, m>> \in Part /\ <<b, m>> # t
        BY <1>12, <1>13, <2>2, ArtifactFacts
      <3> QED BY <1>8, <2>1, <3>1
    <2>4. ASSUME NEW m \in run[i].left PROVE attached'[<<a, m>>] = 0
      <3>1. <<a, m>> \in Part /\ <<a, m>> # t
        BY <1>2, <1>12, <1>13, ArtifactFacts
      <3> QED BY <1>8, <2>1, <3>1
    <2> QED BY <1>4, <1>6, <1>13, <2>1, <2>3, <2>4 DEF Missing
  <1>16. AttachedOnce'
    <2> SUFFICES ASSUME requireEmpty, ~overlapped, NEW p \in Part PROVE attached'[p] <= 1
      BY <1>1 DEF AttachedOnce
    <2>1. attached[p] \in Nat /\ attached[p] <= 1
      BY <1>11 DEF IInv, AttachedOnce
    <2> QED BY <1>8, <1>15, <2>1
  <1>17. ImportedMeansAttached'
    <2> SUFFICES ASSUME ~overlapped, NEW b \in Artifact, status[b] = "IMPORTED",
                        NEW m \in PartsOf[b]
                 PROVE  attached'[<<b, m>>] >= 1
      BY <1>1 DEF ImportedMeansAttached
    <2>1. PICK p \in Part : p = <<b, m>>
      BY ArtifactFacts
    <2>2. attached[p] >= 1
      BY <2>1 DEF IInv, ImportedMeansAttached
    <2> QED BY <1>8, <1>11, <2>1, <2>2
  <1>18. status[a] = "IMPORTING"
    BY <1>2 DEF IInv, Held
  <1> QED BY <1>1, <1>2, <1>4, <1>6, <1>9, <1>10, <1>14, <1>15, <1>16, <1>17, <1>18,
             OneCommandSteps

\* An artifact is IMPORTED when none of its parts is left to attach.
LEMMA MarkImportedPreserves ==
  ASSUME IInv, NEW i \in Importer, MarkImported(i)
  PROVE  IInv'
  <1> DEFINE a == run[i].artifact
             d == run[i].begun
             c == [run[i] EXCEPT !.pc = "next", !.artifact = NoArtifact]
  <1>1. /\ run[i].pc = "move" /\ run[i].left = {}
        /\ UNCHANGED <<detached, attached, runs, requireEmpty, overlapped>>
    BY DEF MarkImported, commands
  <1>2. /\ Running(i) /\ Importing(i) /\ a \in Artifact /\ d \in Artifact /\ a # NoArtifact
    BY <1>1, ArtifactFacts DEF IInv, Counted, Counts, Typed, Command, Running, Importing
  <1>3. status[a] = "IMPORTING"
    BY <1>2 DEF IInv, Held
  <1>4. status' = [status EXCEPT ![a] = "IMPORTED"]
    BY <1>3 DEF MarkImported
  <1>5. /\ status' \in [Artifact -> {"FINISHED", "IMPORTING", "IMPORTED", "FAILED"}]
        /\ \A b \in Artifact \ {a} : status'[b] = status[b]
    BY <1>2, <1>4 DEF IInv, Typed
  <1>6. ~overlapped =>
          /\ run[i].moved = {} /\ \A e \in Artifact \ {d} : Clean(e)
          /\ \A n \in PartsOf[a] : attached[<<a, n>>] >= 1
    BY <1>1, <1>2 DEF IInv, Working, Worked
  <1>7. CASE run[i].todo = {}
    <2>1. run' = [run EXCEPT ![i] = NoCommand] /\ RemoveWork
      BY <1>3, <1>7 DEF MarkImported, Ends
    <2> QED BY <1>1, <1>2, <1>4, <1>6, <2>1, EndPreserves
  <1>8. CASE run[i].todo # {}
    <2>1. /\ run' = [run EXCEPT ![i].pc = "next", ![i].artifact = NoArtifact]
          /\ data' = [data EXCEPT ![d] = EmptyDir]
          /\ extracted' = [extracted EXCEPT ![d] = EmptyDir]
      BY <1>3, <1>8 DEF MarkImported
    <2>2. /\ c \in Command /\ c.pc = "next" /\ c.todo = run[i].todo /\ c.begun = d
          /\ c.artifact = NoArtifact /\ c.left = run[i].left /\ c.moved = run[i].moved
      BY DEF IInv, Typed, Command
    <2>3. run' = [run EXCEPT ![i] = c]
      BY <2>1 DEF IInv, Typed
    <2> HIDE DEF c
    <2>4. /\ run' \in [Importer -> Command] /\ run'[i] = c
          /\ \A x \in Importer \ {i} : run'[x] = run[x]
      BY <2>2, <2>3, CommandChanges DEF IInv
    <2>5. /\ data' \in [Artifact -> Directory] /\ extracted' \in [Artifact -> Directory]
          /\ data'[d] = EmptyDir /\ extracted'[d] = EmptyDir
          /\ \A e \in Artifact \ {d} : data'[e] = data[e] /\ extracted'[e] = extracted[e]
      BY <1>2, <2>1, DirectoryFacts DEF IInv, Typed
    <2>6. Typed'
      BY <1>1, <1>5, <2>4, <2>5 DEF IInv, Typed
    <2>7. Unpacked'
      <3>2. ASSUME NEW e \in Artifact, NEW n \in NamesIn(data'[e]) PROVE n \in PartsOf[data'[e][n]]
        BY <2>5, <3>2, DirectoryFacts DEF IInv, Unpacked, OwnParts
      <3>3. ASSUME NEW e \in Artifact, NEW n \in NamesIn(extracted'[e])
            PROVE  n \in PartsOf[extracted'[e][n]]
        BY <2>5, <3>3, DirectoryFacts DEF IInv, Unpacked, OwnParts
      <3> QED BY <3>2, <3>3 DEF Unpacked, OwnParts
    <2>8. ~Importing(i)' /\ Counts(i)'
      BY <1>8, <2>2, <2>4 DEF IInv, Counted, Counts, Importing
    <2>9. ~overlapped => Worked(i)'
      <3> SUFFICES ASSUME ~overlapped PROVE Worked(i)'
        OBVIOUS
      <3>1. \A e \in Artifact : Clean(e)'
        BY <1>6, <2>5 DEF Clean
      <3>2. NoArtifact \notin run[i].todo
        BY ArtifactFacts DEF IInv, Typed, Command
      <3> QED BY <1>1, <1>6, <2>2, <2>4, <3>1, <3>2 DEF Worked
    <2>10. requireEmpty /\ ~overlapped => Missing(i)'
      BY <1>1, <2>2, <2>4 DEF IInv, Unattached, Missing
    <2>11. AttachedOnce'
      BY <1>1 DEF IInv, AttachedOnce
    <2>12. ImportedMeansAttached'
      BY <1>1, <1>5, <1>6 DEF IInv, ImportedMeansAttached
    <2> QED BY <1>1, <1>2, <1>5, <2>4, <2>6, <2>7, <2>8, <2>9, <2>10, <2>11, <2>12,
               OneCommandSteps
  <1> QED BY <1>7, <1>8

\* The ways a command ends early.
LEMMA EarlyEndPreserves ==
  ASSUME IInv, NEW i \in Importer,
         Refused(i) \/ ImportFails(i) \/ StoreFails(i) \/ ReleaseImport(i) \/ Crash(i)
  PROVE  IInv'
  <1>1. /\ Running(i) /\ UNCHANGED <<runs, requireEmpty, overlapped>>
        /\ run' = [run EXCEPT ![i] = NoCommand]
        /\ RemoveWork \/ UNCHANGED <<data, extracted>>
    BY DEF Refused, ImportFails, StoreFails, ReleaseImport, Crash, Running, Importing, Ends,
           commands, files
  <1>2. \/ UNCHANGED <<detached, attached>>
        \/ Importing(i) /\ \E n \in run[i].moved : Attached(n)
    BY DEF Refused, ImportFails, StoreFails, ReleaseImport, Crash
  <1>3. \/ UNCHANGED status
        \/ /\ Importing(i)
           /\ \E st \in {"FINISHED", "FAILED"} : status' = [status EXCEPT ![run[i].artifact] = st]
    BY DEF Refused, ImportFails, StoreFails, ReleaseImport, Crash
  <1>4. Importing(i) => /\ status[run[i].artifact] = "IMPORTING"
                        /\ status'[run[i].artifact] # "IMPORTED"
    <2> SUFFICES ASSUME Importing(i)
                 PROVE  /\ status[run[i].artifact] = "IMPORTING"
                        /\ status'[run[i].artifact] # "IMPORTED"
      OBVIOUS
    <2>1. run[i].artifact \in Artifact /\ status[run[i].artifact] = "IMPORTING"
      BY DEF IInv, Held, Counted, Counts, Typed, Command
    <2> QED BY <1>3, <2>1 DEF IInv, Typed
  <1> QED BY <1>1, <1>2, <1>3, <1>4, EndPreserves

\* A row is retried only when no command works on it.
LEMMA RetryPreserves ==
  ASSUME IInv, NEW a \in Artifact, Retry(a)
  PROVE  IInv'
  <1>1. /\ status[a] = "FAILED" \/ \A i \in Importer : run[i].artifact # a
        /\ status' = [status EXCEPT ![a] = "FINISHED"]
        /\ UNCHANGED <<data, extracted, detached, attached, run, runs, requireEmpty, overlapped>>
    BY DEF Retry, commands, files
  <1>2. /\ status' \in [Artifact -> {"FINISHED", "IMPORTING", "IMPORTED", "FAILED"}]
        /\ status'[a] = "FINISHED" /\ \A b \in Artifact \ {a} : status'[b] = status[b]
    BY <1>1 DEF IInv, Typed
  <1>3. Typed' /\ Counted' /\ Unpacked' /\ Sole'
    BY <1>1, <1>2
       DEF IInv, Typed, Counted, Counts, Importing, Unpacked, OwnParts, Sole, Running
  <1>4. Held'
    <2>1. \A i \in Importer : Importing(i)' <=> Importing(i)
      BY <1>1 DEF Importing
    <2>2. \A i \in Importer : Importing(i) => /\ run[i].artifact \in Artifact \ {a}
                                              /\ status[run[i].artifact] = "IMPORTING"
      BY <1>1 DEF IInv, Held, Counted, Counts, Typed, Command
    <2> QED BY <1>1, <1>2, <2>1, <2>2 DEF IInv, Held, OneImporter
  <1>5. \A i \in Importer : Worked(i)' <=> Worked(i)
    BY <1>1 DEF Worked, Clean, Importing
  <1>6. \A i \in Importer : Missing(i)' <=> Missing(i)
    BY <1>1 DEF Missing
  <1>7. Working' /\ Unattached' /\ AttachedOnce'
    BY <1>1, <1>5, <1>6 DEF IInv, Working, Unattached, AttachedOnce
  <1>8. ImportedMeansAttached'
    BY <1>1, <1>2 DEF IInv, ImportedMeansAttached
  <1> QED BY <1>3, <1>4, <1>7, <1>8 DEF IInv

\* Detached is cleared only while no command runs.
LEMMA ClearDetachedPreserves ==
  ASSUME IInv, NEW n \in Name, ClearDetached(n)
  PROVE  IInv'
  <1>1. /\ \A i \in Importer : run[i].pc = "none"
        /\ detached' = [detached EXCEPT ![n] = NoArtifact]
        /\ UNCHANGED <<status, data, extracted, attached, run, runs, requireEmpty, overlapped>>
    BY DEF ClearDetached, Running, commands, files
  <1>2. detached' \in Directory
    BY <1>1 DEF IInv, Typed, Directory
  <1>3. Typed' /\ Counted' /\ Unpacked' /\ Sole' /\ Held'
    BY <1>1, <1>2
       DEF IInv, Typed, Counted, Counts, Importing, Unpacked, OwnParts, Sole, Running, Held,
           OneImporter
  <1>4. Working'
    BY <1>1 DEF IInv, Working, Worked, Importing
  <1>5. Unattached'
    BY <1>1 DEF Unattached, Missing
  <1>6. AttachedOnce' /\ ImportedMeansAttached'
    BY <1>1 DEF IInv, AttachedOnce, ImportedMeansAttached
  <1> QED BY <1>3, <1>4, <1>5, <1>6 DEF IInv

\* A step that changes nothing keeps the invariant.
LEMMA UnchangedPreserves ==
  ASSUME IInv, UNCHANGED vars
  PROVE  IInv'
  <1>1. UNCHANGED <<status, data, extracted, detached, attached, run, runs, requireEmpty, overlapped>>
    BY DEF vars, commands
  <1>2. Typed' /\ Counted' /\ Unpacked' /\ Sole' /\ Held'
    BY <1>1 DEF IInv, Typed, Counted, Counts, Importing, Unpacked, OwnParts, Sole, Running, Held,
                OneImporter
  <1>3. \A i \in Importer : (Worked(i)' <=> Worked(i)) /\ (Missing(i)' <=> Missing(i))
    BY <1>1 DEF Worked, Clean, Importing, Missing
  <1>4. Working' /\ Unattached' /\ AttachedOnce' /\ ImportedMeansAttached'
    BY <1>1, <1>3 DEF IInv, Working, Unattached, AttachedOnce, ImportedMeansAttached
  <1> QED BY <1>2, <1>4 DEF IInv

-----------------------------------------------------------------------------
(* The theorems.                                                            *)

\* The importers start with nothing selected and nothing attached.
LEMMA InitIInv == Init => IInv
  <1> SUFFICES ASSUME Init PROVE IInv
    OBVIOUS
  <1>1. \A i \in Importer : /\ run[i] = NoCommand /\ run[i].pc = "none"
                            /\ ~Importing(i) /\ ~Running(i)
    BY NoCommandType DEF Init, Importing, Running
  <1>2. Typed
    <2>1. attached \in [Part -> Nat] /\ runs \in 0..MaxRuns
      BY ImporterAssumption DEF Init, ImporterAssumption
    <2>2. run \in [Importer -> Command]
      BY NoCommandType DEF Init
    <2> QED BY <2>1, <2>2, DirectoryFacts DEF Init, Typed
  <1>3. Counted
    <2>1. 0 + Cardinality({}) <= Len(PartsOf)
      BY FS_EmptySet, ArtifactFacts
    <2> QED BY <1>1, <2>1, NoCommandType DEF Counted, Counts
  <1>4. Unpacked /\ Held /\ Sole
    BY <1>1, DirectoryFacts DEF Init, Unpacked, Held, OneImporter, Sole
  <1>5. Working /\ Unattached
    BY <1>1, NoCommandType DEF Working, Worked, Unattached, Missing
  <1>6. AttachedOnce /\ ImportedMeansAttached
    BY DEF Init, AttachedOnce, ImportedMeansAttached
  <1> QED BY <1>2, <1>3, <1>4, <1>5, <1>6 DEF IInv

\* The invariant is inductive.
LEMMA NextIInv == IInv /\ [Next]_vars => IInv'
  <1> SUFFICES ASSUME IInv, [Next]_vars PROVE IInv'
    OBVIOUS
  <1>1. ASSUME NEW i \in Importer, ListFinishedParts(i) PROVE IInv'
    BY <1>1, ListFinishedPartsPreserves
  <1>2. ASSUME NEW i \in Importer, ImportJob(i) PROVE IInv'
    BY <1>2, PrepareDestinationPreserves, MarkImportingPreserves, DownloadPrefixPreserves,
       ExtractPreserves, MovePartPreserves, AttachPartPreserves, MarkImportedPreserves,
       EarlyEndPreserves DEF ImportJob
  <1>3. ASSUME NEW i \in Importer, ReleaseImport(i) \/ Crash(i) PROVE IInv'
    BY <1>3, EarlyEndPreserves
  <1>4. ASSUME NEW a \in Artifact, Retry(a) PROVE IInv'
    BY <1>4, RetryPreserves
  <1>5. ASSUME NEW n \in Name, ClearDetached(n) PROVE IInv'
    BY <1>5, ClearDetachedPreserves
  <1>6. CASE UNCHANGED vars
    BY <1>6, UnchangedPreserves
  <1> QED BY <1>1, <1>2, <1>3, <1>4, <1>5, <1>6 DEF Next

\* The invariant holds in every state.
THEOREM ImporterInvariant == Spec => []IInv
  BY InitIInv, NextIInv, PTL DEF Spec

\* With -require-empty no part is attached twice, however often commands fail,
\* are cancelled, crash and are repeated, as long as they do not overlap.
THEOREM PartsAttachedOnce == Spec => []AttachedOnce
  <1>1. IInv => AttachedOnce
    BY DEF IInv
  <1> QED BY <1>1, ImporterInvariant, PTL

\* Two commands never import the same artifact at the same time, and without
\* overlap an IMPORTED artifact has every part in the table.
THEOREM ImportsAreComplete == Spec => []ImporterInv
  <1>1. IInv => ImporterTypeOK
    <2> SUFFICES ASSUME IInv PROVE ImporterTypeOK
      OBVIOUS
    <2>1. \A i \in Importer : run[i].begun \in Artifact \cup {0}
      BY ArtifactFacts DEF IInv, Typed, Command
    <2> QED BY <2>1 DEF IInv, Typed, Command, Counted, Counts, Unpacked, OwnParts, ImporterTypeOK
  <1>2. IInv => ImporterInv
    BY <1>1 DEF IInv, Held, ImporterInv
  <1> QED BY <1>2, ImporterInvariant, PTL

=============================================================================
