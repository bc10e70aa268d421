------------------------------- MODULE Backup -------------------------------
(* The reader of native ClickHouse backups (internal/chbackup/backup.go):  *)
(* an incremental backup stores of a file only what its base backup does   *)
(* not have, so the content of a file is spread over the layers of a       *)
(* chain, and is found there by size and checksum, under any name.  The    *)
(* layers are written by ClickHouse; the reader's functions follow.        *)
EXTENDS Integers, Sequences, SequencesExt, FiniteSets

CONSTANTS
  Backups,      \* tables considered, with the bounds on their backups
  Partition,    \* part -> partition
  NoPart,       \* the value of a name that is no part's file
  Absent        \* the content of a file that a backup does not have

\* content: the contents of files, sequences of bytes; slot: the names of an
\* index in order, as the part each belongs to, "metadata", or another directory
\* such as "mutations"; included: -include-partitions, {} for all.  The files of
\* a part follow each other: scanIndex accepts sorted names only.
ASSUME BackupAssumption ==
  /\ NoPart \notin DOMAIN Partition
  /\ \A t \in Backups :
       /\ \A c \in t.content : c \in Seq(Nat) /\ \A n \in 0..Len(c) : SubSeq(c, 1, n) # Absent
       /\ t.maxLayers \in Nat \ {0}
       /\ Len(t.slot) \in Nat /\ DOMAIN t.slot = 1..Len(t.slot)
       /\ \E i \in DOMAIN t.slot : t.slot[i] = "metadata"
       /\ \A i, j, k \in DOMAIN t.slot :
            i < j /\ j < k /\ t.slot[i] = t.slot[k] /\ t.slot[i] \in DOMAIN Partition
              => t.slot[j] = t.slot[i]

VARIABLES
  table,    \* the table that is backed up
  layers    \* newest first: [index, data, content]

backup == <<table, layers>>

Content == table.content
Slot == table.slot
Included == table.included
MaxLayers == table.maxLayers

Names == DOMAIN Slot

-----------------------------------------------------------------------------
(* What ClickHouse writes: for every file one of the legal encodings        *)

Has(layer, c) == \E i \in Names : layer.content[i] = c

\* The entry of a file whose first n bytes are in the base backup: all of
\* them, a proper prefix, or none.
Entry(name, c, n) ==
  [name |-> name, size |-> Len(c), checksum |-> c,
   useBase |-> n > 0,
   baseSizeXML |-> IF n \in {0, Len(c)} THEN {} ELSE {n},
   baseChecksum |-> IF n \in {0, Len(c)} THEN << >> ELSE SubSeq(c, 1, n),
   dataFile |-> 0]

\* The entries of an index in the order of their names; files with the same
\* content and base share the data file of the first.
Index(content, reused) ==
  [i \in {i \in Names : content[i] # Absent} |->
     LET same == {k \in Names : content[k] = content[i] /\ reused[k] = reused[i]}
         first == CHOOSE k \in same : \A m \in same : k <= m
     IN [Entry(i, content[i], reused[i]) EXCEPT !.dataFile = IF first = i THEN 0 ELSE first]]

\* A backup: its index, and of every file what its base does not have.
Layer(content, reused) ==
  [index   |-> Index(content, reused),
   data    |-> [i \in Names |-> IF content[i] = Absent THEN << >>
                                ELSE SubSeq(content[i], reused[i] + 1, Len(content[i]))],
   content |-> content]

BackupInit == table \in Backups /\ layers = << >>

\* A backup of the table as it is now, incremental if there is one already.
TakeBackup ==
  /\ Len(layers) < MaxLayers
  /\ \E content \in [Names -> Content \cup {Absent}] :
     \E reused \in [Names -> {Len(c) : c \in Content}] :
       /\ \A i \in Names :
            /\ Slot[i] = "metadata" => content[i] \notin {Absent, << >>}
            /\ reused[i] > 0 =>
                 /\ content[i] # Absent /\ reused[i] <= Len(content[i]) /\ layers # << >>
                 /\ Has(layers[1], SubSeq(content[i], 1, reused[i]))
       /\ layers' = <<Layer(content, reused)>> \o layers
  /\ UNCHANGED table

\* No backup is of interest any more.
ForgetBackup ==
  /\ table' = [content |-> {}, slot |-> << >>, included |-> {}, maxLayers |-> 0]
  /\ layers' = << >>

-----------------------------------------------------------------------------
(* The reader                                                               *)

\* normalizeFile: base size and data file get their defaults.
NormalizeFile(f) ==
  LET baseSize == IF f.size = 0 THEN 0
                  ELSE IF f.baseSizeXML # {} THEN CHOOSE n \in f.baseSizeXML : TRUE
                  ELSE IF f.useBase THEN f.size ELSE 0
  IN [name |-> f.name, size |-> f.size, checksum |-> f.checksum,
      baseSize |-> baseSize, baseChecksum |-> f.baseChecksum,
      dataFile |-> IF f.size > baseSize /\ f.dataFile = 0 THEN f.name ELSE f.dataFile]

\* scanIndex: the files of a layer in order.
ScanIndex(layer) == [i \in DOMAIN layer.index |-> NormalizeFile(layer.index[i])]

NoFiles == [name |-> NoPart, files |-> << >>]

Flush(scan) ==
  IF scan.current = NoFiles THEN scan
  ELSE [scan EXCEPT !.parts = Append(@, scan.current), !.current = NoFiles]

IsIncluded(part) == Included = {} \/ Partition[part] \in Included

\* scanTable: the files of a part follow each other; whatever is not a file
\* of the part ends it.
ScanFile(scan, f) ==
  LET part == Slot[f.name]
      here == IF scan.current.name = part THEN scan ELSE Flush(scan)
  IN IF part \notin DOMAIN Partition \/ ~IsIncluded(part) THEN Flush(scan)
     ELSE [here EXCEPT !.current = [name |-> part, files |-> Append(here.current.files, f)]]

ScanTable(layer) ==
  LET files == ScanIndex(layer)
      scan[n \in 0..Len(Slot)] ==
        IF n = 0 THEN [parts |-> << >>, current |-> NoFiles]
        ELSE IF n \in DOMAIN files THEN ScanFile(scan[n - 1], files[n]) ELSE scan[n - 1]
  IN Flush(scan[Len(Slot)]).parts

Metadata(layer) ==
  LET files == ScanIndex(layer)
  IN files[CHOOSE i \in DOMAIN files : Slot[files[i].name] = "metadata"]

\* baseKey: what the file needs of the next layer.
BaseKey(f) ==
  IF f.baseSize = 0 THEN {}
  ELSE {<<f.baseSize, IF f.baseSize = f.size THEN f.checksum ELSE f.baseChecksum>>}

\* findContent: the first file with the size and checksum.
FindContent(layer, wanted) ==
  LET files == ScanIndex(layer)
      At(key) == {i \in DOMAIN files : <<files[i].size, files[i].checksum>> = key}
  IN [key \in {k \in wanted : At(k) # {}} |->
        files[CHOOSE i \in At(key) : \A j \in At(key) : i <= j]]

Depth == Len(layers)

HeadFiles ==
  LET parts == ScanTable(layers[1])
  IN {Metadata(layers[1])} \cup UNION {ToSet(parts[i].files) : i \in DOMAIN parts}

\* addBaseRequirement
Needs(files) == UNION {BaseKey(f) : f \in files}

\* Prepare, downwards: what every layer provides of what the one above
\* it needs.
Matches ==
  LET found[l \in 1..Depth] ==
        FindContent(layers[l], IF l = 1 THEN {} ELSE IF l = 2 THEN Needs(HeadFiles)
                               ELSE Needs({found[l - 1][k] : k \in DOMAIN found[l - 1]}))
  IN found

Required(l) ==
  IF l = 2 THEN Needs(HeadFiles)
  ELSE Needs({Matches[l - 1][k] : k \in DOMAIN Matches[l - 1]})

\* Prepare returns a plan: every layer has what is asked of it, and nothing
\* is left to ask of a layer below the last.
Prepared ==
  /\ \A l \in 2..Depth : Required(l) \subseteq DOMAIN Matches[l]
  /\ Required(Depth + 1) = {}

\* Mutant: the file's own data comes first.
SuffixFirst(f, l, base) ==
  (IF f.size > f.baseSize THEN <<[layer |-> l, file |-> f.dataFile]>> ELSE << >>) \o base

\* resolveRawFile: the base's segments, then the file's own data.
ResolveRawFile(f, l, base) ==
  base \o IF f.size > f.baseSize THEN <<[layer |-> l, file |-> f.dataFile]>> ELSE << >>

\* The segments of what a file takes from the layer below.
BaseSegments(f, below) ==
  IF BaseKey(f) = {} THEN << >> ELSE below[CHOOSE k \in BaseKey(f) : TRUE]

\* Prepare, upwards: the segments of every file found in a layer.
ResolvedBelow ==
  LET found == Matches
      resolved[l \in 1..Depth + 1] ==
        IF l = Depth + 1 THEN << >>
        ELSE [k \in DOMAIN found[l] |->
                ResolveRawFile(found[l][k], l, BaseSegments(found[l][k], resolved[l + 1]))]
  IN resolved

\* resolveHeadFile
Resolved ==
  LET below == ResolvedBelow[2]
  IN [f \in HeadFiles |-> ResolveRawFile(f, 1, BaseSegments(f, below))]

\* downloadBackupFile: the segments' objects one after the other.
DownloadBackupFile(segments) ==
  FlattenSeq([i \in DOMAIN segments |-> layers[segments[i].layer].data[segments[i].file]])

-----------------------------------------------------------------------------
(* Properties                                                               *)

\* ScanParts hands out every included part of the table once, with all of
\* its files, whatever lies between the parts in the index.
PartsOnce ==
  layers # << >> =>
    LET parts == ScanTable(layers[1])
        Files(p) == {i \in Names : Slot[i] = p /\ layers[1].content[i] # Absent}
    IN /\ {parts[i].name : i \in DOMAIN parts} =
            {p \in DOMAIN Partition : IsIncluded(p) /\ Files(p) # {}}
       /\ \A i \in DOMAIN parts :
            /\ \A j \in DOMAIN parts : parts[i].name = parts[j].name => i = j
            /\ {f.name : f \in ToSet(parts[i].files)} = Files(parts[i].name)

\* Prepare finds what it asks of a chain that ClickHouse has written: what a
\* file takes from its base is in the next layer, in whichever way it is stored
\* there.  That the table has parts, and the partitions asked for, is left out.
ChainResolves == layers # << >> => Prepared

\* What upload-backup copies as a file of a part is the file that was
\* backed up, however its content is spread over the chain.
ResolvedIsContent ==
  layers # << >> =>
    LET resolved == Resolved
    IN \A f \in HeadFiles : DownloadBackupFile(resolved[f]) = layers[1].content[f.name]

\* upload-backup reads the table as it was backed up: each part once, every file
\* of it found in the chain, and with its content.
BackupReadExactly == ChainResolves /\ PartsOnce /\ ResolvedIsContent
=============================================================================
