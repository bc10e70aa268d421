---------------------------- MODULE InsertSelect ----------------------------
(* The insert-select loop of one rewrite (internal/rewrite/processor.go,   *)
(* insert_chunks.go).  A source part is read in ranges of row offsets; the *)
(* rows of a range are written to the destination table, which serves as   *)
(* staging, and promoted partition by partition to the completed table.    *)
(* A resource error truncates staging and runs the same range again with   *)
(* smaller settings; at the end the two tables are exchanged.              *)
(*                                                                         *)
(* Data abstraction: the rewritten form of source row r is r itself, a     *)
(* table is the number of copies it holds of every row, and a statement    *)
(* that fails leaves any part of its rows behind.  Assumed of ClickHouse:  *)
(* a statement has stopped writing when its call returns.                  *)
EXTENDS Integers, FiniteSets

CONSTANTS
  MaxRows,        \* the largest source part considered
  Partition,      \* destination partitions
  MinRowsSet,     \* values of -insert-chunk-min-rows considered
  MaxChunks,      \* 20 in the code
  Threads,        \* initial max_threads and max_insert_threads considered
  DefaultBlock,   \* ClickHouse's max_block_size
  BlockSetting,   \* max_block_size of the insert settings considered, 0: unset
  MinBlock        \* minRetryMaxBlockSize, 8192 in the code

ASSUME InsertAssumption ==
  /\ MaxRows \in Nat /\ Partition # {} /\ MaxChunks \in Nat \ {0}
  /\ MinRowsSet \subseteq Nat /\ MinRowsSet # {}
  /\ Threads \subseteq Nat \ {0} /\ DefaultBlock \in Nat \ {0}
  /\ BlockSetting \subseteq Nat /\ MinBlock \in Nat \ {0}

VARIABLES
  rows,       \* rows of the attached source
  parts,      \* parts of the attached source
  minRows,    \* InsertChunkMinRows
  partOf,     \* the destination partition of every row
  pc,         \* "over" once the insert's caller has gone on
  chunk, start,   \* loop variables of runInsertSelectWithRetries
  settings,   \* threads, insertThreads, block (0 when max_block_size is unset)
  dest,       \* the table with the destination's name
  completed,  \* the __partforge_completed table
  toMove,     \* partitions the promotion of this chunk has not moved yet
  percent     \* reported progress, in source offsets

inputs == <<rows, parts, minRows, partOf>>
insertVars == <<inputs, pc, chunk, start, settings, dest, completed, toMove, percent>>

Row == 0..MaxRows - 1
Empty == [r \in Row |-> 0]

\* A source of several parts is never split: _part_offset restarts in each.
EffectiveMinRows == IF parts > 1 THEN 0 ELSE minRows

Capped(n, cap) == IF n < cap THEN n ELSE cap
AtLeast(n, floor) == IF n > floor THEN n ELSE floor

ChunkCount(n, min) ==
  IF min = 0 THEN 1 ELSE AtLeast(Capped(n \div min, MaxChunks), 1)

chunks == ChunkCount(rows, EffectiveMinRows)

\* The end of the current range; the first rows % chunks ranges are longer.
end == start + rows \div chunks + (IF chunk < rows % chunks THEN 1 ELSE 0)

\* What _part_offset >= start AND _part_offset < end selects.
RangeRows == {r \in Row : start <= r /\ r < end}

Halved(n) == AtLeast(n \div 2, 1)

\* reduceInsertSelectSettings; block is known by the time it is called.
Reduced(s) ==
  [threads       |-> Halved(s.threads),
   insertThreads |-> Halved(s.insertThreads),
   block         |-> IF s.block > MinBlock THEN AtLeast(s.block \div 2, MinBlock)
                     ELSE s.block]

KnownBlock(s) == IF s.block = 0 THEN [s EXCEPT !.block = DefaultBlock] ELSE s

InsertInit ==
  /\ rows \in 0..MaxRows
  /\ parts \in 1..2
  /\ minRows \in MinRowsSet
  /\ partOf \in [Row -> Partition]
  /\ pc = "prepare"
  /\ chunk = 0 /\ start = 0
  /\ settings \in [threads : Threads, insertThreads : Threads, block : BlockSetting]
  /\ dest = Empty /\ completed = Empty
  /\ toMove = {}
  /\ percent = 0

\* prepareInsertChunks creates the completed table; a reserved setting, a
\* failed measurement or a failed CREATE ends the insert.
Prepare ==
  /\ pc = "prepare"
  /\ pc' \in {"chunk"} \cup (IF chunks > 1 THEN {"failed"} ELSE {})
  /\ UNCHANGED <<inputs, chunk, start, settings, dest, completed, toMove, percent>>

\* The attempt begins by reporting the progress without it.
StartAttempt ==
  /\ pc = "chunk" /\ chunk < chunks
  /\ pc' = "insert"
  /\ percent' = start
  /\ UNCHANGED <<inputs, chunk, start, settings, dest, completed, toMove>>

\* The ticker reads the progress of the running query.
PollProgress ==
  /\ pc = "insert"
  /\ percent' \in start..end
  /\ UNCHANGED <<inputs, pc, chunk, start, settings, dest, completed, toMove>>

InsertedInto(table, written) == [r \in Row |-> table[r] + IF r \in written THEN 1 ELSE 0]

\* The query succeeds: an unsplit insert is complete, a chunk is promoted.
InsertSucceeds ==
  /\ pc = "insert"
  /\ dest' = InsertedInto(dest, RangeRows)
  /\ pc' = IF chunks > 1 THEN "list" ELSE "next"
  /\ percent' = end
  /\ UNCHANGED <<inputs, chunk, start, settings, completed, toMove>>

\* The query or a progress read fails with a retryable resource error.
InsertExhausted ==
  /\ pc = "insert"
  /\ \E written \in SUBSET RangeRows : dest' = InsertedInto(dest, written)
  /\ LET s == KnownBlock(settings)
     IN IF Reduced(s) = s
        THEN pc' = "failed" /\ settings' = s
        ELSE pc' = "reset" /\ settings' = Reduced(s)
  /\ UNCHANGED <<inputs, chunk, start, completed, toMove, percent>>

\* Any other error, of the query, of a report or of the read of max_block_size.
InsertFails ==
  /\ pc = "insert"
  /\ \E written \in SUBSET RangeRows : dest' = InsertedInto(dest, written)
  /\ pc' = "failed"
  /\ UNCHANGED <<inputs, chunk, start, settings, completed, toMove, percent>>

\* Mutant: a failed attempt is run again on top of what it left behind.
RetryWithoutTruncate ==
  /\ pc = "reset"
  /\ percent' = start
  /\ pc' \in {"chunk", "failed"}
  /\ UNCHANGED <<inputs, chunk, start, settings, dest, completed, toMove>>

\* TRUNCATE of the insert target, the progress report and the backoff.
ResetDestinationTable ==
  /\ pc = "reset"
  /\ \/ dest' = Empty /\ percent' = start /\ pc' \in {"chunk", "failed"}
     \/ UNCHANGED <<dest, percent>> /\ pc' = "failed"
  /\ UNCHANGED <<inputs, chunk, start, settings, completed, toMove>>

ActivePartitions(table) == {partOf[r] : r \in {r \in Row : table[r] > 0}}

ListStagingPartitions ==
  /\ pc = "list"
  /\ \/ pc' = "promote" /\ toMove' = ActivePartitions(dest)
     \/ pc' = "failed" /\ UNCHANGED toMove
  /\ UNCHANGED <<inputs, chunk, start, settings, dest, completed, percent>>

\* One MOVE PARTITION ID ... TO TABLE; an error is never retried.
MovePartition ==
  /\ pc = "promote"
  /\ \/ \E q \in toMove :
          /\ dest' = [r \in Row |-> IF partOf[r] = q THEN 0 ELSE dest[r]]
          /\ completed' = [r \in Row |->
               IF partOf[r] = q THEN completed[r] + dest[r] ELSE completed[r]]
          /\ toMove' = toMove \ {q}
          /\ pc' = "promote"
     \/ toMove # {} /\ pc' = "failed" /\ UNCHANGED <<dest, completed, toMove>>
  /\ UNCHANGED <<inputs, chunk, start, settings, percent>>

\* Mutant: the chunk counts as promoted once its partitions are listed.
PromotedEarly ==
  /\ pc = "promote"
  /\ percent' = end
  /\ toMove' = {}
  /\ pc' \in {"next", "failed"}
  /\ UNCHANGED <<inputs, chunk, start, settings, dest, completed>>

\* The committed range is reported; a failed report ends the insert.
Promoted ==
  /\ pc = "promote" /\ toMove = {}
  /\ percent' = end
  /\ pc' \in {"next", "failed"}
  /\ UNCHANGED <<inputs, chunk, start, settings, dest, completed, toMove>>

NextChunk ==
  /\ pc = "next"
  /\ start' = end
  /\ chunk' = chunk + 1
  /\ pc' = "chunk"
  /\ UNCHANGED <<inputs, settings, dest, completed, toMove, percent>>

ExchangeTables ==
  /\ pc = "chunk" /\ chunk = chunks
  /\ IF chunks = 1
     THEN pc' = "done" /\ UNCHANGED <<dest, completed>>
     ELSE \/ dest' = completed /\ completed' = dest /\ pc' = "drop"
          \/ UNCHANGED <<dest, completed>> /\ pc' = "failed"
  /\ UNCHANGED <<inputs, chunk, start, settings, toMove, percent>>

DropStaging ==
  /\ pc = "drop"
  /\ \/ completed' = Empty /\ pc' = "done"
     \/ UNCHANGED completed /\ pc' = "failed"
  /\ UNCHANGED <<inputs, chunk, start, settings, dest, toMove, percent>>

\* The worker stops or its heartbeat fails: the context ends every wait.
InsertCancelled ==
  /\ pc \notin {"done", "failed", "over"}
  /\ pc' = "failed"
  /\ UNCHANGED <<inputs, chunk, start, settings, dest, completed, toMove, percent>>

\* Nothing of the insert is in scope after it but what its caller takes from
\* the destination: the variables get fixed values.
AnyOf(S) == CHOOSE x \in S : TRUE

InsertOver ==
  /\ pc = "over"
  /\ rows = 0 /\ parts = 1 /\ minRows = AnyOf(MinRowsSet)
  /\ partOf = [r \in Row |-> AnyOf(Partition)]
  /\ chunk = 1 /\ start = 0 /\ percent = 0 /\ toMove = {}
  /\ settings = [threads |-> 1, insertThreads |-> 1, block |-> 0]
  /\ dest = Empty /\ completed = Empty

ForgetInsert ==
  /\ pc' = "over"
  /\ rows' = 0 /\ parts' = 1 /\ minRows' = AnyOf(MinRowsSet)
  /\ partOf' = [r \in Row |-> AnyOf(Partition)]
  /\ chunk' = 1 /\ start' = 0 /\ percent' = 0 /\ toMove' = {}
  /\ settings' = [threads |-> 1, insertThreads |-> 1, block |-> 0]
  /\ dest' = Empty /\ completed' = Empty

InsertNext ==
  \/ Prepare \/ StartAttempt \/ PollProgress
  \/ InsertSucceeds \/ InsertExhausted \/ InsertFails
  \/ ResetDestinationTable \/ ListStagingPartitions \/ MovePartition \/ Promoted
  \/ NextChunk \/ ExchangeTables \/ DropStaging \/ InsertCancelled

\* Every statement returns, and the loop goes on.
InsertReturns ==
  \/ Prepare \/ StartAttempt
  \/ InsertSucceeds \/ InsertExhausted \/ InsertFails
  \/ ResetDestinationTable \/ ListStagingPartitions \/ MovePartition \/ Promoted
  \/ NextChunk \/ ExchangeTables \/ DropStaging

-----------------------------------------------------------------------------
(* Properties                                                               *)

\* The variables keep their types and the loop variables their ranges.
InsertTypeOK ==
  /\ rows \in 0..MaxRows /\ parts \in 1..2 /\ minRows \in MinRowsSet
  /\ partOf \in [Row -> Partition]
  /\ pc \in {"prepare", "chunk", "insert", "reset", "list", "promote", "next",
             "drop", "done", "failed", "over"}
  /\ chunk \in 0..chunks /\ start \in 0..rows
  /\ settings \in [threads : Nat \ {0}, insertThreads : Nat \ {0}, block : Nat]
  /\ dest \in [Row -> Nat] /\ completed \in [Row -> Nat]
  /\ toMove \subseteq Partition
  /\ percent \in 0..rows

\* However often attempts fail, are reset and are run again, and wherever a
\* promotion stops, no source row is ever written twice across the two tables.
NoRowTwice == \A r \in Row : dest[r] + completed[r] <= 1

\* An insert that reports success leaves the rewritten form of every row of the
\* source in the table that is frozen and uploaded, and nothing elsewhere.
CompleteWhenDone ==
  pc = "done" => /\ \A r \in Row : dest[r] = IF r < rows THEN 1 ELSE 0
                 /\ completed = Empty

\* Reported progress covers the chunks already promoted: a retry gives up the
\* progress of the current attempt only ("completed chunks remain counted").
ProgressKeepsCompleted == percent >= start

\* A split source has chunks of at least the configured minimum, no chunk is
\* longer than another by more than one row, and the last one ends at the end.
ChunksAreEven ==
  /\ chunk < chunks =>
        /\ end - start \in {rows \div chunks, rows \div chunks + 1}
        /\ chunks > 1 => end - start >= minRows /\ parts = 1
  /\ chunk = chunks => start = rows

\* Dropping the exchanged staging table discards no row, and truncating it
\* discards rows of the current range only.
DiscardsNoCompletedRow ==
  [][/\ DropStaging => completed = Empty
     /\ ResetDestinationTable => \A r \in Row : dest[r] > 0 => r >= start]_insertVars

\* The insert of a part neither loses nor doubles a row, its ranges cover the
\* source, and its progress does not fall behind what is promoted.
InsertInv ==
  /\ InsertTypeOK
  /\ NoRowTwice
  /\ CompleteWhenDone
  /\ ProgressKeepsCompleted
  /\ ChunksAreEven
=============================================================================
