---------------------------- MODULE InsertProofs ----------------------------
(* Proofs about the insert of a part and the wait for its merges, for        *)
(* sources and tables of any size, any settings, chunks and partitions.     *)
EXTENDS MergeWait, FiniteSetTheorems, WellFoundedInduction, TLAPS

-----------------------------------------------------------------------------
(* The arithmetic of the ranges.                                            *)

\* Where range k of c begins in a source of n rows.
StartOf(n, c, k) == k * (n \div c) + Capped(k, n % c)

\* Division with remainder.
LEMMA Division ==
  ASSUME NEW n \in Nat, NEW c \in Nat \ {0}
  PROVE  /\ n \div c \in Nat /\ n % c \in Nat /\ n % c < c
         /\ n = c * (n \div c) + (n % c)
  OBVIOUS

\* The ranges are adjacent, the first begins at 0 and the last ends at n.
LEMMA Ranges ==
  ASSUME NEW n \in Nat, NEW c \in Nat \ {0}, NEW k \in 0..c
  PROVE  /\ StartOf(n, c, k) \in 0..n
         /\ StartOf(n, c, 0) = 0 /\ StartOf(n, c, c) = n
         /\ k < c => StartOf(n, c, k + 1) =
                       StartOf(n, c, k) + n \div c + (IF k < n % c THEN 1 ELSE 0)
  <1> DEFINE q == n \div c
             m == n % c
  <1>1. q \in Nat /\ m \in Nat /\ m < c /\ n = c * q + m
    BY Division
  <1> HIDE DEF q, m
  <1>2. k * q \in Nat /\ (k + 1) * q = k * q + q /\ 0 * q = 0
    BY <1>1
  <1>3. k * q <= c * q
    BY <1>1
  <1>4. StartOf(n, c, k) \in 0..n
    BY <1>1, <1>2, <1>3 DEF StartOf, Capped, q, m
  <1>5. StartOf(n, c, 0) = 0 /\ StartOf(n, c, c) = n
    BY <1>1, <1>2 DEF StartOf, Capped, q, m
  <1>6. k < c => StartOf(n, c, k + 1) = StartOf(n, c, k) + q + (IF k < m THEN 1 ELSE 0)
    <2> DEFINE kq == k * q
    <2>1. StartOf(n, c, k) = kq + Capped(k, m) /\ StartOf(n, c, k + 1) = kq + q + Capped(k + 1, m)
      BY <1>2 DEF StartOf, q, m
    <2>2. kq \in Nat
      BY <1>2
    <2> HIDE DEF kq
    <2>3. Capped(k + 1, m) = Capped(k, m) + (IF k < m THEN 1 ELSE 0) /\ Capped(k, m) \in Nat
      BY <1>1 DEF Capped
    <2> QED BY <1>1, <2>1, <2>2, <2>3
  <1> QED BY <1>4, <1>5, <1>6 DEF q, m

\* A source that is split has ranges of at least the minimum.
LEMMA LongEnough ==
  ASSUME NEW n \in Nat, NEW min \in Nat, ChunkCount(n, min) > 1
  PROVE  min > 0 /\ n \div ChunkCount(n, min) >= min
  <1> DEFINE c == ChunkCount(n, min)
             d == n \div min
             q == n \div c
  <1>1. min \in Nat \ {0} /\ d \in Nat /\ c \in Nat \ {0} /\ c <= d
    <2>1. min # 0
      BY DEF ChunkCount
    <2>2. d \in Nat
      BY <2>1
    <2> QED BY <2>1, <2>2, InsertAssumption DEF InsertAssumption, ChunkCount, AtLeast, Capped
  <1> HIDE DEF c
  <1>2. d * min <= n
    BY <1>1, Division
  <1> HIDE DEF d
  <1>3. q \in Nat /\ n < c * q + c
    BY <1>1, Division
  <1> HIDE DEF q
  <1>4. c * min <= d * min
    BY <1>1
  <1>5. c * min <= n
    BY <1>1, <1>2, <1>4
  <1>6. q >= min
    <2> SUFFICES ASSUME q + 1 <= min PROVE FALSE
      BY <1>1, <1>3
    <2>1. c * (q + 1) <= c * min
      BY <1>1, <1>3
    <2> QED BY <1>1, <1>3, <1>5, <2>1
  <1> QED BY <1>1, <1>6 DEF c, q

\* insertSelectChunkCount plans at least one chunk.
LEMMA ChunksType ==
  ASSUME NEW n \in Nat, NEW min \in Nat
  PROVE  ChunkCount(n, min) \in Nat \ {0}
  <1>1. min # 0 => n \div min \in Nat
    OBVIOUS
  <1> QED BY <1>1, InsertAssumption DEF InsertAssumption, ChunkCount, AtLeast, Capped

-----------------------------------------------------------------------------
(* The inductive invariant.                                                 *)

Typed ==
  /\ rows \in 0..MaxRows /\ parts \in 1..2 /\ minRows \in MinRowsSet
  /\ partOf \in [Row -> Partition]
  /\ pc \in {"prepare", "chunk", "insert", "reset", "list", "promote", "next",
             "drop", "done", "failed", "over"}
  /\ settings \in [threads : Nat \ {0}, insertThreads : Nat \ {0}, block : Nat]
  /\ dest \in [Row -> Nat] /\ completed \in [Row -> Nat]
  /\ toMove \subseteq Partition

\* The loop is at one of the ranges or past the last, and never reports less
\* than what is promoted.
Positioned ==
  /\ chunk \in 0..chunks /\ start = StartOf(rows, chunks, chunk)
  /\ percent \in start..rows
  /\ pc = "prepare" => chunk = 0
  /\ pc \in {"insert", "reset", "list", "promote", "next"} => chunk < chunks
  /\ pc = "next" => percent >= end
  /\ pc \in {"drop", "done"} => chunk = chunks
  /\ pc = "drop" => chunks > 1

\* Table t holds the rows below n, once.
Holds(t, n) == \A r \in Row : t[r] = IF r < n THEN 1 ELSE 0

\* The promoted rows are in the completed table, or in the destination when
\* the source is not split; the other table is empty.
Settled(n) == IF chunks > 1 THEN Holds(dest, 0) /\ Holds(completed, n)
              ELSE Holds(dest, n) /\ Holds(completed, 0)

\* What the tables hold at every place of the loop.
Contents ==
  /\ pc \in {"prepare", "chunk", "insert"} => Settled(start)
  /\ pc = "next" => Settled(end)
  /\ pc \in {"reset", "list", "promote"} =>
       \A r \in Row :
         /\ ~(start <= r /\ r < end) =>
               dest[r] = 0 /\ completed[r] = IF r < start THEN 1 ELSE 0
         /\ start <= r /\ r < end =>
               /\ pc = "reset" => dest[r] <= 1 /\ completed[r] = 0
               /\ pc = "list" => dest[r] = 1 /\ completed[r] = 0
               /\ pc = "promote" => IF partOf[r] \in toMove THEN dest[r] = 1 /\ completed[r] = 0
                                    ELSE dest[r] = 0 /\ completed[r] = 1
  /\ pc \in {"list", "promote"} => chunks > 1
  /\ pc \in {"drop", "done"} => Holds(dest, rows) /\ Holds(completed, 0)

NInv == Typed /\ Positioned /\ Contents /\ NoRowTwice

-----------------------------------------------------------------------------
(* Where the loop is.                                                       *)

\* Source rows are numbered.
LEMMA RowsAreNaturals == \A r \in Row : r \in Nat /\ r < MaxRows
  BY InsertAssumption DEF InsertAssumption, Row

\* Where the loop is in its plan: the bounds of the current chunk.
LEMMA Position ==
  ASSUME Typed, Positioned
  PROVE  /\ rows \in Nat /\ chunks \in Nat \ {0} /\ chunk \in Nat
         /\ start \in 0..rows /\ percent \in Nat
         /\ chunk < chunks => end \in start..rows /\ end = StartOf(rows, chunks, chunk + 1)
         /\ chunk = chunks => start = rows
         /\ chunk = 0 => start = 0
         /\ chunk < chunks /\ chunks = 1 => start = 0 /\ end = rows
  <1>1. rows \in Nat /\ EffectiveMinRows \in Nat
    BY InsertAssumption DEF InsertAssumption, Typed, EffectiveMinRows
  <1>2. chunks \in Nat \ {0}
    BY <1>1, ChunksType DEF chunks
  <1>3. chunk \in 0..chunks /\ chunk \in Nat /\ (chunk < chunks => chunk + 1 \in 0..chunks)
    BY <1>2 DEF Positioned
  <1>4. /\ start \in 0..rows
        /\ chunk = chunks => start = rows
        /\ chunk = 0 => start = 0
    BY <1>1, <1>2, <1>3, Ranges DEF Positioned
  <1>5. rows \div chunks \in Nat
    BY <1>1, <1>2, Division
  <1>6. ASSUME chunk < chunks
        PROVE  end = StartOf(rows, chunks, chunk + 1) /\ end \in start..rows
    <2>1. end = StartOf(rows, chunks, chunk + 1)
      BY <1>1, <1>2, <1>3, <1>6, Ranges DEF Positioned, end
    <2>2. StartOf(rows, chunks, chunk + 1) \in 0..rows
      BY <1>1, <1>2, <1>3, <1>6, Ranges
    <2>3. end >= start
      BY <1>4, <1>5 DEF end
    <2> QED BY <1>4, <2>1, <2>2, <2>3
  <1>7. ASSUME chunk < chunks, chunks = 1
        PROVE  start = 0 /\ end = rows
    <2>1. chunk = 0 /\ chunk + 1 = chunks
      BY <1>2, <1>3, <1>7
    <2> QED BY <1>1, <1>2, <1>4, <1>6, <1>7, <2>1, Ranges
  <1>8. percent \in Nat
    BY <1>1, <1>4 DEF Positioned
  <1> QED BY <1>1, <1>2, <1>3, <1>4, <1>6, <1>7, <1>8

\* A step that does not touch the source or the loop variables leaves the
\* ranges alone.
LEMMA SameRange ==
  ASSUME UNCHANGED <<inputs, chunk, start>>
  PROVE  chunks' = chunks /\ end' = end /\ RangeRows' = RangeRows
  <1>1. chunks' = chunks
    BY DEF chunks, EffectiveMinRows, inputs
  <1>2. end' = end
    BY <1>1 DEF end, inputs
  <1> QED BY <1>1, <1>2 DEF RangeRows

\* The loop goes on at the same range, with a progress that belongs to it.
LEMMA PositionKept ==
  ASSUME Typed, Positioned, UNCHANGED <<inputs, chunk, start>>, percent' \in start..rows,
         pc' # "prepare",
         pc' \in {"insert", "reset", "list", "promote", "next"} => chunk < chunks,
         pc' = "next" => percent' >= end,
         pc' \in {"drop", "done"} => chunk = chunks,
         pc' = "drop" => chunks > 1
  PROVE  Positioned'
  BY SameRange DEF Positioned, inputs

-----------------------------------------------------------------------------
(* Every step of the insert preserves it.                                   *)

\* The insert starts with an empty destination.
LEMMA InitNInv == InsertInit => NInv
  <1> SUFFICES ASSUME InsertInit PROVE NInv
    OBVIOUS
  <1>1. Typed
    BY InsertAssumption DEF InsertAssumption, InsertInit, Typed, Empty
  <1>2. rows \in Nat /\ EffectiveMinRows \in Nat
    BY InsertAssumption DEF InsertAssumption, InsertInit, EffectiveMinRows
  <1>3. chunks \in Nat \ {0} /\ 0 \in 0..chunks
    BY <1>2, ChunksType DEF chunks
  <1>4. Positioned
    BY <1>2, <1>3, Ranges DEF InsertInit, Positioned
  <1>5. Contents /\ NoRowTwice
    BY RowsAreNaturals DEF InsertInit, Contents, NoRowTwice, Settled, Holds, Empty
  <1> QED BY <1>1, <1>4, <1>5 DEF NInv

\* An insert that its caller has left behind satisfies the invariant too.
LEMMA OverNInv == InsertOver => NInv
  <1> SUFFICES ASSUME InsertOver PROVE NInv
    OBVIOUS
  <1>1. AnyOf(MinRowsSet) \in MinRowsSet /\ AnyOf(Partition) \in Partition
    BY InsertAssumption DEF InsertAssumption, AnyOf
  <1>2. Typed
    BY <1>1, InsertAssumption DEF InsertAssumption, InsertOver, Typed, Empty
  <1>3. EffectiveMinRows \in Nat
    BY <1>2, InsertAssumption DEF InsertAssumption, Typed, EffectiveMinRows
  <1>4. chunks = 1
    <2>1. EffectiveMinRows # 0 => 0 \div EffectiveMinRows = 0
      BY <1>3
    <2> QED BY <2>1, InsertAssumption
            DEF InsertAssumption, InsertOver, chunks, ChunkCount, AtLeast, Capped
  <1>5. Positioned
    BY <1>4, Ranges DEF InsertOver, Positioned
  <1>6. Contents /\ NoRowTwice
    BY DEF InsertOver, Contents, NoRowTwice, Empty
  <1> QED BY <1>2, <1>5, <1>6 DEF NInv

\* Preparing the destination and staging tables keeps the invariant.
LEMMA PrepareNInv == NInv /\ Prepare => NInv'
  <1> SUFFICES ASSUME NInv, Prepare PROVE NInv'
    OBVIOUS
  <1>1. UNCHANGED <<inputs, chunk, start>> /\ pc' \in {"chunk", "failed"}
    BY DEF Prepare
  <1>2. Typed'
    BY DEF NInv, Typed, Prepare, inputs
  <1>3. Positioned'
    BY <1>1, PositionKept DEF NInv, Positioned, Prepare, inputs
  <1>4. Contents' /\ NoRowTwice'
    BY <1>1, SameRange DEF NInv, Prepare, Contents, NoRowTwice, Settled, Holds
  <1> QED BY <1>2, <1>3, <1>4 DEF NInv

\* So does the start of an attempt on a chunk.
LEMMA StartAttemptNInv == NInv /\ StartAttempt => NInv'
  <1> SUFFICES ASSUME NInv, StartAttempt PROVE NInv'
    OBVIOUS
  <1>1. UNCHANGED <<inputs, chunk, start>> /\ pc' = "insert" /\ percent' = start
    BY DEF StartAttempt
  <1>2. Typed'
    BY DEF NInv, Typed, StartAttempt, inputs
  <1>3. Positioned'
    BY <1>1, PositionKept, Position DEF NInv, StartAttempt
  <1>4. Contents' /\ NoRowTwice'
    BY <1>1, SameRange DEF NInv, StartAttempt, Contents, NoRowTwice, Settled, Holds
  <1> QED BY <1>2, <1>3, <1>4 DEF NInv

\* So does each progress report of the running INSERT.
LEMMA PollProgressNInv == NInv /\ PollProgress => NInv'
  <1> SUFFICES ASSUME NInv, PollProgress PROVE NInv'
    OBVIOUS
  <1>1. UNCHANGED <<inputs, chunk, start>> /\ pc = "insert" /\ pc' = "insert"
    BY DEF PollProgress
  <1>2. Typed'
    BY DEF NInv, Typed, PollProgress, inputs
  <1>3. chunk < chunks /\ percent' \in start..rows
    BY <1>1, Position DEF NInv, Positioned, PollProgress
  <1>4. Positioned'
    BY <1>1, <1>3, PositionKept DEF NInv
  <1>5. Contents' /\ NoRowTwice'
    BY <1>1, SameRange DEF NInv, PollProgress, Contents, NoRowTwice, Settled, Holds
  <1> QED BY <1>2, <1>4, <1>5 DEF NInv

\* What an attempt leaves behind, all of its range or a part of it.
LEMMA Written ==
  ASSUME NInv, pc = "insert", NEW W \in SUBSET RangeRows, dest' = InsertedInto(dest, W)
  PROVE  /\ dest' \in [Row -> Nat]
         /\ \A r \in Row :
              /\ dest'[r] = (IF r \in W THEN 1 ELSE 0) + IF chunks > 1 \/ start <= r THEN 0 ELSE 1
              /\ completed[r] = IF chunks > 1 /\ r < start THEN 1 ELSE 0
              /\ r \in W => start <= r /\ r < end
         /\ chunks = 1 => start = 0
  <1>1. chunk < chunks /\ Settled(start)
    BY DEF NInv, Positioned, Contents
  <1>2. /\ chunks \in Nat \ {0} /\ start \in 0..rows
        /\ chunks = 1 => start = 0
    BY <1>1, Position DEF NInv
  <1>3. \A r \in Row : dest[r] \in Nat /\ r \in Nat
    BY RowsAreNaturals DEF NInv, Typed
  <1>4. dest' \in [Row -> Nat]
    BY <1>3 DEF InsertedInto
  <1>5. \A r \in Row : dest'[r] = dest[r] + IF r \in W THEN 1 ELSE 0
    BY DEF InsertedInto
  <1>6. \A r \in Row : r \in W => start <= r /\ r < end
    BY DEF RangeRows
  <1>7. CASE chunks > 1
    BY <1>1, <1>2, <1>3, <1>4, <1>5, <1>6, <1>7 DEF Settled, Holds
  <1>8. CASE chunks = 1
    BY <1>1, <1>2, <1>3, <1>4, <1>5, <1>6, <1>8 DEF Settled, Holds
  <1> QED BY <1>2, <1>7, <1>8

\* So does the end of the INSERT.
LEMMA InsertSucceedsNInv == NInv /\ InsertSucceeds => NInv'
  <1> SUFFICES ASSUME NInv, InsertSucceeds PROVE NInv'
    OBVIOUS
  <1>1. /\ UNCHANGED <<inputs, chunk, start>> /\ pc = "insert"
        /\ pc' = (IF chunks > 1 THEN "list" ELSE "next") /\ percent' = end
    BY DEF InsertSucceeds
  <1>2. /\ chunk < chunks /\ chunks \in Nat \ {0} /\ start \in 0..rows /\ end \in start..rows
        /\ rows \in Nat
        /\ chunks = 1 => start = 0 /\ end = rows
    BY <1>1, Position DEF NInv, Positioned
  <1>3. /\ dest' \in [Row -> Nat]
        /\ \A r \in Row :
             /\ dest'[r] = (IF r \in RangeRows THEN 1 ELSE 0)
                           + IF chunks > 1 \/ start <= r THEN 0 ELSE 1
             /\ completed[r] = IF chunks > 1 /\ r < start THEN 1 ELSE 0
    BY <1>1, Written DEF InsertSucceeds
  <1>4. \A r \in Row : r \in Nat /\ (r \in RangeRows <=> start <= r /\ r < end)
    BY RowsAreNaturals DEF RangeRows
  <1>5. Typed'
    BY <1>1, <1>3 DEF NInv, Typed, InsertSucceeds, inputs
  <1>6. Positioned'
    BY <1>1, <1>2, PositionKept DEF NInv
  <1>7. Contents'
    <2>1. CASE chunks > 1
      BY <1>1, <1>2, <1>3, <1>4, <2>1, SameRange DEF InsertSucceeds, Contents
    <2>2. CASE chunks = 1
      BY <1>1, <1>2, <1>3, <1>4, <2>2, SameRange
      DEF InsertSucceeds, Contents, Settled, Holds
    <2> QED BY <1>2, <2>1, <2>2
  <1>8. NoRowTwice'
    BY <1>2, <1>3, <1>4 DEF InsertSucceeds, NoRowTwice
  <1> QED BY <1>5, <1>6, <1>7, <1>8 DEF NInv

\* Reduced settings are settings.
LEMMA ReducedType ==
  ASSUME Typed
  PROVE  {KnownBlock(settings), Reduced(KnownBlock(settings))}
           \subseteq [threads : Nat \ {0}, insertThreads : Nat \ {0}, block : Nat]
  <1> DEFINE T == [threads : Nat \ {0}, insertThreads : Nat \ {0}, block : Nat]
  <1>1. KnownBlock(settings) \in T
    BY InsertAssumption DEF InsertAssumption, Typed, KnownBlock
  <1>2. ASSUME NEW s \in T PROVE Reduced(s) \in T
    BY InsertAssumption DEF InsertAssumption, Reduced, Halved, AtLeast
  <1> QED BY <1>1, <1>2

\* An attempt that fails leaves rows of its range behind, which the reset removes.
LEMMA AttemptFailsNInv == NInv /\ (InsertExhausted \/ InsertFails) => NInv'
  <1> SUFFICES ASSUME NInv, InsertExhausted \/ InsertFails PROVE NInv'
    OBVIOUS
  <1>1. /\ UNCHANGED <<inputs, chunk, start, completed, toMove, percent>> /\ pc = "insert"
        /\ pc' \in {"failed", "reset"}
        /\ settings' \in {settings, KnownBlock(settings), Reduced(KnownBlock(settings))}
    BY DEF InsertExhausted, InsertFails
  <1>2. PICK W \in SUBSET RangeRows : dest' = InsertedInto(dest, W)
    BY DEF InsertExhausted, InsertFails
  <1>3. /\ chunk < chunks /\ chunks \in Nat \ {0} /\ start \in 0..rows /\ end \in start..rows
        /\ rows \in Nat
    BY <1>1, Position DEF NInv, Positioned
  <1>4. /\ dest' \in [Row -> Nat]
        /\ \A r \in Row :
             /\ dest'[r] = (IF r \in W THEN 1 ELSE 0) + IF chunks > 1 \/ start <= r THEN 0 ELSE 1
             /\ completed[r] = IF chunks > 1 /\ r < start THEN 1 ELSE 0
             /\ r \in W => start <= r /\ r < end
        /\ chunks = 1 => start = 0
    BY <1>1, <1>2, Written
  <1>5. Typed'
    BY <1>1, <1>4, ReducedType DEF NInv, Typed, inputs
  <1>6. Positioned'
    BY <1>1, <1>3, PositionKept DEF NInv, Positioned
  <1>7. \A r \in Row : r \in Nat
    BY RowsAreNaturals
  <1>8. Contents'
    BY <1>1, <1>3, <1>4, <1>7, SameRange DEF Contents
  <1>9. NoRowTwice'
    BY <1>1, <1>3, <1>4, <1>7 DEF NoRowTwice
  <1> QED BY <1>5, <1>6, <1>8, <1>9 DEF NInv

\* Dropping what a failed attempt left keeps the invariant.
LEMMA ResetNInv == NInv /\ ResetDestinationTable => NInv'
  <1> SUFFICES ASSUME NInv, ResetDestinationTable PROVE NInv'
    OBVIOUS
  <1>1. /\ UNCHANGED <<inputs, chunk, start, settings, completed, toMove>> /\ pc = "reset"
        /\ pc' \in {"chunk", "failed"} /\ percent' \in {start, percent}
        /\ dest' \in {dest, Empty} /\ (pc' = "chunk" => dest' = Empty)
    BY DEF ResetDestinationTable
  <1>2. /\ chunk < chunks /\ chunks \in Nat \ {0} /\ start \in 0..rows /\ rows \in Nat
        /\ end \in start..rows
        /\ chunks = 1 => start = 0
    BY <1>1, Position DEF NInv, Positioned
  <1>3. \A r \in Row : r \in Nat /\ Empty[r] = 0
    BY RowsAreNaturals DEF Empty
  <1>4. Typed'
    BY <1>1 DEF NInv, Typed, inputs, Empty
  <1>5. Positioned'
    BY <1>1, <1>2, PositionKept DEF NInv, Positioned
  <1>6. Contents'
    <2> SUFFICES ASSUME pc' = "chunk" PROVE Settled(start)'
      BY <1>1 DEF Contents
    <2>1. \A r \in Row : completed[r] = IF r < start THEN 1 ELSE 0
      BY <1>1, <1>2, <1>3 DEF NInv, Contents
    <2> QED BY <1>1, <1>2, <1>3, <2>1, SameRange DEF Settled, Holds
  <1>7. NoRowTwice'
    BY <1>1, <1>3 DEF NInv, Typed, NoRowTwice
  <1> QED BY <1>4, <1>5, <1>6, <1>7 DEF NInv

\* So does listing the partitions of the staging table.
LEMMA ListNInv == NInv /\ ListStagingPartitions => NInv'
  <1> SUFFICES ASSUME NInv, ListStagingPartitions PROVE NInv'
    OBVIOUS
  <1>1. /\ UNCHANGED <<inputs, chunk, start, settings, dest, completed, percent>> /\ pc = "list"
        /\ pc' \in {"promote", "failed"} /\ toMove' \in {toMove, ActivePartitions(dest)}
        /\ pc' = "promote" => toMove' = ActivePartitions(dest)
    BY DEF ListStagingPartitions
  <1>2. ActivePartitions(dest) \subseteq Partition
    BY DEF NInv, Typed, ActivePartitions
  <1>3. Typed'
    BY <1>1, <1>2 DEF NInv, Typed, inputs
  <1>4. Positioned'
    BY <1>1, PositionKept DEF NInv, Positioned
  <1>5. \A r \in Row : dest[r] = 1 => partOf[r] \in ActivePartitions(dest)
    BY DEF ActivePartitions
  <1>6. Contents' /\ NoRowTwice'
    BY <1>1, <1>5, SameRange DEF NInv, Contents, NoRowTwice, inputs
  <1> QED BY <1>3, <1>4, <1>6 DEF NInv

\* So does moving one of them to the destination.
LEMMA MovePartitionNInv == NInv /\ MovePartition => NInv'
  <1> SUFFICES ASSUME NInv, MovePartition PROVE NInv'
    OBVIOUS
  <1>1. /\ UNCHANGED <<inputs, chunk, start, settings, percent>> /\ pc = "promote"
        /\ pc' \in {"promote", "failed"}
    BY DEF MovePartition
  <1>2. Positioned'
    BY <1>1, PositionKept DEF NInv, Positioned
  <1>3. CASE UNCHANGED <<dest, completed, toMove>> /\ pc' = "failed"
    BY <1>1, <1>2, <1>3 DEF NInv, Typed, Contents, NoRowTwice, inputs
  <1>4. ASSUME NEW q \in toMove,
               dest' = [r \in Row |-> IF partOf[r] = q THEN 0 ELSE dest[r]],
               completed' = [r \in Row |->
                 IF partOf[r] = q THEN completed[r] + dest[r] ELSE completed[r]],
               toMove' = toMove \ {q}, pc' = "promote"
        PROVE  NInv'
    <2>1. Typed'
      BY <1>1, <1>4 DEF NInv, Typed, inputs
    <2>2. \A r \in Row : /\ dest'[r] = IF partOf[r] = q THEN 0 ELSE dest[r]
                         /\ completed'[r] = IF partOf[r] = q THEN completed[r] + dest[r]
                                            ELSE completed[r]
                         /\ dest[r] \in Nat /\ completed[r] \in Nat
      BY <1>4 DEF NInv, Typed
    <2>3. Contents'
      BY <1>1, <1>4, <2>2, SameRange DEF NInv, Contents, inputs
    <2>4. NoRowTwice'
      BY <2>2 DEF NInv, NoRowTwice
    <2> QED BY <1>2, <2>1, <2>3, <2>4 DEF NInv
  <1> QED BY <1>3, <1>4 DEF MovePartition

\* So does the end of a promotion.
LEMMA PromotedNInv == NInv /\ Promoted => NInv'
  <1> SUFFICES ASSUME NInv, Promoted PROVE NInv'
    OBVIOUS
  <1>1. /\ UNCHANGED <<inputs, chunk, start, settings, dest, completed, toMove>>
        /\ pc = "promote" /\ toMove = {} /\ percent' = end /\ pc' \in {"next", "failed"}
    BY DEF Promoted
  <1>2. /\ chunk < chunks /\ chunks > 1 /\ start \in 0..rows /\ end \in start..rows
        /\ rows \in Nat
    BY <1>1, Position DEF NInv, Positioned, Contents
  <1>3. Typed'
    BY <1>1 DEF NInv, Typed, inputs
  <1>4. Positioned'
    BY <1>1, <1>2, PositionKept DEF NInv
  <1>5. \A r \in Row : /\ r \in Nat /\ dest[r] = 0
                       /\ completed[r] = IF r < end THEN 1 ELSE 0
    BY <1>1, <1>2, RowsAreNaturals DEF NInv, Contents
  <1>6. Contents' /\ NoRowTwice'
    BY <1>1, <1>2, <1>5, SameRange DEF Contents, NoRowTwice, Settled, Holds
  <1> QED BY <1>3, <1>4, <1>6 DEF NInv

\* So does going on to the next chunk.
LEMMA NextChunkNInv == NInv /\ NextChunk => NInv'
  <1> SUFFICES ASSUME NInv, NextChunk PROVE NInv'
    OBVIOUS
  <1>1. /\ UNCHANGED <<inputs, settings, dest, completed, toMove, percent>> /\ pc = "next"
        /\ pc' = "chunk" /\ start' = end /\ chunk' = chunk + 1
    BY DEF NextChunk
  <1>2. chunks' = chunks
    BY <1>1 DEF chunks, EffectiveMinRows, inputs
  <1>3. /\ chunk < chunks /\ chunks \in Nat /\ chunk \in Nat /\ rows \in Nat
        /\ end \in start..rows /\ end = StartOf(rows, chunks, chunk + 1)
        /\ percent \in start..rows /\ percent >= end /\ start \in 0..rows
    BY <1>1, Position DEF NInv, Positioned
  <1>4. Typed'
    BY <1>1 DEF NInv, Typed, inputs
  <1>5. Positioned'
    BY <1>1, <1>2, <1>3 DEF Positioned, inputs
  <1>6. Contents' /\ NoRowTwice'
    BY <1>1, <1>2 DEF NInv, Contents, NoRowTwice, Settled, Holds
  <1> QED BY <1>4, <1>5, <1>6 DEF NInv

\* So does exchanging the completed table for the destination.
LEMMA ExchangeNInv == NInv /\ ExchangeTables => NInv'
  <1> SUFFICES ASSUME NInv, ExchangeTables PROVE NInv'
    OBVIOUS
  <1>1. /\ UNCHANGED <<inputs, chunk, start, settings, toMove, percent>> /\ pc = "chunk"
        /\ chunk = chunks /\ pc' \in {"done", "drop", "failed"}
        /\ pc' = "drop" => chunks > 1
    BY Position DEF NInv, ExchangeTables
  <1>2. start = rows /\ Settled(rows) /\ chunks \in Nat \ {0} /\ rows \in Nat
    BY <1>1, Position DEF NInv, Contents
  <1>3. Typed'
    BY DEF NInv, Typed, ExchangeTables, inputs
  <1>4. Positioned'
    BY <1>1, PositionKept DEF NInv, Positioned
  <1>5. NoRowTwice'
    BY DEF NInv, Typed, NoRowTwice, ExchangeTables
  <1>6. Contents'
    <2>1. CASE chunks = 1
      BY <1>1, <1>2, <2>1, SameRange DEF ExchangeTables, Contents, Settled, Holds, inputs
    <2>2. CASE chunks > 1
      BY <1>1, <1>2, <2>2, SameRange DEF ExchangeTables, Contents, Settled, Holds, inputs
    <2> QED BY <1>2, <2>1, <2>2
  <1> QED BY <1>3, <1>4, <1>5, <1>6 DEF NInv

\* So does dropping the table that is left over.
LEMMA DropStagingNInv == NInv /\ DropStaging => NInv'
  <1> SUFFICES ASSUME NInv, DropStaging PROVE NInv'
    OBVIOUS
  <1>1. /\ UNCHANGED <<inputs, chunk, start, settings, dest, toMove, percent>> /\ pc = "drop"
        /\ pc' \in {"done", "failed"} /\ completed' \in {completed, Empty}
    BY DEF DropStaging
  <1>2. \A r \in Row : Empty[r] = 0 /\ r \in Nat
    BY RowsAreNaturals DEF Empty
  <1>3. Typed'
    BY <1>1 DEF NInv, Typed, inputs, Empty
  <1>4. Positioned'
    BY <1>1, PositionKept DEF NInv, Positioned
  <1>5. Contents' /\ NoRowTwice'
    BY <1>1, <1>2 DEF NInv, Typed, Contents, NoRowTwice, Holds, inputs
  <1> QED BY <1>3, <1>4, <1>5 DEF NInv

\* The insert or what follows it gives up.
LEMMA GivesUpNInv ==
  ASSUME NInv, pc' = "failed",
         UNCHANGED <<inputs, chunk, start, settings, dest, completed, toMove, percent>>
  PROVE  NInv'
  <1>1. Typed'
    BY DEF NInv, Typed, inputs
  <1>2. Positioned'
    BY PositionKept DEF NInv, Positioned
  <1> QED BY <1>1, <1>2 DEF NInv, Contents, NoRowTwice

\* Every step of the insert keeps it.
LEMMA InsertStepNInv == NInv /\ InsertNext => NInv'
  <1>1. NInv /\ InsertCancelled => NInv'
    BY GivesUpNInv DEF InsertCancelled
  <1> QED BY <1>1, PrepareNInv, StartAttemptNInv, PollProgressNInv, InsertSucceedsNInv,
             AttemptFailsNInv, ResetNInv, ListNInv, MovePartitionNInv, PromotedNInv,
             NextChunkNInv, ExchangeNInv, DropStagingNInv
          DEF InsertNext

\* The invariant is inductive.
LEMMA NextNInv == NInv /\ [Next]_vars => NInv'
  <1> SUFFICES ASSUME NInv, [Next]_vars PROVE NInv'
    OBVIOUS
  <1>1. CASE InsertNext
    BY <1>1, InsertStepNInv
  <1>2. CASE WaitAfterInsert
    <2>1. InsertOver'
      BY <1>2 DEF WaitAfterInsert, ForgetInsert, InsertOver
    <2> QED BY <2>1, OverNInv, PTL
  <1>3. CASE ConfigureFails
    BY <1>3, GivesUpNInv DEF ConfigureFails
  <1>4. CASE UNCHANGED insertVars
    <2>1. UNCHANGED <<inputs, chunk, start>> /\ UNCHANGED <<pc, settings, dest, completed, toMove, percent>>
      BY <1>4 DEF insertVars
    <2>2. Typed'
      BY <2>1 DEF NInv, Typed, inputs
    <2>3. Positioned'
      BY <2>1, SameRange DEF NInv, Positioned, inputs
    <2>4. Contents' /\ NoRowTwice'
      BY <2>1, SameRange DEF NInv, Contents, NoRowTwice, Settled, Holds, inputs
    <2> QED BY <2>2, <2>3, <2>4 DEF NInv
  <1> QED BY <1>1, <1>2, <1>3, <1>4 DEF Next, vars

\* The invariant above holds of every rewrite and every compaction's wait.
THEOREM InsertInvariant == Spec => []NInv
  <1>1. Init => NInv
    BY InitNInv, OverNInv DEF Init
  <1> QED BY <1>1, NextNInv, PTL DEF Spec

-----------------------------------------------------------------------------
(* What it says about the rows of a part.                                   *)

\* A table that holds no prefix of the source is empty.
LEMMA EmptyTable ==
  ASSUME NEW t \in [Row -> Nat], Holds(t, 0)
  PROVE  t = Empty
  <1>1. \A r \in Row : t[r] = 0
    BY RowsAreNaturals DEF Holds
  <1> QED BY <1>1 DEF Empty

\* The inductive invariant implies the one the run checks.
LEMMA NInvMeansInsertInv == NInv => InsertInv
  <1> SUFFICES ASSUME NInv PROVE InsertInv
    OBVIOUS
  <1>1. /\ rows \in Nat /\ chunks \in Nat \ {0} /\ start \in 0..rows /\ percent \in start..rows
        /\ chunk = chunks => start = rows
    BY Position DEF NInv, Positioned
  <1>2. InsertTypeOK
    BY <1>1 DEF NInv, Typed, Positioned, InsertTypeOK
  <1>3. CompleteWhenDone
    BY EmptyTable DEF NInv, Typed, Contents, Holds, CompleteWhenDone
  <1>4. ProgressKeepsCompleted
    BY <1>1 DEF ProgressKeepsCompleted
  <1>5. ChunksAreEven
    <2>1. rows \div chunks \in Nat
      BY <1>1, Division
    <2>2. end - start \in {rows \div chunks, rows \div chunks + 1}
      BY <1>1, <2>1 DEF end
    <2>3. ASSUME chunks > 1 PROVE parts = 1 /\ rows \div chunks >= minRows
      <3>1. EffectiveMinRows \in Nat
        BY InsertAssumption DEF InsertAssumption, NInv, Typed, EffectiveMinRows
      <3>2. EffectiveMinRows > 0 /\ rows \div chunks >= EffectiveMinRows
        BY <1>1, <2>3, <3>1, LongEnough DEF chunks
      <3> QED BY <3>2 DEF EffectiveMinRows, NInv, Typed
    <2>4. minRows \in Nat
      BY InsertAssumption DEF InsertAssumption, NInv, Typed
    <2>5. chunks > 1 => end - start >= minRows /\ parts = 1
      BY <1>1, <2>1, <2>2, <2>3, <2>4
    <2> QED BY <1>1, <2>2, <2>5 DEF ChunksAreEven
  <1> QED BY <1>2, <1>3, <1>4, <1>5 DEF NInv, InsertInv

\* Whatever fails and is retried, with whichever settings, and however the source
\* is split: no row is written twice, an insert that reports success has every
\* row of the source in the destination, and the ranges cover the source.
THEOREM InsertsEveryRowOnce == Spec => []InsertInv
  BY InsertInvariant, NInvMeansInsertInv, PTL

\* Truncating the staging table after a failed attempt discards rows of that
\* attempt only, and the table dropped at the end is empty.
THEOREM RetriesKeepPromotedRows == Spec => DiscardsNoCompletedRow
  <1>1. ASSUME NInv, DropStaging PROVE completed = Empty
    BY <1>1, EmptyTable DEF NInv, Typed, Contents, DropStaging
  <1>2. ASSUME NInv, ResetDestinationTable, NEW r \in Row, dest[r] > 0 PROVE r >= start
    BY <1>2, Position, RowsAreNaturals
    DEF NInv, Positioned, Contents, ResetDestinationTable
  <1>3. ASSUME NInv, [Next]_vars
        PROVE  [/\ DropStaging => completed = Empty
                /\ ResetDestinationTable => \A r \in Row : dest[r] > 0 => r >= start]_insertVars
    BY <1>1, <1>2, <1>3
  <1> QED BY <1>3, InsertInvariant, PTL DEF Spec, DiscardsNoCompletedRow
-----------------------------------------------------------------------------
(* The wait for merges: the number of parts as a measure.                   *)

\* The tables a wait may find.
TableType == [Partition -> [Size -> Nat]]

\* What the parts of a table are.
LEMMA InParts ==
  ASSUME NEW t \in TableType, NEW v
  PROVE  v \in Parts(t) <=> \E q \in Partition, s \in Size : \E i \in 1..t[q][s] : v = <<<<q, s>>, i>>
  <1> DEFINE Group(x) == {x} \X (1..t[x[1]][x[2]])
  <1>1. v \in Parts(t) <=> \E x \in Partition \X Size : v \in Group(x)
    BY DEF Parts
  <1>2. ASSUME NEW q \in Partition, NEW s \in Size
        PROVE  v \in Group(<<q, s>>) <=> \E i \in 1..t[q][s] : v = <<<<q, s>>, i>>
    OBVIOUS
  <1> HIDE DEF Group
  <1>3. (\E x \in Partition \X Size : v \in Group(x))
           <=> \E q \in Partition, s \in Size : v \in Group(<<q, s>>)
    <2>1. \A x \in Partition \X Size : \E q \in Partition, s \in Size : x = <<q, s>>
      OBVIOUS
    <2>2. \A q \in Partition, s \in Size : <<q, s>> \in Partition \X Size
      OBVIOUS
    <2> QED BY <2>1, <2>2, Zenon
  <1> QED BY <1>1, <1>2, <1>3

\* Their number is a natural number.
LEMMA PartsFinite ==
  ASSUME NEW t \in TableType
  PROVE  IsFiniteSet(Parts(t)) /\ Cardinality(Parts(t)) \in Nat
  <1> DEFINE P == Partition \X Size
             At == [x \in P |-> {x} \X (1..t[x[1]][x[2]])]
             Groups == {{x} \X (1..t[x[1]][x[2]]) : x \in P}
  <1>1. IsFiniteSet(Partition) /\ IsFiniteSet(Size)
    BY MergeWaitAssumption, FS_Interval DEF MergeWaitAssumption, Size
  <1>2. IsFiniteSet(P)
    BY <1>1, FS_Product
  <1>3. \A x \in P : t[x[1]][x[2]] \in Nat
    BY DEF TableType
  <1> HIDE DEF P
  <1>4. At \in Surjection(P, Groups)
    BY DEF Surjection
  <1>5. IsFiniteSet(Groups)
    BY <1>2, <1>4, FS_Surjection
  <1>6. ASSUME NEW x \in P
        PROVE  IsFiniteSet({x} \X (1..t[x[1]][x[2]]))
    <2>1. t[x[1]][x[2]] \in Int
      BY <1>3
    <2>2. IsFiniteSet(1..t[x[1]][x[2]])
      BY <2>1, FS_Interval
    <2> QED BY <2>2, FS_Singleton, FS_Product
  <1>7. \A T \in Groups : IsFiniteSet(T)
    BY <1>6
  <1>8. IsFiniteSet(UNION Groups)
    BY <1>5, <1>7, FS_UNION
  <1> QED BY <1>8, FS_CardinalityType DEF Parts, P

\* So is the number of those of one partition.
LEMMA PartsInType ==
  ASSUME table \in TableType, NEW q \in Partition
  PROVE  PartsIn(q) \in Nat
  <1>1. IsFiniteSet(Parts(table))
    BY PartsFinite
  <1>2. IsFiniteSet({p \in Parts(table) : p[1][1] = q})
    BY <1>1, FS_Subset
  <1> QED BY <1>2, FS_CardinalityType DEF PartsIn

\* What a completed merge makes of a table.
Merged(t, q, a, b) == [t EXCEPT ![q] = [s \in Size |->
  @[s] - (IF s = a THEN 1 ELSE 0) - (IF s = b THEN 1 ELSE 0) + (IF s = a + b THEN 1 ELSE 0)]]

\* Two parts that a merge may take.
Pair(t, q, a, b) == a <= b /\ t[q][a] >= (IF a = b THEN 2 ELSE 1) /\ t[q][b] >= 1

\* A completed merge leaves fewer parts.
LEMMA MergedFewer ==
  ASSUME NEW t \in TableType, NEW q \in Partition, NEW a \in Size, NEW b \in Size, Pair(t, q, a, b)
  PROVE  /\ Merged(t, q, a, b) \in TableType
         /\ Cardinality(Parts(Merged(t, q, a, b))) < Cardinality(Parts(t))
  <1> DEFINE u == Merged(t, q, a, b)
             x == <<<<q, a>>, t[q][a]>>
             y == <<<<q, b>>, IF a = b THEN t[q][b] - 1 ELSE t[q][b]>>
             z == <<<<q, a + b>>, t[q][a + b] + 1>>
             S == Parts(t)
  <1>1. a \in Nat \ {0} /\ b \in Nat \ {0} /\ \A s \in Size : s \in Nat
    BY MergeWaitAssumption DEF MergeWaitAssumption, Size
  <1>2. /\ t[q][a] \in Nat /\ t[q][b] \in Nat
        /\ t[q][a] >= 1 /\ t[q][b] >= 1 /\ (a = b => t[q][b] >= 2)
    BY DEF TableType, Pair
  <1>3. u \in TableType
    <2>1. ASSUME NEW s \in Size
          PROVE  t[q][s] - (IF s = a THEN 1 ELSE 0) - (IF s = b THEN 1 ELSE 0)
                   + (IF s = a + b THEN 1 ELSE 0) \in Nat
      BY <1>1, <1>2 DEF TableType
    <2> QED BY <2>1 DEF Merged, TableType
  <1>4. \A p \in Partition : p # q => u[p] = t[p]
    BY DEF Merged, TableType
  <1>5. \A s \in Size : u[q][s] = t[q][s] - (IF s = a THEN 1 ELSE 0) - (IF s = b THEN 1 ELSE 0)
                                   + (IF s = a + b THEN 1 ELSE 0)
    BY DEF Merged, TableType
  <1>6. x \in S /\ y \in S /\ x # y
    BY <1>2, InParts
  <1>7. ASSUME NEW v \in Parts(u) PROVE v \in ((S \ {x}) \ {y}) \cup {z}
    <2>1. PICK p \in Partition, s \in Size : \E j \in 1..u[p][s] : v = <<<<p, s>>, j>>
      BY <1>3, InParts
    <2>2. PICK j \in 1..u[p][s] : v = <<<<p, s>>, j>>
      BY <2>1
    <2>3. CASE p # q
      BY <1>4, <2>2, <2>3, InParts
    <2>4. CASE p = q
      <3>1. t[q][s] \in Nat /\ s \in Nat
        BY <1>1 DEF TableType
      <3>2. CASE s = a + b
        <4>1. s # a /\ s # b
          BY <1>1, <3>2
        <4>2. u[q][s] = t[q][s] + 1
          BY <1>5, <3>1, <3>2, <4>1
        <4>3. CASE j = t[q][s] + 1
          BY <2>2, <2>4, <3>2, <4>3
        <4>4. CASE j # t[q][s] + 1
          <5>1. j \in 1..t[q][s]
            BY <2>2, <2>4, <3>1, <4>2, <4>4
          <5>2. v \in S
            BY <2>2, <2>4, <5>1, InParts
          <5> QED BY <2>2, <4>1, <5>2
        <4> QED BY <4>3, <4>4
      <3>3. CASE s # a + b
        <4>1. u[q][s] = t[q][s] - (IF s = a THEN 1 ELSE 0) - (IF s = b THEN 1 ELSE 0)
          BY <1>5, <3>1, <3>3
        <4>2. j \in 1..t[q][s]
          BY <2>2, <2>4, <3>1, <4>1
        <4>3. v \in S
          BY <2>2, <2>4, <4>2, InParts
        <4>4. s = a => j # t[q][a]
          BY <2>2, <2>4, <3>1, <4>1, <4>2
        <4>5. s = b => j # (IF a = b THEN t[q][b] - 1 ELSE t[q][b])
          BY <2>2, <2>4, <3>1, <4>1, <4>2
        <4> QED BY <2>2, <4>3, <4>4, <4>5
      <3> QED BY <3>2, <3>3
    <2> QED BY <2>3, <2>4
  <1> HIDE DEF u, x, y, z, S
  <1>8. IsFiniteSet(S) /\ Cardinality(S) \in Nat
    BY PartsFinite DEF S
  <1>9. IsFiniteSet(S \ {x}) /\ Cardinality(S \ {x}) = Cardinality(S) - 1
    BY <1>6, <1>8, FS_RemoveElement
  <1>10. IsFiniteSet((S \ {x}) \ {y}) /\ Cardinality((S \ {x}) \ {y}) = Cardinality(S) - 2
    <2>1. y \in S \ {x}
      BY <1>6
    <2>2. Cardinality((S \ {x}) \ {y}) = (Cardinality(S) - 1) - 1
      BY <1>9, <2>1, FS_RemoveElement
    <2> QED BY <1>8, <1>9, <2>2, FS_RemoveElement
  <1>11. /\ IsFiniteSet(((S \ {x}) \ {y}) \cup {z})
         /\ Cardinality(((S \ {x}) \ {y}) \cup {z}) <= Cardinality(S) - 1
    <2> DEFINE R == (S \ {x}) \ {y}
    <2>1. IsFiniteSet(R) /\ Cardinality(R) = Cardinality(S) - 2
      BY <1>10
    <2> HIDE DEF R
    <2>2. /\ IsFiniteSet(R \cup {z})
          /\ Cardinality(R \cup {z}) = IF z \in R THEN Cardinality(R) ELSE Cardinality(R) + 1
      BY <2>1, FS_AddElement
    <2>3. Cardinality(R \cup {z}) <= Cardinality(S) - 1
      BY <1>8, <2>1, <2>2
    <2> QED BY <2>2, <2>3 DEF R
  <1>12. Cardinality(Parts(u)) <= Cardinality(((S \ {x}) \ {y}) \cup {z})
    BY <1>7, <1>11, FS_Subset
  <1>13. Cardinality(Parts(u)) \in Nat /\ Cardinality(((S \ {x}) \ {y}) \cup {z}) \in Nat
    BY <1>3, <1>11, PartsFinite, FS_CardinalityType
  <1>14. Cardinality(Parts(u)) < Cardinality(S)
    BY <1>8, <1>11, <1>12, <1>13
  <1> QED BY <1>3, <1>14 DEF u, S

\* The smallest of some natural numbers.
LEMMA MinOfNaturals ==
  ASSUME NEW S \in SUBSET Nat, S # {}
  PROVE  Min(S) \in S /\ \A n \in S : Min(S) <= n
  <1>1. PICK m \in S : \A n \in S : ~(<<n, m>> \in OpToRel(<, Nat))
    BY NatLessThanWellFounded, WFMin
  <1>2. \A n \in S : ~(n < m)
    BY <1>1 DEF OpToRel
  <1>3. m \in Nat /\ \A n \in S : n \in Nat
    OBVIOUS
  <1>4. \A n \in S : m <= n
    BY <1>2, <1>3
  <1> QED BY <1>4 DEF Min

\* Where destinationHasMergeablePartsBelowTarget finds nothing, no two parts of a
\* partition above MinParts fit the target together.
LEMMA NothingMergeable ==
  ASSUME table \in TableType, NEW q \in Partition, ~Mergeable(q), PartsIn(q) > MinParts,
         NEW a \in Size, NEW b \in Size,
         table[q][a] >= 1, table[q][b] >= (IF a = b THEN 2 ELSE 1)
  PROVE  a + b > TargetBytes
  <1> DEFINE A == {s \in Size : table[q][s] > 0}
             B == {s \in Size \ {Smallest(q)} : table[q][s] > 0}
  <1>1. /\ \A s \in Size : s \in Nat \ {0} /\ table[q][s] \in Nat
        /\ TargetBytes \in Nat /\ MinParts \in Nat \ {0}
    BY MergeWaitAssumption DEF MergeWaitAssumption, Size, TableType
  <1>2. a \in A /\ b \in A
    BY <1>1
  <1>3. A \subseteq Nat /\ B \subseteq Nat
    BY <1>1
  <1>4. Smallest(q) \in A /\ Smallest(q) <= a /\ Smallest(q) <= b
    BY <1>2, <1>3, MinOfNaturals DEF Smallest
  <1>5. PartsIn(q) >= 2
    BY <1>1, PartsInType
  <1>6. Second(q) \in Size /\ a + b >= Smallest(q) + Second(q)
    <2>1. CASE table[q][Smallest(q)] > 1
      <3>1. Second(q) = Smallest(q)
        BY <2>1 DEF Second
      <3> QED BY <1>1, <1>4, <3>1
    <2>2. CASE ~(table[q][Smallest(q)] > 1)
      <3>1. Second(q) = Min(B)
        BY <2>2 DEF Second
      <3>2. a \in B \/ b \in B
        BY <1>1, <1>2, <2>2
      <3>3. Second(q) \in B /\ \A s \in B : Second(q) <= s
        BY <1>3, <3>1, <3>2, MinOfNaturals
      <3>4. Second(q) \in Size
        BY <3>3
      <3>5. Second(q) <= a \/ Second(q) <= b
        BY <3>2, <3>3
      <3> QED BY <1>1, <1>4, <3>4, <3>5
    <2> QED BY <2>1, <2>2
  <1>7. ~(Second(q) <= TargetBytes /\ Smallest(q) <= TargetBytes - Second(q))
    BY <1>5 DEF Mergeable
  <1>8. Smallest(q) \in Nat /\ Second(q) \in Nat /\ a \in Nat /\ b \in Nat
    BY <1>1, <1>4, <1>6
  <1> QED BY <1>1, <1>6, <1>7, <1>8

-----------------------------------------------------------------------------
(* The wait for merges: its inductive invariant.                            *)

\* The loop's variables; before the insert is over the wait has not begun.
WaitTyped ==
  /\ patient \in BOOLEAN /\ pressure \in BOOLEAN
  /\ table \in TableType
  /\ now \in Nat /\ at \in 0..now /\ left \in Nat /\ count \in 0..1
  /\ loop \in {"none", "count", "snapshot", "parts", "sleep", "done"}
  /\ loop = "none" <=> pc # "over"
  /\ moved \in BOOLEAN /\ quietSince \in 0..at
  /\ zeroSince \in {Never} \cup 0..at
  /\ baseDeadline \in Timeout..at + Timeout
  /\ loop = "none" => /\ merging = NoMerge
                      /\ seen = NoSnapshot /\ zeroSince = Never
  /\ reason # "none" => loop = "done"

\* The parts that are being merged are still there.
PairHeld ==
  merging # NoMerge =>
    \E q \in Partition, a, b \in Size :
      merging = [partition |-> q, a |-> a, b |-> b] /\ Pair(table, q, a, b)

\* A snapshot says whether the table has changed since: a change costs a part.
FewerSince(snapshot) ==
  /\ snapshot.parts \in Nat /\ Snapshot.parts <= snapshot.parts
  /\ moved => Snapshot.parts < snapshot.parts

\* Both timers hold a snapshot that tells a change, and run since the last one.
Timed ==
  /\ seen # NoSnapshot => FewerSince(seen) /\ quietSince <= baseDeadline - Timeout
  /\ zeroSince # Never => FewerSince(zeroSeen) /\ quietSince <= zeroSince

\* The parts are listed only by a poll that measured MinWait without a merge.
Listing == loop = "parts" => count = 0 /\ at - quietSince >= MinWait /\ seen # NoSnapshot

WInv ==
  /\ WaitTyped /\ PairHeld /\ Timed /\ Listing
  /\ HardCap /\ IdleMeansIdle /\ SettledMeansSettled

\* The first count of a snapshot.
LEMMA SnapshotParts == Snapshot.parts = Cardinality(Parts(table))
  BY DEF Snapshot

\* A snapshot that was taken is not the missing one.
LEMMA SnapshotTaken ==
  ASSUME table \in TableType
  PROVE  Snapshot.parts \in Nat /\ Snapshot # NoSnapshot
  <1>1. Snapshot.parts \in Nat
    BY SnapshotParts, PartsFinite
  <1>2. NoSnapshot.parts \notin Nat
    BY DEF NoSnapshot
  <1> QED BY <1>1, <1>2

\* The durations, and the deadlines made of them.
LEMMA Durations ==
  /\ Timeout \in Nat \ {0} /\ MinWait \in Nat \ {0} /\ Poll \in Nat \ {0}
  /\ MaxTimeout \in Nat \ {0} /\ maxDeadline \in Nat /\ Never \notin Nat
  BY MergeWaitAssumption DEF MergeWaitAssumption, maxDeadline, Never

\* Steps that leave ClickHouse and the timers alone keep what the timers say.
LEMMA TimedKept ==
  ASSUME WInv, UNCHANGED <<table, moved, timers>>
  PROVE  Timed'
  <1>1. Snapshot'.parts = Snapshot.parts
    BY SnapshotParts DEF Snapshot
  <1> QED BY <1>1 DEF WInv, Timed, FewerSince, timers

\* Steps before the wait ends keep what its end says, and so do steps after it.
LEMMA EndKept ==
  ASSUME WInv, reason' = reason,
         loop = "done" => UNCHANGED <<table, quietSince, at, count>>
  PROVE  IdleMeansIdle' /\ SettledMeansSettled'
  <1>1. CASE reason = "none"
    BY <1>1 DEF IdleMeansIdle, SettledMeansSettled
  <1>2. CASE reason # "none"
    <2>1. UNCHANGED <<table, quietSince, at, count>>
      BY <1>2 DEF WInv, WaitTyped
    <2>2. \A q \in Partition : PartsIn(q)' = PartsIn(q)
      BY <2>1 DEF PartsIn, Parts
    <2> QED BY <2>1, <2>2 DEF WInv, IdleMeansIdle, SettledMeansSettled
  <1> QED BY <1>1, <1>2

\* A wait that ends for another reason says nothing of idleness.
LEMMA EndOther ==
  ASSUME reason' \in {"none", "error", "cancelled", "no_active_destination_merges",
                      "active_parts_settled", "merge_max_timeout"}
  PROVE  IdleMeansIdle' /\ SettledMeansSettled'
  BY DEF IdleMeansIdle, SettledMeansSettled

\* The wait begins with nothing measured.
LEMMA InitWInv == Init => WInv
  <1> SUFFICES ASSUME Init PROVE WInv
    OBVIOUS
  <1>1. Begins /\ pressure \in BOOLEAN /\ patient \in BOOLEAN
    BY DEF Init
  <1>2. table \in TableType
    BY MergeWaitAssumption DEF MergeWaitAssumption, Init, NoTable, TableType
  <1>3. loop \in {"none", "count"} /\ (loop = "none" <=> pc # "over")
    BY DEF Init, InsertInit, InsertOver
  <1>4. WaitTyped
    BY <1>1, <1>2, <1>3, Durations DEF Begins, WaitTyped
  <1>5. PairHeld /\ Timed /\ Listing /\ HardCap /\ IdleMeansIdle /\ SettledMeansSettled
    BY <1>1, <1>3
    DEF Begins, PairHeld, Timed, Listing, HardCap, IdleMeansIdle, SettledMeansSettled
  <1> QED BY <1>4, <1>5 DEF WInv

\* The insert does not touch the wait.
LEMMA InsertingWInv ==
  ASSUME WInv, UNCHANGED waitVars, pc = "over" <=> pc' = "over"
  PROVE  WInv'
  <1>1. /\ UNCHANGED <<patient, pressure, table, merging, moved>>
        /\ UNCHANGED <<now, loop, at, left, count, timers, reason>>
        /\ UNCHANGED <<seen, zeroSeen, zeroSince, baseDeadline, quietSince>>
    BY DEF waitVars, choices, clickhouse, timers
  <1>2. WaitTyped' /\ PairHeld' /\ Listing' /\ HardCap'
    BY <1>1 DEF WInv, WaitTyped, PairHeld, Pair, Listing, HardCap
  <1>3. Timed'
    BY <1>1, TimedKept
  <1> QED BY <1>1, <1>2, <1>3, EndKept DEF WInv

\* A rewrite's wait begins after its insert.
LEMMA WaitAfterInsertWInv == WInv /\ WaitAfterInsert => WInv'
  <1> SUFFICES ASSUME WInv, WaitAfterInsert PROVE WInv'
    OBVIOUS
  <1>1. loop = "none"
    BY DEF WInv, WaitTyped, WaitAfterInsert
  <1>2. /\ table' \in TableType /\ loop' = "count" /\ pc' = "over" /\ pressure' \in BOOLEAN
        /\ UNCHANGED <<patient, merging, moved, now, at, left, count, reason>>
        /\ UNCHANGED <<seen, zeroSeen, zeroSince, baseDeadline, quietSince>>
    BY MergeWaitAssumption
    DEF MergeWaitAssumption, WaitAfterInsert, ForgetInsert, timers, TableType
  <1>3. merging = NoMerge /\ seen = NoSnapshot /\ zeroSince = Never /\ reason = "none"
    BY <1>1 DEF WInv, WaitTyped
  <1>4. WaitTyped'
    BY <1>2, <1>3 DEF WInv, WaitTyped
  <1>5. PairHeld' /\ Timed' /\ Listing' /\ HardCap' /\ IdleMeansIdle' /\ SettledMeansSettled'
    BY <1>2, <1>3 DEF PairHeld, Timed, Listing, HardCap, IdleMeansIdle, SettledMeansSettled
  <1> QED BY <1>4, <1>5 DEF WInv

\* ClickHouse selects two parts that are there.
LEMMA MergeStartsWInv == WInv /\ MergeStarts /\ UNCHANGED insertVars => WInv'
  <1> SUFFICES ASSUME WInv, MergeStarts, UNCHANGED insertVars PROVE WInv'
    OBVIOUS
  <1>1. /\ UNCHANGED <<patient, pressure, table, moved, pc>> /\ loop # "none"
        /\ UNCHANGED <<now, loop, at, left, count, timers, reason>>
        /\ UNCHANGED <<seen, zeroSeen, zeroSince, baseDeadline, quietSince>>
    BY DEF MergeStarts, choices, timers, insertVars
  <1>2. WaitTyped' /\ Listing' /\ HardCap'
    BY <1>1 DEF WInv, WaitTyped, Listing, HardCap
  <1>3. PICK q \in Partition, a \in Size, b \in Size :
          Pair(table, q, a, b) /\ merging' = [partition |-> q, a |-> a, b |-> b]
    BY DEF MergeStarts, Pair
  <1>4. PairHeld'
    BY <1>1, <1>3 DEF PairHeld, Pair
  <1>5. Timed'
    BY <1>1, TimedKept
  <1> QED BY <1>1, <1>2, <1>4, <1>5, EndKept DEF WInv

\* A completed merge shows in the number of parts, whatever was measured before.
LEMMA MergeEndsWInv == WInv /\ MergeEnds /\ UNCHANGED insertVars => WInv'
  <1> SUFFICES ASSUME WInv, MergeEnds, UNCHANGED insertVars PROVE WInv'
    OBVIOUS
  <1>1. /\ UNCHANGED <<patient, pressure, pc>> /\ merging' = NoMerge /\ merging # NoMerge
        /\ loop # "done"
        /\ UNCHANGED <<now, loop, at, left, count, timers, reason>>
        /\ UNCHANGED <<seen, zeroSeen, zeroSince, baseDeadline, quietSince>>
    BY DEF MergeEnds, choices, timers, insertVars
  <1>2. PairHeld' /\ Listing' /\ HardCap' /\ IdleMeansIdle' /\ SettledMeansSettled'
    BY <1>1, EndKept DEF WInv, PairHeld, Listing, HardCap
  <1>3. CASE UNCHANGED <<table, moved>>
    <2>1. WaitTyped'
      BY <1>1, <1>3 DEF WInv, WaitTyped
    <2>2. Timed'
      BY <1>1, <1>3, TimedKept
    <2> QED BY <1>2, <2>1, <2>2 DEF WInv
  <1>4. CASE ~UNCHANGED <<table, moved>>
    <2>1. PICK q \in Partition, a \in Size, b \in Size :
            merging = [partition |-> q, a |-> a, b |-> b] /\ Pair(table, q, a, b)
      BY <1>1 DEF WInv, PairHeld
    <2>2. merging.partition = q /\ merging.a = a /\ merging.b = b
      BY <2>1
    <2>3. table' = Merged(table, q, a, b) /\ moved' = TRUE
      BY <1>4, <2>2 DEF MergeEnds, Merged
    <2>4. table \in TableType
      BY DEF WInv, WaitTyped
    <2>5. table' \in TableType /\ Cardinality(Parts(table')) < Cardinality(Parts(table))
      BY <2>1, <2>3, <2>4, MergedFewer
    <2>6. Cardinality(Parts(table)) \in Nat /\ Cardinality(Parts(table')) \in Nat
      BY <2>4, <2>5, PartsFinite
    <2>7. WaitTyped'
      BY <1>1, <2>3, <2>5 DEF WInv, WaitTyped
    <2>8. Snapshot'.parts < Snapshot.parts /\ Snapshot'.parts \in Nat /\ Snapshot.parts \in Nat
      BY <2>5, <2>6, SnapshotParts DEF Snapshot
    <2>9. Timed'
      BY <1>1, <2>8 DEF WInv, Timed, FewerSince
    <2> QED BY <1>2, <2>7, <2>9 DEF WInv
  <1> QED BY <1>3, <1>4

\* The count, the clock and the sleep leave the measurements alone.
LEMMA ReadsWInv ==
  WInv /\ (ReadCount \/ ReadMemoryError \/ QueryRuns \/ Tick \/ Wake) /\ UNCHANGED insertVars
    => WInv'
  <1> SUFFICES ASSUME WInv, ReadCount \/ ReadMemoryError \/ QueryRuns \/ Tick \/ Wake,
                      UNCHANGED insertVars
               PROVE  WInv'
    OBVIOUS
  <1>1. /\ UNCHANGED <<patient, pressure, table, merging, moved, pc, timers, reason>>
        /\ UNCHANGED <<seen, zeroSeen, zeroSince, baseDeadline, quietSince>>
        /\ loop \notin {"none", "done"}
    BY DEF ReadCount, ReadMemoryError, QueryRuns, Tick, Wake, choices, clickhouse, timers,
           insertVars
  <1>2. /\ now' \in {now, now + 1} /\ at' \in {at, now} /\ count' \in 0..1 /\ left' \in Nat
        /\ loop' \in {"count", "snapshot", "parts", "sleep"}
    BY Durations
    DEF ReadCount, ReadMemoryError, QueryRuns, Tick, Wake, WInv, WaitTyped
  <1>3. WaitTyped'
    <2>1. /\ now \in Nat /\ at \in 0..now /\ quietSince \in 0..at
          /\ zeroSince \in {Never} \cup 0..at /\ baseDeadline \in Timeout..at + Timeout
      BY DEF WInv, WaitTyped
    <2> DEFINE later == now'
               seenAt == at'
    <2>2. later \in Nat /\ seenAt \in 0..later /\ seenAt >= at
      BY <1>2, <2>1
    <2> HIDE DEF later, seenAt
    <2>3. /\ quietSince \in 0..seenAt /\ zeroSince \in {Never} \cup 0..seenAt
          /\ baseDeadline \in Timeout..seenAt + Timeout
      BY <2>1, <2>2, Durations
    <2> QED BY <1>1, <1>2, <2>2, <2>3 DEF WInv, WaitTyped, later, seenAt
  <1>4. PairHeld'
    BY <1>1 DEF WInv, PairHeld
  <1>5. HardCap'
    <2>1. loop' = "sleep" /\ ~pressure => loop = "sleep" /\ at' = at /\ left' = left - 1
      BY <1>1 DEF ReadCount, ReadMemoryError, QueryRuns, Tick, Wake
    <2>2. at \in Nat /\ left \in Nat /\ maxDeadline \in Nat
      BY Durations DEF WInv, WaitTyped
    <2> QED BY <1>1, <2>1, <2>2 DEF WInv, HardCap, maxDeadline
  <1>6. Listing'
    BY <1>1 DEF WInv, Listing, ReadCount, ReadMemoryError, QueryRuns, Tick, Wake
  <1>7. Timed'
    BY <1>1, TimedKept
  <1> QED BY <1>1, <1>3, <1>4, <1>5, <1>6, <1>7, EndKept DEF WInv

\* An error or a cancelled context ends the wait.
LEMMA StopsWInv == WInv /\ (ReadFails \/ Cancelled) /\ UNCHANGED insertVars => WInv'
  <1> SUFFICES ASSUME WInv, ReadFails \/ Cancelled, UNCHANGED insertVars
               PROVE  WInv'
    OBVIOUS
  <1>1. /\ UNCHANGED <<patient, pressure, table, merging, moved, pc, now, at, left, count, timers>>
        /\ UNCHANGED <<seen, zeroSeen, zeroSince, baseDeadline, quietSince>>
        /\ loop \notin {"none", "done"} /\ loop' = "done" /\ reason' \in {"error", "cancelled"}
    BY DEF ReadFails, Cancelled, choices, clickhouse, timers, insertVars
  <1>2. WaitTyped' /\ PairHeld' /\ Listing' /\ HardCap'
    BY <1>1 DEF WInv, WaitTyped, PairHeld, Pair, Listing, HardCap
  <1>3. Timed'
    BY <1>1, TimedKept
  <1> QED BY <1>1, <1>2, <1>3, EndOther DEF WInv

\* The sleep ends at the latest with the nearest deadline to come.
LEMMA Sleeps ==
  ASSUME NEW deadline \in Nat, at \in Nat
  PROVE  /\ SleepDuration(deadline) \in Nat
         /\ at < maxDeadline => at + SleepDuration(deadline) <= maxDeadline
  <1> DEFINE Ahead == {d \in {deadline, maxDeadline} : d > at}
             S == {Poll} \cup {d - at : d \in Ahead}
  <1>1. S \subseteq Nat /\ Poll \in S
    BY Durations
  <1>2. Min(S) \in S /\ \A n \in S : Min(S) <= n
    BY <1>1, MinOfNaturals
  <1>3. SleepDuration(deadline) = Min(S)
    BY DEF SleepDuration
  <1>4. at < maxDeadline => maxDeadline - at \in S
    OBVIOUS
  <1> HIDE DEF S
  <1>5. Min(S) \in Nat /\ (at < maxDeadline => Min(S) <= maxDeadline - at)
    BY <1>1, <1>2, <1>4
  <1>6. maxDeadline \in Nat
    BY Durations
  <1> QED BY <1>3, <1>5, <1>6

\* What the deadlines decide.
LEMMA OverdueMeans ==
  ASSUME NEW deadline
  PROVE  /\ Overdue(deadline) = "merge_timeout" => at >= deadline
         /\ Overdue(deadline) = "wait" => ~(at >= maxDeadline)
         /\ Overdue(deadline) \in {"merge_max_timeout", "merge_timeout", "wait"}
  BY DEF Overdue

\* A conclusion ends the wait with its verdict, or sleeps within the maximum.
LEMMA Concluded ==
  ASSUME NEW deadline \in Nat, NEW verdict, Conclude(verdict, deadline), at \in Nat, left \in Nat,
         reason = "none", verdict = "wait" => ~(at >= maxDeadline)
  PROVE  /\ loop' \in {"sleep", "done"} /\ reason' \in {"none", verdict}
         /\ loop' = "sleep" => reason' = "none" /\ at + left' <= maxDeadline
         /\ left' \in Nat
  <1>1. CASE verdict = "wait"
    <2>1. loop' = "sleep" /\ left' = SleepDuration(deadline) /\ reason' = reason
      BY <1>1 DEF Conclude
    <2>2. at < maxDeadline
      BY <1>1, Durations
    <2> QED BY <2>1, <2>2, Sleeps
  <1>2. CASE verdict # "wait"
    BY <1>2 DEF Conclude
  <1> QED BY <1>1, <1>2

\* What the first two queries decide, and from which state.
LEMMA Verdicts ==
  /\ Verdict = "merge_timeout" => at >= base
  /\ Verdict = "idle" => count = 0 /\ patient /\ at - IdleSince >= MinWait
  /\ Verdict = "wait" => ~(at >= maxDeadline)
  /\ Verdict \in {"no_active_destination_merges", "active_parts_settled", "idle",
                  "merge_max_timeout", "merge_timeout", "wait"}
  BY OverdueMeans DEF Verdict

\* A poll measures from its snapshot, and gives up only on what it measured.
LEMMA ReadSnapshotWInv == WInv /\ ReadSnapshot /\ UNCHANGED insertVars => WInv'
  <1> SUFFICES ASSUME WInv, ReadSnapshot, UNCHANGED insertVars PROVE WInv'
    OBVIOUS
  <1>1. /\ UNCHANGED <<patient, pressure, table, merging, pc, now, at, count>>
        /\ loop = "snapshot" /\ baseDeadline' = base /\ seen' = (IF Active THEN Snapshot ELSE seen)
        /\ moved' = FALSE /\ quietSince' = (IF moved \/ count > 0 THEN at ELSE quietSince)
    BY DEF ReadSnapshot, choices, insertVars
  <1>2. /\ table \in TableType /\ at \in Nat /\ count \in 0..1 /\ moved \in BOOLEAN
        /\ baseDeadline \in Timeout..at + Timeout /\ zeroSince \in {Never} \cup 0..at
        /\ quietSince \in 0..at /\ reason = "none" /\ left \in Nat
    BY <1>1 DEF WInv, WaitTyped
  <1>3. base \in Timeout..at + Timeout /\ base \in Nat
    BY <1>2, Durations DEF base
  <1>4. IdleSince \in 0..at
    BY <1>2 DEF IdleSince
  <1>5. Snapshot.parts \in Nat /\ Snapshot # NoSnapshot
    BY <1>2, SnapshotTaken
  <1>6. Snapshot'.parts = Snapshot.parts
    BY <1>1, SnapshotParts DEF Snapshot
  <1>7. /\ zeroSince' \in {Never} \cup 0..at
        /\ zeroSince' # Never => count = 0 /\ zeroSince' = IdleSince /\ zeroSeen' = Snapshot
    BY <1>4 DEF ReadSnapshot
  <1>8. seen' = Snapshot
    BY <1>1 DEF Active
  <1>9. quietSince' \in 0..at
    BY <1>1, <1>2
  <1>10. quietSince' <= base - Timeout
    <2>1. CASE Active
      BY <1>2, <1>9, <2>1, Durations DEF base
    <2>2. CASE ~Active
      <3>1. base = baseDeadline /\ seen = Snapshot /\ ~(count > 0)
        BY <2>2 DEF base, Active
      <3>2. ~moved /\ quietSince <= baseDeadline - Timeout
        BY <1>5, <3>1 DEF WInv, Timed, FewerSince
      <3> QED BY <1>1, <3>1, <3>2
    <2> QED BY <2>1, <2>2
  <1>11. count = 0 => quietSince' <= IdleSince
    <2>1. CASE zeroSince = Never \/ Snapshot # zeroSeen
      BY <1>2, <1>9, <2>1 DEF IdleSince
    <2>2. CASE ~(zeroSince = Never \/ Snapshot # zeroSeen)
      <3>1. IdleSince = zeroSince /\ zeroSince # Never /\ zeroSeen = Snapshot
        BY <2>2 DEF IdleSince
      <3>2. ~moved /\ quietSince <= zeroSince
        BY <1>5, <3>1 DEF WInv, Timed, FewerSince
      <3> QED BY <1>1, <3>1, <3>2
    <2> QED BY <2>1, <2>2
  <1>12. Timed'
    BY <1>1, <1>5, <1>6, <1>7, <1>8, <1>10, <1>11 DEF Timed, FewerSince
  <1>13. PairHeld'
    BY <1>1 DEF WInv, PairHeld
  <1>14. CASE Verdict = "idle"
    <2>1. loop' = "parts" /\ UNCHANGED <<left, reason>>
      BY <1>14 DEF ReadSnapshot
    <2>2. WaitTyped'
      BY <1>1, <1>2, <1>3, <1>7, <1>9, <2>1 DEF WInv, WaitTyped
    <2>3. count = 0 /\ at - IdleSince >= MinWait
      BY <1>14, Verdicts
    <2> DEFINE quiet == quietSince'
    <2>4. quiet \in Nat /\ quiet <= IdleSince
      BY <1>9, <1>11, <2>3
    <2> HIDE DEF quiet
    <2>5. at - quiet >= MinWait
      BY <1>2, <1>4, <2>3, <2>4, Durations
    <2>6. Listing' /\ HardCap'
      BY <1>1, <1>5, <1>8, <2>1, <2>3, <2>5 DEF Listing, HardCap, quiet
    <2>7. IdleMeansIdle' /\ SettledMeansSettled'
      BY <1>2, <2>1, EndOther
    <2> QED BY <1>12, <1>13, <2>2, <2>6, <2>7 DEF WInv
  <1>15. CASE Verdict # "idle"
    <2>1. Conclude(Verdict, base)
      BY <1>15 DEF ReadSnapshot
    <2>2. /\ loop' \in {"sleep", "done"} /\ reason' \in {"none", Verdict}
          /\ loop' = "sleep" => reason' = "none" /\ at + left' <= maxDeadline
          /\ left' \in Nat
      BY <1>2, <1>3, <2>1, Verdicts, Concluded
    <2>3. WaitTyped'
      BY <1>1, <1>2, <1>3, <1>7, <1>9, <2>2 DEF WInv, WaitTyped
    <2>4. Listing' /\ HardCap'
      BY <1>1, <2>2 DEF Listing, HardCap, maxDeadline
    <2>5. IdleMeansIdle' /\ SettledMeansSettled'
      <3>1. CASE Verdict = "merge_timeout"
        <4>1. at >= base
          BY <3>1, Verdicts
        <4>2. ~Active
          BY <1>2, <4>1, Durations DEF base
        <4> DEFINE quiet == quietSince'
        <4>3. quiet \in Nat /\ quiet <= base - Timeout
          BY <1>9, <1>10
        <4> HIDE DEF quiet
        <4>4. at - quiet >= Timeout
          BY <1>2, <1>3, <4>1, <4>3, Durations
        <4>5. count = 0
          BY <1>2, <4>2 DEF Active
        <4>6. IdleMeansIdle'
          BY <1>1, <4>4, <4>5 DEF IdleMeansIdle, quiet
        <4>7. SettledMeansSettled'
          BY <2>2, <3>1 DEF SettledMeansSettled
        <4> QED BY <4>6, <4>7
      <3>2. CASE Verdict # "merge_timeout"
        <4>1. Verdict \in {"no_active_destination_merges", "active_parts_settled",
                           "merge_max_timeout", "wait"}
          BY <1>15, <3>2, Verdicts
        <4>2. Verdict = "wait" => reason' = "none"
          BY <1>2, <2>1 DEF Conclude
        <4> QED BY <2>2, <4>1, <4>2, EndOther
      <3> QED BY <3>1, <3>2
    <2> QED BY <1>12, <1>13, <2>3, <2>4, <2>5 DEF WInv
  <1> QED BY <1>14, <1>15

\* The list of the parts settles the wait, or leaves it to the deadlines.
LEMMA ReadPartsWInv == WInv /\ ReadParts /\ UNCHANGED insertVars => WInv'
  <1> SUFFICES ASSUME WInv, ReadParts, UNCHANGED insertVars PROVE WInv'
    OBVIOUS
  <1> DEFINE found == IF HasMergeable THEN Overdue(baseDeadline)
                      ELSE "destination_merge_target_reached"
  <1>1. /\ UNCHANGED <<patient, pressure, table, merging, moved, pc, now, at, count, timers>>
        /\ UNCHANGED <<seen, zeroSeen, zeroSince, baseDeadline, quietSince>>
        /\ loop = "parts" /\ Conclude(found, baseDeadline)
    BY DEF ReadParts, choices, clickhouse, timers, insertVars
  <1>2. /\ table \in TableType /\ at \in Nat /\ baseDeadline \in Nat /\ left \in Nat
        /\ quietSince \in Nat /\ reason = "none"
    BY <1>1, Durations DEF WInv, WaitTyped
  <1>3. count = 0 /\ at - quietSince >= MinWait /\ quietSince <= baseDeadline - Timeout
    BY <1>1 DEF WInv, Listing, Timed
  <1>4. /\ found = "merge_timeout" => at >= baseDeadline
        /\ found = "wait" => ~(at >= maxDeadline)
        /\ found = "destination_merge_target_reached" => ~HasMergeable
        /\ found \in {"merge_max_timeout", "merge_timeout", "wait",
                      "destination_merge_target_reached"}
    BY OverdueMeans
  <1> HIDE DEF found
  <1>5. /\ loop' \in {"sleep", "done"} /\ reason' \in {"none", found}
        /\ loop' = "sleep" => reason' = "none" /\ at + left' <= maxDeadline
        /\ left' \in Nat
    BY <1>1, <1>2, <1>4, Concluded
  <1>6. WaitTyped'
    BY <1>1, <1>5 DEF WInv, WaitTyped
  <1>7. PairHeld' /\ Listing' /\ HardCap'
    BY <1>1, <1>5 DEF WInv, PairHeld, Listing, HardCap, maxDeadline
  <1>8. Timed'
    BY <1>1, TimedKept
  <1>9. CASE reason' = "merge_timeout"
    <2>1. at - quietSince >= Timeout
      BY <1>2, <1>3, <1>4, <1>5, <1>9, Durations
    <2> QED BY <1>1, <1>3, <1>6, <1>7, <1>8, <1>9, <2>1
            DEF WInv, IdleMeansIdle, SettledMeansSettled
  <1>10. CASE reason' = "destination_merge_target_reached"
    <2>1. \A q \in Partition : ~Mergeable(q)
      BY <1>4, <1>5, <1>10 DEF HasMergeable
    <2>2. \A q \in {q \in Partition : PartsIn(q) > MinParts}, a, b \in Size :
            table[q][a] >= 1 /\ table[q][b] >= (IF a = b THEN 2 ELSE 1) => a + b > TargetBytes
      BY <1>2, <2>1, NothingMergeable
    <2>3. \A q \in Partition : PartsIn(q)' = PartsIn(q)
      BY <1>1 DEF PartsIn, Parts
    <2>4. SettledMeansSettled'
      BY <1>1, <1>3, <2>2, <2>3 DEF SettledMeansSettled
    <2> QED BY <1>6, <1>7, <1>8, <1>10, <2>4 DEF WInv, IdleMeansIdle
  <1>11. CASE reason' \notin {"merge_timeout", "destination_merge_target_reached"}
    <2>1. IdleMeansIdle' /\ SettledMeansSettled'
      BY <1>11 DEF IdleMeansIdle, SettledMeansSettled
    <2> QED BY <1>6, <1>7, <1>8, <2>1 DEF WInv
  <1> QED BY <1>9, <1>10, <1>11

\* The invariant is inductive.
LEMMA NextWInv == WInv /\ [Next]_vars => WInv'
  <1> SUFFICES ASSUME WInv, [Next]_vars PROVE WInv'
    OBVIOUS
  <1>1. CASE InsertNext /\ UNCHANGED waitVars
    <2>1. pc # "over" /\ pc' # "over"
      BY <1>1
      DEF InsertNext, Prepare, StartAttempt, PollProgress, InsertSucceeds, InsertExhausted,
          InsertFails, ResetDestinationTable, ListStagingPartitions, MovePartition, Promoted,
          NextChunk, ExchangeTables, DropStaging, InsertCancelled
    <2> QED BY <1>1, <2>1, InsertingWInv
  <1>2. CASE ConfigureFails
    BY <1>2, InsertingWInv DEF ConfigureFails
  <1>3. CASE WaitNext /\ UNCHANGED insertVars
    BY <1>3, ReadSnapshotWInv, ReadPartsWInv, ReadsWInv, StopsWInv, MergeStartsWInv,
       MergeEndsWInv
    DEF WaitNext, Loop
  <1>4. CASE UNCHANGED vars
    BY <1>4, InsertingWInv DEF vars, insertVars
  <1> QED BY <1>1, <1>2, <1>3, <1>4, WaitAfterInsertWInv DEF Next

\* The inductive invariant implies the one the run checks.
LEMMA WInvMeansWaitInv == WInv => WaitInv
  <1> SUFFICES ASSUME WInv PROVE WaitInv
    OBVIOUS
  <1>1. merging = NoMerge \/ table[merging.partition][merging.a] > 0
    BY DEF WInv, WaitTyped, TableType, PairHeld, Pair
  <1>2. MergeWaitTypeOK
    BY <1>1 DEF WInv, WaitTyped, TableType, MergeWaitTypeOK
  <1> QED BY <1>2 DEF WInv, WaitInv

\* Whatever ClickHouse merges between and during the queries of a poll: a wait that gives
\* up on its idle timer measured, from snapshot to snapshot, a whole timeout in which no
\* merge ended or was counted; one that reports the target reached measured MinWait of
\* it, and when it listed the parts nothing was left to merge; and while reads succeed
\* no sleep is longer than from its poll to the maximum, for tables, sizes and timeouts
\* of any value.
THEOREM WaitsEndForTheirReason == Spec => []WaitInv
  BY InitWInv, NextWInv, WInvMeansWaitInv, PTL DEF Spec
=============================================================================
