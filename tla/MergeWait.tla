------------------------------ MODULE MergeWait ------------------------------
(* The wait for the destination's background merges (processor.go,          *)
(* waitForMerges and waitForDestinationMerges).  A source rewrite waits     *)
(* until no merge is active; a patient wait (waitForSelection) also waits   *)
(* for merges that ClickHouse may still select.  An idle timer restarts     *)
(* with every activity; a maximum runs from the beginning.                  *)
(*                                                                          *)
(* A poll makes up to three queries: the active merges, the totals of the   *)
(* active parts and, before a patient wait settles, the parts themselves.   *)
(* It judges by the time it noted after the first (at).  Merges start and   *)
(* end, and the clock (now) runs, between and during the queries.           *)
(*                                                                          *)
(* Data abstraction: a partition is the number of its active parts of every *)
(* size; time is discrete.  mergeWaitHook is left out: no code sets it.     *)
EXTENDS InsertSelect, FiniteSetsExt

CONSTANTS
  Tables,        \* tables considered at the beginning of a wait
  TargetBytes,   \* targetMergePartBytes
  MaxBytes,      \* bound on the size of a part
  MinParts,      \* MergeSettleMinParts
  Timeout, MaxTimeout, MinWait, Poll   \* MergeTimeout, ...

Size == 1..MaxBytes
Occupied(t) == {q \in Partition : \E s \in Size : t[q][s] > 0}

ASSUME MergeWaitAssumption ==
  /\ TargetBytes \in Nat \ {0} /\ MaxBytes \in Nat \ {0} /\ MinParts \in Nat \ {0}
  /\ IsFiniteSet(Partition)
  /\ {Timeout, MinWait, Poll, MaxTimeout} \subseteq Nat \ {0}
  /\ Tables \subseteq [Partition -> [Size -> Nat]]
  /\ \A Q \in SUBSET Partition : \E t \in Tables : Occupied(t) = Q

VARIABLES
  patient,    \* waitForSelection
  pressure,   \* reads may fail with ClickHouse error 241
  table, merging,         \* ClickHouse
  now, loop,              \* the clock and the loop
  at,                     \* the loop's now: the time of this poll
  left,                   \* what is left of the sleep
  count,                  \* destinationMergeCount of this poll
  seen, zeroSeen,         \* previousSnapshot, zeroMergesSnapshot
  zeroSince,              \* zeroMergesStableSnapshotSince, Never when unset
  baseDeadline,
  reason,                 \* why the wait ended
  moved,                  \* ghost: the table has changed since the last snapshot
  quietSince              \* ghost: the poll from whose snapshot on the table has
                          \* not changed and no later poll has counted a merge

clickhouse == <<table, merging, moved>>
timers == <<seen, zeroSeen, zeroSince, baseDeadline, quietSince>>
choices == <<patient, pressure>>
waitVars == <<choices, clickhouse, now, loop, at, left, count, timers, reason>>

Never == -1
NoSnapshot == [parts |-> -1, bytes |-> -1, largest |-> -1]
NoMerge == [partition |-> "none", a |-> 0, b |-> 0]

\* maxTimeout is never below timeout.
maxDeadline == IF MaxTimeout < Timeout THEN Timeout ELSE MaxTimeout

\* Bound on the clock: on how long queries take, and on how long memory errors
\* let the loop run on.
ClockBound == maxDeadline + 2 * Poll

SumOver(S, f(_)) == FoldSet(LAMBDA x, n : f(x) + n, 0, S)

\* The active parts of a table; the parts of one size are numbered.
Parts(t) == UNION {{x} \X (1..t[x[1]][x[2]]) : x \in Partition \X Size}

PartsIn(q) == Cardinality({p \in Parts(table) : p[1][1] = q})
BytesIn(q) == SumOver(Size, LAMBDA s : s * table[q][s])

\* mergePartSnapshot
Snapshot ==
  LET sizes == {s \in Size : \E q \in Partition : table[q][s] > 0}
  IN [parts   |-> Cardinality(Parts(table)),
      bytes   |-> SumOver(Partition, BytesIn),
      largest |-> IF sizes = {} THEN 0 ELSE Max(sizes)]

\* The two smallest parts of a partition with at least two.
Smallest(q) == Min({s \in Size : table[q][s] > 0})
Second(q) ==
  IF table[q][Smallest(q)] > 1 THEN Smallest(q)
  ELSE Min({s \in Size \ {Smallest(q)} : table[q][s] > 0})

\* destinationHasMergeablePartsBelowTarget
Mergeable(q) ==
  /\ PartsIn(q) > MinParts /\ PartsIn(q) >= 2
  /\ Second(q) <= TargetBytes
  /\ Smallest(q) <= TargetBytes - Second(q)

HasMergeable == \E q \in Partition : Mergeable(q)

\* The beginning of a wait.
Begins ==
  /\ merging = NoMerge /\ moved = TRUE /\ quietSince = 0
  /\ now = 0 /\ at = 0 /\ left = 0 /\ count = 0
  /\ seen = NoSnapshot /\ zeroSeen = NoSnapshot /\ zeroSince = Never
  /\ baseDeadline = Timeout
  /\ reason = "none"

NoTable == [q \in Partition |-> [s \in Size |-> 0]]

\* A source rewrite begins with its insert; a compaction attaches its parts
\* and waits patiently.
Init ==
  \/ InsertInit /\ table = NoTable /\ Begins /\ loop = "none" /\ patient = FALSE /\ pressure = FALSE
  \/ /\ InsertOver
     /\ table \in Tables /\ Begins
     /\ loop = "count" /\ patient = TRUE /\ pressure \in BOOLEAN

\* The report of a stage or the merge settings fail, and the rewrite with them.
ConfigureFails ==
  /\ pc = "done" /\ pc' = "failed"
  /\ UNCHANGED <<inputs, chunk, start, settings, dest, completed, toMove, percent, waitVars>>

\* The wait "after_insert": the destination has parts where it has rows.
WaitAfterInsert ==
  /\ pc = "done"
  /\ table' \in {t \in Tables : Occupied(t) = ActivePartitions(dest)}
  /\ loop' = "count" /\ pressure' \in BOOLEAN
  /\ ForgetInsert
  /\ UNCHANGED <<patient, merging, moved, now, at, left, count, timers, reason>>

-----------------------------------------------------------------------------
(* ClickHouse selects two parts of a partition up to the target size; it may *)
(* also never select them, and a merge may fail.                             *)

MergeStarts ==
  /\ merging = NoMerge /\ loop \notin {"none", "done"}
  /\ \E q \in Partition, a, b \in Size :
       /\ a <= b /\ a + b <= TargetBytes
       /\ table[q][a] >= (IF a = b THEN 2 ELSE 1) /\ table[q][b] >= 1
       /\ merging' = [partition |-> q, a |-> a, b |-> b]
  /\ UNCHANGED <<choices, table, moved, now, loop, at, left, count, timers, reason>>

MergeEnds ==
  /\ merging # NoMerge /\ loop # "done"
  /\ merging' = NoMerge
  /\ \/ UNCHANGED <<table, moved>>
     \/ /\ table' = [table EXCEPT ![merging.partition] = [s \in Size |->
              @[s] - (IF s = merging.a THEN 1 ELSE 0) - (IF s = merging.b THEN 1 ELSE 0)
                   + (IF s = merging.a + merging.b THEN 1 ELSE 0)]]
        /\ moved' = TRUE
  /\ UNCHANGED <<choices, now, loop, at, left, count, timers, reason>>

-----------------------------------------------------------------------------
(* The loop                                                                 *)

ReadCount ==
  /\ loop = "count"
  /\ count' = IF merging = NoMerge THEN 0 ELSE 1
  /\ at' = now
  /\ loop' = "snapshot"
  /\ UNCHANGED <<choices, clickhouse, now, left, timers, reason>>

\* A first or second query that fails with a memory error sleeps and polls again.
ReadMemoryError ==
  /\ pressure /\ loop \in {"count", "snapshot"} /\ now <= ClockBound
  /\ loop' = "sleep" /\ left' = Poll
  /\ UNCHANGED <<choices, clickhouse, now, at, count, timers, reason>>

\* Any other error ends the wait, and so does any error of the third query; the
\* caller goes on with the current parts.
ReadFails ==
  /\ loop \in {"count", "snapshot", "parts"}
  /\ loop' = "done" /\ reason' = "error"
  /\ UNCHANGED <<choices, clickhouse, now, at, left, count, timers>>

Active == Snapshot # seen \/ count > 0
base == IF Active THEN at + Timeout ELSE baseDeadline

\* Mutant: the idle time does not restart when the parts change.
IdleSinceFirst == IF zeroSince = Never THEN at ELSE zeroSince

IdleSince == IF zeroSince = Never \/ Snapshot # zeroSeen THEN at ELSE zeroSince

\* The verdict of the deadlines; "wait" when the loop sleeps.
Overdue(deadline) ==
  IF at >= maxDeadline THEN "merge_max_timeout"
  ELSE IF at >= deadline THEN "merge_timeout"
  ELSE "wait"

\* The verdict of the first two queries, in the code's order.
Verdict ==
  IF count = 0 /\ ~patient THEN "no_active_destination_merges"
  ELSE IF count = 0 /\ Snapshot.parts <= MinParts THEN "active_parts_settled"
  ELSE IF count = 0 /\ at - IdleSince >= MinWait THEN "idle"
  ELSE Overdue(base)

\* mergeWaitSleepDuration; a deadline in the past does not shorten the sleep.
SleepDuration(deadline) ==
  Min({Poll} \cup {d - at : d \in {d \in {deadline, maxDeadline} : d > at}})

\* Mutant: the loop polls again at once, without sleeping.
ConcludeSpins(verdict, deadline) ==
  /\ loop' = (IF verdict = "wait" THEN "count" ELSE "done")
  /\ reason' = (IF verdict = "wait" THEN reason ELSE verdict)
  /\ UNCHANGED left

\* The loop returns its verdict, or sleeps and polls again.
Conclude(verdict, deadline) ==
  IF verdict = "wait"
  THEN loop' = "sleep" /\ left' = SleepDuration(deadline) /\ UNCHANGED reason
  ELSE loop' = "done" /\ reason' = verdict /\ UNCHANGED left

ReadSnapshot ==
  /\ loop = "snapshot"
  /\ seen' = IF Active THEN Snapshot ELSE seen
  /\ baseDeadline' = base
  /\ IF count = 0 /\ patient
     THEN zeroSince' = IdleSince /\ zeroSeen' = Snapshot
     ELSE zeroSince' = Never /\ zeroSeen' = NoSnapshot
  /\ IF Verdict = "idle"
     THEN loop' = "parts" /\ UNCHANGED <<left, reason>>
     ELSE Conclude(Verdict, base)
  /\ moved' = FALSE
  /\ quietSince' = IF moved \/ count > 0 THEN at ELSE quietSince
  /\ UNCHANGED <<choices, table, merging, now, at, count>>

\* The parts are listed by a query of their own, after minWait without a merge.
ReadParts ==
  /\ loop = "parts"
  /\ Conclude(IF HasMergeable THEN Overdue(baseDeadline)
              ELSE "destination_merge_target_reached", baseDeadline)
  /\ UNCHANGED <<choices, clickhouse, now, at, count, timers>>

\* Time passes while a query runs.
QueryRuns ==
  /\ loop \in {"count", "snapshot", "parts"} /\ now < ClockBound
  /\ now' = now + 1
  /\ UNCHANGED <<choices, clickhouse, loop, at, left, count, timers, reason>>

Tick ==
  /\ loop = "sleep" /\ left > 0
  /\ now' = now + 1 /\ left' = left - 1
  /\ UNCHANGED <<choices, clickhouse, loop, at, count, timers, reason>>

Wake ==
  /\ loop = "sleep" /\ left = 0
  /\ loop' = "count"
  /\ UNCHANGED <<choices, clickhouse, now, at, left, count, timers, reason>>

\* The context ends: the rewrite is cancelled.
Cancelled ==
  /\ loop \notin {"none", "done"}
  /\ loop' = "done" /\ reason' = "cancelled"
  /\ UNCHANGED <<choices, clickhouse, now, at, left, count, timers>>

Loop == ReadCount \/ ReadSnapshot \/ ReadParts \/ Tick \/ Wake

WaitNext ==
  \/ Loop \/ QueryRuns \/ ReadMemoryError \/ ReadFails \/ Cancelled
  \/ MergeStarts \/ MergeEnds

vars == <<insertVars, waitVars>>

Next ==
  \/ InsertNext /\ UNCHANGED waitVars
  \/ WaitAfterInsert \/ ConfigureFails
  \/ WaitNext /\ UNCHANGED insertVars

Spec == Init /\ [][Next]_vars

\* Statements return, and the loops go on.
FairSpec ==
  Spec /\ WF_vars((InsertReturns /\ UNCHANGED waitVars) \/ WaitAfterInsert
                  \/ (Loop /\ UNCHANGED insertVars))

-----------------------------------------------------------------------------
(* Properties                                                               *)

\* Types.
MergeWaitTypeOK ==
  /\ patient \in BOOLEAN
  /\ table \in [Partition -> [Size -> Nat]]
  /\ merging = NoMerge \/ table[merging.partition][merging.a] > 0
  /\ now \in Nat /\ at \in 0..now /\ left \in Nat /\ count \in 0..1
  /\ pressure \in BOOLEAN /\ (loop = "none" <=> pc # "over")
  /\ loop \in {"none", "count", "snapshot", "parts", "sleep", "done"}
  /\ moved \in BOOLEAN /\ quietSince \in 0..at
  /\ zeroSince \in {Never} \cup 0..at
  /\ baseDeadline \in Timeout..at + Timeout

\* While reads succeed a poll at or after the maximum is the last, and no sleep
\* is longer than from the time of its poll to the maximum, however long
\* ClickHouse keeps making progress: only the queries' own time exceeds it.
HardCap == loop = "sleep" /\ ~pressure => at + left <= maxDeadline

\* A wait that gives up on its idle timer saw no active merge, and no merge ended
\* or was counted between the snapshot of a poll a whole timeout earlier and the
\* snapshot of this poll.  One may end between this snapshot and the return.
IdleMeansIdle ==
  reason = "merge_timeout" => count = 0 /\ at - quietSince >= Timeout

\* A patient wait that settles above MinParts saw, by its snapshot, MinWait
\* without a merge, and when it listed the parts no partition above MinParts had
\* two that fit the target together, also when a merge ended in between.
SettledMeansSettled ==
  reason = "destination_merge_target_reached" =>
     /\ count = 0 /\ at - quietSince >= MinWait
     /\ \A q \in {q \in Partition : PartsIn(q) > MinParts}, a, b \in Size :
          table[q][a] >= 1 /\ table[q][b] >= (IF a = b THEN 2 ELSE 1) => a + b > TargetBytes

\* Resource errors cannot keep the insert's retries going, nor merges the wait: a
\* rewrite's insert fails or its wait ends, and so does a compaction's wait,
\* unless reads run out of memory for ever.
WaitEnds == <>(pc = "failed" \/ loop = "done" \/ pressure)

\* waitForMerges ends in time and for the reason it reports.
WaitInv ==
  /\ MergeWaitTypeOK
  /\ HardCap
  /\ IdleMeansIdle
  /\ SettledMeansSettled
=============================================================================
