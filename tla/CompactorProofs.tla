-------------------------- MODULE CompactorProofs --------------------------
(* Proofs about one compaction, for any batch, fan-in and number of merge   *)
(* failures: the interleavings of the main goroutine, the observer and      *)
(* ClickHouse's merges.                                                     *)
EXTENDS Compactor, TLAPS

-----------------------------------------------------------------------------
(* The inductive invariant.                                                 *)

Counts(c) == c \in [Partition -> Nat] /\ \A q \in Partition : c[q] <= input[q]

Merge(m) ==
  m # NoMerge => /\ m.partition \in Partition /\ m.parts \in Nat
                 /\ 2 <= m.parts /\ m.parts <= table[m.partition]

\* The table, the merges and their settings.
Tables ==
  /\ input \in Inputs /\ windowed \in BOOLEAN
  /\ Counts(table) /\ Counts(measured) /\ Counts(uploaded)
  /\ Merge(merging) /\ enabled \in BOOLEAN

Counters ==
  /\ fanIn \in MinFanIn..MaxFanIn /\ limit \in MinFanIn..MaxFanIn
  /\ memFails \in 0..MaxMemory /\ otherFails \in 0..MaxOther
  /\ handled \in Nat /\ handled <= memFails

Controls ==
  /\ pc \in {"attach", "begin", "poll", "parts", "join", "joinerr", "pause", "drain",
             "measure", "upload", "over"}
  /\ obs \in {"off", "look", "stop", "alter", "start", "exhaust"}
  /\ obsErr \in {"nil", "exhausted", "error"}
  /\ shutdown \in BOOLEAN /\ stop \in BOOLEAN
  /\ cancelled \in {"no", "canceled", "deadline"}
  /\ outcome \in {"none", "completed", "finished", "released", "failed"}
  /\ faults \subseteq Faults

\* The observer lives within the wait only, and merges stay off from the pause
\* to the end of the upload.
Quiet ==
  /\ obs # "off" => pc \in {"poll", "parts", "join", "joinerr"} /\ obsErr = "nil"
  /\ pc \in {"drain", "measure", "upload"} => ~enabled
  /\ pc \in {"measure", "upload"} => merging = NoMerge

\* A recovery that has begun lowers the fan-in.
Recovering ==
  /\ obs \in {"stop", "alter", "start"} => NextLimit < limit
  /\ obs = "start" => fanIn = NextLimit

\* No partition of the batch is lost on the way to the upload.
Covered(c) == \A q \in Partition : input[q] > 0 => c[q] > 0

Results ==
  /\ pc \notin {"attach", "over"} => Covered(table)
  /\ pc = "upload" => measured = table /\ PartsOf(table) < PartsOf(input)
  /\ pc # "over" => outcome = "none"
  /\ RegistersWhatItUploaded

\* Why a wait ended, and with what right a batch is marked failed.
Causes ==
  /\ pc \in {"attach", "begin"} => obsErr = "nil"
  /\ pc = "attach" /\ cancelled # "no" => shutdown
  /\ pc = "joinerr" => faults # {}
  /\ obsErr = "error" => faults # {} \/ otherFails >= MaxOther
  /\ cancelled = "canceled" => shutdown \/ stop \/ obsErr # "nil"
  /\ FailsOnlyOnFaults

CInv == Tables /\ Counters /\ Controls /\ Quiet /\ Recovering /\ Results /\ Causes

-----------------------------------------------------------------------------
(* Lemmas about the operators.                                              *)

\* The maximum and the minimum of two numbers.
LEMMA MaxOfTwo ==
  ASSUME NEW a \in Int, NEW b \in Int
  PROVE  /\ Max({a, b}) \in {a, b} /\ Max({a, b}) >= a /\ Max({a, b}) >= b
         /\ Min({a, b}) \in {a, b} /\ Min({a, b}) <= a /\ Min({a, b}) <= b
  <1>1. \E x \in {a, b} : \A y \in {a, b} : x >= y
    <2>1. CASE a >= b BY <2>1
    <2>2. CASE b >= a BY <2>2
    <2> QED BY <2>1, <2>2
  <1>2. \E x \in {a, b} : \A y \in {a, b} : x <= y
    <2>1. CASE a <= b BY <2>1
    <2>2. CASE b <= a BY <2>2
    <2> QED BY <2>1, <2>2
  <1>3. Max({a, b}) \in {a, b} /\ \A y \in {a, b} : Max({a, b}) >= y
    BY <1>1 DEF Max
  <1>4. Min({a, b}) \in {a, b} /\ \A y \in {a, b} : Min({a, b}) <= y
    BY <1>2 DEF Min
  <1> QED BY <1>3, <1>4

\* The next fan-in is again one of the allowed ones.
LEMMA NextLimitRange ==
  ASSUME limit \in MinFanIn..MaxFanIn
  PROVE  NextLimit \in MinFanIn..MaxFanIn
  <1>1. limit \div 2 \in Int /\ limit \div 2 <= limit /\ MinFanIn \in Int
    BY CompactorAssumption DEF CompactorAssumption
  <1>2. /\ NextLimit \in {limit \div 2, MinFanIn} /\ NextLimit >= MinFanIn
    BY <1>1, MaxOfTwo DEF NextLimit
  <1> QED BY <1>1, <1>2, CompactorAssumption DEF CompactorAssumption

-----------------------------------------------------------------------------
(* The invariant, action by action.                                         *)

\* ClickHouse starts a merge only while merges are enabled: never while the
\* output is measured or uploaded.
LEMMA MergeStartsPreserves ==
  ASSUME CInv, MergeStarts
  PROVE  CInv'
  <1>1. Tables'
    <2>0. PICK q \in Partition : \E n \in 2..Min({fanIn, table[q]}) :
            merging' = [partition |-> q, parts |-> n]
      BY DEF MergeStarts
    <2>1. PICK n \in 2..Min({fanIn, table[q]}) : merging' = [partition |-> q, parts |-> n]
      BY <2>0
    <2>2. fanIn \in Int /\ table[q] \in Int
      BY CompactorAssumption DEF CInv, Counters, Tables, Counts, CompactorAssumption
    <2>3. Min({fanIn, table[q]}) \in {fanIn, table[q]} /\ Min({fanIn, table[q]}) <= table[q]
      BY <2>2, MaxOfTwo
    <2>4. n \in Nat /\ 2 <= n /\ n <= table[q]
      BY <2>2, <2>3
    <2> QED BY <2>1, <2>4 DEF CInv, Tables, Counts, Merge, MergeStarts
  <1>2. Counters'
    BY DEF CInv, Counters, MergeStarts, observer
  <1>3. Controls'
    BY DEF CInv, Controls, MergeStarts, observer, contexts
  <1>4. Quiet'
    BY DEF CInv, Quiet, MergeStarts, observer
  <1>5. Recovering'
    BY DEF CInv, Recovering, NextLimit, MergeStarts, observer
  <1>6. Results'
    BY DEF CInv, Results, Covered, RegistersWhatItUploaded, MergeStarts
  <1>7. Causes'
    BY DEF CInv, Causes, FailsOnlyOnFaults, MergeStarts, observer, contexts
  <1> QED BY <1>1, <1>2, <1>3, <1>4, <1>5, <1>6, <1>7 DEF CInv

\* A finished merge leaves at least one part of its partition.
LEMMA MergeFinishesPreserves ==
  ASSUME CInv, MergeFinishes
  PROVE  CInv'
  <1>1. Tables'
    BY CompactorAssumption DEF CInv, Tables, Counts, Merge, MergeFinishes, CompactorAssumption
  <1>2. Counters'
    BY DEF CInv, Counters, MergeFinishes, observer
  <1>3. Controls'
    BY DEF CInv, Controls, MergeFinishes, observer, contexts
  <1>4. Quiet'
    BY DEF CInv, Quiet, MergeFinishes, observer
  <1>5. Recovering'
    BY DEF CInv, Recovering, NextLimit, MergeFinishes, observer
  <1>6. Results'
    <2>1. \A q \in Partition : table[q] > 0 => table'[q] > 0
      BY DEF CInv, Tables, Counts, Merge, MergeFinishes
    <2>2. pc # "upload"
      BY DEF CInv, Quiet, MergeFinishes
    <2> QED BY <2>1, <2>2 DEF CInv, Results, Covered, RegistersWhatItUploaded, MergeFinishes
  <1>7. Causes'
    BY DEF CInv, Causes, FailsOnlyOnFaults, MergeFinishes, observer, contexts
  <1> QED BY <1>1, <1>2, <1>3, <1>4, <1>5, <1>6, <1>7 DEF CInv

\* A merge that is aborted or fails leaves the table as it was.
LEMMA MergeEndsEarlyPreserves ==
  ASSUME CInv, MergeEndsEarly
  PROVE  CInv'
  <1>1. Tables'
    BY DEF CInv, Tables, Counts, Merge, MergeEndsEarly
  <1>2. Counters'
    BY CompactorAssumption DEF CInv, Counters, MergeEndsEarly, observer, CompactorAssumption
  <1>3. Controls'
    BY DEF CInv, Controls, MergeEndsEarly, observer, contexts
  <1>4. Quiet'
    BY DEF CInv, Quiet, MergeEndsEarly, observer
  <1>5. Recovering'
    BY DEF CInv, Recovering, NextLimit, MergeEndsEarly, observer
  <1>6. Results'
    BY DEF CInv, Results, Covered, RegistersWhatItUploaded, MergeEndsEarly
  <1>7. Causes'
    <2>1. otherFails' \in Nat /\ otherFails \in Nat /\ otherFails' >= otherFails /\ MaxOther \in Nat
      BY CompactorAssumption DEF CInv, Counters, MergeEndsEarly, CompactorAssumption
    <2> QED BY <2>1 DEF CInv, Causes, FailsOnlyOnFaults, MergeEndsEarly, observer, contexts
  <1> QED BY <1>1, <1>2, <1>3, <1>4, <1>5, <1>6, <1>7 DEF CInv

\* The phase context ends.
LEMMA ShutdownPreserves ==
  ASSUME CInv, Shutdown
  PROVE  CInv'
  <1>1. Tables'
    BY DEF CInv, Tables, Counts, Merge, Shutdown, clickhouse
  <1>2. Counters'
    BY DEF CInv, Counters, Shutdown, clickhouse, observer
  <1>3. Controls'
    BY DEF CInv, Controls, Shutdown, observer
  <1>4. Quiet'
    BY DEF CInv, Quiet, Shutdown, clickhouse, observer
  <1>5. Recovering'
    BY DEF CInv, Recovering, NextLimit, Shutdown, clickhouse, observer
  <1>6. Results'
    BY DEF CInv, Results, Covered, RegistersWhatItUploaded, Shutdown, clickhouse
  <1>7. Causes'
    BY DEF CInv, Causes, FailsOnlyOnFaults, Shutdown, clickhouse, observer
  <1> QED BY <1>1, <1>2, <1>3, <1>4, <1>5, <1>6, <1>7 DEF CInv

\* The wait is stopped on request.
LEMMA RequestManualFinalizePreserves ==
  ASSUME CInv, RequestManualFinalize
  PROVE  CInv'
  <1>1. Tables'
    BY DEF CInv, Tables, Counts, Merge, RequestManualFinalize, clickhouse
  <1>2. Counters'
    BY DEF CInv, Counters, RequestManualFinalize, clickhouse, observer
  <1>3. Controls'
    BY DEF CInv, Controls, RequestManualFinalize, observer
  <1>4. Quiet'
    BY DEF CInv, Quiet, RequestManualFinalize, clickhouse, observer
  <1>5. Recovering'
    BY DEF CInv, Recovering, NextLimit, RequestManualFinalize, clickhouse, observer
  <1>6. Results'
    BY DEF CInv, Results, Covered, RegistersWhatItUploaded, RequestManualFinalize, clickhouse
  <1>7. Causes'
    BY DEF CInv, Causes, FailsOnlyOnFaults, RequestManualFinalize, clickhouse, observer, Waiting
  <1> QED BY <1>1, <1>2, <1>3, <1>4, <1>5, <1>6, <1>7 DEF CInv

\* The wait runs out.
LEMMA WaitDeadlinePreserves ==
  ASSUME CInv, WaitDeadline
  PROVE  CInv'
  <1>1. Tables'
    BY DEF CInv, Tables, Counts, Merge, WaitDeadline, clickhouse
  <1>2. Counters'
    BY DEF CInv, Counters, WaitDeadline, clickhouse, observer
  <1>3. Controls'
    BY DEF CInv, Controls, WaitDeadline, observer
  <1>4. Quiet'
    BY DEF CInv, Quiet, WaitDeadline, clickhouse, observer
  <1>5. Recovering'
    BY DEF CInv, Recovering, NextLimit, WaitDeadline, clickhouse, observer
  <1>6. Results'
    BY DEF CInv, Results, Covered, RegistersWhatItUploaded, WaitDeadline, clickhouse
  <1>7. Causes'
    BY DEF CInv, Causes, FailsOnlyOnFaults, WaitDeadline, clickhouse, observer, Waiting
  <1> QED BY <1>1, <1>2, <1>3, <1>4, <1>5, <1>6, <1>7 DEF CInv

\* The heartbeat's failure is a fault, and the observer is gone with the wait.
LEMMA HeartbeatFailsPreserves ==
  ASSUME CInv, HeartbeatFails
  PROVE  CInv'
  <1>1. Tables'
    BY DEF CInv, Tables, Counts, Merge, HeartbeatFails, clickhouse
  <1>2. Counters'
    BY DEF CInv, Counters, HeartbeatFails, clickhouse
  <1>3. Controls'
    BY DEF CInv, Controls, HeartbeatFails, Fault, Fails, contexts
  <1>4. Quiet'
    BY DEF CInv, Quiet, HeartbeatFails, Fails
  <1>5. Recovering'
    BY DEF CInv, Recovering, HeartbeatFails
  <1>6. Results'
    BY DEF CInv, Results, RegistersWhatItUploaded, HeartbeatFails, Fails
  <1>7. Causes'
    BY DEF CInv, Causes, FailsOnlyOnFaults, HeartbeatFails, Fault, Fails, contexts
  <1> QED BY <1>1, <1>2, <1>3, <1>4, <1>5, <1>6, <1>7 DEF CInv

\* The batch is attached as it was claimed.
LEMMA AttachPreserves ==
  ASSUME CInv, Attach
  PROVE  CInv'
  <1>1. Tables'
    <2>1. input \in [Partition -> Nat] /\ \A q \in Partition : table[q] <= input[q]
      BY CompactorAssumption DEF CInv, Tables, Counts, CompactorAssumption
    <2>2. /\ table' \in {table, input} /\ enabled' \in BOOLEAN
          /\ UNCHANGED <<input, windowed, merging, measured, uploaded>>
      BY DEF Attach, CInv, Tables, Fault
    <2>3. Counts(table)' /\ Counts(measured)' /\ Counts(uploaded)'
      BY <2>1, <2>2 DEF CInv, Tables, Counts
    <2>4. \A q \in Partition : table[q] \in Nat /\ table'[q] \in Nat /\ table[q] <= table'[q]
      BY <2>1, <2>2 DEF CInv, Tables, Counts
    <2>5. Merge(merging)'
      BY <2>2, <2>4 DEF CInv, Tables, Merge
    <2> QED BY <2>2, <2>3, <2>5 DEF CInv, Tables
  <1>2. Counters'
    BY DEF CInv, Counters, Attach, observer
  <1>3. Controls'
    BY DEF CInv, Controls, Attach, Fault, Fails, observer, contexts
  <1>4. Quiet'
    BY DEF CInv, Quiet, Attach, Fails, observer
  <1>5. Recovering'
    BY DEF CInv, Recovering, NextLimit, Attach, observer
  <1>6. Results'
    BY DEF CInv, Results, Covered, RegistersWhatItUploaded, Attach, Fails
  <1>7. Causes'
    BY DEF CInv, Causes, FailsOnlyOnFaults, Attach, Fault, Fails, observer, contexts
  <1> QED BY <1>1, <1>2, <1>3, <1>4, <1>5, <1>6, <1>7 DEF CInv

\* The observer starts with the wait.
LEMMA BeginWaitPreserves ==
  ASSUME CInv, BeginWait
  PROVE  CInv'
  <1>1. Tables'
    BY DEF CInv, Tables, Counts, Merge, BeginWait, clickhouse
  <1>2. Counters'
    BY DEF CInv, Counters, BeginWait, clickhouse
  <1>3. Controls'
    BY DEF CInv, Controls, BeginWait
  <1>4. Quiet'
    BY DEF CInv, Quiet, Causes, BeginWait
  <1>5. Recovering'
    BY DEF CInv, Recovering, NextLimit, BeginWait, clickhouse
  <1>6. Results'
    BY DEF CInv, Results, Covered, RegistersWhatItUploaded, BeginWait, clickhouse
  <1>7. Causes'
    BY DEF CInv, Causes, FailsOnlyOnFaults, Results, BeginWait
  <1> QED BY <1>1, <1>2, <1>3, <1>4, <1>5, <1>6, <1>7 DEF CInv

\* The main goroutine reads the merges,
LEMMA PollMergesPreserves ==
  ASSUME CInv, PollMerges
  PROVE  CInv'
  <1>1. Tables'
    BY DEF CInv, Tables, Counts, Merge, PollMerges, clickhouse
  <1>2. Counters'
    BY DEF CInv, Counters, PollMerges, clickhouse, observer
  <1>3. Controls'
    BY DEF CInv, Controls, PollMerges, observer, contexts
  <1>4. Quiet'
    BY DEF CInv, Quiet, PollMerges, observer
  <1>5. Recovering'
    BY DEF CInv, Recovering, NextLimit, PollMerges, clickhouse, observer
  <1>6. Results'
    BY DEF CInv, Results, Covered, RegistersWhatItUploaded, PollMerges, clickhouse
  <1>7. Causes'
    BY DEF CInv, Causes, FailsOnlyOnFaults, PollMerges, clickhouse, observer, contexts
  <1> QED BY <1>1, <1>2, <1>3, <1>4, <1>5, <1>6, <1>7 DEF CInv

\* then the parts;
LEMMA PollPartsPreserves ==
  ASSUME CInv, PollParts
  PROVE  CInv'
  <1>1. Tables'
    BY DEF CInv, Tables, Counts, Merge, PollParts, clickhouse
  <1>2. Counters'
    BY DEF CInv, Counters, PollParts, clickhouse, observer
  <1>3. Controls'
    BY DEF CInv, Controls, PollParts, observer, contexts
  <1>4. Quiet'
    BY DEF CInv, Quiet, PollParts, observer
  <1>5. Recovering'
    BY DEF CInv, Recovering, NextLimit, PollParts, clickhouse, observer
  <1>6. Results'
    BY DEF CInv, Results, Covered, RegistersWhatItUploaded, PollParts, clickhouse
  <1>7. Causes'
    BY DEF CInv, Causes, FailsOnlyOnFaults, PollParts, clickhouse, observer, contexts
  <1> QED BY <1>1, <1>2, <1>3, <1>4, <1>5, <1>6, <1>7 DEF CInv

\* a failed poll is a fault,
LEMMA PollFailsPreserves ==
  ASSUME CInv, PollFails
  PROVE  CInv'
  <1>1. Tables'
    BY DEF CInv, Tables, Counts, Merge, PollFails, clickhouse
  <1>2. Counters'
    BY DEF CInv, Counters, PollFails, clickhouse, observer
  <1>3. Controls'
    BY DEF CInv, Controls, PollFails, Fault, observer, contexts
  <1>4. Quiet'
    BY DEF CInv, Quiet, PollFails, observer
  <1>5. Recovering'
    BY DEF CInv, Recovering, NextLimit, PollFails, clickhouse, observer
  <1>6. Results'
    BY DEF CInv, Results, Covered, RegistersWhatItUploaded, PollFails, clickhouse, Waiting
  <1>7. Causes'
    BY DEF CInv, Causes, FailsOnlyOnFaults, PollFails, Fault, observer, contexts
  <1> QED BY <1>1, <1>2, <1>3, <1>4, <1>5, <1>6, <1>7 DEF CInv

\* and a cancelled one ends the wait.
LEMMA PollCancelledPreserves ==
  ASSUME CInv, PollCancelled
  PROVE  CInv'
  <1>1. Tables'
    BY DEF CInv, Tables, Counts, Merge, PollCancelled, clickhouse
  <1>2. Counters'
    BY DEF CInv, Counters, PollCancelled, clickhouse, observer
  <1>3. Controls'
    BY DEF CInv, Controls, PollCancelled, observer, contexts
  <1>4. Quiet'
    BY DEF CInv, Quiet, PollCancelled, observer
  <1>5. Recovering'
    BY DEF CInv, Recovering, NextLimit, PollCancelled, clickhouse, observer
  <1>6. Results'
    BY DEF CInv, Results, Covered, RegistersWhatItUploaded, PollCancelled, clickhouse, Waiting
  <1>7. Causes'
    BY DEF CInv, Causes, FailsOnlyOnFaults, PollCancelled, clickhouse, observer, contexts
  <1> QED BY <1>1, <1>2, <1>3, <1>4, <1>5, <1>6, <1>7 DEF CInv

\* Whatever ended the wait, the observer has returned before merges are paused.
LEMMA JoinObserverPreserves ==
  ASSUME CInv, JoinObserver
  PROVE  CInv'
  <1>1. Tables'
    BY DEF CInv, Tables, Counts, Merge, JoinObserver, clickhouse
  <1>2. Counters'
    BY DEF CInv, Counters, JoinObserver, clickhouse, observer
  <1>3. Controls'
    BY DEF CInv, Controls, JoinObserver, Fails, observer, contexts
  <1>4. Quiet'
    BY DEF CInv, Quiet, JoinObserver, ObserverReturned, Fails, observer
  <1>5. Recovering'
    BY DEF CInv, Recovering, JoinObserver, ObserverReturned, observer
  <1>6. Results'
    BY DEF CInv, Results, Covered, RegistersWhatItUploaded, JoinObserver, Fails, clickhouse
  <1>7. Causes'
    BY DEF CInv, Causes, FailsOnlyOnFaults, JoinObserver, WaitAccepted, Fails, clickhouse, observer, contexts, Controls
  <1> QED BY <1>1, <1>2, <1>3, <1>4, <1>5, <1>6, <1>7 DEF CInv

\* From here on merges are stopped,
LEMMA PauseMergesPreserves ==
  ASSUME CInv, PauseMerges
  PROVE  CInv'
  <1>1. Tables'
    BY DEF CInv, Tables, Counts, Merge, PauseMerges
  <1>2. Counters'
    BY DEF CInv, Counters, PauseMerges, observer
  <1>3. Controls'
    BY DEF CInv, Controls, PauseMerges, Fault, Fails, observer, contexts
  <1>4. Quiet'
    BY DEF CInv, Quiet, PauseMerges, Fails, observer
  <1>5. Recovering'
    BY DEF CInv, Recovering, NextLimit, PauseMerges, observer
  <1>6. Results'
    BY DEF CInv, Results, Covered, RegistersWhatItUploaded, PauseMerges, Fails
  <1>7. Causes'
    BY DEF CInv, Causes, FailsOnlyOnFaults, PauseMerges, Fault, Fails, observer, contexts
  <1> QED BY <1>1, <1>2, <1>3, <1>4, <1>5, <1>6, <1>7 DEF CInv

\* and, once drained, none is running.
LEMMA DrainPreserves ==
  ASSUME CInv, Drain
  PROVE  CInv'
  <1>1. Tables'
    BY DEF CInv, Tables, Counts, Merge, Drain
  <1>2. Counters'
    BY DEF CInv, Counters, Drain, observer
  <1>3. Controls'
    BY DEF CInv, Controls, Drain, Fault, Fails, observer, contexts
  <1>4. Quiet'
    BY DEF CInv, Quiet, Drain, Fails, observer
  <1>5. Recovering'
    BY DEF CInv, Recovering, NextLimit, Drain, observer
  <1>6. Results'
    BY DEF CInv, Results, Covered, RegistersWhatItUploaded, Drain, Fails
  <1>7. Causes'
    BY DEF CInv, Causes, FailsOnlyOnFaults, Drain, Fault, Fails, observer, contexts
  <1> QED BY <1>1, <1>2, <1>3, <1>4, <1>5, <1>6, <1>7 DEF CInv

\* Only an output with fewer parts goes on to the upload.
LEMMA MeasurePreserves ==
  ASSUME CInv, Measure
  PROVE  CInv'
  <1>1. Tables'
    BY DEF CInv, Tables, Counts, Merge, Measure
  <1>2. Counters'
    BY DEF CInv, Counters, Measure, observer
  <1>3. Controls'
    BY DEF CInv, Controls, Measure, Fault, Fails, observer, contexts
  <1>4. Quiet'
    BY DEF CInv, Quiet, Measure, Fails, observer
  <1>5. Recovering'
    BY DEF CInv, Recovering, NextLimit, Measure, observer
  <1>6. Results'
    BY DEF CInv, Results, Covered, RegistersWhatItUploaded, Measure, Fails
  <1>7. Causes'
    BY DEF CInv, Causes, FailsOnlyOnFaults, Measure, Fault, Fails, observer, contexts
  <1> QED BY <1>1, <1>2, <1>3, <1>4, <1>5, <1>6, <1>7 DEF CInv

\* What is uploaded is what was measured.
LEMMA UploadPreserves ==
  ASSUME CInv, Upload
  PROVE  CInv'
  <1>1. Tables'
    BY DEF CInv, Tables, Counts, Merge, Upload
  <1>2. Counters'
    BY DEF CInv, Counters, Upload, observer
  <1>3. Controls'
    BY DEF CInv, Controls, Upload, Fault, Fails, observer, contexts
  <1>4. Quiet'
    BY DEF CInv, Quiet, Upload, Fails, observer
  <1>5. Recovering'
    BY DEF CInv, Recovering, NextLimit, Upload, observer
  <1>6. Results'
    BY DEF CInv, Results, Covered, RegistersWhatItUploaded, Upload, Fails
  <1>7. Causes'
    BY DEF CInv, Causes, FailsOnlyOnFaults, Upload, Fault, Fails, observer, contexts
  <1> QED BY <1>1, <1>2, <1>3, <1>4, <1>5, <1>6, <1>7 DEF CInv

\* The observer ends without an error of its own.
LEMMA ObserverStopsPreserves ==
  ASSUME CInv, ObserverStops
  PROVE  CInv'
  <1>1. Tables'
    BY DEF CInv, Tables, Counts, Merge, ObserverStops, clickhouse
  <1>2. Counters'
    BY DEF CInv, Counters, ObserverStops, clickhouse
  <1>3. Controls'
    BY DEF CInv, Controls, ObserverStops, Return, contexts
  <1>4. Quiet'
    BY DEF CInv, Quiet, ObserverStops, Return
  <1>5. Recovering'
    BY DEF CInv, Recovering, ObserverStops, Return
  <1>6. Results'
    BY DEF CInv, Results, Covered, RegistersWhatItUploaded, ObserverStops, clickhouse
  <1>7. Causes'
    BY DEF CInv, Causes, FailsOnlyOnFaults, ObserverStops, Return, clickhouse, contexts, Quiet
  <1> QED BY <1>1, <1>2, <1>3, <1>4, <1>5, <1>6, <1>7 DEF CInv

\* The observer begins a recovery only if the fan-in can be lowered.
LEMMA LookAtFailuresPreserves ==
  ASSUME CInv, LookAtFailures
  PROVE  CInv'
  <1>1. Tables'
    BY DEF CInv, Tables, Counts, Merge, LookAtFailures, clickhouse
  <1>2. Counters'
    BY DEF CInv, Counters, LookAtFailures, clickhouse
  <1>3. Controls'
    BY DEF CInv, Controls, LookAtFailures, Return, CancelsWait
  <1>4. Quiet'
    BY DEF CInv, Quiet, LookAtFailures, Return
  <1>5. Recovering'
    <2>1. NextLimit' = NextLimit /\ limit' = limit
      BY DEF LookAtFailures, NextLimit
    <2>2. NextLimit \in Int /\ limit \in Int
      BY NextLimitRange, CompactorAssumption DEF CInv, Counters, CompactorAssumption
    <2>3. obs' \in {"off", "look", "exhaust"} \/ (obs' = "stop" /\ ~(NextLimit >= limit))
      BY DEF LookAtFailures, Return
    <2> QED BY <2>1, <2>2, <2>3 DEF Recovering
  <1>6. Results'
    BY DEF CInv, Results, Covered, RegistersWhatItUploaded, LookAtFailures, clickhouse
  <1>7. Causes'
    BY DEF CInv, Causes, FailsOnlyOnFaults, LookAtFailures, Return, clickhouse, Quiet
  <1> QED BY <1>1, <1>2, <1>3, <1>4, <1>5, <1>6, <1>7 DEF CInv

\* Exhausted memory ends the wait.
LEMMA StopExhaustedPreserves ==
  ASSUME CInv, StopExhausted
  PROVE  CInv'
  <1>1. Tables'
    BY DEF CInv, Tables, Counts, Merge, StopExhausted
  <1>2. Counters'
    BY DEF CInv, Counters, StopExhausted
  <1>3. Controls'
    BY DEF CInv, Controls, StopExhausted, Return, CancelsWait
  <1>4. Quiet'
    BY DEF CInv, Quiet, StopExhausted, Return
  <1>5. Recovering'
    BY DEF CInv, Recovering, StopExhausted, Return
  <1>6. Results'
    BY DEF CInv, Results, Covered, RegistersWhatItUploaded, StopExhausted
  <1>7. Causes'
    BY DEF CInv, Causes, FailsOnlyOnFaults, StopExhausted, Return, CancelsWait, Quiet
  <1> QED BY <1>1, <1>2, <1>3, <1>4, <1>5, <1>6, <1>7 DEF CInv

\* The recovery stops merges,
LEMMA RecoverStopPreserves ==
  ASSUME CInv, RecoverStop
  PROVE  CInv'
  <1>1. Tables'
    BY DEF CInv, Tables, Counts, Merge, RecoverStop
  <1>2. Counters'
    BY DEF CInv, Counters, RecoverStop
  <1>3. Controls'
    BY DEF CInv, Controls, RecoverStop, contexts
  <1>4. Quiet'
    BY DEF CInv, Quiet, RecoverStop
  <1>5. Recovering'
    BY DEF CInv, Recovering, NextLimit, RecoverStop
  <1>6. Results'
    BY DEF CInv, Results, Covered, RegistersWhatItUploaded, RecoverStop
  <1>7. Causes'
    BY DEF CInv, Causes, FailsOnlyOnFaults, RecoverStop, contexts
  <1> QED BY <1>1, <1>2, <1>3, <1>4, <1>5, <1>6, <1>7 DEF CInv

\* lowers the fan-in,
LEMMA RecoverAlterPreserves ==
  ASSUME CInv, RecoverAlter
  PROVE  CInv'
  <1>1. Tables'
    BY DEF CInv, Tables, Counts, Merge, RecoverAlter
  <1>2. Counters'
    <2>1. fanIn' = NextLimit /\ UNCHANGED <<limit, memFails, otherFails, handled>>
      BY DEF RecoverAlter
    <2> QED BY <2>1, NextLimitRange DEF CInv, Counters
  <1>3. Controls'
    BY DEF CInv, Controls, RecoverAlter, contexts
  <1>4. Quiet'
    BY DEF CInv, Quiet, RecoverAlter
  <1>5. Recovering'
    BY DEF CInv, Recovering, NextLimit, RecoverAlter
  <1>6. Results'
    BY DEF CInv, Results, Covered, RegistersWhatItUploaded, RecoverAlter
  <1>7. Causes'
    BY DEF CInv, Causes, FailsOnlyOnFaults, RecoverAlter, contexts
  <1> QED BY <1>1, <1>2, <1>3, <1>4, <1>5, <1>6, <1>7 DEF CInv

\* and starts merges again.
LEMMA RecoverStartPreserves ==
  ASSUME CInv, RecoverStart
  PROVE  CInv'
  <1>1. Tables'
    BY DEF CInv, Tables, Counts, Merge, RecoverStart
  <1>2. Counters'
    <2>1. limit' = NextLimit /\ UNCHANGED <<fanIn, memFails, otherFails, handled>>
      BY DEF RecoverStart
    <2> QED BY <2>1, NextLimitRange DEF CInv, Counters
  <1>3. Controls'
    BY DEF CInv, Controls, RecoverStart, contexts
  <1>4. Quiet'
    BY DEF CInv, Quiet, RecoverStart
  <1>5. Recovering'
    BY DEF CInv, Recovering, RecoverStart
  <1>6. Results'
    BY DEF CInv, Results, Covered, RegistersWhatItUploaded, RecoverStart
  <1>7. Causes'
    BY DEF CInv, Causes, FailsOnlyOnFaults, RecoverStart, contexts
  <1> QED BY <1>1, <1>2, <1>3, <1>4, <1>5, <1>6, <1>7 DEF CInv

\* A failed statement of the observer is a fault.
LEMMA ObserverFailsPreserves ==
  ASSUME CInv, ObserverFails
  PROVE  CInv'
  <1>1. Tables'
    BY DEF CInv, Tables, Counts, Merge, ObserverFails
  <1>2. Counters'
    BY DEF CInv, Counters, ObserverFails
  <1>3. Controls'
    BY DEF CInv, Controls, ObserverFails, Fault, Return, CancelsWait
  <1>4. Quiet'
    BY DEF CInv, Quiet, ObserverFails, Return
  <1>5. Recovering'
    BY DEF CInv, Recovering, ObserverFails, Return
  <1>6. Results'
    BY DEF CInv, Results, Covered, RegistersWhatItUploaded, ObserverFails
  <1>7. Causes'
    BY DEF CInv, Causes, FailsOnlyOnFaults, ObserverFails, Fault, Return, Quiet
  <1> QED BY <1>1, <1>2, <1>3, <1>4, <1>5, <1>6, <1>7 DEF CInv

\* A step that changes nothing keeps the invariant.
LEMMA UnchangedPreserves ==
  ASSUME CInv, UNCHANGED vars
  PROVE  CInv'
  <1>1. Tables' /\ Counters'
    BY DEF CInv, Tables, Counts, Merge, Counters, vars, clickhouse, observer
  <1>2. Controls' /\ Quiet' /\ Recovering'
    BY DEF CInv, Controls, Quiet, Recovering, NextLimit, vars, clickhouse, observer, contexts
  <1>3. Results' /\ Causes'
    BY DEF CInv, Results, Covered, RegistersWhatItUploaded, Causes, FailsOnlyOnFaults,
           vars, clickhouse, observer, contexts
  <1> QED BY <1>1, <1>2, <1>3 DEF CInv

-----------------------------------------------------------------------------
(* The theorems.                                                            *)

\* The compaction starts with nothing attached, measured or uploaded.
LEMMA InitCInv == Init => CInv
  <1> SUFFICES ASSUME Init PROVE CInv
    OBVIOUS
  <1>1. input \in [Partition -> Nat] /\ NoCounts \in [Partition -> Nat]
        /\ \A q \in Partition : NoCounts[q] = 0
    BY CompactorAssumption DEF Init, NoCounts, CompactorAssumption
  <1>2. Tables
    <2>1. table = NoCounts /\ measured = NoCounts /\ uploaded = NoCounts /\ merging = NoMerge
      BY DEF Init
    <2>2. Counts(NoCounts)
      BY <1>1 DEF Counts
    <2>3. Counts(table) /\ Counts(measured) /\ Counts(uploaded) /\ Merge(merging)
      BY <2>1, <2>2 DEF Merge
    <2> QED BY <2>3 DEF Init, Tables
  <1>3. Counters
    BY CompactorAssumption DEF Init, Counters, CompactorAssumption
  <1>4. Controls /\ Quiet /\ Recovering
    BY DEF Init, Controls, Quiet, Recovering
  <1>5. Results /\ Causes
    BY DEF Init, Results, RegistersWhatItUploaded, Causes, FailsOnlyOnFaults
  <1> QED BY <1>2, <1>3, <1>4, <1>5 DEF CInv

\* The invariant is inductive.
LEMMA NextCInv == CInv /\ [Next]_vars => CInv'
  <1> SUFFICES ASSUME CInv, [Next]_vars PROVE CInv'
    OBVIOUS
  <1>1. CASE MainStep
    BY <1>1, AttachPreserves, BeginWaitPreserves, PollMergesPreserves, PollPartsPreserves,
       PollCancelledPreserves, JoinObserverPreserves, PauseMergesPreserves, DrainPreserves,
       MeasurePreserves, UploadPreserves DEF MainStep
  <1>2. CASE ObserverStep
    BY <1>2, LookAtFailuresPreserves, StopExhaustedPreserves, RecoverStopPreserves,
       RecoverAlterPreserves, RecoverStartPreserves, ObserverStopsPreserves DEF ObserverStep
  <1>3. CASE MergeStep
    BY <1>3, MergeStartsPreserves, MergeFinishesPreserves, MergeEndsEarlyPreserves DEF MergeStep
  <1>4. CASE Shutdown \/ RequestManualFinalize \/ WaitDeadline
    BY <1>4, ShutdownPreserves, RequestManualFinalizePreserves, WaitDeadlinePreserves
  <1>5. CASE HeartbeatFails \/ PollFails \/ ObserverFails
    BY <1>5, HeartbeatFailsPreserves, PollFailsPreserves, ObserverFailsPreserves
  <1>6. CASE Over \/ UNCHANGED vars
    BY <1>6, UnchangedPreserves DEF Over
  <1> QED BY <1>1, <1>2, <1>3, <1>4, <1>5, <1>6 DEF Next

\* The invariant holds in every state.
THEOREM CompactorInvariant == Spec => []CInv
  BY InitCInv, NextCInv, PTL DEF Spec

\* From the end of the drain to the end of the upload no merge runs and no
\* observer can start one, so that what is frozen is what was counted.
THEOREM MeasuredTableIsStable == Spec => []StableWhileMeasured
  <1>1. CInv => StableWhileMeasured
    BY DEF CInv, Quiet, StableWhileMeasured
  <1> QED BY <1>1, CompactorInvariant, PTL

\* A completed compaction registers the parts it uploaded, fewer than it
\* attached, with no partition left out; a batch is failed only with a cause.
THEOREM CompactionReportsWhatItDid == Spec => []CompactorInv
  <1>1. CInv => CompactorTypeOK
    <2> SUFFICES ASSUME CInv PROVE CompactorTypeOK
      OBVIOUS
    <2>1. input \in [Partition -> Nat]
      BY CompactorAssumption DEF CInv, Tables, CompactorAssumption
    <2>2. \A c \in {table, measured, uploaded} : \A q \in Partition : c[q] \in 0..input[q]
      BY <2>1 DEF CInv, Tables, Counts
    <2>3. merging = NoMerge \/ ( /\ merging.partition \in Partition
                                 /\ merging.parts \in 2..table[merging.partition] )
      BY DEF CInv, Tables, Counts, Merge
    <2>4. handled \in 0..memFails
      BY DEF CInv, Counters
    <2> QED BY <2>2, <2>3, <2>4 DEF CompactorTypeOK, CInv, Tables, Counters, Controls
  <1>2. CInv => CompactorInv
    BY <1>1 DEF CInv, Results, Causes, CompactorInv
  <1> QED BY <1>2, CompactorInvariant, PTL

\* After a memory-limit failure merges are started again only with a smaller
\* fan-in than the one that failed.
THEOREM RecoveryLowersFanIn == Spec => RestartsLowered
  <1>1. CInv /\ [Next]_vars => [RecoverStart => fanIn < limit]_vars
    BY DEF CInv, Recovering, RecoverStart
  <1> QED BY <1>1, CompactorInvariant, PTL DEF Spec, RestartsLowered

=============================================================================
