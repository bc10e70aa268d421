------------------------------ MODULE Compactor ------------------------------
(* One compaction (internal/rewrite/compactor.go, compact_progress.go,      *)
(* snapshot.go) as its worker runs it (cmd/partforge/main.go): the main     *)
(* goroutine attaches the inputs, lets ClickHouse merge them and waits,     *)
(* while an observer goroutine reports progress and lowers the merge        *)
(* fan-in after memory-limit failures.  The wait ends when the table is     *)
(* normalized or quiet, at the deadline, on shutdown, on a finalization     *)
(* request or when memory is exhausted; then merges are paused and drained, *)
(* the output is measured and, when it has fewer parts, uploaded.           *)
(*                                                                          *)
(* Data abstraction: the table is the number of active parts in every       *)
(* partition; time is the events that it makes possible.  Assumed of        *)
(* ClickHouse: one merge at a time, started only while merges are enabled.  *)
EXTENDS Integers, FiniteSets, FiniteSetsExt

CONSTANTS
  Partition,
  Inputs,         \* part counts per partition of the claimed batches considered
  MaxFanIn,       \* -compact-max-parts-to-merge
  MinFanIn,       \* minAdaptiveMaxPartsToMergeAtOnce, 2 in the code
  MaxOther,       \* maxCompactMergeFailures, 3 in the code
  MaxMemory,      \* bound on memory-limit merge failures
  Faults          \* environment faults that may happen

ASSUME CompactorAssumption ==
  /\ IsFiniteSet(Partition)
  /\ Inputs \subseteq [Partition -> Nat]
  /\ MaxFanIn \in Nat /\ MinFanIn \in Nat /\ 2 <= MinFanIn /\ MinFanIn <= MaxFanIn
  /\ MaxOther \in Nat \ {0} /\ MaxMemory \in Nat
  /\ Faults \subseteq {"query", "report", "heartbeat", "drain"}

VARIABLES
  input,      \* parts of the attached batch
  windowed,   \* MergeDeadline is set
  pc,         \* the main goroutine
  table,      \* active parts of every partition
  merging,    \* partition and size of the running merge, or NoMerge
  enabled,    \* SYSTEM START/STOP MERGES
  fanIn,      \* max_parts_to_merge_at_once of the table
  memFails, otherFails,   \* system.part_log
  obs,        \* the observer goroutine
  limit, handled,         \* its maxPartsToMerge, handledMemoryLimitFailures
  obsErr,     \* what it returned: "nil", "exhausted", "error"
  shutdown, stop,         \* ShutdownContext, MergeStopContext
  cancelled,  \* why the wait context ended: "no", "canceled", "deadline"
  count, lastParts,       \* locals of normalizeCompactInput
  measured, uploaded,     \* partition counts; NoCounts before
  outcome,    \* what the worker does with the batch
  faults      \* faults that happened

loop == <<count, lastParts>>
clickhouse == <<table, merging, enabled, fanIn, memFails, otherFails>>
observer == <<obs, limit, handled, obsErr>>
contexts == <<shutdown, stop, cancelled>>
vars == <<input, windowed, pc, clickhouse, observer, contexts, loop,
          measured, uploaded, outcome, faults>>

NoMerge == [partition |-> "none", parts |-> 0]
NoCounts == [q \in Partition |-> 0]

PartsOf(counts) == FoldSet(LAMBDA q, n : counts[q] + n, 0, Partition)

Init ==
  /\ input \in Inputs
  /\ windowed \in BOOLEAN
  /\ pc = "attach"
  /\ table = NoCounts /\ merging = NoMerge /\ enabled = FALSE
  /\ fanIn = MaxFanIn /\ memFails = 0 /\ otherFails = 0
  /\ obs = "off" /\ limit = MaxFanIn /\ handled = 0 /\ obsErr = "nil"
  /\ shutdown = FALSE /\ stop = FALSE /\ cancelled = "no"
  /\ count = 0 /\ lastParts = 0
  /\ measured = NoCounts /\ uploaded = NoCounts
  /\ outcome = "none"
  /\ faults = {}

\* One fault per compaction: the first one decides how it ends.
Fault(f) == f \in Faults /\ faults = {} /\ faults' = {f}

-----------------------------------------------------------------------------
(* ClickHouse                                                               *)

MergeStarts ==
  /\ enabled /\ merging = NoMerge /\ pc # "over"
  /\ \E q \in Partition : \E n \in 2..Min({fanIn, table[q]}) :
        merging' = [partition |-> q, parts |-> n]
  /\ UNCHANGED <<input, windowed, pc, table, enabled, fanIn, memFails, otherFails,
                 observer, contexts, loop, measured, uploaded, outcome, faults>>

MergeFinishes ==
  /\ merging # NoMerge
  /\ table' = [table EXCEPT ![merging.partition] = @ - merging.parts + 1]
  /\ merging' = NoMerge
  /\ UNCHANGED <<input, windowed, pc, enabled, fanIn, memFails, otherFails,
                 observer, contexts, loop, measured, uploaded, outcome, faults>>

\* A merge ends without a result: aborted by STOP MERGES, or failed and logged.
MergeEndsEarly ==
  /\ merging # NoMerge
  /\ merging' = NoMerge
  /\ \/ ~enabled /\ UNCHANGED <<memFails, otherFails>>
     \/ memFails < MaxMemory /\ memFails' = memFails + 1 /\ UNCHANGED otherFails
     \/ otherFails < MaxOther /\ otherFails' = otherFails + 1 /\ UNCHANGED memFails
  /\ UNCHANGED <<input, windowed, pc, table, enabled, fanIn,
                 observer, contexts, loop, measured, uploaded, outcome, faults>>

-----------------------------------------------------------------------------
(* The worker's contexts                                                    *)

Waiting == pc \in {"poll", "parts"}

\* SIGTERM cancels the phase context; what was started before it ends.
Shutdown ==
  /\ ~shutdown /\ pc # "over"
  /\ shutdown' = TRUE
  /\ cancelled' = IF cancelled = "no" /\ pc \in {"attach", "poll", "parts"}
                  THEN "canceled" ELSE cancelled
  /\ UNCHANGED <<input, windowed, pc, clickhouse, observer, stop, loop,
                 measured, uploaded, outcome, faults>>

\* The heartbeat delivers a finalization request: the merge wait is stopped.
RequestManualFinalize ==
  /\ ~stop /\ pc # "over"
  /\ stop' = TRUE
  /\ cancelled' = IF cancelled = "no" /\ Waiting THEN "canceled" ELSE cancelled
  /\ UNCHANGED <<input, windowed, pc, clickhouse, observer, shutdown, loop,
                 measured, uploaded, outcome, faults>>

\* The deadline of the compact window, or without one MergeMaxTimeout.
WaitDeadline ==
  /\ Waiting /\ cancelled = "no"
  /\ cancelled' = "deadline"
  /\ UNCHANGED <<input, windowed, pc, clickhouse, observer, shutdown, stop, loop,
                 measured, uploaded, outcome, faults>>

\* Everything that fails cancels or ends the compaction: Compact returns an
\* error, which releases the batch on shutdown and marks it failed otherwise.
Fails ==
  /\ pc' = "over"
  /\ outcome' = IF shutdown THEN "released" ELSE "failed"

\* The lease heartbeat fails and cancels the whole compaction.
HeartbeatFails ==
  /\ pc \notin {"over"} /\ Fault("heartbeat") /\ Fails
  /\ obs' = "off"
  /\ UNCHANGED <<input, windowed, clickhouse, limit, handled, obsErr, contexts, loop,
                 measured, uploaded>>

-----------------------------------------------------------------------------
(* The main goroutine                                                       *)

\* Inputs are downloaded, extracted and attached with merges stopped, the
\* table is measured and configured, and merges are started.
Attach ==
  /\ pc = "attach"
  /\ \/ /\ cancelled = "no"
        /\ table' = input /\ enabled' = TRUE
        /\ pc' = "begin"
        /\ UNCHANGED <<outcome, faults>>
     \/ /\ cancelled # "no" /\ Fails
        /\ UNCHANGED <<table, enabled, faults>>
     \/ Fault("query") /\ Fails /\ UNCHANGED <<table, enabled>>
  /\ UNCHANGED <<input, windowed, merging, fanIn, memFails, otherFails, observer,
                 contexts, loop, measured, uploaded>>

\* With the deadline already past there is no wait; a stop requested before
\* the wait ends it at its first context check.
BeginWait ==
  /\ pc = "begin"
  /\ \/ /\ windowed
        /\ pc' = "pause"
        /\ UNCHANGED <<obs, cancelled, lastParts>>
     \/ /\ pc' = "poll" /\ obs' = "look"
        /\ cancelled' = IF shutdown \/ stop THEN "canceled" ELSE cancelled
        /\ lastParts' = PartsOf(table)
  /\ UNCHANGED <<input, windowed, clickhouse, limit, handled, obsErr, shutdown, stop,
                 count, measured, uploaded, outcome, faults>>

\* normalizeCompactInput: the number of merges is read first ...
PollMerges ==
  /\ pc = "poll" /\ cancelled = "no"
  /\ count' = IF merging = NoMerge THEN 0 ELSE 1
  /\ pc' = "parts"
  /\ UNCHANGED <<input, windowed, clickhouse, observer, contexts, lastParts,
                 measured, uploaded, outcome, faults>>

Normalized == \A q \in Partition : table[q] = IF input[q] > 0 THEN 1 ELSE 0

\* ... then the parts; the wait ends on a normalized or a quiet table.
PollParts ==
  /\ pc = "parts" /\ cancelled = "no"
  /\ \/ /\ count = 0
        /\ Normalized \/ PartsOf(table) = lastParts
        /\ pc' = "join"
     \/ ~(count = 0 /\ Normalized) /\ pc' = "poll"
  /\ lastParts' = PartsOf(table)
  /\ UNCHANGED <<input, windowed, clickhouse, observer, contexts, count,
                 measured, uploaded, outcome, faults>>

\* A poll fails for another reason than its context or memory pressure.
PollFails ==
  /\ Waiting /\ Fault("query")
  /\ pc' = "joinerr"
  /\ UNCHANGED <<input, windowed, clickhouse, observer, contexts, loop,
                 measured, uploaded, outcome>>

\* Mutant: memory pressure is waited out without looking at the context.
PollUncancelled ==
  /\ Waiting /\ cancelled # "no"
  /\ pc' = "poll"
  /\ UNCHANGED <<input, windowed, clickhouse, observer, contexts, loop,
                 measured, uploaded, outcome, faults>>

PollCancelled ==
  /\ Waiting /\ cancelled # "no"
  /\ pc' = "join"
  /\ UNCHANGED <<input, windowed, clickhouse, observer, contexts, loop,
                 measured, uploaded, outcome, faults>>

\* The observer was cancelled and has returned (obs = "off").  Its error, an
\* error of the wait, and a timeout without a compact window are failures.
WaitAccepted ==
  \/ obsErr = "exhausted"
  \/ /\ obsErr = "nil" /\ pc = "join"
     /\ \/ cancelled = "no"
        \/ cancelled = "deadline" /\ windowed
        \/ cancelled = "canceled" /\ (shutdown \/ stop)

\* Mutant: the observer is cancelled but not waited for.
ObserverEnded == TRUE

ObserverReturned == obs = "off"

JoinObserver ==
  /\ pc \in {"join", "joinerr"} /\ ObserverReturned
  /\ IF WaitAccepted THEN pc' = "pause" /\ UNCHANGED outcome ELSE Fails
  /\ UNCHANGED <<input, windowed, clickhouse, observer, contexts, loop,
                 measured, uploaded, faults>>

PauseMerges ==
  /\ pc = "pause"
  /\ \/ enabled' = FALSE /\ pc' = "drain" /\ UNCHANGED <<outcome, faults>>
     \/ Fault("query") /\ Fails /\ enabled' = TRUE
  /\ UNCHANGED <<input, windowed, table, merging, fanIn, memFails, otherFails, observer,
                 contexts, loop, measured, uploaded>>

\* Running merges drain; after five minutes the merges are resumed instead.
Drain ==
  /\ pc = "drain"
  /\ \/ merging = NoMerge /\ pc' = "measure" /\ UNCHANGED <<enabled, outcome, faults>>
     \/ Fault("drain") /\ Fails /\ enabled' = TRUE
  /\ UNCHANGED <<input, windowed, table, merging, fanIn, memFails, otherFails, observer,
                 contexts, loop, measured, uploaded>>

\* Mutant: a result with as many parts as the input is uploaded too.
MeasureUnreduced ==
  /\ pc = "measure"
  /\ measured' = table /\ pc' = "upload"
  /\ UNCHANGED <<input, windowed, clickhouse, observer, contexts, loop, uploaded,
                 outcome, faults>>

\* A result without fewer parts finishes the inputs, or releases them on
\* shutdown; merges are resumed on every way out.
Measure ==
  /\ pc = "measure"
  /\ \/ /\ measured' = table
        /\ IF PartsOf(table) < PartsOf(input)
           THEN pc' = "upload" /\ UNCHANGED <<enabled, outcome>>
           ELSE /\ pc' = "over" /\ enabled' = TRUE
                /\ outcome' = IF shutdown THEN "released" ELSE "finished"
        /\ UNCHANGED faults
     \/ (Fault("query") \/ Fault("report")) /\ Fails /\ enabled' = TRUE
        /\ UNCHANGED measured
  /\ UNCHANGED <<input, windowed, table, merging, fanIn, memFails, otherFails, observer,
                 contexts, loop, uploaded>>

\* The table is frozen, archived and uploaded, and the output registered.
Upload ==
  /\ pc = "upload"
  /\ enabled' = TRUE
  /\ \/ uploaded' = table /\ pc' = "over" /\ outcome' = "completed" /\ UNCHANGED faults
     \/ Fault("query") /\ Fails /\ uploaded' \in {table, uploaded}
  /\ UNCHANGED <<input, windowed, table, merging, fanIn, memFails, otherFails, observer,
                 contexts, loop, measured>>

-----------------------------------------------------------------------------
(* The observer goroutine                                                   *)

\* The observer's context is derived from the phase context.
ObserverDone == shutdown \/ ~Waiting

Return(e) == obs' = "off" /\ obsErr' = e

\* An observer error cancels the phase, exhausted memory the wait only.
CancelsWait == cancelled' = IF cancelled = "no" THEN "canceled" ELSE cancelled

\* A cancelled context ends the observer at its next query or sleep.
ObserverStops ==
  /\ obs # "off" /\ ObserverDone
  /\ Return("nil")
  /\ UNCHANGED <<input, windowed, pc, clickhouse, limit, handled, contexts, loop,
                 measured, uploaded, outcome, faults>>

NextLimit == Max({limit \div 2, MinFanIn})

\* The failures of one poll ran at one fan-in: it is lowered once per poll.
LookAtFailures ==
  /\ obs = "look"
  /\ IF memFails > handled
     THEN IF NextLimit >= limit
          THEN obs' = "exhaust" /\ UNCHANGED <<handled, obsErr, cancelled>>
          ELSE obs' = "stop" /\ handled' = memFails /\ UNCHANGED <<obsErr, cancelled>>
     ELSE IF otherFails >= MaxOther
          THEN Return("error") /\ CancelsWait /\ UNCHANGED handled
          ELSE obs' = "look" /\ UNCHANGED <<handled, obsErr, cancelled>>
  /\ UNCHANGED <<input, windowed, pc, clickhouse, limit, shutdown, stop, loop,
                 measured, uploaded, outcome, faults>>

\* At the smallest fan-in merges are stopped and what has merged is kept.
StopExhausted ==
  /\ obs = "exhaust"
  /\ enabled' = FALSE
  /\ Return("exhausted") /\ CancelsWait
  /\ UNCHANGED <<input, windowed, pc, table, merging, fanIn, memFails, otherFails,
                 limit, handled, shutdown, stop, loop, measured, uploaded, outcome, faults>>

\* recoverCompactMergeAfterMemoryFailure: STOP MERGES, ALTER, START MERGES.
RecoverStop ==
  /\ obs = "stop"
  /\ enabled' = FALSE /\ obs' = "alter"
  /\ UNCHANGED <<input, windowed, pc, table, merging, fanIn, memFails, otherFails,
                 limit, handled, obsErr, contexts, loop, measured, uploaded, outcome, faults>>

\* Mutant: merges are restarted without the ALTER.
RecoverUnaltered ==
  /\ obs = "alter"
  /\ obs' = "start"
  /\ UNCHANGED <<input, windowed, pc, clickhouse, limit, handled, obsErr, contexts,
                 loop, measured, uploaded, outcome, faults>>

RecoverAlter ==
  /\ obs = "alter"
  /\ fanIn' = NextLimit /\ obs' = "start"
  /\ UNCHANGED <<input, windowed, pc, table, merging, enabled, memFails, otherFails,
                 limit, handled, obsErr, contexts, loop, measured, uploaded, outcome, faults>>

RecoverStart ==
  /\ obs = "start"
  /\ enabled' = TRUE /\ limit' = NextLimit /\ obs' = "look"
  /\ UNCHANGED <<input, windowed, pc, table, merging, fanIn, memFails, otherFails,
                 handled, obsErr, contexts, loop, measured, uploaded, outcome, faults>>

\* A statement or a progress report of the observer fails; a failed ALTER
\* restarts the merges first.
ObserverFails ==
  /\ obs # "off"
  /\ Fault("query") \/ Fault("report")
  /\ enabled' = (enabled \/ obs = "alter")
  /\ Return("error") /\ CancelsWait
  /\ UNCHANGED <<input, windowed, pc, table, merging, fanIn, memFails, otherFails,
                 limit, handled, shutdown, stop, loop, measured, uploaded, outcome>>

-----------------------------------------------------------------------------
Over ==
  /\ pc = "over" /\ merging = NoMerge /\ obs = "off"
  /\ UNCHANGED vars

MainStep ==
  \/ Attach \/ BeginWait \/ PollMerges \/ PollParts \/ PollCancelled \/ JoinObserver
  \/ PauseMerges \/ Drain \/ Measure \/ Upload

ObserverStep ==
  \/ LookAtFailures \/ StopExhausted \/ RecoverStop \/ RecoverAlter \/ RecoverStart
  \/ ObserverStops

MergeStep == MergeStarts \/ MergeFinishes \/ MergeEndsEarly

Next ==
  \/ MainStep \/ ObserverStep \/ MergeStep
  \/ Shutdown \/ RequestManualFinalize \/ WaitDeadline
  \/ HeartbeatFails \/ PollFails \/ ObserverFails \/ Over

Spec == Init /\ [][Next]_vars

\* Statements return, running merges end and time passes.
FairSpec ==
  /\ Spec
  /\ WF_vars(MainStep) /\ WF_vars(ObserverStep /\ obs' # obs)
  /\ WF_vars(MergeFinishes \/ MergeEndsEarly) /\ WF_vars(WaitDeadline)

-----------------------------------------------------------------------------
(* Properties                                                               *)

\* Types, and the counters' bounds.
CompactorTypeOK ==
  /\ input \in Inputs /\ windowed \in BOOLEAN
  /\ pc \in {"attach", "begin", "poll", "parts", "join", "joinerr", "pause", "drain",
             "measure", "upload", "over"}
  /\ \A c \in {table, measured, uploaded} : \A q \in Partition : c[q] \in 0..input[q]
  /\ \/ merging = NoMerge
     \/ merging.partition \in Partition /\ merging.parts \in 2..table[merging.partition]
  /\ enabled \in BOOLEAN /\ fanIn \in MinFanIn..MaxFanIn /\ limit \in MinFanIn..MaxFanIn
  /\ memFails \in 0..MaxMemory /\ otherFails \in 0..MaxOther /\ handled \in 0..memFails
  /\ obs \in {"off", "look", "stop", "alter", "start", "exhaust"}
  /\ obsErr \in {"nil", "exhausted", "error"}
  /\ cancelled \in {"no", "canceled", "deadline"}
  /\ outcome \in {"none", "completed", "finished", "released", "failed"}
  /\ faults \subseteq Faults

\* From the end of the drain until the output is uploaded the part set cannot
\* change: merges are stopped, none is running, and no observer can start them.
StableWhileMeasured ==
  pc \in {"measure", "upload"} => ~enabled /\ merging = NoMerge /\ obs = "off"

\* A completed compaction registers exactly the parts it uploaded, fewer than
\* it attached, and leaves no partition out.
RegistersWhatItUploaded ==
  outcome = "completed" =>
     /\ uploaded = measured
     /\ PartsOf(uploaded) < PartsOf(input)
     /\ \A q \in Partition : input[q] > 0 => uploaded[q] > 0

\* Deadlines, shutdown, finalization requests and memory-limit recovery, in any
\* order, never fail a batch: a failure has a cause among the faults, repeated
\* other merge failures or a wait that ran out without a compact window.
FailsOnlyOnFaults ==
  outcome = "failed" =>
     \/ faults # {}
     \/ otherFails >= MaxOther
     \/ cancelled = "deadline" /\ ~windowed

\* While the observer recovers from a memory failure merges are restarted only
\* with the lowered fan-in in force.
RestartsLowered ==
  [][RecoverStart => fanIn < limit]_vars

\* The compaction ends, whatever merges do and however often memory runs out.
Ends == <>(pc = "over")

\* What Compact reports is what it did: a completed batch registers what was
\* uploaded, and a failed one has a cause.
CompactorInv == CompactorTypeOK /\ RegistersWhatItUploaded /\ FailsOnlyOnFaults
=============================================================================
