------------------------------ MODULE TaskPool ------------------------------
(* processTasksInParallel (cmd/partforge/main.go): the goroutines and      *)
(* channels with which upload-freeze, upload-backup and upload-chain work  *)
(* on several parts at a time.  A feeder sends the tasks, workers process  *)
(* them and send results, the caller counts results; the first error       *)
(* cancels the rest.  Sends on the unbuffered channels are joint steps of  *)
(* sender and receiver.                                                    *)
EXTENDS Integers, FiniteSets

CONSTANTS
  Worker,     \* the goroutines, `concurrency' of them
  NumTasks    \* len(tasks)

ASSUME PoolAssumption ==
  /\ IsFiniteSet(Worker) /\ Worker # {}
  /\ NumTasks \in Nat /\ Cardinality(Worker) <= NumTasks

VARIABLES
  ctx,        \* the caller's context is cancelled
  cancelled,  \* uploadCtx is cancelled
  next,       \* the feeder's next task
  closed,     \* taskCh is closed
  worker,     \* every worker: where it is and the task it holds
  errCh,      \* the buffered error channel: at most one error
  pc,         \* the caller: "loop", "drain" or "returned"
  completed,  \* results the caller has counted
  err,        \* what the caller returns
  done, failed   \* tasks whose process call returned nil, an error

poolVars == <<ctx, cancelled, next, closed, worker, errCh, pc, completed, err, done, failed>>

Task == 1..NumTasks
At(w, p) == worker[w].at = p

PoolInit ==
  /\ ctx = FALSE /\ cancelled = FALSE
  /\ next = 1 /\ closed = FALSE
  /\ worker = [w \in Worker |-> [at |-> "receive", task |-> 0]]
  /\ errCh = {}
  /\ pc = "loop" /\ completed = 0 /\ err = "nil"
  /\ done = {} /\ failed = {}

\* The caller's context ends, and uploadCtx with it.
Cancel ==
  /\ ~ctx /\ pc # "returned"
  /\ ctx' = TRUE /\ cancelled' = TRUE
  /\ UNCHANGED <<next, closed, worker, errCh, pc, completed, err, done, failed>>

-----------------------------------------------------------------------------
(* The feeder                                                               *)

\* taskCh <- task; the worker looks at uploadCtx before it processes the task.
Feed(w) ==
  /\ ~closed /\ next <= NumTasks /\ At(w, "receive")
  /\ next' = next + 1
  /\ worker' = [worker EXCEPT ![w] = [at |-> IF cancelled THEN "exit" ELSE "process",
                                      task |-> next]]
  /\ UNCHANGED <<ctx, cancelled, closed, errCh, pc, completed, err, done, failed>>

\* Mutant: the feeder does not select on uploadCtx.
CloseWhenFed ==
  /\ ~closed /\ next > NumTasks
  /\ closed' = TRUE
  /\ UNCHANGED <<ctx, cancelled, next, worker, errCh, pc, completed, err, done, failed>>

\* Every task is sent, or uploadCtx is done.
CloseTasks ==
  /\ ~closed /\ (next > NumTasks \/ cancelled)
  /\ closed' = TRUE
  /\ UNCHANGED <<ctx, cancelled, next, worker, errCh, pc, completed, err, done, failed>>

-----------------------------------------------------------------------------
(* The workers                                                              *)

\* range taskCh ends.
NoMoreTasks(w) ==
  /\ At(w, "receive") /\ closed
  /\ worker' = [worker EXCEPT ![w].at = "exit"]
  /\ UNCHANGED <<ctx, cancelled, next, closed, errCh, pc, completed, err, done, failed>>

ProcessOK(w) ==
  /\ At(w, "process")
  /\ worker' = [worker EXCEPT ![w].at = "send"]
  /\ done' = done \cup {worker[w].task}
  /\ UNCHANGED <<ctx, cancelled, next, closed, errCh, pc, completed, err, failed>>

\* An error goes into errCh unless one is there already ...
ProcessFails(w) ==
  /\ At(w, "process")
  /\ errCh' = IF errCh = {} THEN {worker[w].task} ELSE errCh
  /\ worker' = [worker EXCEPT ![w].at = "cancel"]
  /\ failed' = failed \cup {worker[w].task}
  /\ UNCHANGED <<ctx, cancelled, next, closed, pc, completed, err, done>>

\* ... then the worker cancels the others and returns.
CancelOthers(w) ==
  /\ At(w, "cancel")
  /\ cancelled' = TRUE
  /\ worker' = [worker EXCEPT ![w].at = "exit"]
  /\ UNCHANGED <<ctx, next, closed, errCh, pc, completed, err, done, failed>>

\* resultCh <- result, counted by the loop and discarded by the drain.
SendResult(w) ==
  /\ At(w, "send")
  /\ \/ pc = "loop" /\ completed < NumTasks /\ completed' = completed + 1
     \/ pc = "drain" /\ UNCHANGED completed
  /\ worker' = [worker EXCEPT ![w].at = "receive"]
  /\ UNCHANGED <<ctx, cancelled, next, closed, errCh, pc, err, done, failed>>

\* <-uploadCtx.Done(): the result is lost though its task is done.
DropResult(w) ==
  /\ At(w, "send") /\ cancelled
  /\ worker' = [worker EXCEPT ![w].at = "exit"]
  /\ UNCHANGED <<ctx, cancelled, next, closed, errCh, pc, completed, err, done, failed>>

-----------------------------------------------------------------------------
(* The caller; resultCh is closed when every worker has returned            *)

ResultsClosed == \A w \in Worker : At(w, "exit")

Drain(e) == pc' = "drain" /\ err' = e /\ cancelled' = TRUE

\* Mutant: one result fewer is enough.
AllButOne ==
  /\ pc = "loop" /\ completed >= NumTasks - 1
  /\ Drain("nil")
  /\ UNCHANGED <<ctx, next, closed, worker, errCh, completed, done, failed>>

AllCounted ==
  /\ pc = "loop" /\ completed = NumTasks
  /\ Drain("nil")
  /\ UNCHANGED <<ctx, next, closed, worker, errCh, completed, done, failed>>

\* Mutant: the caller returns the error without waiting for the workers.
ReturnAtOnce ==
  /\ pc = "loop" /\ completed < NumTasks /\ errCh # {}
  /\ errCh' = {} /\ pc' = "returned" /\ err' = "task" /\ cancelled' = TRUE
  /\ UNCHANGED <<ctx, next, closed, worker, completed, done, failed>>

TakeError ==
  /\ pc = "loop" /\ completed < NumTasks /\ errCh # {}
  /\ errCh' = {}
  /\ Drain("task")
  /\ UNCHANGED <<ctx, next, closed, worker, completed, done, failed>>

CallerCancelled ==
  /\ pc = "loop" /\ completed < NumTasks /\ ctx
  /\ Drain("context")
  /\ UNCHANGED <<ctx, next, closed, worker, errCh, completed, done, failed>>

\* resultCh is closed before the caller saw an error or enough results.
Incomplete ==
  /\ pc = "loop" /\ completed < NumTasks /\ ResultsClosed
  /\ pc' = "returned"
  /\ err' = IF errCh # {} THEN "task" ELSE IF ctx THEN "context" ELSE "stopped"
  /\ cancelled' = TRUE
  /\ UNCHANGED <<ctx, next, closed, worker, errCh, completed, done, failed>>

Drained ==
  /\ pc = "drain" /\ ResultsClosed
  /\ pc' = "returned"
  /\ UNCHANGED <<ctx, cancelled, next, closed, worker, errCh, completed, err, done, failed>>

-----------------------------------------------------------------------------
Goroutine(w) ==
  \/ Feed(w) \/ NoMoreTasks(w) \/ ProcessOK(w) \/ ProcessFails(w) \/ CancelOthers(w)
  \/ SendResult(w) \/ DropResult(w)

Caller == AllCounted \/ TakeError \/ CallerCancelled \/ Incomplete \/ Drained

PoolNext == Cancel \/ CloseTasks \/ (\E w \in Worker : Goroutine(w)) \/ Caller

PoolSpec == PoolInit /\ [][PoolNext]_poolVars

\* The goroutines run; a process call returns, with or without an error.
FairSpec ==
  /\ PoolSpec
  /\ WF_poolVars(CloseTasks) /\ WF_poolVars(Caller)
  /\ \A w \in Worker : WF_poolVars(Goroutine(w))

-----------------------------------------------------------------------------
(* Properties                                                               *)

\* Types; every task that was sent is held by a worker or done with.
PoolTypeOK ==
  /\ {ctx, cancelled, closed} \subseteq BOOLEAN /\ (ctx => cancelled)
  /\ next \in 1..NumTasks + 1 /\ completed \in 0..Cardinality(done)
  /\ \A w \in Worker :
       /\ worker[w].at \in {"receive", "process", "send", "cancel", "exit"}
       /\ worker[w].task \in 0..next - 1
  /\ errCh \subseteq failed /\ done \cap failed = {}
  /\ err \in {"nil", "task", "context", "stopped"}

\* The branch "workers stopped after %d of %d tasks" is never taken: an error
\* or the caller's context explains every early end, whichever of the
\* channels the caller happens to look at first.
NeverStoppedUnexplained == err # "stopped"

\* The error returned is a task's error only if a task failed, and nil only
\* if every task is done and counted.
ReturnsTheTruth ==
  pc = "returned" =>
    /\ err = "nil" => done = Task /\ completed = NumTasks
    /\ err = "task" => failed # {}
    /\ err = "context" => ctx

\* processTasksInParallel implements what its callers rely on; in particular
\* no part is uploaded or registered after the command has given up.
Abstract == INSTANCE Tasks WITH
  Concurrency <- Cardinality(Worker),
  running <- {worker[w].task : w \in {w \in Worker : At(w, "process")}},
  outcome <- IF pc # "returned" THEN "none" ELSE IF err = "nil" THEN "nil" ELSE "error"

TasksSpec == Abstract!Spec

\* The call returns and leaves no goroutine behind, whatever fails and
\* whenever the caller's context ends.
NothingLeaks == <>(pc = "returned" /\ closed /\ ResultsClosed)

\* processTasksInParallel counts and reports what happened, and its last resort
\* error is never needed.
PoolInv == PoolTypeOK /\ NeverStoppedUnexplained /\ ReturnsTheTruth
=============================================================================
