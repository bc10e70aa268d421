------------------------------- MODULE Tasks -------------------------------
(* What the upload commands rely on when they hand their parts to          *)
(* processTasksInParallel (cmd/partforge/main.go): at most Concurrency     *)
(* parts are worked on at a time, each at most once; the call returns only *)
(* when none is worked on any more, and returns nil only when all are done.*)
EXTENDS Integers, FiniteSets

CONSTANTS Task, Concurrency

VARIABLES
  running,   \* tasks some goroutine is processing
  done,      \* tasks whose processing has returned nil
  failed,    \* tasks whose processing has returned an error
  outcome    \* "none" until the call returns, then "nil" or "error"

vars == <<running, done, failed, outcome>>

Init == running = {} /\ done = {} /\ failed = {} /\ outcome = "none"

Start(t) ==
  /\ outcome = "none" /\ t \notin running \cup done \cup failed
  /\ Cardinality(running) < Concurrency
  /\ running' = running \cup {t}
  /\ UNCHANGED <<done, failed, outcome>>

Finish(t) ==
  /\ t \in running
  /\ running' = running \ {t}
  /\ \/ done' = done \cup {t} /\ UNCHANGED failed
     \/ failed' = failed \cup {t} /\ UNCHANGED done
  /\ UNCHANGED outcome

Return ==
  /\ outcome = "none" /\ running = {}
  /\ \/ outcome' = "nil" /\ done = Task
     \/ outcome' = "error"
  /\ UNCHANGED <<running, done, failed>>

Next == (\E t \in Task : Start(t) \/ Finish(t)) \/ Return

Spec == Init /\ [][Next]_vars
=============================================================================
