---------------------------- MODULE LocalServer ----------------------------
(* The local clickhouse-server of a worker (internal/chproc/server.go) and *)
(* the worker's use of it (cmd/partforge/main.go): one server per part,    *)
(* started in the part's run directory, restarted in it by a compaction,   *)
(* stopped when the part is over.  All servers of a worker use one port,   *)
(* and Start takes an answered ping for its own server's.  The process     *)
(* that is started and waited for may end before the one that serves (a    *)
(* watchdog and its child); the latter holds the pid file of the directory.*)
EXTENDS Integers

CONSTANTS
  MaxParts,       \* the parts the worker processes
  MaxRestarts     \* the restarts of one part

ASSUME ServerAssumption ==
  MaxParts \in Nat \ {0} /\ MaxRestarts \in Nat

VARIABLES
  pc,         \* the worker
  part,       \* the part it processes, and its run directory
  restarts,   \* restarts of this part so far
  started,    \* servers started so far; the last one is the worker's
  why,        \* what it calls Stop for: "start", "restart" or "cleanup"
  dir,        \* server -> its directory
  main,       \* server -> the process Start waits for
  child,      \* server -> the process that serves
  term,       \* servers that were sent SIGTERM
  outlived    \* ghost: the server of a finished part has outlived Stop

serverVars == <<pc, part, restarts, started, why, dir, main, child, term, outlived>>

Server == 1..MaxParts * (MaxRestarts + 1)
Alive(s) == child[s] \in {"loading", "listening"}
Listening == {s \in Server : child[s] = "listening"}

ServerInit ==
  /\ pc = "idle" /\ part = 1 /\ restarts = 0 /\ started = 0 /\ why = "start"
  /\ dir = [s \in Server |-> 0]
  /\ main = [s \in Server |-> "none"] /\ child = [s \in Server |-> "none"]
  /\ term = {} /\ outlived = FALSE

-----------------------------------------------------------------------------
(* clickhouse-server                                                        *)

\* It serves if neither port nor pid file is taken, and gives up otherwise.
Listen(s) ==
  /\ child[s] = "loading"
  /\ child' = [child EXCEPT ![s] =
       IF Listening = {} /\ \A o \in Server \ {s} : dir[o] = dir[s] => ~Alive(o)
       THEN "listening" ELSE "failed"]
  /\ UNCHANGED <<pc, part, restarts, started, why, dir, main, term, outlived>>

\* SIGTERM ends it, after a while; so may anything else.
ChildExits(s) ==
  /\ Alive(s)
  /\ child' = [child EXCEPT ![s] = IF s \in term THEN "terminated" ELSE "failed"]
  /\ UNCHANGED <<pc, part, restarts, started, why, dir, main, term, outlived>>

\* By the signal or in another way, whether the one that serves is gone or not.
MainExits(s) ==
  /\ main[s] = "running"
  /\ \/ main' = [main EXCEPT ![s] = "failed"]
     \/ s \in term /\ main' = [main EXCEPT ![s] = "terminated"]
  /\ UNCHANGED <<pc, part, restarts, started, why, dir, child, term, outlived>>

-----------------------------------------------------------------------------
(* Start                                                                    *)

Start ==
  /\ pc = "idle"
  /\ started' = started + 1
  /\ dir' = [dir EXCEPT ![started + 1] = part]
  /\ main' = [main EXCEPT ![started + 1] = "running"]
  /\ child' = [child EXCEPT ![started + 1] = "loading"]
  /\ pc' = "pinging"
  /\ UNCHANGED <<part, restarts, why, term, outlived>>

\* client.Ping: whoever listens on the port answers.
Ready ==
  /\ pc = "pinging" /\ Listening # {}
  /\ pc' = "working"
  /\ UNCHANGED <<part, restarts, started, why, dir, main, child, term, outlived>>

\* server.done: Start fails, and the worker with it.
ExitedEarly ==
  /\ pc = "pinging" /\ main[started] # "running"
  /\ pc' = "ended"
  /\ UNCHANGED <<part, restarts, started, why, dir, main, child, term, outlived>>

\* The deadline has passed or the context is cancelled.
GiveUp ==
  /\ pc = "pinging"
  /\ pc' = "stopping" /\ why' = "start"
  /\ UNCHANGED <<part, restarts, started, dir, main, child, term, outlived>>

-----------------------------------------------------------------------------
(* Stop                                                                     *)

\* RestartClickHouse, the compactor's callback.
Restart ==
  /\ pc = "working" /\ restarts < MaxRestarts
  /\ pc' = "stopping" /\ why' = "restart" /\ restarts' = restarts + 1
  /\ UNCHANGED <<part, started, dir, main, child, term, outlived>>

\* The part's cleanup; a part that failed ends the worker after it.
Cleanup ==
  /\ pc = "working"
  /\ pc' = "stopping" /\ why' = "cleanup"
  /\ UNCHANGED <<part, restarts, started, dir, main, child, term, outlived>>

Signal ==
  /\ pc = "stopping"
  /\ term' = term \cup {started}
  /\ pc' = "waiting"
  /\ UNCHANGED <<part, restarts, started, why, dir, main, child, outlived>>

\* What the caller of Stop does: a failed Start or restart ends the worker;
\* cleanup only logs the error, and the worker goes on with the next part.
AfterStop(ok) ==
  \/ why = "restart" /\ ok /\ pc' = "idle" /\ UNCHANGED <<part, restarts>>
  \/ why = "cleanup" /\ part < MaxParts
     /\ pc' = "idle" /\ part' = part + 1 /\ restarts' = 0
  \/ (why = "start" \/ (why = "restart" /\ ~ok) \/ why = "cleanup")
     /\ pc' = "ended" /\ UNCHANGED <<part, restarts>>

\* Stop returns an error. A server that is still there when the part's cleanup
\* goes on is remembered.
GivesUp ==
  /\ AfterStop(FALSE)
  /\ outlived' = (outlived \/ (why = "cleanup" /\ \E s \in Server : Alive(s)))
  /\ UNCHANGED <<started, why, dir, main, child, term>>

\* SIGTERM cannot be sent, or the pid file not be opened or locked.
StopFails == pc \in {"stopping", "unlocking"} /\ GivesUp

\* The process has ended, by the signal; then for the pid file.
Exited ==
  /\ pc = "waiting" /\ main[started] = "terminated"
  /\ pc' = "unlocking"
  /\ UNCHANGED <<part, restarts, started, why, dir, main, child, term, outlived>>

\* It ended in another way; the pid file is not looked at.
ExitedOtherwise == pc = "waiting" /\ main[started] = "failed" /\ GivesUp

\* Mutant: the end of the process is enough.
Unchecked ==
  /\ pc = "unlocking"
  /\ AfterStop(TRUE)
  /\ UNCHANGED <<started, why, dir, main, child, term, outlived>>

\* waitForPIDFileUnlock: the server that holds the lock is gone.
Unlocked ==
  /\ pc = "unlocking" /\ \A s \in Server : dir[s] = part => ~Alive(s)
  /\ AfterStop(TRUE)
  /\ UNCHANGED <<started, why, dir, main, child, term, outlived>>

\* clickHouseStopTimeout, for the process or for the lock.
StopTimesOut ==
  /\ \/ pc = "waiting" /\ main[started] = "running"
     \/ pc = "unlocking" /\ \E s \in Server : dir[s] = part /\ Alive(s)
  /\ GivesUp

-----------------------------------------------------------------------------
Process(s) == Listen(s) \/ ChildExits(s) \/ MainExits(s)

WorkerStep ==
  \/ Start \/ Ready \/ ExitedEarly \/ GiveUp \/ Restart \/ Cleanup
  \/ Signal \/ Exited \/ ExitedOtherwise \/ Unlocked \/ StopTimesOut \/ StopFails

ServerNext == (pc # "ended" /\ \E s \in Server : Process(s)) \/ WorkerStep

ServerSpec == ServerInit /\ [][ServerNext]_serverVars

-----------------------------------------------------------------------------
(* Properties                                                               *)

\* Whatever the worker asks its local ClickHouse while it works on a part
\* is answered by the server it started for it, never by one of an earlier
\* part or from before a restart, unless the server of a finished part was
\* still there when Stop returned an error.
OwnServer == pc = "working" /\ ~outlived => Listening \subseteq {started}
=============================================================================
