\* More tasks than goroutines; every task may fail.
CONSTANTS
  g1 = g1
  g2 = g2
  g3 = g3
  Worker = {g1, g2, g3}
  NumTasks = 4
\* The call returns, and nothing runs any more.
CHECK_DEADLOCK FALSE
SPECIFICATION FairSpec
INVARIANT PoolInv
PROPERTIES TasksSpec NothingLeaks
