\* Every chunk count from 1 to MaxChunks, with and without a remainder; the
\* poll interval of the wait overshoots both deadlines.
CONSTANTS
  q1 = q1
  q2 = q2
  MaxRows = 4
  Partition = {q1, q2}
  MinRowsSet = {0, 1, 2}
  MaxChunks = 3
  Threads = {1, 2}
  DefaultBlock = 4
  BlockSetting = {0, 1}
  MinBlock = 2
  Tables <- MCTables
  TargetBytes = 3
  MaxBytes = 3
  MinParts = 1
  Timeout = 3
  MaxTimeout = 7
  MinWait = 2
  Poll = 2
SPECIFICATION FairSpec
CHECK_DEADLOCK FALSE
INVARIANTS InsertInv WaitInv
PROPERTIES DiscardsNoCompletedRow WaitEnds
