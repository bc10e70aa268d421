\* Three parts with up to two restarts each.
CONSTANTS
  MaxParts = 3
  MaxRestarts = 2
SPECIFICATION ServerSpec
CHECK_DEADLOCK FALSE
INVARIANT OwnServer
