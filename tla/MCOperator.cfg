\* Every command, with the uses of set-part-state that the documentation names,
\* beside a worker and an importer that keep working.
CONSTANTS
  w1 = w1
  o1 = o1
  o2 = o2
  j1 = j1
  q1 = q1
  c1 = c1
  Original = {o1, o2}
  Job = {j1}
  JobOf <- MCJobOf
  Worker = {w1}
  NoWorker = NoWorker
  Partition = {q1}
  Shape <- MCShapes
  MaxArtifacts = 2
  MaxBytes = 0
  Windowed = TRUE
  Operator = {c1}
  MaxEffort = 4
  MaxForced = 1
  Command = {"retry-failed", "set-part-state", "reset-job", "reset-compaction", "delete-parts",
             "retry-failed -force", "reset-compact-timer"}
  Settings <- MCSettings
  DeleteStatus = {"IMPORTED"}
  Copied = {}
SPECIFICATION Spec
SYMMETRY OperatorSymmetry
CHECK_DEADLOCK FALSE
INVARIANTS OperatorInv HeldOnce ResetStaysPossible MaintenanceDefined OfferedMeansRewritten
PROPERTY RetryReturnsToFailedStage
