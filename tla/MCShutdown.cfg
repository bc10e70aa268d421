\* Handled shutdowns as the only disturbance.
CONSTANTS
  w1 = w1
  w2 = w2
  o1 = o1
  o2 = o2
  o3 = o3
  j1 = j1
  q1 = q1
  q2 = q2
  Original = {o1, o2}
  Job = {j1}
  JobOf <- MCJobOf
  Worker = {w1, w2}
  NoWorker = NoWorker
  Partition = {q1, q2}
  Shape <- MCShapes
  MaxArtifacts = 2
  MaxBytes = 0
  Windowed = TRUE
  InsertRole = {w1, w2}
  CompactRole = {w1, w2}
  Faults = {"shutdown"}
  MaxFaults = 1
SPECIFICATION Spec
INVARIANTS ShutdownFailsNothing
