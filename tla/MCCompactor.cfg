\* Faults on; the fan-in can be lowered once before it is exhausted.
CONSTANTS
  q1 = q1
  q2 = q2
  Partition = {q1, q2}
  Inputs <- MCInputs
  MaxFanIn = 4
  MinFanIn = 2
  MaxOther = 2
  MaxMemory = 2
  Faults = {"query", "report", "heartbeat", "drain"}
SPECIFICATION FairSpec
INVARIANTS CompactorInv StableWhileMeasured
PROPERTIES RestartsLowered Ends
