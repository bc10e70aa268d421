\* Commands that follow each other or overlap, into a table that must be empty
\* or need not be.
CONSTANTS
  i1 = i1
  i2 = i2
  n1 = n1
  n2 = n2
  Importer = {i1, i2}
  Name = {n1, n2}
  PartsOf <- MCPartsOf
  MaxRuns = 3
SPECIFICATION FairSpec
CHECK_DEADLOCK FALSE
INVARIANTS ImporterInv AttachedOnce
PROPERTY CommandsEnd
