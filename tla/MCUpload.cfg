\* A copy and a copy of the copy, or a chained job, with deletions of all jobs
\* at any time; before that, chains of up to three backups.
CONSTANTS
  a = a
  b = b
  c = c
  p1 = p1
  p2 = p2
  NoKey = NoKey
  NoPart = NoPart
  Absent = Absent
  Job = {a, b, c}
  Part = {p1, p2}
  Origins <- MCOrigins
  Backups <- MCBackups
  Partition <- MCPartitions
  MaxFaults = 1
SPECIFICATION Spec
SYMMETRY UploadSymmetry
CHECK_DEADLOCK FALSE
INVARIANTS UploadInv DerivedComplete BackupReadExactly
