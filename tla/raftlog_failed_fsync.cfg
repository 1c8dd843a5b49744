SPECIFICATION Spec
CONSTANTS
  MaxTerm = 2
  MaxLog = 2
  MaxFile = 4
  MaxHard = 1
  MaxCrashes = 0
  MaxFsyncFailures = 1
  MaxWriteFailures = 0
  MaxFailures = 2
CHECK_DEADLOCK FALSE
INVARIANT
  Contiguous
