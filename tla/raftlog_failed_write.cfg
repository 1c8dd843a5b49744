SPECIFICATION Spec
CONSTANTS
  MaxTerm = 2
  MaxLog = 2
  MaxFile = 4
  MaxHard = 1
  MaxCrashes = 0
  MaxFsyncFailures = 0
  MaxWriteFailures = 1
  MaxFailures = 2
CHECK_DEADLOCK FALSE
INVARIANT
  KeepsPromises
