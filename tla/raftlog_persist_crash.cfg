SPECIFICATION Spec
CONSTANTS
  MaxTerm = 2
  MaxLog = 1
  MaxFile = 4
  MaxHard = 1
  MaxCrashes = 1
  MaxFsyncFailures = 0
  MaxWriteFailures = 0
  MaxFailures = 2
CHECK_DEADLOCK FALSE
INVARIANT
  NodeStartsAgain
