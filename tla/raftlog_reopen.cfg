SPECIFICATION Spec
CONSTANTS
  MaxTerm = 1
  MaxLog = 1
  MaxFile = 4
  MaxHard = 1
  MaxCrashes = 2
  MaxFsyncFailures = 0
  MaxWriteFailures = 0
  MaxFailures = 2
CHECK_DEADLOCK FALSE
INVARIANT
  PromisedPastReopening
