SPECIFICATION Spec
CONSTANTS
  Writer = {w1, w2}
  GroupCommitMaxRecords = 3
  MaxKills = 0
  MaxPowerLosses = 1
  MaxFsyncFailures = 0
  MaxWriteFailures = 1
CHECK_DEADLOCK FALSE
INVARIANT
  AckedSurvives
