SPECIFICATION Spec
CONSTANTS
  Writer = {w1, w2, w3}
  GroupCommitMaxRecords = 3
  MaxKills = 0
  MaxPowerLosses = 2
  MaxFsyncFailures = 0
  MaxWriteFailures = 0
CHECK_DEADLOCK FALSE
INVARIANT
  AckedSurvives
