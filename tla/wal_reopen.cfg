SPECIFICATION Spec
CONSTANTS
  Writer = {w1, w2}
  GroupCommitMaxRecords = 3
  MaxKills = 1
  MaxPowerLosses = 0
  MaxFsyncFailures = 0
  MaxWriteFailures = 0
CHECK_DEADLOCK FALSE
INVARIANT
  SyncedIsDurable
