SPECIFICATION Spec
CONSTANTS
  Writer = {w1, w2}
  GroupCommitMaxRecords = 3
  MaxKills = 0
  MaxPowerLosses = 0
  MaxFsyncFailures = 1
  MaxWriteFailures = 0
CHECK_DEADLOCK FALSE
INVARIANT
  FlushCoversFollowers
