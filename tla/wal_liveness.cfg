SPECIFICATION FairSpec
CONSTANTS
  Writer = {w1, w2, w3}
  GroupCommitMaxRecords = 3
  MaxKills = 1
  MaxPowerLosses = 0
  MaxFsyncFailures = 0
  MaxWriteFailures = 1
CHECK_DEADLOCK FALSE
PROPERTY
  EveryWriteReturns
