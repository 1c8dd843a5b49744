SPECIFICATION Spec
CONSTANTS
  Writer = {w1, w2, w3, w4}
  GroupCommitMaxRecords = 3
  MaxKills = 0
  MaxPowerLosses = 1
  MaxFsyncFailures = 1
  MaxWriteFailures = 0
CHECK_DEADLOCK FALSE
SYMMETRY Symmetry
INVARIANTS
  TypeOK
  OneFlusher
  AckedSurvives
  AppliesInWalOrder
  SyncedIsDurable
PROPERTY ImplementsDurableMap
