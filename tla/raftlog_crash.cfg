SPECIFICATION Spec
CONSTANTS
  MaxTerm = 2
  MaxLog = 3
  MaxFile = 4
  MaxHard = 2
  MaxCrashes = 2
  MaxFsyncFailures = 1
  MaxWriteFailures = 1
  MaxFailures = 2
CHECK_DEADLOCK FALSE
INVARIANTS TypeOK EntriesStayContiguous FileIsTheLog IndicesIncrease PromisedSurvives VoteSurvives
