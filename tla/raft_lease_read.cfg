CONSTANTS
  N = 3
  Proposals = {}
  Reads = {r1}
  MaxElections = 2
  MaxBeats = 1
  MaxFailures = 1
  MaxRestarts = 0
  MaxLate = 0
SPECIFICATION Spec
INVARIANT LeaseReadIsCurrent
CHECK_DEADLOCK FALSE
