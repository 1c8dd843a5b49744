CONSTANTS
  N = 3
  Proposals = {p1}
  Reads = {}
  MaxElections = 1
  MaxBeats = 0
  MaxFailures = 0
  MaxRestarts = 1
  MaxLate = 0
SPECIFICATION Spec
INVARIANT LagIsNotNegative
CHECK_DEADLOCK FALSE
