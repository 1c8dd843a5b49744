CONSTANTS
  N = 3
  Proposals = {p1, p2}
  Reads = {}
  MaxElections = 2
  MaxBeats = 0
  MaxFailures = 0
  MaxRestarts = 0
  MaxLate = 0
SPECIFICATION Spec
INVARIANT AckedIsDurable
SYMMETRY Symmetry
CHECK_DEADLOCK FALSE
