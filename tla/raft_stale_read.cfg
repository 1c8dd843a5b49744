CONSTANTS
  N = 3
  Proposals = {p1}
  Reads = {r1}
  MaxElections = 2
  MaxBeats = 1
  MaxFailures = 0
  MaxRestarts = 0
  MaxLate = 0
SPECIFICATION Spec
INVARIANT ReadsReflectAcked
SYMMETRY Symmetry
CHECK_DEADLOCK FALSE
