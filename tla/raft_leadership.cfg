CONSTANTS
  N = 3
  Proposals = {}
  Reads = {r1}
  MaxElections = 2
  MaxBeats = 1
  MaxFailures = 1
  MaxRestarts = 1
  MaxLate = 1
SPECIFICATION Spec
INVARIANTS TypeOK ElectionSafety LeaderHintElected ConfirmedReadIsCurrent
SYMMETRY Symmetry
CHECK_DEADLOCK FALSE
