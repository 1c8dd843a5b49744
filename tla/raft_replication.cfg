CONSTANTS
  N = 3
  Proposals = {p1, p2}
  Reads = {}
  MaxElections = 2
  MaxBeats = 0
  MaxFailures = 1
  MaxRestarts = 0
  MaxLate = 1
SPECIFICATION Spec
INVARIANT LogMatching
INVARIANT StateMachineSafety
INVARIANT AppliedIsCommitted
INVARIANT CommittedIsApplied
INVARIANT LeaderCompleteness
INVARIANT CommitAgreement
PROPERTY LeaderAppendOnly
PROPERTY OkInTermIsCommitted
SYMMETRY Symmetry
CHECK_DEADLOCK FALSE
