SPECIFICATION Spec
CONSTANTS
  c1 = c1
  c2 = c2
  Conn = {c1, c2}
  Worker = {w1, w2}
  Acceptor = acceptor
  NoConn = none
  MaxRequests <- TwoAndOne
  OutCapacity = 1
  Pipelining = {c1, c2}
  Flaws <- SecondPayload
  Leave <- PatientAndNot
  Failures = {"accept", "connect"}
CHECK_DEADLOCK FALSE
SYMMETRY WorkerSymmetry
INVARIANTS TypeOK OnePlacePerConnection NoTaskSleptThrough
PROPERTY ImplementsRequestService
