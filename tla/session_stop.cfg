SPECIFICATION ClientFairSpec
CONSTANTS
  c1 = c1
  c2 = c2
  Conn = {c1, c2}
  Worker = {w1, w2}
  Acceptor = acceptor
  NoConn = none
  MaxRequests <- One
  OutCapacity = 1
  Pipelining = {c1, c2}
  Flaws <- NoFlaws
  Leave <- PatientAndNot
  Failures = {"accept", "connect"}
CHECK_DEADLOCK FALSE
PROPERTIES EveryRequestAnswered StopDrains
