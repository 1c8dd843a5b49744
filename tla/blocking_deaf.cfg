SPECIFICATION ClientFairSpec
CONSTANTS
  c1 = c1
  c2 = c2
  Conn = {c1}
  Worker = {}
  Acceptor = acceptor
  NoConn = none
  MaxRequests <- One
  OutCapacity = 1
  Pipelining = {}
  Flaws <- NoFlaws
  Leave <- AllFinish
  Failures = {"connect"}
CHECK_DEADLOCK FALSE
PROPERTY
  StopEndsRun
