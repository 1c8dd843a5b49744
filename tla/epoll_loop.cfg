SPECIFICATION FairSpec
CONSTANTS
  c1 = c1
  c2 = c2
  Conn = {c1}
  MaxRequests <- Three
  OutCapacity = 1
  Pipelining = {c1}
  Flaws <- AnyFlaw
  Leave <- AnyWay
  BackpressureThreshold = 2
  MaxAcceptFailures = 1
CHECK_DEADLOCK FALSE
INVARIANTS TypeOK NothingForgotten
PROPERTIES EveryRequestAnswered StopEndsRun
