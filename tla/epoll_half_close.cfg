SPECIFICATION Spec
CONSTANTS
  c1 = c1
  c2 = c2
  Conn = {c1}
  MaxRequests <- Two
  OutCapacity = 1
  Pipelining = {c1}
  Flaws <- NoFlaws
  Leave <- AllHalf
  BackpressureThreshold = 2
  MaxAcceptFailures = 0
CHECK_DEADLOCK FALSE
PROPERTY
  ImplementsRequestService
