SPECIFICATION Spec
CONSTANTS
  c1 = c1
  c2 = c2
  Conn = {c1, c2}
  MaxRequests <- Two
  OutCapacity = 1
  Pipelining = {c1}
  Flaws <- SecondOfC2
  Leave <- FinishAndAbandon
  BackpressureThreshold = 1
  MaxAcceptFailures = 1
CHECK_DEADLOCK FALSE
INVARIANT NothingForgotten
PROPERTIES ImplementsRequestService PausedWhileFull
