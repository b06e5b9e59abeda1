CONSTANTS
  c1 = c1
  c2 = c2
  w1 = w1
  NoRequest = NoRequest
  Callers = {c1, c2}
  MaxAttempts = 2
  Workers = {w1}
  Requests <- MCRequests
  Priority <- MCPriority
  Impatient = {}
  MaxQueueSize = 2
  MayShutDown = TRUE
SPECIFICATION RFairSpec
INVARIANTS AttemptsInOrder
PROPERTY HandlerEnds
CHECK_DEADLOCK FALSE
