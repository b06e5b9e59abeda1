CONSTANTS
  r1 = r1
  r2 = r2
  r3 = r3
  w1 = w1
  NoRequest = NoRequest
  Requests = {r1, r2, r3}
  Workers = {w1}
  Priority <- MCPriority
  Impatient = {r2}
  MaxQueueSize = 2
  MayShutDown = TRUE
SPECIFICATION FairSpec
CHECK_DEADLOCK FALSE
PROPERTY ShutdownReturns
