CONSTANTS
  r1 = r1
  r2 = r2
  r3 = r3
  w1 = w1
  w2 = w2
  NoRequest = NoRequest
  Requests = {r1, r2, r3}
  Workers = {w1, w2}
  Priority <- MCPriority
  Impatient = {r2}
  MaxQueueSize = 1
  MayShutDown = TRUE
SPECIFICATION FairSpec
CHECK_DEADLOCK FALSE
INVARIANTS UnfinishedLedger ExactlyOnce
PROPERTIES JoinMeansDrained PutRequestsRun
