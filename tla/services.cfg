CONSTANTS
  a = a
  b = b
  Callers = {a, b}
  Cases <- MCCases
  MaxAttempts = 2
  BreakThreshold = 2
  RecoveryTime = 1
  LimitTime = 1
  CircuitThreshold = 2
  ResetTime = 1
SPECIFICATION FairSpec
INVARIANTS StatusAgrees RetryBudget
PROPERTIES BreaksLast HandlerEnds Recovers
