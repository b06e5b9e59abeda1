CONSTANTS
  t1 = t1
  t2 = t2
  t3 = t3
  Threads = {t1, t2, t3}
  FailureThreshold = 2
  RecoveryTimeout = 1
  HalfOpenMaxCalls = 2
  FailureCap = 3
  BreaksCap = 1
  Outcomes = {"ok", "monitored", "unmonitored"}
SPECIFICATION FairSpec
INVARIANTS ClosedBelowThreshold ProbeBudget
PROPERTIES LateFailuresDoNotExtendOutage KeepsPromise OutageEnds
