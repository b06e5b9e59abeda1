CONSTANTS
  t1 = t1
  t2 = t2
  Threads = {t1, t2}
  Blocking = {t1}
  InitialRate = 2
  MaxTokens = 4
  TokensPerRequest = 2
  MinRate = 1
  RecoveryFactor = 2
  BackoffDivisor = 2
  RecoveryThreshold = 2
  RecoveryWindow = 1
SPECIFICATION BucketFairSpec
INVARIANTS PeakConformance
PROPERTIES RaiseNeedsCleanRun SomebodyIsServed
