CONSTANTS
  N = 3
  None = None
  Missing = Missing
  InPlace = {2}
  Odd = {1}
  Policies <- MCPolicies
  MaxRuns = 2
SPECIFICATION FairSpec
INVARIANTS Accounted CheckpointMarks LastErrorTold
PROPERTY RunEnds
