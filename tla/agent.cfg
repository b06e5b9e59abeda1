CONSTANTS
  a = a
  b = b
  s1 = s1
  r1 = r1
  other = other
  Starts = {s1}
  Flows = {s1, other}
  Reverts = {r1}
  ById = ById
  Components = {a, b}
  Registered = {a, b}
  Default = a
  Decisions <- MCDecisions
  Nobody = Nobody
  None = None
  MaxLoops = 2
  MaxRefusals = 1
  MaxFucks = 2
SPECIFICATION Spec
INVARIANTS RevertsOwnFuck
PROPERTIES KeepsPromise FucksAreReversible ErrorsSurface Answered
CHECK_DEADLOCK FALSE
