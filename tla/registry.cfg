CONSTANTS
  planner = planner
  tool = tool
  s = s
  t = t
  NoModule = NoModule
  NoThread = NoThread
  NoFrame = NoFrame
  Modules <- MCModules
  Threads = {s, t}
  MaxDepth = 2
SPECIFICATION Spec
INVARIANTS DefaultRegistered FamiliesNonEmpty EventsTellAll
