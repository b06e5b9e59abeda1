CONSTANTS
  N = 3
  Ids = {1, 2}
  Always = Always
  None = None
  Torn = Torn
  NoFile = NoFile
  Conditions <- MCConditions
  MaxEdits = 3
  MaxSessions = 1
  MaxBacks = 2
SPECIFICATION Spec
INVARIANTS BreaksHonoured OnceEach FileHonest
