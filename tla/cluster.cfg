SPECIFICATION FairSpec
CONSTANTS
  N = 2
  Stray = {s}
  Folder = {"a", "b"}
  Place <- MCPlace
  None = None
  Broken = Broken
  Meddling = {"b"}
INVARIANTS
  ExitIsHonest
PROPERTIES
  OkIsFresh
  CompleteIsOk
  Termination
CHECK_DEADLOCK FALSE
