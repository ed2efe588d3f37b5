SPECIFICATION Spec
CONSTANTS
  Dir = {d1, d2}
  DefaultDir = d2
  NoDir = none
  Holds <- MCHolds
  Last = 2
  Max = 3
  Bound = 2
  MaxPaths = 2
  MaxUnits = 5
  MaxEvents = 1
INVARIANTS
  EveryLogAccounted
  Snapshot
  HeaderIsExactUnlessCut
PROPERTIES
  TakesSnapshots
CHECK_DEADLOCK FALSE
