SPECIFICATION Spec
CONSTANTS
  Run = {"r1", "r2"}
  Place = {"p1", "p2"}
  None = "nobody"
  Flags <- MCFlags
  Cleaning = TRUE
CONSTRAINT
  Scope
INVARIANTS
  AlertsAreRecorded
PROPERTIES
  KeepsPromise
