SPECIFICATION Spec
CONSTANTS
  None = None
  Windowless = Windowless
  Canonical <- MCCanonical
  VersionOf <- MCVersionOf
  Dotted = {".x.sql", ".git"}
  Sql = {"by_id.sql", "by_hash.sql"}
  Scenarios <- MCScenarios
  Back <- MCBack
  Needs <- MCNeeds
  Now = 1000
INVARIANTS
  GovShipsNothingRaw
  OneScope
  FocusInWindow
  AskedWindowIsCollected
PROPERTIES
  SelectedIsGreatest
CHECK_DEADLOCK FALSE
