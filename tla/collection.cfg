SPECIFICATION FairSpec
CONSTANTS
  SlowPing = 1
  SlowMetrics = 2
  LargeTables = 3
  SlowQuery = 2
  EssentialBudget = 4
  DefaultQueryTimeout = 3
  ClientTimeoutMargin = 2
  EssentialQueryTimeout = 2
  EssentialMargin = 1
  Collector = {1, 2, 3}
  GentleSettings <- MCGentleSettings
  Configs <- MCConfigs
  ProbeReplies <- MCProbeReplies
  Pauses <- MCPauses
  MaxWait = 3
INVARIANTS
  BudgetOverrunBounded
  GentleIffEssential
  ClientOutlivesServer
  LogMatchesFiles
  TripsExactlyOnTrouble
PROPERTIES
  NoWaitForKeeper
  KeepsPromise
  Termination
