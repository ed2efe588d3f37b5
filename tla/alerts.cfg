SPECIFICATION Spec
CONSTANTS
  Source = {"data", "presence"}
  NoSource = "no source"
  Replica = {"r1", "r2"}
  Cases <- MCCases
  MaxWait = 2
INVARIANTS
  CleanMeansClean
  AbsentMeansAbsent
  BrokenRuleSurfaces
  SummaryHonest
