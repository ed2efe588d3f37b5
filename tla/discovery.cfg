SPECIFICATION DiscoverSpec
CONSTANTS
  Cluster = {c, default}
  Default = default
  Address = {lo, x}
  Loopback = {lo}
  Self = self
  All = all
  Answers <- MCAnswers
INVARIANTS
  EveryMachineOnce
CHECK_DEADLOCK FALSE
