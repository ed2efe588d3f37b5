SPECIFICATION ChecksSpec
CONSTANTS
  None = None
  Servers <- MCServers
  Day = 12
  Week = 16
  Busy = 5
  Failing = 5
  Spiking = 4
  Refused = 5
  Troubled = 5
  Behind = 2
  XidMax = 100
INVARIANTS
  HoursSurface
  LimitsSurface
  CountedOnce
  MissingNeverHides
CHECK_DEADLOCK FALSE
