SPECIFICATION Spec
CONSTANTS
  Target <- MCTarget
  Default = "default"
  Safe <- MCSafe
  Machine = {"m1", "m2"}
  At <- MCAt
  Connected <- MCConnected
  Configured <- MCConfigured
  Allows <- MCAllows
  Commands <- MCCommands
  Core = {"ruok", "srvr", "mntr"}
  Quiet = {"ruok"}
  MaxMishaps = 1
INVARIANTS
  EveryMemberOnce
  FileIsItsMembers
  LeaderlessIsNoGuess
PROPERTIES
  TakesCensus
CHECK_DEADLOCK FALSE
