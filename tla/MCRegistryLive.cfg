SPECIFICATION FairSpec
CONSTANTS
  Uuid = {u1}
  MaxSessions = 1
  MaxTime = 2
  MaxWork = 1
  MaxCalls = 1
  Flags <- Short
  RemoteTimeouts <- Answers
  SyncSessionTimeout = FALSE
PROPERTIES
  IdleIsRemoved
  DeadIsRemoved
  ShutdownEnds
CHECK_DEADLOCK FALSE
