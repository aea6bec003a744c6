SPECIFICATION Spec
CONSTANTS
  Uuid = {u1}
  MaxSessions = 1
  MaxTime = 2
  MaxWork = 1
  MaxCalls = 2
  Flags <- LongOrOff
  RemoteTimeouts <- Answers
  SyncSessionTimeout = TRUE
INVARIANTS
  TypeOK
  NoOrphan
  DeadIsClosed
  ExitLeavesOnlyStarted
PROPERTIES
  SessionsKeepContract
  RemovedWasDue
CHECK_DEADLOCK FALSE
