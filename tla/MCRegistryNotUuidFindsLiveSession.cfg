SPECIFICATION Spec
CONSTANTS
  Uuid = {u1}
  MaxSessions = 2
  MaxTime = 1
  MaxWork = 1
  MaxCalls = 1
  Flags <- Short
  RemoteTimeouts = {}
  SyncSessionTimeout = FALSE
INVARIANT UuidFindsLiveSession
CHECK_DEADLOCK FALSE
