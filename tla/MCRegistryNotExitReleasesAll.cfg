SPECIFICATION Spec
CONSTANTS
  Uuid = {u1}
  MaxSessions = 1
  MaxTime = 2
  MaxWork = 1
  MaxCalls = 1
  Flags <- Short
  RemoteTimeouts = {}
  SyncSessionTimeout = FALSE
INVARIANT ExitReleasesAll
CHECK_DEADLOCK FALSE
