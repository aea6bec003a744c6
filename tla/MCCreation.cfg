SPECIFICATION FairSpec
CONSTANTS
  Confs = {k1, k2}
  Jars = 2
  HasHistory = FALSE
  Readers = {r1}
  Durations <- MCDurations
  SyncSessionTimeout = TRUE
  Thousand = 3
  Sixty = 2
  DayHours = 2
  MaxInt = 500
  MaxInt32 = 3
INVARIANTS
  TypeOK
  ClientAccountedFor
  RegisteredIsConfigured
  SettledOnceAnswered
  TimeoutIsTheServers
PROPERTIES
  PostIsAnswered
CHECK_DEADLOCK FALSE
