SPECIFICATION Spec
CONSTANTS
  Confs = {k1}
  Jars = 1
  HasHistory = TRUE
  Readers = {r1}
  Durations <- MCDurations
  SyncSessionTimeout = TRUE
  Thousand = 3
  Sixty = 2
  DayHours = 2
  MaxInt = 500
  MaxInt32 = 3
INVARIANTS
  ProcessSurvives
CHECK_DEADLOCK FALSE
