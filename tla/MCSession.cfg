SPECIFICATION FairSpec
CONSTANT MaxStatements = 2
INVARIANTS
  TypeOK
  QuietWhenIdle
  BusyHasWork
  CancelReachesContext
  ReleasedExactlyOnce
PROPERTIES
  TerminalIsFinal
  ImplementsLifecycle
  ImplementsContract
  CloseQuiesces
  CancelledStops
  SeveredCloses
  EvictedIsReleased
CHECK_DEADLOCK FALSE
