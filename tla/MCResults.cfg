SPECIFICATION FairResultsSpec
CONSTANTS
  MaxItems = 3
  MaxInt = 127
  MaxInt32 = 31
  SizeParams <- AnySizes
  NotANumber = NotANumber
  Thousand = 2
  Sixty = 3
  DayHours = 2
  Mantissa = 8
  Queries <- AnyQuery
  DefaultLimit = 2
  MaxBatches = 3
INVARIANTS
  ResultsTypeOK
  PagesConnect
  CellsInPlace
  LimitIsKept
  ValuesSayWhatTheyHold
PROPERTIES
  KeepsToPaging
  SeenUpToTheFirstBad
  OnlyOverflowPanics
CHECK_DEADLOCK FALSE
