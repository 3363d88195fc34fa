SPECIFICATION Spec
CONSTANTS
  DirectWords = 20
  WindowWords = 20
  MBWords = 4
  PageWords = 2
  MaxEntries = 3
  SkipMax = 2
  WorkMax = 2
  MapMax = 3
  LruSlots = 2
  Burst = 2
  RunMax = 3
  ErrorStop = 4
  MaxErrors = 6
  BadWords = {7, 10, 13, 25, 44}
  Windows <- MCWindows
  RowMax = 2
  RowOf <- MCRowOf
  NoRow = "none"
  ChipsOf <- MCChipsOf
  ChipBuf = 5
  ChipLen <- MCChipLen
INVARIANTS
  TypeOK
  PrunedClean
  SkipsDisjoint
  SkippedIsLogged
  LogComplete
  GoodMemoryTested
  HaltReports
PROPERTY
  PruneEnds
CHECK_DEADLOCK FALSE
