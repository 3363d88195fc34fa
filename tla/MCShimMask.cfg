SPECIFICATION Spec
CONSTANTS
  PageSize = 2
  MaxPage = 3
  Expand = 1
  MaxRanges = 3
  MaxChips = 1
  BadmemFiles <- MCFiles
  SavedBlobs <- MCSaved
  Designators = {"U1", "U9"}
  ChipLists <- MCChipLists
  RowLists <- MCRowLists
  Board <- MCBoard
  RowPages <- MCRows
  Decoders = {"UNKNOWN", "VALIDATED", "FAILED"}
  FirmwareTypes = {"Conventional", "BootServices", "Absent"}
  AllocFails = TRUE
INVARIANTS
  TypeOK
  SilentMeansMasked
  TakesNoMore
  VerifiedPagesSafe
CHECK_DEADLOCK FALSE
