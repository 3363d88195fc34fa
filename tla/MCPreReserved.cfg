SPECIFICATION Spec
CONSTANTS
  PageSize = 2
  MaxPage = 3
  Expand = 1
  MaxRanges = 3
  MaxChips = 1
  BadmemFiles <- MCFiles
  SavedBlobs <- MCSaved
  Designators = {"U1", "U9"}
  ChipLists <- MCNoList
  RowLists <- MCNoList
  Board <- MCBoard
  RowPages <- MCRows
  Decoders = {"UNKNOWN"}
  FirmwareTypes = {"Conventional", "BootServices", "Absent"}
  AllocFails = FALSE
INVARIANT
  PreReservedOffLimits
CHECK_DEADLOCK FALSE
