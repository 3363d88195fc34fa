SPECIFICATION Spec
CONSTANTS
  HexValue <- MCHexValue
  Other = {"g"}
  LineCap = 7
  PagesCap = 2
  PageSize = 16
  WordSize = 256
  SavedMasks <- MCSaved
INVARIANTS
  TypeOK
  SavesWhatWasTyped
PROPERTIES
  SavedKept
  WellFormedEnds
