SPECIFICATION Spec
CONSTANTS
  Names <- MCNames
  BootEfi = "boot.efi"
  Alts <- MCAlts
  MaxLevelDirs = 2
  MaxDepth = 3
  VolumeLists <- MCVolumeLists
  BootOrders <- MCBootOrders
  Junk <- MCJunk
INVARIANTS
  TypeOK
  KnownLayoutsFound
  InternalFirst
PROPERTIES
  FirstOption
  OneImage
  SearchEnds
CHECK_DEADLOCK FALSE
