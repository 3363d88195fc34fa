SPECIFICATION Spec
CONSTANTS
  Machines <- MCMachines
  Addresses <- MCAddresses
  Pages <- MCPages
  MaxErrors = 3
  Profiles <- MCProfiles
  Products = {"x8", "x16"}
  RowMax = 2
  RowEnumCap = 6
INVARIANTS
  TypeOK
  DecodersAgree
  RowBitsFit
  RowsMasked
  RowsOnly
  ChipsMasked
CHECK_DEADLOCK FALSE
