SPECIFICATION Spec
CONSTANTS
  Machines <- MCMachines
  Addresses <- MCAddresses
  Pages <- MCPages
  MaxErrors = 3
  Profiles <- MCProfiles
  Products = {"x8", "x16"}
  RowMax = 2
  RowEnumCap = 6
INVARIANT BadChipNamed
CHECK_DEADLOCK FALSE
