SPECIFICATION Spec
CONSTANTS
  Slots = {1, 2, 3}
  InstallSlots = {1, 2, 3}
  ForeignSlots = {1}
  OrigOrder <- MCOrder
  LegacyOrders <- MCNoLegacy
  Pages = {p1}
  OrderCap = 2
  EntriesCap = 3
  OtherEsps = {0}
  Faults = {"CopyFile", "SetBootEntry", "SetBootSlot", "SetBootOrder", "SetState", "SetBadPages", "DeleteVar", "PowerLoss"}
  UsbApps = {"brr-entry.efi", "revert.efi"}
INVARIANTS
  TypeOK
  NoBrokenBoot
  ForeignEntriesUntouched
  InstalledMeansMasked
PROPERTIES
  ConfigSpec
  BadPagesKept
