SPECIFICATION Spec
CONSTANTS
  Slots = {1, 2}
  InstallSlots = {2}
  ForeignSlots = {1}
  OrigOrder <- MCOrder
  LegacyOrders <- MCLegacy
  Pages = {p1}
  OrderCap = 2
  EntriesCap = 3
  OtherEsps = {0}
  Faults = {"CopyFile", "SetBootEntry", "SetBootSlot", "SetBootOrder", "SetState", "PowerLoss"}
  UsbApps = {"brr-entry.efi", "revert.efi", "install.efi --uninstall"}
INVARIANTS
  RevertRestores
  RevertRemovesFiles
