SPECIFICATION Spec
CONSTANTS
  Slots = {1, 2, 3}
  InstallSlots = {2, 3}
  ForeignSlots = {1}
  OrigOrder <- MCOrder
  LegacyOrders <- MCNoLegacy
  Pages = {p1}
  EntriesCap = 3
  OrderCap = 3
  OtherEsps = {0}
  Faults = {"PowerLoss"}
  UsbApps = {"brr-entry.efi"}
INVARIANT
  BackupMeansInstalled
