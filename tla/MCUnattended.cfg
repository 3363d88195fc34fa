SPECIFICATION FairSpec
CONSTANTS
  Slots = {1, 2}
  InstallSlots = {2}
  ForeignSlots = {1}
  OrigOrder <- MCOrder
  LegacyOrders <- MCNoLegacy
  Pages = {}
  EntriesCap = 1
  OrderCap = 2
  OtherEsps = {0, 1}
  Faults = {"SaveEntries", "SaveOrder", "RestoreOrder", "DeleteVar", "DeleteFile", "PowerLoss"}
  UsbApps = {"install.efi"}
PROPERTIES
  UnattendedBoot
  SystemsKept
