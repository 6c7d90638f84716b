SPECIFICATION Spec
CONSTANTS
  None = None
  Types = {"BootServicesData", "RuntimeServicesData"}
  Tested <- TestedRegions
  Untested <- ManyUntested
  EntriesPerPage = 4
  MAX_MAP_DEPTH = 6
  MaxPages = 2
  MaxAddresses = {14}
  Addresses = {1, 3}
  MaxKey = 6
  EFI_DEBUG = FALSE
INVARIANTS StackSound
CHECK_DEADLOCK FALSE
