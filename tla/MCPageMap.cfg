SPECIFICATION Spec
CONSTANTS
  None = None
  Types = {"BootServicesData", "RuntimeServicesData"}
  Tested <- TestedRegions
  Untested <- UntestedRegions
  EntriesPerPage = 4
  MAX_MAP_DEPTH = 6
  MaxPages = 2
  MaxAddresses = {4, 7}
  Addresses = {1, 3}
  MaxKey = 6
  EFI_DEBUG = TRUE
INVARIANTS TypeOK MapSound BlocksKept StackSound
PROPERTIES KeyTracksMap CallReturns
CHECK_DEADLOCK FALSE
