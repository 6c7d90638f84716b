SPECIFICATION Spec
CONSTANTS
  NULL = NULL
  Ppis <- PpiSet
  Notifies <- NotifySet
  Guid <- GuidOf
  Level <- LevelOf
  Invalid = {"bad", "badNotify"}
  InHeap = {"p1", "c1"}
  InstallLists <- Installs
  NotifyLists <- Registrations
  Replacements <- Replaces
  DispatchTable <- NoTable
  SecurityNotify = "security"
  MemoryDiscovered = "memory"
  FindFvPpiGuid = "findFv"
  DxeIplPpiGuid = "g2"
  BootFv = "boot"
  FvHobs <- Volumes
  Files <- FilesOf
  DepexSection <- Depexes
  Loadable = {"m1", "m2", "m3"}
  Trusted = {"m1", "m3"}
  Registers <- AnyLevel
  MAX_PPI_DESCRIPTORS = 10
  MAX_GRAMMAR_SIZE = 3
INVARIANT EachIsNotified
CHECK_DEADLOCK FALSE
