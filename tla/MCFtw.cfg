\* One block per area, as on the Loongson boards (FlashLayout.h): power failures anywhere.
SPECIFICATION FairSpec
CONSTANTS
  t1 = t1
  NumberOfSpareBlock = 1
  Work = Work
  Spare = Spare
  Targets = {t1}
  Data = {d1, d2}
  Erased = Erased
  None = None
  Slots = 2
INVARIANTS TypeOK ContentsAvailable BootFreesRecord
PROPERTIES Atomic Recovers
