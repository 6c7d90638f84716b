\* Two blocks per area: the driver is written for any number (FtwEraseBlock).  A power
\* failure between the two erases of a reclaim leaves half a working block whose old
\* work space still counts as valid.
SPECIFICATION FairSpec
CONSTANTS
  t1 = t1
  NumberOfSpareBlock = 2
  Work = Work
  Spare = Spare
  Targets = {}
  Data = {d1}
  Erased = Erased
  None = None
  Slots = 1
INVARIANT ContentsAvailable
