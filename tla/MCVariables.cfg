SPECIFICATION Spec
CONSTANTS
  boot = boot
  os = os
  temp = temp
  d1 = d1
  d2 = d2
  Names = {boot, os, temp}
  Data = {d1, d2}
  Absent = Absent
  None = None
  AttributesOf <- OneStoreEach
  HeaderSize = 1
  VarSize <- TwoSizes
  Size <- Room
  Threshold = 2
INVARIANTS TypeOK StoreSound LastValueIsRead
PROPERTIES ReadsChangeOnlyByCalls
CHECK_DEADLOCK FALSE
