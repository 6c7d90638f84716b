SPECIFICATION Spec
CONSTANTS
  h1 = h1
  h2 = h2
  g1 = g1
  g2 = g2
  i1 = i1
  r1 = r1
  r2 = r2
  gDxeCoreImageHandle = core
  DevicePathGuid = dp
  NULL = NULL
  Free = Free
  Handles = {h1, h2}
  Prots = {p1, p2, p3}
  Regs = {}
  Guids = {g1, dp}
  Interfaces = {i1}
  Agents = {a1}
  NotifyTpl <- AtCallback
  Attributes <- DriverOnly
  NestedAttributes = {}
  Multiple <- PathLists
  OuterServices = {"InstallMultiple", "UninstallMultiple", "Install", "Open", "StartImage"}
  NestedServices = {"InstallMultiple"}
  RemoveInUse = FALSE
  MaxDepth = 4
SYMMETRY Symmetry
INVARIANT MultipleSound
