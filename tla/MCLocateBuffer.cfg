SPECIFICATION Spec
CONSTANTS
  h1 = h1
  h2 = h2
  g1 = g1
  g2 = g2
  i1 = i1
  r1 = r1
  r2 = r2
  gDxeCoreImageHandle = core
  DevicePathGuid = dp
  NULL = NULL
  Free = Free
  NotifyTpl <- AtCallback
  Handles = {h1, h2}
  Prots = {p1, p2}
  Regs = {}
  Guids = {g1}
  Interfaces = {i1}
  Agents = {}
  Attributes = {}
  NestedAttributes = {}
  Multiple = {}
  OuterServices = {"Install", "LocateBuffer"}
  NestedServices = {"Install"}
  RemoveInUse = FALSE
  MaxDepth = 4
INVARIANT BufferLargeEnough
