SPECIFICATION Spec
CONSTANTS
  h1 = h1
  h2 = h2
  g1 = g1
  g2 = g2
  i1 = i1
  r1 = r1
  r2 = r2
  gDxeCoreImageHandle = core
  DevicePathGuid = dp
  NULL = NULL
  Free = Free
  NotifyTpl <- AtCallback
  Handles = {h1}
  Prots = {p1}
  Regs = {}
  Guids = {g1}
  Interfaces = {i1}
  Agents = {a1, a2, a3}
  Attributes <- OpenAttributes
  NestedAttributes <- ExclusiveOnly
  Multiple = {}
  OuterServices = {"Install", "Open", "Close"}
  NestedServices = {"Open"}
  RemoveInUse = FALSE
  MaxDepth = 5
INVARIANT ExclusiveSound
