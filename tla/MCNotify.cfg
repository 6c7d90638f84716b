SPECIFICATION Spec
CONSTANTS
  h1 = h1
  h2 = h2
  g1 = g1
  g2 = g2
  i1 = i1
  r1 = r1
  r2 = r2
  gDxeCoreImageHandle = core
  DevicePathGuid = dp
  NULL = NULL
  Free = Free
  Handles = {h1, h2}
  Prots = {p1, p2, p3}
  Regs = {r1, r2}
  Guids = {g1}
  Interfaces = {i1}
  Agents = {}
  NotifyTpl <- BothTpls
  Attributes = {}
  NestedAttributes = {}
  Multiple = {}
  OuterServices = {"Install", "Uninstall", "Reinstall", "Register", "Unregister", "Locate", "LocateBuffer"}
  NestedServices = {"Install", "Uninstall", "Unregister"}
  RemoveInUse = FALSE
  MaxDepth = 5
SYMMETRY Symmetry
INVARIANTS TypeOK LinksSound NoLostNotification
PROPERTY QueueSpec
