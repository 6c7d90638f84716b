SPECIFICATION Spec
CONSTANTS
  e1 = e1
  e2 = e2
  g1 = g1
  UserEvents = {e1, e2}
  mEfiCheckTimerEvent = ct
  NoEvent = NoEvent
  Free = Free
  NoGroup = NoGroup
  EventClasses <- SignalClasses
  RaiseTpls = {16}
  Delays = {0}
  WaitList <- NoWait
  ApplicationServices = {"RegisterProtocolNotify", "InstallProtocolInterface", "CreateEvent", "CloseEvent", "SignalEvent", "CheckEvent", "RaiseTPL"}
  NotifyServices = {"CreateEvent", "InstallProtocolInterface", "RegisterProtocolNotify", "CloseEvent", "SignalEvent", "RaiseTPL", "CheckEvent"}
  CloseFromAbove = FALSE
  MaxTime = 0
  TimeModulus = 16
SYMMETRY Symmetry
INVARIANTS TypeOK QueuedIsPending NotificationsSound NotifyNesting CallerTplRestored
