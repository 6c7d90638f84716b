SPECIFICATION Spec
CONSTANTS
  e1 = e1
  e2 = e2
  g1 = g1
  UserEvents = {e1, e2}
  mEfiCheckTimerEvent = ct
  NoEvent = NoEvent
  Free = Free
  NoGroup = NoGroup
  EventClasses <- MixedClasses
  RaiseTpls = {8}
  Delays = {1}
  WaitList <- NoWait
  ApplicationServices = {"CreateEvent", "CloseEvent", "SetTimer", "RaiseTPL", "RegisterProtocolNotify"}
  NotifyServices = {"InstallProtocolInterface"}
  CloseFromAbove = FALSE
  MaxTime = 1
  TimeModulus = 16
INVARIANT QueuesSound
