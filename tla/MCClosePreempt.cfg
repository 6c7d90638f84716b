SPECIFICATION Spec
CONSTANTS
  e1 = e1
  e2 = e2
  g1 = g1
  UserEvents = {e1, e2}
  mEfiCheckTimerEvent = ct
  NoEvent = NoEvent
  Free = Free
  NoGroup = NoGroup
  EventClasses <- MixedClasses
  RaiseTpls = {}
  Delays = {1}
  WaitList <- NoWait
  ApplicationServices = {"CreateEvent", "SignalEvent", "SetTimer"}
  NotifyServices = {"CloseEvent"}
  CloseFromAbove = TRUE
  MaxTime = 1
  TimeModulus = 16
INVARIANT NotifiedAtItsTpl
