SPECIFICATION FairSpec
CONSTANTS
  e1 = e1
  e2 = e2
  g1 = g1
  UserEvents = {e1}
  mEfiCheckTimerEvent = ct
  NoEvent = NoEvent
  Free = Free
  NoGroup = NoGroup
  EventClasses <- TimerClasses
  RaiseTpls = {}
  Delays = {0,1}
  WaitList <- WaitOne
  ApplicationServices = {"CreateEvent", "SetTimer", "WaitForEvent"}
  NotifyServices = {}
  CloseFromAbove = FALSE
  MaxTime = 2
  TimeModulus = 16
PROPERTIES QueuedIsDispatched ArmedTimerFires WaitReturns
