SPECIFICATION Spec
CONSTANTS
  e1 = e1
  e2 = e2
  g1 = g1
  UserEvents = {e1, e2}
  mEfiCheckTimerEvent = ct
  NoEvent = NoEvent
  Free = Free
  NoGroup = NoGroup
  EventClasses <- TimerClasses
  RaiseTpls = {}
  Delays = {0, 1}
  WaitList <- NoWait
  ApplicationServices = {"CreateEvent", "CloseEvent", "SetTimer"}
  NotifyServices = {"SetTimer"}
  CloseFromAbove = FALSE
  MaxTime = 2
  TimeModulus = 16
SYMMETRY Symmetry
INVARIANT TimerListSound
PROPERTY NeverEarly
