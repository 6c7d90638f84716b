------------------------------ MODULE DxeEvent ------------------------------
(***************************************************************************)
(* The event, timer and task-priority services of the DXE core             *)
(* (src/Foundation/Core/Dxe/Event) on one processor, preempted by the      *)
(* timer interrupt of src/Sample/Cpu/Loongson/Mips32Timer.                 *)
(*                                                                         *)
(* `stack` is the processor's call stack, innermost frame last.  A frame   *)
(* is a continuation: pc names the code that runs next, tpl the priority   *)
(* the frame saved (OldTpl, OwnerTpl or NewTpl in the source), ev the      *)
(* event it works on and n one number it keeps.  Code that the source runs *)
(* with interrupts disabled is one step; wherever interrupts are enabled   *)
(* the timer interrupt may come between two steps.                         *)
(***************************************************************************)
EXTENDS Lists, Integers

CONSTANTS
  UserEvents,            \* the event structures the pool can provide
  mEfiCheckTimerEvent,   \* the core's own event, created by CoreInitializeTimer
  NoEvent,               \* a frame works on no event
  Free,                  \* an event structure that is not allocated
  NoGroup,               \* CreateEvent: ExFlag is FALSE
  EventClasses,          \* [type, tpl, group] arguments CreateEventEx gets
  RaiseTpls,             \* priorities that code raises itself to
  Delays,                \* TriggerTime arguments of SetTimer
  WaitList,              \* the UserEvents array of WaitForEvent
  ApplicationServices,   \* boot services that application code calls
  NotifyServices,        \* boot services that notification functions call
  CloseFromAbove,        \* may CloseEvent run above the event's NotifyTpl?
  MaxTime,               \* bound: the clock stops here, the interrupts go on
  TimeModulus            \* 2^64 in the source

EFI_TPL_APPLICATION == 4
EFI_TPL_CALLBACK    == 8
EFI_TPL_NOTIFY      == 16
EFI_TPL_HIGH_LEVEL  == 31
TimerLockTpl        == EFI_TPL_HIGH_LEVEL - 1

Tpl       == 0..EFI_TPL_HIGH_LEVEL
Events    == UserEvents \cup {mEfiCheckTimerEvent}
Flags     == {"TIMER", "WAIT", "SIGNAL"}
Services  == {"CreateEvent", "CloseEvent", "SignalEvent", "CheckEvent",
              "WaitForEvent", "SetTimer", "RaiseTPL",
              "RegisterProtocolNotify", "InstallProtocolInterface"}
Notifies(type) == type \cap {"WAIT", "SIGNAL"} # {}

\* CoreCreateEventEx rejects APPLICATION and below, HIGH_LEVEL, and a
\* notification both WAIT and SIGNAL; an event without notification gets TPL 0.
ValidClass(c) ==
  /\ c = [type |-> c.type, tpl |-> c.tpl, group |-> c.group]
  /\ c.type \subseteq Flags /\ ~({"WAIT", "SIGNAL"} \subseteq c.type)
  /\ IF Notifies(c.type)
     THEN c.tpl \in (EFI_TPL_APPLICATION + 1)..(EFI_TPL_HIGH_LEVEL - 1)
     ELSE c.tpl = 0

CheckTimerClass ==
  [type |-> {"SIGNAL"}, tpl |-> EFI_TPL_HIGH_LEVEL - 1, group |-> NoGroup]

ASSUME EventAssumption ==
  /\ mEfiCheckTimerEvent \notin UserEvents
  /\ NoEvent \notin Events
  /\ \A c \in EventClasses : ValidClass(c) /\ c # Free
  /\ CheckTimerClass # Free
ASSUME CallAssumption ==
  /\ RaiseTpls \subseteq Tpl
  /\ ApplicationServices \subseteq Services /\ NotifyServices \subseteq Services
  /\ WaitList \in Seq(UserEvents)
  /\ CloseFromAbove \in BOOLEAN
ASSUME TimeAssumption ==
  /\ MaxTime \in Nat /\ TimeModulus \in Nat /\ MaxTime < TimeModulus
  /\ Delays \subseteq 0..(TimeModulus - 1)

VARIABLES
  gEfiCurrentTpl,     \* current task priority
  InterruptState,     \* processor interrupts enabled
  stack,              \* call stack, innermost frame last
  gEventPending,      \* the set bits of the mask
  gEventQueue,        \* [Tpl -> list of events to notify]
  SignalCount,        \* [Events -> 0..1]
  event,              \* [Events -> Free or the class it was created with]
  gEventSignalQueue,  \* list of the NOTIFY_SIGNAL events
  ProtNotify,         \* list of the events registered on a protocol
  mEfiTimerList,      \* list of armed timers, by trigger time
  TriggerTime,        \* [Events -> 64-bit time]
  Period,             \* [Events -> 64-bit time]
  mEfiSystemTime,
  due                 \* history: the time a timer was asked for, without wrap

cpu     == <<gEfiCurrentTpl, InterruptState, stack>>
notify  == <<gEventPending, gEventQueue, SignalCount>>
objects == <<event, gEventSignalQueue, ProtNotify>>
timer   == <<mEfiTimerList, TriggerTime, Period, due>>
vars    == <<cpu, notify, objects, timer, mEfiSystemTime>>

-----------------------------------------------------------------------------
(* Frames.                                                                 *)

Labels ==
  {"app", "notify", "raised",                          \* code outside the core
   "test", "dispatch", "call", "lower",                \* CoreRestoreTpl
   "signalGroup", "notifyList", "relock",              \* CoreSignalEvent
   "checkEvent", "wait",                               \* CoreCheckEvent, CoreWaitForEvent
   "setTimer", "insertTimer", "timerUnlock",           \* CoreSetTimer
   "checkTimers", "checkLoop", "rearm", "reinsert",    \* CoreCheckTimers
   "closeLock", "closeUnregister", "closeFree",        \* CoreCloseEvent
   "notifyEntry"}                                      \* CoreNotifyProtocolEntry

Frame(pc, tpl, ev, n) == [pc |-> pc, tpl |-> tpl, ev |-> ev, n |-> n]
RestoreFrame(NewTpl)  == Frame("test", NewTpl, NoEvent, 0)

Top          == stack[Len(stack)]
Pop(s)       == [i \in 1..(Len(s) - 1) |-> s[i]]
Replace(f)   == Append(Pop(stack), f)
At(pc)       == Top.pc = pc
Go(pc)       == Replace([Top EXCEPT !.pc = pc])
Live(e)      == event[e] # Free
IsType(e, t) == t \in event[e].type
InQueue(e)   == \E t \in Tpl : e \in Members(gEventQueue[t])

-----------------------------------------------------------------------------
(* Task priority (Tpl.c).                                                  *)

\* The event lock is taken at HIGH_LEVEL, so what it protects runs with
\* interrupts disabled; releasing it calls CoreRestoreTpl.
WithEventLock(s) ==
  /\ gEfiCurrentTpl' = EFI_TPL_HIGH_LEVEL
  /\ InterruptState' = FALSE
  /\ stack' = Append(s, RestoreFrame(gEfiCurrentTpl))

\* CoreRaiseTpl, its ASSERT as a guard, with s the stack behind it.
CoreRaiseTpl(NewTpl, s) ==
  /\ gEfiCurrentTpl <= NewTpl
  /\ gEfiCurrentTpl' = NewTpl
  /\ InterruptState' = (InterruptState /\ NewTpl < EFI_TPL_HIGH_LEVEL)
  /\ stack' = s

CoreHighestSetBit(bits) == CHOOSE t \in bits : \A u \in bits : u <= t

\* Mutant: the mask is -1 << NewTpl.
RestoreTestSameTpl ==
  /\ At("test")
  /\ IF \E t \in gEventPending : t >= Top.tpl
     THEN /\ gEfiCurrentTpl' = CoreHighestSetBit(gEventPending)
          /\ InterruptState' = (InterruptState \/ gEfiCurrentTpl' < EFI_TPL_HIGH_LEVEL)
          /\ stack' = Go("dispatch")
     ELSE stack' = Go("lower") /\ UNCHANGED <<gEfiCurrentTpl, InterruptState>>
  /\ UNCHANGED <<notify, objects, timer, mEfiSystemTime>>

\* The head of CoreRestoreTpl's loop.
RestoreTest ==
  /\ At("test")
  /\ IF \E t \in gEventPending : t > Top.tpl
     THEN /\ gEfiCurrentTpl' = CoreHighestSetBit(gEventPending)
          /\ InterruptState' = (InterruptState \/ gEfiCurrentTpl' < EFI_TPL_HIGH_LEVEL)
          /\ stack' = Go("dispatch")
     ELSE /\ stack' = Go("lower")
          /\ UNCHANGED <<gEfiCurrentTpl, InterruptState>>
  /\ UNCHANGED <<notify, objects, timer, mEfiSystemTime>>

\* Mutant: the priority is left at that of the last notification.
RestoreLowerNoTpl ==
  /\ At("lower")
  /\ InterruptState' = (InterruptState \/ Top.tpl < EFI_TPL_HIGH_LEVEL)
  /\ stack' = Pop(stack)
  /\ UNCHANGED <<gEfiCurrentTpl, notify, objects, timer, mEfiSystemTime>>

\* The end of CoreRestoreTpl.
RestoreLower ==
  /\ At("lower")
  /\ gEfiCurrentTpl' = Top.tpl
  /\ InterruptState' = (InterruptState \/ Top.tpl < EFI_TPL_HIGH_LEVEL)
  /\ stack' = Pop(stack)
  /\ UNCHANGED <<notify, objects, timer, mEfiSystemTime>>

\* Mutant: the pending bit is cleared when an event is taken off the queue.
DispatchClearsBit ==
  LET queue == gEventQueue[gEfiCurrentTpl]
  IN  /\ At("dispatch")
      /\ gEventPending' = gEventPending \ {gEfiCurrentTpl}
      /\ IF queue = <<>>
         THEN WithEventLock(Go("test")) /\ UNCHANGED <<gEventQueue, SignalCount>>
         ELSE /\ gEventQueue' = [gEventQueue EXCEPT ![gEfiCurrentTpl] = RemoveAtIndex(queue, 1)]
              /\ SignalCount' = [SignalCount EXCEPT ![queue[1]] = IF IsType(queue[1], "SIGNAL") THEN 0 ELSE @]
              /\ WithEventLock(Replace([Top EXCEPT !.pc = "call", !.ev = queue[1]]))
      /\ UNCHANGED <<objects, timer, mEfiSystemTime>>

\* CoreDispatchEventNotifies, at the priority CoreRestoreTpl has just set:
\* the queue is empty and its bit is cleared, or its head is taken off.
Dispatch ==
  /\ At("dispatch")
  /\ LET Priority == gEfiCurrentTpl
         queue    == gEventQueue[Priority]
     IN  \/ /\ queue = <<>>
            /\ gEventPending' = gEventPending \ {Priority}
            /\ WithEventLock(Go("test"))
            /\ UNCHANGED <<gEventQueue, SignalCount>>
         \/ /\ queue # <<>>
            /\ gEventQueue' = [gEventQueue EXCEPT ![Priority] = RemoveAtIndex(queue, 1)]
            /\ SignalCount' = IF Live(queue[1]) /\ IsType(queue[1], "SIGNAL")
                              THEN [SignalCount EXCEPT ![queue[1]] = 0]
                              ELSE SignalCount
            /\ WithEventLock(Replace([Top EXCEPT !.pc = "call", !.ev = queue[1]]))
            /\ UNCHANGED gEventPending
  /\ UNCHANGED <<objects, timer, mEfiSystemTime>>

\* Event->NotifyFunction (Event, Event->NotifyContext)
Call ==
  /\ At("call")
  /\ LET e == Top.ev
     IN  stack' = Append(Replace([Top EXCEPT !.pc = "dispatch", !.ev = NoEvent]),
                         Frame(IF e = mEfiCheckTimerEvent THEN "checkTimers" ELSE "notify",
                               gEfiCurrentTpl, e, 0))
  /\ UNCHANGED <<gEfiCurrentTpl, InterruptState, notify, objects, timer, mEfiSystemTime>>

NotifyReturn ==
  /\ At("notify")
  /\ stack' = Pop(stack)
  /\ UNCHANGED <<gEfiCurrentTpl, InterruptState, notify, objects, timer, mEfiSystemTime>>

-----------------------------------------------------------------------------
(* Code outside the core.  `Top.ev` is the event whose notification        *)
(* function runs, NoEvent in the application.  It uses an event only       *)
(* between the return of CreateEvent and the call of CloseEvent.           *)

CloseLabels == {"closeLock", "closeUnregister", "closeFree"}
Closing(e)  == \E i \in 1..Len(stack) : stack[i].pc \in CloseLabels /\ stack[i].ev = e
Usable(e)   == Live(e) /\ ~Closing(e)

May(service) ==
  /\ Top.pc \in {"app", "notify", "raised"}
  /\ service \in IF Top.ev = NoEvent THEN ApplicationServices ELSE NotifyServices

RaiseTPL(NewTpl) ==
  /\ May("RaiseTPL")
  /\ gEfiCurrentTpl < NewTpl
  /\ CoreRaiseTpl(NewTpl, Append(stack, Frame("raised", gEfiCurrentTpl, Top.ev, 0)))
  /\ UNCHANGED <<notify, objects, timer, mEfiSystemTime>>

RestoreTPL ==
  /\ At("raised")
  /\ stack' = Replace(RestoreFrame(Top.tpl))
  /\ UNCHANGED <<gEfiCurrentTpl, InterruptState, notify, objects, timer, mEfiSystemTime>>

-----------------------------------------------------------------------------
(* Event services (Event.c).                                               *)

\* Mutant: the mask is assigned instead of extended.
NotifyEventOneBit(e) ==
  LET t == event[e].tpl
  IN  /\ gEventQueue' = [gEventQueue EXCEPT
                           ![t] = InsertTailList(RemoveEntryList(gEventQueue[t], e), e)]
      /\ gEventPending' = {t}

\* Queues the notification, moving it to the tail if it is queued already.
CoreNotifyEvent(e) ==
  LET t == event[e].tpl
  IN  /\ gEventQueue' = [gEventQueue EXCEPT
                           ![t] = InsertTailList(RemoveEntryList(gEventQueue[t], e), e)]
      /\ gEventPending' = gEventPending \cup {t}

\* Mutant: the event is signalled again while it is signalled.
SignalEventAgain(e, s) ==
  /\ SignalCount' = [SignalCount EXCEPT ![e] = @ + 1]
  /\ IF IsType(e, "SIGNAL") THEN CoreNotifyEvent(e) ELSE UNCHANGED <<gEventQueue, gEventPending>>
  /\ WithEventLock(s)

\* CoreSignalEvent, with s the stack behind the call.  The members of a group
\* are notified after the lock was released and taken again.
CoreSignalEvent(e, s) ==
  /\ SignalCount' = [SignalCount EXCEPT ![e] = 1]
  /\ IF SignalCount[e] = 0 /\ IsType(e, "SIGNAL") /\ event[e].group = NoGroup
     THEN CoreNotifyEvent(e)
     ELSE UNCHANGED <<gEventQueue, gEventPending>>
  /\ WithEventLock(IF SignalCount[e] = 0 /\ IsType(e, "SIGNAL") /\ event[e].group # NoGroup
                   THEN Append(s, Frame("signalGroup", gEfiCurrentTpl, e, 0))
                   ELSE s)

SignalEvent(e) ==
  /\ May("SignalEvent") /\ Usable(e)
  /\ CoreSignalEvent(e, stack)
  /\ UNCHANGED <<objects, timer, mEfiSystemTime>>

\* CoreNotifySignalList: the lock is held during the walk.
SignalGroup ==
  /\ At("signalGroup")
  /\ CoreRaiseTpl(EFI_TPL_HIGH_LEVEL, Replace([Top EXCEPT !.pc = "notifyList", !.n = 1]))
  /\ UNCHANGED <<notify, objects, timer, mEfiSystemTime>>

NotifyList ==
  /\ At("notifyList")
  /\ IF Top.n <= Len(gEventSignalQueue)
     THEN LET e == gEventSignalQueue[Top.n]
          IN  /\ IF event[e].group # NoGroup /\ event[e].group = event[Top.ev].group
                 THEN CoreNotifyEvent(e)
                 ELSE UNCHANGED <<gEventQueue, gEventPending>>
              /\ stack' = Replace([Top EXCEPT !.n = @ + 1])
     ELSE /\ stack' = Append(Go("relock"), RestoreFrame(Top.tpl))
          /\ UNCHANGED <<gEventQueue, gEventPending>>
  /\ UNCHANGED <<gEfiCurrentTpl, InterruptState, SignalCount, objects, timer, mEfiSystemTime>>

\* CoreSignalEvent takes the lock again only to release it.
Relock ==
  /\ At("relock")
  /\ WithEventLock(Pop(stack))
  /\ UNCHANGED <<notify, objects, timer, mEfiSystemTime>>

\* CoreCheckEvent up to its second half, with s the stack behind the call: the
\* wait notification is queued when the event is not signalled.
CoreCheckEvent(e, s) ==
  LET frame == Append(s, Frame("checkEvent", gEfiCurrentTpl, e, 0))
  IN  IF SignalCount[e] = 0 /\ IsType(e, "WAIT")
      THEN CoreNotifyEvent(e) /\ WithEventLock(frame)
      ELSE /\ stack' = frame
           /\ UNCHANGED <<gEfiCurrentTpl, InterruptState, gEventQueue, gEventPending>>

CheckEvent(e) ==
  /\ May("CheckEvent") /\ Usable(e) /\ ~IsType(e, "SIGNAL")
  /\ CoreCheckEvent(e, stack)
  /\ UNCHANGED <<SignalCount, objects, timer, mEfiSystemTime>>

WaitForEvent ==
  /\ May("WaitForEvent") /\ gEfiCurrentTpl = EFI_TPL_APPLICATION
  /\ WaitList # <<>> /\ \A e \in Members(WaitList) : Usable(e)
  /\ stack' = Append(stack, Frame("wait", gEfiCurrentTpl, NoEvent, 1))
  /\ UNCHANGED <<gEfiCurrentTpl, InterruptState, notify, objects, timer, mEfiSystemTime>>

\* One turn of CoreWaitForEvent's loop; an event of type NOTIFY_SIGNAL ends it.
WaitTurn ==
  /\ At("wait")
  /\ LET e == WaitList[Top.n]
     IN  IF IsType(e, "SIGNAL")
         THEN /\ stack' = Pop(stack)
              /\ UNCHANGED <<gEfiCurrentTpl, InterruptState, gEventQueue, gEventPending>>
         ELSE CoreCheckEvent(e, stack)
  /\ UNCHANGED <<SignalCount, objects, timer, mEfiSystemTime>>

\* Mutant: the state is cleared without being reported.
CheckEventEndClears ==
  LET s == Pop(stack)
  IN  /\ At("checkEvent")
      /\ SignalCount' = [SignalCount EXCEPT ![Top.ev] = 0]
      /\ stack' = IF s[Len(s)].pc = "wait"
                  THEN Append(Pop(s), [s[Len(s)] EXCEPT !.n = (@ % Len(WaitList)) + 1])
                  ELSE s
      /\ UNCHANGED <<gEfiCurrentTpl, InterruptState, gEventPending, gEventQueue, objects, timer, mEfiSystemTime>>

\* The second half of CoreCheckEvent.  EFI_SUCCESS also ends a WaitForEvent
\* that called it; EFI_NOT_READY makes it look at the next event of its array.
CheckEventEnd ==
  LET s       == Pop(stack)
      caller  == s[Len(s)]
      waiting == caller.pc = "wait"
  IN  /\ At("checkEvent")
      /\ \/ /\ SignalCount[Top.ev] = 1
            /\ SignalCount' = [SignalCount EXCEPT ![Top.ev] = 0]
            /\ WithEventLock(IF waiting THEN Pop(s) ELSE s)
         \/ /\ SignalCount[Top.ev] = 0
            /\ stack' = IF waiting
                        THEN Append(Pop(s), [caller EXCEPT !.n = (@ % Len(WaitList)) + 1])
                        ELSE s
            /\ UNCHANGED <<gEfiCurrentTpl, InterruptState, SignalCount>>
      /\ UNCHANGED <<gEventPending, gEventQueue, objects, timer, mEfiSystemTime>>

\* The pool lock is at TPL_NOTIFY: CoreAllocatePool asserts above it.
CreateEvent(e, c) ==
  /\ May("CreateEvent") /\ gEfiCurrentTpl <= EFI_TPL_NOTIFY
  /\ e # mEfiCheckTimerEvent /\ ~Live(e)
  /\ event' = [event EXCEPT ![e] = c]
  /\ SignalCount' = [SignalCount EXCEPT ![e] = 0]
  /\ TriggerTime' = [TriggerTime EXCEPT ![e] = 0]
  /\ Period' = [Period EXCEPT ![e] = 0]
  /\ due' = [due EXCEPT ![e] = 0]
  /\ gEventSignalQueue' = IF "SIGNAL" \in c.type
                          THEN InsertHeadList(gEventSignalQueue, e)
                          ELSE gEventSignalQueue
  /\ WithEventLock(stack)
  /\ UNCHANGED <<gEventPending, gEventQueue, ProtNotify, mEfiTimerList, mEfiSystemTime>>

\* Some other frame of the stack is in the middle of a service on e.
Busy(e) ==
  \E i \in 1..Len(stack) :
     \/ stack[i].ev = e /\ stack[i].pc \notin {"notify", "raised", "call"}
     \/ stack[i].pc = "wait" /\ e \in Members(WaitList)

\* CoreCloseEvent: cancel the timer, take the event off its lists under the
\* event lock, unregister it under the protocol lock, free it.  A caller does
\* not close an event that a service it preempted is still using.
CloseEvent(e) ==
  /\ May("CloseEvent") /\ gEfiCurrentTpl <= EFI_TPL_NOTIFY
  /\ e # mEfiCheckTimerEvent /\ Live(e) /\ ~Busy(e)
  /\ CloseFromAbove \/ ~Notifies(event[e].type) \/ gEfiCurrentTpl <= event[e].tpl
  /\ LET frame == Append(stack, Frame("closeLock", gEfiCurrentTpl, e, 0))
     IN  IF IsType(e, "TIMER")
         THEN /\ mEfiTimerList' = RemoveEntryList(mEfiTimerList, e)
              /\ TriggerTime' = [TriggerTime EXCEPT ![e] = 0]
              /\ Period' = [Period EXCEPT ![e] = 0]
              /\ CoreRaiseTpl(TimerLockTpl, Append(frame, RestoreFrame(gEfiCurrentTpl)))
         ELSE /\ stack' = frame
              /\ UNCHANGED <<gEfiCurrentTpl, InterruptState, mEfiTimerList, TriggerTime, Period>>
  /\ UNCHANGED <<notify, objects, due, mEfiSystemTime>>

\* Mutant: the event stays on the queue of its notifications.
CloseLockKeepsQueued ==
  /\ At("closeLock")
  /\ gEventSignalQueue' = RemoveEntryList(gEventSignalQueue, Top.ev)
  /\ WithEventLock(Go("closeUnregister"))
  /\ UNCHANGED <<notify, event, ProtNotify, timer, mEfiSystemTime>>

CloseLock ==
  /\ At("closeLock")
  /\ gEventQueue' = [t \in Tpl |-> RemoveEntryList(gEventQueue[t], Top.ev)]
  /\ gEventSignalQueue' = RemoveEntryList(gEventSignalQueue, Top.ev)
  /\ WithEventLock(Go("closeUnregister"))
  /\ UNCHANGED <<gEventPending, SignalCount, event, ProtNotify, timer, mEfiSystemTime>>

\* CoreUnregisterProtocolNotify: one registration a turn, until none is found.
CloseUnregister ==
  /\ At("closeUnregister")
  /\ ProtNotify' = RemoveEntryList(ProtNotify, Top.ev)
  /\ CoreRaiseTpl(EFI_TPL_NOTIFY,
                  Append(IF Top.ev \in Members(ProtNotify) THEN stack ELSE Go("closeFree"),
                         RestoreFrame(gEfiCurrentTpl)))
  /\ UNCHANGED <<notify, event, gEventSignalQueue, timer, mEfiSystemTime>>

CloseFree ==
  /\ At("closeFree")
  /\ event' = [event EXCEPT ![Top.ev] = Free]
  /\ CoreRaiseTpl(EFI_TPL_NOTIFY, Replace(RestoreFrame(gEfiCurrentTpl)))
  /\ UNCHANGED <<notify, gEventSignalQueue, ProtNotify, timer, mEfiSystemTime>>

-----------------------------------------------------------------------------
(* The protocol database's use of events (Hand/Notify.c), one protocol.    *)

RegisterProtocolNotify(e) ==
  /\ May("RegisterProtocolNotify") /\ gEfiCurrentTpl <= EFI_TPL_NOTIFY
  /\ e # mEfiCheckTimerEvent /\ Usable(e) /\ e \notin Members(ProtNotify)
  /\ ProtNotify' = InsertTailList(ProtNotify, e)
  /\ CoreRaiseTpl(EFI_TPL_NOTIFY, Append(stack, RestoreFrame(gEfiCurrentTpl)))
  /\ UNCHANGED <<notify, event, gEventSignalQueue, timer, mEfiSystemTime>>

\* CoreInstallProtocolInterface signals the registered events while it holds
\* the protocol lock.
InstallProtocolInterface ==
  /\ May("InstallProtocolInterface") /\ ProtNotify # <<>>
  /\ CoreRaiseTpl(EFI_TPL_NOTIFY, Append(stack, Frame("notifyEntry", gEfiCurrentTpl, NoEvent, 1)))
  /\ UNCHANGED <<notify, objects, timer, mEfiSystemTime>>

NotifyEntry ==
  /\ At("notifyEntry")
  /\ IF Top.n <= Len(ProtNotify)
     THEN CoreSignalEvent(ProtNotify[Top.n], Replace([Top EXCEPT !.n = @ + 1]))
     ELSE /\ stack' = Replace(RestoreFrame(Top.tpl))
          /\ UNCHANGED <<gEfiCurrentTpl, InterruptState, notify>>
  /\ UNCHANGED <<objects, timer, mEfiSystemTime>>

-----------------------------------------------------------------------------
(* Timer services (Timer.c).                                               *)

\* Mutant: the timer is linked at the tail.
InsertTimerAtTail(e) == mEfiTimerList' = InsertTailList(mEfiTimerList, e)

\* CoreInsertEventTimer: in front of the first timer that triggers later.
CoreInsertEventTimer(e) ==
  LET later == {k \in 1..Len(mEfiTimerList) : TriggerTime[mEfiTimerList[k]] > TriggerTime[e]}
      k     == IF later = {} THEN Len(mEfiTimerList) + 1
               ELSE CHOOSE i \in later : \A j \in later : i <= j
  IN  mEfiTimerList' = InsertBefore(mEfiTimerList, k, e)

\* CoreSetTimer up to the point where it has dequeued and cleared the timer.
SetTimer(e, type, delay) ==
  /\ May("SetTimer") /\ Usable(e) /\ IsType(e, "TIMER")
  /\ mEfiTimerList' = RemoveEntryList(mEfiTimerList, e)
  /\ TriggerTime' = [TriggerTime EXCEPT ![e] = 0]
  /\ Period' = [Period EXCEPT ![e] = IF type = "TimerPeriodic" THEN delay ELSE 0]
  /\ CoreRaiseTpl(TimerLockTpl,
                  Append(stack, IF type = "TimerCancel" THEN RestoreFrame(gEfiCurrentTpl)
                                ELSE Frame("setTimer", gEfiCurrentTpl, e, delay)))
  /\ UNCHANGED <<notify, objects, due, mEfiSystemTime>>

\* Mutant: the delay is taken for the trigger time.
SetTriggerTimeAbsolute ==
  /\ At("setTimer")
  /\ TriggerTime' = [TriggerTime EXCEPT ![Top.ev] = Top.n]
  /\ due' = [due EXCEPT ![Top.ev] = mEfiSystemTime + Top.n]
  /\ stack' = Go("insertTimer")
  /\ UNCHANGED <<gEfiCurrentTpl, InterruptState, notify, objects, mEfiTimerList, Period, mEfiSystemTime>>

SetTriggerTime ==
  /\ At("setTimer")
  /\ TriggerTime' = [TriggerTime EXCEPT ![Top.ev] = (mEfiSystemTime + Top.n) % TimeModulus]
  /\ due' = [due EXCEPT ![Top.ev] = mEfiSystemTime + Top.n]
  /\ stack' = Go("insertTimer")
  /\ UNCHANGED <<gEfiCurrentTpl, InterruptState, notify, objects, mEfiTimerList, Period, mEfiSystemTime>>

InsertTimer ==
  /\ At("insertTimer")
  /\ CoreInsertEventTimer(Top.ev)
  /\ IF Top.n = 0
     THEN CoreSignalEvent(mEfiCheckTimerEvent, Go("timerUnlock"))
     ELSE stack' = Go("timerUnlock") /\ UNCHANGED <<gEfiCurrentTpl, InterruptState, notify>>
  /\ UNCHANGED <<objects, TriggerTime, Period, due, mEfiSystemTime>>

TimerUnlock ==
  /\ At("timerUnlock")
  /\ stack' = Replace(RestoreFrame(Top.tpl))
  /\ UNCHANGED <<gEfiCurrentTpl, InterruptState, notify, objects, timer, mEfiSystemTime>>

\* CoreCheckTimers, the notification function of mEfiCheckTimerEvent.  It works
\* with the time it read when it took the timer lock.
CheckTimers ==
  /\ At("checkTimers")
  /\ CoreRaiseTpl(TimerLockTpl, Replace([Top EXCEPT !.pc = "checkLoop", !.n = mEfiSystemTime]))
  /\ UNCHANGED <<notify, objects, timer, mEfiSystemTime>>

CheckLoop ==
  /\ At("checkLoop")
  /\ IF mEfiTimerList # <<>> /\ TriggerTime[mEfiTimerList[1]] <= Top.n
     THEN /\ mEfiTimerList' = RemoveAtIndex(mEfiTimerList, 1)
          /\ CoreSignalEvent(mEfiTimerList[1],
                             Replace([Top EXCEPT !.pc = "rearm", !.ev = mEfiTimerList[1]]))
     ELSE /\ stack' = Replace(RestoreFrame(Top.tpl))
          /\ UNCHANGED <<gEfiCurrentTpl, InterruptState, notify, mEfiTimerList>>
  /\ UNCHANGED <<objects, TriggerTime, Period, due, mEfiSystemTime>>

\* A periodic timer gets its next trigger time; one that is overdue triggers
\* at once.
Rearm ==
  LET e    == Top.ev
      next == (TriggerTime[e] + Period[e]) % TimeModulus
  IN  /\ At("rearm")
      /\ IF Period[e] = 0
         THEN /\ stack' = Go("checkLoop")
              /\ UNCHANGED <<gEfiCurrentTpl, InterruptState, notify, TriggerTime, due>>
         ELSE /\ TriggerTime' = [TriggerTime EXCEPT ![e] = IF next <= Top.n THEN Top.n ELSE next]
              /\ due' = [due EXCEPT ![e] = @ + Period[e]]
              /\ IF next <= Top.n
                 THEN CoreSignalEvent(mEfiCheckTimerEvent, Go("reinsert"))
                 ELSE stack' = Go("reinsert") /\ UNCHANGED <<gEfiCurrentTpl, InterruptState, notify>>
      /\ UNCHANGED <<objects, mEfiTimerList, Period, mEfiSystemTime>>

Reinsert ==
  /\ At("reinsert")
  /\ CoreInsertEventTimer(Top.ev)
  /\ stack' = Go("checkLoop")
  /\ UNCHANGED <<gEfiCurrentTpl, InterruptState, notify, objects, TriggerTime, Period, due, mEfiSystemTime>>

\* Mutant: a timer that is due exactly now is not expired.
TimerInterruptStrict ==
  LET now  == IF mEfiSystemTime < MaxTime THEN mEfiSystemTime + 1 ELSE mEfiSystemTime
  IN  /\ InterruptState
      /\ mEfiSystemTime' = now
      /\ IF mEfiTimerList # <<>> /\ TriggerTime[mEfiTimerList[1]] < now
         THEN CoreSignalEvent(mEfiCheckTimerEvent, stack)
         ELSE WithEventLock(stack) /\ UNCHANGED notify
      /\ UNCHANGED <<objects, timer>>

\* The timer interrupt: TimerInterruptHandler raises to HIGH_LEVEL, calls
\* CoreTimerTick for one period, and restores the priority it interrupted.
TimerInterrupt ==
  LET now  == IF mEfiSystemTime < MaxTime THEN mEfiSystemTime + 1 ELSE mEfiSystemTime
  IN  /\ InterruptState
      /\ mEfiSystemTime' = now
      /\ IF mEfiTimerList # <<>> /\ TriggerTime[mEfiTimerList[1]] <= now
         THEN CoreSignalEvent(mEfiCheckTimerEvent, stack)
         ELSE WithEventLock(stack) /\ UNCHANGED notify
      /\ UNCHANGED <<objects, timer>>

-----------------------------------------------------------------------------

Init ==
  /\ gEfiCurrentTpl = EFI_TPL_APPLICATION
  /\ InterruptState = TRUE
  /\ stack = <<Frame("app", EFI_TPL_APPLICATION, NoEvent, 0)>>
  /\ gEventPending = {}
  /\ gEventQueue = [t \in Tpl |-> <<>>]
  /\ SignalCount = [e \in Events |-> 0]
  /\ event = [e \in Events |-> IF e = mEfiCheckTimerEvent THEN CheckTimerClass ELSE Free]
  /\ gEventSignalQueue = <<mEfiCheckTimerEvent>>
  /\ ProtNotify = <<>>
  /\ mEfiTimerList = <<>>
  /\ TriggerTime = [e \in Events |-> 0]
  /\ Period = [e \in Events |-> 0]
  /\ mEfiSystemTime = 0
  /\ due = [e \in Events |-> 0]

\* The core's own code.
CoreStep ==
  \/ RestoreTest \/ RestoreLower \/ Dispatch \/ Call
  \/ SignalGroup \/ NotifyList \/ Relock
  \/ WaitTurn \/ CheckEventEnd
  \/ CloseLock \/ CloseUnregister \/ CloseFree
  \/ NotifyEntry
  \/ SetTriggerTime \/ InsertTimer \/ TimerUnlock
  \/ CheckTimers \/ CheckLoop \/ Rearm \/ Reinsert

\* A call of a boot service.
ServiceCall ==
  \/ \E t \in RaiseTpls : RaiseTPL(t)
  \/ WaitForEvent
  \/ InstallProtocolInterface
  \/ \E e \in UserEvents :
        \/ SignalEvent(e) \/ CheckEvent(e) \/ CloseEvent(e) \/ RegisterProtocolNotify(e)
        \/ \E c \in EventClasses : CreateEvent(e, c)
        \/ SetTimer(e, "TimerCancel", 0)
        \/ \E type \in {"TimerRelative", "TimerPeriodic"}, delay \in Delays : SetTimer(e, type, delay)

\* Code outside the core gives the processor back.
Return == NotifyReturn \/ RestoreTPL

Next == CoreStep \/ ServiceCall \/ Return \/ TimerInterrupt

Spec == Init /\ [][Next]_vars

\* Fairness.  A timer interrupt stays pending in CP0 Cause until it is taken;
\* one period is longer than the handler, so that the code it interrupts gets on
\* between two interrupts; notification functions return, and code that raised
\* its priority restores it.  Nothing is assumed of the application.
FairSpec ==
  /\ Spec
  /\ SF_vars(TimerInterrupt)
  /\ WF_vars(CoreStep)
  /\ SF_vars(InterruptState /\ CoreStep)
  /\ SF_vars(Return)

-----------------------------------------------------------------------------
(* Properties.                                                             *)

Class == [type : SUBSET Flags, tpl : 0..(EFI_TPL_HIGH_LEVEL - 1), group : {c.group : c \in EventClasses} \cup {NoGroup}]
FrameType == [pc : Labels, tpl : Tpl, ev : Events \cup {NoEvent}, n : Nat]

\* The type of every variable.
TypeOK ==
  /\ gEfiCurrentTpl \in Tpl
  /\ InterruptState \in BOOLEAN
  /\ stack \in Seq(FrameType) /\ stack # <<>>
  /\ gEventPending \subseteq Tpl
  /\ gEventQueue \in [Tpl -> Seq(Events)]
  /\ SignalCount \in [Events -> 0..1]
  /\ event \in [Events -> Class \cup {Free}]
  /\ gEventSignalQueue \in Seq(Events)
  /\ ProtNotify \in Seq(Events)
  /\ mEfiTimerList \in Seq(Events)
  /\ TriggerTime \in [Events -> 0..(TimeModulus - 1)]
  /\ Period \in [Events -> 0..(TimeModulus - 1)]
  /\ mEfiSystemTime \in 0..MaxTime
  /\ due \in [Events -> Nat]

\* A queue that holds a notification has its bit set in gEventPending: without
\* the bit CoreRestoreTpl would never look at the queue.
QueuedIsPending ==
  \A t \in Tpl : gEventQueue[t] # <<>> => t \in gEventPending

\* What CoreDispatchEventNotifies takes off a queue is an allocated event that
\* belongs to that priority, and no event is queued twice.
QueuesSound ==
  \A t \in Tpl :
    /\ NoDuplicates(gEventQueue[t])
    /\ \A e \in Members(gEventQueue[t]) : Live(e) /\ event[e].tpl = t

\* A NOTIFY_SIGNAL event that is signalled is queued, or the CoreSignalEvent
\* that signalled it is about to notify its group, or it is being closed.
\* Otherwise it would ignore every later signal and never be notified again.
SignalledIsQueued ==
  \A e \in Events :
    Live(e) /\ IsType(e, "SIGNAL") /\ SignalCount[e] = 1 =>
      \/ InQueue(e)
      \/ \E i \in 1..Len(stack) : stack[i].ev = e /\ stack[i].pc \in {"signalGroup", "notifyList"}
      \/ Closing(e)

\* The function CoreDispatchEventNotifies calls belongs to an event that was not
\* freed since it was taken off the queue, and it is called at that event's
\* NotifyTpl although the lock was released, and interrupts taken, in between.
NotifiedAtItsTpl ==
  /\ \A i \in 1..Len(stack) : stack[i].pc = "call" => Live(stack[i].ev)
  /\ At("call") => event[Top.ev].tpl = gEfiCurrentTpl

\* A signal leads to one call of the event's function, and only while the event exists:
\* from CoreSignalEvent over the queues, which events are taken off, signalled and freed
\* from while a function is on its way, to the call in CoreDispatchEventNotifies.
NotificationsSound == QueuesSound /\ SignalledIsQueued /\ NotifiedAtItsTpl

\* A notification function is only ever preempted by one of a higher priority.
NotifyPc == {"notify", "checkTimers", "checkLoop", "rearm", "reinsert"}
NotifyNesting ==
  \A i, j \in 1..Len(stack) :
    i < j /\ stack[i].pc \in NotifyPc /\ stack[j].pc \in NotifyPc => stack[i].tpl < stack[j].tpl

\* Interrupts are disabled at HIGH_LEVEL and only there.
InterruptsBelowHigh == InterruptState = (gEfiCurrentTpl < EFI_TPL_HIGH_LEVEL)

\* Every boot service, and the timer interrupt, leaves its caller at the
\* priority the caller had.
CallerTplRestored ==
  /\ At("app") => gEfiCurrentTpl = EFI_TPL_APPLICATION
  /\ At("wait") => gEfiCurrentTpl = EFI_TPL_APPLICATION
  /\ At("notify") \/ At("relock") \/ At("checkEvent") \/ Top.pc \in CloseLabels
       => gEfiCurrentTpl = Top.tpl

\* CoreAcquireLock never finds mEfiTimerLock owned (its ASSERT).
TimerLockOwners == {"setTimer", "insertTimer", "timerUnlock", "checkLoop", "rearm", "reinsert"}
TimerLockOwnedOnce ==
  \A i, j \in 1..Len(stack) :
    stack[i].pc \in TimerLockOwners /\ stack[j].pc \in TimerLockOwners \cup {"checkTimers"} => i = j

\* The timer list is sorted, so its head decides whether anything is due; it
\* holds allocated timer events, each once.
TimerListSound ==
  /\ NoDuplicates(mEfiTimerList)
  /\ \A i \in 1..Len(mEfiTimerList) :
       /\ Live(mEfiTimerList[i]) /\ IsType(mEfiTimerList[i], "TIMER")
       /\ \A j \in 1..i : TriggerTime[mEfiTimerList[j]] <= TriggerTime[mEfiTimerList[i]]

\* CoreCheckTimers signals no timer before the delay that SetTimer was given.
NeverEarly ==
  [][\A e \in Events :
       CheckLoop /\ e \in Members(mEfiTimerList) /\ e \notin Members(mEfiTimerList')
         => due[e] <= mEfiSystemTime]_vars

\* CoreRestoreTpl returns with no notification queued above the new priority.
UnmaskedAreDispatched ==
  At("lower") => \A t \in Tpl : t > Top.tpl => gEventQueue[t] = <<>>

\* A queued notification is eventually taken off its queue.
QueuedIsDispatched ==
  \A e \in Events : InQueue(e) ~> ~InQueue(e)

\* A timer that is armed within the clock's bound is eventually signalled, set
\* again or cancelled.
ArmedTimerFires ==
  \A e \in Events :
    (e \in Members(mEfiTimerList) /\ TriggerTime[e] <= MaxTime)
      ~> (e \notin Members(mEfiTimerList) \/ TriggerTime[e] > MaxTime)

\* WaitForEvent returns once an armed timer of its array is due.
WaitReturns ==
  \A e \in Members(WaitList) :
    (/\ \E i \in 1..Len(stack) : stack[i].pc = "wait"
     /\ e \in Members(mEfiTimerList) /\ TriggerTime[e] <= MaxTime)
      ~> ~\E i \in 1..Len(stack) : stack[i].pc = "wait"
=============================================================================
