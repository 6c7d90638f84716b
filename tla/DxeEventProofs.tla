--------------------------- MODULE DxeEventProofs ---------------------------
(***************************************************************************)
(* Safety of the event, timer and priority services for every set of       *)
(* events, every choice of arguments and any depth of preemption.          *)
(*                                                                         *)
(* The properties of DxeEvent speak of the frame on top of the stack; they *)
(* are not inductive, because a frame is resumed at whatever priority the  *)
(* frames above it leave behind.  Shape describes the whole stack: every   *)
(* frame says at which priorities its code can be resumed (Resume), and    *)
(* the frame above it hands the processor back at exactly its saved        *)
(* priority.  DataInv relates the event structures on the core's lists to  *)
(* the frames that are about to free or to link them.                      *)
(*                                                                         *)
(* NotificationsInv follows a signal to the call it leads to: Nest says    *)
(* where the frames that work on an event may lie in the stack, QueuesInv, *)
(* CallsInv and SignalsInv relate those frames to the queues, the signal   *)
(* counts and gEventSignalQueue.                                           *)
(*                                                                         *)
(* The timer list is sorted because only an event that is not on it gets a *)
(* new trigger time (Sorted), and no timer is early because neither the    *)
(* list nor a frame of a timer service has a trigger time that lies before *)
(* the time asked for (LateInv).                                           *)
(***************************************************************************)
EXTENDS DxeEvent, ListsProofs, WellFoundedInduction

EvLabels ==
  {"notify", "call", "signalGroup", "notifyList", "relock", "checkEvent",
   "setTimer", "insertTimer", "timerUnlock",
   "checkTimers", "checkLoop", "rearm", "reinsert"} \cup CloseLabels
CheckPc   == {"checkTimers", "checkLoop", "rearm", "reinsert"}
LinkPc    == {"setTimer", "insertTimer", "rearm", "reinsert"}
Holders   == TimerLockOwners \cup {"checkTimers"}
QuietPc   == {"test", "lower", "signalGroup", "notifyList", "relock"}

\* The code of frame f can go on at priority t.
Resume(f, t) ==
  /\ f.tpl <= t
  /\ f.pc \in {"app", "notify", "relock", "signalGroup", "checkEvent", "wait"} \cup CloseLabels
       => t = f.tpl
  /\ f.pc \in {"app", "wait"} => f.tpl = EFI_TPL_APPLICATION
  /\ f.pc \in {"dispatch", "call", "raised"} => f.tpl < t
  /\ f.pc = "call" /\ f.ev = mEfiCheckTimerEvent => t = TimerLockTpl
  /\ f.pc = "notifyList" => t = EFI_TPL_HIGH_LEVEL
  /\ f.pc \in {"setTimer", "insertTimer", "timerUnlock"} => t = TimerLockTpl
  /\ f.pc \in CheckPc => t = TimerLockTpl /\ f.tpl = TimerLockTpl
  /\ f.pc = "notifyEntry" => t = EFI_TPL_NOTIFY

FrameOK(f) ==
  /\ f \in FrameType
  /\ f.pc \in EvLabels => f.ev \in Events
  /\ f.pc \in {"wait", "notifyList", "notifyEntry"} => f.n >= 1
  /\ f.pc = "wait" => f.n <= Len(WaitList)
  /\ f.pc \in CheckPc => f.n <= MaxTime

\* Frame g may lie anywhere above frame f.
Above(f, g) ==
  /\ f.tpl <= g.tpl
  /\ f.pc \in NotifyPc /\ g.pc \in NotifyPc => f.tpl < g.tpl
  /\ f.pc \in Holders => g.pc \in QuietPc /\ g.tpl >= TimerLockTpl
  /\ f.pc \in CloseLabels /\ g.pc \in CloseLabels => f.ev # g.ev

\* The stack s while the processor is at priority t.
Shape(s, t) ==
  /\ s \in Seq(FrameType) /\ s # <<>>
  /\ \A i \in 1..Len(s) : FrameOK(s[i]) /\ (s[i].pc = "app" <=> i = 1)
  /\ \A i, j \in 1..Len(s) : i < j => Above(s[i], s[j])
  /\ \A i \in 1..(Len(s) - 1) : Resume(s[i], s[i + 1].tpl)
  /\ Resume(s[Len(s)], t)

Frames == Members(stack)

\* Nobody is closing the event.
Unclosed(e)   == Live(e) /\ \A f \in Frames : f.pc \in CloseLabels => f.ev # e
Armable(e)    == Unclosed(e) /\ IsType(e, "TIMER")

DataInv ==
  /\ NoDuplicates(gEventSignalQueue) /\ NoDuplicates(mEfiTimerList)
  /\ \A f \in Frames : f.pc \in CloseLabels => Live(f.ev) /\ f.ev # mEfiCheckTimerEvent
  /\ \A e \in Members(gEventSignalQueue) :
       Live(e) /\ \A f \in Frames : f.pc \in {"closeUnregister", "closeFree"} => f.ev # e
  /\ \A e \in Members(ProtNotify) :
       Live(e) /\ \A f \in Frames : f.pc = "closeFree" => f.ev # e
  /\ \A e \in Members(mEfiTimerList) : Armable(e)
  /\ \A f \in Frames : f.pc \in LinkPc => Armable(f.ev) /\ f.ev \notin Members(mEfiTimerList)
  /\ \A f \in Frames : f.pc = "wait" => \A e \in Members(WaitList) : Unclosed(e)

CpuInv ==
  /\ gEfiCurrentTpl \in Tpl
  /\ InterruptState \in BOOLEAN
  /\ InterruptsBelowHigh
  /\ Shape(stack, gEfiCurrentTpl)

\* The core's own event is only ever queued at its own priority.
CheckTimerQueued ==
  \A t \in Tpl : mEfiCheckTimerEvent \in Members(gEventQueue[t]) => t = TimerLockTpl

NotifyInv ==
  /\ gEventQueue \in [Tpl -> Seq(Events)]
  /\ gEventPending \subseteq 0..(EFI_TPL_HIGH_LEVEL - 1)
  /\ SignalCount \in [Events -> 0..1]
  /\ QueuedIsPending
  /\ CheckTimerQueued

ObjectsInv ==
  /\ event \in [Events -> Class \cup {Free}]
  /\ event[mEfiCheckTimerEvent] = CheckTimerClass
  /\ gEventSignalQueue \in Seq(Events)
  /\ ProtNotify \in Seq(Events)

TimeInv ==
  /\ mEfiTimerList \in Seq(Events)
  /\ TriggerTime \in [Events -> 0..(TimeModulus - 1)]
  /\ Period \in [Events -> 0..(TimeModulus - 1)]
  /\ mEfiSystemTime \in 0..MaxTime
  /\ due \in [Events -> Nat]

Inv == CpuInv /\ NotifyInv /\ ObjectsInv /\ TimeInv /\ DataInv

-----------------------------------------------------------------------------
(* The stack.                                                              *)

LEMMA PopProperties ==
  ASSUME NEW S, NEW s \in Seq(S), s # <<>>
  PROVE  /\ Pop(s) \in Seq(S) /\ Len(Pop(s)) = Len(s) - 1
         /\ \A i \in 1..(Len(s) - 1) : Pop(s)[i] = s[i]
         /\ Members(Pop(s)) \subseteq Members(s)
<1>1. Len(s) \in Nat /\ Len(s) - 1 \in Nat /\ \A i \in 1..Len(s) : s[i] \in S
  OBVIOUS
<1>2. Pop(s) \in Seq(S) /\ Len(Pop(s)) = Len(s) - 1
  BY <1>1, IntervalSeq DEF Pop
<1>3. \A i \in 1..(Len(s) - 1) : Pop(s)[i] = s[i]
  BY DEF Pop
<1> QED BY <1>1, <1>2, <1>3 DEF Members

\* Returning from the top frame resumes the frame below at the saved priority.
LEMMA ShapePop ==
  ASSUME NEW s, NEW t, Shape(s, t), s[Len(s)].pc # "app"
  PROVE  Len(s) > 1 /\ Shape(Pop(s), s[Len(s)].tpl)
<1>1. s \in Seq(FrameType) /\ Len(s) \in Nat /\ Len(s) >= 1
  BY DEF Shape
<1>2. Len(s) > 1
  BY <1>1 DEF Shape
<1>3. /\ Pop(s) \in Seq(FrameType) /\ Len(Pop(s)) = Len(s) - 1
      /\ \A i \in 1..(Len(s) - 1) : Pop(s)[i] = s[i]
  BY <1>1, <1>2, PopProperties
<1>4. Resume(s[Len(s) - 1], s[Len(s)].tpl)
  <2>1. Len(s) - 1 \in 1..(Len(s) - 1) /\ (Len(s) - 1) + 1 = Len(s)
    BY <1>1, <1>2
  <2> QED BY <2>1 DEF Shape
<1>5. Pop(s) # <<>>
  BY <1>2, <1>3
<1>6. \A i \in 1..(Len(s) - 1) : FrameOK(s[i]) /\ (s[i].pc = "app" <=> i = 1)
  BY <1>1 DEF Shape
<1>7. \A i, j \in 1..(Len(s) - 1) : i < j => Above(s[i], s[j])
  BY <1>1 DEF Shape
<1>8. \A i \in 1..(Len(s) - 2) : Resume(s[i], s[i + 1].tpl) /\ i + 1 \in 1..(Len(s) - 1)
  BY <1>1 DEF Shape
<1> QED BY <1>1, <1>2, <1>3, <1>4, <1>5, <1>6, <1>7, <1>8 DEF Shape

\* A frame on top of a stack that it may interrupt.
LEMMA ShapePush ==
  ASSUME NEW s, NEW t, NEW g, Shape(s, g.tpl), FrameOK(g), g.pc # "app", Resume(g, t),
         \A i \in 1..Len(s) : Above(s[i], g)
  PROVE  Shape(Append(s, g), t)
<1> DEFINE new == Append(s, g)
<1>1. s \in Seq(FrameType) /\ Len(s) \in Nat /\ Len(s) >= 1 /\ g \in FrameType
  BY DEF Shape, FrameOK
<1>2. /\ new \in Seq(FrameType) /\ Len(new) = Len(s) + 1 /\ new # <<>>
      /\ \A i \in 1..Len(s) : new[i] = s[i]
      /\ new[Len(s) + 1] = g
  BY <1>1
<1> HIDE DEF new
<1>3. \A i \in 1..Len(new) : FrameOK(new[i]) /\ (new[i].pc = "app" <=> i = 1)
  BY <1>1, <1>2 DEF Shape
<1>4. \A i, j \in 1..Len(new) : i < j => Above(new[i], new[j])
  <2>1. \A i, j \in 1..Len(s) : i < j => Above(s[i], s[j])
    BY DEF Shape
  <2> QED BY <1>1, <1>2, <2>1
<1>5. \A i \in 1..(Len(new) - 1) : Resume(new[i], new[i + 1].tpl)
  <2>1. \A i \in 1..(Len(s) - 1) : Resume(s[i], s[i + 1].tpl)
    BY DEF Shape
  <2>2. Resume(s[Len(s)], g.tpl)
    BY DEF Shape
  <2> QED BY <1>1, <1>2, <2>1, <2>2
<1> QED BY <1>2, <1>3, <1>4, <1>5 DEF Shape, new

\* Saved priorities never decrease towards the top.
LEMMA ShapeTpl ==
  ASSUME NEW s, NEW t \in Tpl, Shape(s, t)
  PROVE  \A i \in 1..Len(s) : s[i].tpl <= s[Len(s)].tpl /\ s[i].tpl <= t /\ s[i].tpl \in Tpl
<1>1. s \in Seq(FrameType) /\ Len(s) \in Nat /\ Len(s) >= 1
  BY DEF Shape
<1>2. \A f \in FrameType : f.tpl \in Nat /\ f.tpl \in Tpl
  BY DEF FrameType, Tpl, EFI_TPL_HIGH_LEVEL
<1>3. \A i \in 1..Len(s) : s[i].tpl \in Nat /\ s[i].tpl \in Tpl
  BY <1>1, <1>2
<1>4. s[Len(s)].tpl <= t /\ Len(s) \in 1..Len(s) /\ t \in Nat
  BY <1>1 DEF Shape, Resume, Tpl
<1>5. \A i \in 1..Len(s) : s[i].tpl <= s[Len(s)].tpl
  <2>1. ASSUME NEW i \in 1..Len(s), i < Len(s) PROVE s[i].tpl <= s[Len(s)].tpl
    BY <1>1, <2>1 DEF Shape, Above
  <2>2. s[Len(s)].tpl <= s[Len(s)].tpl
    BY <1>3, <1>4
  <2>3. \A i \in 1..Len(s) : i < Len(s) \/ i = Len(s)
    BY <1>1
  <2> QED BY <2>1, <2>2, <2>3
<1>6. \A i \in 1..Len(s) : s[i].tpl <= t
  <2>1. \A a, b, c \in Nat : a <= b /\ b <= c => a <= c
    OBVIOUS
  <2> QED BY <1>3, <1>4, <1>5, <2>1
<1> QED BY <1>3, <1>5, <1>6

NoHolder(s) == \A i \in 1..Len(s) : s[i].pc \notin Holders

\* The timer lock is owned, or about to be taken, by nobody below a frame that
\* is not itself one of those that may lie above an owner.
LEMMA HolderBelow ==
  ASSUME NEW s, NEW t, Shape(s, t), s[Len(s)].pc \notin QuietPc
  PROVE  /\ \A i \in 1..(Len(s) - 1) : s[i].pc \notin Holders
         /\ s[Len(s)].pc \notin Holders => NoHolder(s)
<1>1. Len(s) \in Nat /\ Len(s) >= 1
  BY DEF Shape
<1>2. \A i \in 1..(Len(s) - 1) : s[i].pc \notin Holders
  BY <1>1 DEF Shape, Above
<1> QED BY <1>1, <1>2 DEF NoHolder

\* Frames that may lie above an owner of the timer lock: restoring a priority,
\* notifying a group.
LEMMA PushQuiet ==
  ASSUME NEW s, NEW t, NEW g, g.tpl \in Tpl, Shape(s, g.tpl), FrameOK(g), g.pc \in QuietPc,
         Resume(g, t)
  PROVE  Shape(Append(s, g), t)
<1>1. Len(s) \in Nat /\ Len(s) >= 1
  BY DEF Shape
<1>2. ASSUME NEW i \in 1..Len(s) PROVE Above(s[i], g)
  <2>1. s[i].tpl <= g.tpl
    BY ShapeTpl
  <2>2. s[i].pc \in Holders => g.tpl >= TimerLockTpl
    <3>1. CASE i = Len(s)
      <4>1. s[i].pc \in Holders => g.tpl = TimerLockTpl
        BY <3>1 DEF Shape, Resume, Holders, TimerLockOwners, CheckPc
      <4> QED BY <4>1 DEF TimerLockTpl, EFI_TPL_HIGH_LEVEL
    <3>2. CASE i < Len(s)
      <4>1. s[i].pc \in Holders => s[Len(s)].tpl >= TimerLockTpl
        BY <3>2, <1>1 DEF Shape, Above
      <4>2. s[Len(s)].tpl <= g.tpl /\ s[Len(s)].tpl \in Tpl
        BY <1>1, ShapeTpl
      <4>3. s[Len(s)].tpl \in Nat /\ g.tpl \in Nat /\ TimerLockTpl \in Nat
        <5>1. \A a \in Tpl : a \in Nat
          BY DEF Tpl
        <5> QED BY <4>2, <5>1 DEF TimerLockTpl, EFI_TPL_HIGH_LEVEL
      <4>4. \A a, b, c \in Nat : c <= a /\ a <= b => c <= b
        OBVIOUS
      <4> QED BY <4>1, <4>2, <4>3, <4>4
    <3> QED BY <3>1, <3>2, <1>1
  <2> QED BY <2>1, <2>2 DEF Above, QuietPc, NotifyPc, CloseLabels
<1> QED BY <1>2, ShapePush DEF QuietPc

\* Any frame but a notification or a closing one, where nobody owns the lock.
LEMMA PushPlain ==
  ASSUME NEW s, NEW t, NEW g, g.tpl \in Tpl, Shape(s, g.tpl), FrameOK(g), Resume(g, t),
         NoHolder(s), g.pc # "app",
         g.pc \in CloseLabels => \A i \in 1..Len(s) : s[i].pc \in CloseLabels => s[i].ev # g.ev,
         g.pc \in NotifyPc => \A i \in 1..Len(s) : s[i].pc \in NotifyPc => s[i].tpl < g.tpl
  PROVE  Shape(Append(s, g), t)
<1>1. ASSUME NEW i \in 1..Len(s) PROVE Above(s[i], g)
  BY ShapeTpl DEF Above, NoHolder
<1> QED BY <1>1, ShapePush

LEMMA TplFacts ==
  /\ \A t \in Tpl : t \in Nat /\ t <= EFI_TPL_HIGH_LEVEL
  /\ EFI_TPL_APPLICATION \in Tpl /\ EFI_TPL_NOTIFY \in Tpl /\ TimerLockTpl \in Tpl
  /\ EFI_TPL_HIGH_LEVEL \in Tpl
  /\ \A a, b, c \in Tpl : a <= b /\ b <= c => a <= c
BY DEF Tpl, EFI_TPL_HIGH_LEVEL, EFI_TPL_APPLICATION, EFI_TPL_NOTIFY, TimerLockTpl

LEMMA MembersAppend ==
  ASSUME NEW S, NEW s \in Seq(S), NEW g \in S
  PROVE  Members(Append(s, g)) = Members(s) \cup {g}
BY InsertTailProperties DEF InsertTailList

LEMMA LabelFacts ==
  /\ "app" \in Labels /\ "signalGroup" \in Labels /\ "notifyList" \in Labels /\ "relock" \in Labels
  /\ "checkEvent" \in Labels /\ "wait" \in Labels /\ "setTimer" \in Labels
  /\ "insertTimer" \in Labels /\ "timerUnlock" \in Labels /\ "checkTimers" \in Labels
  /\ "checkLoop" \in Labels /\ "rearm" \in Labels /\ "reinsert" \in Labels
  /\ "closeLock" \in Labels /\ "closeUnregister" \in Labels /\ "closeFree" \in Labels
  /\ "notifyEntry" \in Labels /\ "test" \in Labels /\ "dispatch" \in Labels
  /\ "call" \in Labels /\ "lower" \in Labels /\ "notify" \in Labels /\ "raised" \in Labels
BY DEF Labels

LEMMA FrameTyped ==
  ASSUME NEW pc, NEW tpl, NEW ev, NEW n
  PROVE  /\ Frame(pc, tpl, ev, n).pc = pc /\ Frame(pc, tpl, ev, n).tpl = tpl
         /\ Frame(pc, tpl, ev, n).ev = ev /\ Frame(pc, tpl, ev, n).n = n
         /\ pc \in Labels /\ tpl \in Tpl /\ ev \in Events \cup {NoEvent} /\ n \in Nat
              => Frame(pc, tpl, ev, n) \in FrameType
BY DEF Frame, FrameType

\* What every action may use of the frame it runs in.
LEMMA TopFacts ==
  ASSUME CpuInv
  PROVE  /\ stack \in Seq(FrameType) /\ stack # <<>> /\ Len(stack) \in Nat /\ Len(stack) >= 1
         /\ Top \in FrameType /\ Top \in Frames /\ FrameOK(Top) /\ Resume(Top, gEfiCurrentTpl)
         /\ Top.tpl \in Tpl /\ Top.tpl <= gEfiCurrentTpl
         /\ Top.pc \in Labels /\ Top.ev \in Events \cup {NoEvent} /\ Top.n \in Nat
<1>1. stack \in Seq(FrameType) /\ stack # <<>> /\ Len(stack) \in Nat /\ Len(stack) >= 1
  BY DEF CpuInv, Shape
<1>2. Top \in FrameType /\ Top \in Frames /\ FrameOK(Top) /\ Resume(Top, gEfiCurrentTpl)
  BY <1>1 DEF CpuInv, Shape, Top, Frames, Members
<1>3. /\ Top.tpl \in Tpl /\ Top.pc \in Labels
      /\ Top.ev \in Events \cup {NoEvent} /\ Top.n \in Nat
  BY <1>2 DEF FrameType
<1>4. Top.tpl <= gEfiCurrentTpl
  BY <1>2 DEF Resume
<1> QED BY <1>1, <1>2, <1>3, <1>4

LEMMA FrameEqual ==
  ASSUME NEW f \in FrameType, NEW g \in FrameType,
         f.pc = g.pc, f.tpl = g.tpl, f.ev = g.ev, f.n = g.n
  PROVE  f = g
BY DEF FrameType

\* A frame that changes its label, its event or its number in place.
LEMMA EditFrame ==
  ASSUME NEW f \in FrameType, NEW pc \in Labels, NEW ev \in Events \cup {NoEvent}
  PROVE  /\ [f EXCEPT !.pc = pc] = Frame(pc, f.tpl, f.ev, f.n)
         /\ [f EXCEPT !.pc = pc, !.ev = ev] = Frame(pc, f.tpl, ev, f.n)
<1> DEFINE g == [f EXCEPT !.pc = pc, !.ev = ev]
<1>1. f.tpl \in Tpl /\ f.n \in Nat
  BY DEF FrameType
<1>2. [f EXCEPT !.pc = pc] = Frame(pc, f.tpl, f.ev, f.n)
  BY DEF FrameType, Frame
<1>3. g \in FrameType /\ g.pc = pc /\ g.tpl = f.tpl /\ g.ev = ev /\ g.n = f.n
  BY DEF FrameType
<1> HIDE DEF g
<1>4. g = Frame(pc, f.tpl, ev, f.n)
  BY <1>1, <1>3, FrameEqual, FrameTyped
<1> QED BY <1>2, <1>4 DEF g

LEMMA EditNumber ==
  ASSUME NEW f \in FrameType, NEW n \in Nat
  PROVE  [f EXCEPT !.n = n] = Frame(f.pc, f.tpl, f.ev, n)
BY DEF FrameType, Frame

LEMMA EditLabelNumber ==
  ASSUME NEW f \in FrameType, NEW pc \in Labels, NEW n \in Nat
  PROVE  [f EXCEPT !.pc = pc, !.n = n] = Frame(pc, f.tpl, f.ev, n)
<1> DEFINE g == [f EXCEPT !.pc = pc, !.n = n]
<1>1. f.tpl \in Tpl /\ f.ev \in Events \cup {NoEvent}
  BY DEF FrameType
<1>2. g \in FrameType /\ g.pc = pc /\ g.tpl = f.tpl /\ g.ev = f.ev /\ g.n = n
  BY DEF FrameType
<1> HIDE DEF g
<1>3. g = Frame(pc, f.tpl, f.ev, n)
  BY <1>1, <1>2, FrameEqual, FrameTyped
<1> QED BY <1>3 DEF g

\* What is below the running frame.
LEMMA BelowFacts ==
  ASSUME CpuInv, Top.pc # "app"
  PROVE  /\ Shape(Pop(stack), Top.tpl) /\ Pop(stack) \in Seq(FrameType)
         /\ Members(Pop(stack)) \subseteq Frames
         /\ Top.pc \notin QuietPc => NoHolder(Pop(stack))
         /\ \A i \in 1..Len(Pop(stack)) : Above(Pop(stack)[i], Top)
<1>1. stack \in Seq(FrameType) /\ stack # <<>> /\ Len(stack) \in Nat /\ Len(stack) >= 1
  BY TopFacts
<1>2. Shape(Pop(stack), Top.tpl)
  BY ShapePop DEF CpuInv, Top
<1>3. /\ Pop(stack) \in Seq(FrameType) /\ Len(Pop(stack)) = Len(stack) - 1
      /\ \A i \in 1..(Len(stack) - 1) : Pop(stack)[i] = stack[i]
      /\ Members(Pop(stack)) \subseteq Frames
  BY <1>1, PopProperties DEF Frames
<1>4. \A i \in 1..(Len(stack) - 1) : Above(stack[i], Top)
  BY <1>1 DEF CpuInv, Shape, Top
<1>5. Top.pc \notin QuietPc => NoHolder(Pop(stack))
  BY <1>1, <1>3, <1>4 DEF NoHolder, Above
<1> QED BY <1>2, <1>3, <1>4, <1>5

\* The running frame is replaced by one with the same saved priority.
LEMMA ShapeReplace ==
  ASSUME CpuInv, Top.pc # "app", NEW g, NEW t, FrameOK(g), g.tpl = Top.tpl, g.pc # "app",
         Resume(g, t),
         g.pc \in QuietPc \/ Top.pc \notin QuietPc \/ NoHolder(Pop(stack)),
         g.pc \in CloseLabels => Top.pc \in CloseLabels /\ g.ev = Top.ev,
         g.pc \in NotifyPc => Top.pc \in NotifyPc
  PROVE  /\ Shape(Replace(g), t) /\ Members(Replace(g)) \subseteq Frames \cup {g}
         /\ Members(Replace(g)) = Members(Pop(stack)) \cup {g}
<1>1. /\ Shape(Pop(stack), g.tpl) /\ Pop(stack) \in Seq(FrameType)
      /\ Members(Pop(stack)) \subseteq Frames
      /\ Top.pc \notin QuietPc => NoHolder(Pop(stack))
      /\ \A i \in 1..Len(Pop(stack)) : Above(Pop(stack)[i], Top)
  BY BelowFacts
<1>2. g \in FrameType /\ g.tpl \in Tpl
  BY TopFacts DEF FrameOK
<1>3. Shape(Replace(g), t)
  <2>1. CASE g.pc \in QuietPc
    BY <1>1, <1>2, <2>1, PushQuiet DEF Replace
  <2>2. CASE g.pc \notin QuietPc
    <3>1. NoHolder(Pop(stack))
      BY <1>1, <2>2
    <3>2. g.pc \in CloseLabels => \A i \in 1..Len(Pop(stack)) :
            Pop(stack)[i].pc \in CloseLabels => Pop(stack)[i].ev # g.ev
      BY <1>1 DEF Above
    <3>3. g.pc \in NotifyPc => \A i \in 1..Len(Pop(stack)) :
            Pop(stack)[i].pc \in NotifyPc => Pop(stack)[i].tpl < g.tpl
      BY <1>1 DEF Above
    <3> QED BY <1>1, <1>2, <3>1, <3>2, <3>3, PushPlain DEF Replace
  <2> QED BY <2>1, <2>2
<1> QED BY <1>1, <1>2, <1>3, MembersAppend DEF Replace

-----------------------------------------------------------------------------
(* The pieces the actions are made of.                                     *)

LEMMA CpuPrime ==
  ASSUME gEfiCurrentTpl' \in Tpl, InterruptState' = (gEfiCurrentTpl' < EFI_TPL_HIGH_LEVEL),
         Shape(stack', gEfiCurrentTpl')
  PROVE  CpuInv'
BY DEF CpuInv, InterruptsBelowHigh

\* Taking and releasing the event lock leaves a CoreRestoreTpl to run.
LEMMA EventLockInv ==
  ASSUME CpuInv, NEW s, Shape(s, gEfiCurrentTpl), WithEventLock(s)
  PROVE  /\ CpuInv'
         /\ stack' = Append(s, RestoreFrame(gEfiCurrentTpl))
         /\ Members(stack') = Members(s) \cup {RestoreFrame(gEfiCurrentTpl)}
<1> DEFINE g == RestoreFrame(gEfiCurrentTpl)
<1>1. gEfiCurrentTpl \in Tpl /\ s \in Seq(FrameType)
  BY DEF CpuInv, Shape
<1>2. g \in FrameType /\ g.pc = "test" /\ g.tpl = gEfiCurrentTpl
  <2>1. NoEvent \in Events \cup {NoEvent} /\ 0 \in Nat /\ "test" \in Labels
    BY LabelFacts
  <2> QED BY <1>1, <2>1, FrameTyped DEF RestoreFrame
<1>3. FrameOK(g)
  BY <1>2 DEF FrameOK, EvLabels, CheckPc, CloseLabels
<1>4. Resume(g, EFI_TPL_HIGH_LEVEL)
  BY <1>1, <1>2, TplFacts DEF Resume, CloseLabels, CheckPc
<1> HIDE DEF g
<1>5. Shape(Append(s, g), EFI_TPL_HIGH_LEVEL)
  BY <1>1, <1>2, <1>3, <1>4, PushQuiet DEF QuietPc
<1>6. gEfiCurrentTpl' = EFI_TPL_HIGH_LEVEL /\ InterruptState' = FALSE /\ stack' = Append(s, g)
  BY DEF WithEventLock, g
<1>7. InterruptState' = (gEfiCurrentTpl' < EFI_TPL_HIGH_LEVEL)
  <2>1. (EFI_TPL_HIGH_LEVEL < EFI_TPL_HIGH_LEVEL) = FALSE
    BY DEF EFI_TPL_HIGH_LEVEL
  <2>2. (gEfiCurrentTpl' < EFI_TPL_HIGH_LEVEL) = FALSE
    BY <1>6, <2>1
  <2> QED BY <1>6, <2>2
<1>8. CpuInv'
  BY <1>5, <1>6, <1>7, TplFacts, CpuPrime
<1> QED BY <1>1, <1>2, <1>6, <1>8, MembersAppend DEF g

LEMMA RaiseInv ==
  ASSUME CpuInv, NEW NewTpl \in Tpl, NEW s, Shape(s, NewTpl), CoreRaiseTpl(NewTpl, s)
  PROVE  CpuInv' /\ stack' = s
<1>1. gEfiCurrentTpl \in Nat /\ NewTpl \in Nat /\ gEfiCurrentTpl <= NewTpl
  BY TplFacts DEF CpuInv, CoreRaiseTpl
<1>2. InterruptState' = (InterruptState /\ NewTpl < EFI_TPL_HIGH_LEVEL)
  BY DEF CoreRaiseTpl
<1>3. InterruptState = (gEfiCurrentTpl < EFI_TPL_HIGH_LEVEL)
  BY DEF CpuInv, InterruptsBelowHigh
<1>4. InterruptState' = (NewTpl < EFI_TPL_HIGH_LEVEL)
  <2>1. NewTpl < EFI_TPL_HIGH_LEVEL => gEfiCurrentTpl < EFI_TPL_HIGH_LEVEL
    BY <1>1 DEF EFI_TPL_HIGH_LEVEL
  <2>2. (NewTpl < EFI_TPL_HIGH_LEVEL) \in BOOLEAN /\ (gEfiCurrentTpl < EFI_TPL_HIGH_LEVEL) \in BOOLEAN
    OBVIOUS
  <2> QED BY <2>1, <2>2, <1>2, <1>3, Zenon
<1> QED BY <1>4, CpuPrime DEF CoreRaiseTpl

\* A live event notifies below HIGH_LEVEL.
LEMMA LiveTpl ==
  ASSUME ObjectsInv, NEW e \in Events, Live(e)
  PROVE  event[e] \in Class /\ event[e].tpl \in 0..(EFI_TPL_HIGH_LEVEL - 1) /\ event[e].tpl \in Tpl
BY DEF ObjectsInv, Live, Class, Tpl, EFI_TPL_HIGH_LEVEL

LEMMA NotifyEventInv ==
  ASSUME NotifyInv, ObjectsInv, NEW e \in Events, Live(e), CoreNotifyEvent(e),
         SignalCount' \in [Events -> 0..1]
  PROVE  NotifyInv'
<1> DEFINE t == event[e].tpl
          new == InsertTailList(RemoveEntryList(gEventQueue[t], e), e)
<1>1. t \in 0..(EFI_TPL_HIGH_LEVEL - 1) /\ t \in Tpl
  BY LiveTpl
<1>2. gEventQueue[t] \in Seq(Events)
  BY <1>1 DEF NotifyInv
<1>3. new \in Seq(Events) /\ new # <<>> /\ Members(new) \subseteq Members(gEventQueue[t]) \cup {e}
  <2>1. /\ RemoveEntryList(gEventQueue[t], e) \in Seq(Events)
        /\ Members(RemoveEntryList(gEventQueue[t], e)) \subseteq Members(gEventQueue[t])
    BY <1>2, RemoveEntryProperties
  <2> QED BY <2>1, InsertTailProperties
<1>4. /\ gEventQueue' = [gEventQueue EXCEPT ![t] = new]
      /\ gEventPending' = gEventPending \cup {t}
  BY DEF CoreNotifyEvent
<1> HIDE DEF new, t
<1>5. gEventQueue' \in [Tpl -> Seq(Events)]
  BY <1>1, <1>3, <1>4 DEF NotifyInv
<1>6. gEventPending' \subseteq 0..(EFI_TPL_HIGH_LEVEL - 1)
  BY <1>1, <1>4 DEF NotifyInv
<1>7. QueuedIsPending'
  BY <1>1, <1>4 DEF NotifyInv, QueuedIsPending
<1>8. CheckTimerQueued'
  <2>1. e = mEfiCheckTimerEvent => t = TimerLockTpl
    BY DEF ObjectsInv, CheckTimerClass, TimerLockTpl, t
  <2> QED BY <2>1, <1>1, <1>3, <1>4 DEF NotifyInv, CheckTimerQueued
<1> QED BY <1>5, <1>6, <1>7, <1>8 DEF NotifyInv

LEMMA CountOnlyInv ==
  ASSUME NotifyInv, UNCHANGED <<gEventQueue, gEventPending>>, SignalCount' \in [Events -> 0..1]
  PROVE  NotifyInv'
BY DEF NotifyInv, QueuedIsPending, CheckTimerQueued

\* A group is notified by a frame that may lie anywhere.
LEMMA SignalInv ==
  ASSUME CpuInv, NotifyInv, ObjectsInv, NEW e \in Events, Live(e),
         NEW s, Shape(s, gEfiCurrentTpl), CoreSignalEvent(e, s)
  PROVE  /\ CpuInv' /\ NotifyInv'
         /\ \A f \in Members(stack') : f \in Members(s) \/ f.pc \in QuietPc
<1> DEFINE g == Frame("signalGroup", gEfiCurrentTpl, e, 0)
<1>1. gEfiCurrentTpl \in Tpl /\ s \in Seq(FrameType)
  BY DEF CpuInv, Shape
<1>2. g \in FrameType /\ g.pc = "signalGroup" /\ g.tpl = gEfiCurrentTpl /\ g.ev = e
  BY <1>1, FrameTyped, LabelFacts
<1>3. FrameOK(g)
  BY <1>2 DEF FrameOK, EvLabels, CheckPc, CloseLabels
<1>4. Resume(g, gEfiCurrentTpl)
  BY <1>1, <1>2, TplFacts DEF Resume, CloseLabels, CheckPc
<1> HIDE DEF g
<1>5. Shape(Append(s, g), gEfiCurrentTpl) /\ Members(Append(s, g)) = Members(s) \cup {g}
  BY <1>1, <1>2, <1>3, <1>4, PushQuiet, MembersAppend DEF QuietPc
<1>6. RestoreFrame(gEfiCurrentTpl).pc \in QuietPc /\ g.pc \in QuietPc
  BY <1>2 DEF RestoreFrame, Frame, QuietPc
<1>7. PICK z : WithEventLock(z) /\ (z = s \/ z = Append(s, g))
  BY DEF CoreSignalEvent, g
<1>8. CpuInv' /\ Members(stack') = Members(z) \cup {RestoreFrame(gEfiCurrentTpl)}
  BY <1>5, <1>7, EventLockInv
<1>9. SignalCount' \in [Events -> 0..1]
  BY DEF CoreSignalEvent, NotifyInv
<1>10. NotifyInv'
  BY <1>9, NotifyEventInv, CountOnlyInv DEF CoreSignalEvent
<1> QED BY <1>5, <1>6, <1>7, <1>8, <1>10

LEMMA CheckEventInv ==
  ASSUME CpuInv, NotifyInv, ObjectsInv, NEW e \in Events, Live(e), NEW s,
         Shape(s, gEfiCurrentTpl), NoHolder(s), CoreCheckEvent(e, s), UNCHANGED SignalCount
  PROVE  /\ CpuInv' /\ NotifyInv'
         /\ \A f \in Members(stack') : f \in Members(s) \/ f.pc = "checkEvent" \/ f.pc \in QuietPc
<1> DEFINE g == Frame("checkEvent", gEfiCurrentTpl, e, 0)
<1>1. gEfiCurrentTpl \in Tpl /\ s \in Seq(FrameType)
  BY DEF CpuInv, Shape
<1>2. g \in FrameType /\ g.pc = "checkEvent" /\ g.tpl = gEfiCurrentTpl /\ g.ev = e
  BY <1>1, FrameTyped, LabelFacts
<1>3. FrameOK(g)
  BY <1>2 DEF FrameOK, EvLabels, CheckPc, CloseLabels
<1>4. Resume(g, gEfiCurrentTpl)
  BY <1>1, <1>2, TplFacts DEF Resume, CloseLabels, CheckPc
<1> HIDE DEF g
<1>5. Shape(Append(s, g), gEfiCurrentTpl) /\ Members(Append(s, g)) = Members(s) \cup {g}
  BY <1>1, <1>2, <1>3, <1>4, PushPlain, MembersAppend DEF NotifyPc, CloseLabels
<1>6. RestoreFrame(gEfiCurrentTpl).pc \in QuietPc
  BY DEF RestoreFrame, Frame, QuietPc
<1>7. SignalCount' \in [Events -> 0..1]
  BY DEF NotifyInv
<1>8. CASE CoreNotifyEvent(e) /\ WithEventLock(Append(s, g))
  BY <1>2, <1>5, <1>6, <1>7, <1>8, EventLockInv, NotifyEventInv
<1>9. CASE /\ stack' = Append(s, g)
           /\ UNCHANGED <<gEfiCurrentTpl, InterruptState, gEventQueue, gEventPending>>
  <2>1. CpuInv'
    BY <1>5, <1>9 DEF CpuInv, InterruptsBelowHigh
  <2> QED BY <2>1, <1>2, <1>5, <1>7, <1>9, CountOnlyInv
<1> QED BY <1>8, <1>9 DEF CoreCheckEvent, g

\* No frame of fs frees or waits for an event that no frame did before.
KeepsUsers(fs) ==
  \A f \in fs :
    /\ f.pc \in CloseLabels => \E g \in Frames : g.pc = f.pc /\ g.ev = f.ev
    /\ f.pc = "wait" => \/ \A e \in Members(WaitList) : Unclosed(e)
                       \/ \E g \in Frames : g.pc = "wait"

\* And none links a timer that no frame was about to link.
Keeps(fs) ==
  /\ KeepsUsers(fs)
  /\ \A f \in fs : f.pc \in LinkPc => \E g \in Frames : g.pc \in LinkPc /\ g.ev = f.ev

PlainPc == Labels \ (CloseLabels \cup LinkPc \cup {"wait"})

LEMMA KeepsPlain ==
  \A fs : (\A f \in fs : f \in Frames \/ f.pc \in PlainPc) => Keeps(fs)
BY DEF Keeps, KeepsUsers, PlainPc

LEMMA KeepsUsersPlain ==
  \A fs : (\A f \in fs : f \in Frames \/ f.pc \in PlainPc \cup LinkPc) => KeepsUsers(fs)
BY DEF KeepsUsers, PlainPc, LinkPc, CloseLabels

\* A step that links and unlinks timers.
LEMMA DataTimer ==
  ASSUME DataInv, UNCHANGED <<event, gEventSignalQueue, ProtNotify>>,
         KeepsUsers(Members(stack')),
         NoDuplicates(mEfiTimerList'),
         \A e \in Members(mEfiTimerList') : Armable(e),
         \A f \in Members(stack') : f.pc \in LinkPc =>
            Armable(f.ev) /\ f.ev \notin Members(mEfiTimerList')
  PROVE  DataInv'
<1>1. Frames' = Members(stack')
  BY DEF Frames
<1>2. \A e : Unclosed(e) => Unclosed(e)'
  BY <1>1 DEF KeepsUsers, Unclosed, Live
<1>3. \A e : Armable(e) => Armable(e)'
  BY <1>2 DEF Armable, IsType
<1>4. \A f \in Frames' : f.pc \in CloseLabels => Live(f.ev)' /\ f.ev # mEfiCheckTimerEvent
  BY <1>1 DEF DataInv, KeepsUsers, Live
<1>5. \A e \in Members(gEventSignalQueue) :
        Live(e)' /\ \A f \in Frames' : f.pc \in {"closeUnregister", "closeFree"} => f.ev # e
  BY <1>1 DEF DataInv, KeepsUsers, CloseLabels, Live
<1>6. \A e \in Members(ProtNotify) :
        Live(e)' /\ \A f \in Frames' : f.pc = "closeFree" => f.ev # e
  BY <1>1 DEF DataInv, KeepsUsers, CloseLabels, Live
<1>7. \A f \in Frames' : f.pc = "wait" => \A e \in Members(WaitList) : Unclosed(e)'
  <2>1. ASSUME NEW f \in Frames', f.pc = "wait" PROVE \A e \in Members(WaitList) : Unclosed(e)
    BY <1>1, <2>1 DEF DataInv, KeepsUsers
  <2> QED BY <1>2, <2>1
<1> QED BY <1>1, <1>3, <1>4, <1>5, <1>6, <1>7 DEF DataInv

\* The object lists are as sound as before if the frames are.
LEMMA DataStable ==
  ASSUME DataInv, UNCHANGED <<event, gEventSignalQueue, ProtNotify, mEfiTimerList>>,
         Keeps(Members(stack'))
  PROVE  DataInv'
<1>1. KeepsUsers(Members(stack'))
  BY DEF Keeps
<1>2. \A f \in Members(stack') : f.pc \in LinkPc =>
            Armable(f.ev) /\ f.ev \notin Members(mEfiTimerList)
  <2>1. ASSUME NEW f \in Members(stack'), f.pc \in LinkPc
        PROVE  Armable(f.ev) /\ f.ev \notin Members(mEfiTimerList)
    <3>1. PICK h \in Frames : h.pc \in LinkPc /\ h.ev = f.ev
      BY <2>1 DEF Keeps
    <3> QED BY <3>1 DEF DataInv
  <2> QED BY <2>1
<1>3. NoDuplicates(mEfiTimerList) /\ \A e \in Members(mEfiTimerList) : Armable(e)
  BY DEF DataInv
<1> QED BY <1>1, <1>2, <1>3, DataTimer

LEMMA TimeObjectsStable ==
  ASSUME ObjectsInv, TimeInv, UNCHANGED <<objects, timer, mEfiSystemTime>>
  PROVE  ObjectsInv' /\ TimeInv'
BY DEF ObjectsInv, TimeInv, objects, timer

LEMMA NotifyStable ==
  ASSUME NotifyInv, UNCHANGED notify
  PROVE  NotifyInv'
BY DEF NotifyInv, QueuedIsPending, CheckTimerQueued, notify

LEMMA StackOnly ==
  ASSUME CpuInv, Shape(stack', gEfiCurrentTpl), UNCHANGED <<gEfiCurrentTpl, InterruptState>>
  PROVE  CpuInv'
BY DEF CpuInv, InterruptsBelowHigh

\* A step that touches neither the events nor the timers.
LEMMA PlainStep ==
  ASSUME Inv, UNCHANGED <<objects, timer, mEfiSystemTime>>,
         CpuInv', NotifyInv', Keeps(Members(stack'))
  PROVE  Inv'
BY TimeObjectsStable, DataStable DEF Inv, objects, timer

-----------------------------------------------------------------------------
(* CoreRestoreTpl.                                                         *)

LEMMA HighestBound ==
  ASSUME NEW B, NEW n \in Nat, B \subseteq 0..n, B # {}
  PROVE  \E t \in B : \A u \in B : u <= t
<1> DEFINE D == {n - u : u \in B}
          R == OpToRel(<, Nat)
<1>1. D \subseteq Nat /\ D # {}
  <2>1. \A u \in B : n - u \in Nat
    OBVIOUS
  <2> QED BY <2>1
<1>2. IsWellFoundedOn(R, Nat)
  BY NatLessThanWellFounded
<1>3. \A x, y \in Nat : y < x => <<y, x>> \in R
  BY DEF OpToRel
<1> HIDE DEF R, D
<1>4. \E x \in D : \A y \in D : ~(<<y, x>> \in R)
  BY <1>1, <1>2, WFMin
<1>5. PICK x \in D : \A y \in D : ~(y < x)
  BY <1>1, <1>3, <1>4
<1>6. PICK t \in B : x = n - t
  BY DEF D
<1>7. \A u \in B : n - u \in D
  BY DEF D
<1>8. \A u \in B : u <= t
  BY <1>5, <1>6, <1>7
<1> QED BY <1>8

LEMMA HighestSetBit ==
  ASSUME NotifyInv, gEventPending # {}
  PROVE  /\ CoreHighestSetBit(gEventPending) \in gEventPending
         /\ \A u \in gEventPending : u <= CoreHighestSetBit(gEventPending)
<1>1. \E t \in gEventPending : \A u \in gEventPending : u <= t
  <2>1. gEventPending \subseteq 0..30 /\ 30 \in Nat
    BY DEF NotifyInv, EFI_TPL_HIGH_LEVEL
  <2> QED BY <2>1, HighestBound
<1> QED BY <1>1 DEF CoreHighestSetBit

\* Who restores a priority below the timer lock's interrupts no owner of it.
LEMMA LowTopNoHolder ==
  ASSUME CpuInv, Top.pc # "app", Top.tpl < TimerLockTpl
  PROVE  NoHolder(Pop(stack))
<1>1. \A i \in 1..Len(Pop(stack)) : Above(Pop(stack)[i], Top)
  BY BelowFacts
<1>2. ~(Top.tpl >= TimerLockTpl)
  BY TopFacts, TplFacts
<1> QED BY <1>1, <1>2 DEF Above, NoHolder

LEMMA RestoreTestInv ==
  ASSUME Inv, RestoreTest
  PROVE  Inv'
<1>1. /\ Top \in FrameType /\ Top.tpl \in Tpl /\ Top.pc = "test" /\ Top.tpl <= gEfiCurrentTpl
      /\ CpuInv /\ Top.ev \in Events \cup {NoEvent} /\ Top.n \in Nat /\ gEfiCurrentTpl \in Tpl
  BY TopFacts DEF Inv, CpuInv, RestoreTest, At
<1>2. UNCHANGED <<objects, timer, mEfiSystemTime>> /\ NotifyInv'
  BY NotifyStable DEF RestoreTest, Inv
<1>3. CASE \E t \in gEventPending : t > Top.tpl
  <2> DEFINE g == Frame("dispatch", Top.tpl, Top.ev, Top.n)
            t == CoreHighestSetBit(gEventPending)
  <2>1. /\ gEfiCurrentTpl' = t /\ stack' = Replace([Top EXCEPT !.pc = "dispatch"])
        /\ InterruptState' = (InterruptState \/ t < EFI_TPL_HIGH_LEVEL)
    BY <1>3 DEF RestoreTest, Go
  <2>2. stack' = Replace(g)
    BY <1>1, <2>1, EditFrame, LabelFacts
  <2>3. t \in 0..(EFI_TPL_HIGH_LEVEL - 1) /\ Top.tpl < t
    <3>1. NotifyInv
      BY DEF Inv
    <3>2. PICK u \in gEventPending : u > Top.tpl
      BY <1>3
    <3>3. t \in gEventPending /\ u <= t
      BY <3>1, <3>2, HighestSetBit
    <3>4. \A v \in gEventPending : v \in 0..(EFI_TPL_HIGH_LEVEL - 1) /\ v \in Nat
      BY <3>1 DEF NotifyInv, EFI_TPL_HIGH_LEVEL
    <3>5. Top.tpl \in Nat
      BY <1>1, TplFacts
    <3> HIDE DEF t
    <3> QED BY <3>2, <3>3, <3>4, <3>5
  <2>4. g \in FrameType /\ g.pc = "dispatch" /\ g.tpl = Top.tpl
    BY <1>1, FrameTyped, LabelFacts
  <2> HIDE DEF g, t
  <2>5. FrameOK(g) /\ Resume(g, t)
    BY <1>1, <2>3, <2>4, TplFacts DEF FrameOK, Resume, EvLabels, CheckPc, CloseLabels, EFI_TPL_HIGH_LEVEL
  <2>6. NoHolder(Pop(stack))
    <3>1. Top.tpl < TimerLockTpl
      BY <1>1, <2>3, TplFacts DEF TimerLockTpl, EFI_TPL_HIGH_LEVEL
    <3> QED BY <1>1, <3>1, LowTopNoHolder
  <2>7. Shape(Replace(g), t) /\ Members(Replace(g)) \subseteq Frames \cup {g}
    BY <1>1, <2>4, <2>5, <2>6, ShapeReplace DEF CloseLabels, NotifyPc
  <2>8. InterruptState' = (t < EFI_TPL_HIGH_LEVEL)
    <3>1. (t < EFI_TPL_HIGH_LEVEL) = TRUE
      BY <2>3 DEF EFI_TPL_HIGH_LEVEL
    <3> QED BY <2>1, <3>1
  <2>9. t \in Tpl
    BY <2>3 DEF Tpl, EFI_TPL_HIGH_LEVEL
  <2>10. CpuInv'
    BY <2>1, <2>2, <2>7, <2>8, <2>9, CpuPrime
  <2>11. Keeps(Members(stack'))
    BY <2>2, <2>4, <2>7, KeepsPlain DEF PlainPc, CloseLabels, LinkPc, Labels
  <2> QED BY <1>2, <2>10, <2>11, PlainStep
<1>4. CASE ~\E t \in gEventPending : t > Top.tpl
  <2> DEFINE g == Frame("lower", Top.tpl, Top.ev, Top.n)
  <2>1. stack' = Replace([Top EXCEPT !.pc = "lower"]) /\ UNCHANGED <<gEfiCurrentTpl, InterruptState>>
    BY <1>4 DEF RestoreTest, Go
  <2>2. stack' = Replace(g)
    BY <1>1, <2>1, EditFrame, LabelFacts
  <2>4. g \in FrameType /\ g.pc = "lower" /\ g.tpl = Top.tpl
    BY <1>1, FrameTyped, LabelFacts
  <2> HIDE DEF g
  <2>5. FrameOK(g) /\ Resume(g, gEfiCurrentTpl)
    BY <1>1, <2>4 DEF FrameOK, Resume, EvLabels, CheckPc, CloseLabels
  <2>7. Shape(Replace(g), gEfiCurrentTpl) /\ Members(Replace(g)) \subseteq Frames \cup {g}
    BY <1>1, <2>4, <2>5, ShapeReplace DEF CloseLabels, NotifyPc, QuietPc
  <2>10. CpuInv'
    BY <1>1, <2>1, <2>2, <2>7, StackOnly
  <2>11. Keeps(Members(stack'))
    BY <2>2, <2>4, <2>7, KeepsPlain DEF PlainPc, CloseLabels, LinkPc, Labels
  <2> QED BY <1>2, <2>10, <2>11, PlainStep
<1> QED BY <1>3, <1>4

LEMMA RestoreLowerInv ==
  ASSUME Inv, RestoreLower
  PROVE  Inv'
<1>1. CpuInv /\ Top.pc = "lower" /\ Top.tpl \in Tpl /\ Top.tpl <= gEfiCurrentTpl
  BY TopFacts DEF Inv, RestoreLower, At
<1>2. Shape(Pop(stack), Top.tpl) /\ Members(Pop(stack)) \subseteq Frames
  BY <1>1, BelowFacts
<1>3. InterruptState' = (Top.tpl < EFI_TPL_HIGH_LEVEL)
  <2>1. InterruptState' = (InterruptState \/ Top.tpl < EFI_TPL_HIGH_LEVEL)
    BY DEF RestoreLower
  <2>2. InterruptState = (gEfiCurrentTpl < EFI_TPL_HIGH_LEVEL)
    BY <1>1 DEF CpuInv, InterruptsBelowHigh
  <2>3. gEfiCurrentTpl < EFI_TPL_HIGH_LEVEL => Top.tpl < EFI_TPL_HIGH_LEVEL
    BY <1>1, TplFacts DEF CpuInv, EFI_TPL_HIGH_LEVEL
  <2>4. (Top.tpl < EFI_TPL_HIGH_LEVEL) \in BOOLEAN /\ (gEfiCurrentTpl < EFI_TPL_HIGH_LEVEL) \in BOOLEAN
    OBVIOUS
  <2> QED BY <2>1, <2>2, <2>3, <2>4, Zenon
<1>4. gEfiCurrentTpl' = Top.tpl /\ stack' = Pop(stack) /\ UNCHANGED <<notify, objects, timer, mEfiSystemTime>>
  BY DEF RestoreLower
<1>5. CpuInv'
  BY <1>1, <1>2, <1>3, <1>4, CpuPrime
<1>6. Keeps(Members(stack'))
  BY <1>2, <1>4, KeepsPlain
<1> QED BY <1>4, <1>5, <1>6, NotifyStable, PlainStep DEF Inv
LEMMA DispatchInv ==
  ASSUME Inv, Dispatch
  PROVE  Inv'
<1> DEFINE queue == gEventQueue[gEfiCurrentTpl]
<1>1. /\ Top \in FrameType /\ Top.tpl \in Tpl /\ Top.pc = "dispatch" /\ Top.tpl < gEfiCurrentTpl
      /\ CpuInv /\ NotifyInv /\ Top.ev \in Events \cup {NoEvent} /\ Top.n \in Nat
      /\ gEfiCurrentTpl \in Tpl
  BY TopFacts DEF Inv, CpuInv, Dispatch, At, Resume
<1>2. UNCHANGED <<objects, timer, mEfiSystemTime>>
  BY DEF Dispatch
<1>3. NoHolder(Pop(stack))
  BY <1>1, BelowFacts DEF QuietPc
<1>4. queue \in Seq(Events)
  BY <1>1 DEF NotifyInv
<1>5. CASE /\ queue = <<>> /\ gEventPending' = gEventPending \ {gEfiCurrentTpl}
           /\ WithEventLock(Go("test")) /\ UNCHANGED <<gEventQueue, SignalCount>>
  <2> DEFINE g == Frame("test", Top.tpl, Top.ev, Top.n)
  <2>1. g \in FrameType /\ g.pc = "test" /\ g.tpl = Top.tpl
    BY <1>1, FrameTyped, LabelFacts
  <2>2. WithEventLock(Replace(g))
    BY <1>1, <1>5, EditFrame, LabelFacts DEF Go
  <2> HIDE DEF g
  <2>3. FrameOK(g) /\ Resume(g, gEfiCurrentTpl)
    BY <1>1, <2>1, TplFacts DEF FrameOK, Resume, EvLabels, CheckPc, CloseLabels
  <2>4. Shape(Replace(g), gEfiCurrentTpl) /\ Members(Replace(g)) \subseteq Frames \cup {g}
    BY <1>1, <2>1, <2>3, ShapeReplace DEF CloseLabels, NotifyPc, QuietPc
  <2>5. CpuInv' /\ Members(stack') = Members(Replace(g)) \cup {RestoreFrame(gEfiCurrentTpl)}
    BY <1>1, <2>2, <2>4, EventLockInv
  <2>6. NotifyInv'
    BY <1>1, <1>5 DEF NotifyInv, QueuedIsPending, CheckTimerQueued
  <2>7. Keeps(Members(stack'))
    <3>1. RestoreFrame(gEfiCurrentTpl).pc = "test"
      BY DEF RestoreFrame, Frame
    <3> QED BY <2>1, <2>4, <2>5, <3>1, KeepsPlain, LabelFacts DEF PlainPc, CloseLabels, LinkPc
  <2> QED BY <1>2, <2>5, <2>6, <2>7, PlainStep
<1>6. CASE /\ queue # <<>>
           /\ gEventQueue' = [gEventQueue EXCEPT ![gEfiCurrentTpl] = RemoveAtIndex(queue, 1)]
           /\ SignalCount' = IF Live(queue[1]) /\ IsType(queue[1], "SIGNAL")
                             THEN [SignalCount EXCEPT ![queue[1]] = 0] ELSE SignalCount
           /\ WithEventLock(Replace([Top EXCEPT !.pc = "call", !.ev = queue[1]]))
           /\ UNCHANGED gEventPending
  <2> DEFINE e == queue[1]
            g == Frame("call", Top.tpl, e, Top.n)
  <2>1. 1 \in 1..Len(queue) /\ e \in Events /\ e \in Members(queue)
    BY <1>4, <1>6 DEF Members
  <2>2. g \in FrameType /\ g.pc = "call" /\ g.tpl = Top.tpl /\ g.ev = e
    BY <1>1, <2>1, FrameTyped, LabelFacts
  <2>3. WithEventLock(Replace(g))
    BY <1>1, <1>6, <2>1, EditFrame, LabelFacts
  <2>4. e = mEfiCheckTimerEvent => gEfiCurrentTpl = TimerLockTpl
    BY <1>1, <2>1 DEF NotifyInv, CheckTimerQueued
  <2> HIDE DEF g, e
  <2>5. FrameOK(g) /\ Resume(g, gEfiCurrentTpl)
    BY <1>1, <2>1, <2>2, <2>4, TplFacts DEF FrameOK, Resume, EvLabels, CheckPc, CloseLabels
  <2>6. Shape(Replace(g), gEfiCurrentTpl) /\ Members(Replace(g)) \subseteq Frames \cup {g}
    BY <1>1, <1>3, <2>2, <2>5, ShapeReplace DEF CloseLabels, NotifyPc
  <2>7. CpuInv' /\ Members(stack') = Members(Replace(g)) \cup {RestoreFrame(gEfiCurrentTpl)}
    BY <1>1, <2>3, <2>6, EventLockInv
  <2>8. NotifyInv'
    <3>1. /\ RemoveAtIndex(queue, 1) \in Seq(Events)
          /\ Members(RemoveAtIndex(queue, 1)) \subseteq Members(queue)
      BY <1>4, <2>1, RemoveAtIndexProperties
    <3>2. SignalCount' \in [Events -> 0..1]
      BY <1>1, <1>6, <2>1 DEF NotifyInv, e
    <3>3. gEventQueue' \in [Tpl -> Seq(Events)]
      BY <1>1, <1>6, <3>1 DEF NotifyInv
    <3>4. QueuedIsPending'
      BY <1>1, <1>6 DEF NotifyInv, QueuedIsPending
    <3>5. CheckTimerQueued'
      BY <1>1, <1>6, <3>1 DEF NotifyInv, CheckTimerQueued
    <3> QED BY <1>1, <1>6, <3>2, <3>3, <3>4, <3>5 DEF NotifyInv
  <2>9. Keeps(Members(stack'))
    <3>1. RestoreFrame(gEfiCurrentTpl).pc = "test"
      BY DEF RestoreFrame, Frame
    <3> QED BY <2>2, <2>6, <2>7, <3>1, KeepsPlain, LabelFacts DEF PlainPc, CloseLabels, LinkPc
  <2> QED BY <1>2, <2>7, <2>8, <2>9, PlainStep
<1> QED BY <1>5, <1>6 DEF Dispatch

LEMMA CallInv ==
  ASSUME Inv, Call
  PROVE  Inv'
<1> DEFINE e  == Top.ev
          pc == IF e = mEfiCheckTimerEvent THEN "checkTimers" ELSE "notify"
          f  == Frame("dispatch", Top.tpl, NoEvent, Top.n)
          g  == Frame(pc, gEfiCurrentTpl, e, 0)
<1>1. /\ Top \in FrameType /\ Top.tpl \in Tpl /\ Top.pc = "call" /\ Top.tpl < gEfiCurrentTpl
      /\ CpuInv /\ NotifyInv /\ e \in Events /\ Top.n \in Nat /\ gEfiCurrentTpl \in Tpl
      /\ e = mEfiCheckTimerEvent => gEfiCurrentTpl = TimerLockTpl
  BY TopFacts DEF Inv, CpuInv, Call, At, Resume, FrameOK, EvLabels
<1>2. NoHolder(Pop(stack)) /\ Shape(Pop(stack), Top.tpl) /\ Members(Pop(stack)) \subseteq Frames
  BY <1>1, BelowFacts DEF QuietPc
<1>3. f \in FrameType /\ f.pc = "dispatch" /\ f.tpl = Top.tpl
  <2>1. NoEvent \in Events \cup {NoEvent}
    OBVIOUS
  <2> QED BY <1>1, <2>1, FrameTyped, LabelFacts
<1>4. g \in FrameType /\ g.pc = pc /\ g.tpl = gEfiCurrentTpl /\ g.ev = e /\ g.n = 0
  BY <1>1, FrameTyped, LabelFacts
<1>5. /\ stack' = Append(Replace(f), g)
      /\ UNCHANGED <<gEfiCurrentTpl, InterruptState, notify, objects, timer, mEfiSystemTime>>
  BY <1>1, EditFrame, LabelFacts DEF Call
<1>6. (e = mEfiCheckTimerEvent /\ pc = "checkTimers") \/ pc = "notify"
  OBVIOUS
<1> HIDE DEF f, g, pc
<1>7. FrameOK(f) /\ Resume(f, gEfiCurrentTpl)
  BY <1>1, <1>3, TplFacts DEF FrameOK, Resume, EvLabels, CheckPc, CloseLabels
<1>8. FrameOK(g) /\ Resume(g, gEfiCurrentTpl)
  BY <1>1, <1>4, <1>6, TplFacts, TimeAssumption DEF FrameOK, Resume, EvLabels, CheckPc, CloseLabels
<1>9. Shape(Replace(f), gEfiCurrentTpl) /\ Members(Replace(f)) \subseteq Frames \cup {f}
  BY <1>1, <1>2, <1>3, <1>7, ShapeReplace DEF CloseLabels, NotifyPc
<1>10. NoHolder(Replace(f)) /\ \A i \in 1..Len(Replace(f)) : Replace(f)[i].tpl < g.tpl
  <2> DEFINE r == Replace(f)
  <2>1. \A i \in 1..Len(Pop(stack)) : Pop(stack)[i].tpl <= Top.tpl /\ Pop(stack)[i].tpl \in Tpl
    BY <1>1, <1>2, ShapeTpl
  <2>2. \A i \in 1..Len(Pop(stack)) : Pop(stack)[i].tpl < gEfiCurrentTpl
    <3>1. \A a, b, c \in Nat : a <= b /\ b < c => a < c
      OBVIOUS
    <3> QED BY <1>1, <2>1, <3>1, TplFacts
  <2>3. Pop(stack) \in Seq(FrameType)
    BY <1>2 DEF Shape
  <2>4. /\ Len(r) = Len(Pop(stack)) + 1 /\ Len(Pop(stack)) \in Nat
        /\ \A i \in 1..Len(Pop(stack)) : r[i] = Pop(stack)[i]
        /\ r[Len(Pop(stack)) + 1] = f
    BY <1>3, <2>3 DEF Replace
  <2> HIDE DEF r
  <2>5. \A i \in 1..Len(r) : i \in 1..Len(Pop(stack)) \/ i = Len(Pop(stack)) + 1
    BY <2>4
  <2>6. NoHolder(r)
    BY <1>2, <1>3, <2>4, <2>5 DEF NoHolder, Holders, TimerLockOwners
  <2>7. \A i \in 1..Len(r) : r[i].tpl < g.tpl
    BY <1>1, <1>3, <1>4, <2>2, <2>4, <2>5
  <2> QED BY <2>6, <2>7 DEF r
<1>11. Shape(Append(Replace(f), g), gEfiCurrentTpl)
  BY <1>1, <1>4, <1>6, <1>8, <1>9, <1>10, PushPlain DEF CloseLabels
<1>12. CpuInv'
  BY <1>1, <1>5, <1>11, StackOnly
<1>13. Keeps(Members(stack'))
  <2>1. Members(stack') = Members(Replace(f)) \cup {g}
    BY <1>4, <1>5, <1>9, MembersAppend DEF Shape
  <2> QED BY <1>3, <1>4, <1>6, <1>9, <2>1, KeepsPlain, LabelFacts DEF PlainPc, CloseLabels, LinkPc
<1> QED BY <1>1, <1>5, <1>12, <1>13, NotifyStable, PlainStep

LEMMA NotifyReturnInv ==
  ASSUME Inv, NotifyReturn
  PROVE  Inv'
<1>1. CpuInv /\ Top.pc = "notify" /\ gEfiCurrentTpl = Top.tpl
  BY TopFacts DEF Inv, NotifyReturn, At, Resume
<1>2. Shape(Pop(stack), gEfiCurrentTpl) /\ Members(Pop(stack)) \subseteq Frames
  BY <1>1, BelowFacts
<1>3. /\ stack' = Pop(stack)
      /\ UNCHANGED <<gEfiCurrentTpl, InterruptState, notify, objects, timer, mEfiSystemTime>>
  BY DEF NotifyReturn
<1>4. CpuInv'
  BY <1>1, <1>2, <1>3, StackOnly
<1>5. Keeps(Members(stack'))
  BY <1>2, <1>3, KeepsPlain
<1> QED BY <1>3, <1>4, <1>5, NotifyStable, PlainStep DEF Inv
-----------------------------------------------------------------------------
(* Code outside the core, and the event services.                          *)

\* A boot service is called where nobody owns the timer lock.
LEMMA MayFacts ==
  ASSUME Inv, Top.pc \in {"app", "notify", "raised", "wait"}
  PROVE  /\ Shape(stack, gEfiCurrentTpl) /\ NoHolder(stack)
         /\ gEfiCurrentTpl \in Tpl /\ CpuInv
<1>1. CpuInv /\ Shape(stack, gEfiCurrentTpl) /\ gEfiCurrentTpl \in Tpl
  BY DEF Inv, CpuInv
<1>2. NoHolder(stack)
  BY <1>1, HolderBelow DEF Top, QuietPc, Holders, TimerLockOwners
<1> QED BY <1>1, <1>2

LEMMA UsableFacts ==
  ASSUME NEW e, Usable(e)
  PROVE  Unclosed(e)
BY DEF Unclosed, Usable, Closing, Frames, Members

LEMMA RaiseTPLInv ==
  ASSUME Inv, NEW NewTpl \in RaiseTpls, RaiseTPL(NewTpl)
  PROVE  Inv'
<1> DEFINE g == Frame("raised", gEfiCurrentTpl, Top.ev, 0)
<1>1. /\ CpuInv /\ Shape(stack, gEfiCurrentTpl) /\ NoHolder(stack) /\ gEfiCurrentTpl \in Tpl
      /\ stack \in Seq(FrameType) /\ Top.ev \in Events \cup {NoEvent}
  BY MayFacts, TopFacts DEF RaiseTPL, May
<1>2. /\ NewTpl \in Tpl /\ gEfiCurrentTpl < NewTpl /\ CoreRaiseTpl(NewTpl, Append(stack, g))
      /\ UNCHANGED <<notify, objects, timer, mEfiSystemTime>>
  BY CallAssumption DEF RaiseTPL
<1>3. g \in FrameType /\ g.pc = "raised" /\ g.tpl = gEfiCurrentTpl
  BY <1>1, FrameTyped, LabelFacts
<1> HIDE DEF g
<1>4. FrameOK(g) /\ Resume(g, NewTpl)
  BY <1>1, <1>2, <1>3, TplFacts DEF FrameOK, Resume, EvLabels, CheckPc, CloseLabels
<1>5. Shape(Append(stack, g), NewTpl) /\ Members(Append(stack, g)) = Frames \cup {g}
  BY <1>1, <1>3, <1>4, PushPlain, MembersAppend DEF CloseLabels, NotifyPc, Frames
<1>6. CpuInv' /\ stack' = Append(stack, g)
  BY <1>1, <1>2, <1>5, RaiseInv
<1>7. Keeps(Members(stack'))
  BY <1>3, <1>5, <1>6, KeepsPlain, LabelFacts DEF PlainPc, CloseLabels, LinkPc
<1> QED BY <1>2, <1>6, <1>7, NotifyStable, PlainStep DEF Inv

\* Whoever hands over to CoreRestoreTpl without raising its priority again.
LEMMA HandOver ==
  ASSUME Inv, Top.pc # "app", stack' = Replace(RestoreFrame(Top.tpl)),
         UNCHANGED <<gEfiCurrentTpl, InterruptState>>
  PROVE  CpuInv' /\ Keeps(Members(stack'))
<1> DEFINE g == RestoreFrame(Top.tpl)
<1>1. CpuInv /\ Top.tpl \in Tpl /\ gEfiCurrentTpl \in Tpl /\ Top.tpl <= gEfiCurrentTpl
  BY TopFacts DEF Inv, CpuInv
<1>2. g \in FrameType /\ g.pc = "test" /\ g.tpl = Top.tpl
  <2>1. NoEvent \in Events \cup {NoEvent} /\ 0 \in Nat
    OBVIOUS
  <2> QED BY <1>1, <2>1, FrameTyped, LabelFacts DEF RestoreFrame
<1>3. stack' = Replace(g)
  OBVIOUS
<1> HIDE DEF g
<1>4. FrameOK(g) /\ Resume(g, gEfiCurrentTpl)
  BY <1>1, <1>2, TplFacts DEF FrameOK, Resume, EvLabels, CheckPc, CloseLabels
<1>5. Shape(Replace(g), gEfiCurrentTpl) /\ Members(Replace(g)) \subseteq Frames \cup {g}
  BY <1>1, <1>2, <1>4, ShapeReplace DEF CloseLabels, NotifyPc, QuietPc
<1>6. CpuInv'
  BY <1>1, <1>3, <1>5, StackOnly
<1> QED BY <1>2, <1>3, <1>5, <1>6, KeepsPlain, LabelFacts DEF PlainPc, CloseLabels, LinkPc

LEMMA RestoreTPLInv ==
  ASSUME Inv, RestoreTPL
  PROVE  Inv'
<1>1. CpuInv' /\ Keeps(Members(stack'))
  BY HandOver DEF RestoreTPL, At
<1> QED BY <1>1, NotifyStable, PlainStep DEF Inv, RestoreTPL

LEMMA SignalEventInv ==
  ASSUME Inv, NEW e \in UserEvents, SignalEvent(e)
  PROVE  Inv'
<1>1. /\ Shape(stack, gEfiCurrentTpl) /\ CpuInv /\ NotifyInv /\ ObjectsInv
      /\ e \in Events /\ Live(e)
  BY MayFacts DEF SignalEvent, May, Inv, Usable, Events
<1>2. CoreSignalEvent(e, stack) /\ UNCHANGED <<objects, timer, mEfiSystemTime>>
  BY DEF SignalEvent
<1>3. CpuInv' /\ NotifyInv' /\ \A f \in Members(stack') : f \in Members(stack) \/ f.pc \in QuietPc
  BY <1>1, <1>2, SignalInv
<1>4. Keeps(Members(stack'))
  BY <1>3, KeepsPlain, LabelFacts DEF PlainPc, CloseLabels, LinkPc, QuietPc, Frames
<1> QED BY <1>2, <1>3, <1>4, PlainStep

LEMMA SignalGroupInv ==
  ASSUME Inv, SignalGroup
  PROVE  Inv'
<1> DEFINE g == Frame("notifyList", Top.tpl, Top.ev, 1)
<1>1. /\ CpuInv /\ Top \in FrameType /\ Top.tpl \in Tpl /\ Top.pc = "signalGroup"
      /\ Top.ev \in Events
  BY TopFacts DEF Inv, SignalGroup, At, FrameOK, EvLabels
<1>2. g \in FrameType /\ g.pc = "notifyList" /\ g.tpl = Top.tpl /\ g.ev = Top.ev /\ g.n = 1
  BY <1>1, FrameTyped, LabelFacts
<1>3. CoreRaiseTpl(EFI_TPL_HIGH_LEVEL, Replace(g)) /\ UNCHANGED <<notify, objects, timer, mEfiSystemTime>>
  <2>1. 1 \in Nat /\ "notifyList" \in Labels
    BY LabelFacts
  <2>2. [Top EXCEPT !.pc = "notifyList", !.n = 1] = g
    BY <1>1, <2>1, EditLabelNumber
  <2> HIDE DEF g
  <2> QED BY <2>2 DEF SignalGroup
<1> HIDE DEF g
<1>4. FrameOK(g) /\ Resume(g, EFI_TPL_HIGH_LEVEL)
  BY <1>1, <1>2, TplFacts DEF FrameOK, Resume, EvLabels, CheckPc, CloseLabels
<1>5. Shape(Replace(g), EFI_TPL_HIGH_LEVEL) /\ Members(Replace(g)) \subseteq Frames \cup {g}
  BY <1>1, <1>2, <1>4, ShapeReplace DEF CloseLabels, NotifyPc, QuietPc
<1>6. CpuInv' /\ stack' = Replace(g)
  BY <1>1, <1>3, <1>5, TplFacts, RaiseInv
<1>7. Keeps(Members(stack'))
  BY <1>2, <1>5, <1>6, KeepsPlain, LabelFacts DEF PlainPc, CloseLabels, LinkPc
<1> QED BY <1>3, <1>6, <1>7, NotifyStable, PlainStep DEF Inv

LEMMA NotifyListInv ==
  ASSUME Inv, NotifyList
  PROVE  Inv'
<1>1. /\ CpuInv /\ NotifyInv /\ ObjectsInv /\ DataInv
      /\ Top \in FrameType /\ Top.tpl \in Tpl /\ Top.pc = "notifyList"
      /\ Top.ev \in Events /\ Top.n \in Nat /\ Top.n >= 1
      /\ gEfiCurrentTpl = EFI_TPL_HIGH_LEVEL /\ gEfiCurrentTpl \in Tpl
  BY TopFacts DEF Inv, CpuInv, NotifyList, At, FrameOK, EvLabels, Resume
<1>2. UNCHANGED <<gEfiCurrentTpl, InterruptState, SignalCount, objects, timer, mEfiSystemTime>>
  BY DEF NotifyList
<1>3. SignalCount' \in [Events -> 0..1]
  BY <1>1, <1>2 DEF NotifyInv
<1>4. CASE Top.n <= Len(gEventSignalQueue)
  <2> DEFINE e == gEventSignalQueue[Top.n]
            g == Frame("notifyList", Top.tpl, Top.ev, Top.n + 1)
  <2>1. e \in Events /\ Live(e)
    <3>1. gEventSignalQueue \in Seq(Events) /\ Top.n \in 1..Len(gEventSignalQueue)
      BY <1>1, <1>4 DEF ObjectsInv
    <3>2. e \in Members(gEventSignalQueue)
      BY <3>1 DEF Members
    <3> QED BY <1>1, <3>1, <3>2 DEF DataInv
  <2>2. /\ CoreNotifyEvent(e) \/ UNCHANGED <<gEventQueue, gEventPending>>
        /\ stack' = Replace([Top EXCEPT !.n = Top.n + 1])
    BY <1>4 DEF NotifyList
  <2>3. stack' = Replace(g)
    <3>1. Top.n + 1 \in Nat
      BY <1>1
    <3>2. [Top EXCEPT !.n = Top.n + 1] = g
      BY <1>1, <3>1, EditNumber
    <3> QED BY <2>2, <3>2
  <2>4. g \in FrameType /\ g.pc = "notifyList" /\ g.tpl = Top.tpl /\ g.ev = Top.ev /\ g.n = Top.n + 1
    BY <1>1, FrameTyped, LabelFacts
  <2> HIDE DEF g, e
  <2>5. FrameOK(g) /\ Resume(g, gEfiCurrentTpl)
    BY <1>1, <2>4, TplFacts DEF FrameOK, Resume, EvLabels, CheckPc, CloseLabels
  <2>6. Shape(Replace(g), gEfiCurrentTpl) /\ Members(Replace(g)) \subseteq Frames \cup {g}
    BY <1>1, <2>4, <2>5, ShapeReplace DEF CloseLabels, NotifyPc, QuietPc
  <2>7. CpuInv'
    BY <1>1, <1>2, <2>3, <2>6, StackOnly
  <2>8. NotifyInv'
    BY <1>1, <1>3, <2>1, <2>2, NotifyEventInv, CountOnlyInv
  <2>9. Keeps(Members(stack'))
    BY <2>3, <2>4, <2>6, KeepsPlain, LabelFacts DEF PlainPc, CloseLabels, LinkPc
  <2> QED BY <1>2, <2>7, <2>8, <2>9, PlainStep
<1>5. CASE ~(Top.n <= Len(gEventSignalQueue))
  <2> DEFINE f == Frame("relock", Top.tpl, Top.ev, Top.n)
            g == RestoreFrame(Top.tpl)
  <2>1. f \in FrameType /\ f.pc = "relock" /\ f.tpl = Top.tpl /\ f.ev = Top.ev
    BY <1>1, FrameTyped, LabelFacts
  <2>2. g \in FrameType /\ g.pc = "test" /\ g.tpl = Top.tpl
    <3>1. NoEvent \in Events \cup {NoEvent} /\ 0 \in Nat
      OBVIOUS
    <3> QED BY <1>1, <3>1, FrameTyped, LabelFacts DEF RestoreFrame
  <2>3. stack' = Append(Replace(f), g) /\ UNCHANGED <<gEventQueue, gEventPending>>
    BY <1>1, <1>5, EditFrame, LabelFacts DEF NotifyList, Go
  <2> HIDE DEF f, g
  <2>4. FrameOK(f) /\ Resume(f, Top.tpl)
    BY <1>1, <2>1, TplFacts DEF FrameOK, Resume, EvLabels, CheckPc, CloseLabels
  <2>5. Shape(Replace(f), Top.tpl) /\ Members(Replace(f)) \subseteq Frames \cup {f}
    BY <1>1, <2>1, <2>4, ShapeReplace DEF CloseLabels, NotifyPc, QuietPc
  <2>6. FrameOK(g) /\ Resume(g, gEfiCurrentTpl)
    BY <1>1, <2>2, TplFacts DEF FrameOK, Resume, EvLabels, CheckPc, CloseLabels
  <2>7. Shape(Append(Replace(f), g), gEfiCurrentTpl)
    BY <1>1, <2>2, <2>5, <2>6, PushQuiet DEF QuietPc
  <2>8. CpuInv'
    BY <1>1, <1>2, <2>3, <2>7, StackOnly
  <2>9. Keeps(Members(stack'))
    <3>1. Members(stack') = Members(Replace(f)) \cup {g}
      BY <2>2, <2>3, <2>5, MembersAppend DEF Shape
    <3> QED BY <2>1, <2>2, <2>5, <3>1, KeepsPlain, LabelFacts DEF PlainPc, CloseLabels, LinkPc
  <2> QED BY <1>1, <1>2, <1>3, <2>3, <2>8, <2>9, CountOnlyInv, PlainStep
<1> QED BY <1>4, <1>5

LEMMA RelockInv ==
  ASSUME Inv, Relock
  PROVE  Inv'
<1>1. CpuInv /\ Top.pc = "relock" /\ gEfiCurrentTpl = Top.tpl
  BY TopFacts DEF Inv, Relock, At, Resume
<1>2. Shape(Pop(stack), gEfiCurrentTpl) /\ Members(Pop(stack)) \subseteq Frames
  BY <1>1, BelowFacts
<1>3. WithEventLock(Pop(stack)) /\ UNCHANGED <<notify, objects, timer, mEfiSystemTime>>
  BY DEF Relock
<1>4. CpuInv' /\ Members(stack') = Members(Pop(stack)) \cup {RestoreFrame(gEfiCurrentTpl)}
  BY <1>1, <1>2, <1>3, EventLockInv
<1>5. RestoreFrame(gEfiCurrentTpl).pc = "test"
  BY DEF RestoreFrame, Frame
<1>6. Keeps(Members(stack'))
  BY <1>2, <1>4, <1>5, KeepsPlain, LabelFacts DEF PlainPc, CloseLabels, LinkPc
<1> QED BY <1>3, <1>4, <1>6, NotifyStable, PlainStep DEF Inv

LEMMA CheckEventStepInv ==
  ASSUME Inv, NEW e \in UserEvents, CheckEvent(e)
  PROVE  Inv'
<1>1. /\ Shape(stack, gEfiCurrentTpl) /\ NoHolder(stack) /\ CpuInv /\ NotifyInv /\ ObjectsInv
      /\ e \in Events /\ Live(e)
  BY MayFacts DEF CheckEvent, May, Inv, Usable, Events
<1>2. CoreCheckEvent(e, stack) /\ UNCHANGED <<SignalCount, objects, timer, mEfiSystemTime>>
  BY DEF CheckEvent
<1>3. /\ CpuInv' /\ NotifyInv'
      /\ \A f \in Members(stack') : f \in Members(stack) \/ f.pc = "checkEvent" \/ f.pc \in QuietPc
  BY <1>1, <1>2, CheckEventInv
<1>4. Keeps(Members(stack'))
  BY <1>3, KeepsPlain, LabelFacts DEF PlainPc, CloseLabels, LinkPc, QuietPc, Frames
<1> QED BY <1>2, <1>3, <1>4, PlainStep
LEMMA WaitForEventInv ==
  ASSUME Inv, WaitForEvent
  PROVE  Inv'
<1> DEFINE g == Frame("wait", gEfiCurrentTpl, NoEvent, 1)
<1>1. /\ CpuInv /\ Shape(stack, gEfiCurrentTpl) /\ NoHolder(stack) /\ gEfiCurrentTpl \in Tpl
      /\ stack \in Seq(FrameType)
  BY MayFacts, TopFacts DEF WaitForEvent, May
<1>2. /\ gEfiCurrentTpl = EFI_TPL_APPLICATION /\ WaitList # <<>> /\ stack' = Append(stack, g)
      /\ UNCHANGED <<gEfiCurrentTpl, InterruptState, notify, objects, timer, mEfiSystemTime>>
  BY DEF WaitForEvent
<1>3. \A e \in Members(WaitList) : Unclosed(e)
  BY UsableFacts DEF WaitForEvent
<1>4. g \in FrameType /\ g.pc = "wait" /\ g.tpl = gEfiCurrentTpl /\ g.n = 1
  <2>1. NoEvent \in Events \cup {NoEvent} /\ 1 \in Nat
    OBVIOUS
  <2> QED BY <1>1, <2>1, FrameTyped, LabelFacts
<1> HIDE DEF g
<1>5. Len(WaitList) \in Nat /\ Len(WaitList) >= 1
  BY <1>2, CallAssumption
<1>6. FrameOK(g) /\ Resume(g, gEfiCurrentTpl)
  BY <1>1, <1>2, <1>4, <1>5, TplFacts DEF FrameOK, Resume, EvLabels, CheckPc, CloseLabels
<1>7. Shape(Append(stack, g), gEfiCurrentTpl) /\ Members(Append(stack, g)) = Frames \cup {g}
  BY <1>1, <1>4, <1>6, PushPlain, MembersAppend DEF CloseLabels, NotifyPc, Frames
<1>8. CpuInv'
  BY <1>1, <1>2, <1>7, StackOnly
<1>9. Keeps(Members(stack'))
  BY <1>2, <1>3, <1>4, <1>7 DEF Keeps, KeepsUsers, CloseLabels, LinkPc
<1> QED BY <1>2, <1>8, <1>9, NotifyStable, PlainStep DEF Inv

LEMMA WaitTurnInv ==
  ASSUME Inv, WaitTurn
  PROVE  Inv'
<1> DEFINE e == WaitList[Top.n]
<1>1. /\ CpuInv /\ NotifyInv /\ ObjectsInv /\ DataInv /\ Top.pc = "wait" /\ Top \in Frames
      /\ Shape(stack, gEfiCurrentTpl) /\ NoHolder(stack)
      /\ Top.n \in Nat /\ Top.n >= 1 /\ Top.n <= Len(WaitList) /\ gEfiCurrentTpl = Top.tpl
  BY MayFacts, TopFacts DEF Inv, WaitTurn, At, FrameOK, Resume
<1>2. e \in Events /\ Live(e)
  <2>1. Top.n \in 1..Len(WaitList) /\ WaitList \in Seq(UserEvents)
    BY <1>1, CallAssumption
  <2>2. e \in Members(WaitList) /\ e \in UserEvents
    BY <2>1 DEF Members
  <2> QED BY <1>1, <2>2 DEF DataInv, Unclosed, Events
<1>3. UNCHANGED <<SignalCount, objects, timer, mEfiSystemTime>>
  BY DEF WaitTurn
<1>4. CASE /\ stack' = Pop(stack)
           /\ UNCHANGED <<gEfiCurrentTpl, InterruptState, gEventQueue, gEventPending>>
  <2>1. Shape(Pop(stack), gEfiCurrentTpl) /\ Members(Pop(stack)) \subseteq Frames
    BY <1>1, BelowFacts
  <2>2. CpuInv' /\ Keeps(Members(stack'))
    BY <1>1, <1>4, <2>1, StackOnly, KeepsPlain
  <2>3. NotifyInv'
    BY <1>1, <1>3, <1>4, NotifyStable DEF notify
  <2> QED BY <1>3, <2>2, <2>3, PlainStep
<1>5. CASE CoreCheckEvent(e, stack)
  <2>1. /\ CpuInv' /\ NotifyInv'
        /\ \A f \in Members(stack') : f \in Members(stack) \/ f.pc = "checkEvent" \/ f.pc \in QuietPc
    BY <1>1, <1>2, <1>3, <1>5, CheckEventInv
  <2>2. Keeps(Members(stack'))
    BY <2>1, KeepsPlain, LabelFacts DEF PlainPc, CloseLabels, LinkPc, QuietPc, Frames
  <2> QED BY <1>3, <2>1, <2>2, PlainStep
<1> QED BY <1>4, <1>5 DEF WaitTurn

\* CoreCheckEvent returns to its caller, which may be the loop of a
\* WaitForEvent.
LEMMA CheckEventEndInv ==
  ASSUME Inv, CheckEventEnd
  PROVE  Inv'
<1> DEFINE s       == Pop(stack)
          caller  == s[Len(s)]
          g       == Frame("wait", caller.tpl, caller.ev, (caller.n % Len(WaitList)) + 1)
<1>1. /\ CpuInv /\ NotifyInv /\ Top.pc = "checkEvent" /\ gEfiCurrentTpl = Top.tpl
      /\ gEfiCurrentTpl \in Tpl /\ Top.ev \in Events
  BY TopFacts DEF Inv, CpuInv, CheckEventEnd, At, Resume, FrameOK, EvLabels
<1>2. /\ Shape(s, gEfiCurrentTpl) /\ Members(s) \subseteq Frames /\ NoHolder(s)
      /\ s \in Seq(FrameType)
  BY <1>1, BelowFacts DEF QuietPc
<1>3. Len(s) \in Nat /\ Len(s) >= 1 /\ caller \in Members(s) /\ caller \in FrameType
      /\ FrameOK(caller) /\ Resume(caller, gEfiCurrentTpl)
  BY <1>2 DEF Shape, Members
<1> HIDE DEF s
<1>4. ASSUME caller.pc = "wait"
      PROVE  /\ Shape(Pop(s), gEfiCurrentTpl) /\ Members(Pop(s)) \subseteq Frames
             /\ Shape(Append(Pop(s), g), gEfiCurrentTpl)
             /\ Members(Append(Pop(s), g)) \subseteq Frames \cup {g}
             /\ [caller EXCEPT !.n = (caller.n % Len(WaitList)) + 1] = g
             /\ g.pc = "wait" /\ g.ev = caller.ev
  <2>1. /\ caller.tpl = gEfiCurrentTpl /\ caller.tpl = EFI_TPL_APPLICATION
        /\ caller.n \in Nat /\ caller.n >= 1 /\ caller.n <= Len(WaitList)
        /\ caller.ev \in Events \cup {NoEvent}
    BY <1>3, <1>4 DEF Resume, FrameOK, FrameType
  <2>2. Len(WaitList) \in Nat /\ Len(WaitList) >= 1
    BY <2>1, CallAssumption
  <2>3. (caller.n % Len(WaitList)) + 1 \in 1..Len(WaitList)
    BY <2>1, <2>2
  <2>4. g \in FrameType /\ g.pc = "wait" /\ g.tpl = gEfiCurrentTpl /\ g.ev = caller.ev
        /\ g.n \in 1..Len(WaitList)
    BY <1>1, <2>1, <2>2, <2>3, FrameTyped, LabelFacts
  <2>5. [caller EXCEPT !.n = (caller.n % Len(WaitList)) + 1] = g
    <3>1. (caller.n % Len(WaitList)) + 1 \in Nat
      BY <2>2, <2>3
    <3> QED BY <1>3, <1>4, <3>1, EditNumber
  <2> HIDE DEF g
  <2>6. Shape(Pop(s), gEfiCurrentTpl)
    BY <1>2, <1>4, <2>1, ShapePop
  <2>7. Pop(s) \in Seq(FrameType) /\ Members(Pop(s)) \subseteq Members(s)
    BY <1>2, PopProperties DEF Shape
  <2>8. NoHolder(Pop(s))
    <3>1. \A i \in 1..Len(Pop(s)) : i \in 1..Len(s) /\ Pop(s)[i] = s[i]
      BY <1>2, <1>3, PopProperties DEF Shape
    <3> QED BY <1>2, <3>1 DEF NoHolder
  <2>9. FrameOK(g) /\ Resume(g, gEfiCurrentTpl)
    <3>1. g.tpl <= gEfiCurrentTpl
      BY <1>1, <2>4, TplFacts
    <3>2. FrameOK(g)
      BY <2>2, <2>4 DEF FrameOK, EvLabels, CheckPc, CloseLabels
    <3>3. Resume(g, gEfiCurrentTpl)
      BY <2>1, <2>4, <3>1 DEF Resume, CheckPc, CloseLabels
    <3> QED BY <3>2, <3>3
  <2>10. Shape(Append(Pop(s), g), gEfiCurrentTpl)
    BY <1>1, <2>4, <2>6, <2>8, <2>9, PushPlain DEF CloseLabels, NotifyPc
  <2>11. Members(Append(Pop(s), g)) = Members(Pop(s)) \cup {g}
    BY <2>4, <2>7, MembersAppend
  <2> QED BY <1>2, <2>4, <2>5, <2>6, <2>7, <2>10, <2>11 DEF g
<1> HIDE DEF g
<1>5. UNCHANGED <<gEventPending, gEventQueue, objects, timer, mEfiSystemTime>>
  BY DEF CheckEventEnd
<1>6. CASE /\ SignalCount' = [SignalCount EXCEPT ![Top.ev] = 0]
           /\ WithEventLock(IF caller.pc = "wait" THEN Pop(s) ELSE s)
  <2>1. PICK z : WithEventLock(z) /\ Shape(z, gEfiCurrentTpl) /\ Members(z) \subseteq Frames
    BY <1>2, <1>4, <1>6
  <2>2. CpuInv' /\ Members(stack') = Members(z) \cup {RestoreFrame(gEfiCurrentTpl)}
    BY <1>1, <2>1, EventLockInv
  <2>3. RestoreFrame(gEfiCurrentTpl).pc = "test"
    BY DEF RestoreFrame, Frame
  <2>4. Keeps(Members(stack'))
    BY <2>1, <2>2, <2>3, KeepsPlain, LabelFacts DEF PlainPc, CloseLabels, LinkPc
  <2>5. NotifyInv'
    <3>1. SignalCount' \in [Events -> 0..1]
      BY <1>1, <1>6 DEF NotifyInv
    <3> QED BY <1>1, <1>5, <3>1, CountOnlyInv
  <2> QED BY <1>5, <2>2, <2>4, <2>5, PlainStep
<1>7. CASE /\ stack' = IF caller.pc = "wait"
                       THEN Append(Pop(s), [caller EXCEPT !.n = (caller.n % Len(WaitList)) + 1])
                       ELSE s
           /\ UNCHANGED <<gEfiCurrentTpl, InterruptState, SignalCount>>
  <2>1. Shape(stack', gEfiCurrentTpl)
    BY <1>2, <1>4, <1>7
  <2>2. CpuInv'
    BY <1>1, <1>7, <2>1, StackOnly
  <2>3. Keeps(Members(stack'))
    <3>1. CASE caller.pc = "wait"
      <4>1. Members(stack') \subseteq Frames \cup {g} /\ g.pc = "wait" /\ g.ev = caller.ev
        BY <1>4, <1>7, <3>1
      <4> QED BY <1>2, <1>3, <3>1, <4>1 DEF Keeps, KeepsUsers, CloseLabels, LinkPc
    <3>2. CASE caller.pc # "wait"
      BY <1>2, <1>7, <3>2, KeepsPlain
    <3> QED BY <3>1, <3>2
  <2>4. NotifyInv'
    BY <1>1, <1>5, <1>7, NotifyStable DEF notify
  <2> QED BY <1>5, <2>2, <2>3, <2>4, PlainStep
<1> QED BY <1>6, <1>7 DEF CheckEventEnd, s

-----------------------------------------------------------------------------
(* The protocol database's use of events.                                  *)

LEMMA InstallProtocolInterfaceInv ==
  ASSUME Inv, InstallProtocolInterface
  PROVE  Inv'
<1> DEFINE g == Frame("notifyEntry", gEfiCurrentTpl, NoEvent, 1)
<1>1. /\ CpuInv /\ Shape(stack, gEfiCurrentTpl) /\ NoHolder(stack) /\ gEfiCurrentTpl \in Tpl
      /\ stack \in Seq(FrameType)
  BY MayFacts, TopFacts DEF InstallProtocolInterface, May
<1>2. /\ CoreRaiseTpl(EFI_TPL_NOTIFY, Append(stack, g)) /\ gEfiCurrentTpl <= EFI_TPL_NOTIFY
      /\ UNCHANGED <<notify, objects, timer, mEfiSystemTime>>
  BY DEF InstallProtocolInterface, CoreRaiseTpl
<1>3. g \in FrameType /\ g.pc = "notifyEntry" /\ g.tpl = gEfiCurrentTpl /\ g.n = 1
  <2>1. NoEvent \in Events \cup {NoEvent} /\ 1 \in Nat
    OBVIOUS
  <2> QED BY <1>1, <2>1, FrameTyped, LabelFacts
<1> HIDE DEF g
<1>4. FrameOK(g) /\ Resume(g, EFI_TPL_NOTIFY)
  BY <1>1, <1>2, <1>3, TplFacts DEF FrameOK, Resume, EvLabels, CheckPc, CloseLabels
<1>5. Shape(Append(stack, g), EFI_TPL_NOTIFY) /\ Members(Append(stack, g)) = Frames \cup {g}
  BY <1>1, <1>3, <1>4, PushPlain, MembersAppend DEF CloseLabels, NotifyPc, Frames
<1>6. CpuInv' /\ stack' = Append(stack, g)
  BY <1>1, <1>2, <1>5, TplFacts, RaiseInv
<1>7. Keeps(Members(stack'))
  BY <1>3, <1>5, <1>6, KeepsPlain, LabelFacts DEF PlainPc, CloseLabels, LinkPc
<1> QED BY <1>2, <1>6, <1>7, NotifyStable, PlainStep DEF Inv

LEMMA NotifyEntryInv ==
  ASSUME Inv, NotifyEntry
  PROVE  Inv'
<1>1. /\ CpuInv /\ NotifyInv /\ ObjectsInv /\ DataInv
      /\ Top \in FrameType /\ Top.tpl \in Tpl /\ Top.pc = "notifyEntry"
      /\ Top.ev \in Events \cup {NoEvent} /\ Top.n \in Nat /\ Top.n >= 1
      /\ gEfiCurrentTpl = EFI_TPL_NOTIFY /\ gEfiCurrentTpl \in Tpl
  BY TopFacts DEF Inv, CpuInv, NotifyEntry, At, FrameOK, Resume
<1>2. UNCHANGED <<objects, timer, mEfiSystemTime>>
  BY DEF NotifyEntry
<1>3. CASE Top.n <= Len(ProtNotify)
  <2> DEFINE e == ProtNotify[Top.n]
            g == Frame("notifyEntry", Top.tpl, Top.ev, Top.n + 1)
  <2>1. e \in Events /\ Live(e)
    <3>1. ProtNotify \in Seq(Events) /\ Top.n \in 1..Len(ProtNotify)
      BY <1>1, <1>3 DEF ObjectsInv
    <3>2. e \in Members(ProtNotify)
      BY <3>1 DEF Members
    <3> QED BY <1>1, <3>1, <3>2 DEF DataInv
  <2>2. CoreSignalEvent(e, Replace(g))
    <3>1. Top.n + 1 \in Nat
      BY <1>1
    <3>2. [Top EXCEPT !.n = Top.n + 1] = g
      BY <1>1, <3>1, EditNumber
    <3>3. CoreSignalEvent(e, Replace([Top EXCEPT !.n = Top.n + 1]))
      BY <1>3 DEF NotifyEntry
    <3> QED BY <3>2, <3>3
  <2>3. g \in FrameType /\ g.pc = "notifyEntry" /\ g.tpl = Top.tpl /\ g.n = Top.n + 1
    BY <1>1, FrameTyped, LabelFacts
  <2> HIDE DEF g, e
  <2>4. FrameOK(g) /\ Resume(g, gEfiCurrentTpl)
    BY <1>1, <2>3, TplFacts, TopFacts DEF FrameOK, Resume, EvLabels, CheckPc, CloseLabels
  <2>5. Shape(Replace(g), gEfiCurrentTpl) /\ Members(Replace(g)) \subseteq Frames \cup {g}
    BY <1>1, <2>3, <2>4, ShapeReplace DEF CloseLabels, NotifyPc, QuietPc
  <2>6. /\ CpuInv' /\ NotifyInv'
        /\ \A f \in Members(stack') : f \in Members(Replace(g)) \/ f.pc \in QuietPc
    BY <1>1, <2>1, <2>2, <2>5, SignalInv
  <2>7. Keeps(Members(stack'))
    BY <2>3, <2>5, <2>6, KeepsPlain, LabelFacts DEF PlainPc, CloseLabels, LinkPc, QuietPc
  <2> QED BY <1>2, <2>6, <2>7, PlainStep
<1>4. CASE ~(Top.n <= Len(ProtNotify))
  <2>1. /\ stack' = Replace(RestoreFrame(Top.tpl))
        /\ UNCHANGED <<gEfiCurrentTpl, InterruptState, notify>>
    BY <1>4 DEF NotifyEntry
  <2>2. CpuInv' /\ Keeps(Members(stack'))
    BY <1>1, <2>1, HandOver
  <2> QED BY <1>1, <1>2, <2>1, <2>2, NotifyStable, PlainStep
<1> QED BY <1>3, <1>4
-----------------------------------------------------------------------------
(* The timer services.                                                     *)

LEMMA LowestExists ==
  ASSUME NEW B, B \subseteq Nat, B # {}
  PROVE  \E t \in B : \A u \in B : t <= u
<1> DEFINE R == OpToRel(<, Nat)
<1>1. IsWellFoundedOn(R, Nat)
  BY NatLessThanWellFounded
<1>2. \A x, y \in Nat : y < x => <<y, x>> \in R
  BY DEF OpToRel
<1> HIDE DEF R
<1>3. \E x \in B : \A y \in B : ~(<<y, x>> \in R)
  BY <1>1, WFMin
<1>4. PICK x \in B : \A y \in B : ~(y < x)
  BY <1>2, <1>3
<1>5. \A y \in B : x <= y
  BY <1>4
<1> QED BY <1>5

\* CoreInsertEventTimer links exactly the event.
LEMMA InsertTimerList ==
  ASSUME TimeInv, NEW e \in Events, CoreInsertEventTimer(e)
  PROVE  /\ mEfiTimerList' \in Seq(Events)
         /\ Members(mEfiTimerList') = Members(mEfiTimerList) \cup {e}
         /\ e \notin Members(mEfiTimerList) /\ NoDuplicates(mEfiTimerList)
              => NoDuplicates(mEfiTimerList')
<1> DEFINE later == {k \in 1..Len(mEfiTimerList) : TriggerTime[mEfiTimerList[k]] > TriggerTime[e]}
          k     == IF later = {} THEN Len(mEfiTimerList) + 1
                   ELSE CHOOSE i \in later : \A j \in later : i <= j
<1>1. mEfiTimerList \in Seq(Events) /\ Len(mEfiTimerList) \in Nat
  BY DEF TimeInv
<1>2. later \subseteq 1..Len(mEfiTimerList)
  OBVIOUS
<1>3. mEfiTimerList' = InsertBefore(mEfiTimerList, k, e)
  BY DEF CoreInsertEventTimer
<1> HIDE DEF later
<1>4. k \in 1..(Len(mEfiTimerList) + 1)
  <2>1. CASE later = {}
    BY <1>1, <2>1
  <2>2. CASE later # {}
    <3>1. \E i \in later : \A j \in later : i <= j
      <4>1. later \subseteq Nat
        BY <1>1, <1>2
      <4> QED BY <2>2, <4>1, LowestExists
    <3>2. k \in later
      BY <2>2, <3>1
    <3> HIDE DEF k
    <3> QED BY <1>1, <1>2, <3>2
  <2> QED BY <2>1, <2>2
<1> HIDE DEF k
<1> QED BY <1>1, <1>3, <1>4, InsertBeforeProperties

\* The core's own event is never freed.
LEMMA CheckTimerLive ==
  ASSUME ObjectsInv
  PROVE  mEfiCheckTimerEvent \in Events /\ Live(mEfiCheckTimerEvent)
BY EventAssumption DEF ObjectsInv, Live, Events

\* What a frame that owns the timer lock may use.
LEMMA OwnerFacts ==
  ASSUME Inv, Top.pc \in Holders
  PROVE  /\ CpuInv /\ NotifyInv /\ ObjectsInv /\ TimeInv /\ DataInv
         /\ Top \in FrameType /\ Top \in Frames /\ Top.tpl \in Tpl /\ Top.ev \in Events /\ Top.n \in Nat
         /\ gEfiCurrentTpl = TimerLockTpl /\ Top.tpl <= TimerLockTpl /\ gEfiCurrentTpl \in Tpl
         /\ NoHolder(Pop(stack)) /\ Members(Pop(stack)) \subseteq Frames
         /\ \A f \in Members(Pop(stack)) : f.pc \notin LinkPc
<1>1. /\ CpuInv /\ NotifyInv /\ ObjectsInv /\ TimeInv /\ DataInv
      /\ Top \in FrameType /\ Top \in Frames /\ Top.tpl \in Tpl /\ Top.n \in Nat
      /\ FrameOK(Top) /\ Resume(Top, gEfiCurrentTpl) /\ gEfiCurrentTpl \in Tpl
  BY TopFacts DEF Inv, CpuInv
<1>2. Top.ev \in Events /\ gEfiCurrentTpl = TimerLockTpl /\ Top.tpl <= TimerLockTpl
  BY <1>1 DEF FrameOK, Resume, Holders, TimerLockOwners, EvLabels, CheckPc
<1>3. NoHolder(Pop(stack)) /\ Members(Pop(stack)) \subseteq Frames
  BY <1>1, BelowFacts DEF QuietPc, Holders, TimerLockOwners
<1>4. \A f \in Members(Pop(stack)) : f.pc \notin LinkPc
  BY <1>3 DEF NoHolder, Members, LinkPc, Holders, TimerLockOwners
<1> QED BY <1>1, <1>2, <1>3, <1>4

\* The owner of the timer lock goes on as g.
LEMMA OwnerReplace ==
  ASSUME Inv, Top.pc \in Holders, NEW pc \in Labels, NEW ev \in Events, NEW n \in Nat,
         pc \in {"insertTimer", "timerUnlock"} \/ (pc \in CheckPc /\ Top.pc \in CheckPc /\ n <= MaxTime)
  PROVE  LET g == Frame(pc, Top.tpl, ev, n)
         IN  /\ Shape(Replace(g), gEfiCurrentTpl) /\ Members(Replace(g)) \subseteq Frames \cup {g}
             /\ Members(Replace(g)) = Members(Pop(stack)) \cup {g}
             /\ g.pc = pc /\ g.ev = ev /\ g.n = n /\ g.tpl = Top.tpl
<1> DEFINE g == Frame(pc, Top.tpl, ev, n)
<1>1. /\ CpuInv /\ Top.tpl \in Tpl /\ gEfiCurrentTpl = TimerLockTpl /\ Top.tpl <= TimerLockTpl
      /\ NoHolder(Pop(stack)) /\ FrameOK(Top) /\ Resume(Top, gEfiCurrentTpl) /\ Top.pc # "app"
  BY OwnerFacts, TopFacts DEF Holders, TimerLockOwners
<1>2. g \in FrameType /\ g.pc = pc /\ g.ev = ev /\ g.n = n /\ g.tpl = Top.tpl
  BY <1>1, FrameTyped
<1>3. pc \in CheckPc => Top.pc \in CheckPc /\ Top.tpl = TimerLockTpl
  BY <1>1 DEF Resume, CheckPc
<1> HIDE DEF g
<1>4. FrameOK(g)
  BY <1>2 DEF FrameOK, EvLabels, CheckPc, CloseLabels
<1>5. Resume(g, gEfiCurrentTpl)
  BY <1>1, <1>2, <1>3 DEF Resume, CloseLabels, CheckPc
<1>6. /\ Shape(Replace(g), gEfiCurrentTpl) /\ Members(Replace(g)) \subseteq Frames \cup {g}
      /\ Members(Replace(g)) = Members(Pop(stack)) \cup {g}
  <2>1. g.pc # "app" /\ g.pc \notin CloseLabels
    BY <1>2 DEF CloseLabels, CheckPc
  <2>2. g.pc \in NotifyPc => Top.pc \in NotifyPc
    BY <1>2, <1>3 DEF NotifyPc, CheckPc
  <2> QED BY <1>1, <1>2, <1>4, <1>5, <2>1, <2>2, ShapeReplace
<1> QED BY <1>2, <1>6 DEF g

LEMMA SetTimerInv ==
  ASSUME Inv, NEW e \in UserEvents, NEW type, NEW delay \in 0..(TimeModulus - 1),
         SetTimer(e, type, delay)
  PROVE  Inv'
<1> DEFINE f == Frame("setTimer", gEfiCurrentTpl, e, delay)
          r == RestoreFrame(gEfiCurrentTpl)
<1>1. /\ CpuInv /\ NotifyInv /\ ObjectsInv /\ TimeInv /\ DataInv
      /\ Shape(stack, gEfiCurrentTpl) /\ NoHolder(stack) /\ gEfiCurrentTpl \in Tpl
      /\ stack \in Seq(FrameType) /\ e \in Events /\ Armable(e) /\ delay \in Nat
  BY MayFacts, TopFacts, UsableFacts, TimeAssumption DEF SetTimer, May, Inv, Events, Armable
<1>2. /\ mEfiTimerList' = RemoveEntryList(mEfiTimerList, e)
      /\ TriggerTime' = [TriggerTime EXCEPT ![e] = 0]
      /\ Period' = [Period EXCEPT ![e] = IF type = "TimerPeriodic" THEN delay ELSE 0]
      /\ CoreRaiseTpl(TimerLockTpl, Append(stack, IF type = "TimerCancel" THEN r ELSE f))
      /\ gEfiCurrentTpl <= TimerLockTpl
      /\ UNCHANGED <<notify, objects, due, mEfiSystemTime>>
  BY DEF SetTimer, CoreRaiseTpl
<1>3. f \in FrameType /\ f.pc = "setTimer" /\ f.tpl = gEfiCurrentTpl /\ f.ev = e
  BY <1>1, FrameTyped, LabelFacts
<1>4. r \in FrameType /\ r.pc = "test" /\ r.tpl = gEfiCurrentTpl
  <2>1. NoEvent \in Events \cup {NoEvent} /\ 0 \in Nat
    OBVIOUS
  <2> QED BY <1>1, <2>1, FrameTyped, LabelFacts DEF RestoreFrame
<1> HIDE DEF f, r
<1>5. PICK g : g \in {f, r} /\ CoreRaiseTpl(TimerLockTpl, Append(stack, g))
  BY <1>2
<1>6. FrameOK(g) /\ Resume(g, TimerLockTpl) /\ g \in FrameType
  BY <1>1, <1>2, <1>3, <1>4, <1>5, TplFacts DEF FrameOK, Resume, EvLabels, CheckPc, CloseLabels
<1>7. Shape(Append(stack, g), TimerLockTpl) /\ Members(Append(stack, g)) = Frames \cup {g}
  BY <1>1, <1>3, <1>4, <1>5, <1>6, PushPlain, MembersAppend DEF CloseLabels, NotifyPc, Frames
<1>8. CpuInv' /\ stack' = Append(stack, g)
  BY <1>1, <1>5, <1>7, TplFacts, RaiseInv
<1>9. /\ mEfiTimerList' \in Seq(Events) /\ NoDuplicates(mEfiTimerList')
      /\ Members(mEfiTimerList') \subseteq Members(mEfiTimerList) /\ e \notin Members(mEfiTimerList')
  BY <1>1, <1>2, RemoveEntryProperties DEF TimeInv, DataInv
<1>10. TimeInv'
  BY <1>1, <1>2, <1>9, TimeAssumption DEF TimeInv
<1>11. NotifyInv' /\ ObjectsInv'
  BY <1>1, <1>2, NotifyStable DEF ObjectsInv, objects
<1>12. DataInv'
  <2>1. KeepsUsers(Members(stack'))
    BY <1>3, <1>4, <1>5, <1>7, <1>8, KeepsUsersPlain, LabelFacts DEF PlainPc, LinkPc, CloseLabels
  <2>2. \A d \in Members(mEfiTimerList') : Armable(d)
    BY <1>1, <1>9 DEF DataInv
  <2>3. \A h \in Members(stack') : h.pc \in LinkPc =>
            Armable(h.ev) /\ h.ev \notin Members(mEfiTimerList')
    BY <1>1, <1>3, <1>4, <1>5, <1>7, <1>8, <1>9 DEF DataInv, LinkPc
  <2> QED BY <1>1, <1>2, <1>9, <2>1, <2>2, <2>3, DataTimer DEF objects
<1> QED BY <1>8, <1>10, <1>11, <1>12 DEF Inv

LEMMA SetTriggerTimeInv ==
  ASSUME Inv, SetTriggerTime
  PROVE  Inv'
<1> DEFINE g == Frame("insertTimer", Top.tpl, Top.ev, Top.n)
<1>1. Top.pc = "setTimer" /\ Top.pc \in Holders
  BY DEF SetTriggerTime, At, Holders, TimerLockOwners
<1>2. /\ CpuInv /\ NotifyInv /\ ObjectsInv /\ TimeInv /\ DataInv
      /\ Top \in FrameType /\ Top \in Frames /\ Top.ev \in Events /\ Top.n \in Nat
  BY <1>1, OwnerFacts
<1>3. /\ TriggerTime' = [TriggerTime EXCEPT ![Top.ev] = (mEfiSystemTime + Top.n) % TimeModulus]
      /\ due' = [due EXCEPT ![Top.ev] = mEfiSystemTime + Top.n]
      /\ UNCHANGED <<gEfiCurrentTpl, InterruptState, notify, objects, mEfiTimerList, Period, mEfiSystemTime>>
  BY DEF SetTriggerTime
<1>4. stack' = Replace(g)
  BY <1>2, EditFrame, LabelFacts DEF SetTriggerTime, Go
<1>5. /\ Shape(Replace(g), gEfiCurrentTpl) /\ Members(Replace(g)) \subseteq Frames \cup {g}
      /\ g.pc = "insertTimer" /\ g.ev = Top.ev
  BY <1>1, <1>2, OwnerReplace, LabelFacts
<1> HIDE DEF g
<1>6. CpuInv'
  BY <1>2, <1>3, <1>4, <1>5, StackOnly
<1>7. NotifyInv' /\ ObjectsInv'
  BY <1>2, <1>3, NotifyStable DEF ObjectsInv, objects
<1>8. TimeInv'
  <2>1. mEfiSystemTime + Top.n \in Nat
    BY <1>2, TimeAssumption DEF TimeInv
  <2>2. (mEfiSystemTime + Top.n) % TimeModulus \in 0..(TimeModulus - 1)
    BY <2>1, TimeAssumption
  <2> QED BY <1>2, <1>3, <2>1, <2>2 DEF TimeInv
<1>9. Keeps(Members(stack'))
  BY <1>1, <1>2, <1>4, <1>5 DEF Keeps, KeepsUsers, CloseLabels, LinkPc
<1>10. DataInv'
  BY <1>2, <1>3, <1>9, DataStable DEF objects
<1> QED BY <1>6, <1>7, <1>8, <1>10 DEF Inv

\* A step of the owner after which the events it was to link is linked.
LEMMA LinkData ==
  ASSUME Inv, Top.pc \in LinkPc, CoreInsertEventTimer(Top.ev), UNCHANGED <<objects>>,
         \A f \in Members(stack') : f \in Members(Pop(stack)) \/ f.pc \in PlainPc
  PROVE  DataInv' /\ mEfiTimerList' \in Seq(Events)
<1>1. Top.pc \in Holders
  BY DEF LinkPc, Holders, TimerLockOwners
<1>2. /\ TimeInv /\ DataInv /\ Top \in Frames /\ Top.ev \in Events
      /\ Members(Pop(stack)) \subseteq Frames
      /\ \A f \in Members(Pop(stack)) : f.pc \notin LinkPc
  BY <1>1, OwnerFacts
<1>3. Armable(Top.ev) /\ Top.ev \notin Members(mEfiTimerList) /\ NoDuplicates(mEfiTimerList)
  BY <1>2 DEF DataInv
<1>4. /\ mEfiTimerList' \in Seq(Events) /\ NoDuplicates(mEfiTimerList')
      /\ Members(mEfiTimerList') = Members(mEfiTimerList) \cup {Top.ev}
  BY <1>2, <1>3, InsertTimerList
<1>5. \A d \in Members(mEfiTimerList') : Armable(d)
  BY <1>2, <1>3, <1>4 DEF DataInv
<1>6. KeepsUsers(Members(stack'))
  BY <1>2, KeepsUsersPlain
<1>7. \A f \in Members(stack') : f.pc \notin LinkPc
  BY <1>2 DEF PlainPc
<1> QED BY <1>2, <1>4, <1>5, <1>6, <1>7, DataTimer DEF objects

LEMMA InsertTimerInv ==
  ASSUME Inv, InsertTimer
  PROVE  Inv'
<1> DEFINE g == Frame("timerUnlock", Top.tpl, Top.ev, Top.n)
<1>1. Top.pc = "insertTimer" /\ Top.pc \in Holders /\ Top.pc \in LinkPc
  BY DEF InsertTimer, At, Holders, TimerLockOwners, LinkPc
<1>2. /\ CpuInv /\ NotifyInv /\ ObjectsInv /\ TimeInv /\ DataInv
      /\ Top \in FrameType /\ Top.ev \in Events /\ Top.n \in Nat
  BY <1>1, OwnerFacts
<1>3. /\ CoreInsertEventTimer(Top.ev)
      /\ UNCHANGED <<objects, TriggerTime, Period, due, mEfiSystemTime>>
  BY DEF InsertTimer
<1>4. /\ Shape(Replace(g), gEfiCurrentTpl) /\ g.pc = "timerUnlock"
      /\ Members(Replace(g)) = Members(Pop(stack)) \cup {g}
  BY <1>1, <1>2, OwnerReplace, LabelFacts
<1>5. Go("timerUnlock") = Replace(g)
  BY <1>2, EditFrame, LabelFacts DEF Go
<1>6. \/ CoreSignalEvent(mEfiCheckTimerEvent, Replace(g))
      \/ stack' = Replace(g) /\ UNCHANGED <<gEfiCurrentTpl, InterruptState, notify>>
  BY <1>5 DEF InsertTimer
<1> HIDE DEF g
<1>7. /\ CpuInv' /\ NotifyInv'
      /\ \A f \in Members(stack') : f \in Members(Pop(stack)) \/ f.pc \in PlainPc
  <2>1. CASE CoreSignalEvent(mEfiCheckTimerEvent, Replace(g))
    <3>1. /\ CpuInv' /\ NotifyInv'
          /\ \A f \in Members(stack') : f \in Members(Replace(g)) \/ f.pc \in QuietPc
      BY <1>2, <1>4, <2>1, CheckTimerLive, SignalInv
    <3> QED BY <1>4, <3>1, LabelFacts DEF PlainPc, QuietPc, CloseLabels, LinkPc
  <2>2. CASE stack' = Replace(g) /\ UNCHANGED <<gEfiCurrentTpl, InterruptState, notify>>
    BY <1>2, <1>4, <2>2, StackOnly, NotifyStable, LabelFacts DEF PlainPc, CloseLabels, LinkPc
  <2> QED BY <1>6, <2>1, <2>2
<1>8. DataInv' /\ mEfiTimerList' \in Seq(Events)
  BY <1>1, <1>3, <1>7, LinkData
<1>9. TimeInv' /\ ObjectsInv'
  BY <1>2, <1>3, <1>8 DEF TimeInv, ObjectsInv, objects
<1> QED BY <1>7, <1>8, <1>9 DEF Inv

LEMMA TimerUnlockInv ==
  ASSUME Inv, TimerUnlock
  PROVE  Inv'
<1>1. CpuInv' /\ Keeps(Members(stack'))
  BY HandOver DEF TimerUnlock, At
<1> QED BY <1>1, NotifyStable, PlainStep DEF Inv, TimerUnlock
LEMMA CheckTimersInv ==
  ASSUME Inv, CheckTimers
  PROVE  Inv'
<1> DEFINE g == Frame("checkLoop", Top.tpl, Top.ev, mEfiSystemTime)
<1>1. Top.pc = "checkTimers" /\ Top.pc \in Holders /\ Top.pc \in CheckPc
  BY DEF CheckTimers, At, Holders, CheckPc
<1>2. /\ CpuInv /\ Top \in FrameType /\ Top.ev \in Events /\ gEfiCurrentTpl = TimerLockTpl
      /\ gEfiCurrentTpl \in Tpl
  BY <1>1, OwnerFacts
<1>3. mEfiSystemTime \in Nat /\ mEfiSystemTime <= MaxTime
  BY TimeAssumption DEF Inv, TimeInv
<1>4. /\ Shape(Replace(g), gEfiCurrentTpl) /\ Members(Replace(g)) \subseteq Frames \cup {g}
      /\ g.pc = "checkLoop"
  BY <1>1, <1>2, <1>3, OwnerReplace, LabelFacts DEF CheckPc
<1>5. /\ CoreRaiseTpl(TimerLockTpl, Replace(g))
      /\ UNCHANGED <<notify, objects, timer, mEfiSystemTime>>
  <2>1. [Top EXCEPT !.pc = "checkLoop", !.n = mEfiSystemTime] = g
    BY <1>2, <1>3, EditLabelNumber, LabelFacts
  <2> HIDE DEF g
  <2> QED BY <2>1 DEF CheckTimers
<1> HIDE DEF g
<1>6. CpuInv' /\ stack' = Replace(g)
  BY <1>2, <1>4, <1>5, RaiseInv
<1>7. Keeps(Members(stack'))
  BY <1>4, <1>6, KeepsPlain, LabelFacts DEF PlainPc, CloseLabels, LinkPc
<1> QED BY <1>5, <1>6, <1>7, NotifyStable, PlainStep DEF Inv

LEMMA CheckLoopInv ==
  ASSUME Inv, CheckLoop
  PROVE  Inv'
<1> DEFINE e == mEfiTimerList[1]
          g == Frame("rearm", Top.tpl, e, Top.n)
<1>1. Top.pc = "checkLoop" /\ Top.pc \in Holders /\ Top.pc \in CheckPc
  BY DEF CheckLoop, At, Holders, TimerLockOwners, CheckPc
<1>2. /\ CpuInv /\ NotifyInv /\ ObjectsInv /\ TimeInv /\ DataInv
      /\ Top \in FrameType /\ Top.ev \in Events /\ Top.n \in Nat
      /\ Members(Pop(stack)) \subseteq Frames
      /\ \A f \in Members(Pop(stack)) : f.pc \notin LinkPc
  BY <1>1, OwnerFacts
<1>3. Top.n <= MaxTime
  BY <1>1, <1>2, TopFacts DEF FrameOK
<1>4. UNCHANGED <<objects, TriggerTime, Period, due, mEfiSystemTime>>
  BY DEF CheckLoop
<1>5. CASE mEfiTimerList # <<>> /\ TriggerTime[mEfiTimerList[1]] <= Top.n
  <2>1. /\ mEfiTimerList \in Seq(Events) /\ 1 \in 1..Len(mEfiTimerList) /\ e \in Events
        /\ e \in Members(mEfiTimerList)
    BY <1>2, <1>5 DEF TimeInv, Members
  <2>2. Armable(e) /\ Live(e) /\ NoDuplicates(mEfiTimerList)
    BY <1>2, <2>1 DEF DataInv, Armable, Unclosed
  <2>3. /\ mEfiTimerList' = RemoveAtIndex(mEfiTimerList, 1)
        /\ CoreSignalEvent(e, Replace(g))
    <3>1. [Top EXCEPT !.pc = "rearm", !.ev = e] = g
      BY <1>2, <2>1, EditFrame, LabelFacts
    <3>2. CoreSignalEvent(e, Replace([Top EXCEPT !.pc = "rearm", !.ev = e]))
      BY <1>5 DEF CheckLoop
    <3> QED BY <1>5, <3>1, <3>2 DEF CheckLoop
  <2>4. /\ Shape(Replace(g), gEfiCurrentTpl) /\ g.pc = "rearm" /\ g.ev = e
        /\ Members(Replace(g)) = Members(Pop(stack)) \cup {g}
    BY <1>1, <1>2, <1>3, <2>1, OwnerReplace, LabelFacts DEF CheckPc
  <2> HIDE DEF g, e
  <2>5. /\ CpuInv' /\ NotifyInv'
        /\ \A f \in Members(stack') : f \in Members(Replace(g)) \/ f.pc \in QuietPc
    BY <1>2, <2>1, <2>2, <2>3, <2>4, SignalInv
  <2>6. /\ mEfiTimerList' \in Seq(Events) /\ NoDuplicates(mEfiTimerList')
        /\ Members(mEfiTimerList') \subseteq Members(mEfiTimerList) /\ e \notin Members(mEfiTimerList')
    BY <2>1, <2>2, <2>3, RemoveAtIndexProperties DEF e
  <2>7. KeepsUsers(Members(stack'))
    BY <1>2, <2>4, <2>5, KeepsUsersPlain, LabelFacts DEF PlainPc, QuietPc, CloseLabels, LinkPc
  <2>8. \A d \in Members(mEfiTimerList') : Armable(d)
    BY <1>2, <2>6 DEF DataInv
  <2>9. \A h \in Members(stack') : h.pc \in LinkPc =>
            Armable(h.ev) /\ h.ev \notin Members(mEfiTimerList')
    BY <1>2, <2>2, <2>4, <2>5, <2>6 DEF LinkPc, QuietPc
  <2>10. DataInv'
    BY <1>2, <1>4, <2>6, <2>7, <2>8, <2>9, DataTimer DEF objects
  <2>11. TimeInv' /\ ObjectsInv'
    BY <1>2, <1>4, <2>6 DEF TimeInv, ObjectsInv, objects
  <2> QED BY <2>5, <2>10, <2>11 DEF Inv
<1>6. CASE ~(mEfiTimerList # <<>> /\ TriggerTime[mEfiTimerList[1]] <= Top.n)
  <2>1. /\ stack' = Replace(RestoreFrame(Top.tpl))
        /\ UNCHANGED <<gEfiCurrentTpl, InterruptState, notify, mEfiTimerList>>
    BY <1>6 DEF CheckLoop
  <2>2. CpuInv' /\ Keeps(Members(stack'))
    BY <1>1, <2>1, HandOver
  <2> QED BY <1>2, <1>4, <2>1, <2>2, NotifyStable, PlainStep DEF timer
<1> QED BY <1>5, <1>6

LEMMA RearmInv ==
  ASSUME Inv, Rearm
  PROVE  Inv'
<1> DEFINE e    == Top.ev
          next == (TriggerTime[e] + Period[e]) % TimeModulus
          g    == Frame("checkLoop", Top.tpl, e, Top.n)
          h    == Frame("reinsert", Top.tpl, e, Top.n)
<1>1. Top.pc = "rearm" /\ Top.pc \in Holders /\ Top.pc \in CheckPc /\ Top.pc \in LinkPc
  BY DEF Rearm, At, Holders, TimerLockOwners, CheckPc, LinkPc
<1>2. /\ CpuInv /\ NotifyInv /\ ObjectsInv /\ TimeInv /\ DataInv
      /\ Top \in FrameType /\ Top \in Frames /\ e \in Events /\ Top.n \in Nat
  BY <1>1, OwnerFacts
<1>3. Top.n <= MaxTime
  BY <1>1, <1>2, TopFacts DEF FrameOK
<1>4. UNCHANGED <<objects, mEfiTimerList, Period, mEfiSystemTime>>
  BY DEF Rearm
<1>5. Go("checkLoop") = Replace(g) /\ Go("reinsert") = Replace(h)
  BY <1>2, EditFrame, LabelFacts DEF Go
<1>6. /\ Shape(Replace(g), gEfiCurrentTpl) /\ Members(Replace(g)) \subseteq Frames \cup {g}
      /\ g.pc = "checkLoop"
  BY <1>1, <1>2, <1>3, OwnerReplace, LabelFacts DEF CheckPc
<1>7. /\ Shape(Replace(h), gEfiCurrentTpl) /\ Members(Replace(h)) \subseteq Frames \cup {h}
      /\ h.pc = "reinsert" /\ h.ev = Top.ev
  BY <1>1, <1>2, <1>3, OwnerReplace, LabelFacts DEF CheckPc
<1>8. ASSUME \A f \in Members(stack') : f \in Frames \cup {g, h} \/ f.pc \in QuietPc
      PROVE  DataInv'
  <2>1. Keeps(Members(stack'))
    BY <1>1, <1>2, <1>6, <1>7, <1>8 DEF Keeps, KeepsUsers, CloseLabels, LinkPc, QuietPc
  <2> QED BY <1>2, <1>4, <2>1, DataStable DEF objects
<1>9. CASE Period[e] = 0
  <2>1. /\ stack' = Replace(g)
        /\ UNCHANGED <<gEfiCurrentTpl, InterruptState, notify, TriggerTime, due>>
    BY <1>5, <1>9 DEF Rearm
  <2> HIDE DEF g, h
  <2>2. CpuInv' /\ NotifyInv' /\ DataInv'
    BY <1>2, <1>6, <1>8, <2>1, StackOnly, NotifyStable
  <2> QED BY <1>2, <1>4, <2>1, <2>2, TimeObjectsStable DEF Inv, timer
<1>10. CASE Period[e] # 0
  <2>1. /\ TriggerTime' = [TriggerTime EXCEPT ![e] = IF next <= Top.n THEN Top.n ELSE next]
        /\ due' = [due EXCEPT ![e] = @ + Period[e]]
        /\ \/ CoreSignalEvent(mEfiCheckTimerEvent, Replace(h))
           \/ stack' = Replace(h) /\ UNCHANGED <<gEfiCurrentTpl, InterruptState, notify>>
    BY <1>5, <1>10 DEF Rearm
  <2>2. TimeInv'
    <3>1. TriggerTime[e] \in 0..(TimeModulus - 1) /\ Period[e] \in 0..(TimeModulus - 1) /\ due[e] \in Nat
      BY <1>2 DEF TimeInv
    <3>2. next \in 0..(TimeModulus - 1) /\ due[e] + Period[e] \in Nat
      BY <3>1, TimeAssumption
    <3>3. Top.n \in 0..(TimeModulus - 1)
      BY <1>2, <1>3, TimeAssumption
    <3> HIDE DEF next
    <3>4. TriggerTime' \in [Events -> 0..(TimeModulus - 1)]
      BY <1>2, <2>1, <3>2, <3>3 DEF TimeInv
    <3>5. due' \in [Events -> Nat]
      BY <1>2, <2>1, <3>2 DEF TimeInv
    <3> QED BY <1>2, <1>4, <3>4, <3>5 DEF TimeInv
  <2> HIDE DEF g, h
  <2>3. CpuInv' /\ NotifyInv' /\ DataInv'
    <3>1. CASE CoreSignalEvent(mEfiCheckTimerEvent, Replace(h))
      <4>1. /\ CpuInv' /\ NotifyInv'
            /\ \A f \in Members(stack') : f \in Members(Replace(h)) \/ f.pc \in QuietPc
        BY <1>2, <1>7, <3>1, CheckTimerLive, SignalInv
      <4> QED BY <1>7, <1>8, <4>1
    <3>2. CASE stack' = Replace(h) /\ UNCHANGED <<gEfiCurrentTpl, InterruptState, notify>>
      BY <1>2, <1>7, <1>8, <3>2, StackOnly, NotifyStable
    <3> QED BY <2>1, <3>1, <3>2
  <2>4. ObjectsInv'
    BY <1>2, <1>4 DEF ObjectsInv, objects
  <2> QED BY <2>2, <2>3, <2>4 DEF Inv
<1> QED BY <1>9, <1>10

LEMMA ReinsertInv ==
  ASSUME Inv, Reinsert
  PROVE  Inv'
<1> DEFINE g == Frame("checkLoop", Top.tpl, Top.ev, Top.n)
<1>1. Top.pc = "reinsert" /\ Top.pc \in Holders /\ Top.pc \in LinkPc /\ Top.pc \in CheckPc
  BY DEF Reinsert, At, Holders, TimerLockOwners, LinkPc, CheckPc
<1>2. /\ CpuInv /\ NotifyInv /\ ObjectsInv /\ TimeInv /\ DataInv
      /\ Top \in FrameType /\ Top.ev \in Events /\ Top.n \in Nat
  BY <1>1, OwnerFacts
<1>3. Top.n <= MaxTime
  BY <1>1, <1>2, TopFacts DEF FrameOK
<1>4. /\ CoreInsertEventTimer(Top.ev) /\ stack' = Replace(g)
      /\ UNCHANGED <<gEfiCurrentTpl, InterruptState, notify, objects, TriggerTime, Period, due, mEfiSystemTime>>
  BY <1>2, EditFrame, LabelFacts DEF Reinsert, Go
<1>5. /\ Shape(Replace(g), gEfiCurrentTpl) /\ g.pc = "checkLoop"
      /\ Members(Replace(g)) = Members(Pop(stack)) \cup {g}
  BY <1>1, <1>2, <1>3, OwnerReplace, LabelFacts DEF CheckPc
<1> HIDE DEF g
<1>6. CpuInv' /\ NotifyInv'
  BY <1>2, <1>4, <1>5, StackOnly, NotifyStable
<1>7. \A f \in Members(stack') : f \in Members(Pop(stack)) \/ f.pc \in PlainPc
  BY <1>4, <1>5, LabelFacts DEF PlainPc, CloseLabels, LinkPc
<1>8. DataInv' /\ mEfiTimerList' \in Seq(Events)
  BY <1>1, <1>4, <1>7, LinkData
<1>9. TimeInv' /\ ObjectsInv'
  BY <1>2, <1>4, <1>8 DEF TimeInv, ObjectsInv, objects
<1> QED BY <1>6, <1>8, <1>9 DEF Inv

LEMMA TimerInterruptInv ==
  ASSUME Inv, TimerInterrupt
  PROVE  Inv'
<1>1. CpuInv /\ NotifyInv /\ ObjectsInv /\ TimeInv /\ DataInv /\ Shape(stack, gEfiCurrentTpl)
  BY DEF Inv, CpuInv
<1>2. UNCHANGED <<objects, timer>> /\ mEfiSystemTime' \in 0..MaxTime
  <2>1. mEfiSystemTime' = IF mEfiSystemTime < MaxTime THEN mEfiSystemTime + 1 ELSE mEfiSystemTime
    BY DEF TimerInterrupt
  <2> QED BY <1>1, <2>1, TimeAssumption DEF TimerInterrupt, TimeInv
<1>3. \/ CoreSignalEvent(mEfiCheckTimerEvent, stack)
      \/ WithEventLock(stack) /\ UNCHANGED notify
  BY DEF TimerInterrupt
<1>4. /\ CpuInv' /\ NotifyInv'
      /\ \A f \in Members(stack') : f \in Frames \/ f.pc \in QuietPc
  <2>1. CASE CoreSignalEvent(mEfiCheckTimerEvent, stack)
    BY <1>1, <2>1, CheckTimerLive, SignalInv DEF Frames
  <2>2. CASE WithEventLock(stack) /\ UNCHANGED notify
    <3>1. RestoreFrame(gEfiCurrentTpl).pc \in QuietPc
      BY DEF RestoreFrame, Frame, QuietPc
    <3> QED BY <1>1, <2>2, <3>1, EventLockInv, NotifyStable DEF Frames
  <2> QED BY <1>3, <2>1, <2>2
<1>5. Keeps(Members(stack'))
  BY <1>4, KeepsPlain, LabelFacts DEF PlainPc, QuietPc, CloseLabels, LinkPc
<1>6. DataInv'
  BY <1>1, <1>2, <1>5, DataStable DEF objects, timer
<1>7. TimeInv' /\ ObjectsInv'
  BY <1>1, <1>2 DEF TimeInv, ObjectsInv, objects, timer
<1> QED BY <1>4, <1>6, <1>7 DEF Inv
-----------------------------------------------------------------------------
(* Events come and go.                                                     *)

LEMMA CreateEventInv ==
  ASSUME Inv, NEW e \in UserEvents, NEW c \in EventClasses, CreateEvent(e, c)
  PROVE  Inv'
<1>1. /\ CpuInv /\ NotifyInv /\ ObjectsInv /\ TimeInv /\ DataInv
      /\ Shape(stack, gEfiCurrentTpl) /\ gEfiCurrentTpl \in Tpl
      /\ e \in Events /\ e # mEfiCheckTimerEvent /\ ~Live(e)
  BY MayFacts DEF CreateEvent, May, Inv, Events
<1>2. /\ event' = [event EXCEPT ![e] = c]
      /\ SignalCount' = [SignalCount EXCEPT ![e] = 0]
      /\ TriggerTime' = [TriggerTime EXCEPT ![e] = 0]
      /\ Period' = [Period EXCEPT ![e] = 0]
      /\ due' = [due EXCEPT ![e] = 0]
      /\ \/ gEventSignalQueue' = InsertHeadList(gEventSignalQueue, e)
         \/ gEventSignalQueue' = gEventSignalQueue
      /\ WithEventLock(stack)
      /\ UNCHANGED <<gEventPending, gEventQueue, ProtNotify, mEfiTimerList, mEfiSystemTime>>
  BY DEF CreateEvent
<1>3. c \in Class /\ c # Free
  <2>1. ValidClass(c) /\ c # Free
    BY EventAssumption
  <2>2. c.type \in SUBSET Flags /\ c.tpl \in 0..(EFI_TPL_HIGH_LEVEL - 1)
    BY <2>1 DEF ValidClass, EFI_TPL_APPLICATION, EFI_TPL_HIGH_LEVEL
  <2>3. c.group \in {d.group : d \in EventClasses} \cup {NoGroup}
    OBVIOUS
  <2>4. c = [type |-> c.type, tpl |-> c.tpl, group |-> c.group]
    BY <2>1 DEF ValidClass
  <2> QED BY <2>1, <2>2, <2>3, <2>4 DEF Class
<1>4. CpuInv' /\ Members(stack') = Frames \cup {RestoreFrame(gEfiCurrentTpl)}
  BY <1>1, <1>2, EventLockInv DEF Frames
<1>5. NotifyInv'
  <2>1. SignalCount' \in [Events -> 0..1]
    BY <1>1, <1>2 DEF NotifyInv
  <2> QED BY <1>1, <1>2, <2>1, CountOnlyInv
<1>6. e \notin Members(gEventSignalQueue)
  BY <1>1 DEF DataInv
<1>7. /\ gEventSignalQueue' \in Seq(Events) /\ NoDuplicates(gEventSignalQueue')
      /\ Members(gEventSignalQueue') \subseteq Members(gEventSignalQueue) \cup {e}
  <2>1. gEventSignalQueue \in Seq(Events) /\ NoDuplicates(gEventSignalQueue)
    BY <1>1 DEF ObjectsInv, DataInv
  <2>2. 1 \in 1..(Len(gEventSignalQueue) + 1)
    BY <2>1
  <2> QED BY <1>1, <1>2, <1>6, <2>1, <2>2, InsertBeforeProperties DEF InsertHeadList
<1>8. ObjectsInv'
  BY <1>1, <1>2, <1>3, <1>7 DEF ObjectsInv
<1>9. TimeInv'
  BY <1>1, <1>2, TimeAssumption DEF TimeInv
<1>10. DataInv'
  <2>1. \A d : Live(d) => d # e /\ event'[d] = event[d] /\ Live(d)'
    BY <1>1, <1>2 DEF Live, ObjectsInv
  <2>2. Live(e)'
    BY <1>1, <1>2, <1>3 DEF Live, ObjectsInv
  <2>3. \A f \in Frames' : f.pc \notin QuietPc => f \in Frames
    BY <1>4 DEF Frames, RestoreFrame, Frame, QuietPc
  <2>4. CloseLabels \cap QuietPc = {} /\ LinkPc \cap QuietPc = {} /\ "wait" \notin QuietPc
        /\ {"closeUnregister", "closeFree"} \subseteq CloseLabels
    BY DEF CloseLabels, LinkPc, QuietPc
  <2>5. \A f \in Frames' : f.pc \in CloseLabels => f \in Frames
    BY <2>3, <2>4
  <2>6. \A d : Unclosed(d) => Unclosed(d)'
    BY <2>1, <2>5 DEF Unclosed
  <2>7. \A d : Armable(d) => Armable(d)'
    BY <2>1, <2>6 DEF Armable, Unclosed, IsType
  <2>8. \A f \in Frames' : f.pc \in CloseLabels => Live(f.ev) /\ Live(f.ev)' /\ f.ev # mEfiCheckTimerEvent /\ f.ev # e
    BY <1>1, <2>1, <2>5 DEF DataInv
  <2>9. \A d \in Members(gEventSignalQueue') :
          Live(d)' /\ \A f \in Frames' : f.pc \in {"closeUnregister", "closeFree"} => f.ev # d
    <3>1. ASSUME NEW d \in Members(gEventSignalQueue')
          PROVE  Live(d)' /\ \A f \in Frames' : f.pc \in {"closeUnregister", "closeFree"} => f.ev # d
      <4>1. CASE d = e
        BY <2>2, <2>4, <2>8, <4>1
      <4>2. CASE d # e
        <5>1. d \in Members(gEventSignalQueue)
          BY <1>7, <4>2
        <5> QED BY <1>1, <2>1, <2>4, <2>5, <5>1 DEF DataInv
      <4> QED BY <4>1, <4>2
    <3> QED BY <3>1
  <2>10. \A d \in Members(ProtNotify) :
          Live(d)' /\ \A f \in Frames' : f.pc = "closeFree" => f.ev # d
    BY <1>1, <2>1, <2>4, <2>5 DEF DataInv
  <2>11. \A f \in Frames' : f.pc \in LinkPc => Armable(f.ev)' /\ f.ev \notin Members(mEfiTimerList)
    BY <1>1, <2>3, <2>4, <2>7 DEF DataInv
  <2>12. \A f \in Frames' : f.pc = "wait" => \A d \in Members(WaitList) : Unclosed(d)'
    BY <1>1, <2>3, <2>4, <2>6 DEF DataInv
  <2>13. NoDuplicates(mEfiTimerList) /\ \A d \in Members(mEfiTimerList) : Armable(d)'
    BY <1>1, <2>7 DEF DataInv
  <2> QED BY <1>2, <1>7, <2>8, <2>9, <2>10, <2>11, <2>12, <2>13 DEF DataInv
<1> QED BY <1>4, <1>5, <1>8, <1>9, <1>10 DEF Inv

\* A caller closes no event that a frame below it still uses.
LEMMA BusyFacts ==
  ASSUME NEW e, ~Busy(e), NEW f \in Frames
  PROVE  /\ f.ev = e => f.pc \notin CloseLabels \cup LinkPc
         /\ f.pc = "wait" => e \notin Members(WaitList)
BY DEF Busy, Frames, Members, CloseLabels, LinkPc

LEMMA CloseEventInv ==
  ASSUME Inv, NEW e \in UserEvents, CloseEvent(e)
  PROVE  Inv'
<1> DEFINE f == Frame("closeLock", gEfiCurrentTpl, e, 0)
          r == RestoreFrame(gEfiCurrentTpl)
<1>1. /\ CpuInv /\ NotifyInv /\ ObjectsInv /\ TimeInv /\ DataInv
      /\ Shape(stack, gEfiCurrentTpl) /\ NoHolder(stack) /\ gEfiCurrentTpl \in Tpl
      /\ stack \in Seq(FrameType) /\ e \in Events /\ Live(e) /\ ~Busy(e)
      /\ e # mEfiCheckTimerEvent
  BY MayFacts, TopFacts DEF CloseEvent, May, Inv, Events
<1>2. \/ /\ IsType(e, "TIMER")
         /\ mEfiTimerList' = RemoveEntryList(mEfiTimerList, e)
         /\ TriggerTime' = [TriggerTime EXCEPT ![e] = 0]
         /\ Period' = [Period EXCEPT ![e] = 0]
         /\ CoreRaiseTpl(TimerLockTpl, Append(Append(stack, f), r))
      \/ /\ ~IsType(e, "TIMER")
         /\ stack' = Append(stack, f)
         /\ UNCHANGED <<gEfiCurrentTpl, InterruptState, mEfiTimerList, TriggerTime, Period>>
  BY DEF CloseEvent
<1>3. UNCHANGED <<notify, objects, due, mEfiSystemTime>>
  BY DEF CloseEvent
<1>4. f \in FrameType /\ f.pc = "closeLock" /\ f.tpl = gEfiCurrentTpl /\ f.ev = e
  BY <1>1, FrameTyped, LabelFacts
<1>5. r \in FrameType /\ r.pc = "test" /\ r.tpl = gEfiCurrentTpl
  <2>1. NoEvent \in Events \cup {NoEvent} /\ 0 \in Nat
    OBVIOUS
  <2> QED BY <1>1, <2>1, FrameTyped, LabelFacts DEF RestoreFrame
<1> HIDE DEF f, r
<1>6. Shape(Append(stack, f), gEfiCurrentTpl) /\ Members(Append(stack, f)) = Frames \cup {f}
  <2>1. FrameOK(f) /\ Resume(f, gEfiCurrentTpl)
    BY <1>1, <1>4, TplFacts DEF FrameOK, Resume, EvLabels, CheckPc, CloseLabels
  <2>2. \A i \in 1..Len(stack) : stack[i].pc \in CloseLabels => stack[i].ev # f.ev
    <3>1. \A i \in 1..Len(stack) : stack[i] \in Frames
      BY DEF Frames, Members
    <3> QED BY <1>1, <1>4, <3>1, BusyFacts
  <2> QED BY <1>1, <1>4, <2>1, <2>2, PushPlain, MembersAppend DEF CloseLabels, NotifyPc, Frames
<1>7. /\ CpuInv' /\ \A h \in Members(stack') : h \in Frames \cup {f} \/ h.pc \in QuietPc
      /\ mEfiTimerList' \in Seq(Events) /\ NoDuplicates(mEfiTimerList')
      /\ Members(mEfiTimerList') \subseteq Members(mEfiTimerList) /\ e \notin Members(mEfiTimerList')
      /\ TimeInv'
  <2>1. CASE /\ mEfiTimerList' = RemoveEntryList(mEfiTimerList, e)
             /\ TriggerTime' = [TriggerTime EXCEPT ![e] = 0]
             /\ Period' = [Period EXCEPT ![e] = 0]
             /\ CoreRaiseTpl(TimerLockTpl, Append(Append(stack, f), r))
    <3>1. gEfiCurrentTpl <= TimerLockTpl
      BY <2>1 DEF CoreRaiseTpl
    <3>2. FrameOK(r) /\ Resume(r, TimerLockTpl)
      BY <1>1, <1>5, <3>1, TplFacts DEF FrameOK, Resume, EvLabels, CheckPc, CloseLabels
    <3>3. Append(stack, f) \in Seq(FrameType)
      BY <1>1, <1>4
    <3>4. /\ Shape(Append(Append(stack, f), r), TimerLockTpl)
          /\ Members(Append(Append(stack, f), r)) = Frames \cup {f} \cup {r}
      <4>1. r.pc \in QuietPc /\ r.tpl = gEfiCurrentTpl
        BY <1>5 DEF QuietPc
      <4> DEFINE z == Append(stack, f)
      <4>2. Shape(z, gEfiCurrentTpl) /\ z \in Seq(FrameType) /\ Members(z) = Frames \cup {f}
        BY <1>6, <3>3
      <4> HIDE DEF z
      <4>3. Shape(Append(z, r), TimerLockTpl)
        BY <1>1, <3>2, <4>1, <4>2, PushQuiet
      <4>4. Members(Append(z, r)) = Members(z) \cup {r}
        BY <1>5, <4>2, MembersAppend
      <4> QED BY <4>2, <4>3, <4>4 DEF z
    <3>5. CpuInv' /\ stack' = Append(Append(stack, f), r)
      BY <1>1, <2>1, <3>4, TplFacts, RaiseInv
    <3>6. /\ mEfiTimerList' \in Seq(Events) /\ NoDuplicates(mEfiTimerList')
          /\ Members(mEfiTimerList') \subseteq Members(mEfiTimerList)
          /\ e \notin Members(mEfiTimerList')
      BY <1>1, <2>1, RemoveEntryProperties DEF TimeInv, DataInv
    <3>7. TimeInv'
      BY <1>1, <1>3, <2>1, <3>6, TimeAssumption DEF TimeInv
    <3> QED BY <1>5, <3>4, <3>5, <3>6, <3>7 DEF QuietPc
  <2>2. CASE /\ ~IsType(e, "TIMER") /\ stack' = Append(stack, f)
             /\ UNCHANGED <<gEfiCurrentTpl, InterruptState, mEfiTimerList, TriggerTime, Period>>
    <3>1. CpuInv'
      BY <1>1, <1>6, <2>2, StackOnly
    <3>2. e \notin Members(mEfiTimerList)
      BY <1>1, <2>2 DEF DataInv, Armable
    <3>3. mEfiTimerList \in Seq(Events) /\ NoDuplicates(mEfiTimerList) /\ mEfiTimerList' = mEfiTimerList
      BY <1>1, <2>2 DEF TimeInv, DataInv
    <3>4. TimeInv'
      BY <1>1, <1>3, <2>2 DEF TimeInv
    <3>5. \A h \in Members(stack') : h \in Frames \cup {f} \/ h.pc \in QuietPc
      BY <1>6, <2>2
    <3> QED BY <3>1, <3>2, <3>3, <3>4, <3>5
  <2> QED BY <1>2, <2>1, <2>2
<1>8. NotifyInv' /\ ObjectsInv'
  BY <1>1, <1>3, NotifyStable DEF ObjectsInv, objects
<1>9. DataInv'
  <2>1. \A d : Live(d)' <=> Live(d)
    BY <1>3 DEF Live, objects
  <2>2. \A h \in Frames' : h.pc \in CloseLabels => h \in Frames \/ (h.ev = e /\ h.pc = "closeLock")
    BY <1>4, <1>7 DEF Frames, CloseLabels, QuietPc
  <2>3. \A h \in Frames' : h.pc \in LinkPc \cup {"wait"} => h \in Frames
    BY <1>4, <1>7 DEF Frames, LinkPc, QuietPc
  <2>4. \A d : Unclosed(d) /\ d # e => Unclosed(d)'
    BY <2>1, <2>2 DEF Unclosed
  <2>5. \A d : Armable(d) /\ d # e => Armable(d)'
    BY <1>3, <2>4 DEF Armable, IsType, objects
  <2>6. \A h \in Frames' : h.pc \in CloseLabels => Live(h.ev)' /\ h.ev # mEfiCheckTimerEvent
    BY <1>1, <2>1, <2>2 DEF DataInv
  <2>7. \A d \in Members(gEventSignalQueue) :
          Live(d)' /\ \A h \in Frames' : h.pc \in {"closeUnregister", "closeFree"} => h.ev # d
    BY <1>1, <2>1, <2>2 DEF DataInv, CloseLabels
  <2>8. \A d \in Members(ProtNotify) : Live(d)' /\ \A h \in Frames' : h.pc = "closeFree" => h.ev # d
    BY <1>1, <2>1, <2>2 DEF DataInv, CloseLabels
  <2>9. \A d \in Members(mEfiTimerList') : Armable(d)'
    BY <1>1, <1>7, <2>5 DEF DataInv
  <2>10. \A h \in Frames' : h.pc \in LinkPc => Armable(h.ev)' /\ h.ev \notin Members(mEfiTimerList')
    <3>1. \A h \in Frames : h.pc \in LinkPc =>
             Armable(h.ev) /\ h.ev \notin Members(mEfiTimerList') /\ h.ev # e
      BY <1>1, <1>7, BusyFacts DEF DataInv
    <3> QED BY <2>3, <2>5, <3>1
  <2>11. \A h \in Frames' : h.pc = "wait" => \A d \in Members(WaitList) : Unclosed(d)'
    <3>1. \A h \in Frames : h.pc = "wait" => \A d \in Members(WaitList) : Unclosed(d) /\ d # e
      BY <1>1, BusyFacts DEF DataInv
    <3> QED BY <2>3, <2>4, <3>1
  <2>12. NoDuplicates(gEventSignalQueue) /\ UNCHANGED <<gEventSignalQueue, ProtNotify>>
    BY <1>1, <1>3 DEF DataInv, objects
  <2> QED BY <1>7, <2>6, <2>7, <2>8, <2>9, <2>10, <2>11, <2>12 DEF DataInv
<1> QED BY <1>7, <1>8, <1>9 DEF Inv
LEMMA CloseLockInv ==
  ASSUME Inv, CloseLock
  PROVE  Inv'
<1> DEFINE e == Top.ev
          g == Frame("closeUnregister", Top.tpl, e, Top.n)
<1>1. /\ CpuInv /\ NotifyInv /\ ObjectsInv /\ TimeInv /\ DataInv
      /\ Top \in FrameType /\ Top \in Frames /\ Top.pc = "closeLock" /\ Top.tpl \in Tpl
      /\ e \in Events /\ Top.n \in Nat /\ gEfiCurrentTpl = Top.tpl
  BY TopFacts DEF Inv, CloseLock, At, FrameOK, Resume, EvLabels, CloseLabels
<1>2. /\ gEventQueue' = [t \in Tpl |-> RemoveEntryList(gEventQueue[t], e)]
      /\ gEventSignalQueue' = RemoveEntryList(gEventSignalQueue, e)
      /\ UNCHANGED <<gEventPending, SignalCount, event, ProtNotify, timer, mEfiSystemTime>>
  BY DEF CloseLock
<1>3. WithEventLock(Replace(g))
  BY <1>1, EditFrame, LabelFacts DEF CloseLock, Go
<1>4. g \in FrameType /\ g.pc = "closeUnregister" /\ g.tpl = Top.tpl /\ g.ev = e
  BY <1>1, FrameTyped, LabelFacts
<1> HIDE DEF g
<1>5. FrameOK(g) /\ Resume(g, gEfiCurrentTpl)
  BY <1>1, <1>4, TplFacts DEF FrameOK, Resume, EvLabels, CheckPc, CloseLabels
<1>6. Shape(Replace(g), gEfiCurrentTpl) /\ Members(Replace(g)) \subseteq Frames \cup {g}
  BY <1>1, <1>4, <1>5, ShapeReplace DEF CloseLabels, NotifyPc, QuietPc
<1>7. CpuInv' /\ Members(stack') = Members(Replace(g)) \cup {RestoreFrame(gEfiCurrentTpl)}
  BY <1>1, <1>3, <1>6, EventLockInv
<1>8. \A t \in Tpl :
        /\ RemoveEntryList(gEventQueue[t], e) \in Seq(Events)
        /\ Members(RemoveEntryList(gEventQueue[t], e)) \subseteq Members(gEventQueue[t])
        /\ gEventQueue[t] = <<>> => RemoveEntryList(gEventQueue[t], e) = <<>>
  <2>1. \A t \in Tpl : gEventQueue[t] \in Seq(Events)
    BY <1>1 DEF NotifyInv
  <2> QED BY <2>1, RemoveEntryProperties
<1>9. NotifyInv'
  <2>1. gEventQueue' \in [Tpl -> Seq(Events)]
    BY <1>2, <1>8
  <2>2. QueuedIsPending'
    BY <1>1, <1>2, <1>8 DEF NotifyInv, QueuedIsPending
  <2>3. CheckTimerQueued'
    BY <1>1, <1>2, <1>8 DEF NotifyInv, CheckTimerQueued
  <2> QED BY <1>1, <1>2, <2>1, <2>2, <2>3 DEF NotifyInv
<1>10. /\ gEventSignalQueue' \in Seq(Events) /\ NoDuplicates(gEventSignalQueue')
       /\ Members(gEventSignalQueue') \subseteq Members(gEventSignalQueue)
       /\ e \notin Members(gEventSignalQueue')
  BY <1>1, <1>2, RemoveEntryProperties DEF ObjectsInv, DataInv
<1>11. ObjectsInv' /\ TimeInv'
  BY <1>1, <1>2, <1>10 DEF ObjectsInv, TimeInv, timer
<1>12. DataInv'
  <2>1. \A d : Live(d)' <=> Live(d)
    BY <1>2 DEF Live
  <2>2. \A h \in Frames' : h.pc \in QuietPc \/ h \in Frames \/ h = g
    BY <1>6, <1>7 DEF Frames, RestoreFrame, Frame, QuietPc
  <2>3. \A h \in Frames' : h.pc \in CloseLabels => h = g \/ h \in Frames
    BY <2>2 DEF CloseLabels, QuietPc
  <2>4. \A h \in Frames' : h.pc \in LinkPc \cup {"wait"} => h \in Frames
    BY <1>4, <2>2 DEF LinkPc, QuietPc
  <2>5. \A d : Unclosed(d) => Unclosed(d)'
    BY <1>1, <1>4, <2>1, <2>3 DEF Unclosed, CloseLabels
  <2>6. \A d : Armable(d) => Armable(d)'
    BY <1>2, <2>5 DEF Armable, IsType
  <2>7. \A h \in Frames' : h.pc \in CloseLabels => Live(h.ev)' /\ h.ev # mEfiCheckTimerEvent
    BY <1>1, <1>4, <2>1, <2>3 DEF DataInv, CloseLabels
  <2>8. \A d \in Members(gEventSignalQueue') :
          Live(d)' /\ \A h \in Frames' : h.pc \in {"closeUnregister", "closeFree"} => h.ev # d
    BY <1>1, <1>4, <1>10, <2>1, <2>3 DEF DataInv, CloseLabels
  <2>9. \A d \in Members(ProtNotify) : Live(d)' /\ \A h \in Frames' : h.pc = "closeFree" => h.ev # d
    BY <1>1, <1>4, <2>1, <2>3 DEF DataInv, CloseLabels
  <2>10. \A d \in Members(mEfiTimerList) : Armable(d)'
    BY <1>1, <2>6 DEF DataInv
  <2>11. \A h \in Frames' : h.pc \in LinkPc => Armable(h.ev)' /\ h.ev \notin Members(mEfiTimerList)
    BY <1>1, <2>4, <2>6 DEF DataInv
  <2>12. \A h \in Frames' : h.pc = "wait" => \A d \in Members(WaitList) : Unclosed(d)'
    BY <1>1, <2>4, <2>5 DEF DataInv
  <2>13. NoDuplicates(mEfiTimerList) /\ UNCHANGED <<ProtNotify, mEfiTimerList>>
    BY <1>1, <1>2 DEF DataInv, timer
  <2> QED BY <1>10, <2>7, <2>8, <2>9, <2>10, <2>11, <2>12, <2>13 DEF DataInv
<1> QED BY <1>7, <1>9, <1>11, <1>12 DEF Inv

\* Where a closing caller may take the protocol lock.
LEMMA CloseUnregisterInv ==
  ASSUME Inv, CloseUnregister
  PROVE  Inv'
<1> DEFINE e == Top.ev
          g == Frame("closeFree", Top.tpl, e, Top.n)
          r == RestoreFrame(gEfiCurrentTpl)
<1>1. /\ CpuInv /\ NotifyInv /\ ObjectsInv /\ TimeInv /\ DataInv
      /\ Top \in FrameType /\ Top \in Frames /\ Top.pc = "closeUnregister" /\ Top.tpl \in Tpl
      /\ e \in Events /\ Top.n \in Nat /\ gEfiCurrentTpl = Top.tpl /\ gEfiCurrentTpl \in Tpl
      /\ Shape(stack, gEfiCurrentTpl)
  BY TopFacts DEF Inv, CpuInv, CloseUnregister, At, FrameOK, Resume, EvLabels, CloseLabels
<1>2. /\ ProtNotify' = RemoveEntryList(ProtNotify, e)
      /\ UNCHANGED <<notify, event, gEventSignalQueue, timer, mEfiSystemTime>>
      /\ gEfiCurrentTpl <= EFI_TPL_NOTIFY
  BY DEF CloseUnregister, CoreRaiseTpl
<1>3. g \in FrameType /\ g.pc = "closeFree" /\ g.tpl = Top.tpl /\ g.ev = e
  BY <1>1, FrameTyped, LabelFacts
<1>4. r \in FrameType /\ r.pc = "test" /\ r.tpl = gEfiCurrentTpl
  <2>1. NoEvent \in Events \cup {NoEvent} /\ 0 \in Nat
    OBVIOUS
  <2> QED BY <1>1, <2>1, FrameTyped, LabelFacts DEF RestoreFrame
<1>5. PICK z : /\ CoreRaiseTpl(EFI_TPL_NOTIFY, Append(z, r))
               /\ (e \in Members(ProtNotify) /\ z = stack) \/ (e \notin Members(ProtNotify) /\ z = Replace(g))
  <2>1. Go("closeFree") = Replace(g)
    BY <1>1, EditFrame, LabelFacts DEF Go
  <2> HIDE DEF g, r
  <2> QED BY <2>1 DEF CloseUnregister, r
<1> HIDE DEF g, r
<1>6. FrameOK(g) /\ Resume(g, gEfiCurrentTpl)
  BY <1>1, <1>3, TplFacts DEF FrameOK, Resume, EvLabels, CheckPc, CloseLabels
<1>7. Shape(Replace(g), gEfiCurrentTpl) /\ Members(Replace(g)) \subseteq Frames \cup {g}
  BY <1>1, <1>3, <1>6, ShapeReplace DEF CloseLabels, NotifyPc, QuietPc
<1>8. /\ Shape(z, gEfiCurrentTpl) /\ Members(z) \subseteq Frames \cup {g}
      /\ e \in Members(ProtNotify) => Members(z) \subseteq Frames
  BY <1>1, <1>5, <1>7 DEF Frames
<1>9. FrameOK(r) /\ Resume(r, EFI_TPL_NOTIFY)
  BY <1>1, <1>2, <1>4, TplFacts DEF FrameOK, Resume, EvLabels, CheckPc, CloseLabels
<1>10. Shape(Append(z, r), EFI_TPL_NOTIFY) /\ Members(Append(z, r)) = Members(z) \cup {r}
  <2>1. z \in Seq(FrameType)
    BY <1>8 DEF Shape
  <2>2. r.pc \in QuietPc /\ r.tpl = gEfiCurrentTpl
    BY <1>4 DEF QuietPc
  <2>3. Shape(Append(z, r), EFI_TPL_NOTIFY)
    BY <1>1, <1>8, <1>9, <2>2, PushQuiet
  <2> QED BY <1>4, <2>1, <2>3, MembersAppend
<1>11. CpuInv' /\ stack' = Append(z, r)
  BY <1>1, <1>5, <1>10, TplFacts, RaiseInv
<1>12. ProtNotify' \in Seq(Events) /\ Members(ProtNotify') \subseteq Members(ProtNotify)
  BY <1>1, <1>2, RemoveEntryProperties DEF ObjectsInv
<1>13. NotifyInv' /\ ObjectsInv' /\ TimeInv'
  BY <1>1, <1>2, <1>12, NotifyStable DEF ObjectsInv, TimeInv, timer
<1>14. DataInv'
  <2>1. \A d : Live(d)' <=> Live(d)
    BY <1>2 DEF Live
  <2>2. \A h \in Frames' : h.pc \in QuietPc \/ h \in Frames \/ (h = g /\ e \notin Members(ProtNotify))
    BY <1>4, <1>5, <1>8, <1>10, <1>11 DEF Frames, QuietPc
  <2>3. \A h \in Frames' : h.pc \in CloseLabels => (h = g /\ e \notin Members(ProtNotify)) \/ h \in Frames
    BY <2>2 DEF CloseLabels, QuietPc
  <2>4. \A h \in Frames' : h.pc \in LinkPc \cup {"wait"} => h \in Frames
    BY <1>3, <2>2 DEF LinkPc, QuietPc
  <2>5. \A d : Unclosed(d) => Unclosed(d)'
    BY <1>1, <1>3, <2>1, <2>3 DEF Unclosed, CloseLabels
  <2>6. \A d : Armable(d) => Armable(d)'
    BY <1>2, <2>5 DEF Armable, IsType
  <2>7. \A h \in Frames' : h.pc \in CloseLabels => Live(h.ev)' /\ h.ev # mEfiCheckTimerEvent
    BY <1>1, <1>3, <2>1, <2>3 DEF DataInv, CloseLabels
  <2>8. \A d \in Members(gEventSignalQueue) :
          Live(d)' /\ \A h \in Frames' : h.pc \in {"closeUnregister", "closeFree"} => h.ev # d
    BY <1>1, <1>3, <2>1, <2>3 DEF DataInv, CloseLabels
  <2>9. \A d \in Members(ProtNotify') : Live(d)' /\ \A h \in Frames' : h.pc = "closeFree" => h.ev # d
    BY <1>1, <1>3, <1>12, <2>1, <2>3 DEF DataInv, CloseLabels
  <2>10. \A d \in Members(mEfiTimerList) : Armable(d)'
    BY <1>1, <2>6 DEF DataInv
  <2>11. \A h \in Frames' : h.pc \in LinkPc => Armable(h.ev)' /\ h.ev \notin Members(mEfiTimerList)
    BY <1>1, <2>4, <2>6 DEF DataInv
  <2>12. \A h \in Frames' : h.pc = "wait" => \A d \in Members(WaitList) : Unclosed(d)'
    BY <1>1, <2>4, <2>5 DEF DataInv
  <2>13. /\ NoDuplicates(gEventSignalQueue) /\ NoDuplicates(mEfiTimerList)
         /\ UNCHANGED <<gEventSignalQueue, mEfiTimerList>>
    BY <1>1, <1>2 DEF DataInv, timer
  <2> QED BY <2>7, <2>8, <2>9, <2>10, <2>11, <2>12, <2>13 DEF DataInv
<1> QED BY <1>11, <1>13, <1>14 DEF Inv
LEMMA CloseFreeInv ==
  ASSUME Inv, CloseFree
  PROVE  Inv'
<1> DEFINE e == Top.ev
          r == RestoreFrame(gEfiCurrentTpl)
<1>1. /\ CpuInv /\ NotifyInv /\ ObjectsInv /\ TimeInv /\ DataInv
      /\ Top \in FrameType /\ Top \in Frames /\ Top.pc = "closeFree" /\ Top.tpl \in Tpl
      /\ e \in Events /\ gEfiCurrentTpl = Top.tpl /\ gEfiCurrentTpl \in Tpl
  BY TopFacts DEF Inv, CpuInv, CloseFree, At, FrameOK, Resume, EvLabels, CloseLabels
<1>2. /\ event' = [event EXCEPT ![e] = Free]
      /\ CoreRaiseTpl(EFI_TPL_NOTIFY, Replace(r)) /\ gEfiCurrentTpl <= EFI_TPL_NOTIFY
      /\ UNCHANGED <<notify, gEventSignalQueue, ProtNotify, timer, mEfiSystemTime>>
  BY DEF CloseFree, CoreRaiseTpl
<1>3. r \in FrameType /\ r.pc = "test" /\ r.tpl = gEfiCurrentTpl
  <2>1. NoEvent \in Events \cup {NoEvent} /\ 0 \in Nat
    OBVIOUS
  <2> QED BY <1>1, <2>1, FrameTyped, LabelFacts DEF RestoreFrame
<1> HIDE DEF r
<1>4. FrameOK(r) /\ Resume(r, EFI_TPL_NOTIFY)
  BY <1>1, <1>2, <1>3, TplFacts DEF FrameOK, Resume, EvLabels, CheckPc, CloseLabels
<1>5. Shape(Replace(r), EFI_TPL_NOTIFY) /\ Members(Replace(r)) = Members(Pop(stack)) \cup {r}
  BY <1>1, <1>3, <1>4, ShapeReplace DEF CloseLabels, NotifyPc, QuietPc
<1>6. CpuInv' /\ stack' = Replace(r)
  BY <1>1, <1>2, <1>5, TplFacts, RaiseInv
<1>7. /\ Members(Pop(stack)) \subseteq Frames
      /\ \A h \in Members(Pop(stack)) : h.pc \in CloseLabels => h.ev # e
  <2>1. /\ Members(Pop(stack)) \subseteq Frames
        /\ \A i \in 1..Len(Pop(stack)) : Above(Pop(stack)[i], Top)
    BY <1>1, BelowFacts
  <2> QED BY <1>1, <2>1 DEF Above, Members, CloseLabels
<1>8. e # mEfiCheckTimerEvent
  BY <1>1 DEF DataInv, CloseLabels
<1>9. NotifyInv' /\ ObjectsInv' /\ TimeInv'
  <2>1. ObjectsInv'
    BY <1>1, <1>2, <1>8 DEF ObjectsInv
  <2> QED BY <1>1, <1>2, <2>1, NotifyStable DEF TimeInv, timer
<1>10. DataInv'
  <2>1. \A d : Live(d) /\ d # e => Live(d)' /\ event'[d] = event[d]
    BY <1>1, <1>2 DEF Live, ObjectsInv
  <2>2. \A h \in Frames' : h.pc \in QuietPc \/ h \in Members(Pop(stack))
    BY <1>3, <1>5, <1>6 DEF Frames, QuietPc
  <2>3. \A h \in Frames' : h.pc \in CloseLabels => h \in Frames /\ h.ev # e
    BY <1>7, <2>2 DEF CloseLabels, QuietPc
  <2>4. \A h \in Frames' : h.pc \in LinkPc \cup {"wait"} => h \in Frames
    BY <1>7, <2>2 DEF LinkPc, QuietPc
  <2>5. \A d : Unclosed(d) => d # e /\ Unclosed(d)'
    BY <1>1, <2>1, <2>3 DEF Unclosed, CloseLabels
  <2>6. \A d : Armable(d) => Armable(d)'
    BY <2>1, <2>5 DEF Armable, Unclosed, IsType
  <2>7. \A h \in Frames' : h.pc \in CloseLabels => Live(h.ev)' /\ h.ev # mEfiCheckTimerEvent
    BY <1>1, <2>1, <2>3 DEF DataInv
  <2>8. \A d \in Members(gEventSignalQueue) :
          Live(d)' /\ \A h \in Frames' : h.pc \in {"closeUnregister", "closeFree"} => h.ev # d
    BY <1>1, <2>1, <2>3 DEF DataInv, CloseLabels
  <2>9. \A d \in Members(ProtNotify) : Live(d)' /\ \A h \in Frames' : h.pc = "closeFree" => h.ev # d
    BY <1>1, <2>1, <2>3 DEF DataInv, CloseLabels
  <2>10. \A d \in Members(mEfiTimerList) : Armable(d)'
    BY <1>1, <2>6 DEF DataInv
  <2>11. \A h \in Frames' : h.pc \in LinkPc => Armable(h.ev)' /\ h.ev \notin Members(mEfiTimerList)
    BY <1>1, <2>4, <2>6 DEF DataInv
  <2>12. \A h \in Frames' : h.pc = "wait" => \A d \in Members(WaitList) : Unclosed(d)'
    BY <1>1, <2>4, <2>5 DEF DataInv
  <2>13. /\ NoDuplicates(gEventSignalQueue) /\ NoDuplicates(mEfiTimerList)
         /\ UNCHANGED <<gEventSignalQueue, ProtNotify, mEfiTimerList>>
    BY <1>1, <1>2 DEF DataInv, timer
  <2> QED BY <2>7, <2>8, <2>9, <2>10, <2>11, <2>12, <2>13 DEF DataInv
<1> QED BY <1>6, <1>9, <1>10 DEF Inv

LEMMA RegisterProtocolNotifyInv ==
  ASSUME Inv, NEW e \in UserEvents, RegisterProtocolNotify(e)
  PROVE  Inv'
<1> DEFINE r == RestoreFrame(gEfiCurrentTpl)
<1>1. /\ CpuInv /\ NotifyInv /\ ObjectsInv /\ TimeInv /\ DataInv
      /\ Shape(stack, gEfiCurrentTpl) /\ gEfiCurrentTpl \in Tpl /\ stack \in Seq(FrameType)
      /\ e \in Events /\ Unclosed(e)
  BY MayFacts, TopFacts, UsableFacts DEF RegisterProtocolNotify, May, Inv, Events
<1>2. /\ ProtNotify' = InsertTailList(ProtNotify, e) /\ gEfiCurrentTpl <= EFI_TPL_NOTIFY
      /\ CoreRaiseTpl(EFI_TPL_NOTIFY, Append(stack, r))
      /\ UNCHANGED <<notify, event, gEventSignalQueue, timer, mEfiSystemTime>>
  BY DEF RegisterProtocolNotify
<1>3. r \in FrameType /\ r.pc = "test" /\ r.tpl = gEfiCurrentTpl
  <2>1. NoEvent \in Events \cup {NoEvent} /\ 0 \in Nat
    OBVIOUS
  <2> QED BY <1>1, <2>1, FrameTyped, LabelFacts DEF RestoreFrame
<1> HIDE DEF r
<1>4. FrameOK(r) /\ Resume(r, EFI_TPL_NOTIFY)
  BY <1>1, <1>2, <1>3, TplFacts DEF FrameOK, Resume, EvLabels, CheckPc, CloseLabels
<1>5. Shape(Append(stack, r), EFI_TPL_NOTIFY) /\ Members(Append(stack, r)) = Frames \cup {r}
  BY <1>1, <1>3, <1>4, PushQuiet, MembersAppend DEF QuietPc, Frames
<1>6. CpuInv' /\ stack' = Append(stack, r)
  BY <1>1, <1>2, <1>5, TplFacts, RaiseInv
<1>7. ProtNotify' \in Seq(Events) /\ Members(ProtNotify') = Members(ProtNotify) \cup {e}
  <2>1. ProtNotify \in Seq(Events)
    BY <1>1 DEF ObjectsInv
  <2>2. /\ InsertTailList(ProtNotify, e) \in Seq(Events)
        /\ Members(InsertTailList(ProtNotify, e)) = Members(ProtNotify) \cup {e}
    BY <1>1, <2>1, InsertTailProperties
  <2> QED BY <1>2, <2>2
<1>8. NotifyInv' /\ ObjectsInv' /\ TimeInv'
  BY <1>1, <1>2, <1>7, NotifyStable DEF ObjectsInv, TimeInv, timer
<1>9. DataInv'
  <2>1. \A d : Live(d)' <=> Live(d)
    BY <1>2 DEF Live
  <2>2. \A h \in Frames' : h.pc \in CloseLabels \cup LinkPc \cup {"wait"} => h \in Frames
    BY <1>3, <1>5, <1>6 DEF Frames, CloseLabels, LinkPc
  <2>3. \A d : Unclosed(d) => Unclosed(d)'
    BY <2>1, <2>2 DEF Unclosed
  <2>4. \A d : Armable(d) => Armable(d)'
    BY <1>2, <2>3 DEF Armable, IsType
  <2>5. \A h \in Frames' : h.pc \in CloseLabels => Live(h.ev)' /\ h.ev # mEfiCheckTimerEvent
    BY <1>1, <2>1, <2>2 DEF DataInv
  <2>6. \A d \in Members(gEventSignalQueue) :
          Live(d)' /\ \A h \in Frames' : h.pc \in {"closeUnregister", "closeFree"} => h.ev # d
    BY <1>1, <2>1, <2>2 DEF DataInv, CloseLabels
  <2>7. \A d \in Members(ProtNotify') : Live(d)' /\ \A h \in Frames' : h.pc = "closeFree" => h.ev # d
    BY <1>1, <1>7, <2>1, <2>2 DEF DataInv, CloseLabels, Unclosed
  <2>8. \A d \in Members(mEfiTimerList) : Armable(d)'
    BY <1>1, <2>4 DEF DataInv
  <2>9. \A h \in Frames' : h.pc \in LinkPc => Armable(h.ev)' /\ h.ev \notin Members(mEfiTimerList)
    BY <1>1, <2>2, <2>4 DEF DataInv
  <2>10. \A h \in Frames' : h.pc = "wait" => \A d \in Members(WaitList) : Unclosed(d)'
    BY <1>1, <2>2, <2>3 DEF DataInv
  <2>11. /\ NoDuplicates(gEventSignalQueue) /\ NoDuplicates(mEfiTimerList)
         /\ UNCHANGED <<gEventSignalQueue, mEfiTimerList>>
    BY <1>1, <1>2 DEF DataInv, timer
  <2> QED BY <2>5, <2>6, <2>7, <2>8, <2>9, <2>10, <2>11 DEF DataInv
<1> QED BY <1>6, <1>8, <1>9 DEF Inv

-----------------------------------------------------------------------------
(* The invariant and what it shows.                                        *)

LEMMA InitInv ==
  ASSUME Init
  PROVE  Inv
<1> DEFINE f == Frame("app", EFI_TPL_APPLICATION, NoEvent, 0)
<1>1. f \in FrameType /\ f.pc = "app" /\ f.tpl = EFI_TPL_APPLICATION
  <2>1. NoEvent \in Events \cup {NoEvent} /\ 0 \in Nat /\ EFI_TPL_APPLICATION \in Tpl
    BY TplFacts
  <2> QED BY <2>1, FrameTyped, LabelFacts
<1>2. stack = <<f>> /\ gEfiCurrentTpl = EFI_TPL_APPLICATION /\ InterruptState = TRUE
  BY DEF Init
<1> HIDE DEF f
<1>3. FrameOK(f) /\ Resume(f, EFI_TPL_APPLICATION)
  BY <1>1, TplFacts DEF FrameOK, Resume, EvLabels, CheckPc, CloseLabels
<1>4. Shape(stack, EFI_TPL_APPLICATION)
  BY <1>1, <1>2, <1>3 DEF Shape
<1>5. CpuInv
  <2>1. (EFI_TPL_APPLICATION < EFI_TPL_HIGH_LEVEL) = TRUE
    BY DEF EFI_TPL_APPLICATION, EFI_TPL_HIGH_LEVEL
  <2>2. InterruptsBelowHigh
    BY <1>2, <2>1 DEF InterruptsBelowHigh
  <2> QED BY <1>2, <1>4, <2>2, TplFacts DEF CpuInv
<1>6. mEfiCheckTimerEvent \in Events /\ CheckTimerClass \in Class /\ CheckTimerClass # Free
  BY EventAssumption DEF Events, CheckTimerClass, Class, Flags, EFI_TPL_HIGH_LEVEL
<1>7. NotifyInv
  <2>1. /\ gEventQueue = [t \in Tpl |-> <<>>] /\ gEventPending = {}
        /\ SignalCount = [e \in Events |-> 0]
    BY DEF Init
  <2>2. \A t \in Tpl : gEventQueue[t] = <<>> /\ Members(gEventQueue[t]) = {}
    BY <2>1 DEF Members
  <2> QED BY <2>1, <2>2 DEF NotifyInv, QueuedIsPending, CheckTimerQueued
<1>8. ObjectsInv
  BY <1>6 DEF Init, ObjectsInv
<1>9. TimeInv
  BY TimeAssumption DEF Init, TimeInv
<1>10. DataInv
  <2>1. Frames = {f}
    BY <1>2 DEF Frames, Members
  <2>2. /\ gEventSignalQueue = <<mEfiCheckTimerEvent>> /\ ProtNotify = <<>> /\ mEfiTimerList = <<>>
    BY DEF Init
  <2>3. /\ Members(gEventSignalQueue) = {mEfiCheckTimerEvent}
        /\ Members(ProtNotify) = {} /\ Members(mEfiTimerList) = {}
        /\ NoDuplicates(gEventSignalQueue) /\ NoDuplicates(mEfiTimerList)
    BY <2>2 DEF Members, NoDuplicates
  <2>4. Live(mEfiCheckTimerEvent)
    BY <1>8, CheckTimerLive
  <2> QED BY <1>1, <2>1, <2>3, <2>4 DEF DataInv, CloseLabels, LinkPc
<1> QED BY <1>5, <1>7, <1>8, <1>9, <1>10 DEF Inv

LEMMA CoreStepInv ==
  ASSUME Inv, CoreStep
  PROVE  Inv'
BY RestoreTestInv, RestoreLowerInv, DispatchInv, CallInv, SignalGroupInv, NotifyListInv,
   RelockInv, WaitTurnInv, CheckEventEndInv, CloseLockInv, CloseUnregisterInv, CloseFreeInv,
   NotifyEntryInv, SetTriggerTimeInv, InsertTimerInv, TimerUnlockInv, CheckTimersInv,
   CheckLoopInv, RearmInv, ReinsertInv DEF CoreStep

LEMMA ServiceCallInv ==
  ASSUME Inv, ServiceCall
  PROVE  Inv'
<1>1. 0 \in 0..(TimeModulus - 1) /\ \A d \in Delays : d \in 0..(TimeModulus - 1)
  BY TimeAssumption
<1>2. ASSUME NEW e \in UserEvents, NEW type, NEW delay \in Delays \cup {0}, SetTimer(e, type, delay)
      PROVE  Inv'
  BY <1>1, <1>2, SetTimerInv
<1> QED BY <1>2, RaiseTPLInv, WaitForEventInv, InstallProtocolInterfaceInv, SignalEventInv,
           CheckEventStepInv, CloseEventInv, RegisterProtocolNotifyInv, CreateEventInv
        DEF ServiceCall

LEMMA StutterInv ==
  ASSUME Inv, UNCHANGED vars
  PROVE  Inv'
<1>1. UNCHANGED <<gEfiCurrentTpl, InterruptState, stack, notify, objects, timer, mEfiSystemTime>>
  BY DEF vars, cpu, notify, objects, timer
<1>2. CpuInv'
  BY <1>1, StackOnly DEF Inv, CpuInv
<1>3. Keeps(Members(stack'))
  BY <1>1, KeepsPlain DEF Frames
<1> QED BY <1>1, <1>2, <1>3, NotifyStable, PlainStep DEF Inv

\* Every state of every instance satisfies the inductive invariant.
THEOREM Invariance == Spec => []Inv
<1>1. Init => Inv
  BY InitInv
<1>2. Inv /\ [Next]_vars => Inv'
  BY CoreStepInv, ServiceCallInv, NotifyReturnInv, RestoreTPLInv, TimerInterruptInv, StutterInv
     DEF Next, Return
<1> QED BY <1>1, <1>2, PTL DEF Spec

\* Type correctness: every variable stays in its type; in particular a
\* priority is always a legal one and a signal count never exceeds one.
THEOREM TypeCorrect == Spec => []TypeOK
<1>1. Inv => TypeOK
  <2>1. 0..(EFI_TPL_HIGH_LEVEL - 1) \subseteq Tpl
    BY DEF Tpl, EFI_TPL_HIGH_LEVEL
  <2> QED BY <2>1 DEF Inv, CpuInv, NotifyInv, ObjectsInv, TimeInv, Shape, TypeOK
<1> QED BY <1>1, Invariance, PTL

\* CoreRestoreTpl finds every queue that holds a notification.
THEOREM PendingBits == Spec => []QueuedIsPending
<1>1. Inv => QueuedIsPending
  BY DEF Inv, NotifyInv
<1> QED BY <1>1, Invariance, PTL

\* Interrupts are enabled exactly below HIGH_LEVEL.
THEOREM Interrupts == Spec => []InterruptsBelowHigh
<1>1. Inv => InterruptsBelowHigh
  BY DEF Inv, CpuInv
<1> QED BY <1>1, Invariance, PTL

\* Whatever preempts a caller, it goes on at the priority it had.
THEOREM TplRestored == Spec => []CallerTplRestored
<1>1. Inv => CallerTplRestored
  BY TopFacts DEF Inv, CallerTplRestored, At, Resume, EFI_TPL_APPLICATION
<1> QED BY <1>1, Invariance, PTL

\* Notification functions nest by strictly increasing priority.
THEOREM Nesting == Spec => []NotifyNesting
<1>1. Inv => NotifyNesting
  BY DEF Inv, CpuInv, Shape, Above, NotifyNesting
<1> QED BY <1>1, Invariance, PTL

\* mEfiTimerLock is never acquired while it is owned, at any depth of
\* preemption: the ASSERT of CoreAcquireLock cannot fire.
THEOREM TimerLock == Spec => []TimerLockOwnedOnce
<1>1. ASSUME Inv PROVE TimerLockOwnedOnce
  <2>1. Len(stack) \in Nat /\ \A i, j \in 1..Len(stack) : i < j => Above(stack[i], stack[j])
    BY <1>1, TopFacts DEF Inv, CpuInv, Shape
  <2>2. \A i, j \in 1..Len(stack) :
          i < j => ~(stack[i].pc \in Holders /\ stack[j].pc \in Holders)
    BY <2>1 DEF Above, QuietPc, Holders, TimerLockOwners
  <2>3. \A i, j \in 1..Len(stack) : i < j \/ j < i \/ i = j
    BY <2>1
  <2> QED BY <2>2, <2>3 DEF TimerLockOwnedOnce, Holders
<1> QED BY <1>1, Invariance, PTL
-----------------------------------------------------------------------------
(* Notifications.  Which event a frame has in its hands, and where it lies *)
(* in the stack.                                                           *)

Sig      == {"signalGroup", "notifyList"}
Unlinked == {"closeUnregister", "closeFree"}
Pinned   == {"call"} \cup Sig
Tracked  == Pinned \cup CloseLabels
TimerPc  == {"setTimer", "insertTimer", "checkLoop", "rearm", "reinsert"}

\* A function is called at its event's priority: t is the one that its frame is resumed at.
Follow(f, t) == f.pc = "call" => event[f.ev].tpl = t

\* Frame g may lie above frame f.
Over(f, g) ==
  /\ f.pc = "call" /\ g.pc = "notify" => event[f.ev].tpl < g.tpl
  /\ f.pc \in Pinned /\ g.pc \in CloseLabels => f.ev # g.ev

\* The stack s while the processor is at priority t.
Nest(s, t) ==
  /\ \A i \in 1..(Len(s) - 1) : s[i].pc # "notifyList" /\ Follow(s[i], s[i + 1].tpl)
  /\ s # <<>> => Follow(s[Len(s)], t)
  /\ \A i, j \in 1..Len(s) : i < j => Over(s[i], s[j])

LEMMA NestPop ==
  ASSUME NEW s \in Seq(FrameType), s # <<>>, NEW t, Nest(s, t)
  PROVE  /\ Nest(Pop(s), s[Len(s)].tpl)
         /\ Pop(s) # <<>> => Pop(s)[Len(Pop(s))].pc # "notifyList"
<1>1. Len(s) \in Nat /\ Len(s) >= 1
  OBVIOUS
<1>2. PICK p : p = Pop(s)
  OBVIOUS
<1>3. /\ p \in Seq(FrameType) /\ Len(p) = Len(s) - 1
      /\ \A i \in 1..(Len(s) - 1) : p[i] = s[i]
  BY <1>2, PopProperties
<1>4. p # <<>> => Len(p) \in 1..(Len(s) - 1) /\ Len(p) + 1 = Len(s)
  BY <1>1, <1>3
<1>5. /\ p # <<>> => p[Len(p)].pc # "notifyList" /\ Follow(p[Len(p)], s[Len(s)].tpl)
  BY <1>3, <1>4 DEF Nest
<1>6. \A i \in 1..(Len(p) - 1) : p[i].pc # "notifyList" /\ Follow(p[i], p[i + 1].tpl)
  <2> SUFFICES ASSUME NEW i \in 1..(Len(p) - 1)
               PROVE  p[i].pc # "notifyList" /\ Follow(p[i], p[i + 1].tpl)
    OBVIOUS
  <2>1. i \in 1..(Len(s) - 1) /\ i + 1 \in 1..(Len(s) - 1)
    BY <1>1, <1>3
  <2> QED BY <1>3, <2>1 DEF Nest
<1>7. \A i, j \in 1..Len(p) : i < j => Over(p[i], p[j])
  <2> SUFFICES ASSUME NEW i \in 1..Len(p), NEW j \in 1..Len(p), i < j
               PROVE  Over(p[i], p[j])
    OBVIOUS
  <2>1. i \in 1..(Len(s) - 1) /\ j \in 1..(Len(s) - 1) /\ i \in 1..Len(s) /\ j \in 1..Len(s)
    BY <1>1, <1>3
  <2> QED BY <1>3, <2>1 DEF Nest
<1> QED BY <1>2, <1>5, <1>6, <1>7 DEF Nest

LEMMA NestPush ==
  ASSUME NEW s \in Seq(FrameType), NEW g \in FrameType, NEW t, Nest(s, g.tpl),
         s # <<>> => s[Len(s)].pc # "notifyList", Follow(g, t),
         \A i \in 1..Len(s) : Over(s[i], g)
  PROVE  Nest(Append(s, g), t)
<1>1. PICK new : new = Append(s, g)
  OBVIOUS
<1>2. /\ new \in Seq(FrameType) /\ Len(new) = Len(s) + 1 /\ new # <<>> /\ Len(s) \in Nat
      /\ \A i \in 1..Len(s) : new[i] = s[i]
      /\ new[Len(s) + 1] = g
  BY <1>1
<1>3. ASSUME NEW i \in 1..(Len(new) - 1)
      PROVE  new[i].pc # "notifyList" /\ Follow(new[i], new[i + 1].tpl)
  <2>1. i \in 1..Len(s)
    BY <1>2
  <2>2. CASE i = Len(s)
    <3>1. s # <<>>
      BY <1>2, <2>1
    <3> QED BY <1>2, <2>1, <2>2, <3>1 DEF Nest
  <2>3. CASE i # Len(s)
    <3>1. i \in 1..(Len(s) - 1) /\ i + 1 \in 1..Len(s)
      BY <1>2, <2>1, <2>3
    <3> QED BY <1>2, <2>1, <3>1 DEF Nest
  <2> QED BY <2>2, <2>3
<1>4. ASSUME NEW i \in 1..Len(new), NEW j \in 1..Len(new), i < j
      PROVE  Over(new[i], new[j])
  <2>1. i \in 1..Len(s) /\ (j \in 1..Len(s) \/ j = Len(s) + 1)
    BY <1>2, <1>4
  <2> QED BY <1>2, <1>4, <2>1 DEF Nest
<1>5. Follow(new[Len(new)], t)
  BY <1>2
<1> QED BY <1>1, <1>2, <1>3, <1>4, <1>5 DEF Nest

\* s holds what the stack holds of the frames that work on an event for a notification.
Keep(s, t) ==
  /\ s \in Seq(FrameType)
  /\ Nest(stack, gEfiCurrentTpl) =>
       Nest(s, t) /\ (s # <<>> => s[Len(s)].pc # "notifyList")
  /\ \A f \in FrameType : f.pc \in Tracked => (f \in Members(s) <=> f \in Frames)

\* s holds no frame of a timer service that the stack does not hold.
Tidy(s) == \A f \in Members(s) : f.pc \in TimerPc => f \in Frames

LEMMA TopLast ==
  ASSUME CpuInv
  PROVE  /\ stack = Append(Pop(stack), Top) /\ Frames = Members(Pop(stack)) \cup {Top}
         /\ Pop(stack) \in Seq(FrameType) /\ Top \in FrameType /\ Top.tpl \in Tpl
         /\ stack \in Seq(FrameType) /\ stack # <<>>
<1>1. /\ stack \in Seq(FrameType) /\ stack # <<>> /\ Top \in FrameType /\ Top.tpl \in Tpl
      /\ Len(stack) \in Nat /\ Len(stack) >= 1
  BY TopFacts
<1>2. /\ Pop(stack) \in Seq(FrameType) /\ Len(Pop(stack)) = Len(stack) - 1
      /\ \A i \in 1..(Len(stack) - 1) : Pop(stack)[i] = stack[i]
  BY <1>1, PopProperties
<1>3. stack = Append(Pop(stack), Top)
  <2>1. PICK p : p = Pop(stack)
    OBVIOUS
  <2>2. /\ Append(p, Top) \in Seq(FrameType) /\ Len(Append(p, Top)) = Len(stack)
        /\ \A i \in 1..Len(stack) : Append(p, Top)[i] = stack[i]
    BY <1>1, <1>2, <2>1 DEF Top
  <2> QED BY <1>1, <2>1, <2>2
<1>4. Members(stack) = Members(Pop(stack)) \cup {Top}
  <2>1. PICK p : p = Pop(stack)
    OBVIOUS
  <2>2. PICK f : f = Top
    OBVIOUS
  <2>3. p \in Seq(FrameType) /\ f \in FrameType /\ stack = Append(p, f)
    BY <1>1, <1>2, <1>3, <2>1, <2>2
  <2>4. Members(Append(p, f)) = Members(p) \cup {f}
    BY <2>3, MembersAppend
  <2> QED BY <2>1, <2>2, <2>3, <2>4
<1> QED BY <1>1, <1>2, <1>3, <1>4 DEF Frames

LEMMA KeepStack ==
  ASSUME CpuInv
  PROVE  /\ Top.pc # "notifyList" => Keep(stack, gEfiCurrentTpl)
         /\ Tidy(stack)
BY TopLast DEF Keep, Tidy, Frames, Top

LEMMA KeepPop ==
  ASSUME CpuInv
  PROVE  /\ Top.pc \notin Tracked => Keep(Pop(stack), Top.tpl)
         /\ Tidy(Pop(stack))
<1>1. Nest(stack, gEfiCurrentTpl) =>
        /\ Nest(Pop(stack), Top.tpl)
        /\ Pop(stack) # <<>> => Pop(stack)[Len(Pop(stack))].pc # "notifyList"
  BY TopLast, NestPop DEF Top
<1> QED BY <1>1, TopLast DEF Keep, Tidy

LEMMA KeepPush ==
  ASSUME NEW s, NEW g \in FrameType, Keep(s, g.tpl), g.pc \notin Tracked \cup {"notify"}, NEW t
  PROVE  Keep(Append(s, g), t) /\ (Tidy(s) /\ g.pc \notin TimerPc => Tidy(Append(s, g)))
<1>1. s \in Seq(FrameType)
  BY DEF Keep
<1>2. Members(Append(s, g)) = Members(s) \cup {g} /\ Append(s, g) \in Seq(FrameType)
  BY <1>1, MembersAppend
<1>3. ASSUME Nest(stack, gEfiCurrentTpl) PROVE Nest(Append(s, g), t)
  <2>1. Follow(g, t) /\ \A i \in 1..Len(s) : Over(s[i], g)
    BY DEF Follow, Over, Tracked, Pinned
  <2> QED BY <1>1, <1>3, <2>1, NestPush DEF Keep
<1>4. PICK new : new = Append(s, g)
  OBVIOUS
<1>5. new[Len(new)] = g
  BY <1>1, <1>4
<1>6. new[Len(new)].pc # "notifyList"
  BY <1>5 DEF Tracked, Pinned, Sig
<1> QED BY <1>1, <1>2, <1>3, <1>4, <1>6 DEF Keep, Tidy

\* The frame that runs is replaced.
LEMMA KeepReplace ==
  ASSUME CpuInv, NEW g \in FrameType, g.tpl = Top.tpl,
         Top.pc \notin Tracked, g.pc \notin Tracked \cup {"notify"}, NEW t
  PROVE  Keep(Replace(g), t) /\ (g.pc \notin TimerPc => Tidy(Replace(g)))
BY KeepPop, KeepPush DEF Replace

LEMMA RestoreTyped ==
  ASSUME NEW t \in Tpl
  PROVE  /\ RestoreFrame(t) \in FrameType /\ RestoreFrame(t).pc = "test" /\ RestoreFrame(t).tpl = t
         /\ "test" \notin Tracked \cup TimerPc \cup {"notify"}
<1>1. NoEvent \in Events \cup {NoEvent} /\ 0 \in Nat
  OBVIOUS
<1> QED BY <1>1, FrameTyped, LabelFacts
        DEF RestoreFrame, Tracked, Pinned, Sig, CloseLabels, TimerPc

\* The event lock is taken and released.
LEMMA KeepLock ==
  ASSUME CpuInv, NEW s, Keep(s, gEfiCurrentTpl), WithEventLock(s)
  PROVE  Keep(stack', gEfiCurrentTpl') /\ (Tidy(s) => Tidy(stack'))
<1>1. gEfiCurrentTpl \in Tpl
  BY DEF CpuInv
<1>2. PICK g \in FrameType : g = RestoreFrame(gEfiCurrentTpl)
  BY <1>1, RestoreTyped
<1>3. g.pc = "test" /\ g.tpl = gEfiCurrentTpl /\ g.pc \notin Tracked \cup TimerPc \cup {"notify"}
  BY <1>1, <1>2, RestoreTyped
<1> QED BY <1>2, <1>3, KeepPush DEF WithEventLock

\* Labels of frames that are not tracked.
OtherPc == Labels \ (Tracked \cup {"notify"})

LEMMA PcFacts ==
  /\ {"test", "dispatch", "lower", "relock", "checkEvent", "wait", "raised", "notifyEntry",
      "timerUnlock", "checkTimers"} \subseteq OtherPc \ TimerPc
  /\ TimerPc \subseteq OtherPc
  /\ {"app", "notify"} \cap (Tracked \cup TimerPc) = {}
  /\ OtherPc \subseteq Labels
BY DEF OtherPc, Labels, Tracked, Pinned, Sig, CloseLabels, TimerPc

\* A frame that changes in place keeps its type and what it saved.
LEMMA Edited ==
  ASSUME NEW f \in FrameType, NEW pc \in Labels, NEW ev \in Events \cup {NoEvent}, NEW n \in Nat
  PROVE  /\ LET g == [f EXCEPT !.pc = pc]
            IN  g \in FrameType /\ g.pc = pc /\ g.tpl = f.tpl /\ g.ev = f.ev /\ g.n = f.n
         /\ LET g == [f EXCEPT !.n = n]
            IN  g \in FrameType /\ g.pc = f.pc /\ g.tpl = f.tpl /\ g.ev = f.ev /\ g.n = n
         /\ LET g == [f EXCEPT !.pc = pc, !.ev = ev]
            IN  g \in FrameType /\ g.pc = pc /\ g.tpl = f.tpl /\ g.ev = ev /\ g.n = f.n
         /\ LET g == [f EXCEPT !.pc = pc, !.n = n]
            IN  g \in FrameType /\ g.pc = pc /\ g.tpl = f.tpl /\ g.ev = f.ev /\ g.n = n
BY DEF FrameType

LEMMA GoTyped ==
  ASSUME CpuInv, NEW pc \in Labels
  PROVE  \E g \in FrameType : /\ Go(pc) = Replace(g)
                              /\ g.pc = pc /\ g.tpl = Top.tpl /\ g.ev = Top.ev /\ g.n = Top.n
<1>1. PICK f \in FrameType : f = Top
  BY TopLast
<1>2. PICK g \in FrameType : g = [f EXCEPT !.pc = pc]
  BY Edited, LabelFacts DEF FrameType
<1>3. g.pc = pc /\ g.tpl = f.tpl /\ g.ev = f.ev /\ g.n = f.n
  BY <1>2 DEF FrameType
<1> QED BY <1>1, <1>2, <1>3 DEF Go

LEMMA KeepGo ==
  ASSUME CpuInv, Top.pc \notin Tracked, NEW pc \in OtherPc, NEW t
  PROVE  Keep(Go(pc), t) /\ (pc \notin TimerPc => Tidy(Go(pc)))
<1>1. PICK g \in FrameType : Go(pc) = Replace(g) /\ g.pc = pc /\ g.tpl = Top.tpl
  BY GoTyped, PcFacts
<1> QED BY <1>1, KeepReplace DEF OtherPc

\* What a step that neither starts nor ends the work of a frame on an event leaves.
Moved == Keep(stack', gEfiCurrentTpl') /\ Tidy(stack')

LEMMA Restored ==
  ASSUME CpuInv, Top.pc \notin Tracked, NEW t \in Tpl, t = Top.tpl,
         stack' = Replace(RestoreFrame(t))
  PROVE  Moved
<1>1. PICK g \in FrameType : g = RestoreFrame(t)
  BY RestoreTyped
<1>2. g.pc = "test" /\ g.tpl = Top.tpl
  BY <1>1, RestoreTyped
<1> QED BY <1>1, <1>2, KeepReplace, PcFacts DEF Moved, OtherPc

\* A frame that saved the current priority is pushed.
LEMMA Pushed ==
  ASSUME CpuInv, NEW s, Keep(s, gEfiCurrentTpl), NEW pc \in OtherPc, NEW ev \in Events \cup {NoEvent},
         NEW n \in Nat, stack' = Append(s, Frame(pc, gEfiCurrentTpl, ev, n))
  PROVE  Keep(stack', gEfiCurrentTpl') /\ (Tidy(s) /\ pc \notin TimerPc => Tidy(stack'))
<1>1. gEfiCurrentTpl \in Tpl
  BY DEF CpuInv
<1>2. PICK g \in FrameType : g = Frame(pc, gEfiCurrentTpl, ev, n)
  BY <1>1, FrameTyped, PcFacts
<1>3. g.pc = pc /\ g.tpl = gEfiCurrentTpl
  BY <1>2, FrameTyped
<1> QED BY <1>2, <1>3, KeepPush DEF OtherPc

LEMMA RestoreTestMoved ==
  ASSUME CpuInv, RestoreTest
  PROVE  Moved
BY KeepGo, PcFacts DEF RestoreTest, At, Moved, OtherPc

LEMMA RestoreLowerMoved ==
  ASSUME CpuInv, RestoreLower
  PROVE  Moved
BY KeepPop, PcFacts DEF RestoreLower, At, Moved, OtherPc

LEMMA NotifyReturnMoved ==
  ASSUME CpuInv, NotifyReturn
  PROVE  Moved
<1>1. Top.pc = "notify" /\ gEfiCurrentTpl = Top.tpl
  BY TopFacts DEF NotifyReturn, At, Resume
<1> QED BY <1>1, KeepPop, PcFacts DEF NotifyReturn, Moved

LEMMA RestoreTPLMoved ==
  ASSUME CpuInv, RestoreTPL
  PROVE  Moved
BY Restored, TopLast, PcFacts DEF RestoreTPL, At, OtherPc

\* Code outside the core works on no event for a notification.
LEMMA MayKeep ==
  ASSUME CpuInv, NEW service, May(service)
  PROVE  /\ Keep(stack, gEfiCurrentTpl) /\ Tidy(stack)
         /\ Top.ev \in Events \cup {NoEvent} /\ gEfiCurrentTpl \in Tpl
<1>1. Top.pc # "notifyList"
  BY DEF May
<1> QED BY <1>1, KeepStack, TopFacts DEF CpuInv

LEMMA RaiseTPLMoved ==
  ASSUME CpuInv, NEW NewTpl, RaiseTPL(NewTpl)
  PROVE  Moved
<1>1. stack' = Append(stack, Frame("raised", gEfiCurrentTpl, Top.ev, 0))
  BY DEF RaiseTPL, CoreRaiseTpl
<1> QED BY <1>1, MayKeep, Pushed, PcFacts DEF RaiseTPL, Moved

LEMMA RelockMoved ==
  ASSUME CpuInv, Relock
  PROVE  Moved
<1>1. Top.pc = "relock" /\ gEfiCurrentTpl = Top.tpl
  BY TopFacts DEF Relock, At, Resume
<1>2. Keep(Pop(stack), gEfiCurrentTpl) /\ Tidy(Pop(stack))
  BY <1>1, KeepPop, PcFacts DEF OtherPc
<1> QED BY <1>2, KeepLock DEF Relock, Moved

LEMMA WaitForEventMoved ==
  ASSUME CpuInv, WaitForEvent
  PROVE  Moved
<1>1. stack' = Append(stack, Frame("wait", gEfiCurrentTpl, NoEvent, 1))
  BY DEF WaitForEvent
<1> QED BY <1>1, MayKeep, Pushed, PcFacts DEF WaitForEvent, Moved

LEMMA CheckKeeps ==
  ASSUME CpuInv, NEW e \in Events, NEW s, Keep(s, gEfiCurrentTpl), Tidy(s), CoreCheckEvent(e, s)
  PROVE  Moved
<1>1. gEfiCurrentTpl \in Tpl
  BY DEF CpuInv
<1>2. PICK g \in FrameType : g = Frame("checkEvent", gEfiCurrentTpl, e, 0)
  BY <1>1, FrameTyped, LabelFacts
<1>3. g.pc = "checkEvent" /\ g.tpl = gEfiCurrentTpl
  BY <1>2, FrameTyped
<1>4. \A t : Keep(Append(s, g), t) /\ Tidy(Append(s, g))
  BY <1>3, KeepPush, PcFacts DEF OtherPc
<1>5. WithEventLock(Append(s, g)) \/ stack' = Append(s, g)
  BY <1>2 DEF CoreCheckEvent
<1>6. PICK z : z = Append(s, g)
  OBVIOUS
<1> QED BY <1>4, <1>5, <1>6, KeepLock DEF Moved

LEMMA CheckEventMoved ==
  ASSUME CpuInv, NEW e \in UserEvents, CheckEvent(e)
  PROVE  Moved
BY MayKeep, CheckKeeps DEF CheckEvent, Events

LEMMA WaitTurnMoved ==
  ASSUME CpuInv, WaitTurn
  PROVE  Moved
<1>1. /\ Top.pc = "wait" /\ gEfiCurrentTpl = Top.tpl
      /\ Top.n \in 1..Len(WaitList)
  BY TopFacts DEF WaitTurn, At, Resume, FrameOK
<1>2. WaitList[Top.n] \in Events
  BY <1>1, CallAssumption DEF Events
<1>3. Top.pc # "notifyList" /\ Top.pc \notin Tracked
  BY <1>1, PcFacts DEF OtherPc
<1>4. \/ stack' = Pop(stack) /\ gEfiCurrentTpl' = gEfiCurrentTpl
      \/ CoreCheckEvent(WaitList[Top.n], stack)
  BY DEF WaitTurn
<1>5. CASE stack' = Pop(stack) /\ gEfiCurrentTpl' = gEfiCurrentTpl
  BY <1>1, <1>3, <1>5, KeepPop DEF Moved
<1>6. CASE CoreCheckEvent(WaitList[Top.n], stack)
  BY <1>2, <1>3, <1>6, KeepStack, CheckKeeps
<1> QED BY <1>4, <1>5, <1>6

\* The second frame of the stack is dropped as well.
LEMMA KeepDrop ==
  ASSUME NEW s, NEW t, Keep(s, t), Tidy(s), s # <<>>, s[Len(s)].pc \notin Tracked
  PROVE  /\ Keep(Pop(s), s[Len(s)].tpl) /\ Tidy(Pop(s))
<1>1. s \in Seq(FrameType)
  BY DEF Keep
<1>2. PICK p : p = Pop(s)
  OBVIOUS
<1>3. /\ p \in Seq(FrameType) /\ Len(p) = Len(s) - 1 /\ Len(s) \in Nat /\ Len(s) >= 1
      /\ \A i \in 1..(Len(s) - 1) : p[i] = s[i]
      /\ Members(p) \subseteq Members(s)
  BY <1>1, <1>2, PopProperties
<1>4. \A f \in Members(s) : f \in Members(p) \/ f = s[Len(s)]
  <2> SUFFICES ASSUME NEW i \in 1..Len(s) PROVE s[i] \in Members(p) \/ s[i] = s[Len(s)]
    BY DEF Members
  <2>1. i = Len(s) \/ (i \in 1..(Len(s) - 1) /\ i \in 1..Len(p))
    BY <1>3
  <2>2. CASE i \in 1..(Len(s) - 1) /\ i \in 1..Len(p)
    BY <1>3, <2>2 DEF Members
  <2> QED BY <2>1, <2>2
<1>5. Nest(s, t) => Nest(p, s[Len(s)].tpl) /\ (p # <<>> => p[Len(p)].pc # "notifyList")
  BY <1>1, <1>2, NestPop
<1> QED BY <1>2, <1>3, <1>4, <1>5 DEF Keep, Tidy

LEMMA CheckEventEndMoved ==
  ASSUME CpuInv, CheckEventEnd
  PROVE  Moved
<1>1. Top.pc = "checkEvent" /\ gEfiCurrentTpl = Top.tpl /\ gEfiCurrentTpl \in Tpl
  BY TopFacts DEF CheckEventEnd, At, Resume, CpuInv
<1>2. PICK s : s = Pop(stack)
  OBVIOUS
<1>3. Keep(s, gEfiCurrentTpl) /\ Tidy(s) /\ s \in Seq(FrameType) /\ Shape(s, gEfiCurrentTpl)
  BY <1>1, <1>2, KeepPop, TopLast, BelowFacts, PcFacts DEF OtherPc
<1>4. PICK caller \in FrameType : caller = s[Len(s)]
  <2>1. s # <<>> /\ Len(s) \in Nat /\ Len(s) >= 1
    BY <1>3 DEF Shape
  <2> QED BY <1>3, <2>1
<1>5. ASSUME caller.pc = "wait"
      PROVE  /\ Keep(Pop(s), gEfiCurrentTpl) /\ Tidy(Pop(s)) /\ caller.tpl = gEfiCurrentTpl
             /\ caller.n \in Nat /\ caller.n % Len(WaitList) \in Nat
  <2>1. s # <<>> /\ Len(s) \in 1..Len(s) /\ Resume(caller, gEfiCurrentTpl) /\ FrameOK(caller)
    <3>1. Len(s) \in Nat /\ Len(s) >= 1
      BY <1>3 DEF Shape
    <3> QED BY <1>3, <1>4, <3>1 DEF Shape
  <2>2. caller.tpl = gEfiCurrentTpl
    BY <1>5, <2>1 DEF Resume
  <2>3. caller.n \in Nat /\ caller.n >= 1 /\ caller.n <= Len(WaitList) /\ Len(WaitList) \in Nat
    BY <1>5, <2>1, CallAssumption DEF FrameOK, FrameType
  <2>4. caller.n % Len(WaitList) \in Nat
    BY <2>3
  <2> QED BY <1>3, <1>4, <1>5, <2>1, <2>2, <2>3, <2>4, KeepDrop, PcFacts DEF OtherPc
<1>6. CASE WithEventLock(IF caller.pc = "wait" THEN Pop(s) ELSE s)
  <2>1. PICK z : WithEventLock(z) /\ Keep(z, gEfiCurrentTpl) /\ Tidy(z)
    BY <1>3, <1>5, <1>6
  <2> QED BY <2>1, KeepLock DEF Moved
<1>7. CASE /\ stack' = IF caller.pc = "wait"
                       THEN Append(Pop(s), [caller EXCEPT !.n = (caller.n % Len(WaitList)) + 1])
                       ELSE s
           /\ gEfiCurrentTpl' = gEfiCurrentTpl
  <2>1. CASE caller.pc = "wait"
    <3>1. (caller.n % Len(WaitList)) + 1 \in Nat
      BY <1>5, <2>1
    <3>2. PICK g \in FrameType : g = [caller EXCEPT !.n = (caller.n % Len(WaitList)) + 1]
      <4>1. PICK n \in Nat : n = (caller.n % Len(WaitList)) + 1
        BY <3>1
      <4>2. [caller EXCEPT !.n = n] \in FrameType
        BY Edited, LabelFacts DEF FrameType
      <4> QED BY <4>1, <4>2
    <3>3. g.pc = "wait" /\ g.tpl = gEfiCurrentTpl
      BY <1>5, <2>1, <3>2 DEF FrameType
    <3>4. Keep(Append(Pop(s), g), gEfiCurrentTpl') /\ Tidy(Append(Pop(s), g))
      BY <1>5, <2>1, <3>3, KeepPush, PcFacts DEF OtherPc
    <3> QED BY <1>7, <2>1, <3>2, <3>4 DEF Moved
  <2>2. CASE caller.pc # "wait"
    BY <1>3, <1>7, <2>2 DEF Moved
  <2> QED BY <2>1, <2>2
<1> QED BY <1>2, <1>4, <1>6, <1>7 DEF CheckEventEnd

LEMMA CreateEventMoved ==
  ASSUME CpuInv, NEW e, NEW c, CreateEvent(e, c)
  PROVE  Moved
BY MayKeep, KeepLock DEF CreateEvent, Moved

LEMMA RegisterMoved ==
  ASSUME CpuInv, NEW e, RegisterProtocolNotify(e)
  PROVE  Moved
<1>1. stack' = Append(stack, Frame("test", gEfiCurrentTpl, NoEvent, 0))
  BY DEF RegisterProtocolNotify, CoreRaiseTpl, RestoreFrame
<1> QED BY <1>1, MayKeep, Pushed, PcFacts DEF RegisterProtocolNotify, Moved

LEMMA InstallMoved ==
  ASSUME CpuInv, InstallProtocolInterface
  PROVE  Moved
<1>1. stack' = Append(stack, Frame("notifyEntry", gEfiCurrentTpl, NoEvent, 1))
  BY DEF InstallProtocolInterface, CoreRaiseTpl
<1> QED BY <1>1, MayKeep, Pushed, PcFacts DEF InstallProtocolInterface, Moved

LEMMA TimerUnlockMoved ==
  ASSUME CpuInv, TimerUnlock
  PROVE  Moved
BY Restored, TopLast, PcFacts DEF TimerUnlock, At, OtherPc

\* Events are created with the classes that callers use.
ClassesInv == \A e \in Events : Live(e) => event[e] \in EventClasses \cup {CheckTimerClass}

\* Nobody has taken the event off the lists to free it.
Linked(e) == \A f \in Frames : f.pc \in Unlinked => f.ev # e

QueuesInv ==
  \A t \in Tpl :
    /\ NoDuplicates(gEventQueue[t])
    /\ \A e \in Members(gEventQueue[t]) : Live(e) /\ event[e].tpl = t /\ Linked(e)

\* A frame that is about to call or to notify a group keeps its event from being freed.
CallsInv ==
  \A f \in Frames :
    /\ f.pc \in Pinned => Live(f.ev)
    /\ f.pc \in Sig => event[f.ev].group # NoGroup

Handled(e) == InQueue(e) \/ \E f \in Frames : f.pc \in Sig \cup CloseLabels /\ f.ev = e

\* A signalled event is queued or in somebody's hands, an event that is not being freed is
\* found by a walk over gEventSignalQueue, and the walk has queued what it has passed.
SignalsInv ==
  /\ \A e \in Events : Live(e) /\ IsType(e, "SIGNAL") =>
       /\ e \in Members(gEventSignalQueue) \/ ~Linked(e)
       /\ SignalCount[e] = 1 => Handled(e)
  /\ At("notifyList") => \A i \in 1..Len(gEventSignalQueue) :
       i < Top.n /\ event[gEventSignalQueue[i]].group = event[Top.ev].group
         => InQueue(gEventSignalQueue[i])

NotificationsInv ==
  Nest(stack, gEfiCurrentTpl) /\ ClassesInv /\ QueuesInv /\ CallsInv /\ SignalsInv

\* Nobody changes an event that is about to be called.
LEMMA NestNext ==
  ASSUME stack' \in Seq(FrameType), Nest(stack', gEfiCurrentTpl'),
         \A f \in Members(stack') : f.pc = "call" => event'[f.ev] = event[f.ev]
  PROVE  Nest(stack, gEfiCurrentTpl)'
<1>1. \A i \in 1..Len(stack') : stack'[i].pc = "call" => event'[stack'[i].ev] = event[stack'[i].ev]
  BY DEF Members
<1>2. Len(stack') \in Nat /\ (stack' # <<>> => Len(stack') \in 1..Len(stack'))
  OBVIOUS
<1>3. (\A i \in 1..(Len(stack) - 1) : stack[i].pc # "notifyList" /\ Follow(stack[i], stack[i + 1].tpl))'
  <2>1. \A i \in 1..(Len(stack') - 1) : i \in 1..Len(stack')
    BY <1>2
  <2> QED BY <1>1, <2>1 DEF Nest, Follow
<1>4. (stack # <<>> => Follow(stack[Len(stack)], gEfiCurrentTpl))'
  BY <1>1, <1>2 DEF Nest, Follow
<1>5. (\A i, j \in 1..Len(stack) : i < j => Over(stack[i], stack[j]))'
  BY <1>1 DEF Nest, Over
<1> QED BY <1>3, <1>4, <1>5 DEF Nest

\* A notification is queued once, on the queue of its priority.
LEMMA NotifiedQueues ==
  ASSUME Inv, QueuesInv, NEW e \in Events, Live(e), CoreNotifyEvent(e)
  PROVE  \A t \in Tpl :
           /\ NoDuplicates(gEventQueue'[t])
           /\ Members(gEventQueue'[t]) =
                Members(gEventQueue[t]) \cup (IF t = event[e].tpl THEN {e} ELSE {})
<1> DEFINE u    == event[e].tpl
           rest == RemoveEntryList(gEventQueue[u], e)
<1>1. u \in Tpl /\ gEventQueue[u] \in Seq(Events) /\ gEventQueue \in [Tpl -> Seq(Events)]
  BY LiveTpl DEF Inv, NotifyInv
<1>2. NoDuplicates(gEventQueue[u])
  BY <1>1 DEF QueuesInv
<1>3. /\ rest \in Seq(Events) /\ NoDuplicates(rest) /\ e \notin Members(rest)
      /\ Members(rest) \subseteq Members(gEventQueue[u])
      /\ Members(gEventQueue[u]) \subseteq Members(rest) \cup {e}
  BY <1>1, <1>2, RemoveEntryProperties
<1>4. gEventQueue' = [gEventQueue EXCEPT ![u] = InsertTailList(rest, e)]
  BY DEF CoreNotifyEvent
<1> HIDE DEF u, rest
<1>5. /\ NoDuplicates(InsertTailList(rest, e))
      /\ Members(InsertTailList(rest, e)) = Members(gEventQueue[u]) \cup {e}
  <2>1. /\ NoDuplicates(InsertTailList(rest, e))
        /\ Members(InsertTailList(rest, e)) = Members(rest) \cup {e}
    BY <1>3, InsertTailProperties
  <2> QED BY <1>3, <2>1
<1>6. ASSUME NEW t \in Tpl
      PROVE  /\ NoDuplicates(gEventQueue'[t])
             /\ Members(gEventQueue'[t]) = Members(gEventQueue[t]) \cup (IF t = u THEN {e} ELSE {})
  <2>1. CASE t = u
    BY <1>1, <1>4, <1>5, <2>1
  <2>2. CASE t # u
    BY <1>1, <1>4, <2>2 DEF QueuesInv
  <2> QED BY <2>1, <2>2
<1> QED BY <1>6 DEF u

\* The queues only hold what they held and the event e.
QueuedOnly(e) ==
  \A t \in Tpl :
    /\ NoDuplicates(gEventQueue'[t])
    /\ Members(gEventQueue'[t]) \subseteq
         Members(gEventQueue[t]) \cup (IF t = event[e].tpl THEN {e} ELSE {})

Tracks == \A f \in FrameType : f.pc \in Tracked => (f \in Frames' <=> f \in Frames)

LEMMA TracksFacts ==
  ASSUME Keep(stack', gEfiCurrentTpl')
  PROVE  Tracks /\ stack' \in Seq(FrameType) /\ Frames' \subseteq FrameType
<1>1. stack' \in Seq(FrameType) /\ Frames' = Members(stack')
  BY DEF Keep, Frames
<1>2. \A i \in 1..Len(stack') : stack'[i] \in FrameType
  BY <1>1
<1> QED BY <1>1, <1>2 DEF Keep, Tracks, Members

LEMMA FramesTyped ==
  ASSUME CpuInv
  PROVE  Frames \subseteq FrameType
BY TopFacts DEF Frames, Members

\* A step that leaves the events and the frames that work on them alone.
LEMMA StepKeeps ==
  ASSUME Inv, CpuInv', NotificationsInv, Keep(stack', gEfiCurrentTpl'),
         UNCHANGED <<event, gEventSignalQueue>>,
         NEW e \in Events, Live(e), Linked(e), QueuedOnly(e) \/ UNCHANGED gEventQueue,
         \A x \in Events : InQueue(x) => InQueue(x)',
         \A x \in Events : Live(x) /\ IsType(x, "SIGNAL") /\ SignalCount'[x] = 1 =>
            SignalCount[x] = 1 \/ InQueue(x)'
  PROVE  NotificationsInv'
<1>1. Tracks /\ stack' \in Seq(FrameType) /\ Frames' \subseteq FrameType /\ Frames \subseteq FrameType
  BY TracksFacts, FramesTyped DEF Inv
<1>2. \A x : Linked(x) <=> Linked(x)'
  BY <1>1 DEF Linked, Tracks, Tracked, CloseLabels, Unlinked
<1>3. Nest(stack, gEfiCurrentTpl)'
  <2>1. Nest(stack', gEfiCurrentTpl')
    BY DEF Keep, NotificationsInv
  <2> QED BY <1>1, <2>1, NestNext
<1>4. ClassesInv'
  BY DEF NotificationsInv, ClassesInv, Live
<1>5. QueuesInv'
  BY <1>2 DEF NotificationsInv, QueuesInv, QueuedOnly, Live
<1>6. CallsInv'
  BY <1>1 DEF NotificationsInv, CallsInv, Tracks, Tracked, Pinned, Live
<1>7. ASSUME NEW x \in Events, Live(x), IsType(x, "SIGNAL")
      PROVE  /\ x \in Members(gEventSignalQueue) \/ ~Linked(x)'
             /\ SignalCount'[x] = 1 => Handled(x)'
  <2>1. Handled(x) => Handled(x)'
    BY <1>1 DEF Handled, Tracks, Tracked, Pinned
  <2> QED BY <1>2, <1>7, <2>1 DEF NotificationsInv, SignalsInv, Handled
<1>8. ~At("notifyList")'
  <2>1. stack' # <<>> => stack'[Len(stack')].pc # "notifyList"
    BY DEF Keep, NotificationsInv
  <2>2. stack' # <<>>
    BY DEF CpuInv, Shape
  <2> QED BY <2>1, <2>2 DEF At, Top
<1> QED BY <1>3, <1>4, <1>5, <1>6, <1>7, <1>8 DEF NotificationsInv, SignalsInv, Live, IsType

LEMMA NotifyFacts ==
  ASSUME Inv, QueuesInv, NEW e \in Events, Live(e), CoreNotifyEvent(e)
  PROVE  /\ QueuedOnly(e) /\ InQueue(e)'
         /\ \A x \in Events : InQueue(x) => InQueue(x)'
<1>1. \A t \in Tpl :
        /\ NoDuplicates(gEventQueue'[t])
        /\ Members(gEventQueue'[t]) =
             Members(gEventQueue[t]) \cup (IF t = event[e].tpl THEN {e} ELSE {})
  BY NotifiedQueues
<1>2. event[e].tpl \in Tpl
  BY LiveTpl DEF Inv
<1> QED BY <1>1, <1>2 DEF QueuedOnly, InQueue

LEMMA SameQueues ==
  UNCHANGED gEventQueue => \A x \in Events : InQueue(x) => InQueue(x)'
BY DEF InQueue

\* CoreSignalEvent queues the event or leaves a frame that will notify its group.
LEMMA SignalKeeps ==
  ASSUME Inv, CpuInv', NotificationsInv, NEW e \in Events, Live(e), Linked(e),
         NEW s, Keep(s, gEfiCurrentTpl), CoreSignalEvent(e, s), UNCHANGED objects
  PROVE  NotificationsInv'
<1>1. UNCHANGED <<event, gEventSignalQueue>> /\ SignalCount' = [SignalCount EXCEPT ![e] = 1]
  BY DEF objects, CoreSignalEvent
<1>2. /\ SignalCount \in [Events -> 0..1] /\ QueuesInv /\ CpuInv
  BY DEF Inv, NotifyInv, NotificationsInv
<1>3. \A x \in Events : SignalCount'[x] = 1 => x = e \/ SignalCount[x] = 1
  BY <1>1, <1>2
<1>4. CASE SignalCount[e] = 0 /\ IsType(e, "SIGNAL") /\ event[e].group = NoGroup
  <2>1. CoreNotifyEvent(e) /\ WithEventLock(s)
    BY <1>4 DEF CoreSignalEvent
  <2>2. QueuedOnly(e) /\ InQueue(e)' /\ \A x \in Events : InQueue(x) => InQueue(x)'
    BY <1>2, <2>1, NotifyFacts
  <2>3. Keep(stack', gEfiCurrentTpl')
    BY <1>2, <2>1, KeepLock
  <2> QED BY <1>1, <1>3, <2>2, <2>3, StepKeeps
<1>5. CASE SignalCount[e] # 0 \/ ~IsType(e, "SIGNAL")
  <2>1. UNCHANGED gEventQueue /\ WithEventLock(s)
    BY <1>5 DEF CoreSignalEvent
  <2>2. Keep(stack', gEfiCurrentTpl')
    BY <1>2, <2>1, KeepLock
  <2>3. \A x \in Events : Live(x) /\ IsType(x, "SIGNAL") /\ SignalCount'[x] = 1 => SignalCount[x] = 1
    BY <1>2, <1>3, <1>5
  <2> QED BY <1>1, <2>1, <2>2, <2>3, SameQueues, StepKeeps
<1>6. CASE SignalCount[e] = 0 /\ IsType(e, "SIGNAL") /\ event[e].group # NoGroup
  <2>1. UNCHANGED gEventQueue /\ WithEventLock(Append(s, Frame("signalGroup", gEfiCurrentTpl, e, 0)))
    BY <1>6 DEF CoreSignalEvent
  <2>2. gEfiCurrentTpl \in Tpl
    BY <1>2 DEF CpuInv
  <2>3. PICK g \in FrameType : g = Frame("signalGroup", gEfiCurrentTpl, e, 0)
    BY <2>2, FrameTyped, LabelFacts
  <2>4. g.pc = "signalGroup" /\ g.tpl = gEfiCurrentTpl /\ g.ev = e
    BY <2>3, FrameTyped
  <2>5. PICK h \in FrameType : h = RestoreFrame(gEfiCurrentTpl)
    BY <2>2, RestoreTyped
  <2>6. h.pc = "test" /\ h.tpl = gEfiCurrentTpl
    BY <2>2, <2>5, RestoreTyped
  <2>7. s \in Seq(FrameType) /\ Nest(s, gEfiCurrentTpl) /\ (s # <<>> => s[Len(s)].pc # "notifyList")
    BY DEF Keep, NotificationsInv
  <2>8. PICK z : z = Append(s, g)
    OBVIOUS
  <2>9. /\ z \in Seq(FrameType) /\ z[Len(z)] = g
        /\ Nest(z, gEfiCurrentTpl) /\ Members(z) = Members(s) \cup {g}
    <3>1. Follow(g, gEfiCurrentTpl) /\ \A i \in 1..Len(s) : Over(s[i], g)
      BY <2>4 DEF Follow, Over, CloseLabels
    <3>2. Nest(Append(s, g), gEfiCurrentTpl) /\ Members(Append(s, g)) = Members(s) \cup {g}
      BY <2>4, <2>7, <3>1, NestPush, MembersAppend
    <3> QED BY <2>7, <2>8, <3>2
  <2>10. stack' = Append(z, h)
    BY <2>1, <2>3, <2>5, <2>8 DEF WithEventLock
  <2>11. Nest(stack', gEfiCurrentTpl') /\ Members(stack') = Members(z) \cup {h}
    <3>1. Follow(h, gEfiCurrentTpl') /\ \A i \in 1..Len(z) : Over(z[i], h)
      BY <2>6 DEF Follow, Over, CloseLabels
    <3>2. Nest(Append(z, h), gEfiCurrentTpl') /\ Members(Append(z, h)) = Members(z) \cup {h}
      BY <2>4, <2>6, <2>9, <3>1, NestPush, MembersAppend
    <3> QED BY <2>10, <3>2
  <2>12. stack' \in Seq(FrameType) /\ Top' = h
    <3>1. PICK w : w = Append(z, h)
      OBVIOUS
    <3>2. w \in Seq(FrameType) /\ w[Len(w)] = h
      BY <2>9, <3>1
    <3> QED BY <2>10, <3>1, <3>2 DEF Top
  <2>13. Frames' = Members(s) \cup {g, h}
    BY <2>9, <2>11 DEF Frames
  <2>14. \A f \in FrameType : f.pc \in Tracked => (f \in Members(s) <=> f \in Frames)
    BY DEF Keep
  <2>15. Members(s) \subseteq FrameType /\ Frames \subseteq FrameType
    BY <1>2, <2>7, FramesTyped DEF Members
  <2>16. \A x : Linked(x) <=> Linked(x)'
    BY <2>4, <2>6, <2>13, <2>14, <2>15 DEF Linked, Tracked, CloseLabels, Unlinked
  <2>17. Nest(stack, gEfiCurrentTpl)'
    BY <1>1, <2>11, <2>12, NestNext
  <2>18. ClassesInv' /\ QueuesInv'
    BY <1>1, <2>1, <2>16 DEF NotificationsInv, ClassesInv, QueuesInv, Live
  <2>19. CallsInv'
    BY <1>1, <1>6, <2>4, <2>6, <2>13, <2>14, <2>15
       DEF NotificationsInv, CallsInv, Tracked, Pinned, Sig, Live
  <2>20. ASSUME NEW x \in Events, Live(x), IsType(x, "SIGNAL")
        PROVE  /\ x \in Members(gEventSignalQueue) \/ ~Linked(x)'
               /\ SignalCount'[x] = 1 => Handled(x)'
    <3>1. Handled(x) => Handled(x)'
      BY <2>1, <2>13, <2>14, <2>15 DEF Handled, InQueue, Tracked, Pinned
    <3>2. x = e => Handled(x)'
      BY <2>4, <2>13 DEF Handled, Sig
    <3> QED BY <1>3, <2>16, <2>20, <3>1, <3>2 DEF NotificationsInv, SignalsInv
  <2>21. ~At("notifyList")'
    BY <2>6, <2>12 DEF At
  <2> QED BY <1>1, <2>17, <2>18, <2>19, <2>20, <2>21
          DEF NotificationsInv, SignalsInv, Live, IsType
<1> QED BY <1>2, <1>4, <1>5, <1>6

\* A step that neither signals nor queues anything.
LEMMA QuietKeeps ==
  ASSUME Inv, CpuInv', NotificationsInv, Keep(stack', gEfiCurrentTpl'),
         UNCHANGED <<gEventQueue, SignalCount, objects>>
  PROVE  NotificationsInv'
<1>1. mEfiCheckTimerEvent \in Events /\ Live(mEfiCheckTimerEvent) /\ Linked(mEfiCheckTimerEvent)
  BY CheckTimerLive DEF Inv, DataInv, Linked, Unlinked, CloseLabels
<1>2. UNCHANGED <<gEventQueue, SignalCount, event, gEventSignalQueue>>
  BY DEF objects
<1> QED BY <1>1, <1>2, SameQueues, StepKeeps

LEMMA UsableLinked ==
  ASSUME NEW e, Usable(e)
  PROVE  Live(e) /\ Linked(e)
BY UsableFacts DEF Unclosed, Linked, Unlinked, CloseLabels

LEMMA CheckTimerLinked ==
  ASSUME Inv
  PROVE  mEfiCheckTimerEvent \in Events /\ Live(mEfiCheckTimerEvent) /\ Linked(mEfiCheckTimerEvent)
BY CheckTimerLive DEF Inv, DataInv, Linked, Unlinked, CloseLabels

LEMMA SignalEventKeeps ==
  ASSUME Inv, CpuInv', NotificationsInv, NEW e \in UserEvents, SignalEvent(e)
  PROVE  NotificationsInv'
<1>1. Keep(stack, gEfiCurrentTpl)
  BY MayKeep DEF SignalEvent, Inv
<1>2. e \in Events /\ Live(e) /\ Linked(e)
  BY UsableLinked DEF SignalEvent, Events
<1> QED BY <1>1, <1>2, SignalKeeps DEF SignalEvent

\* The frame that runs goes on under the label pc, with the event ev and the number n.
LEMMA KeepOn ==
  ASSUME CpuInv, Top.pc \notin Tracked, NEW g \in FrameType, g.tpl = Top.tpl, g.pc \in OtherPc
  PROVE  Keep(Replace(g), gEfiCurrentTpl)
BY KeepReplace DEF OtherPc

\* The event that CoreNotifyProtocolEntry signals is not being freed.
InstallsApart ==
  At("notifyEntry") =>
    \A i \in 1..Len(stack) : stack[i].pc = "closeUnregister" => stack[i].ev \notin Members(ProtNotify)

LEMMA NotifyEntryKeeps ==
  ASSUME Inv, CpuInv', NotificationsInv, InstallsApart, NotifyEntry
  PROVE  NotificationsInv'
<1>1. /\ CpuInv /\ ObjectsInv /\ DataInv
      /\ Top \in FrameType /\ Top.tpl \in Tpl /\ Top.pc = "notifyEntry"
      /\ Top.n \in Nat /\ Top.n >= 1
  BY TopFacts DEF Inv, NotifyEntry, At, FrameOK
<1>2. Top.pc \notin Tracked /\ UNCHANGED objects
  BY <1>1, PcFacts DEF OtherPc, NotifyEntry
<1>3. CASE Top.n <= Len(ProtNotify)
  <2>1. PICK e : e = ProtNotify[Top.n]
    OBVIOUS
  <2>2. e \in Events /\ e \in Members(ProtNotify)
    <3>1. ProtNotify \in Seq(Events) /\ Top.n \in 1..Len(ProtNotify)
      BY <1>1, <1>3 DEF ObjectsInv
    <3> QED BY <2>1, <3>1 DEF Members
  <2>3. Live(e) /\ Linked(e)
    <3>1. \A f \in Frames : f.pc = "closeUnregister" => f.ev # e
      BY <1>1, <2>2 DEF InstallsApart, At, Frames, Members
    <3> QED BY <1>1, <2>2, <3>1 DEF DataInv, Linked, Unlinked
  <2>4. PICK g \in FrameType : g = [Top EXCEPT !.n = Top.n + 1]
    <3>1. Top.n + 1 \in Nat
      BY <1>1
    <3>2. PICK n \in Nat : n = Top.n + 1
      BY <3>1
    <3> QED BY <1>1, <3>2, Edited, LabelFacts DEF FrameType
  <2>5. g.tpl = Top.tpl /\ g.pc = "notifyEntry"
    BY <1>1, <2>4 DEF FrameType
  <2>6. CoreSignalEvent(ProtNotify[Top.n], Replace([Top EXCEPT !.n = Top.n + 1]))
    BY <1>3 DEF NotifyEntry
  <2>7. CoreSignalEvent(e, Replace(g))
    BY <2>1, <2>4, <2>6
  <2>8. Keep(Replace(g), gEfiCurrentTpl)
    BY <1>1, <1>2, <2>5, KeepOn, PcFacts
  <2> QED BY <1>2, <2>2, <2>3, <2>7, <2>8, SignalKeeps
<1>4. CASE ~(Top.n <= Len(ProtNotify))
  <2>1. stack' = Replace(RestoreFrame(Top.tpl)) /\ UNCHANGED notify
    BY <1>4 DEF NotifyEntry
  <2>2. Moved
    BY <1>1, <1>2, <2>1, Restored
  <2> QED BY <1>2, <2>1, <2>2, QuietKeeps DEF Moved, notify
<1> QED BY <1>3, <1>4

\* A step of the owner of the timer lock signals the core's own event, or nothing.
LEMMA OwnerKeeps ==
  ASSUME Inv, CpuInv', NotificationsInv, UNCHANGED objects, NEW s, Keep(s, gEfiCurrentTpl),
         \/ CoreSignalEvent(mEfiCheckTimerEvent, s)
         \/ stack' = s /\ UNCHANGED <<gEfiCurrentTpl, InterruptState, notify>>
  PROVE  NotificationsInv'
<1>1. CASE CoreSignalEvent(mEfiCheckTimerEvent, s)
  BY <1>1, CheckTimerLinked, SignalKeeps
<1>2. CASE stack' = s /\ UNCHANGED <<gEfiCurrentTpl, InterruptState, notify>>
  BY <1>2, QuietKeeps DEF notify
<1> QED BY <1>1, <1>2

LEMMA OwnerPc ==
  ASSUME Inv, Top.pc \in TimerPc \cup {"checkTimers"}
  PROVE  CpuInv /\ Top.pc \notin Tracked /\ Top \in FrameType /\ Top.tpl \in Tpl
BY TopFacts, PcFacts DEF Inv, OtherPc

LEMMA SetTimerKeeps ==
  ASSUME Inv, CpuInv', NotificationsInv, NEW e \in UserEvents, NEW type, NEW delay \in Nat,
         SetTimer(e, type, delay)
  PROVE  NotificationsInv'
<1>1. Keep(stack, gEfiCurrentTpl) /\ CpuInv
  BY MayKeep DEF SetTimer, Inv
<1>2. UNCHANGED <<notify, objects>>
  BY DEF SetTimer
<1>3. \/ stack' = Append(stack, Frame("test", gEfiCurrentTpl, NoEvent, 0))
      \/ stack' = Append(stack, Frame("setTimer", gEfiCurrentTpl, e, delay))
  BY DEF SetTimer, CoreRaiseTpl, RestoreFrame
<1>4. "test" \in OtherPc /\ "setTimer" \in OtherPc /\ e \in Events
  BY PcFacts DEF TimerPc, Events
<1>5. Keep(stack', gEfiCurrentTpl')
  BY <1>1, <1>3, <1>4, Pushed
<1> QED BY <1>2, <1>5, QuietKeeps DEF notify

LEMMA GoKeeps ==
  ASSUME Inv, CpuInv', NotificationsInv, UNCHANGED objects,
         Top.pc \in TimerPc, NEW pc \in OtherPc,
         \/ CoreSignalEvent(mEfiCheckTimerEvent, Go(pc))
         \/ stack' = Go(pc) /\ UNCHANGED <<gEfiCurrentTpl, InterruptState, notify>>
  PROVE  NotificationsInv'
<1>1. Keep(Go(pc), gEfiCurrentTpl)
  BY OwnerPc, KeepGo
<1> QED BY <1>1, OwnerKeeps

LEMMA SetTriggerTimeKeeps ==
  ASSUME Inv, CpuInv', NotificationsInv, SetTriggerTime
  PROVE  NotificationsInv'
<1>1. Top.pc \in TimerPc /\ "insertTimer" \in OtherPc
  BY PcFacts DEF SetTriggerTime, At, TimerPc
<1> QED BY <1>1, GoKeeps DEF SetTriggerTime

LEMMA InsertTimerKeeps ==
  ASSUME Inv, CpuInv', NotificationsInv, InsertTimer
  PROVE  NotificationsInv'
<1>1. Top.pc \in TimerPc /\ "timerUnlock" \in OtherPc
  BY PcFacts DEF InsertTimer, At, TimerPc
<1> QED BY <1>1, GoKeeps DEF InsertTimer

LEMMA CheckTimersKeeps ==
  ASSUME Inv, CpuInv', NotificationsInv, CheckTimers
  PROVE  NotificationsInv'
<1>1. /\ CpuInv /\ Top.pc = "checkTimers" /\ Top.pc \notin Tracked /\ Top \in FrameType
      /\ mEfiSystemTime \in Nat
  BY OwnerPc, TimeAssumption DEF CheckTimers, At, Inv, TimeInv
<1>2. PICK g \in FrameType : g = [Top EXCEPT !.pc = "checkLoop", !.n = mEfiSystemTime]
  BY <1>1, Edited, LabelFacts DEF FrameType
<1>3. g.tpl = Top.tpl /\ g.pc = "checkLoop"
  BY <1>1, <1>2 DEF FrameType
<1>4. stack' = Replace(g) /\ UNCHANGED <<notify, objects>>
  BY <1>2 DEF CheckTimers, CoreRaiseTpl
<1>5. Keep(stack', gEfiCurrentTpl')
  BY <1>1, <1>3, <1>4, KeepReplace, PcFacts DEF OtherPc, TimerPc
<1> QED BY <1>4, <1>5, QuietKeeps DEF notify

LEMMA CheckLoopKeeps ==
  ASSUME Inv, CpuInv', NotificationsInv, CheckLoop
  PROVE  NotificationsInv'
<1>1. /\ CpuInv /\ Top.pc = "checkLoop" /\ Top.pc \notin Tracked /\ Top \in FrameType /\ Top.tpl \in Tpl
  BY OwnerPc DEF CheckLoop, At, TimerPc
<1>2. UNCHANGED objects
  BY DEF CheckLoop
<1>3. CASE mEfiTimerList # <<>> /\ TriggerTime[mEfiTimerList[1]] <= Top.n
  <2>1. PICK e : e = mEfiTimerList[1]
    OBVIOUS
  <2>2. e \in Events /\ e \in Members(mEfiTimerList)
    BY <1>3, <2>1 DEF Inv, TimeInv, Members
  <2>3. Live(e) /\ Linked(e)
    BY <2>2 DEF Inv, DataInv, Armable, Unclosed, Linked, Unlinked, CloseLabels
  <2>4. PICK g \in FrameType : g = [Top EXCEPT !.pc = "rearm", !.ev = e]
    BY <1>1, <2>2, Edited, LabelFacts DEF FrameType
  <2>5. g.tpl = Top.tpl /\ g.pc = "rearm"
    BY <1>1, <2>4 DEF FrameType
  <2>6. CoreSignalEvent(mEfiTimerList[1], Replace([Top EXCEPT !.pc = "rearm", !.ev = mEfiTimerList[1]]))
    BY <1>3 DEF CheckLoop
  <2>7. CoreSignalEvent(e, Replace(g))
    BY <2>1, <2>4, <2>6
  <2>8. Keep(Replace(g), gEfiCurrentTpl)
    BY <1>1, <2>5, KeepOn, PcFacts DEF TimerPc
  <2> QED BY <1>2, <2>2, <2>3, <2>7, <2>8, SignalKeeps
<1>4. CASE ~(mEfiTimerList # <<>> /\ TriggerTime[mEfiTimerList[1]] <= Top.n)
  <2>1. stack' = Replace(RestoreFrame(Top.tpl)) /\ UNCHANGED notify
    BY <1>4 DEF CheckLoop
  <2>2. Moved
    BY <1>1, <2>1, Restored
  <2> QED BY <1>2, <2>1, <2>2, QuietKeeps DEF Moved, notify
<1> QED BY <1>3, <1>4

LEMMA RearmKeeps ==
  ASSUME Inv, CpuInv', NotificationsInv, Rearm
  PROVE  NotificationsInv'
<1>1. Top.pc \in TimerPc /\ "checkLoop" \in OtherPc /\ "reinsert" \in OtherPc /\ UNCHANGED objects
  BY PcFacts DEF Rearm, At, TimerPc
<1>2. \/ stack' = Go("checkLoop") /\ UNCHANGED <<gEfiCurrentTpl, InterruptState, notify>>
      \/ CoreSignalEvent(mEfiCheckTimerEvent, Go("reinsert"))
      \/ stack' = Go("reinsert") /\ UNCHANGED <<gEfiCurrentTpl, InterruptState, notify>>
  BY DEF Rearm
<1> QED BY <1>1, <1>2, GoKeeps

LEMMA ReinsertKeeps ==
  ASSUME Inv, CpuInv', NotificationsInv, Reinsert
  PROVE  NotificationsInv'
<1>1. Top.pc \in TimerPc /\ "checkLoop" \in OtherPc
  BY PcFacts DEF Reinsert, At, TimerPc
<1> QED BY <1>1, GoKeeps DEF Reinsert

LEMMA TimerInterruptKeeps ==
  ASSUME Inv, CpuInv', NotificationsInv, TimerInterrupt
  PROVE  NotificationsInv'
<1>1. CpuInv /\ Keep(stack, gEfiCurrentTpl)
  <2>1. gEfiCurrentTpl # EFI_TPL_HIGH_LEVEL
    <3>1. InterruptState /\ InterruptState = (gEfiCurrentTpl < EFI_TPL_HIGH_LEVEL)
      BY DEF Inv, CpuInv, InterruptsBelowHigh, TimerInterrupt
    <3>2. gEfiCurrentTpl < EFI_TPL_HIGH_LEVEL
      BY <3>1, Zenon
    <3> QED BY <3>2 DEF EFI_TPL_HIGH_LEVEL
  <2>2. Top.pc # "notifyList"
    BY <2>1, TopFacts DEF Inv, Resume
  <2> QED BY <2>2, KeepStack DEF Inv
<1>2. UNCHANGED objects
  BY DEF TimerInterrupt
<1>3. \/ CoreSignalEvent(mEfiCheckTimerEvent, stack)
      \/ WithEventLock(stack) /\ UNCHANGED notify
  BY DEF TimerInterrupt
<1>4. CASE WithEventLock(stack) /\ UNCHANGED notify
  <2>1. Keep(stack', gEfiCurrentTpl')
    BY <1>1, <1>4, KeepLock
  <2> QED BY <1>2, <1>4, <2>1, QuietKeeps DEF notify
<1>5. CASE CoreSignalEvent(mEfiCheckTimerEvent, stack)
  BY <1>1, <1>2, <1>5, OwnerKeeps
<1> QED BY <1>3, <1>4, <1>5

\* The running frame and what lies below it.
LEMMA Below ==
  ASSUME Inv, NotificationsInv
  PROVE  \E p \in Seq(FrameType) :
           /\ p = Pop(stack) /\ Nest(p, Top.tpl) /\ (p # <<>> => p[Len(p)].pc # "notifyList")
           /\ Frames = Members(p) \cup {Top} /\ Members(p) \subseteq FrameType
           /\ \A i \in 1..Len(p) : Over(p[i], Top)
           /\ Top \in FrameType /\ Top.tpl \in Tpl /\ CpuInv
<1>1. PICK p : p = Pop(stack)
  OBVIOUS
<1>2. /\ CpuInv /\ stack = Append(p, Top) /\ Frames = Members(p) \cup {Top}
      /\ p \in Seq(FrameType) /\ Top \in FrameType /\ Top.tpl \in Tpl
      /\ stack \in Seq(FrameType) /\ stack # <<>>
  BY <1>1, TopLast DEF Inv
<1>3. Nest(p, Top.tpl) /\ (p # <<>> => p[Len(p)].pc # "notifyList")
  BY <1>1, <1>2, NestPop DEF NotificationsInv, Top
<1>4. Members(p) \subseteq FrameType
  BY <1>2 DEF Members
<1>5. \A i \in 1..Len(p) : Over(p[i], Top)
  <2>1. /\ Len(stack) = Len(p) + 1 /\ Len(p) \in Nat /\ stack[Len(stack)] = Top
        /\ \A i \in 1..Len(p) : stack[i] = p[i]
    BY <1>1, <1>2, PopProperties DEF Top
  <2>2. \A i \in 1..Len(p) : i \in 1..Len(stack) /\ Len(stack) \in 1..Len(stack) /\ i < Len(stack)
    BY <2>1
  <2> QED BY <2>1, <2>2 DEF NotificationsInv, Nest
<1> QED BY <1>1, <1>2, <1>3, <1>4, <1>5

\* The event lock is taken and released on top of the stack s.
LEMMA LockNest ==
  ASSUME CpuInv, NEW s \in Seq(FrameType), Nest(s, gEfiCurrentTpl),
         s # <<>> => s[Len(s)].pc # "notifyList", WithEventLock(s)
  PROVE  /\ stack' \in Seq(FrameType) /\ Nest(stack', gEfiCurrentTpl') /\ ~At("notifyList")'
         /\ \E h \in FrameType : h.pc = "test" /\ Frames' = Members(s) \cup {h}
<1>1. gEfiCurrentTpl \in Tpl
  BY DEF CpuInv
<1>2. PICK h \in FrameType : h = RestoreFrame(gEfiCurrentTpl)
  BY <1>1, RestoreTyped
<1>3. h.pc = "test" /\ h.tpl = gEfiCurrentTpl
  BY <1>1, <1>2, RestoreTyped
<1>4. PICK w : w = Append(s, h)
  OBVIOUS
<1>5. stack' = w
  BY <1>2, <1>4 DEF WithEventLock
<1>6. w \in Seq(FrameType) /\ w[Len(w)] = h
  BY <1>4
<1>7. Nest(w, gEfiCurrentTpl')
  <2>1. Follow(h, gEfiCurrentTpl') /\ \A i \in 1..Len(s) : Over(s[i], h)
    BY <1>3 DEF Follow, Over, CloseLabels
  <2> QED BY <1>3, <1>4, <2>1, NestPush
<1>8. Members(w) = Members(s) \cup {h}
  BY <1>4, MembersAppend
<1>9. ~At("notifyList")' /\ Frames' = Members(w)
  BY <1>3, <1>5, <1>6 DEF At, Top, Frames
<1> QED BY <1>3, <1>5, <1>6, <1>7, <1>8, <1>9

\* The frame g is put on top of s.
LEMMA FramePushed ==
  ASSUME NEW s \in Seq(FrameType), NEW g \in FrameType, Nest(s, g.tpl),
         s # <<>> => s[Len(s)].pc # "notifyList", NEW t, Follow(g, t),
         \A i \in 1..Len(s) : Over(s[i], g)
  PROVE  \E w \in Seq(FrameType) :
           w = Append(s, g) /\ Nest(w, t) /\ w[Len(w)] = g /\ w # <<>> /\ Members(w) = Members(s) \cup {g}
<1>1. PICK w : w = Append(s, g)
  OBVIOUS
<1>2. w \in Seq(FrameType) /\ w[Len(w)] = g /\ w # <<>>
  BY <1>1
<1>3. Nest(w, t) /\ Members(w) = Members(s) \cup {g}
  BY <1>1, NestPush, MembersAppend
<1> QED BY <1>1, <1>2, <1>3

\* A step that leaves the events and the list of signals alone, frame by frame.
LEMMA StepSound ==
  ASSUME NotificationsInv, UNCHANGED <<event, gEventSignalQueue>>,
         stack' \in Seq(FrameType), Nest(stack', gEfiCurrentTpl'),
         NEW fs, fs = Frames',
         \A x \in Events : (\E f \in fs : f.pc \in Unlinked /\ f.ev = x) <=> ~Linked(x),
         \A f \in fs : /\ f.pc \in Pinned => Live(f.ev)
                       /\ f.pc \in Sig => event[f.ev].group # NoGroup,
         \A t \in Tpl :
            /\ NoDuplicates(gEventQueue'[t])
            /\ \A x \in Members(gEventQueue'[t]) : x \in Events /\ Live(x) /\ event[x].tpl = t /\ Linked(x),
         \A x \in Events : Live(x) /\ IsType(x, "SIGNAL") /\ SignalCount'[x] = 1 =>
            InQueue(x)' \/ \E f \in fs : f.pc \in Sig \cup CloseLabels /\ f.ev = x,
         (At("notifyList") => \A i \in 1..Len(gEventSignalQueue) :
            i < Top.n /\ event[gEventSignalQueue[i]].group = event[Top.ev].group
              => InQueue(gEventSignalQueue[i]))'
  PROVE  NotificationsInv'
<1>1. \A x \in Events : Linked(x) <=> Linked(x)'
  BY DEF Linked
<1>2. Nest(stack, gEfiCurrentTpl)'
  BY NestNext
<1>3. ClassesInv'
  BY DEF NotificationsInv, ClassesInv, Live
<1>4. QueuesInv'
  BY <1>1 DEF QueuesInv, Live
<1>5. CallsInv'
  BY DEF CallsInv, Live
<1>6. ASSUME NEW x \in Events, Live(x), IsType(x, "SIGNAL")
      PROVE  /\ x \in Members(gEventSignalQueue) \/ ~Linked(x)'
             /\ SignalCount'[x] = 1 => Handled(x)'
  BY <1>1, <1>6 DEF NotificationsInv, SignalsInv, Handled
<1> QED BY <1>2, <1>3, <1>4, <1>5, <1>6 DEF NotificationsInv, SignalsInv, Live, IsType

LEMMA QueuesTyped ==
  ASSUME Inv, QueuesInv
  PROVE  \A t \in Tpl :
           /\ gEventQueue[t] \in Seq(Events) /\ NoDuplicates(gEventQueue[t])
           /\ \A x \in Members(gEventQueue[t]) : x \in Events /\ Live(x) /\ event[x].tpl = t /\ Linked(x)
BY DEF Inv, NotifyInv, QueuesInv, Members

LEMMA DispatchKeeps ==
  ASSUME Inv, CpuInv', NotificationsInv, Dispatch
  PROVE  NotificationsInv'
<1>1. /\ CpuInv /\ Top.pc = "dispatch" /\ Top \in FrameType /\ gEfiCurrentTpl \in Tpl /\ QueuesInv
      /\ Top.pc \notin Tracked /\ UNCHANGED <<objects, event, gEventSignalQueue>>
  BY TopFacts, PcFacts DEF Inv, CpuInv, NotificationsInv, Dispatch, At, OtherPc, objects
<1>2. PICK queue \in Seq(Events) : queue = gEventQueue[gEfiCurrentTpl]
  BY <1>1 DEF Inv, NotifyInv
<1>3. CASE queue = <<>>
  <2>1. WithEventLock(Go("test")) /\ UNCHANGED <<gEventQueue, SignalCount>>
    BY <1>2, <1>3 DEF Dispatch
  <2>2. Keep(stack', gEfiCurrentTpl')
    BY <1>1, <2>1, KeepGo, KeepLock, PcFacts
  <2> QED BY <1>1, <2>1, <2>2, QuietKeeps
<1>4. CASE queue # <<>>
  <2>1. PICK e : e = queue[1]
    OBVIOUS
  <2>2. /\ gEventQueue' = [gEventQueue EXCEPT ![gEfiCurrentTpl] = RemoveAtIndex(queue, 1)]
        /\ SignalCount' = IF Live(e) /\ IsType(e, "SIGNAL")
                          THEN [SignalCount EXCEPT ![e] = 0] ELSE SignalCount
        /\ WithEventLock(Replace([Top EXCEPT !.pc = "call", !.ev = e]))
    BY <1>2, <1>4, <2>1 DEF Dispatch
  <2>3. 1 \in 1..Len(queue) /\ e \in Events /\ e \in Members(queue)
    BY <1>4, <2>1 DEF Members
  <2>4. Live(e) /\ event[e].tpl = gEfiCurrentTpl /\ NoDuplicates(queue)
    BY <1>1, <1>2, <2>3 DEF QueuesInv
  <2>5. PICK g \in FrameType : g = [Top EXCEPT !.pc = "call", !.ev = e]
    BY <1>1, <2>3, Edited, LabelFacts DEF FrameType
  <2>6. g.pc = "call" /\ g.tpl = Top.tpl /\ g.ev = e
    BY <1>1, <2>5 DEF FrameType
  <2>7. PICK p \in Seq(FrameType) :
           /\ p = Pop(stack) /\ Nest(p, Top.tpl) /\ (p # <<>> => p[Len(p)].pc # "notifyList")
           /\ Frames = Members(p) \cup {Top} /\ Members(p) \subseteq FrameType
    BY Below
  <2>8. PICK w \in Seq(FrameType) :
           /\ w = Append(p, g) /\ Nest(w, gEfiCurrentTpl) /\ w[Len(w)] = g /\ w # <<>>
           /\ Members(w) = Members(p) \cup {g}
    <3>1. Follow(g, gEfiCurrentTpl) /\ \A i \in 1..Len(p) : Over(p[i], g)
      BY <2>4, <2>6 DEF Follow, Over, CloseLabels
    <3> QED BY <2>6, <2>7, <3>1, FramePushed
  <2>9. WithEventLock(w)
    BY <2>2, <2>5, <2>7, <2>8 DEF Replace
  <2>10. PICK h \in FrameType : h.pc = "test" /\ Frames' = Members(w) \cup {h}
    BY <1>1, <2>6, <2>8, <2>9, LockNest
  <2>11. stack' \in Seq(FrameType) /\ Nest(stack', gEfiCurrentTpl') /\ ~At("notifyList")'
    BY <1>1, <2>6, <2>8, <2>9, LockNest
  <2>12. PICK fs : fs = Frames'
    OBVIOUS
  <2>13. fs = Members(p) \cup {g, h}
    BY <2>8, <2>10, <2>12
  <2>14. \A x \in Events : (\E f \in fs : f.pc \in Unlinked /\ f.ev = x) <=> ~Linked(x)
    BY <1>1, <2>6, <2>7, <2>10, <2>13 DEF Linked, Unlinked
  <2>15. \A f \in fs : /\ f.pc \in Pinned => Live(f.ev)
                       /\ f.pc \in Sig => event[f.ev].group # NoGroup
    BY <2>4, <2>6, <2>7, <2>10, <2>13 DEF NotificationsInv, CallsInv, Pinned, Sig
  <2>16. /\ NoDuplicates(RemoveAtIndex(queue, 1))
         /\ Members(RemoveAtIndex(queue, 1)) \subseteq Members(queue)
         /\ Members(queue) \subseteq Members(RemoveAtIndex(queue, 1)) \cup {e}
    BY <2>1, <2>3, <2>4, RemoveAtIndexProperties
  <2>17. /\ \A t \in Tpl : NoDuplicates(gEventQueue'[t])
         /\ \A t \in Tpl : Members(gEventQueue'[t]) \subseteq Members(gEventQueue[t])
         /\ \A t \in Tpl : Members(gEventQueue[t]) \subseteq Members(gEventQueue'[t]) \cup {e}
    <3>1. gEventQueue \in [Tpl -> Seq(Events)]
      BY DEF Inv, NotifyInv
    <3>2. PICK r : r = RemoveAtIndex(queue, 1)
      OBVIOUS
    <3>3. \A t \in Tpl : gEventQueue'[t] = IF t = gEfiCurrentTpl THEN r ELSE gEventQueue[t]
      BY <2>2, <3>1, <3>2
    <3> QED BY <1>1, <1>2, <2>16, <3>2, <3>3, QueuesTyped
  <2>18. \A t \in Tpl :
            /\ NoDuplicates(gEventQueue'[t])
            /\ \A x \in Members(gEventQueue'[t]) : x \in Events /\ Live(x) /\ event[x].tpl = t /\ Linked(x)
    BY <1>1, <2>17, QueuesTyped
  <2>19. ASSUME NEW x \in Events, Live(x), IsType(x, "SIGNAL"), SignalCount'[x] = 1
         PROVE  InQueue(x)' \/ \E f \in fs : f.pc \in Sig \cup CloseLabels /\ f.ev = x
    <3>1. x # e /\ SignalCount[x] = 1
      BY <2>2, <2>3, <2>19 DEF Inv, NotifyInv
    <3>2. InQueue(x) \/ \E f \in Frames : f.pc \in Sig \cup CloseLabels /\ f.ev = x
      BY <2>19, <3>1 DEF NotificationsInv, SignalsInv, Handled
    <3>3. InQueue(x) => InQueue(x)'
      BY <2>17, <3>1 DEF InQueue
    <3>4. Top.pc \notin Sig \cup CloseLabels
      BY <1>1 DEF Sig, CloseLabels
    <3> QED BY <2>7, <2>13, <3>2, <3>3, <3>4
  <2> QED BY <1>1, <2>11, <2>12, <2>14, <2>15, <2>18, <2>19, StepSound
<1> QED BY <1>3, <1>4

LEMMA CallKeeps ==
  ASSUME Inv, CpuInv', NotificationsInv, Call
  PROVE  NotificationsInv'
<1>1. /\ CpuInv /\ Top.pc = "call" /\ Top \in FrameType /\ Top.ev \in Events /\ Top.n \in Nat
      /\ gEfiCurrentTpl \in Tpl /\ Top.tpl \in Tpl /\ Top.tpl < gEfiCurrentTpl /\ QueuesInv
  BY TopFacts DEF Inv, CpuInv, NotificationsInv, Call, At, FrameOK, EvLabels, Resume
<1>2. UNCHANGED <<event, gEventSignalQueue, gEventQueue, SignalCount, gEfiCurrentTpl>>
  BY DEF Call, objects, notify
<1>3. PICK pc \in {"checkTimers", "notify"} :
         pc = IF Top.ev = mEfiCheckTimerEvent THEN "checkTimers" ELSE "notify"
  OBVIOUS
<1>4. PICK f \in FrameType : f = [Top EXCEPT !.pc = "dispatch", !.ev = NoEvent]
  BY <1>1, Edited, LabelFacts DEF FrameType
<1>5. f.pc = "dispatch" /\ f.tpl = Top.tpl
  BY <1>1, <1>4 DEF FrameType
<1>6. PICK g \in FrameType : g = Frame(pc, gEfiCurrentTpl, Top.ev, 0)
  BY <1>1, <1>3, FrameTyped, LabelFacts
<1>7. g.pc = pc /\ g.tpl = gEfiCurrentTpl
  BY <1>6, FrameTyped
<1>8. stack' = Append(Replace(f), g)
  BY <1>3, <1>4, <1>6 DEF Call
<1>9. PICK p \in Seq(FrameType) :
         /\ p = Pop(stack) /\ Nest(p, Top.tpl) /\ (p # <<>> => p[Len(p)].pc # "notifyList")
         /\ Frames = Members(p) \cup {Top} /\ Members(p) \subseteq FrameType
  BY Below
<1>10. PICK w \in Seq(FrameType) :
         /\ w = Append(p, f) /\ Nest(w, gEfiCurrentTpl) /\ w[Len(w)] = f /\ w # <<>>
         /\ Members(w) = Members(p) \cup {f}
  <2>1. Follow(f, gEfiCurrentTpl) /\ \A i \in 1..Len(p) : Over(p[i], f)
    BY <1>5 DEF Follow, Over, CloseLabels
  <2> QED BY <1>5, <1>9, <2>1, FramePushed
<1>11. \A i \in 1..Len(w) : Over(w[i], g)
  <2>1. ASSUME NEW i \in 1..Len(w), w[i].pc = "call" PROVE event[w[i].ev].tpl < gEfiCurrentTpl
    <3>1. Len(p) \in Nat /\ Len(w) = Len(p) + 1 /\ w[Len(p) + 1] = f /\ \A j \in 1..Len(p) : w[j] = p[j]
      BY <1>10
    <3>2. i \in 1..Len(p) /\ w[i] = p[i]
      BY <1>5, <2>1, <3>1
    <3>3. PICK t \in Tpl : event[w[i].ev].tpl = t /\ t <= Top.tpl
      <4>1. CASE i = Len(p)
        <5>1. Follow(p[i], Top.tpl)
          BY <1>9, <3>2, <4>1 DEF Nest
        <5>2. Top.tpl <= Top.tpl
          BY <1>1, TplFacts
        <5> QED BY <1>1, <2>1, <3>2, <5>1, <5>2 DEF Follow
      <4>2. CASE i # Len(p)
        <5>1. i \in 1..(Len(p) - 1) /\ i + 1 \in 1..Len(p)
          BY <3>1, <3>2, <4>2
        <5>2. Follow(p[i], p[i + 1].tpl)
          BY <1>9, <5>1 DEF Nest
        <5>3. p[i + 1].tpl \in Tpl /\ p[i + 1].tpl <= Top.tpl
          <6>1. Shape(Pop(stack), Top.tpl)
            BY <1>1, BelowFacts
          <6> QED BY <1>1, <1>9, <5>1, <6>1, ShapeTpl
        <5> QED BY <2>1, <3>2, <5>2, <5>3 DEF Follow
      <4> QED BY <4>1, <4>2
    <3>4. t \in Nat /\ Top.tpl \in Nat /\ gEfiCurrentTpl \in Nat
      BY <1>1, TplFacts
    <3> QED BY <1>1, <3>3, <3>4
  <2> QED BY <1>3, <1>7, <2>1 DEF Over, CloseLabels
<1>12. PICK v \in Seq(FrameType) :
         /\ v = Append(w, g) /\ Nest(v, gEfiCurrentTpl) /\ v[Len(v)] = g /\ v # <<>>
         /\ Members(v) = Members(w) \cup {g}
  <2>1. Follow(g, gEfiCurrentTpl)
    BY <1>3, <1>7 DEF Follow
  <2>2. Nest(w, g.tpl) /\ w[Len(w)].pc # "notifyList"
    BY <1>5, <1>7, <1>10
  <2> QED BY <1>11, <2>1, <2>2, FramePushed
<1>13. stack' = v
  BY <1>8, <1>9, <1>10, <1>12 DEF Replace
<1>14. PICK fs : fs = Frames'
  OBVIOUS
<1>15. fs = Members(p) \cup {f, g} /\ ~At("notifyList")'
  BY <1>3, <1>7, <1>10, <1>12, <1>13, <1>14 DEF Frames, At, Top
<1>16. \A x \in Events : (\E h \in fs : h.pc \in Unlinked /\ h.ev = x) <=> ~Linked(x)
  BY <1>1, <1>3, <1>5, <1>7, <1>9, <1>15 DEF Linked, Unlinked
<1>17. \A h \in fs : /\ h.pc \in Pinned => Live(h.ev)
                     /\ h.pc \in Sig => event[h.ev].group # NoGroup
  BY <1>3, <1>5, <1>7, <1>9, <1>15 DEF NotificationsInv, CallsInv, Pinned, Sig
<1>18. \A x \in Events : Live(x) /\ IsType(x, "SIGNAL") /\ SignalCount'[x] = 1 =>
          InQueue(x)' \/ \E h \in fs : h.pc \in Sig \cup CloseLabels /\ h.ev = x
  <2>1. Top.pc \notin Sig \cup CloseLabels
    BY <1>1 DEF Sig, CloseLabels
  <2> QED BY <1>2, <1>9, <1>15, <2>1 DEF NotificationsInv, SignalsInv, Handled, InQueue
<1>19. \A t \in Tpl :
          /\ NoDuplicates(gEventQueue'[t])
          /\ \A x \in Members(gEventQueue'[t]) : x \in Events /\ Live(x) /\ event[x].tpl = t /\ Linked(x)
  BY <1>1, <1>2, QueuesTyped
<1>20. stack' \in Seq(FrameType) /\ Nest(stack', gEfiCurrentTpl')
  BY <1>2, <1>12, <1>13
<1>21. UNCHANGED <<event, gEventSignalQueue>> /\ ~At("notifyList")'
  BY <1>2, <1>15
<1> QED BY <1>14, <1>16, <1>17, <1>18, <1>19, <1>20, <1>21, StepSound

LEMMA SignalGroupKeeps ==
  ASSUME Inv, CpuInv', NotificationsInv, SignalGroup
  PROVE  NotificationsInv'
<1>1. /\ CpuInv /\ Top.pc = "signalGroup" /\ Top \in FrameType /\ Top \in Frames /\ QueuesInv
      /\ gEventSignalQueue \in Seq(Events)
  BY TopFacts DEF Inv, NotificationsInv, SignalGroup, At, ObjectsInv
<1>2. UNCHANGED <<event, gEventSignalQueue, gEventQueue, SignalCount>>
  BY DEF SignalGroup, objects, notify
<1>3. PICK g \in FrameType : g = [Top EXCEPT !.pc = "notifyList", !.n = 1]
  <2>1. 1 \in Nat
    OBVIOUS
  <2> QED BY <1>1, <2>1, Edited, LabelFacts DEF FrameType
<1>4. g.pc = "notifyList" /\ g.tpl = Top.tpl /\ g.ev = Top.ev /\ g.n = 1
  BY <1>1, <1>3 DEF FrameType
<1>5. PICK p \in Seq(FrameType) :
         /\ p = Pop(stack) /\ Nest(p, Top.tpl) /\ (p # <<>> => p[Len(p)].pc # "notifyList")
         /\ Frames = Members(p) \cup {Top} /\ Members(p) \subseteq FrameType
  BY Below
<1>6. PICK w \in Seq(FrameType) :
         /\ w = Append(p, g) /\ Nest(w, gEfiCurrentTpl') /\ w[Len(w)] = g /\ w # <<>>
         /\ Members(w) = Members(p) \cup {g}
  <2>1. Follow(g, gEfiCurrentTpl') /\ \A i \in 1..Len(p) : Over(p[i], g)
    BY <1>4 DEF Follow, Over, CloseLabels
  <2> QED BY <1>4, <1>5, <2>1, FramePushed
<1>7. stack' = w
  BY <1>3, <1>5, <1>6 DEF SignalGroup, CoreRaiseTpl, Replace
<1>8. PICK fs : fs = Frames'
  OBVIOUS
<1>9. fs = Members(p) \cup {g} /\ Top' = g
  BY <1>6, <1>7, <1>8 DEF Frames, Top
<1>10. \A x \in Events : (\E h \in fs : h.pc \in Unlinked /\ h.ev = x) <=> ~Linked(x)
  BY <1>1, <1>4, <1>5, <1>9 DEF Linked, Unlinked
<1>11. \A h \in fs : /\ h.pc \in Pinned => Live(h.ev)
                     /\ h.pc \in Sig => event[h.ev].group # NoGroup
  BY <1>1, <1>4, <1>5, <1>9 DEF NotificationsInv, CallsInv, Pinned, Sig
<1>12. \A x \in Events : Live(x) /\ IsType(x, "SIGNAL") /\ SignalCount'[x] = 1 =>
          InQueue(x)' \/ \E h \in fs : h.pc \in Sig \cup CloseLabels /\ h.ev = x
  <2>1. g.pc \in Sig
    BY <1>4 DEF Sig
  <2> QED BY <1>2, <1>4, <1>5, <1>9, <2>1 DEF NotificationsInv, SignalsInv, Handled, InQueue
<1>13. \A t \in Tpl :
          /\ NoDuplicates(gEventQueue'[t])
          /\ \A x \in Members(gEventQueue'[t]) : x \in Events /\ Live(x) /\ event[x].tpl = t /\ Linked(x)
  BY <1>1, <1>2, QueuesTyped
<1>14. \A i \in 1..Len(gEventSignalQueue') : ~(i < Top'.n)
  BY <1>1, <1>2, <1>4, <1>9
<1>15. stack' \in Seq(FrameType) /\ Nest(stack', gEfiCurrentTpl') /\ UNCHANGED <<event, gEventSignalQueue>>
  BY <1>2, <1>6, <1>7
<1>16. (At("notifyList") => \A i \in 1..Len(gEventSignalQueue) :
          i < Top.n /\ event[gEventSignalQueue[i]].group = event[Top.ev].group
            => InQueue(gEventSignalQueue[i]))'
  BY <1>14
<1> QED BY <1>8, <1>10, <1>11, <1>12, <1>13, <1>15, <1>16, StepSound

\* One turn of the walk.
LEMMA NotifyListTurn ==
  ASSUME Inv, CpuInv', NotificationsInv, NotifyList, Top.n <= Len(gEventSignalQueue)
  PROVE  NotificationsInv'
<1>1. /\ CpuInv /\ Top.pc = "notifyList" /\ Top \in FrameType /\ Top \in Frames /\ QueuesInv
      /\ gEventSignalQueue \in Seq(Events) /\ Top.n \in Nat /\ Top.n >= 1
  BY TopFacts DEF Inv, NotificationsInv, NotifyList, At, ObjectsInv, FrameOK
<1>2. UNCHANGED <<event, gEventSignalQueue, SignalCount, gEfiCurrentTpl>>
  BY DEF NotifyList, objects
<1>3. PICK e : e = gEventSignalQueue[Top.n]
  OBVIOUS
<1>4. /\ IF event[e].group # NoGroup /\ event[e].group = event[Top.ev].group
         THEN CoreNotifyEvent(e) ELSE UNCHANGED gEventQueue
      /\ stack' = Replace([Top EXCEPT !.n = Top.n + 1])
  BY <1>3 DEF NotifyList
<1>5. e \in Events /\ Live(e) /\ Linked(e)
  <2>1. Top.n \in 1..Len(gEventSignalQueue)
    BY <1>1
  <2>2. e \in Events /\ e \in Members(gEventSignalQueue)
    BY <1>1, <1>3, <2>1 DEF Members
  <2> QED BY <2>2 DEF Inv, DataInv, Linked, Unlinked
<1>6. PICK g \in FrameType : g = [Top EXCEPT !.n = Top.n + 1]
  <2>1. PICK n \in Nat : n = Top.n + 1
    BY <1>1
  <2> QED BY <1>1, <2>1, Edited, LabelFacts DEF FrameType
<1>7. g.pc = "notifyList" /\ g.tpl = Top.tpl /\ g.ev = Top.ev /\ g.n = Top.n + 1
  BY <1>1, <1>6 DEF FrameType
<1>8. PICK p \in Seq(FrameType) :
         /\ p = Pop(stack) /\ Nest(p, Top.tpl) /\ (p # <<>> => p[Len(p)].pc # "notifyList")
         /\ Frames = Members(p) \cup {Top} /\ Members(p) \subseteq FrameType
  BY Below
<1>9. PICK w \in Seq(FrameType) :
         /\ w = Append(p, g) /\ Nest(w, gEfiCurrentTpl') /\ w[Len(w)] = g /\ w # <<>>
         /\ Members(w) = Members(p) \cup {g}
  <2>1. Follow(g, gEfiCurrentTpl') /\ \A i \in 1..Len(p) : Over(p[i], g)
    BY <1>7 DEF Follow, Over, CloseLabels
  <2> QED BY <1>7, <1>8, <2>1, FramePushed
<1>10. stack' = w
  BY <1>4, <1>6, <1>8, <1>9 DEF Replace
<1>11. PICK fs : fs = Frames'
  OBVIOUS
<1>12. fs = Members(p) \cup {g} /\ Top' = g
  BY <1>9, <1>10, <1>11 DEF Frames, Top
<1>13. \A x \in Events : (\E h \in fs : h.pc \in Unlinked /\ h.ev = x) <=> ~Linked(x)
  BY <1>1, <1>7, <1>8, <1>12 DEF Linked, Unlinked
<1>14. \A h \in fs : /\ h.pc \in Pinned => Live(h.ev)
                     /\ h.pc \in Sig => event[h.ev].group # NoGroup
  BY <1>1, <1>7, <1>8, <1>12 DEF NotificationsInv, CallsInv, Pinned, Sig
<1>15. /\ CoreNotifyEvent(e) => QueuedOnly(e) /\ InQueue(e)'
       /\ \A x \in Events : InQueue(x) => InQueue(x)'
       /\ CoreNotifyEvent(e) \/ UNCHANGED gEventQueue
  BY <1>1, <1>4, <1>5, NotifyFacts, SameQueues
<1>16. \A t \in Tpl :
          /\ NoDuplicates(gEventQueue'[t])
          /\ \A x \in Members(gEventQueue'[t]) : x \in Events /\ Live(x) /\ event[x].tpl = t /\ Linked(x)
  <2>1. \A t \in Tpl :
           /\ NoDuplicates(gEventQueue'[t])
           /\ \A x \in Members(gEventQueue'[t]) :
                x \in Members(gEventQueue[t]) \/ (x = e /\ t = event[e].tpl)
    BY <1>1, <1>15, QueuesTyped DEF QueuedOnly
  <2> QED BY <1>1, <1>5, <2>1, QueuesTyped
<1>17. \A x \in Events : Live(x) /\ IsType(x, "SIGNAL") /\ SignalCount'[x] = 1 =>
          InQueue(x)' \/ \E h \in fs : h.pc \in Sig \cup CloseLabels /\ h.ev = x
  <2>1. g.pc \in Sig
    BY <1>7 DEF Sig
  <2> QED BY <1>2, <1>7, <1>8, <1>12, <1>15, <2>1 DEF NotificationsInv, SignalsInv, Handled
<1>18. ASSUME NEW i \in 1..Len(gEventSignalQueue), i < g.n,
              event[gEventSignalQueue[i]].group = event[g.ev].group
       PROVE  InQueue(gEventSignalQueue[i])'
  <2>1. gEventSignalQueue[i] \in Events /\ (i < Top.n \/ i = Top.n)
    BY <1>1, <1>7, <1>18
  <2>2. CASE i < Top.n
    <3>1. InQueue(gEventSignalQueue[i])
      BY <1>1, <1>7, <1>18, <2>2 DEF NotificationsInv, SignalsInv, At
    <3>2. PICK x \in Events : x = gEventSignalQueue[i]
      BY <2>1
    <3>3. InQueue(x)'
      BY <1>15, <3>1, <3>2
    <3>4. x = gEventSignalQueue'[i]
      BY <1>2, <3>2
    <3> QED BY <1>2, <3>2, <3>3 DEF InQueue
  <2>3. CASE i = Top.n
    <3>1. event[Top.ev].group # NoGroup
      BY <1>1 DEF NotificationsInv, CallsInv, Sig
    <3>2. CoreNotifyEvent(e)
      BY <1>3, <1>4, <1>7, <1>18, <2>3, <3>1
    <3> QED BY <1>2, <1>3, <1>15, <2>3, <3>2 DEF InQueue
  <2> QED BY <2>1, <2>2, <2>3
<1>19. (At("notifyList") => \A i \in 1..Len(gEventSignalQueue) :
          i < Top.n /\ event[gEventSignalQueue[i]].group = event[Top.ev].group
            => InQueue(gEventSignalQueue[i]))'
  BY <1>2, <1>12, <1>18 DEF InQueue
<1>20. stack' \in Seq(FrameType) /\ Nest(stack', gEfiCurrentTpl') /\ UNCHANGED <<event, gEventSignalQueue>>
  BY <1>2, <1>9, <1>10
<1> QED BY <1>11, <1>13, <1>14, <1>16, <1>17, <1>19, <1>20, StepSound

\* The end of the walk: the event that was signalled has been queued with its group.
LEMMA NotifyListEnd ==
  ASSUME Inv, CpuInv', NotificationsInv, NotifyList, ~(Top.n <= Len(gEventSignalQueue))
  PROVE  NotificationsInv'
<1>1. /\ CpuInv /\ Top.pc = "notifyList" /\ Top \in FrameType /\ Top \in Frames /\ QueuesInv
      /\ gEventSignalQueue \in Seq(Events) /\ Top.n \in Nat /\ Top.tpl \in Tpl /\ Top.ev \in Events
  BY TopFacts DEF Inv, NotificationsInv, NotifyList, At, ObjectsInv, FrameOK, EvLabels
<1>2. /\ UNCHANGED <<event, gEventSignalQueue, gEventQueue, SignalCount, gEfiCurrentTpl>>
      /\ stack' = Append(Go("relock"), RestoreFrame(Top.tpl))
  BY DEF NotifyList, objects
<1>3. PICK f \in FrameType : Go("relock") = Replace(f) /\ f.pc = "relock" /\ f.tpl = Top.tpl
  BY <1>1, GoTyped, LabelFacts
<1>4. PICK h \in FrameType : h = RestoreFrame(Top.tpl)
  BY <1>1, RestoreTyped
<1>5. h.pc = "test" /\ h.tpl = Top.tpl
  BY <1>1, <1>4, RestoreTyped
<1>6. PICK p \in Seq(FrameType) :
         /\ p = Pop(stack) /\ Nest(p, Top.tpl) /\ (p # <<>> => p[Len(p)].pc # "notifyList")
         /\ Frames = Members(p) \cup {Top} /\ Members(p) \subseteq FrameType
  BY Below
<1>7. PICK w \in Seq(FrameType) :
         /\ w = Append(p, f) /\ Nest(w, Top.tpl) /\ w[Len(w)] = f /\ w # <<>>
         /\ Members(w) = Members(p) \cup {f}
  <2>1. Follow(f, Top.tpl) /\ \A i \in 1..Len(p) : Over(p[i], f)
    BY <1>3 DEF Follow, Over, CloseLabels
  <2> QED BY <1>3, <1>6, <2>1, FramePushed
<1>8. PICK v \in Seq(FrameType) :
         /\ v = Append(w, h) /\ Nest(v, gEfiCurrentTpl') /\ v[Len(v)] = h /\ v # <<>>
         /\ Members(v) = Members(w) \cup {h}
  <2>1. Follow(h, gEfiCurrentTpl') /\ \A i \in 1..Len(w) : Over(w[i], h)
    BY <1>5 DEF Follow, Over, CloseLabels
  <2>2. Nest(w, h.tpl) /\ w[Len(w)].pc # "notifyList"
    BY <1>3, <1>5, <1>7
  <2> QED BY <2>1, <2>2, FramePushed
<1>9. stack' = v
  BY <1>2, <1>3, <1>4, <1>6, <1>7, <1>8 DEF Replace
<1>10. PICK fs : fs = Frames'
  OBVIOUS
<1>11. fs = Members(p) \cup {f, h} /\ Top' = h
  BY <1>7, <1>8, <1>9, <1>10 DEF Frames, Top
<1>12. \A x \in Events : (\E d \in fs : d.pc \in Unlinked /\ d.ev = x) <=> ~Linked(x)
  BY <1>1, <1>3, <1>5, <1>6, <1>11 DEF Linked, Unlinked
<1>13. \A d \in fs : /\ d.pc \in Pinned => Live(d.ev)
                     /\ d.pc \in Sig => event[d.ev].group # NoGroup
  BY <1>1, <1>3, <1>5, <1>6, <1>11 DEF NotificationsInv, CallsInv, Pinned, Sig
<1>14. \A x \in Events : Live(x) /\ IsType(x, "SIGNAL") /\ SignalCount'[x] = 1 =>
          InQueue(x)' \/ \E d \in fs : d.pc \in Sig \cup CloseLabels /\ d.ev = x
  <2>1. ASSUME NEW x \in Events, Live(x), IsType(x, "SIGNAL"), SignalCount[x] = 1
        PROVE  InQueue(x) \/ \E d \in fs : d.pc \in Sig \cup CloseLabels /\ d.ev = x
    <3>1. InQueue(x) \/ \E d \in Frames : d.pc \in Sig \cup CloseLabels /\ d.ev = x
      BY <2>1 DEF NotificationsInv, SignalsInv, Handled
    <3>2. CASE x # Top.ev
      BY <1>6, <1>11, <3>1, <3>2
    <3>3. CASE x = Top.ev
      <4>1. x \in Members(gEventSignalQueue) \/ ~Linked(x)
        BY <2>1 DEF NotificationsInv, SignalsInv
      <4>2. CASE x \in Members(gEventSignalQueue)
        <5>1. PICK i \in 1..Len(gEventSignalQueue) : x = gEventSignalQueue[i]
          BY <4>2 DEF Members
        <5>2. i < Top.n
          BY <1>1, <5>1
        <5> QED BY <1>1, <3>3, <5>1, <5>2 DEF NotificationsInv, SignalsInv, At
      <4>3. CASE ~Linked(x)
        BY <1>1, <1>6, <1>11, <4>3 DEF Linked, Unlinked, CloseLabels
      <4> QED BY <4>1, <4>2, <4>3
    <3> QED BY <3>2, <3>3
  <2> QED BY <1>2, <2>1 DEF InQueue
<1>15. \A t \in Tpl :
          /\ NoDuplicates(gEventQueue'[t])
          /\ \A x \in Members(gEventQueue'[t]) : x \in Events /\ Live(x) /\ event[x].tpl = t /\ Linked(x)
  BY <1>1, <1>2, QueuesTyped
<1>16. ~At("notifyList")' /\ UNCHANGED <<event, gEventSignalQueue>>
  BY <1>2, <1>5, <1>11 DEF At
<1>17. stack' \in Seq(FrameType) /\ Nest(stack', gEfiCurrentTpl')
  BY <1>8, <1>9
<1> QED BY <1>10, <1>12, <1>13, <1>14, <1>15, <1>16, <1>17, StepSound

LEMMA CheckedKeeps ==
  ASSUME Inv, CpuInv', NotificationsInv, Moved, NEW e \in Events, Live(e), Linked(e),
         NEW s, CoreCheckEvent(e, s), UNCHANGED <<SignalCount, objects>>
  PROVE  NotificationsInv'
<1>1. UNCHANGED <<event, gEventSignalQueue>> /\ QueuesInv /\ Keep(stack', gEfiCurrentTpl')
  BY DEF objects, NotificationsInv, Moved
<1>2. CASE CoreNotifyEvent(e)
  <2>1. QueuedOnly(e) /\ \A x \in Events : InQueue(x) => InQueue(x)'
    BY <1>1, <1>2, NotifyFacts
  <2> QED BY <1>1, <2>1, StepKeeps
<1>3. CASE UNCHANGED gEventQueue
  BY <1>3, QuietKeeps DEF Moved
<1> QED BY <1>2, <1>3 DEF CoreCheckEvent

LEMMA CheckEventKeeps ==
  ASSUME Inv, CpuInv', NotificationsInv, NEW e \in UserEvents, CheckEvent(e)
  PROVE  NotificationsInv'
<1>1. Moved /\ e \in Events
  BY CheckEventMoved DEF Inv, Events
<1> QED BY <1>1, UsableLinked, CheckedKeeps DEF CheckEvent

LEMMA WaitTurnKeeps ==
  ASSUME Inv, CpuInv', NotificationsInv, WaitTurn
  PROVE  NotificationsInv'
<1>1. Moved /\ UNCHANGED <<SignalCount, objects>>
  BY WaitTurnMoved DEF Inv, WaitTurn
<1>2. \/ UNCHANGED gEventQueue
      \/ CoreCheckEvent(WaitList[Top.n], stack)
  BY DEF WaitTurn
<1>3. CASE CoreCheckEvent(WaitList[Top.n], stack)
  <2>1. Top.pc = "wait" /\ Top \in Frames /\ Top.n \in 1..Len(WaitList)
    BY TopFacts DEF Inv, WaitTurn, At, FrameOK
  <2>2. PICK e : e = WaitList[Top.n]
    OBVIOUS
  <2>3. e \in Events /\ e \in Members(WaitList)
    BY <2>1, <2>2, CallAssumption DEF Events, Members
  <2>4. Live(e) /\ Linked(e)
    BY <2>1, <2>3 DEF Inv, DataInv, Unclosed, Linked, Unlinked, CloseLabels
  <2> QED BY <1>1, <1>3, <2>2, <2>3, <2>4, CheckedKeeps
<1> QED BY <1>1, <1>2, <1>3, QuietKeeps DEF Moved

LEMMA CheckEventEndKeeps ==
  ASSUME Inv, CpuInv', NotificationsInv, CheckEventEnd
  PROVE  NotificationsInv'
<1>1. Moved /\ UNCHANGED <<gEventQueue, event, gEventSignalQueue>>
  BY CheckEventEndMoved DEF Inv, CheckEventEnd, objects
<1>2. \A x \in Events : SignalCount'[x] = 1 => SignalCount[x] = 1
  <2>1. SignalCount' = [SignalCount EXCEPT ![Top.ev] = 0] \/ UNCHANGED SignalCount
    BY DEF CheckEventEnd
  <2> QED BY <2>1 DEF Inv, NotifyInv
<1> QED BY <1>1, <1>2, CheckTimerLinked, SameQueues, StepKeeps DEF Moved

LEMMA MovedKeeps ==
  ASSUME Inv, CpuInv', NotificationsInv,
         \/ RestoreTest \/ RestoreLower \/ NotifyReturn \/ RestoreTPL \/ Relock \/ WaitForEvent
         \/ InstallProtocolInterface \/ TimerUnlock \/ \E t \in RaiseTpls : RaiseTPL(t)
  PROVE  NotificationsInv'
<1>1. Moved
  BY RestoreTestMoved, RestoreLowerMoved, NotifyReturnMoved, RestoreTPLMoved, RelockMoved,
     WaitForEventMoved, InstallMoved, TimerUnlockMoved, RaiseTPLMoved DEF Inv
<1>2. UNCHANGED <<notify, objects>>
  BY DEF RestoreTest, RestoreLower, NotifyReturn, RestoreTPL, Relock, WaitForEvent,
         InstallProtocolInterface, TimerUnlock, RaiseTPL
<1> QED BY <1>1, <1>2, QuietKeeps DEF Moved, notify

LEMMA RegisterKeeps ==
  ASSUME Inv, CpuInv', NotificationsInv, NEW e \in UserEvents, RegisterProtocolNotify(e)
  PROVE  NotificationsInv'
<1>1. Moved /\ UNCHANGED <<gEventQueue, SignalCount, event, gEventSignalQueue>>
  BY RegisterMoved DEF Inv, RegisterProtocolNotify, notify
<1> QED BY <1>1, CheckTimerLinked, SameQueues, StepKeeps DEF Moved

LEMMA CreateEventKeeps ==
  ASSUME Inv, CpuInv', NotificationsInv, NEW e \in UserEvents, NEW c \in EventClasses, CreateEvent(e, c)
  PROVE  NotificationsInv'
<1>1. /\ e \in Events /\ ~Live(e) /\ Moved /\ UNCHANGED gEventQueue
      /\ event \in [Events -> Class \cup {Free}] /\ SignalCount \in [Events -> 0..1]
      /\ gEventSignalQueue \in Seq(Events)
  BY CreateEventMoved DEF CreateEvent, Inv, Events, ObjectsInv, NotifyInv
<1>2. /\ event' = [event EXCEPT ![e] = c] /\ SignalCount' = [SignalCount EXCEPT ![e] = 0]
      /\ gEventSignalQueue' = IF "SIGNAL" \in c.type
                              THEN InsertHeadList(gEventSignalQueue, e) ELSE gEventSignalQueue
  BY DEF CreateEvent
<1>3. /\ Members(gEventSignalQueue) \subseteq Members(gEventSignalQueue')
      /\ "SIGNAL" \in c.type => e \in Members(gEventSignalQueue')
  <2>1. 1 \in 1..(Len(gEventSignalQueue) + 1)
    BY <1>1
  <2>2. Members(InsertHeadList(gEventSignalQueue, e)) = Members(gEventSignalQueue) \cup {e}
    BY <1>1, <2>1, InsertBeforeProperties DEF InsertHeadList
  <2> QED BY <1>2, <2>2
<1>4. Tracks /\ stack' \in Seq(FrameType) /\ Frames' \subseteq FrameType /\ Frames \subseteq FrameType
  BY <1>1, TracksFacts, FramesTyped DEF Moved, Inv
<1>5. \A x \in Events : /\ Live(x) => x # e /\ Live(x)'
                        /\ x # e => event'[x] = event[x] /\ SignalCount'[x] = SignalCount[x]
                        /\ Live(x)' => x = e \/ Live(x)
  BY <1>1, <1>2 DEF Live
<1>6. event'[e] = c /\ SignalCount'[e] = 0
  BY <1>1, <1>2
<1>7. \A x : Linked(x) <=> Linked(x)'
  BY <1>4 DEF Linked, Tracks, Tracked, CloseLabels, Unlinked
<1>8. \A f \in Frames : f.pc \in Pinned => f.ev \in Events /\ Live(f.ev)
  <2>1. \A f \in Frames : f.pc \in Pinned => f.ev \in Events
    BY DEF Inv, CpuInv, Shape, Frames, Members, FrameOK, Pinned, Sig, EvLabels
  <2> QED BY <2>1 DEF NotificationsInv, CallsInv
<1>9. Nest(stack, gEfiCurrentTpl)'
  <2>1. Nest(stack', gEfiCurrentTpl')
    BY <1>1 DEF Moved, Keep, NotificationsInv
  <2>2. \A f \in Members(stack') : f.pc = "call" => event'[f.ev] = event[f.ev]
    <3>1. \A f \in Members(stack') : f.pc = "call" => f \in Frames
      BY <1>4 DEF Tracks, Frames, Tracked, Pinned
    <3> QED BY <1>5, <1>8, <3>1 DEF Pinned
  <2> QED BY <1>4, <2>1, <2>2, NestNext
<1>10. ClassesInv'
  BY <1>5, <1>6 DEF NotificationsInv, ClassesInv
<1>11. QueuesInv'
  <2>1. \A t \in Tpl : \A x \in Members(gEventQueue[t]) : x \in Events
    BY DEF Inv, NotifyInv, Members
  <2> QED BY <1>1, <1>5, <1>7, <2>1 DEF NotificationsInv, QueuesInv
<1>12. CallsInv'
  <2>1. \A f \in Frames' : f.pc \in Pinned => f \in Frames
    BY <1>4 DEF Tracks, Tracked
  <2> QED BY <1>5, <1>8, <2>1 DEF NotificationsInv, CallsInv, Pinned
<1>13. ASSUME NEW x \in Events, Live(x)', IsType(x, "SIGNAL")'
       PROVE  /\ x \in Members(gEventSignalQueue') \/ ~Linked(x)'
              /\ SignalCount'[x] = 1 => Handled(x)'
  <2>1. CASE x = e
    BY <1>3, <1>6, <1>13, <2>1 DEF IsType
  <2>2. CASE x # e
    <3>1. Live(x) /\ IsType(x, "SIGNAL")
      BY <1>5, <1>13, <2>2 DEF IsType
    <3>2. Handled(x) => Handled(x)'
      BY <1>1, <1>4 DEF Handled, InQueue, Tracks, Tracked, Pinned
    <3> QED BY <1>3, <1>5, <1>7, <2>2, <3>1, <3>2 DEF NotificationsInv, SignalsInv
  <2> QED BY <2>1, <2>2
<1>14. ~At("notifyList")'
  <2>1. stack' # <<>> => stack'[Len(stack')].pc # "notifyList"
    BY <1>1 DEF Moved, Keep, NotificationsInv
  <2>2. stack' # <<>>
    BY DEF CpuInv, Shape
  <2> QED BY <2>1, <2>2 DEF At, Top
<1> QED BY <1>9, <1>10, <1>11, <1>12, <1>13, <1>14 DEF NotificationsInv, SignalsInv

\* Code that runs above a frame that is about to call a notification function runs
\* above the priority of the event.
LEMMA CallerAbove ==
  ASSUME Inv, NotificationsInv, NEW service, May(service),
         NEW i \in 1..Len(stack), stack[i].pc = "call"
  PROVE  event[stack[i].ev].tpl \in Nat /\ 0 < event[stack[i].ev].tpl /\ event[stack[i].ev].tpl < gEfiCurrentTpl
<1> DEFINE n == Len(stack)
           t == event[stack[i].ev].tpl
<1>1. /\ stack \in Seq(FrameType) /\ n \in Nat /\ n >= 1 /\ Shape(stack, gEfiCurrentTpl)
      /\ gEfiCurrentTpl \in Tpl /\ Resume(stack[n], gEfiCurrentTpl)
  BY TopFacts DEF Inv, CpuInv, Shape
<1>2. i \in 1..(n - 1) /\ i + 1 \in 1..n
  <2>1. i # n
    BY DEF May, Top
  <2> QED BY <1>1, <2>1
<1>3. /\ \A j \in 1..n : stack[j].tpl \in Tpl /\ stack[j].tpl \in Nat /\ stack[j].tpl <= stack[n].tpl
      /\ gEfiCurrentTpl \in Nat
  BY <1>1, ShapeTpl, TplFacts
<1>4. t = stack[i + 1].tpl /\ stack[i].tpl < stack[i + 1].tpl
  <2>1. Follow(stack[i], stack[i + 1].tpl)
    BY <1>2 DEF NotificationsInv, Nest
  <2>2. Resume(stack[i], stack[i + 1].tpl)
    BY <1>1, <1>2 DEF Shape
  <2> QED BY <2>1, <2>2 DEF Follow, Resume
<1>5. t \in Nat /\ 0 < t /\ t <= stack[n].tpl
  <2>1. PICK a \in Nat : a = stack[i].tpl
    BY <1>3
  <2>2. PICK b \in Nat : b = stack[i + 1].tpl
    BY <1>2, <1>3
  <2>3. a < b /\ b <= stack[n].tpl
    BY <1>2, <1>3, <1>4, <2>1, <2>2
  <2> QED BY <1>4, <2>1, <2>2, <2>3
<1>6. t < gEfiCurrentTpl
  <2>1. CASE stack[n].pc = "notify"
    <3>1. Over(stack[i], stack[n])
      BY <1>1, <1>2 DEF NotificationsInv, Nest
    <3>2. stack[n].tpl = gEfiCurrentTpl
      BY <1>1, <2>1 DEF Resume
    <3> QED BY <2>1, <3>1, <3>2 DEF Over
  <2>2. CASE stack[n].pc = "raised"
    <3>1. stack[n].tpl < gEfiCurrentTpl
      BY <1>1, <2>2 DEF Resume
    <3>2. stack[n].tpl \in Nat
      BY <1>1, <1>3
    <3> HIDE DEF t
    <3> QED BY <1>3, <1>5, <3>1, <3>2
  <2>3. stack[n].pc # "app"
    BY <1>1, <1>2 DEF Shape
  <2> QED BY <2>1, <2>2, <2>3 DEF May, Top
<1> QED BY <1>5, <1>6

LEMMA CloseEventKeeps ==
  ASSUME Inv, CpuInv', NotificationsInv, ~CloseFromAbove, NEW e \in UserEvents, CloseEvent(e)
  PROVE  NotificationsInv'
<1>1. /\ e \in Events /\ Live(e) /\ ~Busy(e) /\ CpuInv /\ QueuesInv
      /\ Keep(stack, gEfiCurrentTpl) /\ gEfiCurrentTpl \in Tpl
      /\ UNCHANGED <<gEventQueue, SignalCount, event, gEventSignalQueue>>
  BY MayKeep DEF CloseEvent, Inv, Events, NotificationsInv, objects, notify
<1>2. \A i \in 1..Len(stack) : stack[i].pc \in Pinned => stack[i].ev # e
  <2>1. SUFFICES ASSUME NEW i \in 1..Len(stack), stack[i].pc \in Pinned, stack[i].ev = e
                 PROVE  FALSE
    OBVIOUS
  <2>2. stack[i].pc = "call"
    BY <1>1, <2>1 DEF Busy, Pinned, Sig
  <2>3. /\ event[e].tpl \in Nat /\ 0 < event[e].tpl /\ event[e].tpl < gEfiCurrentTpl
        /\ gEfiCurrentTpl \in Nat
    BY <1>1, <2>1, <2>2, CallerAbove, TplFacts DEF CloseEvent
  <2>4. ~Notifies(event[e].type) => event[e].tpl = 0
    <3>1. event[e] \in EventClasses \/ event[e] = CheckTimerClass
      BY <1>1 DEF NotificationsInv, ClassesInv
    <3>2. event[e] \in EventClasses => ValidClass(event[e])
      BY EventAssumption
    <3>3. Notifies(CheckTimerClass.type)
      BY DEF Notifies, CheckTimerClass
    <3> QED BY <3>1, <3>2, <3>3 DEF ValidClass
  <2>5. gEfiCurrentTpl <= event[e].tpl
    BY <2>3, <2>4 DEF CloseEvent
  <2> QED BY <2>3, <2>5
<1>3. PICK g \in FrameType : g = Frame("closeLock", gEfiCurrentTpl, e, 0)
  BY <1>1, FrameTyped, LabelFacts
<1>4. g.pc = "closeLock" /\ g.tpl = gEfiCurrentTpl /\ g.ev = e
  BY <1>3, FrameTyped
<1>5. PICK h \in FrameType : h = RestoreFrame(gEfiCurrentTpl)
  BY <1>1, RestoreTyped
<1>6. h.pc = "test" /\ h.tpl = gEfiCurrentTpl
  BY <1>1, <1>5, RestoreTyped
<1>7. PICK w \in Seq(FrameType) :
         /\ w = Append(stack, g) /\ \A t : Nest(w, t)
         /\ w[Len(w)] = g /\ w # <<>> /\ Members(w) = Frames \cup {g}
  <2>1. (\A t : Follow(g, t)) /\ \A i \in 1..Len(stack) : Over(stack[i], g)
    BY <1>2, <1>4 DEF Follow, Over
  <2>2. PICK w : w = Append(stack, g)
    OBVIOUS
  <2>3. w \in Seq(FrameType) /\ w[Len(w)] = g /\ w # <<>>
    BY <1>1, <2>2 DEF Keep
  <2>4. stack \in Seq(FrameType) /\ Nest(stack, g.tpl) /\ (stack # <<>> => stack[Len(stack)].pc # "notifyList")
    BY <1>1, <1>4 DEF Keep, NotificationsInv
  <2>5. Members(w) = Members(stack) \cup {g}
    BY <2>2, <2>4, MembersAppend
  <2>6. \A t : Nest(Append(stack, g), t)
    BY <2>1, <2>4, NestPush
  <2> QED BY <2>2, <2>3, <2>5, <2>6 DEF Frames
<1>8. stack' = w \/ stack' = Append(w, h)
  BY <1>3, <1>5, <1>7 DEF CloseEvent, CoreRaiseTpl
<1>9. PICK v \in Seq(FrameType) :
         /\ v = Append(w, h) /\ Nest(v, gEfiCurrentTpl') /\ v[Len(v)] = h /\ v # <<>>
         /\ Members(v) = Members(w) \cup {h}
  <2>1. Follow(h, gEfiCurrentTpl') /\ \A i \in 1..Len(w) : Over(w[i], h)
    BY <1>6 DEF Follow, Over, CloseLabels
  <2>2. Nest(w, h.tpl) /\ w[Len(w)].pc # "notifyList"
    BY <1>4, <1>7
  <2> QED BY <2>1, <2>2, FramePushed
<1>10. stack' \in Seq(FrameType) /\ Nest(stack', gEfiCurrentTpl') /\ UNCHANGED <<event, gEventSignalQueue>>
  BY <1>1, <1>7, <1>8, <1>9
<1>11. PICK fs : fs = Frames'
  OBVIOUS
<1>12. Frames \cup {g} \subseteq fs /\ fs \subseteq Frames \cup {g, h} /\ ~At("notifyList")'
  BY <1>4, <1>6, <1>7, <1>8, <1>9, <1>11 DEF Frames, At, Top
<1>13. \A x \in Events : (\E d \in fs : d.pc \in Unlinked /\ d.ev = x) <=> ~Linked(x)
  BY <1>4, <1>6, <1>12 DEF Linked, Unlinked
<1>14. \A d \in fs : /\ d.pc \in Pinned => Live(d.ev)
                     /\ d.pc \in Sig => event[d.ev].group # NoGroup
  BY <1>4, <1>6, <1>12 DEF NotificationsInv, CallsInv, Pinned, Sig
<1>15. \A x \in Events : Live(x) /\ IsType(x, "SIGNAL") /\ SignalCount'[x] = 1 =>
          InQueue(x)' \/ \E d \in fs : d.pc \in Sig \cup CloseLabels /\ d.ev = x
  BY <1>1, <1>12 DEF NotificationsInv, SignalsInv, Handled, InQueue
<1>16. \A t \in Tpl :
          /\ NoDuplicates(gEventQueue'[t])
          /\ \A x \in Members(gEventQueue'[t]) : x \in Events /\ Live(x) /\ event[x].tpl = t /\ Linked(x)
  BY <1>1, QueuesTyped
<1> QED BY <1>10, <1>11, <1>12, <1>13, <1>14, <1>15, <1>16, StepSound

LEMMA CloseUnregisterKeeps ==
  ASSUME Inv, CpuInv', NotificationsInv, CloseUnregister
  PROVE  NotificationsInv'
<1>1. /\ CpuInv /\ Top.pc = "closeUnregister" /\ Top \in FrameType /\ Top \in Frames /\ QueuesInv
      /\ gEfiCurrentTpl \in Tpl /\ gEfiCurrentTpl = Top.tpl
      /\ UNCHANGED <<gEventQueue, SignalCount, event, gEventSignalQueue>>
  BY TopFacts DEF Inv, CpuInv, NotificationsInv, CloseUnregister, At, notify, Resume, CloseLabels
<1>2. PICK g \in FrameType :
         /\ g.pc \in Unlinked /\ g.tpl = Top.tpl /\ g.ev = Top.ev
         /\ stack' = Append(Replace(g), RestoreFrame(gEfiCurrentTpl))
  <2>1. \/ stack' = Append(stack, RestoreFrame(gEfiCurrentTpl))
        \/ stack' = Append(Go("closeFree"), RestoreFrame(gEfiCurrentTpl))
    BY DEF CloseUnregister, CoreRaiseTpl
  <2>2. stack = Replace(Top)
    BY <1>1, TopLast DEF Replace
  <2>3. \E g \in FrameType : Go("closeFree") = Replace(g) /\ g.pc = "closeFree" /\ g.tpl = Top.tpl /\ g.ev = Top.ev
    BY <1>1, GoTyped, LabelFacts
  <2> QED BY <1>1, <2>1, <2>2, <2>3 DEF Unlinked
<1>3. PICK h \in FrameType : h = RestoreFrame(gEfiCurrentTpl)
  BY <1>1, RestoreTyped
<1>4. h.pc = "test" /\ h.tpl = gEfiCurrentTpl
  BY <1>1, <1>3, RestoreTyped
<1>5. PICK p \in Seq(FrameType) :
         /\ p = Pop(stack) /\ Nest(p, Top.tpl) /\ (p # <<>> => p[Len(p)].pc # "notifyList")
         /\ Frames = Members(p) \cup {Top} /\ Members(p) \subseteq FrameType
         /\ \A i \in 1..Len(p) : Over(p[i], Top)
  BY Below
<1>6. PICK w \in Seq(FrameType) :
         /\ w = Append(p, g) /\ Nest(w, gEfiCurrentTpl) /\ w[Len(w)] = g /\ w # <<>>
         /\ Members(w) = Members(p) \cup {g}
  <2>1. Follow(g, gEfiCurrentTpl) /\ \A i \in 1..Len(p) : Over(p[i], g)
    BY <1>1, <1>2, <1>5 DEF Follow, Over, CloseLabels, Unlinked
  <2> QED BY <1>2, <1>5, <2>1, FramePushed
<1>7. PICK v \in Seq(FrameType) :
         /\ v = Append(w, h) /\ Nest(v, gEfiCurrentTpl') /\ v[Len(v)] = h /\ v # <<>>
         /\ Members(v) = Members(w) \cup {h}
  <2>1. Follow(h, gEfiCurrentTpl') /\ \A i \in 1..Len(w) : Over(w[i], h)
    BY <1>4 DEF Follow, Over, CloseLabels
  <2>2. Nest(w, h.tpl) /\ w[Len(w)].pc # "notifyList"
    BY <1>2, <1>4, <1>6 DEF Unlinked
  <2> QED BY <2>1, <2>2, FramePushed
<1>8. stack' = v
  BY <1>2, <1>3, <1>5, <1>6, <1>7 DEF Replace
<1>9. PICK fs : fs = Frames'
  OBVIOUS
<1>10. fs = Members(p) \cup {g, h} /\ ~At("notifyList")'
  BY <1>4, <1>6, <1>7, <1>8, <1>9 DEF Frames, At, Top
<1>11. \A x \in Events : (\E d \in fs : d.pc \in Unlinked /\ d.ev = x) <=> ~Linked(x)
  BY <1>1, <1>2, <1>4, <1>5, <1>10 DEF Linked, Unlinked
<1>12. \A d \in fs : /\ d.pc \in Pinned => Live(d.ev)
                     /\ d.pc \in Sig => event[d.ev].group # NoGroup
  BY <1>2, <1>4, <1>5, <1>10 DEF NotificationsInv, CallsInv, Pinned, Sig, Unlinked
<1>13. \A x \in Events : Live(x) /\ IsType(x, "SIGNAL") /\ SignalCount'[x] = 1 =>
          InQueue(x)' \/ \E d \in fs : d.pc \in Sig \cup CloseLabels /\ d.ev = x
  <2>1. g.pc \in Sig \cup CloseLabels
    BY <1>2 DEF Unlinked, CloseLabels
  <2> QED BY <1>1, <1>2, <1>5, <1>10, <2>1 DEF NotificationsInv, SignalsInv, Handled, InQueue
<1>14. \A t \in Tpl :
          /\ NoDuplicates(gEventQueue'[t])
          /\ \A x \in Members(gEventQueue'[t]) : x \in Events /\ Live(x) /\ event[x].tpl = t /\ Linked(x)
  BY <1>1, QueuesTyped
<1>15. stack' \in Seq(FrameType) /\ Nest(stack', gEfiCurrentTpl') /\ UNCHANGED <<event, gEventSignalQueue>>
  BY <1>1, <1>7, <1>8
<1>16. ~At("notifyList")'
  BY <1>10
<1> QED BY <1>9, <1>11, <1>12, <1>13, <1>14, <1>15, <1>16, StepSound

LEMMA CloseLockKeeps ==
  ASSUME Inv, CpuInv', NotificationsInv, CloseLock
  PROVE  NotificationsInv'
<1>1. /\ CpuInv /\ Top.pc = "closeLock" /\ Top \in FrameType /\ Top \in Frames /\ QueuesInv
      /\ gEfiCurrentTpl \in Tpl /\ gEfiCurrentTpl = Top.tpl /\ Top.ev \in Events
      /\ UNCHANGED <<SignalCount, event>> /\ gEventSignalQueue \in Seq(Events)
      /\ gEventQueue \in [Tpl -> Seq(Events)]
  BY TopFacts DEF Inv, CpuInv, NotificationsInv, CloseLock, At, Resume, FrameOK, EvLabels,
                  CloseLabels, ObjectsInv, NotifyInv
<1>2. /\ gEventQueue' = [t \in Tpl |-> RemoveEntryList(gEventQueue[t], Top.ev)]
      /\ gEventSignalQueue' = RemoveEntryList(gEventSignalQueue, Top.ev)
      /\ WithEventLock(Go("closeUnregister"))
  BY DEF CloseLock
<1>3. PICK g \in FrameType :
         Go("closeUnregister") = Replace(g) /\ g.pc = "closeUnregister" /\ g.tpl = Top.tpl /\ g.ev = Top.ev
  BY <1>1, GoTyped, LabelFacts
<1>4. PICK p \in Seq(FrameType) :
         /\ p = Pop(stack) /\ Nest(p, Top.tpl) /\ (p # <<>> => p[Len(p)].pc # "notifyList")
         /\ Frames = Members(p) \cup {Top} /\ Members(p) \subseteq FrameType
         /\ \A i \in 1..Len(p) : Over(p[i], Top)
  BY Below
<1>5. PICK w \in Seq(FrameType) :
         /\ w = Append(p, g) /\ Nest(w, gEfiCurrentTpl) /\ w[Len(w)] = g /\ w # <<>>
         /\ Members(w) = Members(p) \cup {g}
  <2>1. Follow(g, gEfiCurrentTpl) /\ \A i \in 1..Len(p) : Over(p[i], g)
    BY <1>1, <1>3, <1>4 DEF Follow, Over, CloseLabels
  <2> QED BY <1>3, <1>4, <2>1, FramePushed
<1>6. WithEventLock(w)
  BY <1>2, <1>3, <1>4, <1>5 DEF Replace
<1>7. PICK h \in FrameType : h.pc = "test" /\ Frames' = Members(w) \cup {h}
  BY <1>1, <1>3, <1>5, <1>6, LockNest
<1>8. stack' \in Seq(FrameType) /\ Nest(stack', gEfiCurrentTpl') /\ ~At("notifyList")'
  BY <1>1, <1>3, <1>5, <1>6, LockNest
<1>9. Frames' = Members(p) \cup {g, h}
  BY <1>5, <1>7
<1>10. \A x : Linked(x)' <=> Linked(x) /\ x # Top.ev
  BY <1>1, <1>3, <1>4, <1>7, <1>9 DEF Linked, Unlinked
<1>11. \A t \in Tpl :
          /\ NoDuplicates(gEventQueue'[t])
          /\ Members(gEventQueue'[t]) \subseteq Members(gEventQueue[t]) \ {Top.ev}
          /\ Members(gEventQueue[t]) \subseteq Members(gEventQueue'[t]) \cup {Top.ev}
  <2>1. ASSUME NEW t \in Tpl
        PROVE  /\ NoDuplicates(RemoveEntryList(gEventQueue[t], Top.ev))
               /\ Members(RemoveEntryList(gEventQueue[t], Top.ev)) \subseteq Members(gEventQueue[t]) \ {Top.ev}
               /\ Members(gEventQueue[t]) \subseteq Members(RemoveEntryList(gEventQueue[t], Top.ev)) \cup {Top.ev}
    <3>1. gEventQueue[t] \in Seq(Events) /\ NoDuplicates(gEventQueue[t])
      BY <1>1, <2>1 DEF QueuesInv
    <3> QED BY <3>1, RemoveEntryProperties
  <2> QED BY <1>2, <2>1
<1>12. Members(gEventSignalQueue) \subseteq Members(gEventSignalQueue') \cup {Top.ev}
  BY <1>1, <1>2, RemoveEntryProperties
<1>13. Nest(stack, gEfiCurrentTpl)'
  BY <1>1, <1>8, NestNext
<1>14. ClassesInv'
  BY <1>1 DEF NotificationsInv, ClassesInv, Live
<1>15. QueuesInv'
  BY <1>1, <1>10, <1>11 DEF QueuesInv, Live
<1>16. CallsInv'
  BY <1>1, <1>3, <1>4, <1>7, <1>9 DEF NotificationsInv, CallsInv, Pinned, Sig, Live
<1>17. ASSUME NEW x \in Events, Live(x), IsType(x, "SIGNAL")
       PROVE  /\ x \in Members(gEventSignalQueue') \/ ~Linked(x)'
              /\ SignalCount'[x] = 1 => Handled(x)'
  <2>1. x \in Members(gEventSignalQueue) \/ ~Linked(x)
    BY <1>17 DEF NotificationsInv, SignalsInv
  <2>2. g.pc \in CloseLabels /\ g \in Frames'
    BY <1>3, <1>9 DEF CloseLabels
  <2>3. CASE x = Top.ev
    BY <1>3, <1>10, <2>2, <2>3 DEF Handled
  <2>4. CASE x # Top.ev
    <3>1. InQueue(x) => InQueue(x)'
      BY <1>11, <2>4 DEF InQueue
    <3>2. SignalCount'[x] = 1 => InQueue(x) \/ \E f \in Frames : f.pc \in Sig \cup CloseLabels /\ f.ev = x
      BY <1>1, <1>17 DEF NotificationsInv, SignalsInv, Handled
    <3>3. (\E f \in Frames : f.pc \in Sig \cup CloseLabels /\ f.ev = x)
             => \E f \in Frames' : f.pc \in Sig \cup CloseLabels /\ f.ev = x
      BY <1>4, <1>9, <2>4
    <3> QED BY <1>10, <1>12, <2>1, <2>4, <3>1, <3>2, <3>3 DEF Handled
  <2> QED BY <2>3, <2>4
<1> QED BY <1>1, <1>8, <1>13, <1>14, <1>15, <1>16, <1>17 DEF NotificationsInv, SignalsInv, Live, IsType

LEMMA CloseFreeKeeps ==
  ASSUME Inv, CpuInv', NotificationsInv, CloseFree
  PROVE  NotificationsInv'
<1>1. /\ CpuInv /\ Top.pc = "closeFree" /\ Top \in FrameType /\ Top \in Frames /\ QueuesInv
      /\ gEfiCurrentTpl \in Tpl /\ gEfiCurrentTpl = Top.tpl /\ Top.ev \in Events
      /\ UNCHANGED <<gEventQueue, SignalCount, gEventSignalQueue>>
      /\ event \in [Events -> Class \cup {Free}] /\ event' = [event EXCEPT ![Top.ev] = Free]
  BY TopFacts DEF Inv, CpuInv, NotificationsInv, CloseFree, At, Resume, FrameOK, EvLabels,
                  CloseLabels, ObjectsInv, notify
<1>2. PICK h \in FrameType : h = RestoreFrame(gEfiCurrentTpl)
  BY <1>1, RestoreTyped
<1>3. h.pc = "test" /\ h.tpl = gEfiCurrentTpl
  BY <1>1, <1>2, RestoreTyped
<1>4. PICK p \in Seq(FrameType) :
         /\ p = Pop(stack) /\ Nest(p, Top.tpl) /\ (p # <<>> => p[Len(p)].pc # "notifyList")
         /\ Frames = Members(p) \cup {Top} /\ Members(p) \subseteq FrameType
         /\ \A i \in 1..Len(p) : Over(p[i], Top)
  BY Below
<1>5. PICK w \in Seq(FrameType) :
         /\ w = Append(p, h) /\ Nest(w, gEfiCurrentTpl') /\ w[Len(w)] = h /\ w # <<>>
         /\ Members(w) = Members(p) \cup {h}
  <2>1. Follow(h, gEfiCurrentTpl') /\ \A i \in 1..Len(p) : Over(p[i], h)
    BY <1>3 DEF Follow, Over, CloseLabels
  <2>2. Nest(p, h.tpl)
    BY <1>1, <1>3, <1>4
  <2> QED BY <1>4, <2>1, <2>2, FramePushed
<1>6. stack' = w
  BY <1>2, <1>4, <1>5 DEF CloseFree, CoreRaiseTpl, Replace
<1>7. Frames' = Members(p) \cup {h} /\ ~At("notifyList")'
  BY <1>3, <1>5, <1>6 DEF Frames, At, Top
<1>8. \A f \in Members(p) : f.pc \in Pinned => f.ev # Top.ev
  BY <1>1, <1>4 DEF Over, CloseLabels, Members
<1>9. \A f \in Members(p) : f.pc \in Pinned => f.ev \in Events
  <2>1. \A f \in Frames : FrameOK(f)
    BY <1>1 DEF CpuInv, Shape, Frames, Members
  <2> QED BY <1>4, <2>1 DEF FrameOK, Pinned, Sig, EvLabels
<1>10. \A x \in Events : /\ x # Top.ev => event'[x] = event[x] /\ (Live(x) <=> Live(x)')
                         /\ Live(x)' => x # Top.ev /\ Live(x)
  BY <1>1 DEF Live
<1>11. \A x : x # Top.ev => (Linked(x)' <=> Linked(x))
  BY <1>3, <1>4, <1>7 DEF Linked, Unlinked
<1>12. ~Linked(Top.ev)
  BY <1>1 DEF Linked, Unlinked
<1>13. Nest(stack, gEfiCurrentTpl)'
  <2>1. \A f \in Members(stack') : f.pc = "call" => event'[f.ev] = event[f.ev]
    BY <1>3, <1>5, <1>6, <1>8, <1>9, <1>10 DEF Pinned
  <2> QED BY <1>5, <1>6, <2>1, NestNext
<1>14. ClassesInv'
  BY <1>10 DEF NotificationsInv, ClassesInv
<1>15. QueuesInv'
  <2>1. \A t \in Tpl : \A x \in Members(gEventQueue[t]) : x \in Events /\ x # Top.ev
    BY <1>1, <1>12, QueuesTyped
  <2> QED BY <1>1, <1>10, <1>11, <2>1 DEF QueuesInv
<1>16. CallsInv'
  <2>1. \A f \in Frames' : f.pc \in Pinned =>
           f \in Members(p) /\ f.ev \in Events /\ f.ev # Top.ev /\ f \in Frames
    BY <1>3, <1>4, <1>7, <1>8, <1>9 DEF Pinned, Sig
  <2> QED BY <1>10, <2>1 DEF NotificationsInv, CallsInv, Pinned
<1>17. ASSUME NEW x \in Events, Live(x)', IsType(x, "SIGNAL")'
       PROVE  /\ x \in Members(gEventSignalQueue') \/ ~Linked(x)'
              /\ SignalCount'[x] = 1 => Handled(x)'
  <2>1. x # Top.ev /\ Live(x) /\ IsType(x, "SIGNAL")
    BY <1>10, <1>17 DEF IsType
  <2>2. Handled(x) => Handled(x)'
    BY <1>1, <1>4, <1>7, <2>1 DEF Handled, InQueue
  <2> QED BY <1>1, <1>11, <2>1, <2>2 DEF NotificationsInv, SignalsInv
<1> QED BY <1>7, <1>13, <1>14, <1>15, <1>16, <1>17 DEF NotificationsInv, SignalsInv

LEMMA NotificationsInit ==
  ASSUME Init
  PROVE  NotificationsInv
<1>1. PICK f : f = Frame("app", EFI_TPL_APPLICATION, NoEvent, 0)
  OBVIOUS
<1>2. f.pc = "app" /\ stack = <<f>> /\ Len(stack) = 1 /\ stack[1] = f
  BY <1>1, FrameTyped DEF Init
<1>3. Frames = {f} /\ Top = f
  BY <1>2 DEF Frames, Members, Top
<1>4. Nest(stack, gEfiCurrentTpl)
  BY <1>2 DEF Nest, Follow
<1>5. mEfiCheckTimerEvent \in Events
  BY DEF Events
<1>6. /\ event = [e \in Events |-> IF e = mEfiCheckTimerEvent THEN CheckTimerClass ELSE Free]
      /\ SignalCount = [e \in Events |-> 0] /\ gEventQueue = [t \in Tpl |-> <<>>]
      /\ gEventSignalQueue = <<mEfiCheckTimerEvent>>
  BY DEF Init
<1>7. ClassesInv
  BY <1>6 DEF ClassesInv, Live
<1>8. QueuesInv
  BY <1>6 DEF QueuesInv, NoDuplicates, Members
<1>9. CallsInv
  BY <1>2, <1>3 DEF CallsInv, Pinned, Sig
<1>10. SignalsInv
  <2>1. Members(gEventSignalQueue) = {mEfiCheckTimerEvent}
    BY <1>6 DEF Members
  <2> QED BY <1>2, <1>3, <1>6, <2>1 DEF SignalsInv, Live, At
<1> QED BY <1>4, <1>7, <1>8, <1>9, <1>10 DEF NotificationsInv

LEMMA StutterKeeps ==
  ASSUME NotificationsInv, UNCHANGED vars
  PROVE  NotificationsInv'
<1>1. UNCHANGED <<gEfiCurrentTpl, stack, gEventQueue, SignalCount, event, gEventSignalQueue>>
  BY DEF vars, cpu, notify, objects
<1>2. Frames' = Frames /\ Top' = Top
  BY <1>1 DEF Frames, Top
<1>3. (Nest(stack, gEfiCurrentTpl) /\ ClassesInv)'
  BY <1>1 DEF NotificationsInv, Nest, Follow, Over, ClassesInv, Live
<1>4. \A x : (Linked(x)' <=> Linked(x)) /\ (InQueue(x)' <=> InQueue(x)) /\ (Handled(x)' <=> Handled(x))
  BY <1>1, <1>2 DEF Linked, InQueue, Handled
<1>5. QueuesInv' /\ CallsInv'
  BY <1>1, <1>2, <1>4 DEF NotificationsInv, QueuesInv, CallsInv, Live
<1>6. SignalsInv'
  BY <1>1, <1>2, <1>4 DEF NotificationsInv, SignalsInv, Live, IsType, At
<1> QED BY <1>3, <1>5, <1>6 DEF NotificationsInv

\* One step, for callers that close no event above the priority of its notifications.
LEMMA NotificationsNext ==
  ASSUME Inv, Inv', ~CloseFromAbove, InstallsApart, NotificationsInv, [Next]_vars
  PROVE  NotificationsInv'
<1>1. CpuInv'
  BY DEF Inv
<1>2. CASE CoreStep
  BY <1>1, <1>2, MovedKeeps, DispatchKeeps, CallKeeps, SignalGroupKeeps, NotifyListTurn, NotifyListEnd,
     WaitTurnKeeps, CheckEventEndKeeps, CloseLockKeeps, CloseUnregisterKeeps, CloseFreeKeeps,
     NotifyEntryKeeps, SetTriggerTimeKeeps, InsertTimerKeeps, CheckTimersKeeps, CheckLoopKeeps,
     RearmKeeps, ReinsertKeeps DEF CoreStep
<1>3. CASE ServiceCall
  <2>1. ASSUME NEW e \in UserEvents, NEW type, NEW delay \in Delays \cup {0}, SetTimer(e, type, delay)
        PROVE  NotificationsInv'
    <3>1. delay \in Nat
      BY TimeAssumption
    <3> QED BY <1>1, <2>1, <3>1, SetTimerKeeps
  <2> QED BY <1>1, <1>3, <2>1, MovedKeeps, SignalEventKeeps, CheckEventKeeps, CloseEventKeeps,
             RegisterKeeps, CreateEventKeeps DEF ServiceCall
<1>4. CASE Return \/ TimerInterrupt
  BY <1>1, <1>4, MovedKeeps, TimerInterruptKeeps DEF Return
<1>5. CASE UNCHANGED vars
  BY <1>5, StutterKeeps
<1> QED BY <1>2, <1>3, <1>4, <1>5 DEF Next

LEMMA NotificationsFollow ==
  Inv /\ NotificationsInv => NotificationsSound
<1> SUFFICES ASSUME Inv, NotificationsInv PROVE NotificationsSound
  OBVIOUS
<1>1. QueuesSound
  BY DEF NotificationsInv, QueuesInv, QueuesSound
<1>2. SignalledIsQueued
  <2>1. \A e \in Events : Live(e) /\ IsType(e, "SIGNAL") /\ SignalCount[e] = 1 =>
           InQueue(e) \/ \E f \in Frames : f.pc \in Sig \cup CloseLabels /\ f.ev = e
    BY DEF NotificationsInv, SignalsInv, Handled
  <2> QED BY <2>1 DEF SignalledIsQueued, Closing, Frames, Members, Sig
<1>3. NotifiedAtItsTpl
  <2>1. \A i \in 1..Len(stack) : stack[i].pc = "call" => Live(stack[i].ev)
    BY DEF NotificationsInv, CallsInv, Frames, Members, Pinned
  <2>2. Follow(Top, gEfiCurrentTpl)
    BY TopFacts DEF Inv, NotificationsInv, Nest, Top
  <2> QED BY <2>1, <2>2 DEF NotifiedAtItsTpl, Follow, At
<1> QED BY <1>1, <1>2, <1>3 DEF NotificationsSound

\* A signal leads to one call of the event's function, and only while the event exists.  Two
\* things the callers must see to: an event is not closed above its own priority, and
\* CoreNotifyProtocolEntry meets no event whose close has taken it off gEventSignalQueue.
THEOREM Notifications ==
  ~CloseFromAbove => (Spec /\ []InstallsApart => []NotificationsSound)
<1> SUFFICES ASSUME ~CloseFromAbove PROVE Spec /\ []InstallsApart => []NotificationsSound
  OBVIOUS
<1>1. Init => NotificationsInv
  BY NotificationsInit
<1>2. Inv /\ Inv' /\ InstallsApart /\ NotificationsInv /\ [Next]_vars => NotificationsInv'
  BY NotificationsNext
<1> QED BY <1>1, <1>2, NotificationsFollow, Invariance, PTL DEF Spec
-----------------------------------------------------------------------------
(* The timer list.                                                         *)

\* The list is sorted by the times t.
Sorted(list, t) == \A i, j \in 1..Len(list) : i < j => t[list[i]] <= t[list[j]]

LEMMA SortedRemove ==
  ASSUME NEW S, NEW list \in Seq(S), NEW t, Sorted(list, t), NEW k \in 1..Len(list)
  PROVE  Sorted(RemoveAtIndex(list, k), t)
<1>1. Len(list) \in Nat
  OBVIOUS
<1>2. PICK new : new = RemoveAtIndex(list, k)
  OBVIOUS
<1>3. /\ Len(new) = Len(list) - 1
      /\ \A i \in 1..(Len(list) - 1) : new[i] = list[IF i < k THEN i ELSE i + 1]
  <2>1. Len(new) = Len(list) - 1
    BY <1>2, RemoveAtIndexProperties
  <2> QED BY <1>1, <1>2, <2>1 DEF RemoveAtIndex
<1>4. ASSUME NEW i \in 1..Len(new), NEW j \in 1..Len(new), i < j
      PROVE  t[new[i]] <= t[new[j]]
  <2>1. PICK a \in 1..Len(list) : a = IF i < k THEN i ELSE i + 1
    BY <1>1, <1>3
  <2>2. PICK b \in 1..Len(list) : b = IF j < k THEN j ELSE j + 1
    BY <1>1, <1>3
  <2>3. a < b
    BY <1>1, <1>3, <1>4, <2>1, <2>2
  <2>4. new[i] = list[a] /\ new[j] = list[b]
    BY <1>1, <1>3, <2>1, <2>2
  <2> QED BY <2>3, <2>4 DEF Sorted
<1> QED BY <1>2, <1>4 DEF Sorted

LEMMA SortedRemoveEntry ==
  ASSUME NEW S, NEW list \in Seq(S), NEW t, Sorted(list, t), NEW x
  PROVE  Sorted(RemoveEntryList(list, x), t)
<1>1. CASE x \in Members(list)
  <2>1. PICK k : k = CHOOSE i \in 1..Len(list) : list[i] = x
    OBVIOUS
  <2>2. k \in 1..Len(list)
    BY <1>1, <2>1 DEF Members
  <2>3. RemoveEntryList(list, x) = RemoveAtIndex(list, k)
    BY <1>1, <2>1 DEF RemoveEntryList
  <2> QED BY <2>2, <2>3, SortedRemove
<1>2. CASE x \notin Members(list)
  BY <1>2 DEF RemoveEntryList
<1> QED BY <1>1, <1>2

\* Only the times of the entries matter.
LEMMA SortedSame ==
  ASSUME NEW list, NEW t, NEW u, Sorted(list, t), \A e \in Members(list) : u[e] = t[e]
  PROVE  Sorted(list, u)
BY DEF Sorted, Members

\* An entry is linked in front of all that are later, behind all that are not.
LEMMA SortedInsert ==
  ASSUME NEW S, NEW list \in Seq(S), NEW t \in [S -> Nat], Sorted(list, t), NEW x \in S,
         NEW k \in 1..(Len(list) + 1),
         \A i \in 1..Len(list) : (i < k => t[list[i]] <= t[x]) /\ (k <= i => t[x] <= t[list[i]])
  PROVE  Sorted(InsertBefore(list, k, x), t)
<1>1. Len(list) \in Nat
  OBVIOUS
<1>2. PICK new : new = InsertBefore(list, k, x)
  OBVIOUS
<1>3. Len(new) = Len(list) + 1
  BY <1>2, InsertBeforeProperties
<1>4. ASSUME NEW i \in 1..Len(new)
      PROVE  /\ i < k => i \in 1..Len(list) /\ new[i] = list[i]
             /\ i = k => new[i] = x
             /\ i > k => i - 1 \in 1..Len(list) /\ new[i] = list[i - 1]
  <2>1. i \in 1..(Len(list) + 1)
    BY <1>3
  <2>2. new[i] = IF i < k THEN list[i] ELSE IF i = k THEN x ELSE list[i - 1]
    BY <1>2, <2>1 DEF InsertBefore
  <2> QED BY <1>1, <2>1, <2>2
<1>5. ASSUME NEW i \in 1..Len(new), NEW j \in 1..Len(new), i < j
      PROVE  t[new[i]] <= t[new[j]]
  <2>1. CASE j < k
    <3>1. i < k /\ i \in 1..Len(list) /\ j \in 1..Len(list)
      BY <1>1, <1>3, <1>4, <1>5, <2>1
    <3> QED BY <1>4, <1>5, <2>1, <3>1 DEF Sorted
  <2>2. CASE j = k
    <3>1. i < k
      BY <1>5, <2>2
    <3> QED BY <1>4, <2>2, <3>1
  <2>3. CASE j > k
    <3>1. j - 1 \in 1..Len(list) /\ new[j] = list[j - 1] /\ k <= j - 1
      BY <1>1, <1>3, <1>4, <2>3
    <3>2. CASE i < k
      <4>1. i \in 1..Len(list) /\ new[i] = list[i] /\ i < j - 1
        BY <1>1, <1>3, <1>4, <3>1, <3>2
      <4> QED BY <3>1, <4>1 DEF Sorted
    <3>3. CASE i = k
      BY <1>4, <3>1, <3>3
    <3>4. CASE i > k
      <4>1. i - 1 \in 1..Len(list) /\ new[i] = list[i - 1] /\ i - 1 < j - 1
        BY <1>1, <1>3, <1>4, <1>5, <3>4
      <4> QED BY <3>1, <4>1 DEF Sorted
    <3> QED BY <1>1, <1>3, <3>2, <3>3, <3>4
  <2> QED BY <1>1, <1>3, <2>1, <2>2, <2>3
<1> QED BY <1>2, <1>5 DEF Sorted

\* CoreInsertEventTimer keeps the list sorted.
LEMMA InsertTimerSorted ==
  ASSUME TimeInv, NEW e \in Events, CoreInsertEventTimer(e), Sorted(mEfiTimerList, TriggerTime)
  PROVE  Sorted(mEfiTimerList', TriggerTime)
<1> DEFINE later == {k \in 1..Len(mEfiTimerList) : TriggerTime[mEfiTimerList[k]] > TriggerTime[e]}
          k     == IF later = {} THEN Len(mEfiTimerList) + 1
                   ELSE CHOOSE i \in later : \A j \in later : i <= j
<1>1. mEfiTimerList \in Seq(Events) /\ Len(mEfiTimerList) \in Nat
  BY DEF TimeInv
<1>2. TriggerTime \in [Events -> Nat]
  BY TimeAssumption DEF TimeInv
<1>3. \A i \in 1..Len(mEfiTimerList) : mEfiTimerList[i] \in Events
  BY <1>1
<1>4. \A i \in 1..Len(mEfiTimerList) :
        /\ TriggerTime[mEfiTimerList[i]] \in Nat
        /\ i \notin later <=> TriggerTime[mEfiTimerList[i]] <= TriggerTime[e]
  BY <1>2, <1>3
<1>5. later \subseteq 1..Len(mEfiTimerList) /\ TriggerTime[e] \in Nat
  BY <1>2
<1>6. mEfiTimerList' = InsertBefore(mEfiTimerList, k, e)
  BY DEF CoreInsertEventTimer
<1> HIDE DEF later
<1>7. /\ k \in 1..(Len(mEfiTimerList) + 1)
      /\ \A i \in 1..Len(mEfiTimerList) :
           /\ i < k => TriggerTime[mEfiTimerList[i]] <= TriggerTime[e]
           /\ k <= i => TriggerTime[e] <= TriggerTime[mEfiTimerList[i]]
  <2>1. CASE later = {}
    BY <1>1, <1>4, <2>1
  <2>2. CASE later # {}
    <3>1. \E i \in later : \A j \in later : i <= j
      <4>1. later \subseteq Nat
        BY <1>1, <1>5
      <4> QED BY <2>2, <4>1, LowestExists
    <3>2. k \in later /\ \A j \in later : k <= j
      BY <2>2, <3>1
    <3> HIDE DEF k
    <3>3. k \in 1..Len(mEfiTimerList)
      BY <1>5, <3>2
    <3>4. ASSUME NEW i \in 1..Len(mEfiTimerList)
          PROVE  /\ i < k => TriggerTime[mEfiTimerList[i]] <= TriggerTime[e]
                 /\ k <= i => TriggerTime[e] <= TriggerTime[mEfiTimerList[i]]
      <4>1. i < k => i \notin later
        BY <1>1, <3>2, <3>3
      <4>2. TriggerTime[e] <= TriggerTime[mEfiTimerList[k]]
        BY <1>4, <1>5, <3>2, <3>3
      <4>3. k <= i => TriggerTime[mEfiTimerList[k]] <= TriggerTime[mEfiTimerList[i]]
        BY <1>1, <1>4, <3>3 DEF Sorted
      <4> QED BY <1>4, <1>5, <3>3, <4>1, <4>2, <4>3
    <3> QED BY <1>1, <3>3, <3>4
  <2> QED BY <2>1, <2>2
<1> HIDE DEF k
<1> QED BY <1>1, <1>2, <1>6, <1>7, SortedInsert

\* The time of an event that is not on the list changes.
LEMMA SortedOthers ==
  ASSUME TimeInv, NEW list, NEW e, NEW v, Sorted(list, TriggerTime), Members(list) \subseteq Events,
         e \notin Members(list), TriggerTime' = [TriggerTime EXCEPT ![e] = v]
  PROVE  Sorted(list, TriggerTime')
<1>1. \A d \in Members(list) : TriggerTime'[d] = TriggerTime[d]
  BY DEF TimeInv
<1> QED BY <1>1, SortedSame

LEMMA ListTyped ==
  ASSUME TimeInv
  PROVE  mEfiTimerList \in Seq(Events) /\ Members(mEfiTimerList) \subseteq Events
BY DEF TimeInv, Members

\* A timer is taken off the list and its time is cleared.
LEMMA SortedCancel ==
  ASSUME TimeInv, DataInv, Sorted(mEfiTimerList, TriggerTime), NEW e,
         mEfiTimerList' = RemoveEntryList(mEfiTimerList, e),
         TriggerTime' = [TriggerTime EXCEPT ![e] = 0]
  PROVE  Sorted(mEfiTimerList', TriggerTime')
<1>1. mEfiTimerList \in Seq(Events) /\ NoDuplicates(mEfiTimerList)
  BY ListTyped DEF DataInv
<1>2. PICK list : list = RemoveEntryList(mEfiTimerList, e)
  OBVIOUS
<1>3. Sorted(list, TriggerTime) /\ Members(list) \subseteq Events /\ e \notin Members(list)
  BY <1>1, <1>2, ListTyped, SortedRemoveEntry, RemoveEntryProperties
<1> QED BY <1>2, <1>3, SortedOthers

\* What a step leaves of the timer list when it links nothing.
LEMMA SortedKept ==
  ASSUME Sorted(mEfiTimerList, TriggerTime), UNCHANGED <<mEfiTimerList, TriggerTime>>
  PROVE  Sorted(mEfiTimerList', TriggerTime')
OBVIOUS

LEMMA SetTimerSorted ==
  ASSUME Inv, Sorted(mEfiTimerList, TriggerTime), NEW e, NEW type, NEW delay, SetTimer(e, type, delay)
  PROVE  Sorted(mEfiTimerList', TriggerTime')
BY SortedCancel DEF Inv, SetTimer

LEMMA CloseEventSorted ==
  ASSUME Inv, Sorted(mEfiTimerList, TriggerTime), NEW e, CloseEvent(e)
  PROVE  Sorted(mEfiTimerList', TriggerTime')
<1>1. CASE IsType(e, "TIMER")
  BY <1>1, SortedCancel DEF Inv, CloseEvent
<1>2. CASE ~IsType(e, "TIMER")
  BY <1>2 DEF CloseEvent
<1> QED BY <1>1, <1>2

LEMMA CreateEventSorted ==
  ASSUME Inv, Sorted(mEfiTimerList, TriggerTime), NEW e, NEW c, CreateEvent(e, c)
  PROVE  Sorted(mEfiTimerList', TriggerTime')
<1>1. e \notin Members(mEfiTimerList)
  BY DEF Inv, DataInv, Armable, Unclosed, CreateEvent
<1>2. TriggerTime' = [TriggerTime EXCEPT ![e] = 0] /\ mEfiTimerList' = mEfiTimerList
  BY DEF CreateEvent
<1>3. TimeInv
  BY DEF Inv
<1> QED BY <1>1, <1>2, <1>3, ListTyped, SortedOthers

\* The event that the owner of the timer lock works on is not on the list.
LEMMA LinkFacts ==
  ASSUME Inv, Top.pc \in LinkPc
  PROVE  /\ TimeInv /\ Top.ev \in Events /\ Top.ev \notin Members(mEfiTimerList)
         /\ Top \in Frames /\ Top.n \in Nat /\ Members(Pop(stack)) \subseteq Frames
         /\ \A f \in Members(Pop(stack)) : f.pc \notin LinkPc
<1>1. Top.pc \in Holders
  BY DEF LinkPc, Holders, TimerLockOwners
<1> QED BY <1>1, OwnerFacts DEF DataInv

LEMMA SetTriggerTimeSorted ==
  ASSUME Inv, Sorted(mEfiTimerList, TriggerTime), SetTriggerTime
  PROVE  Sorted(mEfiTimerList', TriggerTime')
<1>1. TimeInv /\ Top.ev \notin Members(mEfiTimerList)
  BY LinkFacts DEF SetTriggerTime, At, LinkPc
<1>2. PICK e, v : /\ e = Top.ev /\ mEfiTimerList' = mEfiTimerList
                  /\ TriggerTime' = [TriggerTime EXCEPT ![e] = v]
  BY DEF SetTriggerTime
<1> QED BY <1>1, <1>2, ListTyped, SortedOthers

LEMMA RearmSorted ==
  ASSUME Inv, Sorted(mEfiTimerList, TriggerTime), Rearm
  PROVE  Sorted(mEfiTimerList', TriggerTime')
<1>1. TimeInv /\ Top.ev \notin Members(mEfiTimerList)
  BY LinkFacts DEF Rearm, At, LinkPc
<1>2. CASE Period[Top.ev] = 0
  BY <1>2 DEF Rearm
<1>3. CASE Period[Top.ev] # 0
  <2>1. PICK e, v : /\ e = Top.ev /\ mEfiTimerList' = mEfiTimerList
                    /\ TriggerTime' = [TriggerTime EXCEPT ![e] = v]
    BY <1>3 DEF Rearm
  <2> QED BY <1>1, <2>1, ListTyped, SortedOthers
<1> QED BY <1>2, <1>3

LEMMA LinkSorted ==
  ASSUME Inv, Sorted(mEfiTimerList, TriggerTime), InsertTimer \/ Reinsert
  PROVE  Sorted(mEfiTimerList', TriggerTime')
<1>1. /\ Top.pc \in LinkPc /\ CoreInsertEventTimer(Top.ev) /\ TriggerTime' = TriggerTime
  BY DEF InsertTimer, Reinsert, At, LinkPc
<1>2. TimeInv /\ Top.ev \in Events
  BY <1>1, LinkFacts
<1>3. Sorted(mEfiTimerList', TriggerTime)
  BY <1>1, <1>2, InsertTimerSorted
<1> QED BY <1>1, <1>3

LEMMA CheckLoopSorted ==
  ASSUME Inv, Sorted(mEfiTimerList, TriggerTime), CheckLoop
  PROVE  Sorted(mEfiTimerList', TriggerTime')
<1>1. mEfiTimerList \in Seq(Events) /\ TriggerTime' = TriggerTime
  BY ListTyped DEF Inv, CheckLoop
<1>2. CASE mEfiTimerList # <<>> /\ TriggerTime[mEfiTimerList[1]] <= Top.n
  <2>1. 1 \in 1..Len(mEfiTimerList)
    BY <1>1, <1>2
  <2>2. mEfiTimerList' = RemoveAtIndex(mEfiTimerList, 1)
    BY <1>2 DEF CheckLoop
  <2>3. PICK list : list = RemoveAtIndex(mEfiTimerList, 1)
    OBVIOUS
  <2>4. Sorted(list, TriggerTime)
    BY <1>1, <2>1, <2>3, SortedRemove
  <2> QED BY <1>1, <2>2, <2>3, <2>4
<1>3. CASE ~(mEfiTimerList # <<>> /\ TriggerTime[mEfiTimerList[1]] <= Top.n)
  BY <1>1, <1>3 DEF CheckLoop
<1> QED BY <1>2, <1>3

\* The actions that change no timer.
TimersStay == UNCHANGED <<timer, mEfiSystemTime>>
NoTimerStep ==
  \/ RestoreTest \/ RestoreLower \/ Dispatch \/ Call
  \/ SignalGroup \/ NotifyList \/ Relock
  \/ WaitTurn \/ CheckEventEnd
  \/ CloseLock \/ CloseUnregister \/ CloseFree
  \/ NotifyEntry \/ TimerUnlock \/ CheckTimers
NoTimerCall ==
  \/ \E t \in RaiseTpls : RaiseTPL(t)
  \/ WaitForEvent
  \/ InstallProtocolInterface
  \/ \E e \in UserEvents : SignalEvent(e) \/ CheckEvent(e) \/ RegisterProtocolNotify(e)

LEMMA NoTimerStay ==
  ASSUME NoTimerStep \/ NoTimerCall \/ Return
  PROVE  TimersStay
<1>1. CASE NoTimerStep
  BY <1>1 DEF NoTimerStep, RestoreTest, RestoreLower, Dispatch, Call, SignalGroup, NotifyList, Relock,
     WaitTurn, CheckEventEnd, CloseLock, CloseUnregister, CloseFree, NotifyEntry, TimerUnlock,
     CheckTimers, TimersStay
<1>2. CASE NoTimerCall
  BY <1>2 DEF NoTimerCall, RaiseTPL, WaitForEvent, InstallProtocolInterface, SignalEvent, CheckEvent,
     RegisterProtocolNotify, TimersStay
<1>3. CASE Return
  BY <1>3 DEF Return, NotifyReturn, RestoreTPL, TimersStay
<1> QED BY <1>1, <1>2, <1>3

\* The list stays sorted.
LEMMA SortedNext ==
  ASSUME Inv, Sorted(mEfiTimerList, TriggerTime), [Next]_vars
  PROVE  Sorted(mEfiTimerList', TriggerTime')
<1>1. CASE NoTimerStep \/ NoTimerCall \/ Return
  BY <1>1, NoTimerStay, SortedKept DEF TimersStay, timer
<1>2. CASE TimerInterrupt \/ UNCHANGED vars
  BY <1>2, SortedKept DEF TimerInterrupt, vars, timer
<1>3. CASE SetTriggerTime \/ InsertTimer \/ CheckLoop \/ Rearm \/ Reinsert
  BY <1>3, SetTriggerTimeSorted, LinkSorted, CheckLoopSorted, RearmSorted
<1>4. ASSUME NEW e, CloseEvent(e) \/ (\E c : CreateEvent(e, c)) \/ (\E type, delay : SetTimer(e, type, delay))
      PROVE  Sorted(mEfiTimerList', TriggerTime')
  BY <1>4, SetTimerSorted, CloseEventSorted, CreateEventSorted
<1>5. Next => \/ NoTimerStep \/ NoTimerCall \/ Return \/ TimerInterrupt
              \/ SetTriggerTime \/ InsertTimer \/ CheckLoop \/ Rearm \/ Reinsert
              \/ \E e : CloseEvent(e) \/ (\E c : CreateEvent(e, c)) \/ (\E type, delay : SetTimer(e, type, delay))
  BY DEF Next, CoreStep, ServiceCall, NoTimerStep, NoTimerCall
<1> QED BY <1>1, <1>2, <1>3, <1>4, <1>5

\* The timer list is sorted by trigger time and holds allocated timer events, each once.
THEOREM TimerList == Spec => []TimerListSound
<1>1. Init => Sorted(mEfiTimerList, TriggerTime)
  BY DEF Init, Sorted
<1>2. Inv /\ Sorted(mEfiTimerList, TriggerTime) /\ [Next]_vars
        => Sorted(mEfiTimerList, TriggerTime)'
  BY SortedNext
<1>3. Inv /\ Sorted(mEfiTimerList, TriggerTime) => TimerListSound
  <2> SUFFICES ASSUME Inv, Sorted(mEfiTimerList, TriggerTime) PROVE TimerListSound
    OBVIOUS
  <2>1. /\ mEfiTimerList \in Seq(Events) /\ Len(mEfiTimerList) \in Nat
        /\ TriggerTime \in [Events -> Nat] /\ NoDuplicates(mEfiTimerList)
    BY TimeAssumption DEF Inv, TimeInv, DataInv
  <2>2. ASSUME NEW i \in 1..Len(mEfiTimerList)
        PROVE  /\ Live(mEfiTimerList[i]) /\ IsType(mEfiTimerList[i], "TIMER")
               /\ \A j \in 1..i : TriggerTime[mEfiTimerList[j]] <= TriggerTime[mEfiTimerList[i]]
    <3>1. Armable(mEfiTimerList[i])
      BY DEF Inv, DataInv, Members
    <3>2. TriggerTime[mEfiTimerList[i]] \in Nat
      BY <2>1
    <3>3. \A j \in 1..i : j \in 1..Len(mEfiTimerList) /\ (j < i \/ j = i)
      BY <2>1
    <3> QED BY <3>1, <3>2, <3>3 DEF Armable, Unclosed, Sorted
  <2> QED BY <2>1, <2>2 DEF TimerListSound
<1> QED BY <1>1, <1>2, <1>3, Invariance, PTL DEF Spec

-----------------------------------------------------------------------------
(* No timer is early.                                                      *)

\* s is a stack with no frame of a timer service that the processor's stack does not hold.
TidySeq(s) == s \in Seq(FrameType) /\ Tidy(s)

LEMMA TidyStack ==
  ASSUME CpuInv
  PROVE  TidySeq(stack) /\ TidySeq(Pop(stack))
BY TopLast, KeepStack, KeepPop DEF TidySeq

LEMMA TidyAppend ==
  ASSUME NEW s, TidySeq(s), NEW g \in FrameType, g.pc \notin TimerPc
  PROVE  TidySeq(Append(s, g))
<1>1. Append(s, g) \in Seq(FrameType) /\ Members(Append(s, g)) = Members(s) \cup {g}
  BY MembersAppend DEF TidySeq
<1> QED BY <1>1 DEF TidySeq, Tidy

LEMMA TidyReplace ==
  ASSUME CpuInv, NEW g \in FrameType, g.pc \notin TimerPc
  PROVE  TidySeq(Replace(g))
BY TidyStack, TidyAppend DEF Replace

LEMMA TidyGo ==
  ASSUME CpuInv, NEW pc \in Labels \ TimerPc
  PROVE  TidySeq(Go(pc))
<1>1. PICK g \in FrameType : Go(pc) = Replace(g) /\ g.pc = pc
  BY GoTyped
<1> QED BY <1>1, TidyReplace

LEMMA TidyPush ==
  ASSUME NEW s, TidySeq(s), NEW pc \in Labels \ TimerPc, NEW t \in Tpl,
         NEW ev \in Events \cup {NoEvent}, NEW n \in Nat
  PROVE  TidySeq(Append(s, Frame(pc, t, ev, n)))
<1>1. PICK g \in FrameType : g = Frame(pc, t, ev, n)
  BY FrameTyped
<1>2. g.pc = pc
  BY <1>1, FrameTyped
<1> QED BY <1>1, <1>2, TidyAppend

LEMMA TidyRestore ==
  ASSUME NEW s, TidySeq(s), NEW t \in Tpl
  PROVE  TidySeq(Append(s, RestoreFrame(t)))
<1>1. PICK g \in FrameType : g = RestoreFrame(t) /\ g.pc \notin TimerPc
  BY RestoreTyped
<1> QED BY <1>1, TidyAppend

LEMMA TidyLock ==
  ASSUME CpuInv, NEW s, TidySeq(s), WithEventLock(s)
  PROVE  TidySeq(stack')
BY TidyRestore DEF CpuInv, WithEventLock

LEMMA TidySignal ==
  ASSUME CpuInv, NEW s, TidySeq(s), NEW e \in Events, CoreSignalEvent(e, s)
  PROVE  TidySeq(stack')
<1>1. gEfiCurrentTpl \in Tpl /\ "signalGroup" \in Labels \ TimerPc
  BY LabelFacts DEF CpuInv, TimerPc
<1>2. TidySeq(Append(s, Frame("signalGroup", gEfiCurrentTpl, e, 0)))
  BY <1>1, TidyPush
<1>3. PICK z : WithEventLock(z) /\ (z = s \/ z = Append(s, Frame("signalGroup", gEfiCurrentTpl, e, 0)))
  BY DEF CoreSignalEvent
<1> QED BY <1>2, <1>3, TidyLock

LEMMA FreeLabels ==
  {"dispatch", "call", "notify", "checkTimers", "notifyList", "relock", "closeLock",
   "closeUnregister", "closeFree", "test", "lower", "notifyEntry"} \subseteq Labels \ TimerPc
BY DEF Labels, TimerPc

LEMMA DispatchTidy ==
  ASSUME Inv, Dispatch
  PROVE  TidySeq(stack')
<1>1. CpuInv /\ Top \in FrameType /\ gEfiCurrentTpl \in Tpl /\ gEventQueue[gEfiCurrentTpl] \in Seq(Events)
  BY TopFacts DEF Inv, CpuInv, NotifyInv
<1>2. CASE gEventQueue[gEfiCurrentTpl] = <<>>
  BY <1>1, <1>2, TidyGo, TidyLock, FreeLabels DEF Dispatch
<1>3. CASE gEventQueue[gEfiCurrentTpl] # <<>>
  <2>1. PICK e : e = gEventQueue[gEfiCurrentTpl][1]
    OBVIOUS
  <2>2. e \in Events
    BY <1>1, <1>3, <2>1
  <2>3. PICK g \in FrameType : g = [Top EXCEPT !.pc = "call", !.ev = e]
    BY <1>1, <2>2, Edited, LabelFacts DEF FrameType
  <2>4. g.pc = "call"
    BY <1>1, <2>3 DEF FrameType
  <2>5. WithEventLock(Replace(g))
    BY <1>3, <2>1, <2>3 DEF Dispatch
  <2> QED BY <1>1, <2>4, <2>5, TidyReplace, TidyLock, FreeLabels
<1> QED BY <1>2, <1>3

LEMMA CallTidy ==
  ASSUME Inv, Call
  PROVE  TidySeq(stack')
<1>1. /\ CpuInv /\ Top \in FrameType /\ Top.ev \in Events \cup {NoEvent} /\ gEfiCurrentTpl \in Tpl
  BY TopFacts DEF Inv, CpuInv
<1>2. PICK f \in FrameType : f = [Top EXCEPT !.pc = "dispatch", !.ev = NoEvent]
  BY <1>1, Edited, LabelFacts
<1>3. f.pc = "dispatch"
  BY <1>1, <1>2 DEF FrameType
<1>4. PICK pc \in {"checkTimers", "notify"} : stack' = Append(Replace(f), Frame(pc, gEfiCurrentTpl, Top.ev, 0))
  BY <1>2 DEF Call
<1>5. TidySeq(Replace(f))
  BY <1>1, <1>3, TidyReplace, FreeLabels
<1> QED BY <1>1, <1>4, <1>5, TidyPush, FreeLabels

LEMMA SignalGroupTidy ==
  ASSUME Inv, SignalGroup
  PROVE  TidySeq(stack')
<1>1. CpuInv /\ Top \in FrameType
  BY TopFacts DEF Inv
<1>2. PICK f \in FrameType : f = [Top EXCEPT !.pc = "notifyList", !.n = 1]
  BY <1>1, Edited, LabelFacts
<1>3. f.pc = "notifyList"
  BY <1>1, <1>2 DEF FrameType
<1>4. stack' = Replace(f)
  BY <1>2 DEF SignalGroup, CoreRaiseTpl
<1> QED BY <1>1, <1>3, <1>4, TidyReplace, FreeLabels

\* A frame that only counts on.
LEMMA CountTidy ==
  ASSUME CpuInv, Top.pc \notin TimerPc
  PROVE  TidySeq(Replace([Top EXCEPT !.n = @ + 1]))
<1>1. Top \in FrameType /\ Top.n \in Nat
  BY TopFacts
<1>2. PICK f \in FrameType : f = [Top EXCEPT !.n = @ + 1]
  <2>1. PICK m \in Nat : m = Top.n + 1
    BY <1>1
  <2>2. [Top EXCEPT !.n = @ + 1] = [Top EXCEPT !.n = m]
    BY <1>1, <2>1
  <2>3. [Top EXCEPT !.n = m] \in FrameType
    BY <1>1, <2>1 DEF FrameType
  <2> QED BY <2>2, <2>3
<1>3. f.pc = Top.pc
  BY <1>1, <1>2 DEF FrameType
<1> QED BY <1>2, <1>3, TidyReplace

LEMMA NotifyListTidy ==
  ASSUME Inv, NotifyList
  PROVE  TidySeq(stack')
<1>1. CpuInv /\ Top.tpl \in Tpl /\ Top.pc \notin TimerPc
  BY TopFacts DEF Inv, NotifyList, At, TimerPc
<1>2. TidySeq(Append(Go("relock"), RestoreFrame(Top.tpl)))
  BY <1>1, TidyGo, TidyRestore, FreeLabels
<1> QED BY <1>1, <1>2, CountTidy DEF NotifyList

LEMMA NotifyEntryTidy ==
  ASSUME Inv, NotifyEntry
  PROVE  TidySeq(stack')
<1>1. CpuInv /\ Top.tpl \in Tpl /\ Top.pc \notin TimerPc /\ Top.n \in Nat
  BY TopFacts DEF Inv, NotifyEntry, At, TimerPc
<1>2. CASE Top.n <= Len(ProtNotify)
  <2>1. PICK e : e = ProtNotify[Top.n]
    OBVIOUS
  <2>2. e \in Events
    BY <1>1, <1>2, <2>1, TopFacts DEF Inv, ObjectsInv, FrameOK, NotifyEntry, At
  <2>3. CoreSignalEvent(e, Replace([Top EXCEPT !.n = @ + 1]))
    BY <1>2, <2>1 DEF NotifyEntry
  <2> QED BY <1>1, <2>2, <2>3, CountTidy, TidySignal
<1>3. CASE ~(Top.n <= Len(ProtNotify))
  <2>1. stack' = Append(Pop(stack), RestoreFrame(Top.tpl))
    BY <1>3 DEF NotifyEntry, Replace
  <2> QED BY <1>1, <2>1, TidyStack, TidyRestore
<1> QED BY <1>2, <1>3

LEMMA CloseTidy ==
  ASSUME Inv, CloseLock \/ CloseUnregister \/ CloseFree
  PROVE  TidySeq(stack')
<1>1. CpuInv /\ gEfiCurrentTpl \in Tpl /\ TidySeq(stack) /\ TidySeq(Pop(stack))
  BY TidyStack DEF Inv, CpuInv
<1>2. TidySeq(Go("closeUnregister")) /\ TidySeq(Go("closeFree"))
  BY <1>1, TidyGo, FreeLabels
<1>3. CASE CloseLock
  BY <1>1, <1>2, <1>3, TidyLock DEF CloseLock
<1>4. CASE CloseUnregister
  <2>1. PICK z : (z = stack \/ z = Go("closeFree")) /\ stack' = Append(z, RestoreFrame(gEfiCurrentTpl))
    BY <1>4 DEF CloseUnregister, CoreRaiseTpl
  <2> QED BY <1>1, <1>2, <2>1, TidyRestore
<1>5. CASE CloseFree
  <2>1. stack' = Append(Pop(stack), RestoreFrame(gEfiCurrentTpl))
    BY <1>5 DEF CloseFree, CoreRaiseTpl, Replace
  <2> QED BY <1>1, <2>1, TidyRestore
<1> QED BY <1>3, <1>4, <1>5

LEMMA CloseEventTidy ==
  ASSUME Inv, NEW e \in UserEvents, CloseEvent(e)
  PROVE  TidySeq(stack')
<1>1. /\ CpuInv /\ gEfiCurrentTpl \in Tpl /\ TidySeq(stack)
      /\ e \in Events
  BY TidyStack DEF Inv, CpuInv, Events
<1>2. TidySeq(Append(stack, Frame("closeLock", gEfiCurrentTpl, e, 0)))
  BY <1>1, TidyPush, FreeLabels
<1>3. PICK w : w = Append(stack, Frame("closeLock", gEfiCurrentTpl, e, 0))
  OBVIOUS
<1>4. stack' = w \/ stack' = Append(w, RestoreFrame(gEfiCurrentTpl))
  BY <1>3 DEF CloseEvent, CoreRaiseTpl
<1> QED BY <1>1, <1>2, <1>3, <1>4, TidyRestore

LEMMA TimerInterruptTidy ==
  ASSUME Inv, TimerInterrupt
  PROVE  TidySeq(stack')
<1>1. CpuInv /\ TidySeq(stack) /\ mEfiCheckTimerEvent \in Events
  BY TidyStack, CheckTimerLive DEF Inv
<1>2. CoreSignalEvent(mEfiCheckTimerEvent, stack) \/ WithEventLock(stack)
  BY DEF TimerInterrupt
<1> QED BY <1>1, <1>2, TidySignal, TidyLock

\* No step of these starts the work of a timer service.
LEMMA NoTimerTidy ==
  ASSUME Inv, NoTimerStep \/ NoTimerCall \/ Return, ~CheckTimers
  PROVE  Tidy(stack')
<1>1. CpuInv /\ TidySeq(stack)
  BY TidyStack DEF Inv
<1>2. CASE Dispatch \/ Call \/ SignalGroup \/ NotifyList \/ CloseLock \/ CloseUnregister \/ CloseFree \/ NotifyEntry
  BY <1>2, DispatchTidy, CallTidy, SignalGroupTidy, NotifyListTidy, CloseTidy, NotifyEntryTidy DEF TidySeq
<1>3. CASE \/ RestoreTest \/ RestoreLower \/ NotifyReturn \/ RestoreTPL \/ Relock \/ WaitForEvent
           \/ InstallProtocolInterface \/ TimerUnlock \/ \E t \in RaiseTpls : RaiseTPL(t)
  BY <1>1, <1>3, RestoreTestMoved, RestoreLowerMoved, NotifyReturnMoved, RestoreTPLMoved, RelockMoved,
     WaitForEventMoved, InstallMoved, TimerUnlockMoved, RaiseTPLMoved DEF Moved
<1>4. CASE WaitTurn \/ CheckEventEnd
  BY <1>1, <1>4, WaitTurnMoved, CheckEventEndMoved DEF Moved
<1>5. ASSUME NEW e \in UserEvents, SignalEvent(e) \/ CheckEvent(e) \/ RegisterProtocolNotify(e)
      PROVE  Tidy(stack')
  <2>1. e \in Events
    BY DEF Events
  <2>2. SignalEvent(e) => CoreSignalEvent(e, stack)
    BY DEF SignalEvent
  <2> QED BY <1>1, <1>5, <2>1, <2>2, TidySignal, CheckEventMoved, RegisterMoved DEF Moved, TidySeq
<1> QED BY <1>2, <1>3, <1>4, <1>5 DEF NoTimerStep, NoTimerCall, Return

\* The clock stops before a delay can carry a trigger time past the end of the 64 bits.
NoWrap == \A d \in Delays : MaxTime + d < TimeModulus

\* What a frame of a timer service knows of the times.
Late(f) ==
  /\ f.pc \in {"insertTimer", "rearm", "reinsert"} => due[f.ev] <= TriggerTime[f.ev]
  /\ f.pc = "rearm" => TriggerTime[f.ev] <= f.n
  /\ f.pc = "setTimer" => f.n \in Delays
  /\ f.pc \in {"checkLoop", "rearm", "reinsert"} => f.n <= mEfiSystemTime

LateInv ==
  /\ \A e \in Events : Period[e] \in Delays \cup {0}
  /\ \A e \in Members(mEfiTimerList) : due[e] <= TriggerTime[e]
  /\ \A f \in Frames : f.pc \in TimerPc => Late(f)

LEMMA TimeFacts ==
  ASSUME TimeInv, NEW e \in Events
  PROVE  /\ TriggerTime[e] \in Nat /\ Period[e] \in Nat /\ due[e] \in Nat
         /\ mEfiSystemTime \in Nat /\ mEfiSystemTime <= MaxTime /\ MaxTime \in Nat /\ TimeModulus \in Nat
BY TimeAssumption DEF TimeInv

\* The times stay and the clock goes on.
LEMMA LateKept ==
  ASSUME Inv, LateInv, Tidy(stack'), UNCHANGED timer, mEfiSystemTime \in Nat, mEfiSystemTime' \in Nat,
         mEfiSystemTime <= mEfiSystemTime'
  PROVE  LateInv'
<1>1. /\ mEfiTimerList' = mEfiTimerList /\ TriggerTime' = TriggerTime
      /\ Period' = Period /\ due' = due
  BY DEF timer
<1>2. ASSUME NEW f \in Frames', f.pc \in TimerPc
      PROVE  Late(f)'
  <2>1. f \in Frames /\ Late(f)
    BY <1>2 DEF Tidy, Frames, LateInv
  <2>2. stack \in Seq(FrameType)
    BY TopFacts DEF Inv
  <2>3. f \in FrameType
    BY <2>1, <2>2 DEF Frames, Members
  <2>4. f.n \in Nat
    BY <2>3 DEF FrameType
  <2> QED BY <1>1, <2>1, <2>4 DEF Late
<1> QED BY <1>1, <1>2 DEF LateInv

\* A step of the timer services: no other frame is in one of them.
LEMMA LateStep ==
  ASSUME LateInv, NEW g, Late(g)',
         \A f \in Members(stack') : f.pc \in TimerPc => f = g,
         \A e \in Events : Period'[e] \in Delays \cup {0},
         \A e \in Members(mEfiTimerList') : due'[e] <= TriggerTime'[e]
  PROVE  LateInv'
<1>1. \A f \in Members(stack') : f.pc \in TimerPc => Late(f)'
  OBVIOUS
<1> QED BY <1>1 DEF LateInv, Frames

\* A step after which no frame is in one of them.
LEMMA LateIdle ==
  ASSUME LateInv, \A f \in Members(stack') : f.pc \notin TimerPc,
         \A e \in Events : Period'[e] \in Delays \cup {0},
         \A e \in Members(mEfiTimerList') : due'[e] <= TriggerTime'[e]
  PROVE  LateInv'
BY DEF LateInv, Frames

LEMMA NoTimerLate ==
  ASSUME Inv, LateInv, NoTimerStep \/ NoTimerCall \/ Return, ~CheckTimers
  PROVE  LateInv'
<1>1. mEfiSystemTime \in Nat
  BY TimeAssumption DEF Inv, TimeInv
<1> QED BY <1>1, NoTimerStay, NoTimerTidy, LateKept DEF TimersStay

LEMMA TimerInterruptLate ==
  ASSUME Inv, LateInv, TimerInterrupt
  PROVE  LateInv'
<1>1. mEfiSystemTime \in Nat
  BY TimeAssumption DEF Inv, TimeInv
<1>2. UNCHANGED timer /\ mEfiSystemTime' \in Nat /\ mEfiSystemTime <= mEfiSystemTime'
  BY <1>1 DEF TimerInterrupt
<1> QED BY <1>1, <1>2, TimerInterruptTidy, LateKept DEF TidySeq

\* The frames of code outside the core: nobody owns the timer lock.
LEMMA MayIdle ==
  ASSUME Inv, NEW service, May(service)
  PROVE  \A f \in Frames : f.pc \notin TimerPc
<1>1. NoHolder(stack)
  BY MayFacts DEF May
<1> QED BY <1>1 DEF NoHolder, Frames, Members, TimerPc, Holders, TimerLockOwners

LEMMA CreateEventLate ==
  ASSUME Inv, LateInv, NEW e \in UserEvents, NEW c \in EventClasses, CreateEvent(e, c)
  PROVE  LateInv'
<1>1. /\ CpuInv /\ TimeInv /\ Tidy(stack') /\ \A f \in Frames : f.pc \notin TimerPc
  BY CreateEventMoved, MayIdle DEF Inv, CreateEvent, Moved
<1>2. e \notin Members(mEfiTimerList)
  BY DEF Inv, DataInv, Armable, Unclosed, CreateEvent
<1>3. /\ TriggerTime' = [TriggerTime EXCEPT ![e] = 0] /\ due' = [due EXCEPT ![e] = 0]
      /\ Period' = [Period EXCEPT ![e] = 0] /\ mEfiTimerList' = mEfiTimerList
  BY DEF CreateEvent
<1>4. \A d \in Events : Period'[d] \in Delays \cup {0}
  BY <1>1, <1>3 DEF TimeInv, LateInv
<1>5. \A d \in Members(mEfiTimerList') : due'[d] <= TriggerTime'[d]
  <2>1. \A d \in Members(mEfiTimerList) : d # e /\ due'[d] = due[d] /\ TriggerTime'[d] = TriggerTime[d]
    BY <1>1, <1>2, <1>3, ListTyped DEF TimeInv
  <2> QED BY <1>3, <2>1 DEF LateInv
<1> QED BY <1>1, <1>4, <1>5, LateIdle DEF Tidy

\* A timer is taken off the list and gets a new period.
LEMMA LateCancel ==
  ASSUME TimeInv, DataInv, LateInv, NEW e \in Events, NEW p \in Delays \cup {0},
         mEfiTimerList' = RemoveEntryList(mEfiTimerList, e),
         TriggerTime' = [TriggerTime EXCEPT ![e] = 0], Period' = [Period EXCEPT ![e] = p],
         UNCHANGED due
  PROVE  /\ \A d \in Events : Period'[d] \in Delays \cup {0}
         /\ \A d \in Members(mEfiTimerList') : due'[d] <= TriggerTime'[d]
<1>1. \A d \in Events : Period'[d] \in Delays \cup {0}
  BY DEF TimeInv, LateInv
<1>2. /\ Members(RemoveEntryList(mEfiTimerList, e)) \subseteq Members(mEfiTimerList)
      /\ e \notin Members(RemoveEntryList(mEfiTimerList, e))
  BY ListTyped, RemoveEntryProperties DEF DataInv
<1>3. \A d \in Members(mEfiTimerList') : d \in Members(mEfiTimerList) /\ d # e
  BY <1>2
<1>4. \A d \in Members(mEfiTimerList') : due'[d] = due[d] /\ TriggerTime'[d] = TriggerTime[d]
  BY <1>3, ListTyped DEF TimeInv
<1> QED BY <1>1, <1>3, <1>4 DEF LateInv

LEMMA CloseEventLate ==
  ASSUME Inv, LateInv, NEW e \in UserEvents, CloseEvent(e)
  PROVE  LateInv'
<1>1. /\ TimeInv /\ DataInv /\ e \in Events /\ Tidy(stack') /\ \A f \in Frames : f.pc \notin TimerPc
  BY CloseEventTidy, MayIdle DEF Inv, CloseEvent, TidySeq, Events
<1>2. /\ \A d \in Events : Period'[d] \in Delays \cup {0}
      /\ \A d \in Members(mEfiTimerList') : due'[d] <= TriggerTime'[d]
  <2>1. CASE IsType(e, "TIMER")
    <3>1. /\ mEfiTimerList' = RemoveEntryList(mEfiTimerList, e) /\ UNCHANGED due
          /\ TriggerTime' = [TriggerTime EXCEPT ![e] = 0] /\ Period' = [Period EXCEPT ![e] = 0]
      BY <2>1 DEF CloseEvent
    <3> QED BY <1>1, <3>1, LateCancel
  <2>2. CASE ~IsType(e, "TIMER")
    <3>1. UNCHANGED <<mEfiTimerList, TriggerTime, Period, due>>
      BY <2>2 DEF CloseEvent
    <3> QED BY <3>1 DEF LateInv
  <2> QED BY <2>1, <2>2
<1> QED BY <1>1, <1>2, LateIdle DEF Tidy

LEMMA SetTimerLate ==
  ASSUME Inv, LateInv, NEW e \in UserEvents, NEW type \in {"TimerCancel", "TimerRelative", "TimerPeriodic"},
         NEW delay \in Delays \cup {0}, type = "TimerCancel" \/ delay \in Delays, SetTimer(e, type, delay)
  PROVE  LateInv'
<1>1. /\ CpuInv /\ TimeInv /\ DataInv /\ e \in Events /\ gEfiCurrentTpl \in Tpl /\ delay \in Nat
      /\ stack \in Seq(FrameType)
      /\ \A f \in Frames : f.pc \notin TimerPc
  BY MayIdle, TopFacts, TimeAssumption DEF Inv, SetTimer, CpuInv, Events
<1>2. PICK p \in Delays \cup {0} : p = IF type = "TimerPeriodic" THEN delay ELSE 0
  OBVIOUS
<1>3. /\ mEfiTimerList' = RemoveEntryList(mEfiTimerList, e) /\ UNCHANGED due
      /\ TriggerTime' = [TriggerTime EXCEPT ![e] = 0] /\ Period' = [Period EXCEPT ![e] = p]
      /\ stack' = Append(stack, IF type = "TimerCancel" THEN RestoreFrame(gEfiCurrentTpl)
                                ELSE Frame("setTimer", gEfiCurrentTpl, e, delay))
  BY <1>2 DEF SetTimer, CoreRaiseTpl
<1>4. /\ \A d \in Events : Period'[d] \in Delays \cup {0}
      /\ \A d \in Members(mEfiTimerList') : due'[d] <= TriggerTime'[d]
  BY <1>1, <1>3, LateCancel
<1>5. CASE type = "TimerCancel"
  <2>1. PICK g \in FrameType : g = RestoreFrame(gEfiCurrentTpl) /\ g.pc \notin TimerPc
    BY <1>1, RestoreTyped
  <2>2. \A f \in Members(stack') : f.pc \notin TimerPc
    BY <1>1, <1>3, <1>5, <2>1, MembersAppend DEF Frames
  <2> QED BY <1>4, <2>2, LateIdle
<1>6. CASE type # "TimerCancel"
  <2>1. PICK g \in FrameType : g = Frame("setTimer", gEfiCurrentTpl, e, delay)
    BY <1>1, FrameTyped, LabelFacts
  <2>2. g.pc = "setTimer" /\ g.n = delay /\ delay \in Delays
    BY <1>6, <2>1, FrameTyped
  <2>3. \A f \in Members(stack') : f.pc \in TimerPc => f = g
    BY <1>1, <1>3, <1>6, <2>1, MembersAppend DEF Frames
  <2>4. Late(g)'
    BY <2>2 DEF Late
  <2> QED BY <1>4, <2>3, <2>4, LateStep
<1> QED BY <1>5, <1>6

\* The frames while the owner of the timer lock goes on as g.
LEMMA OwnerTidy ==
  ASSUME Inv, Top.pc \in Holders, NEW g \in FrameType
  PROVE  /\ Replace(g) \in Seq(FrameType)
         /\ \A f \in Members(Replace(g)) : f.pc \in TimerPc => f = g
         /\ \A f \in Members(Pop(stack)) : f.pc \notin TimerPc
<1>1. NoHolder(Pop(stack)) /\ CpuInv
  BY OwnerFacts
<1>2. \A f \in Members(Pop(stack)) : f.pc \notin TimerPc
  BY <1>1 DEF NoHolder, Members, TimerPc, Holders, TimerLockOwners
<1>3. PICK p \in Seq(FrameType) : p = Pop(stack)
  BY <1>1, TopLast
<1>4. Append(p, g) \in Seq(FrameType) /\ Members(Append(p, g)) = Members(p) \cup {g}
  BY MembersAppend
<1> QED BY <1>2, <1>3, <1>4 DEF Replace

\* A signal adds no frame of a timer service.
LEMMA SignalFrames ==
  ASSUME CpuInv, NEW s \in Seq(FrameType), NEW e \in Events, CoreSignalEvent(e, s)
  PROVE  \A f \in Members(stack') : f \in Members(s) \/ f.pc \notin TimerPc
<1>1. gEfiCurrentTpl \in Tpl
  BY DEF CpuInv
<1>2. PICK h \in FrameType : h = Frame("signalGroup", gEfiCurrentTpl, e, 0) /\ h.pc = "signalGroup"
  BY <1>1, FrameTyped, LabelFacts
<1>3. PICK z : WithEventLock(z) /\ (z = s \/ z = Append(s, h))
  BY <1>2 DEF CoreSignalEvent
<1>4. z \in Seq(FrameType) /\ \A f \in Members(z) : f \in Members(s) \/ f = h
  <2>1. Append(s, h) \in Seq(FrameType) /\ Members(Append(s, h)) = Members(s) \cup {h}
    BY MembersAppend
  <2> QED BY <1>3, <2>1
<1>5. PICK g \in FrameType : g = RestoreFrame(gEfiCurrentTpl) /\ g.pc \notin TimerPc
  BY <1>1, RestoreTyped
<1>6. Members(stack') = Members(z) \cup {g}
  BY <1>3, <1>4, <1>5, MembersAppend DEF WithEventLock
<1>7. h.pc \notin TimerPc
  BY <1>2 DEF TimerPc
<1> QED BY <1>4, <1>5, <1>6, <1>7

\* What the owner of the timer lock may leave: its frame, alone or beneath a signal.
LEMMA OwnerLate ==
  ASSUME Inv, LateInv, Top.pc \in Holders, NEW g \in FrameType, g.pc \in TimerPc => Late(g)',
         stack' = Replace(g) \/ \E e \in Events : CoreSignalEvent(e, Replace(g)),
         \A e \in Events : Period'[e] \in Delays \cup {0},
         \A e \in Members(mEfiTimerList') : due'[e] <= TriggerTime'[e]
  PROVE  LateInv'
<1>1. CpuInv /\ Replace(g) \in Seq(FrameType) /\ \A f \in Members(Replace(g)) : f.pc \in TimerPc => f = g
  BY OwnerTidy DEF Inv
<1>2. \A f \in Members(stack') : f.pc \in TimerPc => f = g
  BY <1>1, SignalFrames
<1>3. \A f \in Members(stack') : f.pc \in TimerPc => Late(f)'
  BY <1>2
<1> QED BY <1>3 DEF LateInv, Frames

LEMMA CheckTimersLate ==
  ASSUME Inv, LateInv, CheckTimers
  PROVE  LateInv'
<1>1. /\ Top.pc \in Holders /\ Top \in FrameType /\ mEfiSystemTime \in Nat
  BY TopFacts, TimeAssumption DEF CheckTimers, At, Holders, Inv, TimeInv
<1>2. PICK g \in FrameType : g = [Top EXCEPT !.pc = "checkLoop", !.n = mEfiSystemTime]
  BY <1>1, Edited, LabelFacts DEF FrameType
<1>3. g.pc = "checkLoop" /\ g.n = mEfiSystemTime
  BY <1>1, <1>2 DEF FrameType
<1>4. stack' = Replace(g) /\ UNCHANGED <<mEfiTimerList, TriggerTime, Period, due, mEfiSystemTime>>
  BY <1>2 DEF CheckTimers, CoreRaiseTpl, timer
<1>5. Late(g)'
  BY <1>1, <1>3, <1>4 DEF Late
<1> QED BY <1>1, <1>4, <1>5, OwnerLate DEF LateInv

LEMMA SetTriggerTimeLate ==
  ASSUME Inv, LateInv, NoWrap, SetTriggerTime
  PROVE  LateInv'
<1>1. /\ Top.pc = "setTimer" /\ Top.pc \in Holders /\ Top.pc \in LinkPc /\ Top.pc \in TimerPc /\ CpuInv /\ TimeInv
  BY DEF SetTriggerTime, At, Holders, TimerLockOwners, LinkPc, TimerPc, Inv
<1>2. PICK e \in Events : e = Top.ev
  BY <1>1, LinkFacts
<1>3. e \notin Members(mEfiTimerList) /\ Top \in Frames /\ Top.n \in Nat
  BY <1>1, <1>2, LinkFacts
<1>4. Top.n \in Delays
  BY <1>1, <1>3 DEF LateInv, Late
<1>5. (mEfiSystemTime + Top.n) % TimeModulus = mEfiSystemTime + Top.n
  BY <1>1, <1>2, <1>3, <1>4, TimeFacts DEF NoWrap
<1>6. /\ TriggerTime' = [TriggerTime EXCEPT ![e] = mEfiSystemTime + Top.n]
      /\ due' = [due EXCEPT ![e] = mEfiSystemTime + Top.n]
      /\ UNCHANGED <<mEfiTimerList, Period, mEfiSystemTime>> /\ stack' = Go("insertTimer")
  BY <1>2, <1>5 DEF SetTriggerTime
<1>7. PICK g \in FrameType : stack' = Replace(g) /\ g.pc = "insertTimer" /\ g.ev = e
  BY <1>1, <1>2, <1>6, GoTyped, LabelFacts
<1>8. due'[e] <= TriggerTime'[e]
  <2>1. due'[e] = mEfiSystemTime + Top.n /\ TriggerTime'[e] = mEfiSystemTime + Top.n
    BY <1>1, <1>6 DEF TimeInv
  <2> QED BY <1>1, <1>2, <1>3, <2>1, TimeFacts
<1>9. Late(g)'
  BY <1>7, <1>8 DEF Late
<1>10. \A d \in Members(mEfiTimerList') : due'[d] <= TriggerTime'[d]
  <2>1. \A d \in Members(mEfiTimerList) : due'[d] = due[d] /\ TriggerTime'[d] = TriggerTime[d]
    BY <1>1, <1>3, <1>6, ListTyped DEF TimeInv
  <2> QED BY <1>6, <2>1 DEF LateInv
<1>11. \A d \in Events : Period'[d] \in Delays \cup {0}
  BY <1>6 DEF LateInv
<1> QED BY <1>1, <1>7, <1>9, <1>10, <1>11, OwnerLate

\* The timer is linked.
LEMMA LinkLate ==
  ASSUME Inv, LateInv, InsertTimer \/ Reinsert
  PROVE  LateInv'
<1>1. /\ Top.pc \in {"insertTimer", "reinsert"} /\ Top.pc \in Holders /\ Top.pc \in LinkPc /\ Top.pc \in TimerPc
      /\ CoreInsertEventTimer(Top.ev) /\ UNCHANGED <<TriggerTime, Period, due, mEfiSystemTime>>
      /\ CpuInv /\ TimeInv
  BY DEF InsertTimer, Reinsert, At, Holders, TimerLockOwners, LinkPc, TimerPc, Inv
<1>2. PICK e \in Events : e = Top.ev
  BY <1>1, LinkFacts
<1>3. Top \in Frames /\ Late(Top)
  BY <1>1, LinkFacts DEF LateInv
<1>4. Members(mEfiTimerList') = Members(mEfiTimerList) \cup {e}
  BY <1>1, <1>2, InsertTimerList
<1>5. \A d \in Members(mEfiTimerList') : due'[d] <= TriggerTime'[d]
  <2>1. due[e] <= TriggerTime[e]
    BY <1>1, <1>2, <1>3 DEF Late
  <2> QED BY <1>1, <1>4, <2>1 DEF LateInv
<1>6. \A d \in Events : Period'[d] \in Delays \cup {0}
  BY <1>1 DEF LateInv
<1>7. CASE InsertTimer
  <2>1. PICK g \in FrameType : Go("timerUnlock") = Replace(g) /\ g.pc = "timerUnlock"
    BY <1>1, GoTyped, LabelFacts
  <2>2. stack' = Replace(g) \/ CoreSignalEvent(mEfiCheckTimerEvent, Replace(g))
    BY <1>7, <2>1 DEF InsertTimer
  <2>3. g.pc \notin TimerPc /\ mEfiCheckTimerEvent \in Events
    BY <2>1 DEF TimerPc, Events
  <2> QED BY <1>1, <1>5, <1>6, <2>2, <2>3, OwnerLate
<1>8. CASE Reinsert
  <2>1. PICK g \in FrameType : Go("checkLoop") = Replace(g) /\ g.pc = "checkLoop" /\ g.n = Top.n
    BY <1>1, GoTyped, LabelFacts
  <2>2. stack' = Replace(g) /\ Top.pc = "reinsert"
    BY <1>8, <2>1 DEF Reinsert, At
  <2>3. Late(g)'
    BY <1>1, <1>3, <2>1, <2>2 DEF Late
  <2> QED BY <1>1, <1>5, <1>6, <2>2, <2>3, OwnerLate
<1> QED BY <1>7, <1>8

LEMMA CheckLoopLate ==
  ASSUME Inv, LateInv, CheckLoop
  PROVE  LateInv'
<1>1. /\ Top.pc = "checkLoop" /\ Top.pc \in Holders /\ Top.pc \in TimerPc /\ CpuInv /\ TimeInv
      /\ Top \in FrameType /\ Top \in Frames /\ Top.tpl \in Tpl /\ Top.n \in Nat
      /\ UNCHANGED <<TriggerTime, Period, due, mEfiSystemTime>>
  BY TopFacts DEF CheckLoop, At, Holders, TimerLockOwners, TimerPc, Inv
<1>2. Top.n <= mEfiSystemTime
  BY <1>1 DEF LateInv, Late
<1>3. \A d \in Events : Period'[d] \in Delays \cup {0}
  BY <1>1 DEF LateInv
<1>4. CASE mEfiTimerList # <<>> /\ TriggerTime[mEfiTimerList[1]] <= Top.n
  <2>1. PICK e : e = mEfiTimerList[1]
    OBVIOUS
  <2>2. mEfiTimerList \in Seq(Events) /\ 1 \in 1..Len(mEfiTimerList) /\ e \in Events /\ e \in Members(mEfiTimerList)
    BY <1>1, <1>4, <2>1 DEF TimeInv, Members
  <2>3. PICK g \in FrameType : g = [Top EXCEPT !.pc = "rearm", !.ev = e]
    BY <1>1, <2>2, Edited, LabelFacts DEF FrameType
  <2>4. g.pc = "rearm" /\ g.ev = e /\ g.n = Top.n
    BY <1>1, <2>3 DEF FrameType
  <2>5. CoreSignalEvent(e, Replace(g)) /\ mEfiTimerList' = RemoveAtIndex(mEfiTimerList, 1)
    BY <1>4, <2>1, <2>3 DEF CheckLoop
  <2>6. \A d \in Members(mEfiTimerList') : due'[d] <= TriggerTime'[d]
    <3>1. Members(RemoveAtIndex(mEfiTimerList, 1)) \subseteq Members(mEfiTimerList)
      BY <2>2, RemoveAtIndexProperties
    <3> QED BY <1>1, <2>5, <3>1 DEF LateInv
  <2>7. due[e] <= TriggerTime[e] /\ TriggerTime[e] <= Top.n
    BY <1>4, <2>1, <2>2 DEF LateInv
  <2>8. Late(g)'
    BY <1>1, <1>2, <2>4, <2>7 DEF Late
  <2> QED BY <1>1, <1>3, <2>2, <2>5, <2>6, <2>8, OwnerLate
<1>5. CASE ~(mEfiTimerList # <<>> /\ TriggerTime[mEfiTimerList[1]] <= Top.n)
  <2>1. stack' = Replace(RestoreFrame(Top.tpl)) /\ mEfiTimerList' = mEfiTimerList
    BY <1>5 DEF CheckLoop
  <2>2. PICK g \in FrameType : g = RestoreFrame(Top.tpl) /\ g.pc \notin TimerPc
    BY <1>1, RestoreTyped
  <2>3. \A d \in Members(mEfiTimerList') : due'[d] <= TriggerTime'[d]
    BY <1>1, <2>1 DEF LateInv
  <2> QED BY <1>1, <1>3, <2>1, <2>2, <2>3, OwnerLate
<1> QED BY <1>4, <1>5

LEMMA RearmLate ==
  ASSUME Inv, LateInv, NoWrap, Rearm
  PROVE  LateInv'
<1>1. /\ Top.pc = "rearm" /\ Top.pc \in Holders /\ Top.pc \in LinkPc /\ Top.pc \in TimerPc
      /\ CpuInv /\ TimeInv /\ UNCHANGED <<mEfiTimerList, Period, mEfiSystemTime>>
  BY DEF Rearm, At, Holders, TimerLockOwners, LinkPc, TimerPc, Inv
<1>2. PICK e \in Events : e = Top.ev
  BY <1>1, LinkFacts
<1>3. e \notin Members(mEfiTimerList) /\ Top \in Frames /\ Top.n \in Nat /\ Late(Top)
  BY <1>1, <1>2, LinkFacts DEF LateInv
<1>4. /\ due[e] <= TriggerTime[e] /\ TriggerTime[e] <= Top.n /\ Top.n <= mEfiSystemTime
      /\ mEfiSystemTime' = mEfiSystemTime
  BY <1>1, <1>2, <1>3 DEF Late
<1>5. \A d \in Events : Period'[d] \in Delays \cup {0}
  BY <1>1 DEF LateInv
<1>6. CASE Period[e] = 0
  <2>1. PICK g \in FrameType : Go("checkLoop") = Replace(g) /\ g.pc = "checkLoop" /\ g.n = Top.n
    BY <1>1, GoTyped, LabelFacts
  <2>2. stack' = Replace(g) /\ UNCHANGED <<TriggerTime, due>>
    BY <1>2, <1>6, <2>1 DEF Rearm
  <2>3. Late(g)'
    BY <1>4, <2>1 DEF Late
  <2>4. \A d \in Members(mEfiTimerList') : due'[d] <= TriggerTime'[d]
    BY <1>1, <2>2 DEF LateInv
  <2> QED BY <1>1, <1>5, <2>2, <2>3, <2>4, OwnerLate
<1>7. CASE Period[e] # 0
  <2>1. Period[e] \in Delays
    BY <1>7 DEF LateInv
  <2>2. /\ TriggerTime[e] \in Nat /\ Period[e] \in Nat /\ due[e] \in Nat
        /\ mEfiSystemTime \in Nat /\ mEfiSystemTime <= MaxTime /\ MaxTime \in Nat /\ TimeModulus \in Nat
    BY <1>1, TimeFacts
  <2>3. MaxTime + Period[e] < TimeModulus
    BY <2>1 DEF NoWrap
  <2>4. TriggerTime[e] + Period[e] < TimeModulus
    BY <1>3, <1>4, <2>2, <2>3
  <2>5. (TriggerTime[e] + Period[e]) % TimeModulus = TriggerTime[e] + Period[e]
    BY <2>2, <2>4
  <2>6. PICK v \in Nat : v = IF TriggerTime[e] + Period[e] <= Top.n THEN Top.n ELSE TriggerTime[e] + Period[e]
    BY <1>3, <2>2
  <2>7. PICK g \in FrameType : Go("reinsert") = Replace(g) /\ g.pc = "reinsert" /\ g.ev = e /\ g.n = Top.n
    BY <1>1, <1>2, GoTyped, LabelFacts
  <2>8. /\ TriggerTime' = [TriggerTime EXCEPT ![e] = v] /\ due' = [due EXCEPT ![e] = due[e] + Period[e]]
        /\ stack' = Replace(g) \/ CoreSignalEvent(mEfiCheckTimerEvent, Replace(g))
    BY <1>2, <1>7, <2>5, <2>6, <2>7 DEF Rearm
  <2>9. due'[e] = due[e] + Period[e] /\ TriggerTime'[e] = v
    BY <1>1, <2>8 DEF TimeInv
  <2>10. due[e] + Period[e] <= v
    BY <1>3, <1>4, <2>2, <2>6
  <2>11. Late(g)'
    BY <1>4, <2>7, <2>9, <2>10 DEF Late
  <2>12. \A d \in Members(mEfiTimerList') : due'[d] <= TriggerTime'[d]
    <3>1. \A d \in Members(mEfiTimerList) : due'[d] = due[d] /\ TriggerTime'[d] = TriggerTime[d]
      BY <1>1, <1>3, <2>8, ListTyped DEF TimeInv
    <3> QED BY <1>1, <3>1 DEF LateInv
  <2>13. mEfiCheckTimerEvent \in Events
    BY DEF Events
  <2> QED BY <1>1, <1>5, <2>8, <2>11, <2>12, <2>13, OwnerLate
<1> QED BY <1>6, <1>7

\* No event is listed with a trigger time before it is due.
LEMMA LateNext ==
  ASSUME Inv, LateInv, NoWrap, [Next]_vars
  PROVE  LateInv'
<1>1. CASE NoTimerStep \/ NoTimerCall \/ Return
  BY <1>1, NoTimerLate, CheckTimersLate
<1>2. CASE TimerInterrupt
  BY <1>2, TimerInterruptLate
<1>3. CASE SetTriggerTime \/ InsertTimer \/ CheckLoop \/ Rearm \/ Reinsert
  BY <1>3, SetTriggerTimeLate, LinkLate, CheckLoopLate, RearmLate
<1>4. ASSUME NEW e \in UserEvents, CloseEvent(e) \/ \E c \in EventClasses : CreateEvent(e, c)
      PROVE  LateInv'
  BY <1>4, CloseEventLate, CreateEventLate
<1>5. ASSUME NEW e \in UserEvents, SetTimer(e, "TimerCancel", 0)
      PROVE  LateInv'
  BY <1>5, SetTimerLate
<1>6. ASSUME NEW e \in UserEvents, NEW type \in {"TimerRelative", "TimerPeriodic"}, NEW delay \in Delays,
             SetTimer(e, type, delay)
      PROVE  LateInv'
  BY <1>6, SetTimerLate
<1>7. CASE UNCHANGED vars
  <2>1. mEfiSystemTime \in Nat /\ Tidy(stack) /\ stack' = stack /\ UNCHANGED <<timer, mEfiSystemTime>>
    BY <1>7, KeepStack, TimeAssumption DEF Inv, TimeInv, vars, cpu, timer
  <2>2. Tidy(stack')
    BY <2>1
  <2> QED BY <2>1, <2>2, LateKept
<1> QED BY <1>1, <1>2, <1>3, <1>4, <1>5, <1>6, <1>7 DEF Next, CoreStep, ServiceCall, NoTimerStep, NoTimerCall

LEMMA InitLate ==
  ASSUME Init
  PROVE  LateInv
<1>1. mEfiTimerList = <<>> /\ Period = [e \in Events |-> 0]
  BY DEF Init
<1>2. \A f \in Frames : f.pc = "app"
  BY DEF Init, Frames, Members, Frame
<1> QED BY <1>1, <1>2 DEF LateInv, Members, TimerPc

\* CoreCheckTimers signals no timer before its time, as long as no trigger time wraps.
THEOREM Timely == NoWrap => (Spec => NeverEarly)
<1> SUFFICES ASSUME NoWrap PROVE Spec => NeverEarly
  OBVIOUS
<1>1. Init => LateInv
  BY InitLate
<1>2. Inv /\ LateInv /\ [Next]_vars => LateInv'
  BY LateNext
<1>3. Inv /\ LateInv /\ [Next]_vars =>
        [\A e \in Events :
           CheckLoop /\ e \in Members(mEfiTimerList) /\ e \notin Members(mEfiTimerList')
             => due[e] <= mEfiSystemTime]_vars
  <2> SUFFICES ASSUME Inv, LateInv, NEW e \in Events, CheckLoop,
                      e \in Members(mEfiTimerList), e \notin Members(mEfiTimerList')
               PROVE  due[e] <= mEfiSystemTime
    OBVIOUS
  <2>1. Top.pc = "checkLoop" /\ Top.pc \in TimerPc /\ Top \in Frames /\ Top.n \in Nat /\ TimeInv
    BY TopFacts DEF CheckLoop, At, TimerPc, Inv
  <2>2. Top.n <= mEfiSystemTime
    BY <2>1 DEF LateInv, Late
  <2>3. mEfiTimerList # <<>> /\ TriggerTime[mEfiTimerList[1]] <= Top.n
        /\ mEfiTimerList' = RemoveAtIndex(mEfiTimerList, 1)
    BY DEF CheckLoop
  <2>4. e = mEfiTimerList[1]
    <3>1. mEfiTimerList \in Seq(Events) /\ 1 \in 1..Len(mEfiTimerList)
      BY <2>1, <2>3, ListTyped
    <3> QED BY <2>3, <3>1, RemoveAtIndexProperties
  <2>5. due[e] <= TriggerTime[e]
    BY DEF LateInv
  <2> QED BY <2>1, <2>2, <2>3, <2>4, <2>5, TimeFacts
<1> QED BY <1>1, <1>2, <1>3, Invariance, PTL DEF Spec, NeverEarly

-----------------------------------------------------------------------------
(* Where only the application installs protocol interfaces, no event is    *)
(* being closed beneath an install.                                        *)

OnlyApplicationsInstall == "InstallProtocolInterface" \notin NotifyServices

\* Frames that only the application's code can have pushed, and frames of its code.
Own(f) == f.pc = "notifyEntry" \/ (f.pc = "raised" /\ f.ev = NoEvent)
Low(f) == f.pc \in {"app", "raised"} /\ f.ev = NoEvent
Rooted(s) ==
  /\ s \in Seq(FrameType)
  /\ \A i, j \in 1..Len(s) : j < i /\ Own(s[i]) => Low(s[j])

Fresh == Labels \ {"raised", "notifyEntry"}

LEMMA RootedPop ==
  ASSUME NEW s, Rooted(s), s # <<>>
  PROVE  Rooted(Pop(s)) /\ (Own(s[Len(s)]) => \A i \in 1..Len(Pop(s)) : Low(Pop(s)[i]))
<1>1. PICK p : p = Pop(s)
  OBVIOUS
<1>2. /\ p \in Seq(FrameType) /\ Len(p) = Len(s) - 1 /\ \A i \in 1..(Len(s) - 1) : p[i] = s[i]
      /\ Len(s) \in Nat /\ Len(s) >= 1
  BY <1>1, PopProperties DEF Rooted
<1>3. \A i \in 1..Len(p) : i \in 1..Len(s) /\ p[i] = s[i] /\ i < Len(s) /\ Len(s) \in 1..Len(s)
  BY <1>2
<1> QED BY <1>1, <1>2, <1>3 DEF Rooted

LEMMA RootedAppend ==
  ASSUME NEW s, Rooted(s), NEW g \in FrameType, Own(g) => \A i \in 1..Len(s) : Low(s[i])
  PROVE  Rooted(Append(s, g))
<1>1. PICK new : new = Append(s, g)
  OBVIOUS
<1>2. /\ new \in Seq(FrameType) /\ Len(new) = Len(s) + 1 /\ Len(s) \in Nat
      /\ \A i \in 1..Len(s) : new[i] = s[i]
      /\ new[Len(s) + 1] = g
  BY <1>1 DEF Rooted
<1>3. ASSUME NEW i \in 1..Len(new), NEW j \in 1..Len(new), j < i, Own(new[i])
      PROVE  Low(new[j])
  <2>1. j \in 1..Len(s) /\ (i \in 1..Len(s) \/ i = Len(s) + 1)
    BY <1>2, <1>3
  <2> QED BY <1>2, <1>3, <2>1 DEF Rooted
<1> QED BY <1>1, <1>2, <1>3 DEF Rooted

LEMMA RootedFresh ==
  ASSUME NEW s, Rooted(s), NEW g \in FrameType, g.pc \in Fresh
  PROVE  Rooted(Append(s, g))
<1>1. ~Own(g)
  BY DEF Own, Fresh
<1> QED BY <1>1, RootedAppend

LEMMA RootedFrame ==
  ASSUME NEW s, Rooted(s), NEW pc \in Fresh, NEW t \in Tpl, NEW ev \in Events \cup {NoEvent}, NEW n \in Nat
  PROVE  Rooted(Append(s, Frame(pc, t, ev, n)))
<1>1. PICK g \in FrameType : g = Frame(pc, t, ev, n)
  BY FrameTyped DEF Fresh
<1>2. g.pc = pc
  BY <1>1, FrameTyped
<1> QED BY <1>1, <1>2, RootedFresh

LEMMA RootedRestore ==
  ASSUME NEW s, Rooted(s), NEW t \in Tpl
  PROVE  Rooted(Append(s, RestoreFrame(t)))
<1>1. PICK g \in FrameType : g = RestoreFrame(t) /\ g.pc = "test"
  BY RestoreTyped
<1> QED BY <1>1, RootedFresh DEF Fresh, Labels

LEMMA RootedStack ==
  ASSUME CpuInv, Rooted(stack)
  PROVE  /\ Rooted(Pop(stack)) /\ Top \in FrameType /\ Top.tpl \in Tpl /\ gEfiCurrentTpl \in Tpl
         /\ Own(Top) => \A i \in 1..Len(Pop(stack)) : Low(Pop(stack)[i])
<1>1. stack # <<>>
  BY TopFacts
<1> QED BY <1>1, RootedPop, TopFacts DEF CpuInv, Top

LEMMA RootedReplace ==
  ASSUME CpuInv, Rooted(stack), NEW g \in FrameType, Own(g) => Own(Top)
  PROVE  Rooted(Replace(g))
BY RootedStack, RootedAppend DEF Replace

LEMMA RootedGo ==
  ASSUME CpuInv, Rooted(stack), NEW pc \in Fresh
  PROVE  Rooted(Go(pc))
<1>1. PICK g \in FrameType : Go(pc) = Replace(g) /\ g.pc = pc
  BY GoTyped DEF Fresh
<1>2. ~Own(g)
  BY <1>1 DEF Own, Fresh
<1> QED BY <1>1, <1>2, RootedReplace

LEMMA RootedReturn ==
  ASSUME CpuInv, Rooted(stack)
  PROVE  Rooted(Replace(RestoreFrame(Top.tpl)))
BY RootedStack, RootedRestore DEF Replace

LEMMA RootedLock ==
  ASSUME CpuInv, NEW s, Rooted(s), WithEventLock(s)
  PROVE  Rooted(stack')
BY RootedRestore DEF CpuInv, WithEventLock

LEMMA RootedSignal ==
  ASSUME CpuInv, NEW s, Rooted(s), NEW e \in Events, CoreSignalEvent(e, s)
  PROVE  Rooted(stack')
<1>1. gEfiCurrentTpl \in Tpl /\ "signalGroup" \in Fresh
  BY LabelFacts DEF CpuInv, Fresh
<1>2. Rooted(Append(s, Frame("signalGroup", gEfiCurrentTpl, e, 0)))
  BY <1>1, RootedFrame
<1>3. PICK z : WithEventLock(z) /\ (z = s \/ z = Append(s, Frame("signalGroup", gEfiCurrentTpl, e, 0)))
  BY DEF CoreSignalEvent
<1> QED BY <1>2, <1>3, RootedLock

LEMMA RootedCheck ==
  ASSUME CpuInv, NEW s, Rooted(s), NEW e \in Events, CoreCheckEvent(e, s)
  PROVE  Rooted(stack')
<1>1. gEfiCurrentTpl \in Tpl /\ "checkEvent" \in Fresh
  BY LabelFacts DEF CpuInv, Fresh
<1>2. PICK z : z = Append(s, Frame("checkEvent", gEfiCurrentTpl, e, 0))
  OBVIOUS
<1>3. Rooted(z)
  BY <1>1, <1>2, RootedFrame
<1>4. WithEventLock(z) \/ stack' = z
  BY <1>2 DEF CoreCheckEvent
<1> QED BY <1>3, <1>4, RootedLock

LEMMA FreshLabels == Labels \ Fresh = {"raised", "notifyEntry"}
BY DEF Fresh, Labels

\* The application is alone with its own frames when it pushes one.
LEMMA AloneFacts ==
  ASSUME CpuInv, Rooted(stack), Top.pc \in {"app", "notify", "raised"}, Top.ev = NoEvent
  PROVE  \A i \in 1..Len(stack) : Low(stack[i])
<1>1. /\ Len(stack) \in Nat /\ Len(stack) >= 1 /\ FrameOK(Top)
      /\ \A i \in 1..Len(stack) : stack[i].pc = "app" <=> i = 1
  BY TopFacts DEF CpuInv, Shape
<1>2. Top.pc # "notify"
  BY <1>1, EventAssumption DEF FrameOK, EvLabels
<1>3. ASSUME NEW i \in 1..Len(stack), i # Len(stack)
      PROVE  Low(stack[i])
  <2>1. Top.pc = "raised"
    BY <1>1, <1>2, <1>3 DEF Top
  <2>2. i < Len(stack) /\ Len(stack) \in 1..Len(stack)
    BY <1>1, <1>3
  <2> QED BY <2>1, <2>2 DEF Own, Rooted, Top
<1> QED BY <1>2, <1>3 DEF Low, Top

LEMMA PushOwnRooted ==
  ASSUME CpuInv, OnlyApplicationsInstall, Rooted(stack),
         InstallProtocolInterface \/ \E t \in RaiseTpls : RaiseTPL(t)
  PROVE  Rooted(stack')
<1>1. gEfiCurrentTpl \in Tpl /\ Top.ev \in Events \cup {NoEvent} /\ NoEvent \in Events \cup {NoEvent}
  BY TopFacts DEF CpuInv
<1>2. CASE InstallProtocolInterface
  <2>1. Top.ev = NoEvent /\ Top.pc \in {"app", "notify", "raised"}
    BY <1>2 DEF InstallProtocolInterface, May, OnlyApplicationsInstall
  <2>2. PICK g \in FrameType : g = Frame("notifyEntry", gEfiCurrentTpl, NoEvent, 1)
    BY <1>1, FrameTyped, LabelFacts
  <2>3. stack' = Append(stack, g)
    BY <1>2, <2>2 DEF InstallProtocolInterface, CoreRaiseTpl
  <2> QED BY <2>1, <2>2, <2>3, AloneFacts, RootedAppend
<1>3. CASE \E t \in RaiseTpls : RaiseTPL(t)
  <2>1. Top.pc \in {"app", "notify", "raised"}
    BY <1>3 DEF RaiseTPL, May
  <2>2. PICK g \in FrameType : g = Frame("raised", gEfiCurrentTpl, Top.ev, 0)
    BY <1>1, FrameTyped, LabelFacts
  <2>3. stack' = Append(stack, g)
    BY <1>3, <2>2 DEF RaiseTPL, CoreRaiseTpl
  <2>4. Own(g) => Top.ev = NoEvent
    BY <2>2, FrameTyped DEF Own
  <2> QED BY <2>1, <2>2, <2>3, <2>4, AloneFacts, RootedAppend
<1> QED BY <1>2, <1>3

LEMMA DispatchRooted ==
  ASSUME Inv, Rooted(stack), Dispatch
  PROVE  Rooted(stack')
<1>1. CpuInv /\ Top \in FrameType /\ gEfiCurrentTpl \in Tpl /\ gEventQueue[gEfiCurrentTpl] \in Seq(Events)
  BY TopFacts DEF Inv, CpuInv, NotifyInv
<1>2. CASE gEventQueue[gEfiCurrentTpl] = <<>>
  BY <1>1, <1>2, RootedGo, RootedLock, LabelFacts DEF Dispatch, Fresh
<1>3. CASE gEventQueue[gEfiCurrentTpl] # <<>>
  <2>1. PICK e : e = gEventQueue[gEfiCurrentTpl][1]
    OBVIOUS
  <2>2. e \in Events
    BY <1>1, <1>3, <2>1
  <2>3. PICK g \in FrameType : g = [Top EXCEPT !.pc = "call", !.ev = e]
    BY <1>1, <2>2, Edited, LabelFacts DEF FrameType
  <2>4. ~Own(g)
    BY <1>1, <2>3 DEF FrameType, Own
  <2>5. WithEventLock(Replace(g))
    BY <1>3, <2>1, <2>3 DEF Dispatch
  <2> QED BY <1>1, <2>4, <2>5, RootedReplace, RootedLock
<1> QED BY <1>2, <1>3

LEMMA CallRooted ==
  ASSUME Inv, Rooted(stack), Call
  PROVE  Rooted(stack')
<1>1. CpuInv /\ Top \in FrameType /\ Top.ev \in Events \cup {NoEvent} /\ gEfiCurrentTpl \in Tpl
  BY TopFacts DEF Inv, CpuInv
<1>2. PICK f \in FrameType : f = [Top EXCEPT !.pc = "dispatch", !.ev = NoEvent]
  BY <1>1, Edited, LabelFacts
<1>3. ~Own(f)
  BY <1>1, <1>2 DEF FrameType, Own
<1>4. PICK pc \in {"checkTimers", "notify"} : stack' = Append(Replace(f), Frame(pc, gEfiCurrentTpl, Top.ev, 0))
  BY <1>2 DEF Call
<1>5. Rooted(Replace(f)) /\ pc \in Fresh
  BY <1>1, <1>3, <1>4, RootedReplace, LabelFacts DEF Fresh
<1> QED BY <1>1, <1>4, <1>5, RootedFrame

LEMMA SignalGroupRooted ==
  ASSUME Inv, Rooted(stack), SignalGroup
  PROVE  Rooted(stack')
<1>1. CpuInv /\ Top \in FrameType
  BY TopFacts DEF Inv
<1>2. PICK f \in FrameType : f = [Top EXCEPT !.pc = "notifyList", !.n = 1]
  BY <1>1, Edited, LabelFacts
<1>3. ~Own(f)
  BY <1>1, <1>2 DEF FrameType, Own
<1>4. stack' = Replace(f)
  BY <1>2 DEF SignalGroup, CoreRaiseTpl
<1> QED BY <1>1, <1>3, <1>4, RootedReplace

LEMMA CountRooted ==
  ASSUME CpuInv, Rooted(stack)
  PROVE  Rooted(Replace([Top EXCEPT !.n = @ + 1]))
<1>1. Top \in FrameType /\ Top.n \in Nat
  BY TopFacts
<1>2. PICK m \in Nat : m = Top.n + 1
  BY <1>1
<1>3. PICK f \in FrameType : f = [Top EXCEPT !.n = m]
  BY <1>1, <1>2 DEF FrameType
<1>4. f = [Top EXCEPT !.n = @ + 1]
  BY <1>1, <1>2, <1>3
<1>5. Own(f) => Own(Top)
  BY <1>1, <1>3 DEF FrameType, Own
<1> QED BY <1>4, <1>5, RootedReplace

LEMMA NotifyListRooted ==
  ASSUME Inv, Rooted(stack), NotifyList
  PROVE  Rooted(stack')
<1>1. CpuInv /\ Top.tpl \in Tpl
  BY TopFacts DEF Inv
<1>2. Rooted(Append(Go("relock"), RestoreFrame(Top.tpl)))
  BY <1>1, RootedGo, RootedRestore, LabelFacts DEF Fresh
<1> QED BY <1>1, <1>2, CountRooted DEF NotifyList

LEMMA NotifyEntryRooted ==
  ASSUME Inv, Rooted(stack), NotifyEntry
  PROVE  Rooted(stack')
<1>1. CpuInv /\ Top.n \in Nat
  BY TopFacts DEF Inv
<1>2. CASE Top.n <= Len(ProtNotify)
  <2>1. PICK e : e = ProtNotify[Top.n]
    OBVIOUS
  <2>2. e \in Events
    BY <1>1, <1>2, <2>1, TopFacts DEF Inv, ObjectsInv, FrameOK, NotifyEntry, At
  <2>3. CoreSignalEvent(e, Replace([Top EXCEPT !.n = @ + 1]))
    BY <1>2, <2>1 DEF NotifyEntry
  <2> QED BY <1>1, <2>2, <2>3, CountRooted, RootedSignal
<1>3. CASE ~(Top.n <= Len(ProtNotify))
  BY <1>1, <1>3, RootedReturn DEF NotifyEntry
<1> QED BY <1>2, <1>3

LEMMA CloseRooted ==
  ASSUME Inv, Rooted(stack), CloseLock \/ CloseUnregister \/ CloseFree
  PROVE  Rooted(stack')
<1>1. CpuInv /\ gEfiCurrentTpl \in Tpl /\ Rooted(Pop(stack))
  BY RootedStack DEF Inv
<1>2. Rooted(Go("closeUnregister")) /\ Rooted(Go("closeFree"))
  BY <1>1, RootedGo, LabelFacts DEF Fresh
<1>3. CASE CloseLock
  BY <1>1, <1>2, <1>3, RootedLock DEF CloseLock
<1>4. CASE CloseUnregister
  <2>1. PICK z : (z = stack \/ z = Go("closeFree")) /\ stack' = Append(z, RestoreFrame(gEfiCurrentTpl))
    BY <1>4 DEF CloseUnregister, CoreRaiseTpl
  <2> QED BY <1>1, <1>2, <2>1, RootedRestore
<1>5. CASE CloseFree
  <2>1. stack' = Append(Pop(stack), RestoreFrame(gEfiCurrentTpl))
    BY <1>5 DEF CloseFree, CoreRaiseTpl, Replace
  <2> QED BY <1>1, <2>1, RootedRestore
<1> QED BY <1>3, <1>4, <1>5

\* The services that work on an event.
LEMMA EventCallRooted ==
  ASSUME Inv, Rooted(stack), NEW e \in UserEvents,
         \/ SignalEvent(e) \/ CheckEvent(e) \/ CloseEvent(e) \/ RegisterProtocolNotify(e)
         \/ \E c : CreateEvent(e, c)
         \/ \E delay \in Delays \cup {0} : \E type : SetTimer(e, type, delay)
  PROVE  Rooted(stack')
<1>1. /\ CpuInv /\ gEfiCurrentTpl \in Tpl /\ e \in Events
      /\ "closeLock" \in Fresh /\ "setTimer" \in Fresh
  BY RootedStack, LabelFacts DEF Inv, Events, Fresh
<1>2. CASE SignalEvent(e) \/ CheckEvent(e)
  BY <1>1, <1>2, RootedSignal, RootedCheck DEF SignalEvent, CheckEvent
<1>3. CASE CloseEvent(e)
  <2>1. PICK w : w = Append(stack, Frame("closeLock", gEfiCurrentTpl, e, 0))
    OBVIOUS
  <2>2. Rooted(w)
    BY <1>1, <2>1, RootedFrame
  <2>3. stack' = w \/ stack' = Append(w, RestoreFrame(gEfiCurrentTpl))
    BY <1>3, <2>1 DEF CloseEvent, CoreRaiseTpl
  <2> QED BY <1>1, <2>2, <2>3, RootedRestore
<1>4. CASE RegisterProtocolNotify(e)
  BY <1>1, <1>4, RootedRestore DEF RegisterProtocolNotify, CoreRaiseTpl
<1>5. CASE \E c : CreateEvent(e, c)
  BY <1>1, <1>5, RootedLock DEF CreateEvent
<1>6. CASE \E delay \in Delays \cup {0} : \E type : SetTimer(e, type, delay)
  <2>1. PICK delay \in Nat : \/ stack' = Append(stack, RestoreFrame(gEfiCurrentTpl))
                             \/ stack' = Append(stack, Frame("setTimer", gEfiCurrentTpl, e, delay))
    BY <1>6, TimeAssumption DEF SetTimer, CoreRaiseTpl
  <2> QED BY <1>1, <2>1, RootedRestore, RootedFrame
<1> QED BY <1>2, <1>3, <1>4, <1>5, <1>6

LEMMA WaitRooted ==
  ASSUME Inv, Rooted(stack), WaitForEvent \/ WaitTurn
  PROVE  Rooted(stack')
<1>1. /\ CpuInv /\ gEfiCurrentTpl \in Tpl /\ Rooted(Pop(stack)) /\ "wait" \in Fresh
      /\ NoEvent \in Events \cup {NoEvent}
  BY RootedStack, LabelFacts DEF Inv, Fresh
<1>2. CASE WaitForEvent
  <2>1. stack' = Append(stack, Frame("wait", gEfiCurrentTpl, NoEvent, 1))
    BY <1>2 DEF WaitForEvent
  <2> QED BY <1>1, <2>1, RootedFrame
<1>3. CASE WaitTurn
  <2>1. Top.n \in 1..Len(WaitList)
    BY <1>1, <1>3, TopFacts DEF WaitTurn, At, FrameOK
  <2>2. WaitList[Top.n] \in Events
    BY <2>1, CallAssumption DEF Events
  <2>3. stack' = Pop(stack) \/ CoreCheckEvent(WaitList[Top.n], stack)
    BY <1>3 DEF WaitTurn
  <2> QED BY <1>1, <2>2, <2>3, RootedCheck
<1> QED BY <1>2, <1>3

LEMMA CheckEventEndRooted ==
  ASSUME Inv, Rooted(stack), CheckEventEnd
  PROVE  Rooted(stack')
<1>1. CpuInv /\ Top.pc = "checkEvent"
  BY DEF Inv, CheckEventEnd, At
<1>2. PICK s : s = Pop(stack)
  OBVIOUS
<1>3. Rooted(s) /\ Shape(s, Top.tpl) /\ s # <<>>
  BY <1>1, <1>2, RootedStack, BelowFacts DEF Shape
<1>4. PICK caller \in FrameType : caller = s[Len(s)] /\ FrameOK(caller)
  <2>1. s # <<>> /\ Len(s) \in Nat /\ Len(s) >= 1
    BY <1>3 DEF Shape
  <2> QED BY <1>3, <2>1 DEF Shape
<1>5. Rooted(Pop(s))
  BY <1>3, RootedPop
<1>6. CASE WithEventLock(IF caller.pc = "wait" THEN Pop(s) ELSE s)
  <2>1. PICK z : WithEventLock(z) /\ Rooted(z)
    BY <1>3, <1>5, <1>6
  <2> QED BY <1>1, <2>1, RootedLock
<1>7. CASE stack' = IF caller.pc = "wait"
                    THEN Append(Pop(s), [caller EXCEPT !.n = (caller.n % Len(WaitList)) + 1])
                    ELSE s
  <2>1. CASE caller.pc = "wait"
    <3>1. caller.n \in Nat /\ caller.n >= 1 /\ caller.n <= Len(WaitList) /\ Len(WaitList) \in Nat
      BY <1>4, <2>1, CallAssumption DEF FrameOK, FrameType
    <3>2. PICK n \in Nat : n = (caller.n % Len(WaitList)) + 1
      BY <3>1
    <3>3. PICK g \in FrameType : g = [caller EXCEPT !.n = n]
      BY <3>2 DEF FrameType
    <3>4. g.pc \in Fresh
      BY <2>1, <3>3, LabelFacts DEF FrameType, Fresh
    <3>5. Rooted(Append(Pop(s), g))
      BY <1>5, <3>4, RootedFresh
    <3> QED BY <1>7, <2>1, <3>2, <3>3, <3>5
  <2>2. CASE caller.pc # "wait"
    BY <1>3, <1>7, <2>2
  <2> QED BY <2>1, <2>2
<1> QED BY <1>2, <1>4, <1>6, <1>7 DEF CheckEventEnd

LEMMA TimerRooted ==
  ASSUME Inv, Rooted(stack), \/ SetTriggerTime \/ InsertTimer \/ TimerUnlock \/ CheckTimers
                             \/ CheckLoop \/ Rearm \/ Reinsert
  PROVE  Rooted(stack')
<1>1. CpuInv /\ Top \in FrameType /\ mEfiCheckTimerEvent \in Events
  BY RootedStack DEF Inv, Events
<1>2. \A pc \in {"insertTimer", "timerUnlock", "checkLoop", "reinsert"} : Rooted(Go(pc))
  BY <1>1, RootedGo, LabelFacts DEF Fresh
<1>3. CASE SetTriggerTime \/ InsertTimer \/ Rearm \/ Reinsert
  <2>1. PICK z : Rooted(z) /\ (stack' = z \/ CoreSignalEvent(mEfiCheckTimerEvent, z))
    BY <1>2, <1>3 DEF SetTriggerTime, InsertTimer, Rearm, Reinsert
  <2> QED BY <1>1, <2>1, RootedSignal
<1>4. CASE TimerUnlock
  BY <1>1, <1>4, RootedReturn DEF TimerUnlock
<1>5. CASE CheckTimers
  <2>1. mEfiSystemTime \in Nat
    BY TimeAssumption DEF Inv, TimeInv
  <2>2. PICK g \in FrameType : g = [Top EXCEPT !.pc = "checkLoop", !.n = mEfiSystemTime]
    BY <1>1, <2>1, Edited, LabelFacts DEF FrameType
  <2>3. ~Own(g) /\ stack' = Replace(g)
    BY <1>1, <1>5, <2>2 DEF CheckTimers, CoreRaiseTpl, FrameType, Own
  <2> QED BY <1>1, <2>3, RootedReplace
<1>6. CASE CheckLoop
  <2>1. CASE mEfiTimerList # <<>> /\ TriggerTime[mEfiTimerList[1]] <= Top.n
    <3>1. PICK e : e = mEfiTimerList[1]
      OBVIOUS
    <3>2. e \in Events
      BY <2>1, <3>1 DEF Inv, TimeInv
    <3>3. PICK g \in FrameType : g = [Top EXCEPT !.pc = "rearm", !.ev = e]
      BY <1>1, <3>2, Edited, LabelFacts DEF FrameType
    <3>4. ~Own(g)
      BY <1>1, <3>3 DEF FrameType, Own
    <3>5. CoreSignalEvent(e, Replace(g))
      BY <1>6, <2>1, <3>1, <3>3 DEF CheckLoop
    <3> QED BY <1>1, <3>2, <3>4, <3>5, RootedReplace, RootedSignal
  <2>2. CASE ~(mEfiTimerList # <<>> /\ TriggerTime[mEfiTimerList[1]] <= Top.n)
    BY <1>1, <1>6, <2>2, RootedReturn DEF CheckLoop
  <2> QED BY <2>1, <2>2
<1> QED BY <1>3, <1>4, <1>5, <1>6

LEMMA RootedNext ==
  ASSUME Inv, OnlyApplicationsInstall, Rooted(stack), [Next]_vars
  PROVE  Rooted(stack')
<1>1. CpuInv /\ Rooted(Pop(stack)) /\ mEfiCheckTimerEvent \in Events
  BY RootedStack DEF Inv, Events
<1>2. CASE RestoreTest \/ RestoreLower \/ Relock \/ Return
  BY <1>1, <1>2, RootedGo, RootedLock, RootedReturn, LabelFacts
     DEF RestoreTest, RestoreLower, Relock, Return, NotifyReturn, RestoreTPL, Fresh
<1>3. CASE \/ Dispatch \/ Call \/ SignalGroup \/ NotifyList \/ WaitTurn \/ CheckEventEnd
           \/ CloseLock \/ CloseUnregister \/ CloseFree \/ NotifyEntry
  BY <1>3, DispatchRooted, CallRooted, SignalGroupRooted, NotifyListRooted, WaitRooted,
     CheckEventEndRooted, CloseRooted, NotifyEntryRooted
<1>4. CASE SetTriggerTime \/ InsertTimer \/ TimerUnlock \/ CheckTimers \/ CheckLoop \/ Rearm \/ Reinsert
  BY <1>4, TimerRooted
<1>5. CASE WaitForEvent \/ InstallProtocolInterface \/ \E t \in RaiseTpls : RaiseTPL(t)
  BY <1>1, <1>5, WaitRooted, PushOwnRooted
<1>6. CASE \E e \in UserEvents :
             \/ SignalEvent(e) \/ CheckEvent(e) \/ CloseEvent(e) \/ RegisterProtocolNotify(e)
             \/ \E c \in EventClasses : CreateEvent(e, c)
             \/ SetTimer(e, "TimerCancel", 0)
             \/ \E type \in {"TimerRelative", "TimerPeriodic"}, delay \in Delays : SetTimer(e, type, delay)
  BY <1>6, EventCallRooted
<1>7. CASE TimerInterrupt
  <2>1. CoreSignalEvent(mEfiCheckTimerEvent, stack) \/ WithEventLock(stack)
    BY <1>7 DEF TimerInterrupt
  <2> QED BY <1>1, <2>1, RootedSignal, RootedLock
<1>8. CASE UNCHANGED vars
  BY <1>8 DEF vars, cpu
<1> QED BY <1>2, <1>3, <1>4, <1>5, <1>6, <1>7, <1>8 DEF Next, CoreStep, ServiceCall

\* The same without a condition on behaviours: where notification functions install nothing,
\* an install never meets an event that is being closed.
THEOREM NotificationsOfApplications ==
  ~CloseFromAbove /\ OnlyApplicationsInstall => (Spec => []NotificationsSound)
<1> SUFFICES ASSUME ~CloseFromAbove, OnlyApplicationsInstall PROVE Spec => []NotificationsSound
  OBVIOUS
<1>1. Init => Rooted(stack)
  <2> SUFFICES ASSUME Init PROVE Rooted(stack)
    OBVIOUS
  <2>1. stack \in Seq(FrameType)
    BY InitInv DEF Inv, CpuInv, Shape
  <2>2. Len(stack) = 1
    BY DEF Init
  <2> QED BY <2>1, <2>2 DEF Rooted
<1>2. Inv /\ Rooted(stack) /\ [Next]_vars => Rooted(stack)'
  BY RootedNext
<1>3. Inv /\ Rooted(stack) => InstallsApart
  <2> SUFFICES ASSUME Inv, Rooted(stack), At("notifyEntry"), NEW i \in 1..Len(stack),
                      stack[i].pc = "closeUnregister"
               PROVE  FALSE
    BY DEF InstallsApart
  <2>1. Len(stack) \in Nat /\ Len(stack) \in 1..Len(stack)
    BY TopFacts DEF Inv
  <2>2. Own(stack[Len(stack)]) /\ i < Len(stack)
    BY <2>1 DEF At, Top, Own
  <2> QED BY <2>1, <2>2 DEF Rooted, Low
<1> QED BY <1>1, <1>2, <1>3, Invariance, Notifications, PTL DEF Spec
=============================================================================
