# TLA+ models of the EFI-MIPS firmware core

EFI-MIPS is the EFI Developer Kit ported to Loongson MIPS machines: a PEI core
that brings the machine up, a DXE core that offers boot services and dispatches
drivers, and the drivers themselves. This directory specifies the parts of the
core where the order of events matters, checks them with TLC on small instances,
and proves what matters most with TLAPS. The source is the reference; comments
and documents of the repository are quoted where the code departs from them.

## 1. The system

One processor runs everything. There are no threads: concurrency comes from the
timer interrupt, from event notifications that a `RestoreTPL` dispatches (every
release of a lock is one), and from the calls that the core makes into drivers
(`Start`, `Stop`, an image's entry point), which call the core again. Data is
protected by raising the task priority (TPL) to the lock's level, so whatever
runs above that level can still interrupt, and a *window* between two locked
sections lets everything above the caller's own TPL run.

| Component | State | Operations | What is hard | What makes it correct |
|---|---|---|---|---|
| Events, timers, TPL (`Core/Dxe/Event`) | current TPL, pending mask, one queue per TPL, signal list, timer list, system time | Create, Close, Signal, Check, WaitForEvent, SetTimer, Raise/RestoreTPL, timer tick | interrupt between any two instructions; notifications nested by priority; an event closed while it is queued, dispatched or registered | a queued notification is never lost, linked twice, run at the wrong priority or run after the event is gone; timers do not fire early, and do fire |
| Handle and protocol database (`Core/Dxe/Hand`) | handles, interfaces, open records, per protocol an interface list and its registrations | Install, Uninstall, Reinstall, Multiple variants, Open, Close, Register, Locate | lock released around driver calls and notifications; rollback of half-done calls; a registration's cursor into a list that changes | lists agree, cursors stay valid, no install is missed, exclusive means exclusive, failures undo |
| Driver connection (`Hand/DriverSupport.c`) | none of its own | Connect, DisconnectController | recursion, buffers sized in one locked section and filled in another | no record is read after it is freed |
| Dispatcher (`Core/Dxe/Dispatcher`) | discovered list, scheduled queue, state flags of each driver | Dispatch, Schedule, Trust, firmware volume notification | volumes and protocols arrive during a search or in a driver; one link per driver; recursion for BEFORE/AFTER | a driver runs once, after what it depends on; the dispatcher stops only when nothing can run |
| Image services (`Core/Dxe/Image`) | loaded images, current image | Load, Start, Exit, Unload | nesting and `Exit` by longjmp | handles changed by an image get connected |
| Page map and pools (`Core/Dxe/Mem`) | memory map, map key, free lists | Allocate/FreePages, pools, GetMemoryMap, ExitBootServices | the allocator allocates its own descriptors; bounds; the map key | the map partitions memory; the key identifies the map |
| GCD (`Core/Dxe/Gcd`) | memory and I/O space maps | Add, Allocate, Free, Remove, SetAttributes | split and merge, lock order with the page map | the map stays sorted, disjoint and merged |
| PEI core (`Core/Pei`) | PPI table, dispatched bit maps, HOB list | Install/Reinstall/Locate/NotifyPpi, dispatch, InstallPeiMemory | callbacks that install PPIs; the move to permanent memory | each notification is delivered once; pointers survive the move |
| Fault tolerant write, variables (`Universal/...`) | flash blocks, write record, spare block; variable store | Write, Restart, Abort, Reclaim; Set/GetVariable | power failure between any two flash operations | old or new contents, never a mixture, and no loss |
| CPU and timer drivers (`Sample/Cpu/Loongson`) | Count/Compare, registered handlers | tick, SetTimerPeriod | interrupt during reprogramming | ticks go on |
| Watchdog, monotonic counter, data hub | one counter or list each | | TPL sections that do not cover the whole update | unique counts, no lost record |

They interact through few channels: the timer interrupt signals the check-timer
event; an install signals the events registered on the protocol; a firmware
volume's arrival is such an event and fills the dispatcher's list; a driver's
entry point, run by the dispatcher, installs protocols that make other drivers
schedulable; `StartImage` connects the handles that changed.

## 2. The modules

| Module | Models | Lines of code it follows |
|---|---|---|
| `Lists` | the doubly linked list of `EfiCommonLib/LinkedList.c` as a sequence | `InsertTailList`, `InsertHeadList`, `RemoveEntryList` |
| `DxeEvent` | events, timers, TPL, with the timer interrupt of `Mips32Timer.c` | `Core/Dxe/Event/*.c` |
| `NotifyQueue` | abstract: what a protocol registration promises, a queue of interfaces | |
| `ProtocolDatabase` | handles, interfaces, registrations, open records | `Core/Dxe/Hand/*.c`, the connecting part of `Image.c` |
| `Depex` | the dependency expression machine | `Dispatcher/Dependency.c` |
| `Dispatcher` | discovery and dispatch of drivers | `Dispatcher/Dispatcher.c` |
| `PageMap` | the memory map, page services, the map key | `Core/Dxe/Mem/Page.c`, the key check of `ExitBootServices` |
| `PeiCore` | PPI database, notifications, PEIM dispatcher, the move to permanent memory | `Core/Pei/Ppi/Ppi.c`, `Dispatcher/Dispatcher.c`, `Dependency`, `PeiMain.c` |
| `AtomicBlocks` | abstract: what fault tolerant write promises, blocks that change in one step | the protocol's description, `FtwLite.c:66-70` |
| `FtwLite` | the fault tolerant write driver with power failures | `FaultTolerantWriteLite/Dxe/*.c` |
| `Variable` | `SetVariable`, reclaim, start-up with power failures | `Variable/RuntimeDxe/Variable.c` |
| `ListsProofs`, `DxeEventProofs`, `ProtocolDatabaseProofs`, `PageMapProofs`, `DispatcherProofs`, `PeiCoreProofs`, `FtwLiteProofs`, `VariableProofs` | theorems | |
| `MC*` | constants for TLC | |

### DxeEvent

`stack` is the call stack. Each frame is a continuation `[pc, tpl, ev, n]`: the
code that runs next, the priority it saved (`OldTpl`, `NewTpl`, `OwnerTpl`), the
event it works on and one number. Code at `EFI_TPL_HIGH_LEVEL` runs with
interrupts off and is one step; everywhere else `TimerInterrupt` may push its
frames between two steps. `CoreRestoreTpl` is four frames: `test` (the loop
condition), `dispatch` (an event is taken off its queue), `call` (its function is
called, after the event lock was released) and `lower`. That split is what the
code does with interrupts enabled, and it is where the hard cases live.
Application code and notification functions make any permitted call, in any
order. Three bounds are environment assumptions: `CloseFromAbove` (may a
function close an event that a lower function is using; `FALSE` in the passing
runs), `MaxTime` (the clock saturates, interrupts go on) and the number of events.

### ProtocolDatabase and NotifyQueue

`gProtocolDatabaseLock` is at NOTIFY and nothing above NOTIFY uses the database,
so a locked section is one step and a window between two of them is a frame.
`Notified` and `Callback` push notification functions in any window whose TPL
allows it; `disconnect`, `stop`, `connect` and `image` frames call drivers, which
call the services again. `Status` is what the last nested call returned, as the
code tests it. The order of `OpenList`, `OpenCount` and the choice of a driver by
`ConnectController` are abstracted (any driver may be chosen).

`NotifyQueue` says what `RegisterProtocolNotify` and `LocateHandle
(ByRegisterNotify)` promise together: each registration is a first-in first-out
queue. The code has no queue: it keeps one `Position` into a list shared by all
registrations, and fixes it up when entries go away. `QueueSpec` states that the
one implements the other, with `unseen` mapped to the part of the list behind
`Position`.

`RemoveInUse` and `NestedAttributes` are assumptions about drivers: in the passing
runs a notification function does not remove an interface of the handle and
protocol, or close the record, that the service under it is working on
(`MayRemove`), and does not open EXCLUSIVE in the middle of another EXCLUSIVE open.
Section 5 shows what happens otherwise.

### Depex and Dispatcher

One step per locked section, per turn of a loop or per call of `LoadImage` and
`StartImage`; between two steps `Outside` acts: a volume arrives
(`FwVolNotify`), a driver or a notification function calls `Schedule` or `Trust`,
protocols come and go. The recursion of
`CoreInsertOnScheduledQueueWhileProcessingBeforeAndAfter` is the stack `inserting`
of its loop positions. An expression is a sequence of instructions run by the
machine of `CoreIsSchedulable`, including the patch of PUSH to REPLACE_TRUE.
`MCDispatcher` checks the machine, as an assumption TLC evaluates, against the
logical meaning of every two-level expression, patched and not. An unloaded image
is not told from a started one, since `StartImage` refuses both.

### PageMap

The map is a set of entries `[Type, Start, End, Attribute, slot]`: `slot` is the
entry's place in `mMapStack`, 0 once it lives in pool memory. The helpers that the
code calls with the lock held (`CoreAddRange`, `Clipped`, `ConvertRange`) are
functions of the map as a value, so that they can be proved about; the services
are steps, because the loop of `CoreConvertPages` frees the map stack between two
rounds, and freeing it may take a page for entries and so convert pages again.
That recursion is the actions `AllocateMemoryMapEntry` and `MoveEntry`. A service
keeps `gMemoryLock` while `pc` is not `Idle`. Outside the lock there are three
steps: `ReadKey`, after `CopyMap` has copied; `CoreTerminateMemoryMap`; and
`DestroyContents`, the last thing `FreePages` does in a debug build.
`PromoteMemoryResource` adds the untested regions when memory runs out; a caller
that already holds the GCD lock ends in its assertion (`Asserted`).

### PeiCore

`PpiListPtrs`, which PPIs fill from below and notifications from above, is two
sequences. `stack` holds the walks of `DispatchNotify` and the functions they
call; the dispatcher's own place is `pc`. Walks are by index, as in the code, so
what a called function installs or registers moves entries under the walk.
A descriptor says where it is (`rom`, `car`, `memory`), and
`PeiInstallPeiMemory` converts what is in the temporary heap. `SwitchCoreStacks`
is the return into a fresh `PeiMain` that installs the memory PPI and goes on.
Each list of descriptors is passed once. `Bitmap` and `CurrentPeim` number
PEIMs over all volumes, as the code's bit maps do.

### FtwLite and AtomicBlocks

An area of flash is `[data, space]`: blocks of data and the work space that the
last block of the working area carries. `todo` is what the processor still has to
do, one flash operation (one block erased or programmed, or one state bit written)
per step; a routine puts its own operations in front, and its tests are made when
they are reached. `PowerFailure` may come between any two steps, while booting
too, and leaves only `flash`. `Atomic` states that the driver implements
`AtomicBlocks` with the refinement mapping `content[area] = Recoverable(area)`:
what a boot that is not interrupted would restore. A commit is thus the single
state bit that makes the spare block the valid copy. `Atomic` also requires that a
call which returns success has been committed.

### Variable

A store (`Bases` names the two) is a sequence of copies in the order they were
written, each with its state byte, and `LastVariableOffset`. A call of `SetVariable` takes the steps of
the code: mark the old copy, find room or reclaim, write header, data, state, and
delete the old copy. `PowerFailure` may come between two of them; `Boot` is
`VariableCommonInitialize`, which walks the log. What `FtwLite` guarantees is used
here: a reclaim of the flash store happens in one step or not at all.
`expected` records what a reader may find: the last value, or after a call that
was cut off or failed for lack of room the old or the new one.

## 3. What TLC checks

All passing runs are exhaustive for their constants. "Hazard" points at the source
line where the property could fail; the whole list is in `PROJECT.json`.

| Run | Configuration | Instance | Properties |
|---|---|---|---|
| `events` | `MCEvents` | two events of four classes (CALLBACK, group at CALLBACK and NOTIFY, WAIT), all services in application and notification code, interrupts everywhere; 440 000 states | `TypeOK`, `QueuedIsPending`, `NotificationsSound`, `NotifyNesting`, `CallerTplRestored` |
| `timers` | `MCTimers` | two timers (with and without a function), delays 0 and 1, re-armed from their function, time to 2; 450 000 states | `TimerListSound`, `NeverEarly` |
| `event_liveness` | `MCLive` | one timer event that the application arms and waits for; 5 000 states | `QueuedIsDispatched`, `ArmedTimerFires`, `WaitReturns` |
| `registrations` | `MCNotify` | two registrations (CALLBACK, NOTIFY), one protocol, two interfaces on two handles with a third structure to reuse or not, nesting to five frames; 285 000 states | `TypeOK`, `LinksSound`, `NoLostNotification`, `QueueSpec` (refinement) |
| `open_close` | `MCOpen` | two drivers, two interfaces, all attribute combinations, nesting to five frames; 580 000 states | `OpensSound` |
| `multiple_interfaces` | `MCMultiple` | lists with a device path, one with the same device path twice, failure at any argument, calls of the application, of notification functions and of images; 674 000 states | `MultipleSound` |
| `dispatcher` | `MCDispatch` | five drivers of two volumes, fair dispatcher; 295 000 states | `TypeOK`, `DriversLinkedOnce`, `DependencyMet`, `TiedInserted`, `ExitsWhenDone`, `NoDriverWaitsForEver` |
| `page_map` | `MCPageMap` | eight pages in three regions of two kinds, one of them untested; four entries to a page, allocations by address, below an address and with the GCD lock held, key to 6; 187 000 states | `TypeOK`, `MapSound`, `BlocksKept`, `StackSound`, `KeyTracksMap`, `CallReturns` |
| `pei_core` | `MCPeiCore` | two volumes with three PEIMs, eight PPIs, callbacks and dispatch notifications in six lists, one replacement, the table full at ten; 455 000 states | `TypeOK`, `EachIsNotified`, `EndsWhenDone` |
| `ftw` | `MCFtw` | one block per area, as on these boards, a work space of two records, writes of the working block and of another one, any number of power failures; 332 000 states | `TypeOK`, `ContentsAvailable`, `BootFreesRecord`, `Atomic` (refinement), `Recovers` |
| `variables` | `MCVariables` | a boot variable, one of the operating system and a volatile one, two values of different size, room for three copies in flash and two in memory; 337 000 states | `TypeOK`, `StoreSound`, `LastValueIsRead`, `ReadsChangeOnlyByCalls` |
| `variable_deleted` | `MCVariableDelete` | the same store; expected to fail, section 5 | `DeletedIsGone` |

Some properties are conjunctions of named parts, each of which has its own comment
in the module:

- `NotificationsSound`: `QueuesSound` (an event is in at most the one queue its
  priority says, and live), `SignalledIsQueued` and `NotifiedAtItsTpl`;
- `DriversLinkedOnce`: `QueueSound` and `InitializedIsFinal`;
  `NoDriverWaitsForEver`: `SchedulableIsDispatched` and `ScheduledIsDispatched`;
- `LinksSound`, `OpensSound`, `MultipleSound`: `DatabaseSound` with `PositionSound`,
  `ExclusiveSound` and `InstallAllOrNothing`;
- `StoreSound`: `EndIsKnown` and `CopiesInOrder`.

*Why the bounds are enough.* Two events allow every relation between two linked
structures: same or different queue, same or different priority, one on both
kinds of list, one closing the other. A third would repeat these with one more
link. Two timers order the timer list, and time 2 lets one timer expire late,
one on time and one not yet. Two registrations on one list of two interfaces put
cursors before, at and behind a removed entry, which is the first or a later
one. Five frames are the application, its service, a notification function that
interrupts it between two locked sections, its service, and a function of NOTIFY
priority above that; with three, notification functions would call services only
between the services of the application. Two drivers are the fewest that can
compete for an interface, and a third agent occurs only in a disagreement. Five
drivers are one of each kind that the dispatcher treats differently, and two
volumes let each tie (BEFORE, AFTER, a priori) arrive before or after its
target. Eight pages are enough to pull a range out of the start, the end and the
center of an entry, across two entries of different attributes, and to exhaust
memory while the stack is being freed; `MaxKey` bounds the services, not the
conversions inside one. In `pei_core` the table fills up, so that a list is
refused in its middle. Two records let the work space fill up and be reclaimed,
and two values are needed to tell old from new. Three copies in flash mean that
a third update must reclaim; the copies differ in size so that an update may
fail after the reclaim. Symmetry is used only where no property is a liveness
property: `QueueSpec` has no fairness, so TLC checks it step by step, and it
treats all structures alike.

*Every property has a mutant* in `PROJECT.json`: a small, plausible change of one
definition (a dropped guard, an insertion at the wrong end, a bit cleared too
early) under which TLC reports the property violated in the same run. Mutants
stand beside the definition they change, with a comment.

*Fairness.* `DxeEvent!FairSpec`: an interrupt stays pending in the CP0 Cause
register until it is taken, so whenever interrupts are enabled again and again one
is taken (strong fairness of `TimerInterrupt`); one timer period is longer than
its handler, so interrupted code gets on between two interrupts (strong fairness
of core steps taken with interrupts enabled); functions return and restore the
priority they raised. Nothing is assumed of the application. `Dispatcher!FairSpec`:
drivers return from their entry points and the dispatcher is called again, as its
header says of the BDS; `ExitsWhenDone` is the safety property that does not rely
on the second call. `FtwLite!FairSpec`: the processor goes on while the power is on
(weak fairness of `Run`), and `Recovers` itself assumes that power failures end.
`PageMap!Spec`: a service that holds the lock is sequential code and goes on (weak
fairness of `Service`); its caller owes nothing.

## 4. What is proved

### Events

`DxeEventProofs` proves, for any set of events, any classes and delays, and any
depth of preemption:

| Theorem | Property | Meaning |
|---|---|---|
| `TypeCorrect` | `TypeOK` | types, and `SignalCount` at most one |
| `PendingBits` | `QueuedIsPending` | a non-empty queue has its pending bit |
| `Interrupts` | `InterruptsBelowHigh` | interrupts are enabled exactly below HIGH_LEVEL |
| `TplRestored` | `CallerTplRestored` | a caller resumes at the priority it had |
| `Nesting` | `NotifyNesting` | only strictly higher functions preempt a function |
| `TimerLock` | `TimerLockOwnedOnce` | the timer lock is never taken twice |
| `TimerList` | `TimerListSound` | the timer list is sorted and holds allocated timer events once |
| `Timely` | `NeverEarly` | no timer is taken off its list early, if `NoWrap` |
| `Notifications` | `NotificationsSound` | a signal leads to one call of a function of an event that exists, at its priority, if `~CloseFromAbove` and always `InstallsApart` |
| `NotificationsOfApplications` | `NotificationsSound` | the same if `~CloseFromAbove` and `OnlyApplicationsInstall` |
| `Invariance` | | the inductive invariant they follow from |

The last ones have hypotheses about callers and the clock that the code does not test,
and each is needed: without `~CloseFromAbove` (no event is closed above the priority of
its own notifications) `MCClosePreempt` closes an event that is about to be called;
without `InstallsApart` (`CoreNotifyProtocolEntry` does not run above a `CloseEvent` that
has not yet unregistered an event of that protocol) `MCCloseRace` queues an event again
that is freed; without `NoWrap` (no delay carries a trigger time past 2^64) `MCTimeWrap`
has an early timer. `InstallsApart` is a condition on behaviours, which `MCEvents` meets;
`OnlyApplicationsInstall`, that notification functions install no interface, implies it
and is a condition on the constants.

The assumptions are those of `DxeEvent` (`EventAssumption`, `CallAssumption`,
`TimeAssumption`); TLC evaluates them in every run. `InterruptsBelowHigh` and
`TimerLockOwnedOnce` are proved only: no run lists them, since the theorems cover
every instance.

*The argument.* The properties speak of the running frame, but a step that ends a
call resumes the frame below at whatever priority the frames above leave behind.
The invariant therefore describes the whole stack: `Inv` is

- `CpuInv`: `Shape` gives for every frame its kind (`FrameOK`), that it runs
  strictly above the priority its caller goes back to (`Above`), and what a frame
  finds when it is resumed (`Resume`);
- `NotifyInv`: queues and pending bits, and that the check-timer event is live;
- `ObjectsInv`, `TimeInv`: the signal, protocol and timer lists;
- `DataInv`: who may still link or free an event (`Unclosed`, `Armable`), so that
  a suspended `SetTimer` or `CheckTimers` never works on a closed event.

One lemma per action shows that it preserves `Inv` (`RestoreTestInv`,
`DispatchInv`, `CloseEventInv`, ...); the parts shared by several actions are
lemmas of their own: a release of the event lock (`EventLockInv`), raising
(`RaiseInv`), queueing (`NotifyEventInv`, `SignalInv`), a push or replacement of a
frame (`ShapePush`, `ShapeReplace`), the highest set bit (`HighestSetBit`).
`ListsProofs` has the facts about lists.

`NotificationsInv` is a second invariant, inductive relative to `Inv`. An event that is
taken off a queue is in the hands of a frame until its function is called, and what the
frames in between may do to it decides the property. `Nest` places those frames: the
frame that is about to call a function is resumed at its event's priority (`Follow`), no
function that it waits for runs at that priority or below and nobody above it closes
its event (`Over`), and nothing lies above a walk of `gEventSignalQueue`, which is done
with interrupts disabled. `QueuesInv` and `CallsInv` say that queued and called events
are allocated and not being freed; `SignalsInv` that every signalled NOTIFY_SIGNAL event
is queued or in somebody's hands, and during the walk that the members of the group
passed so far are queued, which is why the event itself is queued when the walk ends. A
step that leaves these frames alone (`Keep`) is covered by one lemma (`StepKeeps`), a
signal by `SignalKeeps`.

The timer list stays sorted (`Sorted`) because `DataInv` keeps every event whose trigger
time changes off the list. `LateInv` follows the time that was asked for (`due`) through
the frames of `SetTimer` and `CheckTimers`, which hold an event between the lists: it is
never later than the trigger time, and the time `CheckTimers` works with never later
than the clock.

### Handles and protocols

`ProtocolDatabaseProofs` proves, for any handles, protocols, interfaces, drivers and
registrations, any depth of nested calls and any list of arguments of the Multiple
services:

| Theorem | Property | Meaning |
|---|---|---|
| `TypeCorrect` | `TypeOK` | types; a handle that is allocated has an interface |
| `ListsAgree` | `LinksSound` | an interface is once on the list of its protocol and once on that of its handle or on neither, and a `Position` is on the list of its protocol |
| `NoNotificationIsLost` | `NoLostNotification` | while a registration has interfaces left that came after it, it is signalled or somebody is about to look |
| `PositionsAreQueues` | `QueueSpec` | the `Position` scheme implements `NotifyQueue` |
| `AccessIsExclusive` | `OpensSound` | no interface has two BY_DRIVER or two EXCLUSIVE openers, nor one of each |
| `MultipleRollsBack` | `MultipleSound` | a failing `InstallMultiple` leaves the database as it found it |
| `CallsInvariant` | | the inductive invariant they rest on |

The assumptions are `StructureAssumption` and `ServiceAssumption` of the module. The
theorems have the hypothesis `NothingRemovedInUse` (`RemoveInUse = FALSE`), and
`AccessIsExclusive` also `NobodyNestsExclusive`. Both are about drivers and the code
tests neither: `MCStale` and `MCExclusive` break them and find a record used after it
was freed, and two EXCLUSIVE openers. The instances of `MCNotify`, `MCOpen` and
`MCMultiple` satisfy them.

*The argument.* Neither `TypeOK` nor `LinksSound` is inductive: a service that goes on
after a window uses the record it found before it. `IInv` adds `CallsSound`, which
says of each frame what it holds (`SoundOn`): its record is still installed, on the
handle and for the protocol it was found for, because every frame above it had to
respect `MayRemove`. `Held` is that fact seen from below. The frames of
`InstallMultiple` and its rollback hold nothing while an argument is being worked on
and must own the last one they processed again when it returns (`LastProcessed`). A
push, a return and a change of the database are one lemma each (`PushCalls`,
`PopCalls`, `ChangedCalls`), which the lemmas of the actions share.

For the registrations, each step is either `Quiet`, which changes no list and no
`Position`, or one of `Changes`: an interface is added at the end, one is removed
with the `Position`s that point at it moved back, one is moved to the end by
Reinstall, a registration is made, dropped, or located. `AtPlace` and the lemmas
after it say what each does to the part of the list behind a `Position`, which is the
queue (`Unseen`). `NoLostNotification` follows per registration (`Heard`): a step that
adds to a queue signals its registration, and the frames that are about to look at it
stay on the stack until they have (`KeptCalls`).

For exclusive access, a `Steady` step adds no record with BY_DRIVER or EXCLUSIVE, and
the two that do have tested the others. The one that stopped a driver first tested
before it released the lock, so the invariant carries the result over the calls
in between (`RequestsSound`): an EXCLUSIVE request is the application's, there is one at
a time, and while it waits nobody else has the interface exclusively.

`MultipleSound` compares the database with what it was when the call began. Since
`InstallMultiple` raises to NOTIFY, nothing else can run until it restores
the TPL (`OnlyMultiple`), and `MultipleInv` says where the loop is: the contents are
what was there and what the arguments `lo..hi` added (`Added`), each alone of its
protocol on its handle and used by nobody, with `hi` going up (`Working`,
`Installing`) or down (`RollingBack`). This one was checked with TLC on `MCMultiple`
before it was proved.

### Page map

`PageMapProofs` proves, for memories of any size and layout, any number of entries
in a page and any depth of the map stack:

| Theorem | Property | Meaning |
|---|---|---|
| `PageMapTypeCorrect` | `TypeOK` | types |
| `MapIsSound` | `MapSound` | entries are disjoint, cover exactly what was added, keep its attributes, and adjoining memory of one kind is one entry |
| `KeyTracksTheMap` | `KeyTracksMap` | whatever `GetMemoryMap` shows changes only with a larger key |
| `OwnersKeepPages` | `BlocksKept` | pages that were handed out keep their type and are handed out to no one else until they are freed |
| `StackSuffices` | `StackSound` | the stack of new entries does not overflow, no slot holds two entries, no entry is lost or used twice |

The assumptions are `RegionAssumption` (finitely many disjoint regions),
`AddressAssumption`, `TypeAssumption` and `EntryAssumption` of `PageMap`.
`StackSuffices` has a hypothesis about the constants, `StackIsLargeEnough`: the stack has
more than three slots, and more than the number of untested regions and two. The six
slots of the code are enough for three regions that may be promoted; with the four of
`MCPageStack` (section 5) the bound is reached and the assertion fails, so the
hypothesis cannot be weakened.

*The argument.* `Sound` is the map property over explicit entries and regions, and
`SoundBut` the same except for one range that has been pulled out.
`ClippingLeavesSound` takes the first to the second, `AddingKeepsSound` back again:
its cases are the neighbours that the new entry may take the place of, and the
heart of it is that a sound map has at most one of each. `ConvertingKeepsSound`
chains the two. The inductive invariant is `MapInv` (the map is sound for the
regions added so far, and finite) with `CallInv` (what the call in progress asks
for), because a conversion is only sound for a range inside an entry. `NewRegionIsFree`
gives the same for a region that is added. `StepKeepsMap` has a step per action and
also yields the action property.

`OwnersKeepPages` is proved on top of `MapInv`. Its invariant
`OwnerInv` is `BlockInv` (the pages of every owner are of its type, apart from those
of the others and from the pages that back the map), `FindInv` (what the search
found is free), `AllocateInv` (what a call has converted so far belongs to nobody
else) and `FreeInv` (what it still has to give back is neither owned nor free). It
needs the calls in progress because a conversion is done entry by entry, with
`CoreFreeMemoryMapStack` converting pages of its own between two entries. The two
facts that carry it are that a page has one type (`OneType`), so free pages are not
owned (`FreePagesNotOwned`), and that an allocation converts free pages only.

`StackSuffices` rests on both. `SlotInv` is its part about slots and the number of entries
from pages; `DepthInv` bounds the depth. A conversion takes one slot, two out of the
center of an entry, but then it leaves or makes a free page (`PagesKeepSlots`), so memory
is promoted, one slot for each region, only with one slot taken. A page of entries is
the last of the entry it is taken from, so it takes one slot itself and pays for at
least three (`EntryPageKeepsSlots`). TLC checked `DepthInv`, and that the bound is
reached, with two and with three untested regions before it was proved.

### Dispatcher

`DispatcherProofs` proves, for any set of drivers, volumes and expressions and any
depth of BEFORE and AFTER:

| Theorem | Property | Meaning |
|---|---|---|
| `DispatcherTypeCorrect` | `TypeOK` | types |
| `LinkedOnce` | `DriversLinkedOnce` | no driver is twice on the discovered list or on the queue, exactly the scheduled ones are on the queue, and a driver that was started is not loaded again |
| `TiedDriversInserted` | `TiedInserted` | a driver is put on the queue when no BEFORE driver of it waits, and its insertion ends when no AFTER driver of it does, among the drivers known when the insertion began |
| `DependencyIsMet` | `DependencyMet` | the image of a driver that a search queued is started only when its expression, as it is in the file, holds over the protocols there were |
| `ExitsOnlyWhenDone` | `ExitsWhenDone` | the dispatcher returns with an empty queue and no waiting driver whose expression holds, unless somebody acted during the last search |

All hold under the hypothesis `OnePlace`: file names are unique, a file is in one
volume and there once, and an a priori list names no driver twice, none whose
section must be extracted first and none whose expression begins with SOR. The
instance of `MCDispatch` satisfies it. The code tests none of this, so it is a
hypothesis of the theorems and not an assumption of the module: with a guided a
priori driver or one on request (`MCAprioriTwice`, `MCAprioriOnRequest`) a driver is
dispatched twice. What `AprioriDrivers` makes of an a priori list (files of the volume
that the list names, none twice) follows by induction over the list (`AprioriFacts`).

*The argument.* `Inv` is `TypeInv`, `OneState` for every entry (a driver is in at most
one of Dependent, Unrequested, Scheduled, Untrusted and Initialized), `ListsInv`
(the lists agree with the entries), `LoopInv` (what the dispatch loop holds in its
hands) and `FramesInv`. The last is what the recursion of
`CoreInsertOnScheduledQueueWhileProcessingBeforeAndAfter` needs: each frame's driver
names the driver of its caller, names are unique, and a driver without BEFORE or
AFTER is only at the bottom; so no driver is in two frames, and one that is still to
be inserted is Dependent and hence on no queue. There is one lemma per action.

For `TiedInserted`, `CallsInv` says of every frame that the drivers of the list it has
passed do not wait for its driver, but for the one that the frame above it is
inserting. That one no longer waits when its frame returns, since a frame that
walks for AFTER drivers has its own driver on the queue (`CallSound`). A
notification function cannot break this: `Schedule` makes a driver wait again, but one
whose expression begins with SOR and so with neither tie (`OnRequestInv`), and new volumes
only extend the list behind the drivers that were known.

For `DependencyMet`, two runs of the expression machine are compared instruction by
instruction (`ExecuteFollows`, and by induction over the expression
`EvaluateFollows`): an expression some of whose PUSHes were patched to
`REPLACE_TRUE`, evaluated over the protocols installed now, is never ahead of the one in
the file over all protocols that ever were, because every instruction but NOT is
monotone. `ReadInv` says that the expression of an entry is such a patched copy, or
empty while it could not be read, and `MetInv` that every driver that is scheduled,
untrusted, in the recursion or has an image was listed a priori, is tied, has a NOT or
had what it waited for. For `ExitsWhenDone`, `ExitInv` says that an undisturbed search
that has scheduled nothing has left no driver behind it that may run; patching the
expressions on the way changes none of their values over the same protocols
(`PatchedIsEqual`).

### PEI core

`PeiCoreProofs` proves, for any descriptors and lists of them, any size of the table,
any volumes, PEIMs and expressions, and any depth of nested notifications:

| Theorem | Property | Meaning | Hypothesis |
|---|---|---|---|
| `PeiTypeCorrect` | `TypeOK` | types; the two ends of the table never meet, the bit maps number only PEIMs there are, no slot refers to temporary memory once it is gone | |
| `EndsOnlyWhenDone` | `EndsWhenDone` | the dispatcher ends when every PEIM of the volumes it knows was dispatched, or may not run | `OneHobPerVolume` |
| `EachHears` | `EachIsNotified` | each callback was called for each PPI it is for when a service has returned to its PEIM, and not twice; each dispatch notification when the dispatcher goes on | `OwnDescriptors`, `CallbacksRegisterCallbacks` |

The assumption is `PeiAssumption` of `PeiCore`. The hypotheses are what callers keep to
and the code does not test. `OwnDescriptors`: no PPI, and no callback, is in two lists
or twice in one; a PPI that is installed twice is announced twice.
`CallbacksRegisterCallbacks` is about the functions of callbacks, and is needed:
without it `MCPeiAnyLevel` violates `EachIsNotified` (section 5). `OneHobPerVolume`: the
search for the next volume goes by the place of its HOB. The instance of `MCPeiCore`
satisfies all three. Neither says anything of PPIs that `ReInstallPpi` puts in the
place of another, which `EachIsNotified` treats as its comment says.

*The argument.* `TypeInv` says of the table that both lists fit, of the cursors that they
are within them, and of `stack` when there may be anything on it. For the bit maps,
`Searching` says that the number the dispatcher has counted up to is the place of the
current PEIM in the order of search (`Place`), which needs how many PEIMs come before a
volume (`Before`); `Passing` says that all PEIMs up to that place have been looked at in
this pass or that `Bitmap` has grown since it began, so when a pass that dispatched
nothing ends, all have been looked at with the PPIs there are now (`StaysLooked`).

For `EachHears` the frames on the stack are what matters. `Walks` says that a walk of
callbacks is above the notifications at dispatch level and still at the notification it
read, that the dispatcher's own walk is at the bottom, and that a function is called by
the walk beneath it. So when the callbacks move up, because somebody registers at
dispatch level, only the dispatcher's walk is in progress (`OnlyDispatch`): this is where
`CallbacksRegisterCallbacks` comes in. `Waits(f, k, i)` is what the walk `f` still comes
to. `CallbacksHear` says that a callback has heard of a PPI or some walk waits for the
two, `DispatchedHear` the same of what the cursors have passed. That none hears twice is
`NotTwice`: a callback that a walk waits with was not called, and no other walk waits
for the same. A new walk keeps this because all it waits for is new: its PPIs, or its
callbacks, are in a list that was not passed before (`Given`) and have one slot each
(`OneSlot`). TLC checked `HearInv` and `OnceInv` on `MCPeiCore` before they were proved.
`AtLevel`, `Before` and the order of search are recursive functions; that they exist is
proved by `Recursion` of `ListsProofs`.

### Fault tolerant write

`FtwLiteProofs` proves, for any number of areas, contents and records in the work
space, and a power failure between any two operations of writing, reclaiming and
booting:

| Theorem | Property | Meaning |
|---|---|---|
| `FtwTypeCorrect` | `TypeOK` | types; the record behind the last slot is never used |
| `ContentsStayAvailable` | `ContentsAvailable` | the old or the new contents are there after each boot, the new ones after success |
| `BootsFree` | `BootFreesRecord` | booting never leaves a record that blocks later writes |
| `ImplementsAtomicBlocks` | `Atomic` | the driver implements `AtomicBlocks` |

All of them have the hypothesis `OneBlock`: an area is one block, which is what the
`FlashLayout.h` of the Loongson boards says. It cannot be dropped, since
`MCFtwTwoBlocks` loses data with two. The other assumptions are `SizeAssumption` and
`NameAssumption` of `FtwLite`.

*The argument.* `Inv` is `MemoryInv` (types), `FlashInv` and `ControlInv`. `FlashInv`
says what a boot would make of the flash, and is all that a power failure leaves:
`Settled` (no write under way), `Committed` (the last record says that the spare block
is filled, and it is), `FromSpare` (the working block is being replaced and the spare
block is its marked copy) or `Fresh` (never booted). `ControlInv` says what the
processor may rely on before the operation at the head of `todo`, and what the rest of
`todo` is. The first part of `FtwLiteProofs` prepares this: with one block to an area
every sequence that a routine puts in front is an operation and a rest again, so the
states of `todo` are the named programs (`ToAllocate`, `Flush(k)`, `Restoring(k)`, ...),
`k` being where a routine that two callers share goes on. There is one lemma per
action. All of them but one end in `Kept`, that `Recoverable` stays for every area;
`SpareCompletedStep` shows that its action changes it for one block (`Moved`). The
lemmas about records say that the last record is the only one in use, which a reclaim,
an abort and a completion preserve (`RecordUpdated`, `RecordCompleted`,
`NoRecordsLast`). `HistoryInv` relates this to `available`.

### Variables

`VariableProofs` proves, for any variables, data, sizes of the two stores and a power
failure between any two writes:

| Theorem | Property | Meaning | Hypothesis |
|---|---|---|---|
| `PointersStay` | `TypeOK` | types; `CurrPtr` is a copy of the variable it was found for when it is used | |
| `EndStaysKnown` | `EndIsKnown` (of `StoreSound`) | the next copy goes where the walk ends, on erased flash | |
| `StoreStaysSound` | `StoreSound` | one valid copy of a variable in a store, and none in transition after it | `OneKind` |
| `LastValuesAreRead` | `LastValueIsRead` | the last value is read, or that of the call that was cut off | `OneKind` |
| `OnlyCallsChangeReads` | `ReadsChangeOnlyByCalls` | reclaims, boots and other calls change no read | `OneKind` |

`OneKind` says that callers always set a variable with the same NV and RT attributes.
Neither half can be dropped: `MCVariableBothStores` violates `LastValueIsRead` with a
variable that changes stores, `MCVariableRuntime` violates `StoreSound` with one that is
hidden at runtime (section 5). The other assumptions are `SizeAssumption` and
`NameAssumption` of `Variable`.

*The argument.* `LogInv` needs no hypothesis: `CallInv` is what `pc` says of the call in
progress, `EndInv` where each log ends. `NewEnd` is the end of the log while a header is
written whose offset is not recorded yet, and until a reclaim fails the recorded offset
is the end. `ContentsInv` adds what the copies are: `CurrentInv`, that `CurrPtr` is the
copy a search would find; `StoresInv`, that copies of a variable lie in the store of its
attributes and in order; and `ValuesInv`, that the last live copy of each variable holds
an expected value. `expected` is a set, so this has to be said of the state that a power
failure leaves, at every step of a call. The key facts are `SearchFinds`, that in an
ordered store `FindVariable` returns the last live copy although it looks for the first
valid one, and `ReclaimKeeps`, that a reclaim keeps the last live copy of every variable
(`KeptIsLast`) with its data and their order. There are two lemmas per action, one for
each part. `Effect(n)` is the disjunction of `ReadsChangeOnlyByCalls`, proved per action
together with `ContentsInv`. `EndOf` and `Reclaimed` are recursive functions; that they
exist and what they are for a list with one copy more is proved by induction over its
length (`WalkExists`, `BuffersExist`).

*Only model-checked:* the liveness properties, `QueuedIsDispatched`, `ArmedTimerFires` and
`WaitReturns` of `DxeEvent`, `NoDriverWaitsForEver` of `Dispatcher`, `CallReturns` of
`PageMap` and `Recovers` of `FtwLite`. They are out of the prover's reach, as is
`ENABLED`. The library's induction theorems take an operator, which the provers cannot
instantiate; where a recursive function is compared with another one, `Induction` (`ListsProofs`) does it for a set. What the expression
machine computes, that AND is a conjunction, is checked by `MachineIsCorrect` of
`MCDispatcher` for expressions of two levels.

## 5. Where the code departs from its comments

One run is expected to fail. `variable_deleted` (`Variable.c:941`): "Setting a data
variable with no access, or zero DataSize attributes specified causes it to be
deleted" (`Variable.c:936-937`). In the counterexample a variable is set and updated,
and the power fails after the new copy was written and before the old one is marked as
deleted, so that the old copy stays in transition. The boot has room above its
threshold and does not reclaim. Deleting the variable marks the copy that is found, the
new one, and the next search finds the old one. An update that has to reclaim leaves
the same state without a power failure, since it skips the mark (`Variable.c:1166`);
that trace is longer, and TLC finds it when `PowerFailure` is taken out of `Next`.

More configurations show disagreements of the same kind and are kept beside the
runs; each ends in a counterexample of its one property. "Property replaced" means
that the constants are those of the named configuration and the property of the row
takes the place of the ones it lists:

| Configuration | Property | Place |
|---|---|---|
| `MCRestoreWindow` | `UnmaskedAreDispatched` | `Tpl.c:176`, "If the new priority unmasks events at a higher priority, they are dispatched": an interrupt between the last test and the assignment leaves one queued until the next `RestoreTPL` |
| `MCCloseRace` | `QueuesSound` | `Event.c:810`: an install between the two halves of `CloseEvent` queues the event again; it is freed while linked |
| `MCClosePreempt` | `NotifiedAtItsTpl` | `Event.c:214-219`: a higher function closes the event that is about to be called (`CloseFromAbove = TRUE`) |
| `MCTimeWrap` | `NeverEarly` | `Timer.c:376`: the 64-bit sum wraps |
| `MCUnique` | `InterfaceIsUnique` | `Handle.c:461`, asserted at 526-528: tested before the lock is taken |
| `MCStale` | `NoStaleReference` | `Handle.c:741`, `1262`: a record read after the lock is released (`RemoveInUse = TRUE`) |
| `MCExclusive` | `ExclusiveSound` | `Handle.c:1262`: two EXCLUSIVE opens both succeed, because the lock is released between the test and the grant |
| `MCUninstallRollback` | `UninstallRolledBack` | `Handle.c:975`: after the last interface is gone the handle is freed and the rollback of `UninstallMultiple` has nothing to install on |
| `MCLocateBuffer` | `BufferLargeEnough` | `Locate.c:721`: counted in one call, copied in another |
| `MCConnectByKey` | `ModifiedAreConnected` | `Handle.c:510`, `Image.c:1028`: only new handles get a new key |
| `MCAprioriTwice` | `InitializedIsFinal` | `Dispatcher.c:536`: an a priori driver whose expression could not be read is loaded again when it becomes readable |
| `MCAprioriOnRequest` | `InitializedIsFinal` | `Dispatcher.c:306`: an a priori driver whose expression begins with SOR stays Unrequested on the queue; after `Schedule` it is dispatched again |
| `MCFtwTwoBlocks` | `ContentsAvailable` | `FtwLite.c:66-70`: with two blocks to an area, a power failure between two erases leaves half a working block whose old work space still counts as valid |
| `MCVariables`, property replaced | `StoreStaysValid` | `Variable.c:538`: after a reclaim that could not be written the end of the store is 0, its header |
| `MCVariableBothStores` | `LastValueIsRead` | `Variable.c:1166`: the replaced copy is not deleted when a reclaim happened, although it may be in the other store, which was not reclaimed; it is read when a later update is cut short (a variable set with and without the non-volatile attribute) |
| `MCVariableRuntime` | `StoreSound` | `Variable.c:607`: at runtime a copy without runtime access is not found, so setting the variable with it appends a second valid copy and leaves the first (a variable set with and without runtime access) |
| `MCPageMapKey` | `ExitsWithCurrentMap` | `Page.c:1477`: the key is read after the locks are released and may belong to a later map than the one copied |
| `MCPageMapKey`, property replaced | `NothingLeaks` | `Page.c:787`: a conversion that fails in its middle keeps what it converted |
| `MCPageMapKey`, property replaced | `GcdLockOwnedOnce` | `Page.c:208`: memory is promoted while the caller holds the GCD lock, and `CoreAcquireLock` asserts |
| `MCPageMap`, property replaced | `DestroysFreePages` | `Page.c:1295`: the contents are overwritten after the lock is released |
| `MCPageStack` | `StackSound` | `Page.c:517`, `858`: promoting four separate pieces while the stack is being freed fills its six slots |
| `MCPeiAnyLevel` | `EachIsNotified` | `Ppi.c:478-490`, `631`: a callback that registers a dispatch notification shifts the entries an outer walk is at |
| `MCPeiCore`, property replaced | `DispatchOnce` | `Ppi.c:543-587`: a dispatch notification registered while the new PPIs are processed is called for some of them twice |
| `MCPeiAlert` | `ListenersAlerted` | `PeiMain.c:234-237`: dispatch-level listeners of the memory PPI wait for the next PEIM to return, and there may be none |

## 6. Not modelled

Memory contents, relocation, device paths, names and strings; the parsing of
firmware volumes, files and sections; status code reporting. In `Dispatcher`,
volumes found inside files and the file of the DXE core itself. In `Depex`, the
growth of the evaluation stack (it is unbounded here). In `ProtocolDatabase`, the
search of driver bindings and remaining device paths. In `PageMap`, the pools, the
bins and statistics of the memory types (empty on these boards, since nothing
builds the memory type information HOB) and memory mapped I/O of the GCD map. In
`PeiCore`, HOBs, PEI pool and pages, and the parsing of files: the model has their
results. In `FtwLite`, the swap of the boot block, for which these boards have no
register, errors of the flash device and blocks that are programmed in part. In
`Variable`, `GetNextVariableName`, `QueryVariableInfo` and errors of the device;
the file-based and emulated stores are other implementations and are not modelled.
Device drivers, network stack, console, boot manager, shell and tools are out of
scope: they are I/O or policy above the services modelled here. `PROJECT.json`
lists every component.

## 7. Plan

1. `DxeEvent`: modelled and checked; all its safety properties but
   `UnmaskedAreDispatched`, which the code violates, are proved.
2. `ProtocolDatabase`, `NotifyQueue`: modelled, checked, and the refinement and all
   safety invariants proved.
3. `Dispatcher`, `Depex`: modelled, checked, and all safety properties proved where
   each driver has one place.
4. `FtwLite`, `AtomicBlocks`: modelled, checked, and the refinement proved.
   `Variable`: modelled, checked, and all its invariants and `ReadsChangeOnlyByCalls`
   proved.
5. `PageMap`: modelled, checked, and all its invariants and `KeyTracksMap` proved.
6. `PeiCore`: modelled, checked, and all its properties proved; `EndsWhenDone` and
   `EachIsNotified` where clients keep to the hypotheses of section 4.
7. To model: the pools and the GCD map, driver connection with its buffers, image
   nesting, interrupt controller, monotonic counter.

Composition: `Dispatcher` sees protocols as a set; a composition with
`ProtocolDatabase` would add nothing while the dispatcher only asks whether a
protocol is present. `Variable` uses `FtwLite` through what its abstract
specification promises, a reclaim in one step or not at all.

## 8. Running

    tlc -config MCEvents.cfg MCDxeEvent        # and the other configurations
    tlapm ListsProofs.tla
    tlapm DxeEventProofs.tla
    tlapm ProtocolDatabaseProofs.tla
    tlapm PageMapProofs.tla
    tlapm DispatcherProofs.tla
    tlapm PeiCoreProofs.tla
    tlapm FtwLiteProofs.tla
    tlapm VariableProofs.tla

`MCEvents`, `MCTimers`, `MCLive`, `MCRestoreWindow`, `MCCloseRace`,
`MCClosePreempt` and `MCTimeWrap` belong to `MCDxeEvent`; `MCDispatch`,
`MCAprioriTwice` and `MCAprioriOnRequest` to `MCDispatcher`; `MCPage*` to `MCPageMap`; `MCPei*` to
`MCPeiCore`; `MCFtw*` to `MCFtwLite`; `MCVariable*` to `MCVariable`; the others to
`MCProtocolDatabase`. Each run takes between a few seconds and a minute on two
cores.
