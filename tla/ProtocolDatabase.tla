------------------------- MODULE ProtocolDatabase -------------------------
(***************************************************************************)
(* The handle and protocol database of the DXE core                        *)
(* (src/Foundation/Core/Dxe/Hand): handles, the protocol interfaces        *)
(* installed on them, the registrations that are notified of an install,   *)
(* and the records of who has an interface open.                           *)
(*                                                                         *)
(* `stack` is the processor's call stack, innermost frame last.  A frame   *)
(* says what runs next (pc), at which task priority (tpl), and on what     *)
(* (arg).  gProtocolDatabaseLock raises to NOTIFY, and nothing above that  *)
(* priority uses the database, so a locked section is one step.  Between   *)
(* two of them a notification function may run, and the services call      *)
(* driver code (Start, Stop, an image's entry point); both call the same   *)
(* services.  Abstracted: OpenCount, the order of OpenList and of          *)
(* gHandleList, and CoreConnectController's choice of a driver; GET,       *)
(* TEST and BY_HANDLE_PROTOCOL are the one attribute USE.                  *)
(***************************************************************************)
EXTENDS Lists, Integers, FiniteSets

CONSTANTS
  Handles,          \* the IHANDLE structures the pool can provide
  Prots,            \* the PROTOCOL_INTERFACE structures
  Regs,             \* the PROTOCOL_NOTIFY structures, each with its own event
  Guids,            \* protocols
  Interfaces,       \* interface pointers
  Agents,           \* driver image handles
  gDxeCoreImageHandle,
  DevicePathGuid,   \* gEfiDevicePathProtocolGuid
  NULL,             \* no handle, no structure; of a Position: the list head
  Free,             \* a structure that is not allocated
  NotifyTpl,        \* [Regs -> priority of the registration's event]
  Attributes,       \* attributes that the application opens a protocol with
  NestedAttributes, \* and driver code and notification functions do
  Multiple,         \* the argument lists of (Un)InstallMultiple
  OuterServices,    \* services that application and driver code calls
  NestedServices,   \* services that notification functions call
  RemoveInUse,      \* may a callback remove an interface of the handle and protocol,
                    \* or close the record, that a service it interrupted works on?
  MaxDepth          \* bound on the nesting of calls

EFI_TPL_APPLICATION == 4
EFI_TPL_CALLBACK    == 8
EFI_TPL_NOTIFY      == 16

Structures == {NULL, Free}
OpenData   == [agent : Agents \cup {gDxeCoreImageHandle}, ctrl : Handles \cup {NULL},
               attr : SUBSET {"USE", "CHILD", "BY_DRIVER", "EXCLUSIVE"}]
Services   == {"Install", "InstallMultiple", "Uninstall", "UninstallMultiple", "Reinstall",
               "Register", "Unregister", "Open", "Close", "Locate", "LocateBuffer", "StartImage"}

ASSUME StructureAssumption ==
  /\ NULL # Free
  /\ Structures \cap (Handles \cup Prots \cup Guids) = {}
  /\ Free \notin Seq(Prots) \cup [Protocol : Guids, Position : Prots \cup {NULL}]
                  \cup [Handle : Handles, Protocol : Guids, Interface : Interfaces]
  /\ gDxeCoreImageHandle \notin Agents
ASSUME ServiceAssumption ==
  /\ NotifyTpl \in [Regs -> {EFI_TPL_CALLBACK, EFI_TPL_NOTIFY}]
  /\ OuterServices \subseteq Services /\ NestedServices \subseteq Services
  /\ Multiple \subseteq Seq(Guids \X Interfaces)
  /\ Attributes \cup NestedAttributes \subseteq
       {{"USE"}, {"CHILD"}, {"BY_DRIVER"}, {"EXCLUSIVE"}, {"BY_DRIVER", "EXCLUSIVE"}}
  /\ RemoveInUse \in BOOLEAN
  /\ MaxDepth \in Nat

VARIABLES
  stack,                \* call stack, innermost frame last
  Status,               \* what the last call from core code returned
  handle,               \* [Handles -> Free or the list IHANDLE.Protocols]
  newer,                \* handles whose Key is above the running image's
                        \* HandleDatabaseKey
  prot,                 \* [Prots -> Free or [Handle, Protocol, Interface]]
  OpenList,             \* [Prots -> set of OPEN_PROTOCOL_DATA]
  Protocols,            \* [Guids -> the list PROTOCOL_ENTRY.Protocols]
  notify,               \* [Regs -> Free or [Protocol, Position]]
  signalled,            \* registrations whose event is queued
  before,               \* history: [Regs -> interfaces older than the registration]
  modified              \* history: handles changed since the image started

control == <<stack, Status>>
handles == <<handle, newer, modified>>
entries == <<prot, Protocols>>
regs    == <<notify, signalled, before>>
vars    == <<control, handles, entries, OpenList, regs>>

-----------------------------------------------------------------------------
(* Frames and calls.                                                       *)

Frame(pc, tpl, arg) == [pc |-> pc, tpl |-> tpl, arg |-> arg]
Top      == stack[Len(stack)]
Pop(s)   == [i \in 1..(Len(s) - 1) |-> s[i]]
At(pc)   == Top.pc = pc
arg      == Top.arg
Become(pc, a) == Append(Pop(stack), Frame(pc, Top.tpl, a))
Call(s, pc, a) == Append(s, Frame(pc, s[Len(s)].tpl, a))

\* Code outside the core: the application, a notification function, driver code.
ClientPc == {"app", "notify", "callback", "driver"}
May(service) ==
  /\ Top.pc \in ClientPc /\ Len(stack) < MaxDepth
  /\ service \in IF Top.pc \in {"app", "driver"} THEN OuterServices ELSE NestedServices

\* The call at the top returns; a client ignores what it returned.
Return(status) ==
  /\ stack' = Pop(stack)
  /\ Status' = IF stack[Len(stack) - 1].pc \in ClientPc THEN "SUCCESS" ELSE status

\* The services that hold gProtocolDatabaseLock when they go on.
Locked == {"uninstall", "reinstall", "exclusive"}

-----------------------------------------------------------------------------
(* The database.                                                           *)

Valid(h)        == h \in Handles /\ handle[h] # Free
Allocated(r)    == notify[r] # Free
Installed       == {p \in Prots : prot[p] # Free}
FirstOf(list, set) ==
  LET found == {k \in 1..Len(list) : list[k] \in set}
  IN  IF found = {} THEN NULL ELSE list[CHOOSE k \in found : \A l \in found : k <= l]

CoreGetProtocolInterface(h, g) ==
  IF Valid(h) THEN FirstOf(handle[h], {p \in Installed : prot[p].Protocol = g}) ELSE NULL
CoreFindProtocolInterface(h, g, i) ==
  IF Valid(h)
  THEN FirstOf(handle[h], {p \in Installed : prot[p].Protocol = g /\ prot[p].Interface = i})
  ELSE NULL

Record(agent, ctrl, attr) == [agent |-> agent, ctrl |-> ctrl, attr |-> attr]
\* CoreHandleProtocol leaves a record that the core uses the interface.
HandleProtocol(p) == OpenList' = [OpenList EXCEPT ![p] = @ \cup {Record(gDxeCoreImageHandle, NULL, {"USE"})}]
ByDriver(p)  == {o \in OpenList[p] : "BY_DRIVER" \in o.attr}
Exclusive(p) == {o \in OpenList[p] : "EXCLUSIVE" \in o.attr}

\* The list PROTOCOL_ENTRY.Protocols.  Mutant: the new entry at the head.
EntryAtHead(g, p)  == [Protocols EXCEPT ![g] = InsertHeadList(@, p)]
EntryAdded(g, p)   == [Protocols EXCEPT ![g] = InsertTailList(@, p)]
EntryRemoved(p)    == [Protocols EXCEPT ![prot[p].Protocol] = RemoveEntryList(@, p)]

\* The list IHANDLE.Protocols; the handle is freed with its last interface.
\* Mutant: it is not.
EmptyHandleKept(h, p) == [handle EXCEPT ![h] = RemoveEntryList(@, p)]
LinkRemoved(h, p) ==
  LET rest == RemoveEntryList(handle[h], p)
  IN  [handle EXCEPT ![h] = IF rest = <<>> THEN Free ELSE rest]

\* The entry in front of p on the list, the list head if p is the first.
BackLink(list, p) ==
  LET k == CHOOSE i \in 1..Len(list) : list[i] = p IN IF k = 1 THEN NULL ELSE list[k - 1]

\* Mutant: a Position that is p is left there.
PositionsKept(p) == notify

\* CoreRemoveInterfaceFromProtocol backs up each Position that is p.
PositionsWithout(p) ==
  [r \in Regs |->
     IF Allocated(r) /\ notify[r].Position = p
     THEN [notify[r] EXCEPT !.Position = BackLink(Protocols[prot[p].Protocol], p)]
     ELSE notify[r]]

\* What a registration has not returned yet: the entries behind its Position.
Unseen(r) ==
  LET list == Protocols[notify[r].Protocol]
      k    == IF notify[r].Position = NULL THEN 0
              ELSE CHOOSE i \in 1..Len(list) : list[i] = notify[r].Position
  IN  SubSeq(list, k + 1, Len(list))

\* Mutant: a registration that has something to return anyway is not signalled.
NotifyWhenEmpty(g) ==
  signalled \cup {r \in Regs : Allocated(r) /\ notify[r].Protocol = g /\ Unseen(r) = <<>>}

\* CoreNotifyProtocolEntry
NotifyProtocolEntry(g) == signalled \cup {r \in Regs : Allocated(r) /\ notify[r].Protocol = g}

\* Key is only ever compared with the HandleDatabaseKey an image started with.
ImageRunning == \E k \in 1..Len(stack) : stack[k].pc = "image"
Mark(set, h) == IF ImageRunning THEN set \cup {h} ELSE set

-----------------------------------------------------------------------------
(* InstallProtocolInterface.                                               *)

\* The protocol must not be on the handle yet.  This is tested with the lock
\* released again before the frame "install" takes it.
CallInstall(s, h, g, i) ==
  LET p == CoreGetProtocolInterface(h, g)
  IN  \/ /\ p = NULL
         /\ stack' = Call(s, "install", [h |-> h, g |-> g, i |-> i])
         /\ UNCHANGED <<Status, OpenList>>
      \/ /\ p # NULL
         /\ HandleProtocol(p)
         /\ stack' = s /\ Status' = IF s[Len(s)].pc \in ClientPc THEN "SUCCESS" ELSE "ERROR"

InstallProtocolInterface(h, g, i) ==
  /\ May("Install") /\ (h = NULL \/ Valid(h))
  /\ CallInstall(stack, h, g, i)
  /\ UNCHANGED <<handles, entries, regs>>

\* The call returns to the loop of InstallMultiple with the handle it used.
ReturnHandle(h) ==
  LET s == Pop(stack) IN
  /\ stack' = IF s[Len(s)].pc = "installMultiple"
              THEN Append(Pop(s), [s[Len(s)] EXCEPT !.arg.h = h]) ELSE s
  /\ Status' = "SUCCESS"

\* The locked section.  Only a handle that is created here gets a new Key.
Install ==
  /\ At("install")
  /\ \E h \in Handles, p \in Prots \ Installed :
       /\ IF arg.h = NULL THEN ~Valid(h) ELSE h = arg.h /\ Valid(h)
       /\ prot' = [prot EXCEPT ![p] = [Handle |-> h, Protocol |-> arg.g, Interface |-> arg.i]]
       /\ handle' = [handle EXCEPT ![h] = IF Valid(h) THEN InsertHeadList(@, p) ELSE <<p>>]
       /\ Protocols' = EntryAdded(arg.g, p)
       /\ newer' = IF Valid(h) THEN newer ELSE Mark(newer, h)
       /\ modified' = Mark(modified, h)
       /\ signalled' = NotifyProtocolEntry(arg.g)
       /\ ReturnHandle(h)
  /\ UNCHANGED <<OpenList, notify, before>>

\* No memory for the structures, or the handle was freed in the meantime.
InstallFails ==
  /\ At("install")
  /\ \/ Prots \ Installed = {}
     \/ arg.h = NULL /\ \A h \in Handles : Valid(h)
     \/ arg.h # NULL /\ ~Valid(arg.h)
  /\ Return("ERROR")
  /\ UNCHANGED <<handles, entries, OpenList, regs>>

-----------------------------------------------------------------------------
(* UninstallProtocolInterface and ReinstallProtocolInterface.              *)

\* The interface is found and, with the lock still held, its users are looked at.
CallRemove(s, pc, h, g, i, new) ==
  LET p == CoreFindProtocolInterface(h, g, i)
  IN  \/ /\ p # NULL
         /\ stack' = Call(s, pc, [h |-> h, p |-> p, i |-> new])
         /\ UNCHANGED Status
      \/ /\ p = NULL
         /\ stack' = s /\ Status' = IF s[Len(s)].pc \in ClientPc THEN "SUCCESS" ELSE "ERROR"

\* The handles and protocols whose interface an interrupted service works on.
HoldsProt == Locked \cup {"uninstallStopped", "reinstallStopped", "exclusiveStopped", "refused"}
InUse(h, g) ==
  \E k \in 1..Len(stack) :
    stack[k].pc \in HoldsProt /\ stack[k].arg.h = h /\ prot[stack[k].arg.p].Protocol = g
RecordInUse(p, o) ==
  \E k \in 1..Len(stack) : stack[k].pc = "disconnect" /\ stack[k].arg.p = p /\ stack[k].arg.o = o
MayRemove(h, g) == RemoveInUse \/ ~InUse(h, g)

UninstallProtocolInterface(h, g, i) ==
  /\ May("Uninstall") /\ MayRemove(h, g)
  /\ CallRemove(stack, "uninstall", h, g, i, i)
  /\ UNCHANGED <<handles, entries, OpenList, regs>>

ReinstallProtocolInterface(h, g, old, new) ==
  /\ May("Reinstall") /\ MayRemove(h, g)
  /\ CallRemove(stack, "reinstall", h, g, old, new)
  /\ UNCHANGED <<handles, entries, OpenList, regs>>

\* CoreDisconnectControllersUsingProtocolInterface, and the same loop in
\* CoreOpenProtocol: the lock is released to disconnect a driver, the record is
\* read after that, and the list is looked at again.
Stopped == [uninstall |-> "uninstallStopped", reinstall |-> "reinstallStopped",
            exclusive |-> "exclusiveStopped"]
DisconnectUser ==
  /\ Top.pc \in Locked
  /\ \E o \in ByDriver(arg.p) :
       stack' = Call(Become(Stopped[Top.pc], arg), "disconnect",
                     [h |-> arg.h, p |-> arg.p, o |-> o])
  /\ UNCHANGED <<Status, handles, entries, OpenList, regs>>

DisconnectAgain ==
  /\ \E pc \in Locked :
       /\ At(Stopped[pc])
       /\ \/ Status = "SUCCESS" /\ stack' = Become(pc, arg) /\ UNCHANGED Status
          \/ /\ Status = "ERROR" /\ pc # "exclusive"
             /\ stack' = Call(Become("refused", arg), "connect", [h |-> arg.h])
             /\ UNCHANGED Status
          \/ Status = "ERROR" /\ pc = "exclusive" /\ Return("ERROR")
  /\ UNCHANGED <<handles, entries, OpenList, regs>>

\* Those who only use the interface lose it; anybody left keeps it installed.
Kept(p) == {o \in OpenList[p] : o.attr # {"USE"}}
RemoveRefused ==
  /\ Top.pc \in {"uninstall", "reinstall"}
  /\ ByDriver(arg.p) = {} /\ Kept(arg.p) # {}
  /\ OpenList' = [OpenList EXCEPT ![arg.p] = Kept(arg.p)]
  /\ stack' = Call(Become("refused", arg), "connect", [h |-> arg.h])
  /\ UNCHANGED <<Status, handles, entries, regs>>

Refused ==
  /\ At("refused")
  /\ Return("ERROR")
  /\ UNCHANGED <<handles, entries, OpenList, regs>>

\* CoreRemoveInterfaceFromProtocol looks for the interface again.
Removed(a) == CoreFindProtocolInterface(a.h, prot[a.p].Protocol, prot[a.p].Interface)

\* The last interface takes the handle with it.
Uninstall ==
  /\ At("uninstall")
  /\ ByDriver(arg.p) = {} /\ Kept(arg.p) = {}
  /\ LET p == Removed(arg)
         h == arg.h
         last == Members(handle[h]) = {p}
     IN  /\ notify' = PositionsWithout(p)
         /\ Protocols' = EntryRemoved(p)
         /\ newer' = IF last THEN newer \ {h} ELSE Mark(newer, h)
         /\ modified' = IF last THEN modified \ {h} ELSE Mark(modified, h)
         /\ prot' = [prot EXCEPT ![p] = Free]
         /\ OpenList' = [OpenList EXCEPT ![arg.p] = {}, ![p] = {}]
         /\ handle' = LinkRemoved(h, p)
         /\ before' = [r \in Regs |-> before[r] \ {p}]
  /\ Return("SUCCESS")
  /\ UNCHANGED signalled

\* The interface moves to the tail of its protocol's list.
Reinstall ==
  /\ At("reinstall")
  /\ ByDriver(arg.p) = {} /\ Kept(arg.p) = {}
  /\ LET p == Removed(arg)
         g == prot[p].Protocol
     IN  /\ notify' = PositionsWithout(p)
         /\ Protocols' = [EntryRemoved(p) EXCEPT ![g] = InsertTailList(@, p)]
         /\ newer' = Mark(newer, arg.h)
         /\ modified' = Mark(modified, arg.h)
         /\ prot' = [prot EXCEPT ![p].Interface = arg.i]
         /\ OpenList' = [OpenList EXCEPT ![arg.p] = {}]
         /\ before' = [r \in Regs |-> before[r] \ {p}]
         /\ stack' = Call(Become("reinstalled", [h |-> arg.h, g |-> g]), "connect", [h |-> arg.h])
  /\ UNCHANGED <<Status, handle, signalled>>

\* The registrations hear of it after the drivers were connected again.
Reinstalled ==
  /\ At("reinstalled")
  /\ signalled' = NotifyProtocolEntry(arg.g)
  /\ Return("SUCCESS")
  /\ UNCHANGED <<handles, entries, OpenList, notify, before>>

-----------------------------------------------------------------------------
(* InstallMultipleProtocolInterfaces, at NOTIFY, and                       *)
(* UninstallMultipleProtocolInterfaces.  n arguments were processed, m were *)
(* rolled back; `was` records what was installed before.                   *)

Contents == {prot[p] : p \in Installed}
Argument(k) == [g |-> arg.list[k][1], i |-> arg.list[k][2]]
Multi(h, list) == [h |-> h, list |-> list, n |-> 0, m |-> 0, was |-> Contents]

InstallMultiple(h, list) ==
  /\ May("InstallMultiple") /\ (h = NULL \/ Valid(h))
  /\ stack' = Append(stack, Frame("installMultiple", EFI_TPL_NOTIFY, Multi(h, list)))
  /\ Status' = "SUCCESS"
  /\ UNCHANGED <<handles, entries, OpenList, regs>>

\* A device path must be new to the system: CoreLocateDevicePath reads the
\* device path of every handle by CoreHandleProtocol.
DevicePaths == {p \in Installed :
                  p = CoreGetProtocolInterface(prot[p].Handle, DevicePathGuid)}
CheckDevicePath ==
  /\ At("installMultiple") /\ Status = "SUCCESS" /\ arg.n < Len(arg.list)
  /\ Argument(arg.n + 1).g = DevicePathGuid
  /\ OpenList' = [p \in Prots |->
       OpenList[p] \cup IF p \in DevicePaths THEN {Record(gDxeCoreImageHandle, NULL, {"USE"})} ELSE {}]
  /\ IF \E p \in DevicePaths : prot[p].Interface = Argument(arg.n + 1).i
     THEN stack' = Become("installMultiple", [arg EXCEPT !.n = @ + 1]) /\ Status' = "ERROR"
     ELSE stack' = Become("installOne", arg) /\ UNCHANGED Status
  /\ UNCHANGED <<handles, entries, regs>>

InstallOne ==
  /\ \/ At("installOne")
     \/ /\ At("installMultiple") /\ Status = "SUCCESS" /\ arg.n < Len(arg.list)
        /\ Argument(arg.n + 1).g # DevicePathGuid
  /\ LET a == Argument(arg.n + 1)
     IN  CallInstall(Become("installMultiple", [arg EXCEPT !.n = @ + 1]), arg.h, a.g, a.i)
  /\ UNCHANGED <<handles, entries, regs>>

InstallMultipleEnds ==
  /\ At("installMultiple")
  /\ \/ Status = "SUCCESS" /\ arg.n = Len(arg.list) /\ Return("SUCCESS")
     \/ Status = "ERROR" /\ stack' = Become("installRollback", [arg EXCEPT !.m = 1]) /\ UNCHANGED Status
  /\ UNCHANGED <<handles, entries, OpenList, regs>>

\* Mutant: the roll back leaves out the argument before the one that failed.
RollbackShort ==
  /\ At("installRollback")
  /\ IF arg.m < arg.n - 1
     THEN CallRemove(Become("installRollback", [arg EXCEPT !.m = @ + 1]), "uninstall",
                     arg.h, Argument(arg.m).g, Argument(arg.m).i, NULL)
     ELSE IF arg.m < arg.n THEN stack' = Become("installRollback", [arg EXCEPT !.m = @ + 1]) /\ UNCHANGED Status
     ELSE Return("ERROR")
  /\ UNCHANGED <<handles, entries, OpenList, regs>>

InstallRollback ==
  /\ At("installRollback")
  /\ IF arg.m < arg.n
     THEN CallRemove(Become("installRollback", [arg EXCEPT !.m = @ + 1]), "uninstall",
                     arg.h, Argument(arg.m).g, Argument(arg.m).i, NULL)
     ELSE Return("ERROR")
  /\ UNCHANGED <<handles, entries, OpenList, regs>>

UninstallMultiple(h, list) ==
  /\ May("UninstallMultiple") /\ Valid(h)
  /\ \A k \in 1..Len(list) : MayRemove(h, list[k][1])
  /\ stack' = Call(stack, "uninstallMultiple", Multi(h, list))
  /\ Status' = "SUCCESS"
  /\ UNCHANGED <<handles, entries, OpenList, regs>>

UninstallOne ==
  /\ At("uninstallMultiple")
  /\ \/ /\ Status = "SUCCESS" /\ arg.n < Len(arg.list)
        /\ CallRemove(Become("uninstallMultiple", [arg EXCEPT !.n = @ + 1]), "uninstall",
                      arg.h, Argument(arg.n + 1).g, Argument(arg.n + 1).i, NULL)
     \/ Status = "SUCCESS" /\ arg.n = Len(arg.list) /\ Return("SUCCESS")
     \/ Status = "ERROR" /\ stack' = Become("uninstallRollback", [arg EXCEPT !.m = 1]) /\ UNCHANGED Status
  /\ UNCHANGED <<handles, entries, OpenList, regs>>

UninstallRollback ==
  /\ At("uninstallRollback")
  /\ IF arg.m < arg.n
     THEN CallInstall(Become("uninstallRollback", [arg EXCEPT !.m = @ + 1]),
                      arg.h, Argument(arg.m).g, Argument(arg.m).i)
     ELSE Return("ERROR") /\ UNCHANGED OpenList
  /\ UNCHANGED <<handles, entries, regs>>

-----------------------------------------------------------------------------
(* OpenProtocol and CloseProtocol.                                         *)

AddRecord(p, o) == OpenList' = [OpenList EXCEPT ![p] = @ \cup {o}]

\* A driver opens for the handle it manages, or for a child of it.
OpenProtocol(h, g, agent, ctrl, attr) ==
  LET p == CoreGetProtocolInterface(h, g)
      o == Record(agent, ctrl, attr)
  IN  /\ May("Open") /\ p # NULL /\ Valid(ctrl)
      /\ attr \in IF At("app") THEN Attributes ELSE NestedAttributes
      /\ attr = {"CHILD"} <=> ctrl # h
      /\ o \notin OpenList[p]
      /\ \/ attr \in {{"USE"}, {"CHILD"}} /\ AddRecord(p, o) /\ UNCHANGED stack
         \/ /\ attr = {"BY_DRIVER"} /\ Exclusive(p) = {} /\ ByDriver(p) = {}
            /\ AddRecord(p, o) /\ UNCHANGED stack
         \/ /\ "EXCLUSIVE" \in attr /\ Exclusive(p) = {} /\ ByDriver(p) = {}
            /\ AddRecord(p, o) /\ UNCHANGED stack
         \/ /\ "EXCLUSIVE" \in attr /\ Exclusive(p) = {} /\ ByDriver(p) # {}
            /\ stack' = Call(stack, "exclusive", [h |-> h, p |-> p, o |-> o])
            /\ UNCHANGED OpenList
      /\ UNCHANGED <<Status, handles, entries, regs>>

\* Mutant: the request is granted after the first driver was disconnected.
OpenExclusiveOnce ==
  /\ \/ At("exclusive") /\ ByDriver(arg.p) = {}
     \/ At("exclusiveStopped") /\ Status = "SUCCESS"
  /\ AddRecord(arg.p, arg.o)
  /\ Return("SUCCESS")
  /\ UNCHANGED <<handles, entries, regs>>

\* No driver has the interface open any more.
OpenExclusive ==
  /\ At("exclusive") /\ ByDriver(arg.p) = {}
  /\ AddRecord(arg.p, arg.o)
  /\ Return("SUCCESS")
  /\ UNCHANGED <<handles, entries, regs>>

CloseProtocol(h, g, agent, ctrl) ==
  LET p == CoreGetProtocolInterface(h, g)
  IN  /\ May("Close") /\ p # NULL
      /\ \E o \in OpenList[p] : o.agent = agent /\ o.ctrl = ctrl
      /\ \A o \in OpenList[p] : o.agent = agent /\ o.ctrl = ctrl => RemoveInUse \/ ~RecordInUse(p, o)
      /\ OpenList' = [OpenList EXCEPT ![p] = {o \in @ : ~(o.agent = agent /\ o.ctrl = ctrl)}]
      /\ UNCHANGED <<control, handles, entries, regs>>

-----------------------------------------------------------------------------
(* DisconnectController and ConnectController, as far as they touch the    *)
(* database: which drivers are stopped, and that driver code runs.         *)

CallDriver(pc, h, agent) ==
  /\ stack' = Call(Become(pc, [h |-> h, agent |-> agent]), "driver", NULL)
  /\ UNCHANGED Status

\* A driver that manages children is asked to stop them first.
Manages(h, agent)  == Valid(h) /\ \E p \in Members(handle[h]) : \E o \in ByDriver(p) : o.agent = agent
Children(h, agent) == {o.ctrl : o \in {o \in UNION {OpenList[p] : p \in Members(handle[h])} :
                                         o.agent = agent /\ "CHILD" \in o.attr}}
\* A record that was closed in the meantime is freed memory: any agent is read.
DisconnectController ==
  /\ \/ /\ At("disconnect")
        /\ \E agent \in IF arg.o \in OpenList[arg.p] THEN {arg.o.agent} ELSE Agents :
             IF ~Manages(arg.h, agent) THEN Return("ERROR")
             ELSE CallDriver(IF Children(arg.h, agent) # {} THEN "stopChildren" ELSE "stop", arg.h, agent)
     \/ /\ At("stopChildren")
        /\ IF Status = "ERROR" THEN Return("ERROR") ELSE CallDriver("stop", arg.h, arg.agent)
     \/ At("stop") /\ Return(Status)
  /\ UNCHANGED <<handles, entries, OpenList, regs>>

ConnectController ==
  /\ At("connect")
  /\ \/ ~Valid(arg.h) /\ Return("ERROR")
     \/ /\ Valid(arg.h)
        /\ stack' = Append(Pop(stack), Frame("driver", Top.tpl, NULL))
        /\ UNCHANGED Status
  /\ UNCHANGED <<handles, entries, OpenList, regs>>

DriverReturns ==
  /\ At("driver")
  /\ \/ Return("SUCCESS") \/ Return("ERROR")
  /\ UNCHANGED <<handles, entries, OpenList, regs>>

-----------------------------------------------------------------------------
(* Registrations and notification functions.                               *)

RegisterProtocolNotify(r, g) ==
  /\ May("Register") /\ ~Allocated(r)
  /\ notify' = [notify EXCEPT ![r] = [Protocol |-> g, Position |-> NULL]]
  /\ before' = [before EXCEPT ![r] = Members(Protocols[g])]
  /\ UNCHANGED <<control, handles, entries, OpenList, signalled>>

\* CloseEvent of the event; not while its notification function runs.
UnregisterProtocolNotify(r) ==
  /\ May("Unregister") /\ Allocated(r)
  /\ ~\E k \in 1..Len(stack) : stack[k].pc \in {"notify", "callback"} /\ stack[k].arg.reg = r
  /\ notify' = [notify EXCEPT ![r] = Free]
  /\ signalled' = signalled \ {r}
  /\ before' = [before EXCEPT ![r] = {}]
  /\ UNCHANGED <<control, handles, entries, OpenList>>

\* CoreGetNextLocateByRegisterNotify, and the new Position: LocateProtocol, and
\* LocateHandle when the buffer is large enough.
Advance(r) ==
  /\ Unseen(r) # <<>>
  /\ notify' = [notify EXCEPT ![r].Position = Unseen(r)[1]]
  /\ UNCHANGED <<control, handles, entries, OpenList, signalled, before>>
LocateProtocol(r) == May("Locate") /\ Allocated(r) /\ Advance(r)

\* A notification function interrupts code of a lower priority.
Interrupt(tpl, pc, r) ==
  /\ Top.pc \notin Locked /\ Top.tpl < tpl /\ Len(stack) < MaxDepth
  /\ stack' = Append(stack, Frame(pc, tpl, [reg |-> r, saved |-> Status]))

\* A registration's notification function takes what the registration has,
\* until there is nothing more.
Notified(r) ==
  /\ r \in signalled
  /\ Interrupt(NotifyTpl[r], "notify", r)
  /\ signalled' = signalled \ {r}
  /\ UNCHANGED <<Status, handles, entries, OpenList, notify, before>>
NotifyTakes == At("notify") /\ Advance(arg.reg)
NotifyTookAll ==
  /\ At("notify") /\ Unseen(arg.reg) = <<>>
  /\ stack' = Become("callback", arg)
  /\ UNCHANGED <<Status, handles, entries, OpenList, regs>>

\* A notification function of another event, a timer's for instance.
Callback ==
  /\ Interrupt(EFI_TPL_CALLBACK, "callback", NULL)
  /\ UNCHANGED <<Status, handles, entries, OpenList, regs>>
CallbackReturns ==
  /\ At("callback")
  /\ stack' = Pop(stack) /\ Status' = arg.saved
  /\ UNCHANGED <<handles, entries, OpenList, regs>>

-----------------------------------------------------------------------------
(* LocateHandleBuffer and StartImage.                                      *)

\* CoreLocateHandle (ByProtocol) returns each handle once.
LocateHandle(g) == {prot[p].Handle : p \in Members(Protocols[g])}

\* The buffer is allocated between two calls of CoreLocateHandle.
LocateHandleBuffer(g) ==
  /\ May("LocateBuffer") /\ LocateHandle(g) # {}
  /\ stack' = Call(stack, "locateBuffer", [g |-> g, size |-> Cardinality(LocateHandle(g))])
  /\ UNCHANGED <<Status, handles, entries, OpenList, regs>>
LocateAgain ==
  /\ At("locateBuffer")
  /\ Return("SUCCESS")
  /\ UNCHANGED <<handles, entries, OpenList, regs>>

\* CoreStartImage: the entry point runs, then the handles with a new Key are
\* connected.  Bound: one image at a time.
StartImage ==
  /\ May("StartImage") /\ ~ImageRunning
  /\ stack' = Call(Call(stack, "image", NULL), "driver", NULL)
  /\ newer' = {} /\ modified' = {}
  /\ UNCHANGED <<Status, handle, entries, OpenList, regs>>
ConnectHandlesByKey ==
  /\ At("image")
  /\ stack' = Become("connectByKey", newer)
  /\ newer' = {} /\ modified' = {}
  /\ UNCHANGED <<Status, handle, entries, OpenList, regs>>
ConnectNext ==
  /\ At("connectByKey")
  /\ \/ \E h \in arg : stack' = Call(Become("connectByKey", arg \ {h}), "connect", [h |-> h])
                       /\ UNCHANGED Status
     \/ arg = {} /\ Return("SUCCESS")
  /\ UNCHANGED <<handles, entries, OpenList, regs>>

-----------------------------------------------------------------------------

Init ==
  /\ stack = <<Frame("app", EFI_TPL_APPLICATION, NULL)>>
  /\ Status = "SUCCESS"
  /\ handle = [h \in Handles |-> Free]
  /\ newer = {}
  /\ prot = [p \in Prots |-> Free]
  /\ OpenList = [p \in Prots |-> {}]
  /\ Protocols = [g \in Guids |-> <<>>]
  /\ notify = [r \in Regs |-> Free]
  /\ signalled = {}
  /\ before = [r \in Regs |-> {}]
  /\ modified = {}

CoreStep ==
  \/ Install \/ InstallFails
  \/ DisconnectUser \/ DisconnectAgain \/ RemoveRefused \/ Refused \/ Uninstall
  \/ Reinstall \/ Reinstalled
  \/ CheckDevicePath \/ InstallOne \/ InstallMultipleEnds \/ InstallRollback
  \/ UninstallOne \/ UninstallRollback
  \/ OpenExclusive \/ DisconnectController \/ ConnectController
  \/ NotifyTakes \/ NotifyTookAll
  \/ LocateAgain \/ ConnectHandlesByKey \/ ConnectNext

ServiceCall ==
  \/ \E h \in Handles, g \in Guids :
       \/ \E i \in Interfaces :
            \/ InstallProtocolInterface(h, g, i)
            \/ UninstallProtocolInterface(h, g, i)
            \/ \E new \in Interfaces : ReinstallProtocolInterface(h, g, i, new)
       \/ \E agent \in Agents, ctrl \in Handles :
            \/ \E attr \in Attributes \cup NestedAttributes : OpenProtocol(h, g, agent, ctrl, attr)
            \/ CloseProtocol(h, g, agent, ctrl)
  \/ \E g \in Guids, i \in Interfaces : InstallProtocolInterface(NULL, g, i)
  \/ \E list \in Multiple :
       \/ \E h \in Handles \cup {NULL} : InstallMultiple(h, list)
       \/ \E h \in Handles : UninstallMultiple(h, list)
  \/ \E r \in Regs :
       \/ \E g \in Guids : RegisterProtocolNotify(r, g)
       \/ UnregisterProtocolNotify(r)
       \/ LocateProtocol(r)
  \/ \E g \in Guids : LocateHandleBuffer(g)
  \/ StartImage

Next ==
  \/ CoreStep \/ ServiceCall
  \/ DriverReturns \/ CallbackReturns
  \/ Callback \/ \E r \in Regs : Notified(r)

Spec == Init /\ [][Next]_vars

-----------------------------------------------------------------------------
(* Properties.                                                             *)

Labels == ClientPc \cup Locked \cup
  {"install", "uninstallStopped", "reinstallStopped", "exclusiveStopped", "refused", "reinstalled",
   "installMultiple", "installOne", "installRollback", "uninstallMultiple", "uninstallRollback",
   "disconnect", "stopChildren", "stop", "connect", "locateBuffer", "image", "connectByKey"}

\* The type of every variable.
TypeOK ==
  /\ \A k \in 1..Len(stack) : /\ stack[k].pc \in Labels
                              /\ stack[k].tpl \in {EFI_TPL_APPLICATION, EFI_TPL_CALLBACK, EFI_TPL_NOTIFY}
  /\ stack # <<>> /\ Status \in {"SUCCESS", "ERROR"}
  /\ handle \in [Handles -> (Seq(Prots) \ {<<>>}) \cup {Free}]
  /\ prot \in [Prots -> [Handle : Handles, Protocol : Guids, Interface : Interfaces] \cup {Free}]
  /\ OpenList \in [Prots -> SUBSET OpenData]
  /\ Protocols \in [Guids -> Seq(Prots)]
  /\ notify \in [Regs -> [Protocol : Guids, Position : Prots \cup {NULL}] \cup {Free}]
  /\ signalled \subseteq Regs /\ before \in [Regs -> SUBSET Prots]
  /\ newer \subseteq Handles /\ modified \subseteq Handles

\* A PROTOCOL_INTERFACE is on its handle's list and on its protocol's list, once
\* each, and on no other list; its handle is allocated; what is freed has left no
\* open record behind.
DatabaseSound ==
  /\ \A h \in Handles : Valid(h) => /\ NoDuplicates(handle[h])
                                    /\ Members(handle[h]) = {p \in Installed : prot[p].Handle = h}
  /\ \A g \in Guids : /\ NoDuplicates(Protocols[g])
                      /\ Members(Protocols[g]) = {p \in Installed : prot[p].Protocol = g}
  /\ \A p \in Installed : Valid(prot[p].Handle)
  /\ \A p \in Prots \ Installed : OpenList[p] = {}

\* A registration's Position is the list head or an entry of the protocol's list,
\* whatever was uninstalled or reinstalled since: LocateHandle follows it.
PositionSound ==
  \A r \in Regs : Allocated(r) =>
    notify[r].Position \in {NULL} \cup Members(Protocols[notify[r].Protocol])

\* The lists of the database and the Positions of its registrations agree, whatever
\* notification functions install and uninstall between two locked sections of an
\* install, a reinstall or a LocateHandleBuffer, of the application or of a
\* notification function of a lower priority.
LinksSound == DatabaseSound /\ PositionSound

\* No install is missed: while a registration has not returned an interface that
\* came after it, its event is queued or its notification function still looks.
NoLostNotification ==
  \A r \in Regs :
    Allocated(r) /\ ~(Members(Unseen(r)) \subseteq before[r]) =>
      \/ r \in signalled
      \/ \E k \in 1..Len(stack) : stack[k].pc = "notify" /\ stack[k].arg.reg = r
      \/ \E k \in 1..Len(stack) : stack[k].pc = "reinstalled" /\ stack[k].arg.g = notify[r].Protocol

\* The Position scheme implements a queue per registration.
Queues == INSTANCE NotifyQueue WITH
  NoGuid    <- NULL,
  installed <- Protocols,
  watched   <- [r \in Regs |-> IF Allocated(r) THEN notify[r].Protocol ELSE NULL],
  unseen    <- [r \in Regs |-> IF Allocated(r) THEN Unseen(r) ELSE <<>>]

\* Installs, uninstalls and reinstalls in any order, with any registration at any
\* Position: LocateHandle and LocateProtocol return what the queue returns.
QueueSpec == Queues!Spec

\* Exclusive means exclusive: an interface is managed by one driver at most, and
\* who has it open EXCLUSIVE shares it with no driver and no other EXCLUSIVE.
ExclusiveSound ==
  \A p \in Installed : \A o, q \in OpenList[p] :
    o # q => /\ ~("BY_DRIVER" \in o.attr /\ "BY_DRIVER" \in q.attr)
             /\ ~("EXCLUSIVE" \in o.attr /\ {"EXCLUSIVE", "BY_DRIVER"} \cap q.attr # {})

\* Opens are granted and closed by drivers that are stopped, and handles freed, in the
\* middle of an open or an uninstall: the lists stay sound and exclusive access exclusive.
OpensSound == DatabaseSound /\ ExclusiveSound

\* A service that released the lock to disconnect drivers goes on with an
\* interface that is still installed and a record that is still on its list.
NoStaleReference ==
  \A k \in 1..Len(stack) :
    /\ stack[k].pc \in HoldsProt => stack[k].arg.p \in Installed
    /\ stack[k].pc = "disconnect" => stack[k].arg.o \in OpenList[stack[k].arg.p]

\* An InstallMultiple that fails leaves the interfaces that were there before.
InstallAllOrNothing ==
  At("installRollback") /\ arg.m = arg.n => Contents = arg.was

\* A service of several steps that fails in any of them leaves a sound database with
\* what was there before: a handle that its first argument created is gone, a handle
\* that had interfaces keeps those, and the records that its own test of device paths
\* left on what it installed went with it.  It runs at NOTIFY, so that nothing comes
\* between its steps; it may start in the middle of another service.
MultipleSound == DatabaseSound /\ InstallAllOrNothing

\* An UninstallMultiple that fails has put back what it had uninstalled.
UninstallRolledBack ==
  At("uninstallRollback") /\ arg.m = arg.n =>
    \A k \in 1..(arg.n - 1) :
      [Handle |-> arg.h, Protocol |-> arg.list[k][1], Interface |-> arg.list[k][2]] \in Contents

\* The assertion of CoreInstallProtocolInterfaceNotify, made with the lock held:
\* the interface is not on the handle yet.
InterfaceIsUnique ==
  At("install") => CoreFindProtocolInterface(arg.h, arg.g, arg.i) = NULL

\* The buffer that LocateHandleBuffer allocated is large enough.
BufferLargeEnough ==
  At("locateBuffer") => Cardinality(LocateHandle(arg.g)) <= arg.size

\* The handles that changed while an image executed are connected afterwards.
ModifiedAreConnected == At("image") => modified \subseteq newer
=============================================================================
