------------------------------- MODULE PeiCore -------------------------------
(***************************************************************************)
(* The PEI core: the PPI database with its notifications (src/Foundation/  *)
(* Core/Pei/Ppi/Ppi.c), the PEIM dispatcher (Dispatcher/Dispatcher.c) with *)
(* its dependency expressions, and the move to permanent memory.           *)
(*                                                                         *)
(* There is one thread.  A notification function runs inside the service   *)
(* that calls it and may call services itself: stack holds what is in      *)
(* progress above the dispatcher, whose own place is pc.                   *)
(*                                                                         *)
(* Abstracted: PpiListPtrs, which PPIs fill from below and notifications   *)
(* from above, is two sequences; slot MAX_PPI_DESCRIPTORS - k is notify[k],*)
(* and the first DispatchEnd of them are at dispatch level.  What a PEIM   *)
(* does is any sequence of services, each list of descriptors passed once. *)
(* Moving to permanent memory does not fail; there are fewer than 32 PEIMs *)
(* (the bits of the bit map).                                              *)
(***************************************************************************)
EXTENDS Integers, Sequences, SequencesExt

CONSTANTS
  NULL,
  Ppis, Notifies,        \* descriptors
  Guid,                  \* of each descriptor
  Level,                 \* of each Notifies: "CALLBACK" or "DISPATCH"
  Invalid,               \* descriptors without the flag of their kind
  InHeap,                \* descriptors that are built in the heap
  InstallLists, NotifyLists,   \* lists that clients pass
  Replacements,          \* <<old, new>> that clients pass to ReInstallPpi
  DispatchTable,         \* what SEC provides
  SecurityNotify,        \* the core's own notification
  MemoryDiscovered,      \* the core's own PPI
  FindFvPpiGuid, DxeIplPpiGuid,
  BootFv,
  FvHobs,                \* the volumes as FindFv returns them
  Files,                 \* of each volume, its PEIMs in order
  DepexSection,          \* of each PEIM, NULL if it has none
  Loadable, Trusted,     \* PEIMs
  Registers,             \* levels that a notification function of a level registers at
  MAX_PPI_DESCRIPTORS, MAX_GRAMMAR_SIZE

Levels == {"CALLBACK", "DISPATCH"}

\* The types of the constants.  What SEC provides leaves a slot for the core's notification,
\* which is at dispatch level.
ASSUME PeiAssumption ==
  /\ NULL \notin Notifies
  /\ Level \in [Notifies -> Levels]
  /\ SecurityNotify \in Notifies /\ Level[SecurityNotify] = "DISPATCH"
  /\ InstallLists \subseteq Seq(Ppis) /\ NotifyLists \subseteq Seq(Notifies)
  /\ Replacements \subseteq Ppis \X Ppis
  /\ DispatchTable \in Seq(Ppis) /\ MemoryDiscovered \in Ppis
  /\ MAX_PPI_DESCRIPTORS \in Nat /\ Len(DispatchTable) < MAX_PPI_DESCRIPTORS
  /\ FvHobs \in Seq(DOMAIN Files) /\ BootFv \in DOMAIN Files
  /\ Files \in [DOMAIN Files -> Seq(DOMAIN DepexSection)]

VARIABLES
  ppi, notify,           \* PpiListPtrs: [d |-> descriptor, at |-> where it is]
  DispatchEnd,
  LastInstall, LastNotify,     \* LastDispatchedInstall and LastDispatchedNotify
  CurrentFv, fv, file,   \* file: place of CurrentPeimAddress in the volume
  CurrentPeim,
  Bitmap, Previous,      \* sets of PEIM numbers
  FindFv,                \* was the FindFv PPI located?
  PeiMemoryInstalled, SwitchStackSignal,
  pc, TempValue, stack,
  passed,                \* history: lists that were passed
  refused,               \* history: descriptors of lists that did not fit
  replaced,              \* history: PPIs that ReInstallPpi put in the place of another
  told                   \* history: how often each notification had each PPI

lists    == <<ppi, notify, DispatchEnd>>
done     == <<LastInstall, LastNotify>>
search   == <<CurrentFv, fv, file, CurrentPeim, Previous, FindFv>>
memory   == <<PeiMemoryInstalled, SwitchStackSignal>>
history  == <<passed, refused, replaced>>
vars     == <<lists, done, search, Bitmap, memory, pc, TempValue, stack, history, told>>
-----------------------------------------------------------------------------
(* Dependency expressions.                                                 *)

Installed == {Guid[ppi[k].d] : k \in 1..Len(ppi)}

\* IsPpiInstalled: a PUSH is looked up when it is popped.
IsPpiInstalled(entry, have) ==
  IF entry.Operator = NULL THEN entry.Result ELSE entry.Operator \in have

Result(b)    == [Operator |-> NULL, Result |-> b]
Operand(g)   == [Operator |-> g, Result |-> FALSE]
Pushes       == {"PUSH", "TRUE", "FALSE"}

\* One instruction on the evaluation stack s; Runnable is NULL until the expression ends.
Step(m, ins, have) ==
  LET s   == m.s
      n   == Len(s)
      top == IsPpiInstalled(s[n], have)
      Stop(b)    == [s |-> s, Runnable |-> b]
      Go(t)      == [s |-> t, Runnable |-> NULL]
      Decided(b) == Go([SubSeq(s, 1, n - 1) EXCEPT ![n - 1] = Result(b)])
  IN  CASE m.Runnable # NULL           -> m
        [] ins.op \in Pushes /\ n = MAX_GRAMMAR_SIZE -> Stop(FALSE)
        [] ins.op = "PUSH"             -> Go(Append(s, Operand(ins.guid)))
        [] ins.op \in {"TRUE", "FALSE"} -> Go(Append(s, Result(ins.op = "TRUE")))
        [] ins.op \in {"AND", "OR"} /\ n >= 2 ->
             IF top = (ins.op = "OR") THEN Decided(top) ELSE Go(SubSeq(s, 1, n - 1))
        [] ins.op = "NOT" /\ n >= 1    -> Go([s EXCEPT ![n] = Result(~top)])
        [] ins.op = "END" /\ n = 1     -> Stop(top)
        [] OTHER                       -> Stop(FALSE)

PeimDispatchReadiness(depex, have) ==
  LET m == FoldLeft(LAMBDA a, ins : Step(a, ins, have), [s |-> <<>>, Runnable |-> NULL], depex)
  IN  m.Runnable = TRUE

DepexSatisfied(peim) ==
  DepexSection[peim] # NULL => PeimDispatchReadiness(DepexSection[peim], Installed)
-----------------------------------------------------------------------------
(* DispatchNotify.                                                         *)

Top == stack[Len(stack)]
Below == SubSeq(stack, 1, Len(stack) - 1)

\* Notifications from..to against PPIs first..last.
DispatchFrame(level, from, to, first, last) ==
  [pc |-> "dispatch", level |-> level, k |-> from - 1, to |-> to, n |-> NULL,
   i |-> last + 1, first |-> first, last |-> last]
CallFrame(level) == [pc |-> "function", level |-> level]

Matches(f) ==
  {i \in f.i..f.last : f.n # NULL /\ Guid[ppi[i].d] = Guid[f.n]}

\* The next PPI the notification is for: its function is called.  The core's own,
\* SecurityPpiNotifyCallback, only remembers that there is a PPI that verifies PEIMs.
NotifyFunction ==
  /\ stack # <<>> /\ Top.pc = "dispatch"
  /\ \E i \in Matches(Top) :
       /\ \A j \in Matches(Top) : i <= j
       /\ stack' = Below \o <<[Top EXCEPT !.i = i + 1]>>
                    \o IF Top.n = SecurityNotify THEN <<>> ELSE <<CallFrame(Top.level)>>
       /\ told' = [told EXCEPT ![<<Top.n, ppi[i].d>>] = @ + 1]
  /\ UNCHANGED <<lists, done, search, Bitmap, memory, pc, TempValue, history>>

\* The next notification, as PpiListPtrs has it now.
NextNotify ==
  /\ stack # <<>> /\ Top.pc = "dispatch"
  /\ Matches(Top) = {}
  /\ stack' = IF Top.k < Top.to
              THEN Append(Below, [Top EXCEPT !.k = @ + 1, !.i = Top.first,
                                             !.n = notify[Top.k + 1].d])
              ELSE Below
  /\ UNCHANGED <<lists, done, search, Bitmap, memory, pc, TempValue, history, told>>

FunctionReturns ==
  /\ stack # <<>> /\ Top.pc = "function"
  /\ stack' = Below
  /\ UNCHANGED <<lists, done, search, Bitmap, memory, pc, TempValue, history, told>>
-----------------------------------------------------------------------------
(* The services of the PPI database.                                       *)

Room == MAX_PPI_DESCRIPTORS - Len(ppi) - Len(notify)

Entry(d) == [d |-> d, at |-> IF d \notin InHeap THEN "rom"
                             ELSE IF PeiMemoryInstalled THEN "memory" ELSE "car"]
Entries(list) == [k \in 1..Len(list) |-> Entry(list[k])]

\* Which descriptor stops the loop: the first that finds no slot or is invalid.
Stops(list) == {k \in 1..Len(list) : k > Room \/ list[k] \in Invalid}
OutOfResources(list)   == Stops(list) # {} /\ Min(Stops(list)) > Room
InvalidParameter(list) == Stops(list) # {} /\ Min(Stops(list)) <= Room

\* PeiInstallPpi.  What found a slot before the list was full stays; what came before an
\* invalid descriptor does not.
PeiInstallPpi(list) ==
  \/ /\ Stops(list) = {}
     /\ ppi' = ppi \o Entries(list)
     /\ stack' = Append(stack, DispatchFrame("CALLBACK", DispatchEnd + 1, Len(notify),
                                             Len(ppi) + 1, Len(ppi) + Len(list)))
     /\ UNCHANGED refused
  \/ /\ OutOfResources(list)
     /\ ppi' = ppi \o Entries(SubSeq(list, 1, Room))
     /\ refused' = refused \cup Range(list)
     /\ UNCHANGED stack
  \/ InvalidParameter(list) /\ UNCHANGED <<ppi, stack, refused>>

\* PeiReInstallPpi of a PPI that is installed (it changes nothing otherwise).
PeiReInstallPpi(old, new) ==
  /\ new \notin Invalid
  /\ \E i \in 1..Len(ppi) :
       /\ ppi[i].d = old /\ \A j \in 1..(i - 1) : ppi[j].d # old
       /\ ppi' = [ppi EXCEPT ![i] = Entry(new)]
       /\ stack' = Append(stack, DispatchFrame("CALLBACK", DispatchEnd + 1, Len(notify), i, i))
  /\ replaced' = replaced \cup {new}
  /\ UNCHANGED <<notify, DispatchEnd, passed, refused>>

\* The entries of a level, in their order.
AtLevel(entries, level) ==
  LET some[k \in 0..Len(entries)] ==
        IF k = 0 THEN <<>>
        ELSE IF Level[entries[k].d] = level THEN Append(some[k - 1], entries[k])
        ELSE some[k - 1]
  IN  some[Len(entries)]

\* Mutant: the callback notifications keep their place in front of the dispatch ones.
InOrder(old, new) == old \o new

\* New dispatch notifications go below those that are there; all callbacks move up.
Arranged(old, new) ==
  SubSeq(old, 1, DispatchEnd) \o AtLevel(new, "DISPATCH")
    \o SubSeq(old, DispatchEnd + 1, Len(old)) \o AtLevel(new, "CALLBACK")

\* PeiNotifyPpi.  The new callbacks are told of all PPIs that are installed.
PeiNotifyPpi(list) ==
  LET new  == Entries(list)
      more == Len(AtLevel(new, "DISPATCH")) IN
  \/ /\ Stops(list) = {}
     /\ notify' = Arranged(notify, new)
     /\ DispatchEnd' = DispatchEnd + more
     /\ stack' = Append(stack, DispatchFrame("CALLBACK", Len(notify) + more + 1,
                                             Len(notify) + Len(list), 1, Len(ppi)))
     /\ UNCHANGED refused
  \/ /\ OutOfResources(list)
     /\ notify' = notify \o Entries(SubSeq(list, 1, Room))
     /\ refused' = refused \cup Range(list)
     /\ UNCHANGED <<DispatchEnd, stack>>
  \/ InvalidParameter(list) /\ UNCHANGED <<notify, DispatchEnd, stack, refused>>
-----------------------------------------------------------------------------
(* What PEIMs and notification functions call.                             *)

Running == IF stack = <<>> THEN pc = "peim" ELSE Top.pc = "function"

Passes(list) == Running /\ list \notin passed /\ passed' = passed \cup {list}

InstallPpi(list) ==
  /\ Passes(list)
  /\ PeiInstallPpi(list)
  /\ UNCHANGED <<notify, DispatchEnd, done, search, Bitmap, memory, pc, TempValue, replaced, told>>

ReInstallPpi(old, new) ==
  /\ Running /\ \A k \in 1..Len(ppi) : ppi[k].d # new
  /\ new \notin replaced
  /\ PeiReInstallPpi(old, new)
  /\ UNCHANGED <<done, search, Bitmap, memory, pc, TempValue, told>>

NotifyPpi(list) ==
  /\ Passes(list)
  /\ stack # <<>> => \A n \in Range(list) \ Invalid : Level[n] \in Registers[Top.level]
  /\ PeiNotifyPpi(list)
  /\ UNCHANGED <<ppi, done, search, Bitmap, memory, pc, TempValue, replaced, told>>

\* Mutant: the notification registered last is not converted.
AllButLast(entries) ==
  [k \in 1..Len(entries) |->
     IF entries[k].at = "car" /\ k < Len(entries) THEN [entries[k] EXCEPT !.at = "memory"]
     ELSE entries[k]]

\* ConvertPpiPointers: the heap was copied to permanent memory.
Converted(entries) ==
  [k \in 1..Len(entries) |->
     IF entries[k].at = "car" THEN [entries[k] EXCEPT !.at = "memory"] ELSE entries[k]]

PeiInstallPeiMemory ==
  /\ Running /\ ~PeiMemoryInstalled
  /\ PeiMemoryInstalled' = TRUE /\ SwitchStackSignal' = TRUE
  /\ ppi' = Converted(ppi)
  /\ notify' = Converted(notify)
  /\ UNCHANGED <<DispatchEnd, done, search, Bitmap, pc, TempValue, stack, history, told>>
-----------------------------------------------------------------------------
(* The dispatcher.                                                         *)

At(label) == stack = <<>> /\ pc = label

\* FindNextPeim finds one, which is run unless it was, or may not be.
SkipPeim ==
  /\ At("search") /\ file < Len(Files[fv])
  /\ LET peim == Files[fv][file + 1] IN
       CurrentPeim \in Bitmap \/ ~DepexSatisfied(peim) \/ peim \notin Loadable
  /\ file' = file + 1 /\ CurrentPeim' = CurrentPeim + 1
  /\ UNCHANGED <<lists, done, CurrentFv, fv, Previous, FindFv, Bitmap, memory, pc, TempValue, stack, history, told>>

PrivateSecurityPpi == \E p \in Ppis : told[<<SecurityNotify, p>>] > 0
VerifyPeim(peim) == PrivateSecurityPpi => peim \in Trusted

\* One that does not pass is not run, but counts as dispatched.
RunPeim ==
  /\ At("search") /\ file < Len(Files[fv])
  /\ LET peim == Files[fv][file + 1] IN
       /\ CurrentPeim \notin Bitmap /\ DepexSatisfied(peim) /\ peim \in Loadable
       /\ \/ VerifyPeim(peim) /\ pc' = "peim" /\ UNCHANGED Bitmap
          \/ ~VerifyPeim(peim) /\ pc' = "notifies" /\ Bitmap' = Bitmap \cup {CurrentPeim}
  /\ file' = file + 1
  /\ UNCHANGED <<lists, done, CurrentFv, fv, CurrentPeim, Previous, FindFv, memory, TempValue, stack, history, told>>

PeimReturns ==
  /\ At("peim")
  /\ Bitmap' = Bitmap \cup {CurrentPeim}
  /\ pc' = "notifies"
  /\ UNCHANGED <<lists, done, search, memory, TempValue, stack, history, told>>

\* ProcessNotifyList: new dispatch notifications for the PPIs that were processed ...
ProcessNotifies ==
  /\ At("notifies")
  /\ \/ /\ LastNotify # DispatchEnd
        /\ TempValue' = DispatchEnd
        /\ stack' = <<DispatchFrame("DISPATCH", LastNotify + 1, DispatchEnd, 1, LastInstall)>>
        /\ pc' = "notified"
     \/ LastNotify = DispatchEnd /\ pc' = "installs" /\ UNCHANGED <<TempValue, stack>>
  /\ UNCHANGED <<lists, done, search, Bitmap, memory, history, told>>

NotifiesProcessed ==
  /\ At("notified")
  /\ LastNotify' = TempValue
  /\ pc' = "notifies"
  /\ UNCHANGED <<lists, LastInstall, search, Bitmap, memory, TempValue, stack, history, told>>

\* ... then all dispatch notifications for new PPIs, until nothing is new.
ProcessInstalls ==
  /\ At("installs")
  /\ \/ /\ LastInstall # Len(ppi)
        /\ TempValue' = Len(ppi)
        /\ stack' = <<DispatchFrame("DISPATCH", 1, DispatchEnd, LastInstall + 1, Len(ppi))>>
        /\ pc' = "installed"
     \/ /\ LastInstall = Len(ppi)
        /\ pc' = IF LastNotify = DispatchEnd THEN "processed" ELSE "notifies"
        /\ UNCHANGED <<TempValue, stack>>
  /\ UNCHANGED <<lists, done, search, Bitmap, memory, history, told>>

InstallsProcessed ==
  /\ At("installed")
  /\ LastInstall' = TempValue
  /\ pc' = "installs"
  /\ UNCHANGED <<lists, LastNotify, search, Bitmap, memory, TempValue, stack, history, told>>

NextPeim ==
  /\ At("processed") /\ ~SwitchStackSignal
  /\ CurrentPeim' = CurrentPeim + 1
  /\ pc' = "search"
  /\ UNCHANGED <<lists, done, CurrentFv, fv, file, Previous, FindFv, Bitmap, memory, TempValue, stack, history, told>>

\* SwitchCoreStacks: PeiCore starts again with the old data, tells of the memory and goes
\* on after the PEIM that installed it.
SwitchCoreStacks ==
  /\ At("processed") /\ SwitchStackSignal
  /\ SwitchStackSignal' = FALSE
  /\ CurrentPeim' = CurrentPeim + 1
  /\ PeiInstallPpi(<<MemoryDiscovered>>)
  /\ pc' = "search"
  /\ UNCHANGED <<notify, DispatchEnd, done, CurrentFv, fv, file, Previous, FindFv, Bitmap, PeiMemoryInstalled,
                 TempValue, passed, replaced, told>>

\* The volumes that FindFv has from here on, but for the one that was searched first and
\* the current one.
NextVolumes == {v \in (CurrentFv + 1)..Len(FvHobs) : FvHobs[v] \notin {BootFv, fv}}

NextVolume ==
  /\ At("search") /\ file = Len(Files[fv])
  /\ FindFv \/ FindFvPpiGuid \in Installed
  /\ FindFv' = TRUE
  /\ \E v \in NextVolumes :
       /\ \A w \in NextVolumes : v <= w
       /\ CurrentFv' = v /\ fv' = FvHobs[v] /\ file' = 0
  /\ UNCHANGED <<lists, done, CurrentPeim, Previous, Bitmap, memory, pc, TempValue, stack, history, told>>

\* Mutant: the next pass goes on in the volume where this one ended.
PassInSameVolume ==
  /\ CurrentPeim' = 0 /\ file' = 0 /\ CurrentFv' = 0 /\ UNCHANGED fv
  /\ Previous' = Bitmap

NewPass ==
  /\ CurrentPeim' = 0 /\ file' = 0 /\ CurrentFv' = 0 /\ fv' = BootFv
  /\ Previous' = Bitmap

\* A pass has been through all volumes: another one follows unless all PEIMs were dispatched
\* or none was in this pass.
PassEnds ==
  /\ At("search") /\ file = Len(Files[fv])
  /\ FindFv \/ FindFvPpiGuid \in Installed => NextVolumes = {}
  /\ FindFv' = (FindFv \/ FindFvPpiGuid \in Installed)
  /\ \/ /\ 0..(CurrentPeim - 1) \subseteq Bitmap \/ Bitmap = Previous
        /\ pc' = "DxeIpl" /\ CurrentFv' = 0
        /\ UNCHANGED <<CurrentPeim, file, fv, Previous>>
     \/ /\ ~(0..(CurrentPeim - 1) \subseteq Bitmap) /\ Bitmap # Previous
        /\ NewPass
        /\ UNCHANGED pc
  /\ UNCHANGED <<lists, done, Bitmap, memory, TempValue, stack, history, told>>

\* The end of PeiCore: the DXE IPL is entered, or an assertion fails.
EnterDxeIpl ==
  /\ At("DxeIpl")
  /\ pc' = IF PeiMemoryInstalled /\ DxeIplPpiGuid \in Installed THEN "Entered" ELSE "Asserted"
  /\ UNCHANGED <<lists, done, search, Bitmap, memory, TempValue, stack, history, told>>
-----------------------------------------------------------------------------
\* PeiCore up to the dispatcher: the core's notification and the PPIs of SEC.
Init ==
  /\ notify = <<[d |-> SecurityNotify, at |-> "rom"]>> /\ DispatchEnd = 1
  /\ ppi = [k \in 1..Len(DispatchTable) |-> [d |-> DispatchTable[k], at |-> "rom"]]
  /\ LastInstall = 0 /\ LastNotify = 0
  /\ CurrentFv = 0 /\ fv = BootFv /\ file = 0 /\ CurrentPeim = 0
  /\ Bitmap = {} /\ Previous = {} /\ FindFv = FALSE
  /\ PeiMemoryInstalled = FALSE /\ SwitchStackSignal = FALSE
  /\ pc = "search" /\ TempValue = 0 /\ stack = <<>>
  /\ passed = {} /\ refused = {} /\ replaced = {}
  /\ told = [np \in Notifies \X Ppis |-> 0]

Client ==
  \/ \E list \in InstallLists : InstallPpi(list)
  \/ \E list \in NotifyLists : NotifyPpi(list)
  \/ \E r \in Replacements : ReInstallPpi(r[1], r[2])
  \/ PeiInstallPeiMemory

Core ==
  \/ NotifyFunction \/ NextNotify \/ FunctionReturns
  \/ SkipPeim \/ RunPeim \/ PeimReturns
  \/ ProcessNotifies \/ NotifiesProcessed \/ ProcessInstalls \/ InstallsProcessed
  \/ NextPeim \/ SwitchCoreStacks \/ NextVolume \/ PassEnds \/ EnterDxeIpl

Next == Client \/ Core

Spec == Init /\ [][Next]_vars
-----------------------------------------------------------------------------
(* Properties.                                                             *)

\* The PEIMs in the order of search: those of the boot volume, then the others.
Others == FlattenSeq([v \in 1..Len(FvHobs) |->
                        IF FvHobs[v] = BootFv THEN <<>> ELSE Files[FvHobs[v]]])
Known == IF FindFv THEN Files[BootFv] \o Others ELSE Files[BootFv]

Slots(ds) == [d : ds, at : {"rom", "car", "memory"}]

\* The type invariant: the two lists share the slots and do not meet; when memory is
\* permanent, no slot in use refers to the temporary memory.
TypeOK ==
  /\ ppi \in Seq(Slots(Ppis)) /\ notify \in Seq(Slots(Notifies))
  /\ Room >= 0
  /\ DispatchEnd \in 0..Len(notify) /\ LastNotify \in 0..DispatchEnd
  /\ LastInstall \in 0..Len(ppi)
  /\ Bitmap \cup Previous \subseteq 0..(Len(Files[BootFv] \o Others) - 1)
  /\ fv \in DOMAIN Files /\ file \in 0..Len(Files[fv])
  /\ \A k \in 1..Len(stack) : stack[k].pc \in {"dispatch", "function"}
  /\ PeiMemoryInstalled => \A e \in Range(ppi) \cup Range(notify) : e.at # "car"

Registered(level) ==
  {n \in Notifies \ refused : Level[n] = level /\ \E k \in 1..Len(notify) : notify[k].d = n}
Present == {p \in Ppis \ refused : \E k \in 1..Len(ppi) : ppi[k].d = p}

\* What a client keeps to and the services do not look at: a PPI, and a callback, is in one
\* list, once; and notification functions that are callbacks register callbacks.
OwnDescriptors ==
  LET core == Append(DispatchTable, MemoryDiscovered) IN
  /\ \A i, j \in 1..Len(core) : core[i] = core[j] => i = j
  /\ \A l \in InstallLists : \A i \in 1..Len(l), j \in 1..Len(core) : l[i] # core[j]
  /\ \A l, m \in InstallLists : \A i \in 1..Len(l), j \in 1..Len(m) :
       l[i] = m[j] => l = m /\ i = j
  /\ \A l, m \in NotifyLists : \A i \in 1..Len(l), j \in 1..Len(m) :
       l[i] = m[j] /\ Level[l[i]] = "CALLBACK" => l = m /\ i = j
CallbacksRegisterCallbacks == Registers["CALLBACK"] = {"CALLBACK"}

\* Whatever notification functions install and register while others are in the middle of
\* their lists, a callback was called for each PPI it is for when a service has returned to
\* its PEIM, and not twice (but for a PPI that replaced another under an outer list); a
\* dispatch notification was called when the dispatcher goes on (but not for a PPI that
\* replaced another).
EachIsNotified ==
  /\ \A n \in Notifies, p \in Ppis \ (refused \cup replaced) : Level[n] = "CALLBACK" => told[<<n, p>>] <= 1
  /\ stack = <<>> => \A n \in Registered("CALLBACK"), p \in Present :
                       Guid[n] = Guid[p] => told[<<n, p>>] >= 1
  /\ At("processed") => \A n \in Registered("DISPATCH"), p \in Present \ replaced :
                          Guid[n] = Guid[p] => told[<<n, p>>] >= 1

\* There is one HOB for a volume.
OneHobPerVolume == \A v, w \in 1..Len(FvHobs) : FvHobs[v] = FvHobs[w] => v = w

\* The dispatcher ends only when every PEIM of the volumes it knows that could run has run,
\* and none has run in the place of another: its number is its place in the order of search.
EndsWhenDone ==
  pc = "DxeIpl" =>
    \A k \in 1..Len(Known) :
      (k - 1) \in Bitmap \/ ~DepexSatisfied(Known[k]) \/ Known[k] \notin Loadable

\* A dispatch notification is called once for each PPI: what was processed is kept for that.
DispatchOnce ==
  \A n \in Registered("DISPATCH"), p \in Present \ replaced : told[<<n, p>>] <= 1

\* Nothing waits when the DXE IPL is entered: the notifications for the memory PPI, too,
\* were called ("Alert any listeners that there is permanent memory available").
ListenersAlerted ==
  pc = "DxeIpl" => \A n \in Registered("DISPATCH"), p \in Present \ replaced :
                     Guid[n] = Guid[p] => told[<<n, p>>] >= 1
=============================================================================
