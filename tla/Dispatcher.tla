----------------------------- MODULE Dispatcher -----------------------------
(***************************************************************************)
(* The DXE dispatcher (src/Foundation/Core/Dxe/Dispatcher/Dispatcher.c):   *)
(* drivers are discovered in firmware volumes, scheduled when their        *)
(* dependency expression holds, loaded and started.                        *)
(*                                                                         *)
(* CoreDispatcher runs at APPLICATION, one step of this module at a time:  *)
(* a section under mDispatcherLock, a search, a call of LoadImage or       *)
(* StartImage.  Between two steps a notification function may run, and     *)
(* while StartImage does, the driver: both install and uninstall protocols, *)
(* call Schedule and Trust, and bring firmware volumes into the system,    *)
(* whose notification (at CALLBACK) the dispatcher never sees half done.   *)
(* A nested call of Dispatch returns at once and is left out.              *)
(***************************************************************************)
EXTENDS Depex, Lists

CONSTANTS
  Drivers,           \* the driver files, each an EFI_CORE_DRIVER_ENTRY to be
  Volumes,           \* firmware volumes
  FileName,          \* [Drivers -> their file name]
  Fv,                \* [Volumes -> Seq(Drivers)], in the order of GetNextFile
  Apriori,           \* [Volumes -> Seq(file names)]
  DepexSection,      \* [Drivers -> dependency expression, <<>> when there is none]
  Guided,            \* drivers whose sections need the extraction protocol
  ExtractionGuid,    \* that protocol
  ArchProtocols,     \* protocols of mArchProtocols
  Protocols,         \* protocols that may be installed
  Removable,         \* those that may be uninstalled again
  LoadStatus         \* what FileAuthenticationState and the loader may say

ASSUME DispatcherAssumption ==
  /\ ArchProtocols \cup Removable \cup {ExtractionGuid} \subseteq Protocols
  /\ Guided \subseteq Drivers
  /\ LoadStatus \subseteq {"SUCCESS", "SECURITY_VIOLATION", "ACCESS_DENIED"}
  /\ Fv \in [Volumes -> Seq(Drivers)]
  /\ Apriori \in [Volumes -> Seq(UNION {Members(Apriori[fv]) : fv \in Volumes})]
  /\ DepexSection \in [Drivers -> Seq([op : Operations, guid : Protocols \cup {FileName[d] : d \in Drivers}])]

VARIABLES
  mDiscoveredList,      \* list of drivers
  mScheduledQueue,      \* list of drivers
  mFvHandleList,        \* volumes that were processed
  entry,                \* [Drivers -> EFI_CORE_DRIVER_ENTRY]
  image,                \* [Drivers -> state of ImageHandle]
  pc,                   \* where CoreDispatcher is
  DriverEntry,          \* its driver: [i |-> position in mDiscoveredList while
                        \* it searches, d |-> the driver otherwise]
  ReadyToRun,
  inserting,            \* calls of CoreInsertOnScheduledQueue..., innermost last
  installed,            \* protocols that LocateProtocol finds
  present,              \* history: protocols that were installed at some time
  disturbed             \* history: somebody else acted during a search that has
                        \* scheduled nothing so far

lists  == <<mDiscoveredList, mScheduledQueue, mFvHandleList>>
loop   == <<pc, DriverEntry, ReadyToRun, inserting>>
world  == <<installed, present>>
vars   == <<lists, entry, image, loop, world, disturbed>>

Discovered == Members(mDiscoveredList)
Volume(d)  == CHOOSE fv \in Volumes : d \in Members(Fv[fv])

-----------------------------------------------------------------------------
(* CoreGetDepexSectionAndPreProccess and CorePreProcessDepex.              *)

Zeroed == [Dependent |-> FALSE, Unrequested |-> FALSE, Scheduled |-> FALSE, Untrusted |-> FALSE,
           Initialized |-> FALSE, DepexProtocolError |-> FALSE, Depex |-> <<>>]
IsBefore(d) == StartsWith(entry[d].Depex, "BEFORE")
IsAfter(d)  == StartsWith(entry[d].Depex, "AFTER")
Names(d)    == entry[d].Depex[1].guid

GetDepex(d, e) ==
  IF d \in Guided /\ ExtractionGuid \notin installed
  THEN [e EXCEPT !.DepexProtocolError = TRUE]
  ELSE IF StartsWith(DepexSection[d], "SOR")
  THEN [e EXCEPT !.DepexProtocolError = FALSE, !.Depex = DepexSection[d], !.Unrequested = TRUE]
  ELSE [e EXCEPT !.DepexProtocolError = FALSE, !.Depex = DepexSection[d], !.Dependent = TRUE]

-----------------------------------------------------------------------------
(* CoreFwVolEventProtocolNotify, for one firmware volume.                  *)

\* The driver of volume fv that has the name, as the a priori loop finds it.
Named(fv, name) == {d \in Members(Fv[fv]) : FileName[d] = name}
AprioriDrivers(fv) ==
  LET found[k \in 0..Len(Apriori[fv])] ==
        IF k = 0 THEN <<>>
        ELSE LET named == Named(fv, Apriori[fv][k])
             IN  IF named = {} THEN found[k - 1]
                 ELSE Append(found[k - 1], CHOOSE d \in named : TRUE)
  IN  found[Len(Apriori[fv])]

ScheduledEntry(e) == [e EXCEPT !.Dependent = FALSE, !.Scheduled = TRUE]

FwVolNotify(fv) ==
  /\ fv \notin mFvHandleList
  /\ mFvHandleList' = mFvHandleList \cup {fv}
  /\ mDiscoveredList' = mDiscoveredList \o Fv[fv]
  /\ mScheduledQueue' = mScheduledQueue \o AprioriDrivers(fv)
  /\ entry' = [d \in Drivers |->
       IF d \notin Members(Fv[fv]) THEN entry[d]
       ELSE IF d \in Members(AprioriDrivers(fv)) THEN ScheduledEntry(GetDepex(d, Zeroed))
       ELSE GetDepex(d, Zeroed)]
  /\ UNCHANGED <<image, loop, world>>

\* No device path, or the security check failed: never looked at again.
FwVolRejected(fv) ==
  /\ fv \notin mFvHandleList
  /\ mFvHandleList' = mFvHandleList \cup {fv}
  /\ UNCHANGED <<mDiscoveredList, mScheduledQueue, entry, image, loop, world>>

-----------------------------------------------------------------------------
(* Services that drivers and notification functions call.                  *)

Schedule(d) ==
  /\ d \in Discovered /\ entry[d].Unrequested
  /\ entry' = [entry EXCEPT ![d].Unrequested = FALSE, ![d].Dependent = TRUE]
  /\ UNCHANGED <<lists, image, loop, world>>

Trust(d) ==
  /\ d \in Discovered /\ entry[d].Untrusted
  /\ entry' = [entry EXCEPT ![d].Untrusted = FALSE, ![d].Scheduled = TRUE]
  /\ mScheduledQueue' = InsertTailList(mScheduledQueue, d)
  /\ UNCHANGED <<mDiscoveredList, mFvHandleList, image, loop, world>>

InstallProtocol(g) ==
  /\ g \notin installed
  /\ installed' = installed \cup {g} /\ present' = present \cup {g}
  /\ UNCHANGED <<lists, entry, image, loop>>
UninstallProtocol(g) ==
  /\ g \in installed \cap Removable
  /\ installed' = installed \ {g}
  /\ UNCHANGED <<lists, entry, image, loop, present>>

-----------------------------------------------------------------------------
(* CoreDispatcher: the queue is drained.                                   *)

Searching(i) == pc' = "search" /\ DriverEntry' = [i |-> i]
Working(label, d) == pc' = label /\ DriverEntry' = [d |-> d]
Driver == DriverEntry.d
NoEntry == [i |-> 0]

CallDispatch ==
  /\ pc = "idle"
  /\ pc' = "drain"
  /\ UNCHANGED <<lists, entry, image, DriverEntry, ReadyToRun, inserting, world>>

FirstScheduled ==
  /\ pc = "drain" /\ mScheduledQueue # <<>>
  /\ LET d == mScheduledQueue[1]
     IN  Working(IF image[d] = "none" THEN "load" ELSE "loaded", d)
  /\ UNCHANGED <<lists, entry, image, ReadyToRun, inserting, world>>

Unqueued(d) == mScheduledQueue' = RemoveEntryList(mScheduledQueue, d)

\* A driver that is not trusted yet has its image; any other failure is final.
Rejected(d, status) ==
  /\ entry' = IF status = "SECURITY_VIOLATION"
              THEN [entry EXCEPT ![d].Untrusted = TRUE, ![d].Scheduled = FALSE]
              ELSE [entry EXCEPT ![d].Initialized = TRUE, ![d].Scheduled = FALSE]
  /\ Unqueued(d)

LoadImage ==
  /\ pc = "load"
  /\ \E status \in LoadStatus :
       /\ image' = [image EXCEPT ![Driver] = IF status = "ACCESS_DENIED" THEN "none" ELSE "loaded"]
       /\ \/ /\ status = "SUCCESS" /\ Working("loaded", Driver)
             /\ UNCHANGED <<entry, mScheduledQueue>>
          \/ /\ status # "SUCCESS" /\ Rejected(Driver, status)
             /\ pc' = "drain" /\ DriverEntry' = NoEntry
  /\ UNCHANGED <<mDiscoveredList, mFvHandleList, ReadyToRun, inserting, world>>

Dequeue ==
  /\ pc = "loaded"
  /\ entry' = [entry EXCEPT ![Driver].Scheduled = FALSE, ![Driver].Initialized = TRUE]
  /\ Unqueued(Driver)
  /\ Working("start", Driver)
  /\ UNCHANGED <<mDiscoveredList, mFvHandleList, image, ReadyToRun, inserting, world>>

\* CoreStartImage refuses an image that was started already, as it does one that was
\* unloaded because its entry point failed: both are "started" here.
StartImage ==
  /\ pc = "start"
  /\ IF image[Driver] = "loaded"
     THEN image' = [image EXCEPT ![Driver] = "started"] /\ Working("running", Driver)
     ELSE UNCHANGED image /\ pc' = "drain" /\ DriverEntry' = NoEntry
  /\ UNCHANGED <<lists, entry, ReadyToRun, inserting, world>>

EntryPointReturns ==
  /\ pc = "running"
  /\ pc' = "drain" /\ DriverEntry' = NoEntry
  /\ UNCHANGED <<lists, entry, image, ReadyToRun, inserting, world>>

-----------------------------------------------------------------------------
(* CoreDispatcher: mDiscoveredList is searched.                            *)

\* Mutant: the search begins behind the first driver.
SearchRest ==
  /\ pc = "drain" /\ mScheduledQueue = <<>>
  /\ ReadyToRun' = FALSE
  /\ Searching(2)
  /\ UNCHANGED <<lists, entry, image, inserting, world>>

StartSearch ==
  /\ pc = "drain" /\ mScheduledQueue = <<>>
  /\ ReadyToRun' = FALSE
  /\ Searching(1)
  /\ UNCHANGED <<lists, entry, image, inserting, world>>

\* Mutant: a driver without an expression does not wait for the architectural protocols.
SchedulableAtOnce(e) ==
  CASE StartsWith(e.Depex, "BEFORE") \/ StartsWith(e.Depex, "AFTER") -> FALSE
    [] e.Depex = <<>> -> TRUE
    [] OTHER -> Evaluate(e.Depex, installed)

\* CoreIsSchedulable
IsSchedulable(e) ==
  CASE StartsWith(e.Depex, "BEFORE") \/ StartsWith(e.Depex, "AFTER") -> FALSE
    [] e.Depex = <<>> -> ArchProtocols \subseteq present
    [] OTHER -> Evaluate(e.Depex, installed)

\* Mutant: the walk begins at the list head and not behind it.
InsertionFromHead(d) == [d |-> d, at |-> "befores", i |-> 0, known |-> Len(mDiscoveredList)]

\* The frame of CoreInsertOnScheduledQueueWhileProcessingBeforeAndAfter(d).
\* known: history, the drivers that were discovered when it was called.
Insertion(d) == [d |-> d, at |-> "befores", i |-> 1, known |-> Len(mDiscoveredList)]

\* Mutant: drivers that no longer wait are scheduled as well.
SearchAll ==
  /\ pc = "search" /\ DriverEntry.i <= Len(mDiscoveredList)
  /\ LET d == mDiscoveredList[DriverEntry.i]
     IN  \/ /\ IsSchedulable(entry[d])
            /\ inserting' = <<Insertion(d)>>
            /\ pc' = "insert" /\ ReadyToRun' = TRUE
            /\ UNCHANGED <<DriverEntry>>
         \/ /\ ~IsSchedulable(entry[d])
            /\ Searching(DriverEntry.i + 1)
            /\ UNCHANGED <<ReadyToRun, inserting>>
  /\ UNCHANGED <<lists, entry, image, world>>

\* One driver of the list; its expression is read again if it could not be.
Search ==
  /\ pc = "search" /\ DriverEntry.i <= Len(mDiscoveredList)
  /\ LET d == mDiscoveredList[DriverEntry.i]
         e == IF entry[d].DepexProtocolError THEN GetDepex(d, entry[d]) ELSE entry[d]
         patched == [e EXCEPT !.Depex = Patched(e.Depex, installed)]
     IN  \/ /\ e.Dependent /\ IsSchedulable(e)
            /\ entry' = [entry EXCEPT ![d] = patched]
            /\ inserting' = <<Insertion(d)>>
            /\ pc' = "insert" /\ ReadyToRun' = TRUE
            /\ UNCHANGED DriverEntry
         \/ /\ ~(e.Dependent /\ IsSchedulable(e))
            /\ entry' = [entry EXCEPT ![d] = IF e.Dependent THEN patched ELSE e]
            /\ Searching(DriverEntry.i + 1)
            /\ UNCHANGED <<ReadyToRun, inserting>>
  /\ UNCHANGED <<lists, image, world>>

\* Mutant: a single pass, whatever it scheduled.
SearchedOnce ==
  /\ pc = "search" /\ DriverEntry.i > Len(mDiscoveredList)
  /\ pc' = "idle" /\ DriverEntry' = NoEntry
  /\ UNCHANGED <<lists, entry, image, ReadyToRun, inserting, world>>

Searched ==
  /\ pc = "search" /\ DriverEntry.i > Len(mDiscoveredList)
  /\ pc' = IF ReadyToRun THEN "drain" ELSE "idle"
  /\ DriverEntry' = NoEntry
  /\ UNCHANGED <<lists, entry, image, ReadyToRun, inserting, world>>

-----------------------------------------------------------------------------
(* CoreInsertOnScheduledQueueWhileProcessingBeforeAndAfter.                *)

Frame     == inserting[Len(inserting)]
Caller    == SubSeq(inserting, 1, Len(inserting) - 1)
Goto(f)   == inserting' = Append(Caller, f)

\* The loop's next driver, which is inserted first if it is tied to Frame.d.
Tied(tie, d) ==
  entry[d].Dependent /\ StartsWith(entry[d].Depex, tie) /\ Names(d) = FileName[Frame.d]
Step(tie) ==
  LET d == mDiscoveredList[Frame.i]
      next == [Frame EXCEPT !.i = @ + 1]
  IN  inserting' = IF Tied(tie, d) THEN Append(Append(Caller, next), Insertion(d))
                   ELSE Append(Caller, next)
More == Frame.i <= Len(mDiscoveredList)

Befores ==
  /\ pc = "insert" /\ Frame.at = "befores"
  /\ IF More THEN Step("BEFORE") ELSE Goto([Frame EXCEPT !.at = "lock"])
  /\ UNCHANGED <<lists, entry, image, pc, DriverEntry, ReadyToRun, world>>

\* Mutant: the driver is inserted before its BEFORE drivers are.
InsertFirst ==
  /\ pc = "insert" /\ Frame.at \in {"befores", "lock"} /\ (Frame.at = "lock" \/ Frame.i = 1)
  /\ entry' = [entry EXCEPT ![Frame.d] = ScheduledEntry(@)]
  /\ mScheduledQueue' = InsertTailList(mScheduledQueue, Frame.d)
  /\ Goto([Frame EXCEPT !.at = "afters", !.i = 1])
  /\ UNCHANGED <<mDiscoveredList, mFvHandleList, image, pc, DriverEntry, ReadyToRun, world>>

InsertDriver ==
  /\ pc = "insert" /\ Frame.at = "lock"
  /\ entry' = [entry EXCEPT ![Frame.d] = ScheduledEntry(@)]
  /\ mScheduledQueue' = InsertTailList(mScheduledQueue, Frame.d)
  /\ Goto([Frame EXCEPT !.at = "afters", !.i = 1])
  /\ UNCHANGED <<mDiscoveredList, mFvHandleList, image, pc, DriverEntry, ReadyToRun, world>>

Afters ==
  /\ pc = "insert" /\ Frame.at = "afters" /\ More
  /\ Step("AFTER")
  /\ UNCHANGED <<lists, entry, image, pc, DriverEntry, ReadyToRun, world>>

InsertReturns ==
  /\ pc = "insert" /\ Frame.at = "afters" /\ ~More
  /\ inserting' = Caller
  /\ IF Len(inserting) = 1 THEN Searching(DriverEntry.i + 1) ELSE UNCHANGED <<pc, DriverEntry>>
  /\ UNCHANGED <<lists, entry, image, ReadyToRun, world>>

-----------------------------------------------------------------------------

Init ==
  /\ mDiscoveredList = <<>> /\ mScheduledQueue = <<>> /\ mFvHandleList = {}
  /\ entry = [d \in Drivers |-> Zeroed]
  /\ image = [d \in Drivers |-> "none"]
  /\ pc = "idle" /\ DriverEntry = NoEntry /\ ReadyToRun = FALSE /\ inserting = <<>>
  /\ installed = {} /\ present = {} /\ disturbed = FALSE

\* What CoreDispatcher does; Outside is what anybody else does meanwhile.
CoreDispatcher ==
  /\ \/ CallDispatch
     \/ FirstScheduled \/ LoadImage \/ Dequeue \/ StartImage \/ EntryPointReturns
     \/ StartSearch \/ Search \/ Searched
     \/ Befores \/ InsertDriver \/ Afters \/ InsertReturns
  /\ disturbed' = (disturbed /\ pc' = "search")

Outside ==
  /\ \/ \E fv \in Volumes : FwVolNotify(fv) \/ FwVolRejected(fv)
     \/ \E d \in Drivers : Schedule(d) \/ Trust(d)
     \/ \E g \in Protocols : InstallProtocol(g) \/ UninstallProtocol(g)
  /\ disturbed' = (disturbed \/ (pc = "search" /\ ~ReadyToRun))

Next == CoreDispatcher \/ Outside

Spec     == Init /\ [][Next]_vars
\* Drivers return, and the dispatcher is called again ("On exit it is assumed the
\* Bds() will be called, and when the Bds() exits the Dispatcher will be called again").
FairSpec == Spec /\ WF_vars(CoreDispatcher)

-----------------------------------------------------------------------------
(* Properties.                                                             *)

\* The type of every variable.
TypeOK ==
  /\ mDiscoveredList \in Seq(Drivers) /\ mScheduledQueue \in Seq(Drivers)
  /\ mFvHandleList \subseteq Volumes
  /\ entry \in [Drivers ->
       [Dependent : BOOLEAN, Unrequested : BOOLEAN, Scheduled : BOOLEAN, Untrusted : BOOLEAN,
        Initialized : BOOLEAN, DepexProtocolError : BOOLEAN,
        Depex : Seq([op : Operations, guid : Protocols \cup {FileName[d] : d \in Drivers}])]]
  /\ image \in [Drivers -> {"none", "loaded", "started"}]
  /\ pc \in {"idle", "drain", "load", "loaded", "start", "running", "search", "insert"}
  /\ DriverEntry \in [i : Nat] \cup [d : Drivers]
  /\ ReadyToRun \in BOOLEAN /\ disturbed \in BOOLEAN
  /\ inserting \in Seq([d : Drivers, at : {"befores", "lock", "afters"}, i : Nat \ {0}, known : Nat])
  /\ installed \subseteq present /\ present \subseteq Protocols

\* The queue is a subset of the list, each driver is linked once, and those on the
\* queue are the Scheduled ones: ScheduledLink is a single pair of pointers.
QueueSound ==
  /\ NoDuplicates(mDiscoveredList) /\ NoDuplicates(mScheduledQueue)
  /\ Members(mScheduledQueue) = {d \in Discovered : entry[d].Scheduled}

\* A driver that was started, or that could not be loaded, is never on the queue
\* again: "do not attempt to load or start it again" (Dispatcher.c:478).
InitializedIsFinal ==
  \A d \in Drivers : entry[d].Initialized => ~entry[d].Scheduled

\* However the a priori lists, Schedule, Trust and the search follow each other, they link
\* each driver once and start it once.
DriversLinkedOnce == QueueSound /\ InitializedIsFinal

\* The image of a driver that a search put on the queue is started only when its
\* expression (NOT apart) holds over the protocols that were ever installed.
DependencyMet ==
  \A d \in Discovered :
    image[d] = "started" /\ FileName[d] \notin Members(Apriori[Volume(d)])
      => \/ IsBefore(d) \/ IsAfter(d)
         \/ \E k \in 1..Len(DepexSection[d]) : DepexSection[d][k].op = "NOT"
         \/ IF DepexSection[d] = <<>> THEN ArchProtocols \subseteq present
            ELSE Evaluate(DepexSection[d], present)

\* When a driver is put on the queue, the BEFORE drivers that were known when its
\* insertion began no longer wait; when its insertion ends, the AFTER drivers do not.
TiedInserted ==
  [][LET f     == Frame
         known == Members(SubSeq(mDiscoveredList, 1, f.known))
     IN  pc = "insert" =>
           /\ ~entry[f.d].Scheduled /\ entry'[f.d].Scheduled =>
                \A b \in known : IsBefore(b) /\ Names(b) = FileName[f.d] => ~entry[b].Dependent
           /\ Len(inserting') < Len(inserting) =>
                \A a \in known : IsAfter(a) /\ Names(a) = FileName[f.d] => ~entry[a].Dependent]_vars

\* "It exits when there are no more drivers to run" (Dispatcher.c:383): unless somebody
\* acted during the last search, no driver waits with an expression that holds.
ExitsWhenDone ==
  [][pc = "search" /\ pc' = "idle" /\ ~disturbed =>
       /\ mScheduledQueue = <<>>
       /\ \A d \in Discovered : ~(entry[d].Dependent /\ IsSchedulable(entry[d]))]_vars

\* A driver whose expression holds, and goes on holding, does not wait for ever: each
\* call of the dispatcher searches the whole list (Dispatcher.c:530).
SchedulableIsDispatched ==
  \A d \in Drivers : []<>~(entry[d].Dependent /\ IsSchedulable(entry[d]))

\* No driver stays on the queue for ever, whatever the loader says of those before it.
ScheduledIsDispatched ==
  \A d \in Drivers : []<>~entry[d].Scheduled

\* Neither a search nor the queue makes a driver wait for ever: what is thrown away or
\* fails (Dispatcher.c:468) does not hold up the others.
NoDriverWaitsForEver == SchedulableIsDispatched /\ ScheduledIsDispatched
=============================================================================
