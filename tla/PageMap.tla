------------------------------- MODULE PageMap -------------------------------
(***************************************************************************)
(* The memory map of the DXE core (src/Foundation/Core/Dxe/Mem/Page.c).    *)
(* The map is a list of entries that are themselves kept in pages of the   *)
(* map: a new entry starts in a slot of mMapStack and is moved to pool     *)
(* memory, for which pages may have to be converted, which makes entries.  *)
(*                                                                         *)
(* A service holds gMemoryLock while pc is not "Idle", so the steps of one *)
(* service follow each other and only GetMemoryMap and FreePages, which do *)
(* something after they release it, can be interleaved with others.        *)
(*                                                                         *)
(* Abstracted: addresses are page numbers, 0 among them (all alignments of *)
(* Dxe/Mips32/Processor.h are one page); the order of the list, which      *)
(* nothing depends on while entries are disjoint; the statistics of the    *)
(* memory types, whose bins are empty because no code of the repository    *)
(* builds the memory type information HOB; GCD entries for runtime I/O.    *)
(***************************************************************************)
EXTENDS Naturals, FiniteSets, FiniteSetsExt

CONSTANTS
  None,
  Types,             \* memory types that callers ask for
  Tested,            \* regions that the HOB list or AddMemorySpace declares
  Untested,          \* regions PromoteMemoryResource finds in the GCD map
  EntriesPerPage,    \* DEFAULT_PAGE_ALLOCATION / sizeof (MEMORY_MAP)
  MAX_MAP_DEPTH,
  MaxPages,          \* bound: pages one call asks for
  MaxAddresses,      \* addresses that callers ask for memory below
  Addresses,         \* addresses that callers ask for
  MaxKey,            \* bound: no more calls after this many changes
  EFI_DEBUG          \* is DEBUG_SET_MEMORY compiled in?

EfiConventionalMemory == "ConventionalMemory"
EfiBootServicesData   == "BootServicesData"

Regions     == Tested \cup Untested
LastPage    == Max({r.End : r \in Regions})
Pages       == 0..LastPage
MemoryTypes == Types \cup {EfiConventionalMemory, EfiBootServicesData}

ASSUME RegionAssumption ==
  /\ IsFiniteSet(Regions) /\ Tested # {}
  /\ \A r \in Regions : /\ r = [Start |-> r.Start, End |-> r.End, Attribute |-> r.Attribute]
                        /\ r.Start \in Nat /\ r.End \in Nat /\ r.Start <= r.End
  /\ \A r, s \in Regions : r = s \/ r.End < s.Start \/ s.End < r.Start
ASSUME AddressAssumption ==
  MaxPages \in Nat /\ MaxAddresses \subseteq Nat /\ Addresses \subseteq Nat
ASSUME TypeAssumption == EfiConventionalMemory \notin Types
\* Fewer entries would not pay for the entries their own page needs.
ASSUME EntryAssumption == EntriesPerPage \in Nat /\ EntriesPerPage >= 3

VARIABLES
  gMemoryMap,        \* set of entries; slot is the place in mMapStack, 0 in pool
  mMapDepth,
  mFreeMemoryMapEntries,   \* length of mFreeMemoryMapEntryList
  mMemoryMapKey,
  regions,           \* history: the regions that were added
  blocks,            \* history: what callers own
  backing,           \* history: pages that hold entries
  pc, call,          \* the service that holds gMemoryLock
  loader,            \* GetMemoryMap and ExitBootServices of the OS loader
  freed              \* a FreePages that has released the lock

map  == <<gMemoryMap, mMapDepth, mFreeMemoryMapEntries, mMemoryMapKey>>
vars == <<map, regions, blocks, backing, pc, call, loader, freed>>
-----------------------------------------------------------------------------
(* The map as a value: what the helpers without a lock compute.            *)

Map == [entries |-> gMemoryMap, depth |-> mMapDepth, free |-> mFreeMemoryMapEntries,
        key |-> mMemoryMapKey]

Install(computed) ==
  \E m \in {computed} :
    /\ gMemoryMap' = m.entries /\ mMapDepth' = m.depth
    /\ mFreeMemoryMapEntries' = m.free /\ mMemoryMapKey' = m.key

Covers(e, p) == e.Start <= p /\ p <= e.End

FromPages(entries) == Cardinality({e \in entries : e.slot = 0})

\* Mutant: the attributes are not compared.
SameType(e, type, attribute) == e.Type = type

Mergeable(e, type, attribute) == e.Type = type /\ e.Attribute = attribute

\* The new entry and those it takes the place of: at most one that ends where it starts,
\* and one that starts where it ends.
Adding(m, type, start, end, attribute) ==
  LET below  == {e \in m.entries : Mergeable(e, type, attribute) /\ e.End + 1 = start}
      above  == {e \in m.entries : Mergeable(e, type, attribute) /\ e.Start = end + 1}
      new    == [Type |-> type, Attribute |-> attribute, slot |-> m.depth + 1,
                 Start |-> IF below = {} THEN start ELSE (CHOOSE e \in below : TRUE).Start,
                 End   |-> IF above = {} THEN end ELSE (CHOOSE e \in above : TRUE).End]
  IN  [m EXCEPT !.entries = (@ \ (below \cup above)) \cup {new}, !.depth = @ + 1,
                !.free = @ + FromPages(below \cup above)]

\* Mutant: the key is not changed.
AddRangeSilently(m, type, start, end, attribute) == Adding(m, type, start, end, attribute)

CoreAddRange(m, type, start, end, attribute) ==
  [Adding(m, type, start, end, attribute) EXCEPT !.key = @ + 1]

\* Mutant: an entry that has become empty stays.
EmptyStays(m, e, start, end) ==
  [m EXCEPT !.entries = (@ \ {e}) \cup
     (IF e.Start = start THEN {[e EXCEPT !.Start = end + 1]}
      ELSE {[e EXCEPT !.End = start - 1]} \cup
           IF end < e.End THEN {[e EXCEPT !.Start = end + 1, !.slot = m.depth + 1]} ELSE {}),
            !.depth = IF e.Start < start /\ end < e.End THEN @ + 1 ELSE @]

\* A range is pulled out of an entry.  The entry itself shrinks and is removed when it is
\* empty; out of the center, the upper part becomes a new entry on the stack.
Clipped(m, e, start, end) ==
  LET lower == IF e.Start < start THEN {[e EXCEPT !.End = start - 1]} ELSE {}
      upper == IF end < e.End
               THEN {[e EXCEPT !.Start = end + 1,
                               !.slot = IF lower = {} THEN @ ELSE m.depth + 1]}
               ELSE {}
  IN  [m EXCEPT !.entries = (@ \ {e}) \cup lower \cup upper,
                !.depth = IF lower # {} /\ upper # {} THEN @ + 1 ELSE @,
                !.free  = IF lower = {} /\ upper = {} THEN @ + FromPages({e}) ELSE @]

\* One round of CoreConvertPages: as much of the range as the entry e has.
ConvertRange(m, e, start, end, type) ==
  CoreAddRange(Clipped(m, e, start, end), type, start, end, e.Attribute)

\* CoreFindFreePagesI: where the highest fit below max starts, or nothing.  A fit at page 0
\* is taken for none.
CoreFindFreePagesI(m, max, n) ==
  LET DescEnd(e) == IF e.End <= max THEN e.End ELSE max
      fits == {e \in m.entries : /\ e.Type = EfiConventionalMemory /\ e.Start <= max
                                 /\ DescEnd(e) + 1 >= e.Start + n}
      best == {e \in fits : \A f \in fits : DescEnd(f) <= DescEnd(e)}
  IN  {DescEnd(e) + 1 - n : e \in best} \ {0}
-----------------------------------------------------------------------------
(* The services.                                                           *)

Return == pc' = "Idle" /\ call' = None

MayCall == pc = "Idle" /\ mMemoryMapKey < MaxKey

\* CoreAddMemoryDescriptor; the first region has to be there before anything is allocated.
CoreAddMemoryDescriptor(r) ==
  /\ MayCall
  /\ r \in Tested \ regions
  /\ Install(CoreAddRange(Map, EfiConventionalMemory, r.Start, r.End, r.Attribute))
  /\ regions' = regions \cup {r}
  /\ call' = [op |-> "Add", next |-> "Done", gcd |-> FALSE]
  /\ pc' = "FreeStack"
  /\ UNCHANGED <<blocks, backing, loader, freed>>

\* CoreAllocatePages, and CoreAllocatePoolPages with the highest address as max.  A GCD
\* service that needs pool holds the GCD lock during the call.
CoreAllocatePages(type, n, max, gcd) ==
  /\ MayCall /\ regions # {}
  /\ call' = [op |-> "Find", Type |-> type, n |-> n, max |-> max, promoted |-> FALSE,
              gcd |-> gcd, next |-> "Find"]
  /\ pc' = "Find"
  /\ UNCHANGED <<map, regions, blocks, backing, loader, freed>>

Converting(op, type, start, end, gcd) ==
  [op |-> op, Type |-> type, Start |-> start, End |-> end, from |-> start, gcd |-> gcd,
   next |-> "Convert"]

CoreAllocateAddress(type, start, n) ==
  /\ MayCall /\ regions # {}
  /\ call' = Converting("Allocate", type, start, start + n - 1, FALSE)
  /\ pc' = "Convert"
  /\ UNCHANGED <<map, regions, blocks, backing, loader, freed>>

\* CoreFreePages of what the caller owns; it is the caller's no longer.
CoreFreePages(b) ==
  /\ MayCall
  /\ b \in blocks
  /\ blocks' = blocks \ {b}
  /\ call' = Converting("Free", EfiConventionalMemory, b.Start, b.End, FALSE)
  /\ pc' = "Convert"
  /\ UNCHANGED <<map, regions, backing, loader, freed>>

OutOfPages == CoreFindFreePagesI(Map, call.max, call.n) = {}

\* FindFreePages.  (Without bins the first two searches are the same.)
FindFreePages ==
  /\ pc = "Find"
  /\ \/ \E start \in CoreFindFreePagesI(Map, call.max, call.n) :
          /\ call' = Converting("Allocate", call.Type, start, start + call.n - 1, call.gcd)
          /\ pc' = "Convert"
     \/ /\ OutOfPages /\ ~call.promoted
        /\ pc' = IF call.gcd THEN "Asserted" ELSE "Promote"
        /\ UNCHANGED call
     \/ /\ OutOfPages /\ call.promoted
        /\ Return
  /\ UNCHANGED <<map, regions, blocks, backing, loader, freed>>

\* Mutant: the search starts over after the promotion.
SearchAgain ==
  /\ pc = "Promote" /\ Untested \subseteq regions
  /\ pc' = "Find"
  /\ UNCHANGED <<map, regions, call, blocks, backing, loader, freed>>

Promoted ==
  /\ pc = "Promote" /\ Untested \subseteq regions
  /\ call' = [call EXCEPT !.promoted = TRUE]
  /\ pc' = "Find"
  /\ UNCHANGED <<map, regions, blocks, backing, loader, freed>>

\* PromoteMemoryResource, one GCD entry after the other from the lowest.  While the stack is
\* being freed (mFreeMapStack) the new entries stay on it.
PromoteMemoryResource(r) ==
  /\ pc \in {"Promote", "PromoteMore"}
  /\ r \in Untested \ regions
  /\ \A s \in Untested \ regions : r.Start <= s.Start
  /\ Install(CoreAddRange(Map, EfiConventionalMemory, r.Start, r.End, r.Attribute))
  /\ regions' = regions \cup {r}
  /\ \/ /\ pc = "Promote"
        /\ call' = [call EXCEPT !.next = "Promote"]
        /\ pc' = "FreeStack"
     \/ pc = "PromoteMore" /\ UNCHANGED <<pc, call>>
  /\ UNCHANGED <<blocks, backing, loader, freed>>

\* Mutant: whether the conversion is allowed is not verified.
Any(e, type) == TRUE

\* Pages are taken from free memory or given back to it.
Compatible(e, type) == (type = EfiConventionalMemory) # (e.Type = EfiConventionalMemory)

CoreConvertPages ==
  /\ pc = "Convert" /\ call.Start <= call.End
  /\ \E e \in gMemoryMap :
       /\ Covers(e, call.Start)
       /\ Compatible(e, call.Type)
       /\ LET rangeEnd == IF e.End < call.End THEN e.End ELSE call.End IN
            /\ Install(ConvertRange(Map, e, call.Start, rangeEnd, call.Type))
            /\ call' = [call EXCEPT !.Start = rangeEnd + 1]
  /\ pc' = "FreeStack"
  /\ UNCHANGED <<regions, blocks, backing, loader, freed>>

\* The rest of the range is missing or not convertible: what was converted stays so.
ConvertFails ==
  /\ pc = "Convert" /\ call.Start <= call.End
  /\ ~\E e \in gMemoryMap : Covers(e, call.Start) /\ Compatible(e, call.Type)
  /\ Return
  /\ UNCHANGED <<map, regions, blocks, backing, loader, freed>>

ConvertDone ==
  /\ pc = "Convert" /\ call.Start > call.End
  /\ LET b == [Start |-> call.from, End |-> call.End, Type |-> call.Type] IN
       /\ blocks' = IF call.op = "Allocate" THEN blocks \cup {b} ELSE blocks
       /\ freed' = IF call.op = "Free" /\ EFI_DEBUG THEN b ELSE freed
  /\ Return
  /\ UNCHANGED <<map, regions, backing, loader>>
-----------------------------------------------------------------------------
(* CoreFreeMemoryMapStack.                                                 *)

NeedsEntry == pc = "FreeStack" /\ mMapDepth > 0 /\ mFreeMemoryMapEntries = 0

\* The page is taken now, even if the promotion has given entries back.
HasPromoted == pc = "PromoteMore" /\ Untested \subseteq regions

\* AllocateMemoryMapEntry finds no free entry and converts a page, before or after all
\* memory was promoted; the entries that takes stay on the stack as well.
AllocateMemoryMapEntry(start, e) ==
  /\ NeedsEntry \/ HasPromoted
  /\ start \in CoreFindFreePagesI(Map, LastPage, 1)
  /\ Covers(e, start)
  /\ Install([ConvertRange(Map, e, start, start, EfiBootServicesData)
               EXCEPT !.free = @ + EntriesPerPage])
  /\ backing' = backing \cup {start}
  /\ pc' = "FreeStack"
  /\ UNCHANGED <<regions, blocks, call, loader, freed>>

\* There is no page for entries: memory is promoted, which the GCD lock forbids to a caller
\* that holds it, or was promoted already, and ASSERT (Entry) fails.
NoPageForEntries ==
  /\ CoreFindFreePagesI(Map, LastPage, 1) = {}
  /\ \/ NeedsEntry /\ pc' = IF call.gcd THEN "Asserted" ELSE "PromoteMore"
     \/ HasPromoted /\ pc' = "Asserted"
  /\ UNCHANGED <<map, regions, blocks, backing, call, loader, freed>>

\* Mutant: a slot whose entry was merged away keeps the entry it was given.
EntryIsLost(top) == mFreeMemoryMapEntries - 1

\* The free entry takes the place of the top slot; if that was merged into another entry
\* meanwhile, the free entry goes back to its list.
EntriesLeft(top) == IF top = {} THEN mFreeMemoryMapEntries ELSE mFreeMemoryMapEntries - 1

MoveEntry ==
  /\ pc = "FreeStack" /\ mMapDepth > 0 /\ mFreeMemoryMapEntries > 0
  /\ LET top == {e \in gMemoryMap : e.slot = mMapDepth} IN
       /\ gMemoryMap' = (gMemoryMap \ top) \cup {[e EXCEPT !.slot = 0] : e \in top}
       /\ mFreeMemoryMapEntries' = EntriesLeft(top)
  /\ mMapDepth' = mMapDepth - 1
  /\ UNCHANGED <<mMemoryMapKey, regions, blocks, backing, pc, call, loader, freed>>

StackIsFree ==
  /\ pc = "FreeStack" /\ mMapDepth = 0
  /\ \/ call.next = "Done" /\ Return
     \/ call.next # "Done" /\ pc' = call.next /\ UNCHANGED call
  /\ UNCHANGED <<map, regions, blocks, backing, loader, freed>>
-----------------------------------------------------------------------------
(* What happens outside the lock.                                          *)

\* CoreGetMemoryMap copies the map while it holds the lock ...
CopyMap ==
  /\ pc = "Idle" /\ regions # {}
  /\ loader' = [copied |-> mMemoryMapKey, MapKey |-> None]
  /\ UNCHANGED <<map, regions, blocks, backing, pc, call, freed>>

\* ... and reads the key after it gave both locks back.
ReadKey ==
  /\ pc = "Idle" /\ loader # None
  /\ loader.MapKey = None
  /\ loader' = [loader EXCEPT !.MapKey = mMemoryMapKey]
  /\ UNCHANGED <<map, regions, blocks, backing, pc, call, freed>>

\* CoreExitBootServices with CoreTerminateMemoryMap.
CoreTerminateMemoryMap ==
  /\ pc = "Idle" /\ loader # None
  /\ loader.MapKey # None
  /\ \/ loader.MapKey = mMemoryMapKey /\ pc' = "Exited" /\ UNCHANGED loader
     \/ loader.MapKey # mMemoryMapKey /\ loader' = None /\ UNCHANGED pc
  /\ UNCHANGED <<map, regions, blocks, backing, call, freed>>

\* The end of CoreFreePages in a debug build (the latest one is followed).
DestroyContents ==
  /\ pc = "Idle" /\ freed # None
  /\ freed' = None
  /\ UNCHANGED <<map, regions, blocks, backing, pc, call, loader>>
-----------------------------------------------------------------------------
Init ==
  /\ gMemoryMap = {} /\ mMapDepth = 0 /\ mFreeMemoryMapEntries = 0 /\ mMemoryMapKey = 0
  /\ regions = {} /\ blocks = {} /\ backing = {}
  /\ pc = "Idle" /\ call = None /\ loader = None /\ freed = None

Caller ==
  \/ \E r \in Tested : CoreAddMemoryDescriptor(r)
  \/ \E type \in Types, n \in 1..MaxPages, max \in MaxAddresses :
       CoreAllocatePages(type, n, max, FALSE)
  \/ CoreAllocatePages(EfiBootServicesData, 1, LastPage, TRUE)
  \/ \E type \in Types, start \in Addresses, n \in 1..MaxPages :
       CoreAllocateAddress(type, start, n)
  \/ \E b \in blocks : CoreFreePages(b)
  \/ CopyMap \/ ReadKey \/ CoreTerminateMemoryMap \/ DestroyContents

Service ==
  \/ FindFreePages \/ Promoted \/ \E r \in Untested : PromoteMemoryResource(r)
  \/ CoreConvertPages \/ ConvertFails \/ ConvertDone
  \/ \E start \in Pages, e \in gMemoryMap : AllocateMemoryMapEntry(start, e)
  \/ NoPageForEntries \/ MoveEntry \/ StackIsFree

Next == Caller \/ Service

\* A service runs to its end; nothing makes a caller call.
Spec == Init /\ [][Next]_vars /\ WF_vars(Service)
-----------------------------------------------------------------------------
(* Properties.                                                             *)

Entry == [Type : MemoryTypes, Start : Nat, End : Nat, slot : Nat,
          Attribute : {r.Attribute : r \in Regions}]

FindCall    == [op : {"Find"}, Type : MemoryTypes, n : Nat \ {0}, max : Nat,
                promoted : BOOLEAN, gcd : BOOLEAN, next : {"Find", "Promote"}]
ConvertCall == [op : {"Allocate", "Free"}, Type : MemoryTypes, Start : Nat, End : Nat,
                from : Nat, gcd : BOOLEAN, next : {"Convert"}]
AddCall     == [op : {"Add"}, next : {"Done"}, gcd : {FALSE}]

\* The type invariant: entries are ranges of pages, and a service has the arguments of the
\* step it comes to next.
TypeOK ==
  /\ gMemoryMap \subseteq Entry /\ \A e \in gMemoryMap : e.Start <= e.End
  /\ mMapDepth \in Nat /\ mFreeMemoryMapEntries \in Nat /\ mMemoryMapKey \in Nat
  /\ regions \subseteq Regions /\ backing \subseteq Pages
  /\ blocks \subseteq [Start : Nat, End : Nat, Type : MemoryTypes]
  /\ loader = None \/ loader \in [copied : Nat, MapKey : Nat \cup {None}]
  /\ \/ pc \in {"Idle", "Exited", "Asserted"}
     \/ pc \in {"Find", "Promote"} /\ call \in FindCall
     \/ pc = "Convert" /\ call \in ConvertCall
     \/ /\ pc \in {"FreeStack", "PromoteMore"}
        /\ call \in ConvertCall \cup AddCall \cup {c \in FindCall : c.next = "Promote"}

Apart(e, f) == e.End < f.Start \/ f.End < e.Start

EntriesDisjoint(entries) == \A e, f \in entries : e = f \/ Apart(e, f)

CoversTheRegions(entries, rs) ==
  /\ \A e \in entries : \A p \in e.Start..e.End : \E r \in rs : Covers(r, p)
  /\ \A r \in rs : \A p \in r.Start..r.End : \E e \in entries : Covers(e, p)

AttributesKept(entries, rs) ==
  \A e \in entries, r \in rs : Apart(e, r) \/ e.Attribute = r.Attribute

AdjoiningMerged(entries) ==
  \A e, f \in entries :
    e.End + 1 = f.Start => e.Type # f.Type \/ e.Attribute # f.Attribute

\* Through any sequence of conversions, of refuelling in the middle of them and of failures
\* half way, the map describes exactly the memory that was added, every page once and with
\* the attributes of its region, in as few entries as that takes.
MapSound ==
  /\ EntriesDisjoint(gMemoryMap) /\ AdjoiningMerged(gMemoryMap)
  /\ CoversTheRegions(gMemoryMap, regions) /\ AttributesKept(gMemoryMap, regions)

Typed(start, end, type) ==
  \A p \in start..end : \E e \in gMemoryMap : Covers(e, p) /\ e.Type = type

\* What a caller was given stays of the type it asked for until it frees it, and no other
\* caller, nor the map for its own entries, is given any page of it.
BlocksKept ==
  /\ \A b \in blocks : Typed(b.Start, b.End, b.Type) /\ backing \cap (b.Start..b.End) = {}
  /\ \A b, c \in blocks : b = c \/ Apart(b, c)
  /\ \A p \in backing : Typed(p, p, EfiBootServicesData)

\* The stack of six slots is enough (ASSERT of Page.c:517 and 860), although finding pool
\* memory for the entries on it puts more of them there; no slot holds two entries, and no
\* entry in pool memory is lost or used twice.
StackSound ==
  /\ mMapDepth < MAX_MAP_DEPTH
  /\ \A e \in gMemoryMap : e.slot <= mMapDepth
  /\ \A e, f \in gMemoryMap : e.slot = f.slot => e = f \/ e.slot = 0
  /\ FromPages(gMemoryMap) + mFreeMemoryMapEntries = EntriesPerPage * Cardinality(backing)

Visible == {[Type |-> e.Type, Start |-> e.Start, End |-> e.End, Attribute |-> e.Attribute] :
              e \in gMemoryMap}

\* Whenever the map a loader would get changes, so does its key: a loader that read the key
\* with its map cannot end the boot services with a map that is out of date.
KeyTracksMap == [][Visible' # Visible => mMemoryMapKey' > mMemoryMapKey]_vars

\* A service ends, although putting the entries it made into pool memory converts pages and
\* makes entries.  (It may end in the assertion of CoreFreeMemoryMapStack.)
CallReturns == (pc # "Idle") ~> (pc \in {"Idle", "Exited", "Asserted"})

\* CoreGetMemoryMap (Page.c:1320-1323 and 1471): the key is the key for the current memory
\* map, the one that was copied, so ExitBootServices ends only with the map of the loader.
ExitsWithCurrentMap == pc = "Exited" => loader.copied = mMemoryMapKey

\* CoreConvertPages (Page.c:698-730): a conversion that fails leaves no page allocated that
\* nobody owns.
NothingLeaks ==
  pc = "Idle" =>
    \A e \in gMemoryMap : \A p \in e.Start..e.End :
      e.Type # EfiConventionalMemory => p \in backing \/ \E b \in blocks : Covers(b, p)

\* CoreAcquireLock (Library.c) asserts that the lock is free: no service that holds the GCD
\* lock runs out of memory, for PromoteMemoryResource takes that lock.
GcdLockOwnedOnce ==
  ~(pc = "Asserted" /\ call.gcd)

\* CoreFreePages destroys the contents of pages that are free (debug builds).
DestroysFreePages ==
  [][freed # None /\ freed' = None => Typed(freed.Start, freed.End, EfiConventionalMemory)]_vars
=============================================================================
