------------------------------ MODULE Variable ------------------------------
(***************************************************************************)
(* The variable services                                                   *)
(* (src/Sample/Universal/Variable/RuntimeDxe/Variable.c).  A store is a    *)
(* log: setting a variable appends a copy in steps, the state byte of each *)
(* copy says how far it came, and a reclaim, written through the fault     *)
(* tolerant write driver, drops what is no longer needed.  The power may   *)
(* fail between any two flash operations; the next boot walks the log.     *)
(*                                                                         *)
(* Abstracted: name and vendor GUID are one name; the size of a copy       *)
(* depends on its data; a reclaim of the non-volatile store happens in one *)
(* step or not at all, which is what FtwLite!Atomic shows of the driver;   *)
(* the flash device itself reports no errors; a header that was programmed *)
(* in part either counts as a header or leaves bytes behind the log        *)
(* (torn); a store whose own header was overwritten is not followed.       *)
(***************************************************************************)
EXTENDS Naturals, Sequences

CONSTANTS
  Names, Data, Absent, None,
  AttributesOf,     \* [Names -> sets of attributes callers use for the name]
  HeaderSize,       \* sizeof (VARIABLE_STORE_HEADER)
  VarSize,          \* [Data -> Nat]: of a copy with its header
  Size,             \* [Bases -> Nat]: of the two stores
  Threshold         \* VARIABLE_RECLAIM_THRESHOLD

\* VolatileVariableBase and NonVolatileVariableBase.
Bases == {"NonVolatile", "Volatile"}

ASSUME SizeAssumption ==
  /\ HeaderSize \in Nat \ {0} /\ VarSize \in [Data -> Nat \ {0}] /\ Threshold \in Nat
  /\ Size \in [Bases -> Nat] /\ \A v \in Bases : Size[v] >= HeaderSize

Live == {"ADDED", "IN_DELETED_TRANSITION"}

CopyType == [name : Names, attributes : SUBSET {"NV", "BS", "RT"}, data : Data,
             state : Live \cup {"HEADER", "DELETED"}]
PointerType == [Base : Bases, index : Nat \ {0}]
CallType == [name : Names, attributes : SUBSET {"NV", "BS", "RT"}, data : Data,
             CurrPtr : {None} \cup PointerType, Base : Bases, Reclaimed : BOOLEAN]

ASSUME NameAssumption ==
  /\ Absent \notin Data
  /\ AttributesOf \in [Names -> SUBSET SUBSET {"NV", "BS", "RT"}]
  /\ None \notin PointerType /\ None \notin CallType

VARIABLES
  store,            \* [Bases -> Seq(copy)]
  LastVariableOffset,  \* [Bases -> Nat]
  torn,             \* the flash behind the last header is not erased
  AtRuntime,        \* EfiAtRuntime()
  pc,
  call,             \* the SetVariable in progress, or None
  expected          \* history: [Names -> what may be read after the last calls]

vars == <<store, LastVariableOffset, torn, AtRuntime, pc, call, expected>>
-----------------------------------------------------------------------------
Pointers == UNION {{[Base |-> v, index |-> i] : i \in DOMAIN store[v]} : v \in Bases}
Copy(p)  == store[p.Base][p.index]

Before(p, q) == IF p.Base = q.Base THEN p.index <= q.index ELSE p.Base = "NonVolatile"

\* At runtime only variables with runtime access are found.
Visible(copy) == AtRuntime => "RT" \in copy.attributes

\* The first copy that is valid, the non-volatile store first, else the last one that
\* is in transition.
FindVariable(n) ==
  LET Copies(state) == {p \in Pointers : /\ Copy(p).name = n /\ Copy(p).state = state
                                         /\ Visible(Copy(p))}
      added   == Copies("ADDED")
      leaving == Copies("IN_DELETED_TRANSITION")
  IN  CASE added # {}                    -> CHOOSE p \in added : \A q \in added : Before(p, q)
        [] added = {} /\ leaving # {}    -> CHOOSE p \in leaving : \A q \in leaving : Before(q, p)
        [] added = {} /\ leaving = {}    -> None

\* GetVariable.
Read(n) == LET p == FindVariable(n) IN IF p = None THEN Absent ELSE Copy(p).data

SetState(p, state) == store' = [store EXCEPT ![p.Base][p.index].state = state]

\* Where the walk over the headers of a store ends.
EndOf(copies) ==
  LET At[i \in 0..Len(copies)] ==
        IF i = 0 THEN HeaderSize ELSE At[i - 1] + VarSize[copies[i].data]
  IN  At[Len(copies)]

ExistNewerVariable(copies, i) ==
  \E j \in (i + 1)..Len(copies) : copies[j].state \in Live /\ copies[j].name = copies[i].name

\* Mutant: ExistNewerVariable is not asked.
KeptTooMuch(copies, i) == copies[i].state \in Live

\* What Reclaim keeps: the copy of CurrentVariable stays in transition, a last copy in
\* transition of another variable becomes the valid one.
Kept(copies, i) ==
  \/ copies[i].state = "ADDED"
  \/ copies[i].state = "IN_DELETED_TRANSITION" /\ ~ExistNewerVariable(copies, i)

Reclaimed(copies, current) ==
  LET Buffer[i \in 0..Len(copies)] ==
        IF i = 0 THEN <<>>
        ELSE IF ~Kept(copies, i) THEN Buffer[i - 1]
        ELSE Append(Buffer[i - 1],
                    [copies[i] EXCEPT !.state = IF i = current THEN @ ELSE "ADDED"])
  IN  Buffer[Len(copies)]

Reclaim(v, current) ==
  /\ store' = [store EXCEPT ![v] = Reclaimed(@, current)]
  /\ LastVariableOffset' = [LastVariableOffset EXCEPT ![v] = EndOf(store'[v])]
-----------------------------------------------------------------------------
(* SetVariable.                                                            *)

\* Calls that are turned down: volatile variables are read only at runtime, runtime
\* access needs boot service access, and at runtime only non-volatile runtime variables
\* are set.
Accepted(old, attributes) ==
  /\ ~(old # None /\ old.Base = "Volatile" /\ AtRuntime)
  /\ "RT" \in attributes => "BS" \in attributes
  /\ AtRuntime /\ attributes # {} => {"RT", "NV"} \subseteq attributes

Return == pc' = "Idle" /\ call' = None

\* The data is already there: whatever the attributes and the state of the copy.
SetSame(n, attributes, data) ==
  /\ pc = "Idle"
  /\ LET old == FindVariable(n) IN
       /\ Accepted(old, attributes) /\ attributes \cap {"RT", "BS"} # {}
       /\ old # None
       /\ Copy(old).data = data
  /\ expected' = [expected EXCEPT ![n] = {data}]
  /\ UNCHANGED <<store, LastVariableOffset, torn, AtRuntime, pc, call>>

DeleteVariable(n, attributes) ==
  /\ pc = "Idle"
  /\ LET old == FindVariable(n) IN
       /\ Accepted(old, attributes)
       /\ old # None
       /\ SetState(old, "DELETED")
  /\ expected' = [expected EXCEPT ![n] = {Absent}]
  /\ UNCHANGED <<LastVariableOffset, torn, AtRuntime, pc, call>>

SetVariable(n, attributes, data) ==
  /\ pc = "Idle"
  /\ LET old == FindVariable(n) IN
       /\ Accepted(old, attributes) /\ attributes \cap {"RT", "BS"} # {}
       /\ old # None => Copy(old).data # data
       /\ call' = [name |-> n, attributes |-> attributes, data |-> data, CurrPtr |-> old,
                   Base |-> IF "NV" \in attributes THEN "NonVolatile" ELSE "Volatile",
                   Reclaimed |-> FALSE]
       /\ pc' = IF old = None THEN "Reserve" ELSE "MarkOld"
  /\ UNCHANGED <<store, LastVariableOffset, torn, AtRuntime, expected>>

\* Mutant: the old copy is not marked before the new one is written.
OldNotMarked ==
  /\ pc = "MarkOld"
  /\ pc' = "Reserve"
  /\ UNCHANGED <<store, LastVariableOffset, torn, AtRuntime, call, expected>>

MarkOld ==
  /\ pc = "MarkOld"
  /\ SetState(call.CurrPtr, "IN_DELETED_TRANSITION")
  /\ pc' = "Reserve"
  /\ UNCHANGED <<LastVariableOffset, torn, AtRuntime, call, expected>>

Write  == IF call.Base = "Volatile" THEN "WriteVolatile" ELSE "Header"
NewEnd == LastVariableOffset[call.Base] + VarSize[call.data]
Fits   == NewEnd <= Size[call.Base]

HasRoom ==
  /\ pc = "Reserve" /\ Fits
  /\ pc' = Write
  /\ UNCHANGED <<store, LastVariableOffset, torn, AtRuntime, call, expected>>

\* At runtime nothing is reclaimed; the old copy stays in transition.
OutOfResources ==
  /\ pc = "Reserve" /\ ~Fits /\ AtRuntime
  /\ Return
  /\ UNCHANGED <<store, LastVariableOffset, torn, AtRuntime, expected>>

\* Mutant: CurrentVariable is not kept, as it is about to be replaced.
CurrentDropped ==
  /\ pc = "Reserve" /\ ~Fits /\ ~AtRuntime
  /\ LET v    == call.Base
         rest == SelectSeq(store[v], LAMBDA copy : copy.name # call.name) IN
       /\ store' = [store EXCEPT ![v] = Reclaimed(rest, 0)]
       /\ LastVariableOffset' = [LastVariableOffset EXCEPT ![v] = EndOf(store'[v])]
       /\ IF LastVariableOffset'[v] + VarSize[call.data] <= Size[v]
          THEN pc' = Write /\ call' = [call EXCEPT !.Reclaimed = TRUE]
          ELSE Return
  /\ UNCHANGED <<torn, AtRuntime, expected>>

\* Mutant: the reclaim is not remembered, and CurrPtr used after it.
ReclaimForgotten ==
  /\ pc = "Reserve" /\ ~Fits /\ ~AtRuntime
  /\ LET old == call.CurrPtr
         v   == call.Base IN
       /\ Reclaim(v, IF old # None /\ old.Base = v THEN old.index ELSE 0)
       /\ IF LastVariableOffset'[v] + VarSize[call.data] <= Size[v]
          THEN pc' = Write /\ UNCHANGED call
          ELSE Return
  /\ UNCHANGED <<torn, AtRuntime, expected>>

ReclaimForCall ==
  /\ pc = "Reserve" /\ ~Fits /\ ~AtRuntime
  /\ LET old == call.CurrPtr
         v   == call.Base IN
       /\ Reclaim(v, IF old # None /\ old.Base = v THEN old.index ELSE 0)
       /\ IF LastVariableOffset'[v] + VarSize[call.data] <= Size[v]
          THEN pc' = Write /\ call' = [call EXCEPT !.Reclaimed = TRUE]
          ELSE Return
  /\ UNCHANGED <<torn, AtRuntime, expected>>

\* The fault tolerant write fails: the offset of the last variable is set to 0.
ReclaimFails ==
  /\ pc = "Reserve" /\ ~Fits /\ call.Base = "NonVolatile" /\ ~AtRuntime
  /\ LastVariableOffset' = [LastVariableOffset EXCEPT !["NonVolatile"] = 0]
  /\ Return
  /\ UNCHANGED <<store, torn, AtRuntime, expected>>

CopyOfCall == [name |-> call.name, attributes |-> call.attributes, data |-> call.data,
            state |-> "HEADER"]

\* Step 1 and 2: header and data, at the offset; at offset 0 over the header of the
\* store, which loses its signature.
WriteHeader ==
  /\ pc = "Header"
  /\ IF LastVariableOffset["NonVolatile"] = 0
     THEN /\ store' = [store EXCEPT !["NonVolatile"] = <<>>]
          /\ pc' = "Invalid" /\ call' = None
     ELSE /\ store' = [store EXCEPT !["NonVolatile"] = Append(@, CopyOfCall)]
          /\ pc' = "Data" /\ UNCHANGED call
  /\ UNCHANGED <<LastVariableOffset, torn, AtRuntime, expected>>

WriteData ==
  /\ pc = "Data"
  /\ pc' = "Added"
  /\ UNCHANGED <<store, LastVariableOffset, torn, AtRuntime, call, expected>>

\* Step 3.
WriteAdded ==
  /\ pc = "Added"
  /\ SetState([Base |-> "NonVolatile", index |-> Len(store["NonVolatile"])], "ADDED")
  /\ LastVariableOffset' = [LastVariableOffset EXCEPT !["NonVolatile"] = NewEnd]
  /\ pc' = "MarkDeleted"
  /\ UNCHANGED <<torn, AtRuntime, call, expected>>

\* UpdateVariableStore refuses to write up to the very end of the volatile store.
WriteVolatile ==
  /\ pc = "WriteVolatile" /\ NewEnd < Size["Volatile"]
  /\ store' = [store EXCEPT !["Volatile"] = Append(@, [CopyOfCall EXCEPT !.state = "ADDED"])]
  /\ LastVariableOffset' = [LastVariableOffset EXCEPT !["Volatile"] = NewEnd]
  /\ pc' = "MarkDeleted"
  /\ UNCHANGED <<torn, AtRuntime, call, expected>>

WriteRefused ==
  /\ pc = "WriteVolatile" /\ NewEnd >= Size["Volatile"]
  /\ Return
  /\ UNCHANGED <<store, LastVariableOffset, torn, AtRuntime, expected>>

\* The old copy is marked, unless a reclaim moved it.
MarkDeleted ==
  /\ pc = "MarkDeleted"
  /\ IF ~call.Reclaimed /\ call.CurrPtr # None
     THEN SetState(call.CurrPtr, "DELETED") ELSE UNCHANGED store
  /\ expected' = [expected EXCEPT ![call.name] = {call.data}]
  /\ Return
  /\ UNCHANGED <<LastVariableOffset, torn, AtRuntime>>
-----------------------------------------------------------------------------
(* ExitBootServices, power failures and VariableCommonInitialize.          *)
ExitBootServices ==
  /\ pc = "Idle" /\ ~AtRuntime
  /\ AtRuntime' = TRUE
  /\ UNCHANGED <<store, LastVariableOffset, torn, pc, call, expected>>

Persistent(n) == \A attributes \in AttributesOf[n] : "NV" \in attributes

PowerFailure ==
  /\ pc \notin {"Invalid", "Boot"}
  /\ store' = [store EXCEPT !["Volatile"] = <<>>]
  /\ LastVariableOffset' = [v \in Bases |-> HeaderSize]
  /\ torn' \in {torn, torn \/ pc = "Header"}
  /\ AtRuntime' = FALSE
  /\ pc' = "Boot" /\ call' = None
  /\ expected' = [n \in Names |->
       IF ~Persistent(n) THEN {Absent}
       ELSE expected[n] \cup (IF call # None /\ call.name = n THEN {call.data} ELSE {})]

\* Walks the log; reclaims when little room is left, or when what is left is not erased.
MustReclaim == Size["NonVolatile"] < EndOf(store["NonVolatile"]) + Threshold \/ torn

Boot ==
  /\ pc = "Boot"
  /\ IF MustReclaim
     THEN Reclaim("NonVolatile", 0)
     ELSE /\ LastVariableOffset' =
               [LastVariableOffset EXCEPT !["NonVolatile"] = EndOf(store["NonVolatile"])]
          /\ UNCHANGED store
  /\ torn' = (torn /\ ~MustReclaim)
  /\ pc' = "Idle"
  /\ UNCHANGED <<AtRuntime, call>>
  /\ expected' = [n \in Names |->
       IF Read(n)' \in expected[n] THEN {Read(n)'} ELSE expected[n]]

\* The reclaim fails, and VariableServiceInitialize asserts that it does not.
BootFails ==
  /\ pc = "Boot" /\ MustReclaim
  /\ pc' = "Halted"
  /\ UNCHANGED <<store, LastVariableOffset, torn, AtRuntime, call, expected>>
-----------------------------------------------------------------------------
\* A formatted store without variables.
Init ==
  /\ store = [v \in Bases |-> <<>>]
  /\ LastVariableOffset = [v \in Bases |-> HeaderSize]
  /\ torn = FALSE /\ AtRuntime = FALSE
  /\ pc = "Idle" /\ call = None
  /\ expected = [n \in Names |-> {Absent}]

Deletes(n) == \E attributes \in AttributesOf[n] \cup {{}} : DeleteVariable(n, attributes)
Sets(n) == \E attributes \in AttributesOf[n], data \in Data :
             SetVariable(n, attributes, data) \/ SetSame(n, attributes, data)

Next ==
  \/ \E n \in Names : Sets(n) \/ Deletes(n)
  \/ MarkOld \/ HasRoom \/ OutOfResources \/ ReclaimForCall \/ ReclaimFails
  \/ WriteHeader \/ WriteData \/ WriteAdded \/ WriteVolatile \/ WriteRefused \/ MarkDeleted
  \/ ExitBootServices \/ PowerFailure \/ Boot \/ BootFails

Spec == Init /\ [][Next]_vars
-----------------------------------------------------------------------------
(* Properties.                                                             *)
\* Every variable has its type, and while a call is in progress CurrPtr points at a copy
\* of the variable it was found for, until a reclaim has moved it (Variable.c:1166).
TypeOK ==
  /\ store \in [Bases -> Seq(CopyType)]
  /\ LastVariableOffset \in [Bases -> Nat]
  /\ torn \in BOOLEAN /\ AtRuntime \in BOOLEAN
  /\ pc \in {"Idle", "MarkOld", "Reserve", "Header", "Data", "Added", "WriteVolatile",
             "MarkDeleted", "Boot", "Halted", "Invalid"}
  /\ call \in {None} \cup CallType
  /\ expected \in [Names -> SUBSET (Data \cup {Absent})]
  /\ call # None /\ ~call.Reclaimed /\ call.CurrPtr # None =>
       call.CurrPtr \in Pointers /\ Copy(call.CurrPtr).name = call.name

\* The next copy is written where the walk over the headers of a store ends, inside the
\* store and on erased flash (Variable.c:1538-1579), whatever a power failure left there:
\* unless a reclaim has failed (StoreStaysValid).
EndIsKnown ==
  pc = "Idle" =>
    /\ ~torn
    /\ \A v \in Bases : /\ EndOf(store[v]) <= Size[v]
                          /\ \/ LastVariableOffset[v] = EndOf(store[v])
                             \/ LastVariableOffset[v] = 0 /\ v = "NonVolatile"

\* A variable that was set is read back with its last value: the value of a call that was
\* cut off by a power failure or failed for lack of room (Variable.c:486) is the old or
\* the new one, and only a deleted variable, or a volatile one after a restart, is gone.
LastValueIsRead ==
  pc = "Idle" => \A n \in Names :
    /\ Absent \notin expected[n]
    /\ AtRuntime => \A attributes \in AttributesOf[n] : "RT" \in attributes
    => Read(n) \in expected[n]

\* No store ever holds two valid copies of a variable, and a copy in transition is always
\* older than the valid one: FindVariable and ExistNewerVariable rely on both.
CopiesInOrder ==
  \A v \in Bases : \A i, j \in DOMAIN store[v] :
    /\ i < j
    /\ store[v][i].name = store[v][j].name
    /\ {store[v][i].state, store[v][j].state} \subseteq Live
    => store[v][i].state = "IN_DELETED_TRANSITION"

\* After a power failure between any two writes, the next update finds the end of the store
\* and the next search finds the right copy.
StoreSound == EndIsKnown /\ CopiesInOrder

\* What reads of a variable return changes only in the step that commits a new value, by
\* a deletion, and when a restart loses volatile variables: never by a reclaim, by a boot
\* or by setting another variable.
ReadsChangeOnlyByCalls ==
  [][\A n \in Names : Read(n)' # Read(n) =>
       \/ call # None /\ call.name = n /\ Read(n)' = call.data
       \/ Deletes(n) \/ ExitBootServices \/ pc' = "Invalid"
       \/ PowerFailure /\ (~Persistent(n) \/ AtRuntime)]_vars

\* Variable.c:936-937: "Setting a data variable with no access, or zero DataSize
\* attributes specified causes it to be deleted."  Only the copy that FindVariable
\* returns is marked; an update that was cut off may have left an older one.
DeletedIsGone ==
  pc = "Idle" => \A n \in Names : expected[n] = {Absent} => Read(n) = Absent

\* Variable.c:486: "The CurrentVariable, is also saved, as SetVariable may fail duo to
\* lack of space": when setting a variable fails, what the store holds is not lost.
StoreStaysValid == pc # "Invalid"
=============================================================================
