------------------------------ MODULE FtwLite ------------------------------
(***************************************************************************)
(* The fault tolerant write driver                                         *)
(* (src/Sample/Universal/FirmwareVolume/FaultTolerantWriteLite/Dxe): it    *)
(* replaces a block of flash through a spare block and keeps a record of   *)
(* how far it came in a work space, so that the next boot can finish or    *)
(* undo what a power failure interrupted.                                  *)
(*                                                                         *)
(* An area is NumberOfSpareBlock blocks long.  The working block is one,   *)
(* its last block holds the work space (header and records) behind the     *)
(* data; the spare block is one; the other targets are areas without a     *)
(* work space.  `todo` is what the processor still has to do, one flash    *)
(* operation (erasing or programming one block, or one state byte) each;   *)
(* a routine puts its operations in front.  The power may fail between any *)
(* two of them, and boot starts from what the flash holds.  Abstracted:    *)
(* offset and length of a write inside its block, the check sum of the     *)
(* header, which only changes together with WorkingBlockValid, a block     *)
(* that is erased or programmed in part, errors of the flash device, and   *)
(* the boot block, whose swap register these boards do not have.           *)
(***************************************************************************)
EXTENDS Naturals, Sequences

CONSTANTS
  NumberOfSpareBlock,
  Work, Spare,        \* the working block and the spare block
  Targets,            \* other areas that are written
  Data,               \* contents of a block of an area
  Erased,             \* contents of an erased block
  None,
  Slots               \* records for which Offset + WRITE_TOTAL_SIZE < FtwWorkSpaceSize

Areas  == Targets \cup {Work, Spare}
Blocks == 1..NumberOfSpareBlock

ASSUME SizeAssumption == NumberOfSpareBlock \in Nat \ {0} /\ Slots \in Nat \ {0}
ASSUME NameAssumption ==
  /\ Work # Spare /\ {Work, Spare, None} \cap Targets = {} /\ None \notin {Work, Spare}
  /\ Erased \notin Data
  /\ None \notin [area : Targets \cup {Work}, block : Blocks, value : Data]

VARIABLES
  flash,          \* [Areas -> [data, space]]
  FtwWorkSpace,   \* copy of the work space in memory
  FtwLastRecord,  \* index of the last record
  MyBuffer,       \* what the spare, working or target block is programmed with
  SpareBuffer,    \* the former contents of the spare block
  call,           \* the write in progress, or None
  todo,           \* operations left, first one first
  available       \* history: [area -> contents it may have after the last calls]

memory == <<FtwWorkSpace, FtwLastRecord, MyBuffer, SpareBuffer>>
vars   == <<flash, memory, call, todo, available>>
-----------------------------------------------------------------------------
\* A record that was never written, and an erased work space.  The record behind
\* the last slot starts inside the work space and is never allocated.
EmptyRecord == [WriteAllocated |-> FALSE, SpareCompleted |-> FALSE, WriteCompleted |-> FALSE,
                target |-> None]
ErasedSpace == [WorkingBlockValid |-> FALSE, WorkingBlockInvalid |-> FALSE,
                record |-> [i \in 1..(Slots + 1) |-> EmptyRecord]]
ErasedArea  == [data |-> [b \in Blocks |-> Erased], space |-> ErasedSpace]

\* InitWorkSpaceHeader; the invalid bit stays erased.
InitWorkSpaceHeader(space) == [space EXCEPT !.WorkingBlockValid = TRUE,
                                            !.WorkingBlockInvalid = FALSE]
IsValidWorkSpace(space) == space.WorkingBlockValid

FtwGetLastRecord(space) ==
  CHOOSE i \in 1..(Slots + 1) :
    /\ ~space.record[i].WriteCompleted
    /\ \A j \in 1..(i - 1) : space.record[j].WriteCompleted

\* Only a record that is not completed outlives a reclaim, as the first one.
CleanupWorkSpace(space, last) ==
  LET old == space.record[last] IN
  [space EXCEPT !.record = [i \in 1..(Slots + 1) |->
     IF i = 1 /\ old.WriteAllocated /\ ~old.WriteCompleted THEN old ELSE EmptyRecord]]

\* Copies one block; the work space travels with the last one.
WithBlock(area, from, block) ==
  [data  |-> [area.data EXCEPT ![block] = from.data[block]],
   space |-> IF block = NumberOfSpareBlock THEN from.space ELSE area.space]

Record == FtwWorkSpace.record[FtwLastRecord]
-----------------------------------------------------------------------------
(* Operations.                                                             *)
Step(op)         == [op |-> op, area |-> None, block |-> 0]
On(op, area)     == [b \in Blocks |-> [op |-> op, area |-> area, block |-> b]]
Erase(area)      == On("Erase", area)
Program(area)    == On("Program", area)
RestoreSpare     == Erase(Spare) \o On("Restore", Spare)

\* Mutant: the copy in the spare block is not marked valid.
SpareNotMarked ==
  <<Step("WorkInvalid")>> \o Erase(Work) \o Program(Work) \o <<Step("WorkValid")>>
FlushSpareBlockToWorkingBlock ==
  <<Step("SpareValid"), Step("WorkInvalid")>> \o Erase(Work) \o Program(Work) \o <<Step("WorkValid")>>
FlushSpareBlockToTargetBlock(area) == <<Step("ReadSpare")>> \o Erase(area) \o Program(area)

FtwReclaimWorkSpace ==
  <<Step("Cleanup")>> \o Erase(Spare) \o Program(Spare) \o FlushSpareBlockToWorkingBlock \o RestoreSpare

\* Mutant: the record is completed before the target is programmed.
CompletedEarly(area) ==
  <<Step("WriteCompleted")>> \o
  (IF area = Work THEN <<Step("SpareRecord")>> \o FlushSpareBlockToWorkingBlock
                  ELSE FlushSpareBlockToTargetBlock(area))
FtwWriteRecord(area) ==
  (IF area = Work THEN <<Step("SpareRecord")>> \o FlushSpareBlockToWorkingBlock
                  ELSE FlushSpareBlockToTargetBlock(area))
  \o <<Step("WriteCompleted")>>

WriteSteps == <<Step("Refresh"), Step("Allocate"), Step("WriteRecord"), Step("ReadTarget")>>
              \o Erase(Spare) \o Program(Spare) \o <<Step("SpareCompleted")>>
FtwAbort   == <<Step("Abort")>>
\* Mutant: booting does not look for an allocated record.
BootOnlyRestarts == <<Step("Refresh"), Step("CheckSpace"), Step("CheckRestart"), Step("Booted")>>
BootSteps  == <<Step("Refresh"), Step("CheckSpace"), Step("CheckAbort"), Step("CheckRestart"),
                Step("Booted")>>

At(op)     == todo # <<>> /\ Head(todo).op = op
Go(steps)  == todo' = steps \o Tail(todo)
Goes       == Go(<<>>)

\* FtwUpdateFvState: sets one bit of a state byte, on the flash only.
SetSpace(area, space) == flash' = [flash EXCEPT ![area].space = space]
-----------------------------------------------------------------------------
(* Routines that writing and booting share.                                *)

\* Mutant: the record behind the last slot is taken for a slot.
RefreshOffByOne ==
  /\ At("Refresh")
  /\ FtwWorkSpace' = flash[Work].space
  /\ FtwLastRecord' = FtwGetLastRecord(flash[Work].space)
  /\ Go(IF FtwLastRecord' > Slots + 1 THEN FtwReclaimWorkSpace ELSE <<>>)
  /\ UNCHANGED <<flash, MyBuffer, SpareBuffer, call, available>>

\* WorkSpaceRefresh: reads the work space and reclaims it when it is full.
WorkSpaceRefresh ==
  /\ At("Refresh")
  /\ FtwWorkSpace' = flash[Work].space
  /\ FtwLastRecord' = FtwGetLastRecord(flash[Work].space)
  /\ Go(IF FtwLastRecord' > Slots THEN FtwReclaimWorkSpace ELSE <<>>)
  /\ UNCHANGED <<flash, MyBuffer, SpareBuffer, call, available>>

\* FtwReclaimWorkSpace up to its first erase.
Cleanup ==
  /\ At("Cleanup")
  /\ LET clean == CleanupWorkSpace(FtwWorkSpace, FtwLastRecord) IN
       /\ FtwWorkSpace' = clean
       /\ FtwLastRecord' = FtwGetLastRecord(clean)
       /\ MyBuffer' = [data  |-> flash[Work].data,
                       space |-> [clean EXCEPT !.WorkingBlockValid = FALSE,
                                               !.WorkingBlockInvalid = FALSE]]
  /\ SpareBuffer' = flash[Spare]
  /\ Goes
  /\ UNCHANGED <<flash, call, available>>

EraseBlock ==
  /\ At("Erase")
  /\ LET s == Head(todo) IN
       flash' = [flash EXCEPT ![s.area] = WithBlock(@, ErasedArea, s.block)]
  /\ Goes
  /\ UNCHANGED <<memory, call, available>>

ProgramBlock ==
  /\ At("Program") \/ At("Restore")
  /\ LET s == Head(todo) IN
       flash' = [flash EXCEPT ![s.area] =
                   WithBlock(@, IF s.op = "Program" THEN MyBuffer ELSE SpareBuffer, s.block)]
  /\ Goes
  /\ UNCHANGED <<memory, call, available>>

\* FlushSpareBlockToWorkingBlock: the copy in the spare block becomes valid, is read
\* with its state bits cleared, and the working block is marked before its erase.
SpareValid ==
  /\ At("SpareValid")
  /\ SetSpace(Spare, [flash[Spare].space EXCEPT !.WorkingBlockValid = TRUE])
  /\ MyBuffer' = [flash[Spare] EXCEPT !.space.WorkingBlockValid = FALSE,
                                      !.space.WorkingBlockInvalid = FALSE]
  /\ Goes
  /\ UNCHANGED <<FtwWorkSpace, FtwLastRecord, SpareBuffer, call, available>>

WorkInvalid ==
  /\ At("WorkInvalid")
  /\ SetSpace(Work, [flash[Work].space EXCEPT !.WorkingBlockInvalid = TRUE])
  /\ FtwWorkSpace' = [FtwWorkSpace EXCEPT !.WorkingBlockInvalid = TRUE]
  /\ Goes
  /\ UNCHANGED <<FtwLastRecord, MyBuffer, SpareBuffer, call, available>>

WorkValid ==
  /\ At("WorkValid")
  /\ SetSpace(Work, [flash[Work].space EXCEPT !.WorkingBlockValid = TRUE])
  /\ FtwWorkSpace' = [FtwWorkSpace EXCEPT !.WorkingBlockValid = TRUE]
  /\ Goes
  /\ UNCHANGED <<FtwLastRecord, MyBuffer, SpareBuffer, call, available>>

ReadSpare ==
  /\ At("ReadSpare")
  /\ MyBuffer' = flash[Spare]
  /\ Goes
  /\ UNCHANGED <<flash, FtwWorkSpace, FtwLastRecord, SpareBuffer, call, available>>

\* FtwWriteRecord, for a target in the working block: the spare's copy of the record.
SpareRecord ==
  /\ At("SpareRecord")
  /\ SetSpace(Spare, [flash[Spare].space EXCEPT !.record[FtwLastRecord].SpareCompleted = TRUE])
  /\ Goes
  /\ UNCHANGED <<memory, call, available>>

\* The end of FtwWriteRecord; both callers go on to the next record.
WriteCompleted ==
  /\ At("WriteCompleted")
  /\ SetSpace(Work, [flash[Work].space EXCEPT !.record[FtwLastRecord].WriteCompleted = TRUE])
  /\ FtwWorkSpace' = [FtwWorkSpace EXCEPT !.record[FtwLastRecord].WriteCompleted = TRUE]
  /\ FtwLastRecord' = FtwLastRecord + 1
  /\ Goes
  /\ UNCHANGED <<MyBuffer, SpareBuffer, call, available>>
-----------------------------------------------------------------------------
(* FtwLiteWrite.  Its reclaim of line 138 and the step to the next record  *)
(* of line 124 cannot be reached: WorkSpaceRefresh leaves FtwLastRecord at *)
(* a record that fits and is not completed.                                *)
FtwLiteWrite(area, block, value) ==
  /\ todo = <<>>
  /\ call' = [area |-> area, block |-> block, value |-> value]
  /\ todo' = WriteSteps
  /\ available' = [available EXCEPT ![area] = @ \cup {[old EXCEPT ![block] = value] : old \in @}]
  /\ UNCHANGED <<flash, memory>>

\* Returns an error, with the record as it is: EFI_ACCESS_DENIED, EFI_OUT_OF_RESOURCES.
Fail == call' = None /\ todo' = <<>> /\ UNCHANGED <<flash, memory, available>>

AccessDenied ==
  /\ At("Allocate")
  /\ Record.WriteAllocated \/ Record.SpareCompleted
  /\ Fail

Allocate ==
  /\ At("Allocate")
  /\ ~Record.WriteAllocated /\ ~Record.SpareCompleted
  /\ SetSpace(Work, [flash[Work].space EXCEPT !.record[FtwLastRecord].WriteAllocated = TRUE])
  /\ FtwWorkSpace' = [FtwWorkSpace EXCEPT !.record[FtwLastRecord].WriteAllocated = TRUE]
  /\ Goes
  /\ UNCHANGED <<FtwLastRecord, MyBuffer, SpareBuffer, call, available>>

WriteRecord ==
  /\ At("WriteRecord")
  /\ FtwWorkSpace' = [FtwWorkSpace EXCEPT !.record[FtwLastRecord].target = call.area]
  /\ SetSpace(Work, [flash[Work].space EXCEPT !.record[FtwLastRecord] =
                       FtwWorkSpace'.record[FtwLastRecord]])
  /\ Goes
  /\ UNCHANGED <<FtwLastRecord, MyBuffer, SpareBuffer, call, available>>

OutOfResources == At("ReadTarget") /\ Fail

\* The new contents of the target, and what the spare block holds.
ReadTarget ==
  /\ At("ReadTarget")
  /\ MyBuffer' = [flash[call.area] EXCEPT !.data[call.block] = call.value]
  /\ SpareBuffer' = flash[Spare]
  /\ Goes
  /\ UNCHANGED <<flash, FtwWorkSpace, FtwLastRecord, call, available>>

SpareCompleted ==
  /\ At("SpareCompleted")
  /\ SetSpace(Work, [flash[Work].space EXCEPT !.record[FtwLastRecord].SpareCompleted = TRUE])
  /\ FtwWorkSpace' = [FtwWorkSpace EXCEPT !.record[FtwLastRecord].SpareCompleted = TRUE]
  /\ Go(FtwWriteRecord(call.area) \o RestoreSpare \o <<Step("Success")>>)
  /\ UNCHANGED <<FtwLastRecord, MyBuffer, SpareBuffer, call, available>>

Success ==
  /\ At("Success")
  /\ available' = [available EXCEPT ![call.area] = {[old EXCEPT ![call.block] = call.value] : old \in @}]
  /\ call' = None
  /\ Goes
  /\ UNCHANGED <<flash, memory>>
-----------------------------------------------------------------------------
(* Power failure, and InitializeFtwLite.  Its last reclaim, of a work      *)
(* space with something behind the last record, is left out: no operation  *)
(* above writes there.                                                     *)
PowerFailure ==
  /\ FtwWorkSpace' = ErasedSpace /\ FtwLastRecord' = 1
  /\ MyBuffer' = ErasedArea /\ SpareBuffer' = ErasedArea
  /\ call' = None
  /\ todo' = BootSteps
  /\ UNCHANGED <<flash, available>>

\* The work space of the working block, else that of the spare block, else a new one.
SpaceIsValid ==
  /\ At("CheckSpace") /\ IsValidWorkSpace(FtwWorkSpace)
  /\ Goes
  /\ UNCHANGED <<flash, memory, call, available>>

SpaceFromSpare ==
  /\ At("CheckSpace") /\ ~IsValidWorkSpace(FtwWorkSpace) /\ IsValidWorkSpace(flash[Spare].space)
  /\ FtwWorkSpace' = flash[Spare].space
  /\ Go(FlushSpareBlockToWorkingBlock \o FtwAbort \o <<Step("Refresh")>>)
  /\ UNCHANGED <<flash, FtwLastRecord, MyBuffer, SpareBuffer, call, available>>

SpaceIsNew ==
  /\ At("CheckSpace") /\ ~IsValidWorkSpace(FtwWorkSpace) /\ ~IsValidWorkSpace(flash[Spare].space)
  /\ FtwWorkSpace' = InitWorkSpaceHeader(ErasedSpace)
  /\ SetSpace(Work, InitWorkSpaceHeader(ErasedSpace))
  /\ Goes
  /\ UNCHANGED <<FtwLastRecord, MyBuffer, SpareBuffer, call, available>>

CheckAbort ==
  /\ At("CheckAbort")
  /\ Go(IF Record.WriteAllocated /\ ~Record.SpareCompleted THEN FtwAbort ELSE <<>>)
  /\ UNCHANGED <<flash, memory, call, available>>

\* FtwAbort; a completed record is not found.
Abort ==
  /\ At("Abort") /\ ~Record.WriteCompleted
  /\ SetSpace(Work, [flash[Work].space EXCEPT !.record[FtwLastRecord].WriteCompleted = TRUE])
  /\ FtwWorkSpace' = [FtwWorkSpace EXCEPT !.record[FtwLastRecord].WriteCompleted = TRUE]
  /\ FtwLastRecord' = FtwGetLastRecord(FtwWorkSpace')
  /\ Go(Erase(Spare))
  /\ UNCHANGED <<MyBuffer, SpareBuffer, call, available>>

\* Mutant: looks for the record to abort again and again.
AbortRetried == At("Abort") /\ Record.WriteCompleted /\ UNCHANGED vars

AbortNotFound ==
  /\ At("Abort") /\ Record.WriteCompleted
  /\ Goes
  /\ UNCHANGED <<flash, memory, call, available>>

\* FtwRestart finishes the write and keeps nothing in the spare block.
CheckRestart ==
  /\ At("CheckRestart")
  /\ Go(IF Record.SpareCompleted /\ ~Record.WriteCompleted
        THEN FtwWriteRecord(Record.target) \o Erase(Spare) ELSE <<>>)
  /\ UNCHANGED <<flash, memory, call, available>>

Booted ==
  /\ At("Booted")
  /\ available' = [a \in DOMAIN available |-> available[a] \cap {flash[a].data}]
  /\ Goes
  /\ UNCHANGED <<flash, memory, call>>
-----------------------------------------------------------------------------
\* A board that was never booted: data in place, work space and spare block erased.
Init ==
  /\ flash \in [Areas -> {[data |-> d, space |-> ErasedSpace] : d \in [Blocks -> Data]}
                         \cup {ErasedArea}]
  /\ \A area \in Areas : flash[area] = ErasedArea <=> area = Spare
  /\ FtwWorkSpace = ErasedSpace /\ FtwLastRecord = 1
  /\ MyBuffer = ErasedArea /\ SpareBuffer = ErasedArea
  /\ call = None
  /\ todo = BootSteps
  /\ available = [area \in Targets \cup {Work} |-> {flash[area].data}]

Run ==
  \/ WorkSpaceRefresh \/ Cleanup \/ EraseBlock \/ ProgramBlock
  \/ SpareValid \/ WorkInvalid \/ WorkValid \/ ReadSpare \/ SpareRecord \/ WriteCompleted
  \/ AccessDenied \/ Allocate \/ WriteRecord \/ OutOfResources \/ ReadTarget
  \/ SpareCompleted \/ Success
  \/ SpaceIsValid \/ SpaceFromSpare \/ SpaceIsNew
  \/ CheckAbort \/ Abort \/ AbortNotFound \/ CheckRestart \/ Booted

Next ==
  \/ Run
  \/ \E area \in Targets \cup {Work}, block \in Blocks, value \in Data :
       FtwLiteWrite(area, block, value)
  \/ PowerFailure

Spec     == Init /\ [][Next]_vars
FairSpec == Spec /\ WF_vars(Run)
-----------------------------------------------------------------------------
(* Properties.                                                             *)
SpaceType == [WorkingBlockValid : BOOLEAN, WorkingBlockInvalid : BOOLEAN,
              record : [1..(Slots + 1) ->
                          [WriteAllocated : BOOLEAN, SpareCompleted : BOOLEAN,
                           WriteCompleted : BOOLEAN, target : Targets \cup {Work, None}]]]
Contents  == [Blocks -> Data \cup {Erased}]
AreaType  == [data : Contents, space : SpaceType]
Operations ==
  {"Refresh", "Cleanup", "Erase", "Program", "Restore", "SpareValid", "WorkInvalid",
   "WorkValid", "ReadSpare", "SpareRecord", "WriteCompleted", "Allocate", "WriteRecord",
   "ReadTarget", "SpareCompleted", "Success", "CheckSpace", "CheckAbort", "Abort",
   "CheckRestart", "Booted"}
StepType  == [op : Operations, area : Areas \cup {None}, block : Blocks \cup {0}]

\* Every variable has its type, and the record behind the last slot stays erased.
TypeOK ==
  /\ flash \in [Areas -> AreaType]
  /\ FtwWorkSpace \in SpaceType
  /\ FtwLastRecord \in 1..(Slots + 1)
  /\ {MyBuffer, SpareBuffer} \subseteq AreaType
  /\ call \in {None} \cup [area : Targets \cup {Work}, block : Blocks, value : Data]
  /\ todo \in Seq(StepType)
  /\ available \in [Targets \cup {Work} -> SUBSET [Blocks -> Data]]
  /\ FtwWorkSpace.record[Slots + 1] = EmptyRecord

\* FtwLite.c:66-70: "ensuring at all times that either the original contents or the
\* modified contents are available".  Whenever the driver has booted and no call is in
\* progress, each area holds what the last successful write left there or, after a call
\* that failed or was cut off, possibly what that call asked for.
ContentsAvailable ==
  todo = <<>> => \A area \in Targets \cup {Work} : flash[area].data \in available[area]

\* A record that was left allocated makes every later write fail (FtwLite.c:117), so
\* booting may not leave one, however often it was interrupted itself.
BootFreesRecord ==
  At("Booted") => ~Record.WriteAllocated /\ ~Record.SpareCompleted

\* What a boot that is not interrupted would restore: the spare block as long as it
\* holds the only valid work space or a write that is not completed.
Recoverable(area) ==
  LET space == flash[Work].space
      old   == space.record[FtwGetLastRecord(space)] IN
  IF ~IsValidWorkSpace(space) /\ IsValidWorkSpace(flash[Spare].space)
  THEN flash[IF area = Work THEN Spare ELSE area].data
  ELSE flash[IF old.SpareCompleted /\ old.target = area THEN Spare ELSE area].data

\* The driver implements the block device that replaces a block in one step: all the
\* erasing, programming, failing and booting moves the recoverable contents only once,
\* and a call that returns success has moved them.
Abstract == INSTANCE AtomicBlocks WITH
  Areas <- Targets \cup {Work}, content <- [area \in Targets \cup {Work} |-> Recoverable(area)],
  request <- call

Atomic == Abstract!Spec /\ [][Success => Abstract!Succeed]_vars

\* When the power stays on, booting or writing comes to an end.
Recovers == <>[][~PowerFailure]_vars => []<>(todo = <<>>)
=============================================================================
