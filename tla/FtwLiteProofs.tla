---------------------------- MODULE FtwLiteProofs ----------------------------
(***************************************************************************)
(* With one block to an area, fault tolerant write implements blocks that  *)
(* change in one step, for any number of areas, contents and records, and  *)
(* wherever the power fails.                                               *)
(*                                                                         *)
(* The programs of the fault tolerant write driver, one operation in front *)
(* of the rest, when an area is one block.                                 *)
(***************************************************************************)
EXTENDS FtwLite, SequenceTheorems, TLAPS

\* One block to an area, as on the Loongson boards (FlashLayout.h).
OneBlock == NumberOfSpareBlock = 1
Named    == Targets \cup {Work}
-----------------------------------------------------------------------------
(* The programs that todo runs through, from their ends.                   *)
Programs == Seq(StepType)
Then(op, rest)         == <<Step(op)>> \o rest
ThenAt(op, area, rest) == <<[op |-> op, area |-> area, block |-> 1]>> \o rest

ToBooted    == Then("Booted", <<>>)
ToRestart   == Then("CheckRestart", ToBooted)
ToAbort     == Then("CheckAbort", ToRestart)
ToCheck     == Then("CheckSpace", ToAbort)
ToRefresh   == Then("Refresh", ToAbort)

ToSpareCompleted == Then("SpareCompleted", <<>>)
ToFillSpare      == ThenAt("Program", Spare, ToSpareCompleted)
ToEraseSpare     == ThenAt("Erase", Spare, ToFillSpare)
ToReadTarget     == Then("ReadTarget", ToEraseSpare)
ToWriteRecord    == Then("WriteRecord", ToReadTarget)
ToAllocate       == Then("Allocate", ToWriteRecord)
ToSuccess        == Then("Success", <<>>)

Restoring(k)    == ThenAt("Erase", Spare, ThenAt("Restore", Spare, k))
MarkWork(k)     == Then("WorkValid", k)
FillWork(k)     == ThenAt("Program", Work, MarkWork(k))
ReplaceWork(k)  == ThenAt("Erase", Work, FillWork(k))
Flush(k)        == Then("SpareValid", Then("WorkInvalid", ReplaceWork(k)))
FillReclaim(k)  == ThenAt("Program", Spare, Flush(Restoring(k)))
Reclaim(k)      == Then("Cleanup", ThenAt("Erase", Spare, FillReclaim(k)))
Complete(k)     == Then("WriteCompleted", k)
FillTarget(area, k) == ThenAt("Program", area, Complete(k))
Replace(area, k)    == Then("ReadSpare", ThenAt("Erase", area, FillTarget(area, k)))
WriteEnds       == Restoring(ToSuccess)
RestartEnds     == ThenAt("Erase", Spare, ToBooted)
AbortSpare      == Then("Abort", ToRefresh)
-----------------------------------------------------------------------------

LEMMA FirstOfProgram ==
  ASSUME NEW s \in StepType, NEW rest \in Programs
  PROVE  /\ <<s>> \o rest \in Programs /\ <<s>> \o rest # <<>>
         /\ Head(<<s>> \o rest) = s /\ Tail(<<s>> \o rest) = rest
<1> DEFINE p == <<s>> \o rest
<1>1. /\ p \in Programs /\ Len(p) = Len(rest) + 1
      /\ p[1] = s /\ \A i \in 1..Len(rest) : p[i + 1] = rest[i]
  BY DEF Programs
<1>2. p # <<>> /\ Head(p) = s
  BY <1>1 DEF Programs
<1>3. Tail(p) = rest
  <2>1. Tail(p) \in Programs /\ Len(Tail(p)) = Len(rest)
    BY <1>1 DEF Programs
  <2>2. \A i \in 1..Len(rest) : Tail(p)[i] = rest[i]
    BY <1>1 DEF Programs
  <2> QED BY <2>1, <2>2 DEF Programs
<1> QED BY <1>1, <1>2, <1>3

LEMMA ThenProperties ==
  ASSUME NEW op \in Operations, NEW rest \in Programs
  PROVE  /\ Then(op, rest) \in Programs /\ Then(op, rest) # <<>>
         /\ Head(Then(op, rest)) = Step(op) /\ Tail(Then(op, rest)) = rest
<1>1. Step(op) \in StepType
  BY DEF Step, StepType
<1> QED BY <1>1, FirstOfProgram DEF Then

LEMMA ThenAtProperties ==
  ASSUME OneBlock, NEW op \in Operations, NEW area \in Areas, NEW rest \in Programs
  PROVE  /\ ThenAt(op, area, rest) \in Programs /\ ThenAt(op, area, rest) # <<>>
         /\ Head(ThenAt(op, area, rest)) = [op |-> op, area |-> area, block |-> 1]
         /\ Tail(ThenAt(op, area, rest)) = rest
<1>1. [op |-> op, area |-> area, block |-> 1] \in StepType
  BY DEF OneBlock, StepType, Blocks
<1> QED BY <1>1, FirstOfProgram DEF ThenAt

LEMMA AreasProperties == Work \in Areas /\ Spare \in Areas /\ Targets \subseteq Areas /\ Named \subseteq Areas
BY DEF Areas, Named

LEMMA ProgramsTyped ==
  ASSUME OneBlock
  PROVE  /\ {<<>>, ToBooted, ToRestart, ToAbort, ToCheck, ToRefresh, ToSuccess} \subseteq Programs
         /\ {ToSpareCompleted, ToFillSpare, ToEraseSpare} \subseteq Programs
         /\ {ToReadTarget, ToWriteRecord, ToAllocate} \subseteq Programs
         /\ {WriteEnds, RestartEnds, AbortSpare} \subseteq Programs
         /\ \A k \in Programs :
              /\ {Restoring(k), ThenAt("Restore", Spare, k)} \subseteq Programs
              /\ {MarkWork(k), FillWork(k), ReplaceWork(k), Flush(k)} \subseteq Programs
              /\ {Then("WorkInvalid", ReplaceWork(k)), Complete(k)} \subseteq Programs
              /\ {FillReclaim(k), Reclaim(k)} \subseteq Programs
              /\ ThenAt("Erase", Spare, FillReclaim(k)) \in Programs
              /\ \A area \in Areas :
                   {FillTarget(area, k), Replace(area, k),
                    ThenAt("Erase", area, FillTarget(area, k))} \subseteq Programs
<1>1. <<>> \in Programs
  BY DEF Programs
<1>2. \A op \in Operations, rest \in Programs : Then(op, rest) \in Programs
  BY ThenProperties
<1>3. \A op \in Operations, area \in Areas, rest \in Programs :
        ThenAt(op, area, rest) \in Programs
  BY ThenAtProperties
<1>4. {<<>>, ToBooted, ToRestart, ToAbort, ToCheck, ToRefresh, ToSuccess} \subseteq Programs
  BY <1>1, <1>2 DEF Operations, ToBooted, ToRestart, ToAbort, ToCheck, ToRefresh, ToSuccess
<1>5. {ToSpareCompleted, ToFillSpare, ToEraseSpare} \subseteq Programs
  BY <1>1, <1>2, <1>3, AreasProperties DEF Operations, ToSpareCompleted, ToFillSpare, ToEraseSpare
<1>6. {ToReadTarget, ToWriteRecord, ToAllocate} \subseteq Programs
  BY <1>2, <1>5 DEF Operations, ToReadTarget, ToWriteRecord, ToAllocate
<1>7. \A k \in Programs :
        /\ {Restoring(k), ThenAt("Restore", Spare, k)} \subseteq Programs
        /\ {MarkWork(k), FillWork(k), ReplaceWork(k), Complete(k)} \subseteq Programs
  BY <1>2, <1>3, AreasProperties DEF Operations, Restoring, MarkWork, FillWork, ReplaceWork, Complete
<1>8. \A k \in Programs :
        Flush(k) \in Programs /\ Then("WorkInvalid", ReplaceWork(k)) \in Programs
  BY <1>2, <1>7 DEF Operations, Flush
<1>9. \A k \in Programs :
        /\ {FillReclaim(k), Reclaim(k)} \subseteq Programs
        /\ ThenAt("Erase", Spare, FillReclaim(k)) \in Programs
  BY <1>2, <1>3, <1>7, <1>8, AreasProperties DEF Operations, FillReclaim, Reclaim
<1>10. \A k \in Programs, area \in Areas :
         {FillTarget(area, k), Replace(area, k),
          ThenAt("Erase", area, FillTarget(area, k))} \subseteq Programs
  BY <1>2, <1>3, <1>7 DEF Operations, FillTarget, Replace
<1>11. {WriteEnds, RestartEnds, AbortSpare} \subseteq Programs
  BY <1>2, <1>3, <1>4, <1>7, AreasProperties DEF Operations, WriteEnds, RestartEnds, AbortSpare
<1> QED BY <1>4, <1>5, <1>6, <1>7, <1>8, <1>9, <1>10, <1>11

\* Sequences of the specification, written as programs.
Join(p, q) == p \o q
One(op)    == <<Step(op)>>

LEMMA JoinProperties ==
  /\ \A p, q \in Programs : Join(p, q) \in Programs
  /\ \A p, q, k \in Programs : Join(Join(p, q), k) = Join(p, Join(q, k))
  /\ \A p \in Programs : Join(p, <<>>) = p /\ Join(<<>>, p) = p
<1>1. ASSUME NEW p \in Programs, NEW q \in Programs, NEW k \in Programs
      PROVE  Join(Join(p, q), k) = Join(p, Join(q, k))
  BY ConcatAssociative DEF Programs, Join
<1>2. ASSUME NEW p \in Programs, NEW q \in Programs
      PROVE  Join(p, q) \in Programs
  BY ConcatProperties DEF Programs, Join
<1>3. ASSUME NEW p \in Programs
      PROVE  Join(p, <<>>) = p /\ Join(<<>>, p) = p
  BY ConcatEmptySeq DEF Programs, Join
<1> QED BY <1>1, <1>2, <1>3

LEMMA LiteralsOfTwo ==
  ASSUME NEW a \in StepType, NEW b \in StepType
  PROVE  <<a, b>> = Join(<<a>>, <<b>>)
<1> DEFINE p == <<a, b>>
           q == <<a>> \o <<b>>
<1>1. p \in Seq(StepType) /\ Len(p) = 2 /\ p[1] = a /\ p[2] = b
  OBVIOUS
<1>2. q \in Seq(StepType) /\ Len(q) = 2 /\ q[1] = a /\ q[2] = b
  OBVIOUS
<1>3. \A i \in 1..2 : i = 1 \/ i = 2
  OBVIOUS
<1> HIDE DEF p, q
<1>4. \A i \in 1..Len(p) : p[i] = q[i]
  BY <1>1, <1>2, <1>3
<1>5. p = q
  BY <1>1, <1>2, <1>4, SeqEqual
<1> QED BY <1>5 DEF p, q, Join

LEMMA LiteralsOfFour ==
  ASSUME NEW a \in StepType, NEW b \in StepType, NEW c \in StepType, NEW d \in StepType
  PROVE  <<a, b, c, d>> = Join(<<a>>, Join(<<b>>, Join(<<c>>, <<d>>)))
<1> DEFINE p == <<a, b, c, d>>
           q == <<a>> \o <<b, c, d>>
           t == <<b, c, d>>
           u == <<b>> \o <<c, d>>
<1>1. /\ p \in Seq(StepType) /\ Len(p) = 4 /\ p[1] = a /\ p[2] = b /\ p[3] = c /\ p[4] = d
      /\ t \in Seq(StepType) /\ Len(t) = 3 /\ t[1] = b /\ t[2] = c /\ t[3] = d
  OBVIOUS
<1>2. /\ q \in Seq(StepType) /\ Len(q) = 4 /\ q[1] = a /\ q[2] = b /\ q[3] = c /\ q[4] = d
      /\ u \in Seq(StepType) /\ Len(u) = 3 /\ u[1] = b /\ u[2] = c /\ u[3] = d
  OBVIOUS
<1>3. (\A i \in 1..4 : i = 1 \/ i = 2 \/ i = 3 \/ i = 4) /\ (\A i \in 1..3 : i = 1 \/ i = 2 \/ i = 3)
  OBVIOUS
<1> HIDE DEF p, q, t, u
<1>4. (\A i \in 1..Len(p) : p[i] = q[i]) /\ (\A i \in 1..Len(t) : t[i] = u[i])
  BY <1>1, <1>2, <1>3
<1>5. p = q /\ t = u
  <2>1. p = q
    BY <1>1, <1>2, <1>4, SeqEqual
  <2>2. t = u
    BY <1>1, <1>2, <1>4, SeqEqual
  <2> QED BY <2>1, <2>2
<1>6. p = Join(<<a>>, t)
  BY <1>5 DEF q, t, Join
<1>7. t = Join(<<b>>, <<c, d>>)
  BY <1>5 DEF u, Join
<1> QED BY <1>6, <1>7, LiteralsOfTwo DEF p

LEMMA LiteralsOfFive ==
  ASSUME NEW a \in StepType, NEW b \in StepType, NEW c \in StepType, NEW d \in StepType,
         NEW e \in StepType
  PROVE  <<a, b, c, d, e>> = Join(<<a>>, Join(<<b>>, Join(<<c>>, Join(<<d>>, <<e>>))))
<1> DEFINE p == <<a, b, c, d, e>>
           t == <<b, c, d, e>>
           q == <<a>> \o t
<1>1. /\ p \in Seq(StepType) /\ Len(p) = 5
      /\ p[1] = a /\ p[2] = b /\ p[3] = c /\ p[4] = d /\ p[5] = e
  OBVIOUS
<1>2. /\ q \in Seq(StepType) /\ Len(q) = 5
      /\ q[1] = a /\ q[2] = b /\ q[3] = c /\ q[4] = d /\ q[5] = e
  OBVIOUS
<1>3. \A i \in 1..5 : i = 1 \/ i = 2 \/ i = 3 \/ i = 4 \/ i = 5
  OBVIOUS
<1> HIDE DEF p, q
<1>4. \A i \in 1..Len(p) : p[i] = q[i]
  BY <1>1, <1>2, <1>3
<1>5. p = q
  BY <1>1, <1>2, <1>4, SeqEqual
<1> HIDE DEF t
<1>6. p = Join(<<a>>, t)
  BY <1>5 DEF q, Join
<1>7. t = Join(<<b>>, Join(<<c>>, Join(<<d>>, <<e>>)))
  BY LiteralsOfFour DEF t
<1> QED BY <1>6, <1>7 DEF p

LEMMA OnIsOneStep ==
  ASSUME OneBlock, NEW op, NEW area
  PROVE  On(op, area) = <<[op |-> op, area |-> area, block |-> 1]>>
<1> DEFINE s == [op |-> op, area |-> area, block |-> 1]
<1>1. On(op, area) = [b \in 1..1 |-> [op |-> op, area |-> area, block |-> b]]
  BY DEF On, OneBlock, Blocks
<1>2. On(op, area) \in Seq({s}) /\ Len(On(op, area)) = 1 /\ On(op, area)[1] = s
  <2>1. \A i \in 1..1 : On(op, area)[i] = s
    BY <1>1
  <2> QED BY <1>1, <2>1
<1> QED BY <1>2

\* The parts of the programs, and what joining something to them yields.
LEMMA PartsProperties ==
  ASSUME OneBlock
  PROVE  /\ \A op \in Operations :
              /\ Step(op) \in StepType /\ One(op) \in Programs
              /\ \A k : Join(One(op), k) = Then(op, k)
         /\ \A op \in Operations, area \in Areas :
              /\ On(op, area) \in Programs
              /\ \A k : Join(On(op, area), k) = ThenAt(op, area, k)
<1>1. ASSUME NEW op \in Operations
      PROVE  /\ Step(op) \in StepType /\ One(op) \in Programs
             /\ \A k : Join(One(op), k) = Then(op, k)
  <2>1. Step(op) \in StepType
    BY DEF Step, StepType
  <2>2. One(op) \in Programs
    BY <2>1 DEF Programs, One
  <2>3. \A k : Join(One(op), k) = Then(op, k)
    BY DEF Join, One, Then
  <2> QED BY <2>1, <2>2, <2>3
<1>2. ASSUME NEW op \in Operations, NEW area \in Areas
      PROVE  /\ On(op, area) \in Programs
             /\ \A k : Join(On(op, area), k) = ThenAt(op, area, k)
  <2>1. [op |-> op, area |-> area, block |-> 1] \in StepType
    BY DEF OneBlock, StepType, Blocks
  <2>2. <<[op |-> op, area |-> area, block |-> 1]>> \in Programs
    BY <2>1 DEF Programs
  <2> QED BY <2>2, OnIsOneStep DEF Join, ThenAt
<1> QED BY <1>1, <1>2

LEMMA EraseProperties ==
  ASSUME OneBlock, NEW area \in Areas
  PROVE  /\ Erase(area) \in Programs /\ Program(area) \in Programs
         /\ \A k : Join(Erase(area), k) = ThenAt("Erase", area, k)
         /\ \A k : Join(Program(area), k) = ThenAt("Program", area, k)
BY PartsProperties DEF Operations, Erase, Program

LEMMA RestoreProperties ==
  ASSUME OneBlock
  PROVE  RestoreSpare \in Programs /\ \A k \in Programs : Join(RestoreSpare, k) = Restoring(k)
<1>1. RestoreSpare = Join(Erase(Spare), On("Restore", Spare))
  BY DEF RestoreSpare, Join
<1>2. /\ Erase(Spare) \in Programs /\ On("Restore", Spare) \in Programs
      /\ \A k : Join(Erase(Spare), k) = ThenAt("Erase", Spare, k)
      /\ \A k : Join(On("Restore", Spare), k) = ThenAt("Restore", Spare, k)
  BY EraseProperties, PartsProperties, AreasProperties DEF Operations
<1> QED BY <1>1, <1>2, JoinProperties DEF Restoring

LEMMA FlushProperties ==
  ASSUME OneBlock
  PROVE  /\ FlushSpareBlockToWorkingBlock \in Programs
         /\ \A k \in Programs : Join(FlushSpareBlockToWorkingBlock, k) = Flush(k)
<1> DEFINE P == FlushSpareBlockToWorkingBlock
           two == Join(One("SpareValid"), One("WorkInvalid"))
<1>1. P = Join(Join(Join(two, Erase(Work)), Program(Work)), One("WorkValid"))
  <2>1. <<Step("SpareValid"), Step("WorkInvalid")>> = two
    BY PartsProperties, LiteralsOfTwo DEF Operations, One
  <2> QED BY <2>1 DEF Join, One, FlushSpareBlockToWorkingBlock
<1>2. /\ Erase(Work) \in Programs /\ Program(Work) \in Programs
      /\ \A k : Join(Erase(Work), k) = ThenAt("Erase", Work, k)
      /\ \A k : Join(Program(Work), k) = ThenAt("Program", Work, k)
  BY EraseProperties, AreasProperties
<1>3. /\ \A op \in {"SpareValid", "WorkInvalid", "WorkValid"} :
           One(op) \in Programs /\ \A k : Join(One(op), k) = Then(op, k)
  BY PartsProperties DEF Operations
<1>4. P \in Programs
  BY <1>1, <1>2, <1>3, JoinProperties
<1>5. ASSUME NEW k \in Programs PROVE Join(P, k) = Flush(k)
  <2> DEFINE k1 == Join(One("WorkValid"), k)
             k2 == Join(Program(Work), k1)
             k3 == Join(Erase(Work), k2)
  <2>1. k1 \in Programs /\ k2 \in Programs /\ k3 \in Programs
    BY <1>2, <1>3, JoinProperties
  <2>2. two \in Programs /\ Join(two, Erase(Work)) \in Programs
        /\ Join(Join(two, Erase(Work)), Program(Work)) \in Programs
    BY <1>2, <1>3, JoinProperties
  <2>3. Join(P, k) = Join(Join(Join(two, Erase(Work)), Program(Work)), k1)
    BY <1>1, <1>3, <2>2, JoinProperties
  <2>4. Join(Join(Join(two, Erase(Work)), Program(Work)), k1) = Join(Join(two, Erase(Work)), k2)
    BY <1>2, <2>1, <2>2, JoinProperties
  <2>5. Join(Join(two, Erase(Work)), k2) = Join(two, k3)
    BY <1>2, <2>1, <2>2, JoinProperties
  <2>6. Join(two, k3) = Join(One("SpareValid"), Join(One("WorkInvalid"), k3))
    BY <1>3, <2>1, JoinProperties
  <2> QED BY <1>2, <1>3, <2>3, <2>4, <2>5, <2>6 DEF Flush, ReplaceWork, FillWork, MarkWork
<1> QED BY <1>4, <1>5

LEMMA BootProgram ==
  ASSUME OneBlock
  PROVE  BootSteps = Then("Refresh", ToCheck)
<1>1. \A op \in {"Refresh", "CheckSpace", "CheckAbort", "CheckRestart", "Booted"} :
        Step(op) \in StepType /\ \A k : Join(One(op), k) = Then(op, k)
  BY PartsProperties DEF Operations
<1>2. BootSteps = Join(One("Refresh"), Join(One("CheckSpace"), Join(One("CheckAbort"),
                    Join(One("CheckRestart"), One("Booted")))))
  <2>1. /\ Step("Refresh") \in StepType /\ Step("CheckSpace") \in StepType
        /\ Step("CheckAbort") \in StepType /\ Step("CheckRestart") \in StepType
        /\ Step("Booted") \in StepType
    BY <1>1
  <2> QED BY <2>1, LiteralsOfFive DEF BootSteps, One
<1>3. One("Booted") = ToBooted
  <2>1. One("Booted") \in Programs
    BY PartsProperties DEF Operations
  <2> QED BY <1>1, <2>1, JoinProperties DEF ToBooted
<1> QED BY <1>1, <1>2, <1>3 DEF ToRestart, ToAbort, ToCheck

LEMMA WriteProgram ==
  ASSUME OneBlock
  PROVE  WriteSteps = Then("Refresh", ToAllocate)
<1> DEFINE read   == One("ReadTarget")
           record == Join(One("WriteRecord"), read)
           alloc  == Join(One("Allocate"), record)
           first  == Join(One("Refresh"), alloc)
           last   == One("SpareCompleted")
           fill   == Join(Program(Spare), last)
           erase  == Join(Erase(Spare), fill)
<1>1. \A op \in {"Refresh", "Allocate", "WriteRecord", "ReadTarget", "SpareCompleted"} :
        /\ Step(op) \in StepType /\ One(op) \in Programs
        /\ \A k : Join(One(op), k) = Then(op, k)
  BY PartsProperties DEF Operations
<1>2. /\ Erase(Spare) \in Programs /\ Program(Spare) \in Programs
      /\ \A k : Join(Erase(Spare), k) = ThenAt("Erase", Spare, k)
      /\ \A k : Join(Program(Spare), k) = ThenAt("Program", Spare, k)
  BY EraseProperties, AreasProperties
<1>3. WriteSteps = Join(Join(Join(first, Erase(Spare)), Program(Spare)), last)
  <2>1. <<Step("Refresh"), Step("Allocate"), Step("WriteRecord"), Step("ReadTarget")>> = first
    BY <1>1, LiteralsOfFour DEF One
  <2> QED BY <2>1 DEF WriteSteps, Join, One
<1>4. /\ read \in Programs /\ record \in Programs /\ alloc \in Programs /\ first \in Programs
      /\ last \in Programs /\ fill \in Programs /\ erase \in Programs
      /\ Join(first, Erase(Spare)) \in Programs
  BY <1>1, <1>2, JoinProperties
<1>5. Join(Join(Join(first, Erase(Spare)), Program(Spare)), last) = Join(first, erase)
  <2>1. Join(Join(Join(first, Erase(Spare)), Program(Spare)), last)
          = Join(Join(first, Erase(Spare)), fill)
    BY <1>2, <1>4, JoinProperties
  <2>2. Join(Join(first, Erase(Spare)), fill) = Join(first, erase)
    BY <1>2, <1>4, JoinProperties
  <2> QED BY <2>1, <2>2
<1>6. Join(first, erase) = Join(One("Refresh"), Join(One("Allocate"),
                             Join(One("WriteRecord"), Join(read, erase))))
  <2>1. Join(first, erase) = Join(One("Refresh"), Join(alloc, erase))
    BY <1>1, <1>4, JoinProperties
  <2>2. Join(alloc, erase) = Join(One("Allocate"), Join(record, erase))
    BY <1>1, <1>4, JoinProperties
  <2>3. Join(record, erase) = Join(One("WriteRecord"), Join(read, erase))
    BY <1>1, <1>4, JoinProperties
  <2> QED BY <2>1, <2>2, <2>3
<1>7. last = ToSpareCompleted
  BY <1>1, JoinProperties DEF ToSpareCompleted
<1>8. erase = ToEraseSpare
  BY <1>2, <1>7 DEF ToFillSpare, ToEraseSpare
<1> QED BY <1>1, <1>3, <1>5, <1>6, <1>8 DEF ToReadTarget, ToWriteRecord, ToAllocate

LEMMA ReclaimProgram ==
  ASSUME OneBlock, NEW k \in Programs
  PROVE  FtwReclaimWorkSpace \o k = Reclaim(k)
<1> DEFINE clean == One("Cleanup")
           flush == FlushSpareBlockToWorkingBlock
           c1 == Join(clean, Erase(Spare))
           c2 == Join(c1, Program(Spare))
           c3 == Join(c2, flush)
           r1 == Restoring(k)
           r2 == Flush(r1)
           r3 == FillReclaim(k)
           r4 == ThenAt("Erase", Spare, r3)
<1>1. clean \in Programs /\ \A p : Join(clean, p) = Then("Cleanup", p)
  BY PartsProperties DEF Operations
<1>2. /\ Erase(Spare) \in Programs /\ Program(Spare) \in Programs
      /\ \A p : Join(Erase(Spare), p) = ThenAt("Erase", Spare, p)
      /\ \A p : Join(Program(Spare), p) = ThenAt("Program", Spare, p)
  BY EraseProperties, AreasProperties
<1>3. flush \in Programs /\ \A p \in Programs : Join(flush, p) = Flush(p)
  BY FlushProperties
<1>4. RestoreSpare \in Programs /\ Join(RestoreSpare, k) = r1
  BY RestoreProperties
<1>5. FtwReclaimWorkSpace = Join(c3, RestoreSpare)
  BY DEF FtwReclaimWorkSpace, Join, One
<1>6. c1 \in Programs /\ c2 \in Programs /\ c3 \in Programs
  BY <1>1, <1>2, <1>3, JoinProperties
<1>7. r1 \in Programs /\ r2 \in Programs /\ r3 \in Programs /\ r4 \in Programs
  BY ProgramsTyped
<1>8. Join(Join(c3, RestoreSpare), k) = Join(c3, r1)
  BY <1>4, <1>6, JoinProperties
<1>9. Join(c3, r1) = Join(c2, r2)
  BY <1>3, <1>6, <1>7, JoinProperties
<1>10. Join(c2, r2) = Join(c1, r3)
  BY <1>2, <1>6, <1>7, JoinProperties DEF FillReclaim
<1>11. Join(c1, r3) = Join(clean, r4)
  BY <1>1, <1>2, <1>7, JoinProperties
<1>12. Join(FtwReclaimWorkSpace, k) = Reclaim(k)
  BY <1>1, <1>5, <1>8, <1>9, <1>10, <1>11 DEF Reclaim
<1> QED BY <1>12 DEF Join

\* FtwWriteRecord in front of what its callers do next.
LEMMA WriteRecordProgram ==
  ASSUME OneBlock, NEW k \in Programs
  PROVE  /\ FtwWriteRecord(Work) \in Programs
         /\ Join(FtwWriteRecord(Work), k) = Then("SpareRecord", Flush(Complete(k)))
         /\ \A area \in Targets :
              /\ FtwWriteRecord(area) \in Programs
              /\ Join(FtwWriteRecord(area), k) = Replace(area, k)
<1> DEFINE flush == FlushSpareBlockToWorkingBlock
           last  == One("WriteCompleted")
<1>1. \A op \in {"SpareRecord", "ReadSpare", "WriteCompleted"} :
        One(op) \in Programs /\ \A p : Join(One(op), p) = Then(op, p)
  BY PartsProperties DEF Operations
<1>2. Join(last, k) = Complete(k) /\ Complete(k) \in Programs
  BY <1>1, ProgramsTyped DEF Complete
<1>3. flush \in Programs /\ \A p \in Programs : Join(flush, p) = Flush(p)
  BY FlushProperties
<1>4. /\ FtwWriteRecord(Work) \in Programs
      /\ Join(FtwWriteRecord(Work), k) = Then("SpareRecord", Flush(Complete(k)))
  <2> DEFINE p == Join(One("SpareRecord"), flush)
  <2>1. FtwWriteRecord(Work) = Join(p, last)
    BY DEF FtwWriteRecord, Join, One
  <2>2. p \in Programs /\ Join(p, last) \in Programs /\ Flush(Complete(k)) \in Programs
    BY <1>1, <1>2, <1>3, JoinProperties, ProgramsTyped
  <2>3. Join(Join(p, last), k) = Join(p, Complete(k))
    BY <1>1, <1>2, <2>2, JoinProperties
  <2>4. Join(p, Complete(k)) = Join(One("SpareRecord"), Flush(Complete(k)))
    BY <1>1, <1>2, <1>3, JoinProperties
  <2> QED BY <1>1, <2>1, <2>2, <2>3, <2>4
<1>5. ASSUME NEW area \in Targets
      PROVE  /\ FtwWriteRecord(area) \in Programs
             /\ Join(FtwWriteRecord(area), k) = Replace(area, k)
  <2> DEFINE p == Join(One("ReadSpare"), Erase(area))
             q == Join(p, Program(area))
  <2>1. /\ Erase(area) \in Programs /\ Program(area) \in Programs
        /\ \A r : Join(Erase(area), r) = ThenAt("Erase", area, r)
        /\ \A r : Join(Program(area), r) = ThenAt("Program", area, r)
    BY EraseProperties, AreasProperties
  <2>2. FtwWriteRecord(area) = Join(q, last)
    <3>1. area # Work
      BY NameAssumption
    <3> QED BY <3>1 DEF FtwWriteRecord, FlushSpareBlockToTargetBlock, Join, One
  <2>3. p \in Programs /\ q \in Programs /\ Join(q, last) \in Programs
    BY <1>1, <2>1, JoinProperties
  <2>4. FillTarget(area, k) \in Programs /\ ThenAt("Erase", area, FillTarget(area, k)) \in Programs
    BY ProgramsTyped, AreasProperties
  <2>5. Join(Join(q, last), k) = Join(q, Complete(k))
    BY <1>1, <1>2, <2>3, JoinProperties
  <2>6. Join(q, Complete(k)) = Join(p, FillTarget(area, k))
    BY <1>2, <2>1, <2>3, JoinProperties DEF FillTarget
  <2>7. Join(p, FillTarget(area, k))
          = Join(One("ReadSpare"), ThenAt("Erase", area, FillTarget(area, k)))
    BY <1>1, <2>1, <2>3, <2>4, JoinProperties
  <2> QED BY <1>1, <2>2, <2>3, <2>5, <2>6, <2>7 DEF Replace
<1> QED BY <1>4, <1>5

LEMMA FlushAndAbortProgram ==
  ASSUME OneBlock
  PROVE  /\ (FlushSpareBlockToWorkingBlock \o FtwAbort \o <<Step("Refresh")>>) \o ToAbort
              = Flush(AbortSpare)
         /\ FtwAbort \o ToRestart = Then("Abort", ToRestart)
<1> DEFINE flush == FlushSpareBlockToWorkingBlock
           abort == One("Abort")
           refresh == One("Refresh")
<1>1. \A op \in {"Abort", "Refresh"} :
        One(op) \in Programs /\ \A p : Join(One(op), p) = Then(op, p)
  BY PartsProperties DEF Operations
<1>2. flush \in Programs /\ \A p \in Programs : Join(flush, p) = Flush(p)
  BY FlushProperties
<1>3. Join(refresh, ToAbort) = ToRefresh /\ Join(abort, ToRefresh) = AbortSpare
  BY <1>1 DEF ToRefresh, AbortSpare
<1>4. Join(Join(Join(flush, abort), refresh), ToAbort) = Flush(AbortSpare)
  <2>1. /\ ToAbort \in Programs /\ ToRefresh \in Programs /\ AbortSpare \in Programs
        /\ Join(flush, abort) \in Programs
    BY <1>1, <1>2, JoinProperties, ProgramsTyped
  <2>2. Join(Join(Join(flush, abort), refresh), ToAbort) = Join(Join(flush, abort), ToRefresh)
    BY <1>1, <1>3, <2>1, JoinProperties
  <2>3. Join(Join(flush, abort), ToRefresh) = Join(flush, AbortSpare)
    BY <1>1, <1>2, <1>3, <2>1, JoinProperties
  <2> QED BY <1>2, <2>1, <2>2, <2>3
<1>5. Join(abort, ToRestart) = Then("Abort", ToRestart)
  BY <1>1
<1>6. FtwAbort = abort
  BY DEF FtwAbort, One
<1> QED BY <1>4, <1>5, <1>6 DEF Join, One

\* What SpareCompleted and CheckRestart go on with.
LEMMA FinishingPrograms ==
  ASSUME OneBlock, NEW area \in Named
  PROVE  LET Finish(k) == IF area = Work THEN Then("SpareRecord", Flush(Complete(k)))
                                         ELSE Replace(area, k) IN
         /\ (FtwWriteRecord(area) \o RestoreSpare \o <<Step("Success")>>) \o <<>>
              = Finish(WriteEnds)
         /\ (FtwWriteRecord(area) \o Erase(Spare)) \o ToBooted = Finish(RestartEnds)
<1> DEFINE Finish(k) == IF area = Work THEN Then("SpareRecord", Flush(Complete(k)))
                                       ELSE Replace(area, k)
           W == FtwWriteRecord(area)
           success == One("Success")
<1>1. success \in Programs /\ Join(success, <<>>) = ToSuccess /\ success = ToSuccess
  BY PartsProperties, JoinProperties DEF Operations, ToSuccess
<1>2. W \in Programs /\ \A k \in Programs : Join(W, k) = Finish(k)
  <2>1. CASE area = Work
    BY <2>1, WriteRecordProgram, ProgramsTyped
  <2>2. CASE area # Work
    <3>1. area \in Targets
      BY <2>2 DEF Named
    <3> QED BY <2>2, <3>1, WriteRecordProgram, ProgramsTyped
  <2> QED BY <2>1, <2>2
<1>3. RestoreSpare \in Programs /\ Join(RestoreSpare, ToSuccess) = WriteEnds
  BY RestoreProperties, ProgramsTyped DEF WriteEnds
<1>4. Erase(Spare) \in Programs /\ Join(Erase(Spare), ToBooted) = RestartEnds
  BY EraseProperties, AreasProperties DEF RestartEnds
<1>5. /\ WriteEnds \in Programs /\ RestartEnds \in Programs
      /\ ToBooted \in Programs /\ ToSuccess \in Programs
  BY ProgramsTyped
<1> HIDE DEF Finish, W
<1>6. Join(Join(Join(W, RestoreSpare), success), <<>>) = Finish(WriteEnds)
  <2>1. Join(W, RestoreSpare) \in Programs
    BY <1>2, <1>3, JoinProperties
  <2>2. Join(Join(W, RestoreSpare), success) = Join(W, WriteEnds)
    BY <1>1, <1>2, <1>3, JoinProperties
  <2> QED BY <1>1, <1>2, <1>5, <2>1, <2>2, JoinProperties
<1>7. Join(Join(W, Erase(Spare)), ToBooted) = Finish(RestartEnds)
  BY <1>2, <1>4, <1>5, JoinProperties
<1> QED BY <1>6, <1>7 DEF Join, One, W, Finish
-----------------------------------------------------------------------------
(* What the flash holds.                                                   *)
RecordType == [WriteAllocated : BOOLEAN, SpareCompleted : BOOLEAN,
               WriteCompleted : BOOLEAN, target : Targets \cup {Work, None}]
Whole(area) == flash[area].data \in [Blocks -> Data]

\* The records before the last are completed and those behind it were never written.
Recorded(space) ==
  LET i == FtwGetLastRecord(space) IN
  /\ i \in 1..(Slots + 1)
  /\ \A j \in 1..(i - 1) : space.record[j].WriteCompleted
  /\ \A j \in (i + 1)..(Slots + 1) : space.record[j] = EmptyRecord
  /\ ~space.record[i].WriteCompleted
  /\ space.record[Slots + 1] = EmptyRecord
  /\ space.record[i].SpareCompleted => space.record[i].target \in Named

LastRecord(space)  == space.record[FtwGetLastRecord(space)]
NoRecords(space)   == space.record = ErasedSpace.record

Live == flash[Work].space.WorkingBlockValid /\ Recorded(flash[Work].space) /\ Whole(Work)

\* No write is under way, as far as the flash knows.
Settled ==
  /\ Live /\ ~LastRecord(flash[Work].space).SpareCompleted
  /\ \A area \in Targets : Whole(area)

\* The spare block holds what the target of the last record has to become.
Target    == LastRecord(flash[Work].space).target
Committed ==
  /\ Live /\ LastRecord(flash[Work].space).SpareCompleted
  /\ Whole(Spare)
  /\ \A area \in Targets : area # Target => Whole(area)
  /\ Target = Work =>
       [flash[Spare].space.record EXCEPT
          ![FtwGetLastRecord(flash[Work].space)].SpareCompleted = TRUE]
         = flash[Work].space.record

\* The spare block is a copy of the working block, which may be erased or not marked.
SpareIsCopy ==
  /\ Whole(Spare) /\ Recorded(flash[Spare].space)
  /\ FtwGetLastRecord(flash[Spare].space) <= Slots
  /\ LastRecord(flash[Spare].space).SpareCompleted => LastRecord(flash[Spare].space).target = Work
  /\ \A area \in Targets : Whole(area)

FromSpare ==
  /\ ~flash[Work].space.WorkingBlockValid /\ flash[Spare].space.WorkingBlockValid
  /\ SpareIsCopy
  /\ NoRecords(flash[Work].space) \/ flash[Work].space.record = flash[Spare].space.record

\* A board that was never booted.
Fresh ==
  /\ ~flash[Work].space.WorkingBlockValid /\ ~flash[Spare].space.WorkingBlockValid
  /\ NoRecords(flash[Work].space)
  /\ \A area \in Named : Whole(area)

FlashInv == Settled \/ Committed \/ FromSpare \/ Fresh
-----------------------------------------------------------------------------
(* What the processor knows, by the operation it does next.                *)
Serving == call \in [area : Named, block : Blocks, value : Data]

\* The copy of the work space in memory agrees with the flash.
Synced ==
  /\ FtwWorkSpace.record = flash[Work].space.record
  /\ FtwWorkSpace.WorkingBlockValid = flash[Work].space.WorkingBlockValid
  /\ FtwLastRecord = FtwGetLastRecord(flash[Work].space)

\* What goes on after the work space was refreshed.
Caller(k) ==
  \/ k = ToAllocate /\ Serving
  \/ k \in {ToCheck, ToAbort} /\ call = None

\* A reclaim that has cleaned the work space in memory.
Cleaned ==
  /\ Settled
  /\ NoRecords(FtwWorkSpace) /\ FtwWorkSpace.WorkingBlockValid /\ FtwLastRecord = 1
  /\ MyBuffer.data = flash[Work].data /\ NoRecords(MyBuffer.space)

\* A flush ends in a reclaim, a boot that takes the copy, a write or a restart.
FlushEnds(k) ==
  \/ /\ \E c \in {ToAllocate, ToCheck, ToAbort} : k = Restoring(c) /\ Caller(c)
     /\ FtwLastRecord = FtwGetLastRecord(FtwWorkSpace) /\ ~Record.SpareCompleted
  \/ /\ k = AbortSpare /\ call = None
     /\ FtwLastRecord = FtwGetLastRecord(FtwWorkSpace) \/ Record.WriteCompleted
  \/ /\ k = Complete(WriteEnds) /\ Serving /\ call.area = Work
     /\ flash[Spare].data[call.block] = call.value
     /\ FtwLastRecord = FtwGetLastRecord(FtwWorkSpace) /\ Record.SpareCompleted
  \/ /\ k = Complete(RestartEnds) /\ call = None
     /\ FtwLastRecord = FtwGetLastRecord(FtwWorkSpace) /\ Record.SpareCompleted

FlushInv(k) ==
  /\ SpareIsCopy /\ FtwWorkSpace.record = flash[Spare].space.record
  /\ \/ Settled /\ flash[Work].data = flash[Spare].data
     \/ Committed /\ Target = Work
     \/ FromSpare
  /\ FlushEnds(k)

\* The copy in the spare block is marked, and read.
FlushMarked(k) ==
  /\ FlushInv(k)
  /\ flash[Spare].space.WorkingBlockValid /\ ~MyBuffer.space.WorkingBlockValid
  /\ MyBuffer.data = flash[Spare].data /\ MyBuffer.space.record = flash[Spare].space.record

Ends ==
  {Restoring(ToAllocate), Restoring(ToCheck), Restoring(ToAbort), AbortSpare,
   Complete(WriteEnds), Complete(RestartEnds)}

\* A write up to the moment when the record says that the spare block is filled.
Writing ==
  /\ Settled /\ Synced /\ Serving /\ FtwLastRecord <= Slots

Buffered ==
  /\ Writing /\ Record.target = call.area
  /\ MyBuffer.data = [flash[call.area].data EXCEPT ![call.block] = call.value]
  /\ call.area = Work => MyBuffer.space.record = flash[Work].space.record

\* The end of a write or of a restart.
Finishing(k) ==
  \/ k = WriteEnds /\ Serving /\ call.area = Target
     /\ flash[Spare].data[call.block] = call.value
  \/ k = RestartEnds /\ call = None

Replacing(k) == Committed /\ Synced /\ Finishing(k)

\* The spare block is given back what it held.
RestoringAt(k) ==
  /\ Settled
  /\ \/ Caller(k) /\ Synced /\ FtwLastRecord <= Slots
     \/ /\ k = ToSuccess /\ Serving
        /\ flash[call.area].data[call.block] = call.value

Freed == Settled /\ Synced /\ call = None /\ ~Record.WriteAllocated

RefreshAt(rest) ==
  \/ rest = ToAllocate /\ Serving /\ Settled
  \/ rest = ToCheck /\ call = None
  \/ rest = ToAbort /\ call = None /\ (Settled \/ Committed)
CleanupAt(rest) ==
  \E k \in {ToAllocate, ToCheck, ToAbort} :
    /\ rest = ThenAt("Erase", Spare, FillReclaim(k)) /\ Caller(k)
    /\ Settled /\ Synced /\ FtwLastRecord = Slots + 1
EraseAt(area, rest) ==
  \/ \E k \in {ToAllocate, ToCheck, ToAbort} :
       area = Spare /\ rest = FillReclaim(k) /\ Caller(k) /\ Cleaned
  \/ area = Spare /\ rest = ToFillSpare /\ Buffered
  \/ \E k \in {ToAllocate, ToCheck, ToAbort, ToSuccess} :
       area = Spare /\ rest = ThenAt("Restore", Spare, k) /\ RestoringAt(k)
  \/ area = Spare /\ rest \in {ToBooted, ToRestart} /\ Freed
  \/ area = Spare /\ rest = ToRefresh /\ Settled /\ call = None
  \/ \E k \in Ends : area = Work /\ rest = FillWork(k) /\ FlushMarked(k)
  \/ \E k \in {WriteEnds, RestartEnds} :
       /\ area \in Targets /\ rest = FillTarget(area, k)
       /\ Replacing(k) /\ area = Target /\ MyBuffer.data = flash[Spare].data
ProgramAt(area, rest) ==
  \/ \E k \in {ToAllocate, ToCheck, ToAbort} :
       area = Spare /\ rest = Flush(Restoring(k)) /\ Caller(k) /\ Cleaned
  \/ area = Spare /\ rest = ToSpareCompleted /\ Buffered
  \/ \E k \in Ends :
       area = Work /\ rest = MarkWork(k) /\ FlushMarked(k) /\ FromSpare
  \/ \E k \in {WriteEnds, RestartEnds} :
       /\ area \in Targets /\ rest = Complete(k)
       /\ Replacing(k) /\ area = Target /\ MyBuffer.data = flash[Spare].data
RestoreAt(area, rest) ==
  \E k \in {ToAllocate, ToCheck, ToAbort, ToSuccess} :
    area = Spare /\ rest = k /\ RestoringAt(k)
SpareValidAt(rest) ==
  \E k \in Ends : rest = Then("WorkInvalid", ReplaceWork(k)) /\ FlushInv(k)
WorkInvalidAt(rest) == \E k \in Ends : rest = ReplaceWork(k) /\ FlushMarked(k)
WorkValidAt(rest) ==
  \E k \in Ends :
    /\ rest = k /\ FlushMarked(k) /\ FromSpare
    /\ flash[Work].data = flash[Spare].data
    /\ flash[Work].space.record = flash[Spare].space.record
ReadSpareAt(rest) ==
  \E k \in {WriteEnds, RestartEnds}, area \in Targets :
    /\ rest = ThenAt("Erase", area, FillTarget(area, k))
    /\ Replacing(k) /\ area = Target
SpareRecordAt(rest) ==
  \E k \in {WriteEnds, RestartEnds} :
    rest = Flush(Complete(k)) /\ Replacing(k) /\ Target = Work
WriteCompletedAt(rest) ==
  /\ rest \in {WriteEnds, RestartEnds} /\ Replacing(rest)
  /\ flash[Target].data = flash[Spare].data
AllocateAt(rest)    == rest = ToWriteRecord /\ Writing
WriteRecordAt(rest) == rest = ToReadTarget /\ Writing
ReadTargetAt(rest)  == rest = ToEraseSpare /\ Writing /\ Record.target = call.area
SpareCompletedAt(rest) ==
  /\ rest = <<>> /\ Buffered
  /\ flash[Spare].data = MyBuffer.data
  /\ flash[Spare].space.record = MyBuffer.space.record
SuccessAt(rest) ==
  /\ rest = <<>> /\ Settled /\ Serving
  /\ flash[call.area].data[call.block] = call.value
CheckSpaceAt(rest) == rest = ToAbort /\ call = None /\ Synced /\ FtwLastRecord <= Slots
CheckAbortAt(rest) ==
  /\ rest = ToRestart /\ call = None /\ Synced /\ FtwLastRecord <= Slots
  /\ Settled \/ Committed
AbortAt(rest) ==
  \/ rest = ToRestart /\ call = None /\ Synced /\ FtwLastRecord <= Slots /\ Settled
  \/ /\ rest = ToRefresh /\ call = None
     /\ Settled \/ (Committed /\ Target = Work /\ flash[Work].data = flash[Spare].data)
     /\ FtwWorkSpace.record = flash[Work].space.record /\ FtwGetLastRecord(FtwWorkSpace) <= Slots
     /\ FtwLastRecord = FtwGetLastRecord(FtwWorkSpace) \/ Record.WriteCompleted
CheckRestartAt(rest) ==
  /\ rest = ToBooted /\ call = None /\ Synced
  /\ Settled \/ Committed
  /\ Record.WriteAllocated => Record.SpareCompleted
BootedAt(rest) == rest = <<>> /\ Freed

\* The operation s is next, and rest comes after it.
Ready(s, rest) ==
  /\ s.op = "Refresh" => RefreshAt(rest)
  /\ s.op = "Cleanup" => CleanupAt(rest)
  /\ s.op = "Erase" => s.block = 1 /\ EraseAt(s.area, rest)
  /\ s.op = "Program" => s.block = 1 /\ ProgramAt(s.area, rest)
  /\ s.op = "Restore" => s.block = 1 /\ RestoreAt(s.area, rest)
  /\ s.op = "SpareValid" => SpareValidAt(rest)
  /\ s.op = "WorkInvalid" => WorkInvalidAt(rest)
  /\ s.op = "WorkValid" => WorkValidAt(rest)
  /\ s.op = "ReadSpare" => ReadSpareAt(rest)
  /\ s.op = "SpareRecord" => SpareRecordAt(rest)
  /\ s.op = "WriteCompleted" => WriteCompletedAt(rest)
  /\ s.op = "Allocate" => AllocateAt(rest)
  /\ s.op = "WriteRecord" => WriteRecordAt(rest)
  /\ s.op = "ReadTarget" => ReadTargetAt(rest)
  /\ s.op = "SpareCompleted" => SpareCompletedAt(rest)
  /\ s.op = "Success" => SuccessAt(rest)
  /\ s.op = "CheckSpace" => CheckSpaceAt(rest)
  /\ s.op = "CheckAbort" => CheckAbortAt(rest)
  /\ s.op = "Abort" => AbortAt(rest)
  /\ s.op = "CheckRestart" => CheckRestartAt(rest)
  /\ s.op = "Booted" => BootedAt(rest)

ControlInv ==
  IF todo = <<>> THEN call = None /\ Settled ELSE Ready(Head(todo), Tail(todo))

MemoryInv ==
  /\ flash \in [Areas -> AreaType]
  /\ FtwWorkSpace \in SpaceType /\ FtwLastRecord \in 1..(Slots + 1)
  /\ MyBuffer \in AreaType /\ SpareBuffer \in AreaType
  /\ todo \in Seq(StepType)
  /\ call \in {None} \cup [area : Named, block : Blocks, value : Data]

\* What is recovered may be there, and so may what is being written.
HistoryInv ==
  /\ available \in [Named -> SUBSET [Blocks -> Data]]
  /\ \A area \in Named : Recoverable(area) \in available[area]
  /\ Serving => \A old \in available[call.area] :
                  [old EXCEPT ![call.block] = call.value] \in available[call.area]

Inv == MemoryInv /\ FlashInv /\ ControlInv
-----------------------------------------------------------------------------
(* Control: what holds before an operation, and how to show it of the next. *)

LEMMA ReadyBefore ==
  ASSUME Inv, todo # <<>>
  PROVE  /\ Tail(todo) \in Programs
         /\ At("Refresh") => RefreshAt(Tail(todo))
         /\ At("Cleanup") => CleanupAt(Tail(todo))
         /\ At("SpareValid") => SpareValidAt(Tail(todo))
         /\ At("WorkInvalid") => WorkInvalidAt(Tail(todo))
         /\ At("WorkValid") => WorkValidAt(Tail(todo))
         /\ At("ReadSpare") => ReadSpareAt(Tail(todo))
         /\ At("SpareRecord") => SpareRecordAt(Tail(todo))
         /\ At("WriteCompleted") => WriteCompletedAt(Tail(todo))
         /\ At("Allocate") => AllocateAt(Tail(todo))
         /\ At("WriteRecord") => WriteRecordAt(Tail(todo))
         /\ At("ReadTarget") => ReadTargetAt(Tail(todo))
         /\ At("SpareCompleted") => SpareCompletedAt(Tail(todo))
         /\ At("Success") => SuccessAt(Tail(todo))
         /\ At("CheckSpace") => CheckSpaceAt(Tail(todo))
         /\ At("CheckAbort") => CheckAbortAt(Tail(todo))
         /\ At("Abort") => AbortAt(Tail(todo))
         /\ At("CheckRestart") => CheckRestartAt(Tail(todo))
         /\ At("Booted") => BootedAt(Tail(todo))
         /\ At("Erase") => Head(todo).block = 1 /\ EraseAt(Head(todo).area, Tail(todo))
         /\ At("Program") => Head(todo).block = 1 /\ ProgramAt(Head(todo).area, Tail(todo))
         /\ At("Restore") => Head(todo).block = 1 /\ RestoreAt(Head(todo).area, Tail(todo))
<1>1. Tail(todo) \in Programs
  BY DEF Inv, MemoryInv, Programs
<1>2. Ready(Head(todo), Tail(todo))
  BY DEF Inv, ControlInv
<1> QED BY <1>1, <1>2 DEF Ready, At

LEMMA ReadyAfter ==
  ASSUME OneBlock, NEW rest \in Programs
  PROVE  /\ \A op \in Operations : todo' = Then(op, rest) => todo' \in Programs
         /\ todo' = Then("Refresh", rest) /\ RefreshAt(rest)' => ControlInv'
         /\ todo' = Then("Cleanup", rest) /\ CleanupAt(rest)' => ControlInv'
         /\ todo' = Then("SpareValid", rest) /\ SpareValidAt(rest)' => ControlInv'
         /\ todo' = Then("WorkInvalid", rest) /\ WorkInvalidAt(rest)' => ControlInv'
         /\ todo' = Then("WorkValid", rest) /\ WorkValidAt(rest)' => ControlInv'
         /\ todo' = Then("ReadSpare", rest) /\ ReadSpareAt(rest)' => ControlInv'
         /\ todo' = Then("SpareRecord", rest) /\ SpareRecordAt(rest)' => ControlInv'
         /\ todo' = Then("WriteCompleted", rest) /\ WriteCompletedAt(rest)' => ControlInv'
         /\ todo' = Then("Allocate", rest) /\ AllocateAt(rest)' => ControlInv'
         /\ todo' = Then("WriteRecord", rest) /\ WriteRecordAt(rest)' => ControlInv'
         /\ todo' = Then("ReadTarget", rest) /\ ReadTargetAt(rest)' => ControlInv'
         /\ todo' = Then("SpareCompleted", rest) /\ SpareCompletedAt(rest)' => ControlInv'
         /\ todo' = Then("Success", rest) /\ SuccessAt(rest)' => ControlInv'
         /\ todo' = Then("CheckSpace", rest) /\ CheckSpaceAt(rest)' => ControlInv'
         /\ todo' = Then("CheckAbort", rest) /\ CheckAbortAt(rest)' => ControlInv'
         /\ todo' = Then("Abort", rest) /\ AbortAt(rest)' => ControlInv'
         /\ todo' = Then("CheckRestart", rest) /\ CheckRestartAt(rest)' => ControlInv'
         /\ todo' = Then("Booted", rest) /\ BootedAt(rest)' => ControlInv'
<1>1. \A op \in Operations :
        /\ Then(op, rest) \in Programs /\ Then(op, rest) # <<>>
        /\ Head(Then(op, rest)) = Step(op) /\ Tail(Then(op, rest)) = rest
  BY ThenProperties
<1>2. \A op \in Operations : todo' = Then(op, rest) => todo' \in Programs
  BY <1>1
<1>3. ASSUME NEW op \in Operations, todo' = Then(op, rest), Ready(Step(op), rest)'
      PROVE  ControlInv'
  BY <1>1, <1>3 DEF ControlInv
<1>4. \A op : Step(op).op = op
  BY DEF Step
<1>5. ASSUME todo' = Then("Refresh", rest), RefreshAt(rest)' PROVE ControlInv'
  <2>1. Ready(Step("Refresh"), rest)'
    BY <1>4, <1>5 DEF Ready
  <2> QED BY <1>3, <1>5, <2>1 DEF Operations
<1>6. ASSUME todo' = Then("Cleanup", rest), CleanupAt(rest)' PROVE ControlInv'
  <2>1. Ready(Step("Cleanup"), rest)'
    BY <1>4, <1>6 DEF Ready
  <2> QED BY <1>3, <1>6, <2>1 DEF Operations
<1>7. ASSUME todo' = Then("SpareValid", rest), SpareValidAt(rest)' PROVE ControlInv'
  <2>1. Ready(Step("SpareValid"), rest)'
    BY <1>4, <1>7 DEF Ready
  <2> QED BY <1>3, <1>7, <2>1 DEF Operations
<1>8. ASSUME todo' = Then("WorkInvalid", rest), WorkInvalidAt(rest)' PROVE ControlInv'
  <2>1. Ready(Step("WorkInvalid"), rest)'
    BY <1>4, <1>8 DEF Ready
  <2> QED BY <1>3, <1>8, <2>1 DEF Operations
<1>9. ASSUME todo' = Then("WorkValid", rest), WorkValidAt(rest)' PROVE ControlInv'
  <2>1. Ready(Step("WorkValid"), rest)'
    BY <1>4, <1>9 DEF Ready
  <2> QED BY <1>3, <1>9, <2>1 DEF Operations
<1>10. ASSUME todo' = Then("ReadSpare", rest), ReadSpareAt(rest)' PROVE ControlInv'
  <2>1. Ready(Step("ReadSpare"), rest)'
    BY <1>4, <1>10 DEF Ready
  <2> QED BY <1>3, <1>10, <2>1 DEF Operations
<1>11. ASSUME todo' = Then("SpareRecord", rest), SpareRecordAt(rest)' PROVE ControlInv'
  <2>1. Ready(Step("SpareRecord"), rest)'
    BY <1>4, <1>11 DEF Ready
  <2> QED BY <1>3, <1>11, <2>1 DEF Operations
<1>12. ASSUME todo' = Then("WriteCompleted", rest), WriteCompletedAt(rest)' PROVE ControlInv'
  <2>1. Ready(Step("WriteCompleted"), rest)'
    BY <1>4, <1>12 DEF Ready
  <2> QED BY <1>3, <1>12, <2>1 DEF Operations
<1>13. ASSUME todo' = Then("Allocate", rest), AllocateAt(rest)' PROVE ControlInv'
  <2>1. Ready(Step("Allocate"), rest)'
    BY <1>4, <1>13 DEF Ready
  <2> QED BY <1>3, <1>13, <2>1 DEF Operations
<1>14. ASSUME todo' = Then("WriteRecord", rest), WriteRecordAt(rest)' PROVE ControlInv'
  <2>1. Ready(Step("WriteRecord"), rest)'
    BY <1>4, <1>14 DEF Ready
  <2> QED BY <1>3, <1>14, <2>1 DEF Operations
<1>15. ASSUME todo' = Then("ReadTarget", rest), ReadTargetAt(rest)' PROVE ControlInv'
  <2>1. Ready(Step("ReadTarget"), rest)'
    BY <1>4, <1>15 DEF Ready
  <2> QED BY <1>3, <1>15, <2>1 DEF Operations
<1>16. ASSUME todo' = Then("SpareCompleted", rest), SpareCompletedAt(rest)' PROVE ControlInv'
  <2>1. Ready(Step("SpareCompleted"), rest)'
    BY <1>4, <1>16 DEF Ready
  <2> QED BY <1>3, <1>16, <2>1 DEF Operations
<1>17. ASSUME todo' = Then("Success", rest), SuccessAt(rest)' PROVE ControlInv'
  <2>1. Ready(Step("Success"), rest)'
    BY <1>4, <1>17 DEF Ready
  <2> QED BY <1>3, <1>17, <2>1 DEF Operations
<1>18. ASSUME todo' = Then("CheckSpace", rest), CheckSpaceAt(rest)' PROVE ControlInv'
  <2>1. Ready(Step("CheckSpace"), rest)'
    BY <1>4, <1>18 DEF Ready
  <2> QED BY <1>3, <1>18, <2>1 DEF Operations
<1>19. ASSUME todo' = Then("CheckAbort", rest), CheckAbortAt(rest)' PROVE ControlInv'
  <2>1. Ready(Step("CheckAbort"), rest)'
    BY <1>4, <1>19 DEF Ready
  <2> QED BY <1>3, <1>19, <2>1 DEF Operations
<1>20. ASSUME todo' = Then("Abort", rest), AbortAt(rest)' PROVE ControlInv'
  <2>1. Ready(Step("Abort"), rest)'
    BY <1>4, <1>20 DEF Ready
  <2> QED BY <1>3, <1>20, <2>1 DEF Operations
<1>21. ASSUME todo' = Then("CheckRestart", rest), CheckRestartAt(rest)' PROVE ControlInv'
  <2>1. Ready(Step("CheckRestart"), rest)'
    BY <1>4, <1>21 DEF Ready
  <2> QED BY <1>3, <1>21, <2>1 DEF Operations
<1>22. ASSUME todo' = Then("Booted", rest), BootedAt(rest)' PROVE ControlInv'
  <2>1. Ready(Step("Booted"), rest)'
    BY <1>4, <1>22 DEF Ready
  <2> QED BY <1>3, <1>22, <2>1 DEF Operations
<1> QED BY <1>2, <1>5, <1>6, <1>7, <1>8, <1>9, <1>10, <1>11, <1>12, <1>13, <1>14, <1>15, <1>16, <1>17, <1>18, <1>19, <1>20, <1>21, <1>22

LEMMA ReadyAfterAt ==
  ASSUME OneBlock, NEW area \in Areas, NEW rest \in Programs
  PROVE  /\ \A op \in {"Erase", "Program", "Restore"} :
              todo' = ThenAt(op, area, rest) => todo' \in Programs
         /\ todo' = ThenAt("Erase", area, rest) /\ EraseAt(area, rest)' => ControlInv'
         /\ todo' = ThenAt("Program", area, rest) /\ ProgramAt(area, rest)' => ControlInv'
         /\ todo' = ThenAt("Restore", area, rest) /\ RestoreAt(area, rest)' => ControlInv'
<1> DEFINE On1(op) == [op |-> op, area |-> area, block |-> 1]
<1>1. \A op \in {"Erase", "Program", "Restore"} :
        /\ ThenAt(op, area, rest) \in Programs /\ ThenAt(op, area, rest) # <<>>
        /\ Head(ThenAt(op, area, rest)) = On1(op) /\ Tail(ThenAt(op, area, rest)) = rest
  BY ThenAtProperties DEF Operations
<1>2. ASSUME NEW op \in {"Erase", "Program", "Restore"}, todo' = ThenAt(op, area, rest),
             Ready(On1(op), rest)'
      PROVE  ControlInv'
  BY <1>1, <1>2 DEF ControlInv
<1>3. \A op : On1(op).op = op /\ On1(op).area = area /\ On1(op).block = 1
  OBVIOUS
<1> HIDE DEF On1
<1>4. ASSUME todo' = ThenAt("Erase", area, rest), EraseAt(area, rest)' PROVE ControlInv'
  <2>1. Ready(On1("Erase"), rest)'
    BY <1>3, <1>4 DEF Ready
  <2> QED BY <1>2, <1>4, <2>1
<1>5. ASSUME todo' = ThenAt("Program", area, rest), ProgramAt(area, rest)' PROVE ControlInv'
  <2>1. Ready(On1("Program"), rest)'
    BY <1>3, <1>5 DEF Ready
  <2> QED BY <1>2, <1>5, <2>1
<1>6. ASSUME todo' = ThenAt("Restore", area, rest), RestoreAt(area, rest)' PROVE ControlInv'
  <2>1. Ready(On1("Restore"), rest)'
    BY <1>3, <1>6 DEF Ready
  <2> QED BY <1>2, <1>6, <2>1
<1> QED BY <1>1, <1>4, <1>5, <1>6

-----------------------------------------------------------------------------
(* Records.                                                                *)

LEMMA SlotsProperties == Slots \in Nat /\ Slots >= 1 /\ 1 \in 1..(Slots + 1)
BY SizeAssumption

LEMMA LastRecordIs ==
  ASSUME NEW space, NEW i \in 1..(Slots + 1), ~space.record[i].WriteCompleted,
         \A j \in 1..(i - 1) : space.record[j].WriteCompleted
  PROVE  FtwGetLastRecord(space) = i
<1> DEFINE P(k) == /\ ~space.record[k].WriteCompleted
                   /\ \A j \in 1..(k - 1) : space.record[j].WriteCompleted
<1>1. \A k \in 1..(Slots + 1) : P(k) => k = i
  <2> SUFFICES ASSUME NEW k \in 1..(Slots + 1), P(k), k # i PROVE FALSE
    OBVIOUS
  <2>1. k \in 1..(i - 1) \/ i \in 1..(k - 1)
    BY SlotsProperties
  <2> QED BY <2>1
<1>2. (CHOOSE k \in 1..(Slots + 1) : P(k)) \in 1..(Slots + 1)
      /\ P(CHOOSE k \in 1..(Slots + 1) : P(k))
  <2>1. \E k \in 1..(Slots + 1) : P(k)
    OBVIOUS
  <2> HIDE DEF P
  <2> QED BY <2>1
<1> QED BY <1>1, <1>2 DEF FtwGetLastRecord

LEMMA RecordsEqual ==
  ASSUME NEW a, NEW b, Recorded(a), b.record = a.record
  PROVE  Recorded(b) /\ FtwGetLastRecord(b) = FtwGetLastRecord(a) /\ LastRecord(b) = LastRecord(a)
<1>1. FtwGetLastRecord(b) = FtwGetLastRecord(a)
  BY LastRecordIs DEF Recorded
<1> QED BY <1>1 DEF Recorded, LastRecord

LEMMA NoRecordsLast ==
  ASSUME NEW space, NoRecords(space)
  PROVE  /\ Recorded(space) /\ FtwGetLastRecord(space) = 1 /\ LastRecord(space) = EmptyRecord
         /\ space.record \in [1..(Slots + 1) -> {EmptyRecord}]
<1>1. \A i \in 1..(Slots + 1) : space.record[i] = EmptyRecord
  BY DEF NoRecords, ErasedSpace
<1>2. space.record \in [1..(Slots + 1) -> {EmptyRecord}]
  BY DEF NoRecords, ErasedSpace
<1>3. ~EmptyRecord.WriteCompleted /\ ~EmptyRecord.SpareCompleted
  BY DEF EmptyRecord
<1>4. FtwGetLastRecord(space) = 1
  <2>1. 1 \in 1..(Slots + 1) /\ (1..(1 - 1) = {})
    BY SlotsProperties
  <2> QED BY <1>1, <1>3, <2>1, LastRecordIs
<1>5. Slots + 1 \in 1..(Slots + 1) /\ 1 \in 1..(Slots + 1)
  BY SlotsProperties
<1> QED BY <1>1, <1>2, <1>3, <1>4, <1>5 DEF Recorded, LastRecord

LEMMA RecordedRange ==
  ASSUME NEW space, Recorded(space)
  PROVE  /\ FtwGetLastRecord(space) \in 1..(Slots + 1)
         /\ LastRecord(space).SpareCompleted \/ LastRecord(space).WriteAllocated
              => FtwGetLastRecord(space) <= Slots
         /\ ~LastRecord(space).WriteCompleted
         /\ LastRecord(space).SpareCompleted => LastRecord(space).target \in Named
         /\ FtwGetLastRecord(space) = Slots + 1 => LastRecord(space) = EmptyRecord
<1>1. ~EmptyRecord.SpareCompleted /\ ~EmptyRecord.WriteAllocated
  BY DEF EmptyRecord
<1> QED BY <1>1, SlotsProperties DEF Recorded, LastRecord

\* A record in use is changed.
LEMMA RecordUpdated ==
  ASSUME NEW space \in SpaceType, Recorded(space), FtwGetLastRecord(space) <= Slots,
         NEW r, ~r.WriteCompleted, r.SpareCompleted => r.target \in Named,
         NEW new, new.record = [space.record EXCEPT ![FtwGetLastRecord(space)] = r]
  PROVE  /\ Recorded(new) /\ FtwGetLastRecord(new) = FtwGetLastRecord(space)
         /\ LastRecord(new) = r
<1> DEFINE i == FtwGetLastRecord(space)
<1>1. i \in 1..Slots /\ i \in 1..(Slots + 1)
  BY SlotsProperties DEF Recorded
<1>2. \A j \in 1..(Slots + 1) : new.record[j] = IF j = i THEN r ELSE space.record[j]
  BY DEF SpaceType
<1>3. \A j \in 1..(i - 1) : j \in 1..(Slots + 1) /\ new.record[j].WriteCompleted
  BY <1>1, <1>2, SlotsProperties DEF Recorded
<1>4. FtwGetLastRecord(new) = i
  BY <1>1, <1>2, <1>3, LastRecordIs
<1>5. \A j \in (i + 1)..(Slots + 1) : j \in 1..(Slots + 1) /\ new.record[j] = EmptyRecord
  BY <1>1, <1>2, SlotsProperties DEF Recorded
<1>6. Slots + 1 \in 1..(Slots + 1) /\ Slots + 1 # i
  BY <1>1, SlotsProperties
<1> QED BY <1>1, <1>2, <1>3, <1>4, <1>5, <1>6 DEF Recorded, LastRecord

\* A record is completed.
LEMMA RecordCompleted ==
  ASSUME NEW space \in SpaceType, Recorded(space), FtwGetLastRecord(space) <= Slots,
         NEW r, r.WriteCompleted,
         NEW new, new.record = [space.record EXCEPT ![FtwGetLastRecord(space)] = r]
  PROVE  /\ Recorded(new) /\ FtwGetLastRecord(new) = FtwGetLastRecord(space) + 1
         /\ LastRecord(new) = EmptyRecord
<1> DEFINE i == FtwGetLastRecord(space)
<1>1. i \in 1..Slots /\ i \in 1..(Slots + 1) /\ i + 1 \in 1..(Slots + 1)
  BY SlotsProperties DEF Recorded
<1>2. \A j \in 1..(Slots + 1) : new.record[j] = IF j = i THEN r ELSE space.record[j]
  BY DEF SpaceType
<1>3. \A j \in 1..((i + 1) - 1) : j \in 1..(Slots + 1) /\ new.record[j].WriteCompleted
  BY <1>1, <1>2, SlotsProperties DEF Recorded
<1>4. \A j \in (i + 1)..(Slots + 1) : j \in 1..(Slots + 1) /\ new.record[j] = EmptyRecord
  BY <1>1, <1>2, SlotsProperties DEF Recorded
<1>5. ~EmptyRecord.WriteCompleted /\ ~EmptyRecord.SpareCompleted
  BY DEF EmptyRecord
<1>6. i + 1 \in (i + 1)..(Slots + 1) /\ Slots + 1 \in (i + 1)..(Slots + 1)
  BY <1>1, SlotsProperties
<1>7. FtwGetLastRecord(new) = i + 1
  <2> DEFINE k == i + 1
  <2>1. k \in 1..(Slots + 1) /\ ~new.record[k].WriteCompleted
    BY <1>1, <1>4, <1>5, <1>6
  <2>2. \A j \in 1..(k - 1) : new.record[j].WriteCompleted
    BY <1>3
  <2> HIDE DEF k
  <2>3. FtwGetLastRecord(new) = k
    BY <2>1, <2>2, LastRecordIs
  <2> QED BY <2>3 DEF k
<1>8. \A j \in (i + 2)..(Slots + 1) : j \in (i + 1)..(Slots + 1)
  BY <1>1, SlotsProperties
<1>9. (i + 1) + 1 = i + 2
  BY <1>1
<1> QED BY <1>1, <1>3, <1>4, <1>5, <1>6, <1>7, <1>8, <1>9 DEF Recorded, LastRecord

-----------------------------------------------------------------------------
(* What is recovered.                                                      *)
RecoverableCases ==
  /\ Settled \/ Fresh => \A area \in Named : Recoverable(area) = flash[area].data
  /\ Committed => \A area \in Named :
       Recoverable(area) = flash[IF area = Target THEN Spare ELSE area].data
  /\ FromSpare => \A area \in Named :
       Recoverable(area) = flash[IF area = Work THEN Spare ELSE area].data

LEMMA RecoverableNow == RecoverableCases
<1>1. Settled => \A area \in Named : Recoverable(area) = flash[area].data
  BY DEF Settled, Live, Recoverable, LastRecord, IsValidWorkSpace
<1>2. Fresh => \A area \in Named : Recoverable(area) = flash[area].data
  <2> SUFFICES ASSUME Fresh, NEW area \in Named PROVE Recoverable(area) = flash[area].data
    OBVIOUS
  <2>1. LastRecord(flash[Work].space) = EmptyRecord
    BY NoRecordsLast DEF Fresh
  <2>2. ~EmptyRecord.SpareCompleted
    BY DEF EmptyRecord
  <2> QED BY <2>1, <2>2 DEF Fresh, Recoverable, LastRecord, IsValidWorkSpace
<1>3. Committed => \A area \in Named :
        Recoverable(area) = flash[IF area = Target THEN Spare ELSE area].data
  BY DEF Committed, Live, Recoverable, LastRecord, Target, IsValidWorkSpace
<1>4. FromSpare => \A area \in Named :
        Recoverable(area) = flash[IF area = Work THEN Spare ELSE area].data
  BY DEF FromSpare, Recoverable, IsValidWorkSpace
<1> QED BY <1>1, <1>2, <1>3, <1>4 DEF RecoverableCases

LEMMA RecoverableNext == RecoverableCases'
BY RecoverableNow, PTL

Kept == \A area \in Named : Recoverable(area)' = Recoverable(area)

LEMMA AreasApart == /\ Work # Spare /\ Work \notin Targets /\ Spare \notin Targets
                    /\ Spare \notin Named /\ None \notin Named
BY NameAssumption DEF Named

LEMMA WholeProperties == MemoryInv => \A area \in Areas : flash[area] \in AreaType
BY DEF MemoryInv

\* Erasing or programming the block of an area replaces the area.
LEMMA BlockIsArea ==
  ASSUME OneBlock, NEW a \in AreaType, NEW b \in AreaType
  PROVE  WithBlock(a, b, 1) = b
<1>1. a.data \in [1..1 -> Data \cup {Erased}] /\ b.data \in [1..1 -> Data \cup {Erased}]
  BY DEF AreaType, Contents, OneBlock, Blocks
<1>2. [a.data EXCEPT ![1] = b.data[1]] = b.data
  <2> DEFINE c == [a.data EXCEPT ![1] = b.data[1]]
  <2>1. c \in [1..1 -> Data \cup {Erased}] /\ \A i \in 1..1 : c[i] = b.data[i]
    BY <1>1
  <2> QED BY <1>1, <2>1
<1>3. b = [data |-> b.data, space |-> b.space]
  BY DEF AreaType
<1> QED BY <1>2, <1>3 DEF WithBlock, OneBlock

LEMMA ErasedTyped ==
  /\ EmptyRecord \in RecordType /\ ErasedSpace \in SpaceType /\ ErasedArea \in AreaType
  /\ NoRecords(ErasedSpace) /\ ErasedArea.space = ErasedSpace
  /\ ~ErasedSpace.WorkingBlockValid
  /\ ~EmptyRecord.WriteAllocated /\ ~EmptyRecord.SpareCompleted /\ ~EmptyRecord.WriteCompleted
<1>1. EmptyRecord \in RecordType
  BY DEF EmptyRecord, RecordType
<1>2. ErasedSpace \in SpaceType
  BY <1>1 DEF ErasedSpace, SpaceType, RecordType
<1>3. ErasedArea \in AreaType
  BY <1>2 DEF ErasedArea, AreaType, Contents
<1> QED BY <1>1, <1>2, <1>3 DEF NoRecords, ErasedArea, ErasedSpace, EmptyRecord

LEMMA InvariantInitially == ASSUME OneBlock, Init PROVE Inv
<1>1. ErasedSpace \in SpaceType /\ ErasedArea \in AreaType
  BY ErasedTyped
<1>2. flash \in [Areas -> AreaType]
  BY <1>1 DEF Init, AreaType, Contents
<1>3. BootSteps = Then("Refresh", ToCheck) /\ BootSteps \in Programs
  BY BootProgram, ProgramsTyped, ThenProperties DEF Operations
<1>4. MemoryInv
  <2>1. 1 \in 1..(Slots + 1)
    BY SlotsProperties
  <2> QED BY <1>1, <1>2, <1>3, <2>1 DEF Init, MemoryInv, Programs
<1>5. Fresh
  <2>1. \A area \in Areas : flash[area].space = ErasedSpace
    BY ErasedTyped DEF Init
  <2>2. ASSUME NEW area \in Named PROVE Whole(area)
    <3>1. area \in Areas /\ area # Spare
      BY AreasProperties, AreasApart
    <3> QED BY <3>1 DEF Init, Whole
  <2> QED BY <2>1, <2>2, ErasedTyped, AreasProperties DEF Fresh
<1>6. ControlInv
  <2>1. todo # <<>> /\ Head(todo) = Step("Refresh") /\ Tail(todo) = ToCheck
    BY <1>3, ThenProperties, ProgramsTyped DEF Init, Operations
  <2>2. RefreshAt(ToCheck)
    BY DEF RefreshAt, Init
  <2>3. Step("Refresh").op = "Refresh"
    BY DEF Step
  <2>4. Ready(Step("Refresh"), ToCheck)
    BY <2>2, <2>3 DEF Ready
  <2> QED BY <2>1, <2>4 DEF ControlInv
<1> QED BY <1>4, <1>5, <1>6 DEF Inv, FlashInv

-----------------------------------------------------------------------------
(* What the changes of the flash leave.                                    *)

LEMMA FlashStays ==
  ASSUME flash' = flash
  PROVE  /\ Settled' <=> Settled
         /\ Committed' <=> Committed
         /\ FromSpare' <=> FromSpare
         /\ Fresh' <=> Fresh
         /\ SpareIsCopy' <=> SpareIsCopy
         /\ Target' = Target /\ Kept
<1>1. /\ Settled' <=> Settled
      /\ Committed' <=> Committed
  BY DEF Settled, Committed, Live, Whole, Target
<1>2. SpareIsCopy' <=> SpareIsCopy
  BY DEF SpareIsCopy, Whole
<1>3. /\ FromSpare' <=> FromSpare
      /\ Fresh' <=> Fresh
  BY <1>2 DEF FromSpare, Fresh, Whole
<1>4. Target' = Target /\ Kept
  BY DEF Target, Kept, Recoverable
<1> QED BY <1>1, <1>2, <1>3, <1>4

LEMMA SetSpaceProperties ==
  ASSUME MemoryInv, NEW area \in Areas, NEW space \in SpaceType,
         flash' = [flash EXCEPT ![area].space = space]
  PROVE  /\ flash' \in [Areas -> AreaType]
         /\ flash'[area].data = flash[area].data /\ flash'[area].space = space
         /\ \A b \in Areas : b # area => flash'[b] = flash[b]
<1>1. flash[area] \in AreaType /\ flash \in [Areas -> AreaType]
  BY DEF MemoryInv
<1> DEFINE new == [flash[area] EXCEPT !.space = space]
<1>2. new \in AreaType /\ new.data = flash[area].data /\ new.space = space
  BY <1>1 DEF AreaType
<1>3. flash' = [flash EXCEPT ![area] = new]
  OBVIOUS
<1> HIDE DEF new
<1> QED BY <1>1, <1>2, <1>3

LEMMA SetAreaProperties ==
  ASSUME MemoryInv, NEW area \in Areas, NEW new \in AreaType,
         flash' = [flash EXCEPT ![area] = new]
  PROVE  /\ flash' \in [Areas -> AreaType] /\ flash'[area] = new
         /\ \A b \in Areas : b # area => flash'[b] = flash[b]
BY DEF MemoryInv

LEMMA EraseStep ==
  ASSUME OneBlock, MemoryInv, EraseBlock, Head(todo).block = 1, Head(todo).area \in Areas
  PROVE  /\ flash' \in [Areas -> AreaType] /\ flash'[Head(todo).area] = ErasedArea
         /\ \A b \in Areas : b # Head(todo).area => flash'[b] = flash[b]
<1>1. flash' = [flash EXCEPT ![Head(todo).area] = ErasedArea]
  <2>1. flash[Head(todo).area] \in AreaType
    BY DEF MemoryInv
  <2>2. WithBlock(flash[Head(todo).area], ErasedArea, 1) = ErasedArea
    BY <2>1, BlockIsArea, ErasedTyped
  <2> QED BY <2>2 DEF EraseBlock
<1> QED BY <1>1, ErasedTyped DEF MemoryInv

LEMMA ProgramStep ==
  ASSUME OneBlock, MemoryInv, ProgramBlock, Head(todo).block = 1, Head(todo).area \in Areas
  PROVE  /\ flash' \in [Areas -> AreaType]
         /\ At("Program") => flash'[Head(todo).area] = MyBuffer
         /\ \A b \in Areas : b # Head(todo).area => flash'[b] = flash[b]
<1> DEFINE new == IF Head(todo).op = "Program" THEN MyBuffer ELSE SpareBuffer
<1>1. new \in AreaType
  BY DEF MemoryInv
<1>2. flash' = [flash EXCEPT ![Head(todo).area] = new]
  <2>1. flash[Head(todo).area] \in AreaType
    BY DEF MemoryInv
  <2>2. WithBlock(flash[Head(todo).area], new, 1) = new
    BY <1>1, <2>1, BlockIsArea
  <2>3. flash' = [flash EXCEPT ![Head(todo).area] =
                    WithBlock(flash[Head(todo).area], new, Head(todo).block)]
    BY DEF ProgramBlock
  <2> QED BY <2>2, <2>3
<1>3. At("Program") => new = MyBuffer
  BY DEF At
<1> HIDE DEF new
<1> QED BY <1>1, <1>2, <1>3 DEF MemoryInv

\* As long as no write is under way, the spare block holds anything.
LEMMA SpareIsFree ==
  ASSUME Settled, \A area \in Named : flash'[area] = flash[area]
  PROVE  Settled' /\ Kept
<1>1. flash'[Work] = flash[Work] /\ \A area \in Targets : flash'[area] = flash[area]
  BY DEF Named
<1>2. Settled'
  BY <1>1 DEF Settled, Live, Whole
<1>3. \A area \in Named : Recoverable(area) = flash[area].data
  BY RecoverableNow DEF RecoverableCases
<1>4. \A area \in Named : Recoverable(area)' = flash'[area].data
  BY <1>2, RecoverableNext DEF RecoverableCases
<1> QED BY <1>2, <1>3, <1>4 DEF Kept

\* Records that commit nothing.
LEMMA WorkSpaceChanges ==
  ASSUME MemoryInv, Settled, NEW space \in SpaceType,
         flash' = [flash EXCEPT ![Work].space = space],
         space.WorkingBlockValid, Recorded(space), ~LastRecord(space).SpareCompleted
  PROVE  Settled' /\ Kept
<1>1. /\ flash'[Work].data = flash[Work].data /\ flash'[Work].space = space
      /\ \A b \in Areas : b # Work => flash'[b] = flash[b]
  BY SetSpaceProperties, AreasProperties
<1>2. \A area \in Named : flash'[area].data = flash[area].data
  BY <1>1, AreasProperties
<1>3. Settled'
  BY <1>1, <1>2 DEF Settled, Live, Whole, Named
<1>4. \A area \in Named : Recoverable(area) = flash[area].data
  BY RecoverableNow DEF RecoverableCases
<1>5. \A area \in Named : Recoverable(area)' = flash'[area].data
  BY <1>3, RecoverableNext DEF RecoverableCases
<1> QED BY <1>2, <1>3, <1>4, <1>5 DEF Kept

LEMMA WorkRecorded ==
  ASSUME FlashInv
  PROVE  /\ Recorded(flash[Work].space)
         /\ Committed \/ FromSpare \/ Fresh => FtwGetLastRecord(flash[Work].space) <= Slots
         /\ flash[Work].space.WorkingBlockValid <=> Settled \/ Committed
<1>1. CASE Settled \/ Committed
  <2>1. flash[Work].space.WorkingBlockValid /\ Recorded(flash[Work].space)
    BY <1>1 DEF Settled, Committed, Live
  <2>2. Committed => FtwGetLastRecord(flash[Work].space) <= Slots
    BY <2>1, RecordedRange DEF Committed
  <2> QED BY <1>1, <2>1, <2>2 DEF FromSpare, Fresh
<1>2. CASE FromSpare
  <2>1. Recorded(flash[Spare].space) /\ FtwGetLastRecord(flash[Spare].space) <= Slots
    BY <1>2 DEF FromSpare, SpareIsCopy
  <2>2. Recorded(flash[Work].space) /\ FtwGetLastRecord(flash[Work].space) <= Slots
    BY <1>2, <2>1, NoRecordsLast, RecordsEqual, SlotsProperties DEF FromSpare
  <2> QED BY <1>2, <2>2 DEF FromSpare, Settled, Committed, Live
<1>3. CASE Fresh
  <2>1. Recorded(flash[Work].space) /\ FtwGetLastRecord(flash[Work].space) <= Slots
    BY <1>3, NoRecordsLast, SlotsProperties DEF Fresh
  <2> QED BY <1>3, <2>1 DEF Fresh, Settled, Committed, Live
<1> QED BY <1>1, <1>2, <1>3 DEF FlashInv

-----------------------------------------------------------------------------
(* Each step keeps the invariant and, but for one, what is recovered.      *)
Good == MemoryInv' /\ FlashInv' /\ ControlInv' /\ Kept

LEMMA WorkSpaceTyped == MemoryInv => flash[Work].space \in SpaceType /\ flash[Spare].space \in SpaceType
BY AreasProperties DEF MemoryInv, AreaType

LEMMA WorkSpaceRefreshStep == ASSUME OneBlock, Inv, WorkSpaceRefresh PROVE Good
<1> DEFINE rest == Tail(todo)
           last == FtwGetLastRecord(flash[Work].space)
<1>1. rest \in Programs /\ RefreshAt(rest)
  BY ReadyBefore DEF WorkSpaceRefresh, At
<1>2. /\ MemoryInv /\ FlashInv /\ flash' = flash /\ call' = call
      /\ FtwWorkSpace' = flash[Work].space /\ FtwLastRecord' = last
  BY DEF Inv, WorkSpaceRefresh
<1>3. FlashInv' /\ Kept /\ (Settled' <=> Settled) /\ (Committed' <=> Committed)
  BY <1>2, FlashStays DEF FlashInv
<1>4. Recorded(flash[Work].space) /\ last \in 1..(Slots + 1)
  BY <1>2, WorkRecorded, RecordedRange
<1>5. Synced'
  BY <1>2 DEF Synced
<1>6. ASSUME todo' \in Programs PROVE MemoryInv'
  BY <1>2, <1>4, <1>6, WorkSpaceTyped DEF MemoryInv, WorkSpaceRefresh, Programs
<1>7. CASE last > Slots
  <2>1. last = Slots + 1
    BY <1>4, <1>7, SlotsProperties
  <2>2. Settled
    BY <1>2, <1>4, <1>7, WorkRecorded, SlotsProperties DEF FlashInv
  <2>3. PICK k \in {ToAllocate, ToCheck, ToAbort} : rest = k /\ Caller(k)
    BY <1>1 DEF RefreshAt, Caller
  <2>4. k \in Programs /\ ThenAt("Erase", Spare, FillReclaim(k)) \in Programs
    BY ProgramsTyped
  <2>5. todo' = Then("Cleanup", ThenAt("Erase", Spare, FillReclaim(k)))
    BY <1>2, <1>7, <2>3, <2>4, ReclaimProgram DEF WorkSpaceRefresh, Go, Reclaim
  <2>6. Caller(k)'
    BY <1>2, <2>3 DEF Caller, Serving
  <2>7. CleanupAt(ThenAt("Erase", Spare, FillReclaim(k)))'
    BY <1>2, <1>3, <1>5, <2>1, <2>2, <2>6 DEF CleanupAt
  <2>8. todo' \in Programs /\ ControlInv'
    BY <2>4, <2>5, <2>7, ReadyAfter DEF Operations
  <2> QED BY <1>3, <1>6, <2>8 DEF Good
<1>8. CASE ~(last > Slots)
  <2>1. last <= Slots
    BY <1>4, <1>8, SlotsProperties
  <2>2. todo' = rest
    BY <1>1, <1>2, <1>8, JoinProperties DEF WorkSpaceRefresh, Go, Join
  <2>3. CASE rest = ToAllocate /\ Serving /\ Settled
    <3>1. AllocateAt(ToWriteRecord)'
      BY <1>2, <1>3, <1>5, <2>1, <2>3 DEF AllocateAt, Writing, Serving
    <3>2. todo' \in Programs /\ ControlInv'
      BY <2>2, <2>3, <3>1, ProgramsTyped, ReadyAfter DEF Operations, ToAllocate
    <3> QED BY <1>3, <1>6, <3>2 DEF Good
  <2>4. CASE rest = ToCheck /\ call = None
    <3>1. CheckSpaceAt(ToAbort)'
      BY <1>2, <1>5, <2>1, <2>4 DEF CheckSpaceAt
    <3>2. todo' \in Programs /\ ControlInv'
      BY <2>2, <2>4, <3>1, ProgramsTyped, ReadyAfter DEF Operations, ToCheck
    <3> QED BY <1>3, <1>6, <3>2 DEF Good
  <2>5. CASE rest = ToAbort /\ call = None /\ (Settled \/ Committed)
    <3>1. CheckAbortAt(ToRestart)'
      BY <1>2, <1>3, <1>5, <2>1, <2>5 DEF CheckAbortAt
    <3>2. todo' \in Programs /\ ControlInv'
      BY <2>2, <2>5, <3>1, ProgramsTyped, ReadyAfter DEF Operations, ToAbort
    <3> QED BY <1>3, <1>6, <3>2 DEF Good
  <2> QED BY <1>1, <2>3, <2>4, <2>5 DEF RefreshAt
<1> QED BY <1>7, <1>8

LEMMA CleanupStep == ASSUME OneBlock, Inv, Cleanup PROVE Good
<1> DEFINE rest == Tail(todo)
           clean == CleanupWorkSpace(FtwWorkSpace, FtwLastRecord)
<1>1. rest \in Programs /\ CleanupAt(rest) /\ todo' = rest
  BY ReadyBefore, JoinProperties DEF Cleanup, At, Goes, Go, Join
<1>2. PICK k \in {ToAllocate, ToCheck, ToAbort} :
        /\ rest = ThenAt("Erase", Spare, FillReclaim(k)) /\ Caller(k)
        /\ Settled /\ Synced /\ FtwLastRecord = Slots + 1
  BY <1>1 DEF CleanupAt
<1>3. /\ MemoryInv /\ flash' = flash /\ call' = call /\ SpareBuffer' = flash[Spare]
      /\ FtwWorkSpace' = clean /\ FtwLastRecord' = FtwGetLastRecord(clean)
      /\ MyBuffer' = [data  |-> flash[Work].data,
                      space |-> [clean EXCEPT !.WorkingBlockValid = FALSE,
                                              !.WorkingBlockInvalid = FALSE]]
  BY DEF Inv, Cleanup
<1>4. FlashInv' /\ Kept /\ Settled'
  BY <1>2, <1>3, FlashStays DEF FlashInv
<1>5. LastRecord(flash[Work].space) = EmptyRecord /\ FtwWorkSpace.record[FtwLastRecord] = EmptyRecord
  <2>1. FtwGetLastRecord(flash[Work].space) = Slots + 1 /\ Recorded(flash[Work].space)
    BY <1>2 DEF Synced, Settled, Live
  <2> QED BY <1>2, <2>1, RecordedRange DEF Synced, LastRecord
<1>6. clean \in SpaceType /\ NoRecords(clean) /\ clean.WorkingBlockValid = FtwWorkSpace.WorkingBlockValid
  <2>1. clean = [FtwWorkSpace EXCEPT !.record = ErasedSpace.record]
    BY <1>5, ErasedTyped DEF CleanupWorkSpace, ErasedSpace
  <2>2. FtwWorkSpace \in SpaceType /\ ErasedSpace \in SpaceType
    BY <1>3, ErasedTyped DEF MemoryInv
  <2> QED BY <2>1, <2>2 DEF SpaceType, NoRecords
<1>7. clean.WorkingBlockValid
  BY <1>2, <1>6 DEF Synced, Settled, Live
<1>8. FtwGetLastRecord(clean) = 1
  BY <1>6, NoRecordsLast
<1> HIDE DEF clean
<1>9. /\ MyBuffer' \in AreaType /\ MyBuffer'.data = flash[Work].data
      /\ NoRecords(MyBuffer'.space)
  <2>1. flash[Work].data \in Contents
    BY <1>3, AreasProperties DEF MemoryInv, AreaType
  <2> QED BY <1>3, <1>6, <2>1 DEF AreaType, SpaceType, NoRecords
<1>10. MemoryInv'
  <2>1. flash[Spare] \in AreaType /\ 1 \in 1..(Slots + 1)
    BY <1>3, AreasProperties, SlotsProperties DEF MemoryInv
  <2> QED BY <1>1, <1>3, <1>6, <1>8, <1>9, <2>1 DEF MemoryInv, Programs
<1>11. Cleaned'
  BY <1>3, <1>4, <1>6, <1>7, <1>8, <1>9 DEF Cleaned
<1>12. Caller(k)'
  BY <1>2, <1>3 DEF Caller, Serving
<1>13. EraseAt(Spare, FillReclaim(k))'
  BY <1>11, <1>12 DEF EraseAt
<1>14. ControlInv'
  BY <1>1, <1>2, <1>13, ReadyAfterAt, ProgramsTyped, AreasProperties
<1> QED BY <1>4, <1>10, <1>14 DEF Good

\* Steps that change the spare block while no write is under way.
LEMMA OnlySpareChanges ==
  ASSUME Settled, \A area \in Named : flash'[area] = flash[area], UNCHANGED <<memory, call>>
  PROVE  /\ Settled' /\ FlashInv' /\ Kept
         /\ \A k : Caller(k) => Caller(k)'
         /\ \A k : RestoringAt(k) => RestoringAt(k)'
         /\ Buffered => Buffered'
         /\ Cleaned => Cleaned'
         /\ Freed => Freed'
<1>1. Settled' /\ Kept
  BY SpareIsFree
<1>2. flash'[Work] = flash[Work]
  BY DEF Named
<1>3. /\ FtwWorkSpace' = FtwWorkSpace /\ FtwLastRecord' = FtwLastRecord /\ MyBuffer' = MyBuffer
      /\ call' = call
  BY DEF memory
<1>4. (Synced => Synced') /\ Record' = Record /\ (Serving' <=> Serving)
  BY <1>2, <1>3 DEF Synced, Record, Serving
<1>5. \A k : Caller(k) => Caller(k)'
  BY <1>3 DEF Caller, Serving
<1>6. Serving => call.area \in Named /\ flash'[call.area] = flash[call.area]
  BY DEF Serving
<1>7. ASSUME NEW k, RestoringAt(k) PROVE RestoringAt(k)'
  BY <1>1, <1>3, <1>4, <1>5, <1>6, <1>7 DEF RestoringAt
<1>8. Buffered => Buffered'
  BY <1>1, <1>2, <1>3, <1>4, <1>6 DEF Buffered, Writing
<1>9. Cleaned => Cleaned'
  BY <1>1, <1>2, <1>3 DEF Cleaned
<1>10. Freed => Freed'
  BY <1>1, <1>3, <1>4 DEF Freed
<1> QED BY <1>1, <1>5, <1>7, <1>8, <1>9, <1>10 DEF FlashInv

\* While the working block is flushed, what is recovered for it is in the spare block.
LEMMA FlushRecovers ==
  ASSUME NEW k, FlushInv(k)
  PROVE  \A area \in Named : Recoverable(area) = flash[IF area = Work THEN Spare ELSE area].data
<1>1. CASE Settled /\ flash[Work].data = flash[Spare].data
  BY <1>1, RecoverableNow DEF RecoverableCases
<1>2. CASE Committed /\ Target = Work
  BY <1>2, RecoverableNow DEF RecoverableCases
<1>3. CASE FromSpare
  BY <1>3, RecoverableNow DEF RecoverableCases
<1> QED BY <1>1, <1>2, <1>3 DEF FlushInv

LEMMA FlushEndsStay ==
  ASSUME NEW k, FlushEnds(k), flash'[Spare].data = flash[Spare].data,
         FtwWorkSpace'.record = FtwWorkSpace.record, Recorded(FtwWorkSpace),
         FtwLastRecord' = FtwLastRecord, call' = call
  PROVE  FlushEnds(k)'
<1>1. FtwGetLastRecord(FtwWorkSpace)' = FtwGetLastRecord(FtwWorkSpace) /\ Record' = Record
  BY RecordsEqual DEF Record
<1>2. \A c : Caller(c) => Caller(c)'
  BY DEF Caller, Serving
<1> QED BY <1>1, <1>2 DEF FlushEnds, Serving

LEMMA EraseBlockTyped ==
  ASSUME OneBlock, Inv, EraseBlock
  PROVE  /\ MemoryInv' /\ Head(todo).block = 1 /\ Head(todo).area \in Areas
         /\ todo' = Tail(todo) /\ Tail(todo) \in Programs /\ UNCHANGED <<memory, call>>
         /\ EraseAt(Head(todo).area, Tail(todo))
         /\ flash'[Head(todo).area] = ErasedArea
         /\ \A b \in Areas : b # Head(todo).area => flash'[b] = flash[b]
<1>1. /\ Tail(todo) \in Programs /\ Head(todo).block = 1
      /\ EraseAt(Head(todo).area, Tail(todo))
  BY ReadyBefore DEF EraseBlock, At
<1>2. Head(todo).area \in Areas
  BY <1>1, AreasProperties DEF EraseAt
<1>3. todo' = Tail(todo)
  BY <1>1, JoinProperties DEF EraseBlock, Goes, Go, Join
<1>4. UNCHANGED <<memory, call>>
  BY DEF EraseBlock
<1>5. /\ flash' \in [Areas -> AreaType] /\ flash'[Head(todo).area] = ErasedArea
      /\ \A b \in Areas : b # Head(todo).area => flash'[b] = flash[b]
  BY <1>1, <1>2, EraseStep DEF Inv
<1>6. MemoryInv'
  BY <1>1, <1>3, <1>4, <1>5 DEF Inv, MemoryInv, memory, Programs
<1> QED BY <1>1, <1>2, <1>3, <1>4, <1>5, <1>6

LEMMA EraseBlockStep == ASSUME OneBlock, Inv, EraseBlock PROVE Good
<1> DEFINE rest == Tail(todo)
           area == Head(todo).area
<1>1. /\ MemoryInv' /\ area \in Areas
      /\ todo' = rest /\ rest \in Programs /\ UNCHANGED <<memory, call>>
      /\ EraseAt(area, rest) /\ flash'[area] = ErasedArea
      /\ \A b \in Areas : b # area => flash'[b] = flash[b]
  BY EraseBlockTyped
<1>2. area = Spare => \A b \in Named : flash'[b] = flash[b]
  BY <1>1, AreasProperties, AreasApart
<1>3. ASSUME NEW k \in {ToAllocate, ToCheck, ToAbort},
             area = Spare, rest = FillReclaim(k), Caller(k), Cleaned
      PROVE  Good
  <2>1. Caller(k)' /\ Cleaned' /\ FlashInv' /\ Kept
    BY <1>1, <1>2, <1>3, OnlySpareChanges DEF Cleaned
  <2>2. ProgramAt(Spare, Flush(Restoring(k)))'
    BY <2>1 DEF ProgramAt
  <2>3. ControlInv'
    BY <1>1, <1>3, <2>2, ReadyAfterAt, ProgramsTyped, AreasProperties DEF FillReclaim
  <2> QED BY <1>1, <2>1, <2>3 DEF Good
<1>4. ASSUME area = Spare, rest = ToFillSpare, Buffered
      PROVE  Good
  <2>1. Buffered' /\ FlashInv' /\ Kept
    BY <1>1, <1>2, <1>4, OnlySpareChanges DEF Buffered, Writing
  <2>2. ProgramAt(Spare, ToSpareCompleted)'
    BY <2>1 DEF ProgramAt
  <2>3. ControlInv'
    BY <1>1, <1>4, <2>2, ReadyAfterAt, ProgramsTyped, AreasProperties DEF ToFillSpare
  <2> QED BY <1>1, <2>1, <2>3 DEF Good
<1>5. ASSUME NEW k \in {ToAllocate, ToCheck, ToAbort, ToSuccess},
             area = Spare, rest = ThenAt("Restore", Spare, k), RestoringAt(k)
      PROVE  Good
  <2>1. RestoringAt(k)' /\ FlashInv' /\ Kept
    BY <1>1, <1>2, <1>5, OnlySpareChanges DEF RestoringAt
  <2>2. RestoreAt(Spare, k)'
    BY <2>1 DEF RestoreAt
  <2>3. ControlInv'
    BY <1>1, <1>5, <2>2, ReadyAfterAt, ProgramsTyped, AreasProperties
  <2> QED BY <1>1, <2>1, <2>3 DEF Good
<1>6. ASSUME area = Spare, rest \in {ToBooted, ToRestart}, Freed
      PROVE  Good
  <2>1. Freed' /\ FlashInv' /\ Kept
    BY <1>1, <1>2, <1>6, OnlySpareChanges DEF Freed
  <2>2. BootedAt(<<>>)' /\ CheckRestartAt(ToBooted)'
    BY <2>1 DEF BootedAt, CheckRestartAt, Freed
  <2>3. ControlInv'
    BY <1>1, <1>6, <2>2, ReadyAfter, ProgramsTyped DEF ToBooted, ToRestart
  <2> QED BY <1>1, <2>1, <2>3 DEF Good
<1>7. ASSUME area = Spare, rest = ToRefresh, Settled, call = None
      PROVE  Good
  <2>1. Settled' /\ FlashInv' /\ Kept
    BY <1>1, <1>2, <1>7, OnlySpareChanges
  <2>2. RefreshAt(ToAbort)'
    BY <1>1, <1>7, <2>1 DEF RefreshAt
  <2>3. ControlInv'
    BY <1>1, <1>7, <2>2, ReadyAfter, ProgramsTyped DEF ToRefresh
  <2> QED BY <1>1, <2>1, <2>3 DEF Good
<1>8. ASSUME NEW k \in Ends, area = Work, rest = FillWork(k), FlushMarked(k)
      PROVE  Good
  <2>1. flash'[Work] = ErasedArea /\ flash'[Spare] = flash[Spare]
        /\ \A b \in Targets : flash'[b] = flash[b]
    BY <1>1, <1>8, AreasProperties, AreasApart
  <2>2. SpareIsCopy'
    BY <1>8, <2>1 DEF FlushMarked, FlushInv, SpareIsCopy, Whole
  <2>3. FromSpare'
    BY <1>8, <2>1, <2>2, ErasedTyped DEF FlushMarked, FromSpare, NoRecords
  <2>4. /\ FtwWorkSpace' = FtwWorkSpace /\ FtwLastRecord' = FtwLastRecord
        /\ MyBuffer' = MyBuffer /\ call' = call
    BY <1>1 DEF memory
  <2>5. FlushEnds(k)'
    <3>1. Recorded(FtwWorkSpace)
      BY <1>8, RecordsEqual DEF FlushMarked, FlushInv, SpareIsCopy
    <3> QED BY <1>8, <2>1, <2>4, <3>1, FlushEndsStay DEF FlushMarked, FlushInv
  <2>6. FlushMarked(k)'
    BY <1>8, <2>1, <2>2, <2>3, <2>4, <2>5 DEF FlushMarked, FlushInv
  <2>7. Kept
    <3>1. \A b \in Named : Recoverable(b) = flash[IF b = Work THEN Spare ELSE b].data
      BY <1>8, FlushRecovers DEF FlushMarked
    <3>2. \A b \in Named : Recoverable(b)' = flash'[IF b = Work THEN Spare ELSE b].data
      BY <2>3, RecoverableNext DEF RecoverableCases
    <3> QED BY <2>1, <3>1, <3>2 DEF Kept, Named
  <2>8. ProgramAt(Work, MarkWork(k))'
    BY <2>3, <2>6 DEF ProgramAt
  <2>9. ControlInv'
    <3>1. k \in Programs /\ MarkWork(k) \in Programs
      BY ProgramsTyped DEF Ends
    <3> QED BY <1>1, <1>8, <2>8, <3>1, ReadyAfterAt, AreasProperties DEF FillWork
  <2> QED BY <1>1, <2>3, <2>7, <2>9 DEF Good, FlashInv
<1>9. ASSUME NEW k \in {WriteEnds, RestartEnds}, area \in Targets, rest = FillTarget(area, k),
             Replacing(k), area = Target, MyBuffer.data = flash[Spare].data
      PROVE  Good
  <2>1. /\ flash'[Work] = flash[Work] /\ flash'[Spare] = flash[Spare]
        /\ \A b \in Targets : b # Target => flash'[b] = flash[b]
    BY <1>1, <1>9, AreasProperties, AreasApart
  <2>2. Committed' /\ Target' = Target
    BY <1>9, <2>1 DEF Replacing, Committed, Live, Whole, Target
  <2>3. /\ FtwWorkSpace' = FtwWorkSpace /\ FtwLastRecord' = FtwLastRecord
        /\ MyBuffer' = MyBuffer /\ call' = call
    BY <1>1 DEF memory
  <2>4. Replacing(k)'
    BY <1>9, <2>1, <2>2, <2>3 DEF Replacing, Synced, Finishing, Serving
  <2>5. Kept
    <3>1. \A b \in Named : Recoverable(b) = flash[IF b = Target THEN Spare ELSE b].data
      BY <1>9, RecoverableNow DEF RecoverableCases, Replacing
    <3>2. \A b \in Named : Recoverable(b)' = flash'[IF b = Target THEN Spare ELSE b].data
      BY <2>2, RecoverableNext DEF RecoverableCases
    <3> QED BY <2>1, <3>1, <3>2 DEF Kept, Named
  <2>6. PICK t \in Targets : t = area
    BY <1>9
  <2>7. ProgramAt(t, Complete(k))'
    BY <1>9, <2>1, <2>2, <2>3, <2>4, <2>6 DEF ProgramAt
  <2>8. ControlInv'
    <3>1. k \in Programs /\ Complete(k) \in Programs /\ t \in Areas
      BY ProgramsTyped, AreasProperties
    <3>2. todo' = ThenAt("Program", t, Complete(k))
      BY <1>1, <1>9, <2>6 DEF FillTarget
    <3> QED BY <2>7, <3>1, <3>2, ReadyAfterAt
  <2> QED BY <1>1, <2>2, <2>5, <2>8 DEF Good, FlashInv
<1> QED BY <1>1, <1>3, <1>4, <1>5, <1>6, <1>7, <1>8, <1>9 DEF EraseAt

LEMMA ProgramBlockTyped ==
  ASSUME OneBlock, Inv, ProgramBlock
  PROVE  /\ MemoryInv' /\ Head(todo).area \in Areas
         /\ todo' = Tail(todo) /\ Tail(todo) \in Programs /\ UNCHANGED <<memory, call>>
         /\ \/ /\ ProgramAt(Head(todo).area, Tail(todo))
               /\ flash'[Head(todo).area] = MyBuffer
            \/ RestoreAt(Head(todo).area, Tail(todo))
         /\ \A b \in Areas : b # Head(todo).area => flash'[b] = flash[b]
<1>1. /\ Tail(todo) \in Programs /\ Head(todo).block = 1
      /\ At("Program") => ProgramAt(Head(todo).area, Tail(todo))
      /\ At("Restore") => RestoreAt(Head(todo).area, Tail(todo))
  BY ReadyBefore DEF ProgramBlock, At
<1>2. At("Program") \/ At("Restore")
  BY DEF ProgramBlock
<1>3. Head(todo).area \in Areas
  BY <1>1, <1>2, AreasProperties DEF ProgramAt, RestoreAt
<1>4. todo' = Tail(todo)
  BY <1>1, JoinProperties DEF ProgramBlock, Goes, Go, Join
<1>5. UNCHANGED <<memory, call>>
  BY DEF ProgramBlock
<1>6. /\ flash' \in [Areas -> AreaType]
      /\ At("Program") => flash'[Head(todo).area] = MyBuffer
      /\ \A b \in Areas : b # Head(todo).area => flash'[b] = flash[b]
  BY <1>1, <1>3, ProgramStep DEF Inv
<1>7. MemoryInv'
  BY <1>1, <1>4, <1>5, <1>6 DEF Inv, MemoryInv, memory, Programs
<1> QED BY <1>1, <1>2, <1>3, <1>4, <1>5, <1>6, <1>7

LEMMA ProgramBlockStep == ASSUME OneBlock, Inv, ProgramBlock PROVE Good
<1> DEFINE rest == Tail(todo)
           area == Head(todo).area
<1>1. /\ MemoryInv' /\ area \in Areas
      /\ todo' = rest /\ rest \in Programs /\ UNCHANGED <<memory, call>>
      /\ \/ ProgramAt(area, rest) /\ flash'[area] = MyBuffer
         \/ RestoreAt(area, rest)
      /\ \A b \in Areas : b # area => flash'[b] = flash[b]
  BY ProgramBlockTyped
<1>2. area = Spare => \A b \in Named : flash'[b] = flash[b]
  BY <1>1, AreasProperties, AreasApart
<1>3. /\ FtwWorkSpace' = FtwWorkSpace /\ FtwLastRecord' = FtwLastRecord
      /\ MyBuffer' = MyBuffer /\ call' = call
  BY <1>1 DEF memory
<1>4. ASSUME NEW k \in {ToAllocate, ToCheck, ToAbort}, flash'[area] = MyBuffer,
             area = Spare, rest = Flush(Restoring(k)), Caller(k), Cleaned
      PROVE  Good
  <2>1. Caller(k)' /\ Cleaned' /\ FlashInv' /\ Kept /\ Settled'
    BY <1>1, <1>2, <1>4, OnlySpareChanges DEF Cleaned
  <2>2. /\ flash'[Work] = flash[Work] /\ flash'[Spare] = MyBuffer
        /\ MyBuffer.data = flash[Work].data /\ NoRecords(MyBuffer.space)
    BY <1>2, <1>4 DEF Cleaned, Named
  <2>3. SpareIsCopy'
    <3>1. Whole(Work)' /\ \A b \in Targets : Whole(b)'
      BY <2>1 DEF Settled, Live
    <3>2. /\ Recorded(MyBuffer.space) /\ FtwGetLastRecord(MyBuffer.space) = 1
          /\ ~LastRecord(MyBuffer.space).SpareCompleted
      BY <2>2, NoRecordsLast, ErasedTyped
    <3> QED BY <2>2, <3>1, <3>2, SlotsProperties DEF SpareIsCopy, Whole
  <2>4. FtwWorkSpace'.record = flash'[Spare].space.record
    BY <1>3, <1>4, <2>2 DEF Cleaned, NoRecords
  <2>5. FlushEnds(Restoring(k))'
    <3>1. /\ FtwGetLastRecord(FtwWorkSpace) = 1 /\ FtwLastRecord = 1
          /\ ~LastRecord(FtwWorkSpace).SpareCompleted
      BY <1>4, NoRecordsLast, ErasedTyped DEF Cleaned
    <3>2. (FtwLastRecord = FtwGetLastRecord(FtwWorkSpace) /\ ~Record.SpareCompleted)'
      BY <1>3, <3>1 DEF Record, LastRecord
    <3> QED BY <2>1, <3>2 DEF FlushEnds
  <2>6. FlushInv(Restoring(k))'
    BY <2>1, <2>2, <2>3, <2>4, <2>5 DEF FlushInv
  <2>7. SpareValidAt(Then("WorkInvalid", ReplaceWork(Restoring(k))))'
    BY <2>6 DEF SpareValidAt, Ends
  <2>8. ControlInv'
    <3>1. k \in Programs /\ Restoring(k) \in Programs
      BY ProgramsTyped
    <3> QED BY <1>1, <1>4, <2>7, <3>1, ReadyAfter, ProgramsTyped DEF Flush
  <2> QED BY <1>1, <2>1, <2>8 DEF Good
<1>5. ASSUME area = Spare, rest = ToSpareCompleted, Buffered, flash'[area] = MyBuffer
      PROVE  Good
  <2>1. Buffered' /\ FlashInv' /\ Kept
    BY <1>1, <1>2, <1>5, OnlySpareChanges DEF Buffered, Writing
  <2>2. SpareCompletedAt(<<>>)'
    BY <1>3, <1>5, <2>1 DEF SpareCompletedAt
  <2>3. ControlInv'
    BY <1>1, <1>5, <2>2, ReadyAfter, ProgramsTyped DEF ToSpareCompleted
  <2> QED BY <1>1, <2>1, <2>3 DEF Good
<1>6. ASSUME NEW k \in Ends, area = Work, rest = MarkWork(k), FlushMarked(k), FromSpare,
             flash'[area] = MyBuffer
      PROVE  Good
  <2>1. /\ flash'[Work] = MyBuffer /\ flash'[Spare] = flash[Spare]
        /\ \A b \in Targets : flash'[b] = flash[b]
    BY <1>1, <1>6, AreasProperties, AreasApart
  <2>2. /\ flash'[Work].data = flash'[Spare].data /\ ~flash'[Work].space.WorkingBlockValid
        /\ flash'[Work].space.record = flash'[Spare].space.record
    BY <1>6, <2>1 DEF FlushMarked
  <2>3. SpareIsCopy'
    BY <1>6, <2>1 DEF FlushMarked, FlushInv, SpareIsCopy, Whole
  <2>4. FromSpare'
    BY <1>6, <2>1, <2>2, <2>3 DEF FromSpare
  <2>5. FlushEnds(k)'
    <3>1. Recorded(FtwWorkSpace)
      BY <1>6, RecordsEqual DEF FlushMarked, FlushInv, SpareIsCopy
    <3> QED BY <1>3, <1>6, <2>1, <3>1, FlushEndsStay DEF FlushMarked, FlushInv
  <2>6. FlushMarked(k)'
    BY <1>3, <1>6, <2>1, <2>3, <2>4, <2>5 DEF FlushMarked, FlushInv
  <2>7. Kept
    <3>1. \A b \in Named : Recoverable(b) = flash[IF b = Work THEN Spare ELSE b].data
      BY <1>6, FlushRecovers DEF FlushMarked
    <3>2. \A b \in Named : Recoverable(b)' = flash'[IF b = Work THEN Spare ELSE b].data
      BY <2>4, RecoverableNext DEF RecoverableCases
    <3> QED BY <2>1, <3>1, <3>2 DEF Kept, Named
  <2>8. WorkValidAt(k)'
    BY <2>2, <2>4, <2>6 DEF WorkValidAt
  <2>9. ControlInv'
    <3>1. k \in Programs
      BY ProgramsTyped DEF Ends
    <3> QED BY <1>1, <1>6, <2>8, <3>1, ReadyAfter DEF MarkWork
  <2> QED BY <1>1, <2>4, <2>7, <2>9 DEF Good, FlashInv
<1>7. ASSUME NEW k \in {WriteEnds, RestartEnds}, area \in Targets, rest = Complete(k),
             Replacing(k), area = Target, MyBuffer.data = flash[Spare].data,
             flash'[area] = MyBuffer
      PROVE  Good
  <2>1. /\ flash'[Work] = flash[Work] /\ flash'[Spare] = flash[Spare]
        /\ \A b \in Targets : b # Target => flash'[b] = flash[b]
        /\ flash'[Target].data = flash[Spare].data
    BY <1>1, <1>7, AreasProperties, AreasApart
  <2>2. Committed' /\ Target' = Target
    BY <1>7, <2>1 DEF Replacing, Committed, Live, Whole, Target
  <2>3. Replacing(k)'
    BY <1>3, <1>7, <2>1, <2>2 DEF Replacing, Synced, Finishing, Serving
  <2>4. Kept
    <3>1. \A b \in Named : Recoverable(b) = flash[IF b = Target THEN Spare ELSE b].data
      BY <1>7, RecoverableNow DEF RecoverableCases, Replacing
    <3>2. \A b \in Named : Recoverable(b)' = flash'[IF b = Target THEN Spare ELSE b].data
      BY <2>2, RecoverableNext DEF RecoverableCases
    <3> QED BY <2>1, <3>1, <3>2 DEF Kept, Named
  <2>5. WriteCompletedAt(k)'
    BY <2>1, <2>2, <2>3 DEF WriteCompletedAt
  <2>6. ControlInv'
    <3>1. k \in Programs
      BY ProgramsTyped
    <3> QED BY <1>1, <1>7, <2>5, <3>1, ReadyAfter DEF Complete
  <2> QED BY <1>1, <2>2, <2>4, <2>6 DEF Good, FlashInv
<1>8. ASSUME NEW k \in {ToAllocate, ToCheck, ToAbort, ToSuccess},
             area = Spare, rest = k, RestoringAt(k)
      PROVE  Good
  <2>1. RestoringAt(k)' /\ FlashInv' /\ Kept /\ Settled'
    BY <1>1, <1>2, <1>8, OnlySpareChanges DEF RestoringAt
  <2>2. ASSUME k = ToAllocate, (Serving /\ Synced /\ FtwLastRecord <= Slots)'
        PROVE  ControlInv'
    <3>1. AllocateAt(ToWriteRecord)'
      BY <2>1, <2>2 DEF AllocateAt, Writing
    <3> QED BY <1>1, <1>8, <2>2, <3>1, ReadyAfter, ProgramsTyped DEF ToAllocate
  <2>3. ASSUME k = ToCheck, (call = None /\ Synced /\ FtwLastRecord <= Slots)'
        PROVE  ControlInv'
    <3>1. CheckSpaceAt(ToAbort)'
      BY <2>1, <2>3 DEF CheckSpaceAt
    <3> QED BY <1>1, <1>8, <2>3, <3>1, ReadyAfter, ProgramsTyped DEF ToCheck
  <2>4. ASSUME k = ToAbort, (call = None /\ Synced /\ FtwLastRecord <= Slots)'
        PROVE  ControlInv'
    <3>1. CheckAbortAt(ToRestart)'
      BY <2>1, <2>4 DEF CheckAbortAt
    <3> QED BY <1>1, <1>8, <2>4, <3>1, ReadyAfter, ProgramsTyped DEF ToAbort
  <2>5. ASSUME k = ToSuccess, (Serving /\ flash[call.area].data[call.block] = call.value)'
        PROVE  ControlInv'
    <3>1. SuccessAt(<<>>)'
      BY <2>1, <2>5 DEF SuccessAt
    <3> QED BY <1>1, <1>8, <2>5, <3>1, ReadyAfter, ProgramsTyped DEF ToSuccess
  <2>6. ControlInv'
    BY <2>1, <2>2, <2>3, <2>4, <2>5 DEF RestoringAt, Caller
  <2> QED BY <1>1, <2>1, <2>6 DEF Good
<1> QED BY <1>1, <1>4, <1>5, <1>6, <1>7, <1>8 DEF ProgramAt, RestoreAt

\* The state bits of the header commit nothing.
LEMMA RecordsStay ==
  ASSUME FlashInv, \A b \in Areas : flash'[b].data = flash[b].data,
         \A b \in {Work, Spare} : flash'[b].space.record = flash[b].space.record,
         flash'[Work].space.WorkingBlockValid = flash[Work].space.WorkingBlockValid
  PROVE  /\ Settled => Settled'
         /\ Committed => Committed' /\ Target' = Target
         /\ SpareIsCopy => SpareIsCopy'
         /\ FromSpare /\ flash'[Spare].space.WorkingBlockValid => FromSpare'
<1>1. \A area \in Areas : Whole(area) => Whole(area)'
  BY DEF Whole
<1>2. /\ Recorded(flash[Work].space) /\ Recorded(flash'[Work].space)
      /\ FtwGetLastRecord(flash'[Work].space) = FtwGetLastRecord(flash[Work].space)
      /\ LastRecord(flash'[Work].space) = LastRecord(flash[Work].space)
  BY WorkRecorded, RecordsEqual
<1>3. Settled => Settled'
  BY <1>1, <1>2, AreasProperties DEF Settled, Live
<1>4. Target' = Target
  BY <1>2 DEF Target
<1>5. Committed => Committed'
  BY <1>1, <1>2, <1>4, AreasProperties DEF Committed, Live
<1>6. SpareIsCopy => SpareIsCopy'
  BY <1>1, AreasProperties, RecordsEqual DEF SpareIsCopy
<1>7. FromSpare /\ flash'[Spare].space.WorkingBlockValid => FromSpare'
  BY <1>6 DEF FromSpare, NoRecords
<1> QED BY <1>3, <1>4, <1>5, <1>6, <1>7

\* A step of a flush that changes header bits only.
LEMMA FlushGoesOn ==
  ASSUME Inv, NEW k \in Ends, FlushInv(k),
         \A b \in Areas : flash'[b].data = flash[b].data,
         \A b \in {Work, Spare} : flash'[b].space.record = flash[b].space.record,
         flash'[Work].space.WorkingBlockValid = flash[Work].space.WorkingBlockValid,
         flash'[Spare].space.WorkingBlockValid,
         FtwWorkSpace'.record = FtwWorkSpace.record, FtwLastRecord' = FtwLastRecord,
         call' = call
  PROVE  FlushInv(k)' /\ FlashInv' /\ Kept
<1>1. FlashInv
  BY DEF Inv
<1>2. SpareIsCopy'
  BY <1>1, RecordsStay DEF FlushInv
<1>3. FlushEnds(k)'
  <2>1. Recorded(FtwWorkSpace)
    BY RecordsEqual DEF FlushInv, SpareIsCopy
  <2> QED BY <2>1, FlushEndsStay, AreasProperties DEF FlushInv
<1>4. FtwWorkSpace'.record = flash'[Spare].space.record
  BY DEF FlushInv
<1>5. \/ Settled' /\ flash'[Work].data = flash'[Spare].data
      \/ Committed' /\ Target' = Work
      \/ FromSpare'
  <2>1. CASE Settled /\ flash[Work].data = flash[Spare].data
    BY <1>1, <2>1, RecordsStay, AreasProperties
  <2>2. CASE Committed /\ Target = Work
    BY <1>1, <2>2, RecordsStay
  <2>3. CASE FromSpare
    BY <1>1, <2>3, RecordsStay
  <2> QED BY <2>1, <2>2, <2>3 DEF FlushInv
<1>6. FlushInv(k)'
  BY <1>2, <1>3, <1>4, <1>5 DEF FlushInv
<1>7. Kept
  <2>1. \A b \in Named : Recoverable(b) = flash[IF b = Work THEN Spare ELSE b].data
    BY FlushRecovers
  <2>2. \A b \in Named : Recoverable(b)' = flash'[IF b = Work THEN Spare ELSE b].data
    <3>1. CASE Settled' /\ flash'[Work].data = flash'[Spare].data
      BY <3>1, RecoverableNext DEF RecoverableCases
    <3>2. CASE Committed' /\ Target' = Work
      BY <3>2, RecoverableNext DEF RecoverableCases
    <3>3. CASE FromSpare'
      BY <3>3, RecoverableNext DEF RecoverableCases
    <3> QED BY <1>5, <3>1, <3>2, <3>3
  <2> QED BY <2>1, <2>2, AreasProperties DEF Kept
<1> QED BY <1>5, <1>6, <1>7 DEF FlashInv

LEMMA SpareValidStep == ASSUME OneBlock, Inv, SpareValid PROVE Good
<1> DEFINE rest == Tail(todo)
           space == [flash[Spare].space EXCEPT !.WorkingBlockValid = TRUE]
<1>1. rest \in Programs /\ SpareValidAt(rest) /\ todo' = rest
  BY ReadyBefore, JoinProperties DEF SpareValid, At, Goes, Go, Join
<1>2. PICK k \in Ends : rest = Then("WorkInvalid", ReplaceWork(k)) /\ FlushInv(k)
  BY <1>1 DEF SpareValidAt
<1>3. /\ MemoryInv /\ flash' = [flash EXCEPT ![Spare].space = space]
      /\ FtwWorkSpace' = FtwWorkSpace /\ FtwLastRecord' = FtwLastRecord
      /\ SpareBuffer' = SpareBuffer /\ call' = call
      /\ MyBuffer' = [flash[Spare] EXCEPT !.space.WorkingBlockValid = FALSE,
                                          !.space.WorkingBlockInvalid = FALSE]
  BY DEF Inv, SpareValid, SetSpace
<1>4. /\ space \in SpaceType /\ space.record = flash[Spare].space.record
      /\ space.WorkingBlockValid
  BY <1>3, WorkSpaceTyped DEF SpaceType
<1> HIDE DEF space
<1>5. /\ flash' \in [Areas -> AreaType]
      /\ flash'[Spare].data = flash[Spare].data /\ flash'[Spare].space = space
      /\ \A b \in Areas : b # Spare => flash'[b] = flash[b]
  BY <1>3, <1>4, SetSpaceProperties, AreasProperties
<1>6. FlushInv(k)' /\ FlashInv' /\ Kept
  <2>1. \A b \in Areas : flash'[b].data = flash[b].data
    BY <1>5
  <2>2. \A b \in {Work, Spare} : flash'[b].space.record = flash[b].space.record
    BY <1>4, <1>5, AreasProperties
  <2>3. flash'[Work].space.WorkingBlockValid = flash[Work].space.WorkingBlockValid
    BY <1>5, AreasProperties, AreasApart
  <2> QED BY <1>2, <1>3, <1>4, <1>5, <2>1, <2>2, <2>3, FlushGoesOn
<1>7. /\ MyBuffer' \in AreaType /\ ~MyBuffer'.space.WorkingBlockValid
      /\ MyBuffer'.data = flash[Spare].data
      /\ MyBuffer'.space.record = flash[Spare].space.record
  <2>1. flash[Spare] \in AreaType
    BY <1>3, AreasProperties DEF MemoryInv
  <2> QED BY <1>3, <2>1 DEF AreaType, SpaceType
<1>8. FlushMarked(k)'
  BY <1>4, <1>5, <1>6, <1>7 DEF FlushMarked
<1>9. ControlInv'
  <2>1. WorkInvalidAt(ReplaceWork(k))'
    BY <1>8 DEF WorkInvalidAt
  <2>2. k \in Programs /\ ReplaceWork(k) \in Programs
    BY ProgramsTyped DEF Ends
  <2> QED BY <1>1, <1>2, <2>1, <2>2, ReadyAfter
<1>10. MemoryInv'
  BY <1>1, <1>3, <1>5, <1>7 DEF MemoryInv, Programs
<1> QED BY <1>6, <1>9, <1>10 DEF Good

LEMMA WorkInvalidStep == ASSUME OneBlock, Inv, WorkInvalid PROVE Good
<1> DEFINE rest == Tail(todo)
           space == [flash[Work].space EXCEPT !.WorkingBlockInvalid = TRUE]
<1>1. rest \in Programs /\ WorkInvalidAt(rest) /\ todo' = rest
  BY ReadyBefore, JoinProperties DEF WorkInvalid, At, Goes, Go, Join
<1>2. PICK k \in Ends : rest = ReplaceWork(k) /\ FlushMarked(k)
  BY <1>1 DEF WorkInvalidAt
<1>3. /\ MemoryInv /\ flash' = [flash EXCEPT ![Work].space = space]
      /\ FtwWorkSpace' = [FtwWorkSpace EXCEPT !.WorkingBlockInvalid = TRUE]
      /\ FtwLastRecord' = FtwLastRecord
      /\ SpareBuffer' = SpareBuffer /\ MyBuffer' = MyBuffer /\ call' = call
  BY DEF Inv, WorkInvalid, SetSpace
<1>4. /\ space \in SpaceType /\ space.record = flash[Work].space.record
      /\ space.WorkingBlockValid = flash[Work].space.WorkingBlockValid
      /\ FtwWorkSpace' \in SpaceType /\ FtwWorkSpace'.record = FtwWorkSpace.record
  BY <1>3, WorkSpaceTyped DEF MemoryInv, SpaceType
<1> HIDE DEF space
<1>5. /\ flash' \in [Areas -> AreaType]
      /\ flash'[Work].data = flash[Work].data /\ flash'[Work].space = space
      /\ \A b \in Areas : b # Work => flash'[b] = flash[b]
  BY <1>3, <1>4, SetSpaceProperties, AreasProperties
<1>6. flash'[Spare] = flash[Spare]
  BY <1>5, AreasProperties, AreasApart
<1>7. FlushInv(k)' /\ FlashInv' /\ Kept
  <2>1. \A b \in Areas : flash'[b].data = flash[b].data
    BY <1>5
  <2>2. \A b \in {Work, Spare} : flash'[b].space.record = flash[b].space.record
    BY <1>4, <1>5, <1>6
  <2> QED BY <1>2, <1>3, <1>4, <1>5, <1>6, <2>1, <2>2, FlushGoesOn DEF FlushMarked
<1>8. FlushMarked(k)'
  BY <1>2, <1>3, <1>6, <1>7 DEF FlushMarked
<1>9. ControlInv'
  <2>1. EraseAt(Work, FillWork(k))'
    BY <1>8 DEF EraseAt
  <2>2. k \in Programs /\ FillWork(k) \in Programs
    BY ProgramsTyped DEF Ends
  <2> QED BY <1>1, <1>2, <2>1, <2>2, ReadyAfterAt, AreasProperties DEF ReplaceWork
<1>10. MemoryInv'
  BY <1>1, <1>3, <1>4, <1>5 DEF MemoryInv, Programs
<1> QED BY <1>7, <1>9, <1>10 DEF Good

LEMMA AlreadyCompleted ==
  ASSUME NEW record \in [1..(Slots + 1) -> RecordType], NEW i \in 1..(Slots + 1),
         record[i].SpareCompleted
  PROVE  [record EXCEPT ![i].SpareCompleted = TRUE] = record
<1> DEFINE r == [record[i] EXCEPT !.SpareCompleted = TRUE]
<1>1. r = record[i]
  BY DEF RecordType
<1>2. [record EXCEPT ![i].SpareCompleted = TRUE] = [record EXCEPT ![i] = r]
  OBVIOUS
<1> HIDE DEF r
<1> QED BY <1>1, <1>2

\* The working block has become valid: it is what the spare block says.
LEMMA WorkMarked ==
  ASSUME Inv, WorkValid, NEW k, FlushMarked(k), FromSpare,
         flash[Work].data = flash[Spare].data,
         flash[Work].space.record = flash[Spare].space.record
  PROVE  /\ flash' \in [Areas -> AreaType] /\ FtwWorkSpace' \in SpaceType
         /\ flash'[Work].data = flash'[Spare].data
         /\ \A b \in Areas : flash'[b].data = flash[b].data
         /\ FtwWorkSpace'.record = FtwWorkSpace.record
         /\ FtwWorkSpace'.record = flash'[Work].space.record
         /\ FtwWorkSpace'.WorkingBlockValid /\ flash'[Work].space.WorkingBlockValid
         /\ FtwGetLastRecord(flash'[Work].space) = FtwGetLastRecord(FtwWorkSpace)
         /\ FtwGetLastRecord(FtwWorkSpace) <= Slots
         /\ LastRecord(FtwWorkSpace).SpareCompleted => Committed' /\ Target' = Work
         /\ ~LastRecord(FtwWorkSpace).SpareCompleted => Settled'
         /\ Kept
<1> DEFINE space == [flash[Work].space EXCEPT !.WorkingBlockValid = TRUE]
<1>1. /\ MemoryInv /\ flash' = [flash EXCEPT ![Work].space = space]
      /\ FtwWorkSpace' = [FtwWorkSpace EXCEPT !.WorkingBlockValid = TRUE]
  BY DEF Inv, WorkValid, SetSpace
<1>2. /\ space \in SpaceType /\ space.record = flash[Work].space.record
      /\ space.WorkingBlockValid
      /\ FtwWorkSpace' \in SpaceType /\ FtwWorkSpace'.record = FtwWorkSpace.record
      /\ FtwWorkSpace'.WorkingBlockValid
      /\ flash[Work].space.record \in [1..(Slots + 1) -> RecordType]
  BY <1>1, WorkSpaceTyped DEF MemoryInv, SpaceType, RecordType
<1> HIDE DEF space
<1>3. /\ flash' \in [Areas -> AreaType]
      /\ flash'[Work].data = flash[Work].data /\ flash'[Work].space = space
      /\ \A b \in Areas : b # Work => flash'[b] = flash[b]
  BY <1>1, <1>2, SetSpaceProperties, AreasProperties
<1>4. flash'[Spare] = flash[Spare] /\ \A b \in Targets : flash'[b] = flash[b]
  BY <1>3, AreasProperties, AreasApart
<1>5. FtwWorkSpace.record = flash[Spare].space.record /\ SpareIsCopy
  BY DEF FlushMarked, FlushInv
<1>6. /\ Recorded(space) /\ FtwGetLastRecord(space) = FtwGetLastRecord(flash[Spare].space)
      /\ LastRecord(space) = LastRecord(flash[Spare].space)
      /\ FtwGetLastRecord(FtwWorkSpace) = FtwGetLastRecord(flash[Spare].space)
      /\ LastRecord(FtwWorkSpace) = LastRecord(flash[Spare].space)
  BY <1>2, <1>5, RecordsEqual DEF SpareIsCopy
<1>7. Live' /\ \A b \in Targets : Whole(b)'
  BY <1>2, <1>3, <1>4, <1>5, <1>6 DEF Live, Whole, SpareIsCopy
<1>8. ~LastRecord(FtwWorkSpace).SpareCompleted => Settled'
  BY <1>3, <1>6, <1>7 DEF Settled
<1>9. ASSUME LastRecord(FtwWorkSpace).SpareCompleted
      PROVE  Committed' /\ Target' = Work
  <2>1. Target' = Work
    BY <1>3, <1>5, <1>6, <1>9 DEF Target, SpareIsCopy
  <2>2. [flash[Spare].space.record EXCEPT ![FtwGetLastRecord(space)].SpareCompleted = TRUE]
          = space.record
    <3>1. space.record[FtwGetLastRecord(space)].SpareCompleted
      BY <1>6, <1>9 DEF LastRecord
    <3>2. FtwGetLastRecord(space) \in 1..(Slots + 1)
      BY <1>6, RecordedRange
    <3> QED BY <1>2, <3>1, <3>2, AlreadyCompleted
  <2>3. Whole(Spare)'
    BY <1>4, <1>5 DEF SpareIsCopy, Whole
  <2> QED BY <1>3, <1>4, <1>6, <1>7, <1>9, <2>1, <2>2, <2>3 DEF Committed
<1>10. Kept
  <2>1. \A b \in Named : Recoverable(b) = flash[IF b = Work THEN Spare ELSE b].data
    BY RecoverableNow DEF RecoverableCases
  <2>2. \A b \in Named : Recoverable(b)' = flash'[IF b = Work THEN Spare ELSE b].data
    <3>1. CASE LastRecord(FtwWorkSpace).SpareCompleted
      BY <1>9, <3>1, RecoverableNext DEF RecoverableCases
    <3>2. CASE ~LastRecord(FtwWorkSpace).SpareCompleted
      BY <1>3, <1>4, <1>8, <3>2, RecoverableNext DEF RecoverableCases
    <3> QED BY <3>1, <3>2
  <2>3. \A b \in Named : flash'[IF b = Work THEN Spare ELSE b] = flash[IF b = Work THEN Spare ELSE b]
    BY <1>4 DEF Named
  <2> QED BY <2>1, <2>2, <2>3 DEF Kept
<1>11. \A b \in Areas : flash'[b].data = flash[b].data
  BY <1>3
<1> QED BY <1>2, <1>3, <1>4, <1>5, <1>6, <1>8, <1>9, <1>10, <1>11 DEF SpareIsCopy

LEMMA WorkValidStep == ASSUME OneBlock, Inv, WorkValid PROVE Good
<1> DEFINE rest == Tail(todo)
<1>1. rest \in Programs /\ WorkValidAt(rest) /\ todo' = rest
  BY ReadyBefore, JoinProperties DEF WorkValid, At, Goes, Go, Join
<1>2. PICK k \in Ends :
        /\ rest = k /\ FlushMarked(k) /\ FromSpare
        /\ flash[Work].data = flash[Spare].data
        /\ flash[Work].space.record = flash[Spare].space.record
  BY <1>1 DEF WorkValidAt
<1>3. /\ MemoryInv /\ FtwLastRecord' = FtwLastRecord /\ call' = call
      /\ SpareBuffer' = SpareBuffer /\ MyBuffer' = MyBuffer
  BY DEF Inv, WorkValid
<1>4. /\ flash' \in [Areas -> AreaType] /\ FtwWorkSpace' \in SpaceType
      /\ flash'[Work].data = flash'[Spare].data
      /\ \A b \in Areas : flash'[b].data = flash[b].data
      /\ FtwWorkSpace'.record = FtwWorkSpace.record
      /\ FtwWorkSpace'.record = flash'[Work].space.record
      /\ FtwWorkSpace'.WorkingBlockValid /\ flash'[Work].space.WorkingBlockValid
      /\ FtwGetLastRecord(flash'[Work].space) = FtwGetLastRecord(FtwWorkSpace)
      /\ FtwGetLastRecord(FtwWorkSpace) <= Slots
      /\ LastRecord(FtwWorkSpace).SpareCompleted => Committed' /\ Target' = Work
      /\ ~LastRecord(FtwWorkSpace).SpareCompleted => Settled'
      /\ Kept
  BY <1>2, WorkMarked
<1>5. MemoryInv' /\ FlashInv'
  BY <1>1, <1>3, <1>4 DEF MemoryInv, FlashInv, Programs
<1>6. /\ Recorded(FtwWorkSpace)
      /\ FtwGetLastRecord(FtwWorkSpace') = FtwGetLastRecord(FtwWorkSpace)
      /\ Record' = Record
  <2>1. Recorded(FtwWorkSpace)
    BY <1>2, RecordsEqual DEF FlushMarked, FlushInv, SpareIsCopy
  <2> QED BY <1>3, <1>4, <2>1, RecordsEqual DEF Record
<1>7. FtwLastRecord = FtwGetLastRecord(FtwWorkSpace) =>
        Synced' /\ Record = LastRecord(FtwWorkSpace) /\ FtwLastRecord' <= Slots
  BY <1>3, <1>4 DEF Synced, Record, LastRecord
<1>8. FlushEnds(k)
  BY <1>2 DEF FlushMarked, FlushInv
<1>9. ASSUME NEW c \in {ToAllocate, ToCheck, ToAbort}, k = Restoring(c), Caller(c),
             FtwLastRecord = FtwGetLastRecord(FtwWorkSpace), ~Record.SpareCompleted
      PROVE  ControlInv'
  <2>1. Settled' /\ Synced' /\ FtwLastRecord' <= Slots
    BY <1>4, <1>7, <1>9
  <2>2. RestoringAt(c)'
    BY <1>3, <1>9, <2>1 DEF RestoringAt, Caller, Serving
  <2>3. EraseAt(Spare, ThenAt("Restore", Spare, c))'
    BY <2>2 DEF EraseAt
  <2>4. c \in Programs /\ ThenAt("Restore", Spare, c) \in Programs
    BY ProgramsTyped
  <2> QED BY <1>1, <1>2, <1>9, <2>3, <2>4, ReadyAfterAt, AreasProperties DEF Restoring
<1>10. ASSUME k = AbortSpare, call = None,
              FtwLastRecord = FtwGetLastRecord(FtwWorkSpace) \/ Record.WriteCompleted
       PROVE  ControlInv'
  <2>1. AbortAt(ToRefresh)'
    BY <1>3, <1>4, <1>6, <1>10 DEF AbortAt
  <2> QED BY <1>1, <1>2, <1>10, <2>1, ReadyAfter, ProgramsTyped DEF AbortSpare
<1>11. ASSUME NEW e \in {WriteEnds, RestartEnds}, k = Complete(e),
              \/ e = WriteEnds /\ Serving /\ call.area = Work
                 /\ flash[Spare].data[call.block] = call.value
              \/ e = RestartEnds /\ call = None,
              FtwLastRecord = FtwGetLastRecord(FtwWorkSpace), Record.SpareCompleted
       PROVE  ControlInv'
  <2>1. Committed' /\ Target' = Work /\ Synced'
    BY <1>4, <1>7, <1>11
  <2>2. Finishing(e)'
    BY <1>3, <1>4, <1>11, <2>1, AreasProperties DEF Finishing, Serving
  <2>3. WriteCompletedAt(e)'
    BY <1>4, <2>1, <2>2 DEF WriteCompletedAt, Replacing
  <2>4. e \in Programs
    BY ProgramsTyped
  <2> QED BY <1>1, <1>2, <1>11, <2>3, <2>4, ReadyAfter DEF Complete
<1> QED BY <1>4, <1>5, <1>8, <1>9, <1>10, <1>11 DEF FlushEnds, Good

LEMMA ReadSpareStep == ASSUME OneBlock, Inv, ReadSpare PROVE Good
<1> DEFINE rest == Tail(todo)
<1>1. rest \in Programs /\ ReadSpareAt(rest) /\ todo' = rest
  BY ReadyBefore, JoinProperties DEF ReadSpare, At, Goes, Go, Join
<1>2. PICK k \in {WriteEnds, RestartEnds}, area \in Targets :
        /\ rest = ThenAt("Erase", area, FillTarget(area, k))
        /\ Replacing(k) /\ area = Target
  BY <1>1 DEF ReadSpareAt
<1>3. /\ MemoryInv /\ flash' = flash /\ MyBuffer' = flash[Spare] /\ SpareBuffer' = SpareBuffer
      /\ FtwWorkSpace' = FtwWorkSpace /\ FtwLastRecord' = FtwLastRecord /\ call' = call
  BY DEF Inv, ReadSpare
<1>4. Committed' /\ Target' = Target /\ Kept
  BY <1>2, <1>3, FlashStays DEF Replacing
<1>5. Replacing(k)'
  BY <1>2, <1>3, <1>4 DEF Replacing, Synced, Finishing, Serving
<1>6. EraseAt(area, FillTarget(area, k))'
  BY <1>2, <1>3, <1>4, <1>5 DEF EraseAt
<1>7. ControlInv'
  <2>1. k \in Programs /\ FillTarget(area, k) \in Programs /\ area \in Areas
    BY ProgramsTyped, AreasProperties
  <2> QED BY <1>1, <1>2, <1>6, <2>1, ReadyAfterAt
<1>8. MemoryInv'
  <2>1. flash[Spare] \in AreaType
    BY <1>3, AreasProperties DEF MemoryInv
  <2> QED BY <1>1, <1>3, <2>1 DEF MemoryInv, Programs
<1> QED BY <1>4, <1>7, <1>8 DEF Good, FlashInv

LEMMA SpareRecordStep == ASSUME OneBlock, Inv, SpareRecord PROVE Good
<1> DEFINE rest == Tail(todo)
           i == FtwGetLastRecord(flash[Work].space)
           space == [flash[Spare].space EXCEPT !.record[i].SpareCompleted = TRUE]
<1>1. rest \in Programs /\ SpareRecordAt(rest) /\ todo' = rest
  BY ReadyBefore, JoinProperties DEF SpareRecord, At, Goes, Go, Join
<1>2. PICK k \in {WriteEnds, RestartEnds} :
        rest = Flush(Complete(k)) /\ Replacing(k) /\ Target = Work
  BY <1>1 DEF SpareRecordAt
<1>3. /\ MemoryInv /\ MyBuffer' = MyBuffer /\ SpareBuffer' = SpareBuffer
      /\ FtwWorkSpace' = FtwWorkSpace /\ FtwLastRecord' = FtwLastRecord /\ call' = call
  BY DEF Inv, SpareRecord, memory
<1>4. flash' = [flash EXCEPT ![Spare].space = space]
  BY <1>2 DEF SpareRecord, SetSpace, Replacing, Synced
<1>5. /\ Recorded(flash[Work].space) /\ i \in 1..(Slots + 1) /\ i <= Slots
      /\ LastRecord(flash[Work].space).SpareCompleted
      /\ LastRecord(flash[Work].space).target = Work
      /\ Committed /\ Synced
  <2>1. Recorded(flash[Work].space) /\ LastRecord(flash[Work].space).SpareCompleted
    BY <1>2 DEF Replacing, Committed, Live
  <2> QED BY <1>2, <2>1, RecordedRange DEF Replacing, Target
<1>6. /\ space \in SpaceType
      /\ space.record = [flash[Spare].space.record EXCEPT ![i].SpareCompleted = TRUE]
  <2>1. flash[Spare].space \in SpaceType
    BY <1>3, WorkSpaceTyped
  <2>2. flash[Spare].space.record[i] \in RecordType
    BY <1>5, <2>1 DEF SpaceType, RecordType
  <2> DEFINE r == [flash[Spare].space.record[i] EXCEPT !.SpareCompleted = TRUE]
  <2>3. r \in RecordType
    BY <2>2 DEF RecordType
  <2>4. space = [flash[Spare].space EXCEPT !.record[i] = r]
    OBVIOUS
  <2>5. [flash[Spare].space.record EXCEPT ![i].SpareCompleted = TRUE]
          = [flash[Spare].space.record EXCEPT ![i] = r]
    OBVIOUS
  <2> HIDE DEF r, space
  <2> QED BY <2>1, <2>3, <2>4, <2>5 DEF SpaceType, RecordType
<1> HIDE DEF space
<1>7. /\ flash' \in [Areas -> AreaType]
      /\ flash'[Spare].data = flash[Spare].data /\ flash'[Spare].space = space
      /\ \A b \in Areas : b # Spare => flash'[b] = flash[b]
  BY <1>3, <1>4, <1>6, SetSpaceProperties, AreasProperties
<1>8. flash'[Work] = flash[Work] /\ \A b \in Targets : flash'[b] = flash[b]
  BY <1>7, AreasProperties, AreasApart
<1>9. space.record = flash[Work].space.record
  BY <1>2, <1>5, <1>6 DEF Committed
<1>10. /\ Recorded(space) /\ FtwGetLastRecord(space) = i
       /\ LastRecord(space) = LastRecord(flash[Work].space)
       /\ Recorded(FtwWorkSpace) /\ FtwGetLastRecord(FtwWorkSpace) = i
       /\ LastRecord(FtwWorkSpace) = LastRecord(flash[Work].space)
  BY <1>5, <1>9, RecordsEqual DEF Synced
<1>11. Target' = Work
  BY <1>2, <1>8 DEF Target
<1>12. [flash'[Spare].space.record EXCEPT ![i].SpareCompleted = TRUE] = flash'[Work].space.record
  <2>1. flash[Work].space.record \in [1..(Slots + 1) -> RecordType]
    BY <1>3, WorkSpaceTyped DEF SpaceType, RecordType
  <2>2. flash[Work].space.record[i].SpareCompleted
    BY <1>5 DEF LastRecord
  <2>3. [flash[Work].space.record EXCEPT ![i].SpareCompleted = TRUE] = flash[Work].space.record
    BY <1>5, <2>1, <2>2, AlreadyCompleted
  <2>4. flash'[Spare].space.record = flash[Work].space.record
    BY <1>7, <1>9
  <2> HIDE DEF i
  <2> QED BY <1>8, <2>3, <2>4
<1>13. Committed'
  <2>1. Live' /\ Whole(Spare)' /\ \A b \in Targets : Whole(b)'
    BY <1>2, <1>5, <1>7, <1>8, AreasApart DEF Committed, Live, Whole
  <2> QED BY <1>5, <1>8, <1>12, <2>1 DEF Committed
<1>14. SpareIsCopy'
  BY <1>5, <1>7, <1>10, <1>13, <1>11, AreasApart DEF SpareIsCopy, Committed
<1>15. FlushEnds(Complete(k))'
  <2>1. (FtwLastRecord = FtwGetLastRecord(FtwWorkSpace) /\ Record.SpareCompleted)'
    BY <1>3, <1>5, <1>10 DEF Synced, Record, LastRecord
  <2>2. \/ k = WriteEnds /\ Serving' /\ call'.area = Work
           /\ flash'[Spare].data[call'.block] = call'.value
        \/ k = RestartEnds /\ call' = None
    BY <1>2, <1>3, <1>7 DEF Replacing, Finishing, Serving
  <2> QED BY <2>1, <2>2 DEF FlushEnds
<1>16. FlushInv(Complete(k))'
  BY <1>3, <1>5, <1>7, <1>9, <1>11, <1>13, <1>14, <1>15 DEF FlushInv, Synced
<1>17. ControlInv'
  <2>1. Complete(k) \in Ends
    BY DEF Ends
  <2>2. SpareValidAt(Then("WorkInvalid", ReplaceWork(Complete(k))))'
    BY <1>16, <2>1 DEF SpareValidAt
  <2>3. k \in Programs /\ Complete(k) \in Programs
    BY ProgramsTyped
  <2>4. Then("WorkInvalid", ReplaceWork(Complete(k))) \in Programs
    BY <2>3, ProgramsTyped
  <2> QED BY <1>1, <1>2, <2>2, <2>4, ReadyAfter DEF Flush
<1>18. Kept
  <2>1. \A b \in Named : Recoverable(b) = flash[IF b = Work THEN Spare ELSE b].data
    BY <1>2, <1>5, RecoverableNow DEF RecoverableCases
  <2>2. \A b \in Named : Recoverable(b)' = flash'[IF b = Work THEN Spare ELSE b].data
    BY <1>11, <1>13, RecoverableNext DEF RecoverableCases
  <2>3. \A b \in Areas : flash'[b].data = flash[b].data
    BY <1>7
  <2> QED BY <2>1, <2>2, <2>3, AreasProperties DEF Kept
<1>19. MemoryInv'
  BY <1>1, <1>3, <1>7 DEF MemoryInv, Programs
<1> QED BY <1>13, <1>17, <1>18, <1>19 DEF Good, FlashInv

\* A step that changes a record of the work space, in memory and on the flash.
LEMMA RecordChanges ==
  ASSUME MemoryInv, FtwWorkSpace.record = flash[Work].space.record,
         NEW i \in 1..(Slots + 1), NEW r \in RecordType,
         FtwWorkSpace' = [FtwWorkSpace EXCEPT !.record[i] = r],
         flash' = [flash EXCEPT ![Work].space = [flash[Work].space EXCEPT !.record[i] = r]]
  PROVE  /\ flash' \in [Areas -> AreaType] /\ FtwWorkSpace' \in SpaceType
         /\ flash'[Work].data = flash[Work].data
         /\ \A b \in Areas : b # Work => flash'[b] = flash[b]
         /\ flash'[Work].space \in SpaceType
         /\ flash'[Work].space.record = [flash[Work].space.record EXCEPT ![i] = r]
         /\ flash'[Work].space.WorkingBlockValid = flash[Work].space.WorkingBlockValid
         /\ FtwWorkSpace'.record = flash'[Work].space.record
         /\ FtwWorkSpace'.WorkingBlockValid = FtwWorkSpace.WorkingBlockValid
         /\ FtwWorkSpace'.record[i] = r
<1> DEFINE space == [flash[Work].space EXCEPT !.record[i] = r]
<1>1. FtwWorkSpace \in SpaceType /\ flash[Work].space \in SpaceType
  BY WorkSpaceTyped DEF MemoryInv
<1>2. /\ space \in SpaceType /\ space.record = [flash[Work].space.record EXCEPT ![i] = r]
      /\ space.WorkingBlockValid = flash[Work].space.WorkingBlockValid
  BY <1>1 DEF SpaceType, RecordType
<1>3. /\ FtwWorkSpace' \in SpaceType /\ FtwWorkSpace'.record = [FtwWorkSpace.record EXCEPT ![i] = r]
      /\ FtwWorkSpace'.WorkingBlockValid = FtwWorkSpace.WorkingBlockValid
      /\ FtwWorkSpace'.record[i] = r
  BY <1>1 DEF SpaceType, RecordType
<1> HIDE DEF space
<1>4. flash' = [flash EXCEPT ![Work].space = space]
  BY DEF space
<1>5. /\ flash' \in [Areas -> AreaType]
      /\ flash'[Work].data = flash[Work].data /\ flash'[Work].space = space
      /\ \A b \in Areas : b # Work => flash'[b] = flash[b]
  BY <1>2, <1>4, SetSpaceProperties, AreasProperties
<1> QED BY <1>2, <1>3, <1>5

LEMMA SyncedRecord ==
  ASSUME MemoryInv, Synced, Recorded(flash[Work].space)
  PROVE  /\ Record = LastRecord(flash[Work].space) /\ Record \in RecordType
         /\ FtwLastRecord = FtwGetLastRecord(flash[Work].space)
         /\ FtwLastRecord \in 1..(Slots + 1) /\ ~Record.WriteCompleted
         /\ Record.SpareCompleted => Record.target \in Named /\ FtwLastRecord <= Slots
<1>1. Record = LastRecord(flash[Work].space)
  BY DEF Synced, Record, LastRecord
<1>2. Record \in RecordType
  BY DEF MemoryInv, SpaceType, RecordType, Record
<1> QED BY <1>1, <1>2, RecordedRange DEF Synced

LEMMA WriteCompletedStep == ASSUME OneBlock, Inv, WriteCompleted PROVE Good
<1> DEFINE rest == Tail(todo)
           i == FtwLastRecord
           r == [FtwWorkSpace.record[i] EXCEPT !.WriteCompleted = TRUE]
<1>1. rest \in Programs /\ WriteCompletedAt(rest) /\ todo' = rest
  BY ReadyBefore, JoinProperties DEF WriteCompleted, At, Goes, Go, Join
<1>2. /\ rest \in {WriteEnds, RestartEnds} /\ Committed /\ Synced /\ Finishing(rest)
      /\ flash[Target].data = flash[Spare].data
  BY <1>1 DEF WriteCompletedAt, Replacing
<1>3. /\ MemoryInv /\ FtwLastRecord' = i + 1 /\ call' = call
      /\ MyBuffer' = MyBuffer /\ SpareBuffer' = SpareBuffer
  BY DEF Inv, WriteCompleted
<1>4. /\ Recorded(flash[Work].space) /\ i = FtwGetLastRecord(flash[Work].space)
      /\ i \in 1..(Slots + 1) /\ i <= Slots /\ Record \in RecordType
      /\ FtwWorkSpace.record = flash[Work].space.record
      /\ Target \in Named
  <2>1. Recorded(flash[Work].space) /\ LastRecord(flash[Work].space).SpareCompleted
    BY <1>2 DEF Committed, Live
  <2> QED BY <1>2, <1>3, <2>1, SyncedRecord DEF Synced, Target
<1>5. r \in RecordType /\ r.WriteCompleted
  BY <1>4 DEF Record, RecordType
<1>6. /\ FtwWorkSpace' = [FtwWorkSpace EXCEPT !.record[i] = r]
      /\ flash' = [flash EXCEPT ![Work].space = [flash[Work].space EXCEPT !.record[i] = r]]
  BY <1>4 DEF WriteCompleted, SetSpace
<1> HIDE DEF r
<1>7. /\ flash' \in [Areas -> AreaType] /\ FtwWorkSpace' \in SpaceType
      /\ flash'[Work].data = flash[Work].data
      /\ \A b \in Areas : b # Work => flash'[b] = flash[b]
      /\ flash'[Work].space.record = [flash[Work].space.record EXCEPT ![i] = r]
      /\ flash'[Work].space.WorkingBlockValid = flash[Work].space.WorkingBlockValid
      /\ FtwWorkSpace'.record = flash'[Work].space.record
      /\ FtwWorkSpace'.WorkingBlockValid = FtwWorkSpace.WorkingBlockValid
  BY <1>3, <1>4, <1>5, <1>6, RecordChanges
<1>8. /\ Recorded(flash'[Work].space) /\ FtwGetLastRecord(flash'[Work].space) = i + 1
      /\ LastRecord(flash'[Work].space) = EmptyRecord
  <2>1. flash[Work].space \in SpaceType
    BY <1>3, WorkSpaceTyped
  <2> QED BY <1>4, <1>5, <1>7, <2>1, RecordCompleted
<1>9. \A b \in Areas : flash'[b].data = flash[b].data
  BY <1>7
<1>10. Settled'
  <2>1. Whole(Work)' /\ \A b \in Targets : Whole(b)'
    BY <1>2, <1>4, <1>9, AreasProperties DEF Committed, Live, Whole
  <2> QED BY <1>2, <1>7, <1>8, <2>1, ErasedTyped DEF Settled, Live, Committed
<1>11. Synced' /\ Record' = EmptyRecord
  BY <1>2, <1>3, <1>7, <1>8 DEF Synced, Record, LastRecord
<1>12. Kept
  <2>1. \A b \in Named : Recoverable(b) = flash[IF b = Target THEN Spare ELSE b].data
    BY <1>2, RecoverableNow DEF RecoverableCases
  <2>2. \A b \in Named : Recoverable(b)' = flash'[b].data
    BY <1>10, RecoverableNext DEF RecoverableCases
  <2> QED BY <1>2, <1>4, <1>9, <2>1, <2>2, AreasProperties DEF Kept
<1>13. ASSUME rest = WriteEnds, Serving, call.area = Target,
              flash[Spare].data[call.block] = call.value
       PROVE  ControlInv'
  <2>1. RestoringAt(ToSuccess)'
    BY <1>2, <1>3, <1>4, <1>9, <1>10, <1>13, AreasProperties DEF RestoringAt, Serving
  <2>2. EraseAt(Spare, ThenAt("Restore", Spare, ToSuccess))'
    BY <2>1 DEF EraseAt
  <2> QED BY <1>1, <1>13, <2>2, ReadyAfterAt, ProgramsTyped, AreasProperties DEF WriteEnds, Restoring
<1>14. ASSUME rest = RestartEnds, call = None PROVE ControlInv'
  <2>1. Freed'
    BY <1>3, <1>10, <1>11, <1>14, ErasedTyped DEF Freed
  <2>2. EraseAt(Spare, ToBooted)'
    BY <2>1 DEF EraseAt
  <2> QED BY <1>1, <1>14, <2>2, ReadyAfterAt, ProgramsTyped, AreasProperties DEF RestartEnds
<1>15. MemoryInv'
  <2>1. i + 1 \in 1..(Slots + 1)
    BY <1>4, SlotsProperties
  <2> QED BY <1>1, <1>3, <1>7, <2>1 DEF MemoryInv, Programs
<1>16. ControlInv'
  BY <1>2, <1>13, <1>14 DEF Finishing
<1> QED BY <1>10, <1>12, <1>15, <1>16 DEF Good, FlashInv

-----------------------------------------------------------------------------
(* A write, up to the moment when the record says that the spare block is filled. *)

LEMMA FtwLiteWriteStep ==
  ASSUME OneBlock, Inv,
         NEW area \in Targets \cup {Work}, NEW block \in Blocks, NEW value \in Data,
         FtwLiteWrite(area, block, value)
  PROVE  Good
<1>1. /\ MemoryInv /\ FlashInv /\ todo = <<>> /\ flash' = flash /\ UNCHANGED memory
      /\ call' = [area |-> area, block |-> block, value |-> value] /\ todo' = WriteSteps
  BY DEF Inv, FtwLiteWrite
<1>2. Settled
  BY <1>1 DEF Inv, ControlInv
<1>3. Settled' /\ FlashInv' /\ Kept
  BY <1>1, <1>2, FlashStays DEF FlashInv
<1>4. todo' = Then("Refresh", ToAllocate) /\ ToAllocate \in Programs
  BY <1>1, WriteProgram, ProgramsTyped
<1>5. Serving'
  BY <1>1 DEF Serving, Named
<1>6. RefreshAt(ToAllocate)'
  BY <1>3, <1>5 DEF RefreshAt
<1>7. ControlInv' /\ todo' \in Programs
  BY <1>4, <1>6, ReadyAfter DEF Operations
<1>8. MemoryInv'
  BY <1>1, <1>5, <1>7 DEF MemoryInv, memory, Programs, Serving
<1> QED BY <1>3, <1>7, <1>8 DEF Good

LEMMA FailStep ==
  ASSUME OneBlock, Inv, AccessDenied \/ OutOfResources
  PROVE  Good
<1>1. /\ MemoryInv /\ flash' = flash /\ UNCHANGED memory /\ call' = None /\ todo' = <<>>
  BY DEF Inv, AccessDenied, OutOfResources, Fail
<1>2. Settled
  <2>1. AllocateAt(Tail(todo)) \/ ReadTargetAt(Tail(todo))
    BY ReadyBefore DEF AccessDenied, OutOfResources, At
  <2> QED BY <2>1 DEF AllocateAt, ReadTargetAt, Writing
<1>3. Settled' /\ Kept
  BY <1>1, <1>2, FlashStays
<1>4. ControlInv'
  BY <1>1, <1>3 DEF ControlInv
<1>5. MemoryInv'
  BY <1>1, ProgramsTyped DEF MemoryInv, memory, Programs
<1> QED BY <1>3, <1>4, <1>5 DEF Good, FlashInv

\* The record of a write that has not been committed is changed.
LEMMA WritingGoesOn ==
  ASSUME Inv, Writing, NEW r \in RecordType, ~r.WriteCompleted, ~r.SpareCompleted,
         FtwWorkSpace' = [FtwWorkSpace EXCEPT !.record[FtwLastRecord] = r],
         flash' = [flash EXCEPT ![Work].space =
                     [flash[Work].space EXCEPT !.record[FtwLastRecord] = r]],
         UNCHANGED <<FtwLastRecord, MyBuffer, SpareBuffer, call>>
  PROVE  /\ Writing' /\ Record' = r /\ Kept /\ FlashInv'
         /\ todo' \in Programs => MemoryInv'
<1> DEFINE i == FtwLastRecord
           space == [flash[Work].space EXCEPT !.record[i] = r]
<1>1. /\ MemoryInv /\ Settled /\ Synced /\ Serving /\ i <= Slots
      /\ Recorded(flash[Work].space) /\ flash[Work].space.WorkingBlockValid
      /\ FtwWorkSpace.record = flash[Work].space.record
  BY DEF Inv, Writing, Settled, Live, Synced
<1>2. i \in 1..(Slots + 1) /\ i = FtwGetLastRecord(flash[Work].space)
  BY <1>1, SyncedRecord
<1>3. /\ flash' \in [Areas -> AreaType] /\ FtwWorkSpace' \in SpaceType
      /\ flash'[Work].space \in SpaceType
      /\ flash'[Work].space.record = [flash[Work].space.record EXCEPT ![i] = r]
      /\ flash'[Work].space.WorkingBlockValid = flash[Work].space.WorkingBlockValid
      /\ FtwWorkSpace'.record = flash'[Work].space.record
      /\ FtwWorkSpace'.WorkingBlockValid = FtwWorkSpace.WorkingBlockValid
      /\ FtwWorkSpace'.record[i] = r
  BY <1>1, <1>2, RecordChanges
<1>4. /\ Recorded(flash'[Work].space) /\ FtwGetLastRecord(flash'[Work].space) = i
      /\ LastRecord(flash'[Work].space) = r
  <2>1. flash[Work].space \in SpaceType /\ FtwGetLastRecord(flash[Work].space) <= Slots
    BY <1>1, <1>2, WorkSpaceTyped
  <2>2. flash'[Work].space.record
          = [flash[Work].space.record EXCEPT ![FtwGetLastRecord(flash[Work].space)] = r]
    BY <1>2, <1>3
  <2>3. r.SpareCompleted => r.target \in Named
    OBVIOUS
  <2> DEFINE old == flash[Work].space
             new == flash'[Work].space
  <2>4. /\ old \in SpaceType /\ Recorded(old) /\ FtwGetLastRecord(old) <= Slots
        /\ new.record = [old.record EXCEPT ![FtwGetLastRecord(old)] = r]
    BY <1>1, <2>1, <2>2
  <2> HIDE DEF old, new
  <2>5. /\ Recorded(new) /\ LastRecord(new) = r
        /\ FtwGetLastRecord(new) = FtwGetLastRecord(old)
    BY <2>3, <2>4, RecordUpdated
  <2> QED BY <1>2, <2>5 DEF old, new
<1>5. flash'[Work].space = space
  BY <1>1, AreasProperties DEF MemoryInv, AreaType
<1>6. Settled' /\ Kept
  BY <1>1, <1>3, <1>4, <1>5, WorkSpaceChanges
<1>7. Synced' /\ Record' = r
  BY <1>1, <1>3, <1>4 DEF Synced, Record
<1>8. Writing'
  BY <1>1, <1>6, <1>7 DEF Writing, Serving
<1>9. todo' \in Programs => MemoryInv'
  BY <1>1, <1>3 DEF MemoryInv, Programs
<1> QED BY <1>6, <1>7, <1>8, <1>9 DEF FlashInv

LEMMA AllocateStep == ASSUME OneBlock, Inv, Allocate PROVE Good
<1> DEFINE rest == Tail(todo)
           r == [FtwWorkSpace.record[FtwLastRecord] EXCEPT !.WriteAllocated = TRUE]
<1>1. rest \in Programs /\ AllocateAt(rest) /\ todo' = rest
  BY ReadyBefore, JoinProperties DEF Allocate, At, Goes, Go, Join
<1>2. rest = ToWriteRecord /\ Writing
  BY <1>1 DEF AllocateAt
<1>3. FtwWorkSpace.record = flash[Work].space.record
  BY <1>2 DEF Writing, Synced
<1>4. r \in RecordType /\ ~r.WriteCompleted /\ ~r.SpareCompleted
  <2>1. Record \in RecordType /\ ~Record.WriteCompleted
    BY <1>2, SyncedRecord DEF Inv, Writing, Settled, Live
  <2> QED BY <2>1 DEF Allocate, Record, RecordType
<1>5. /\ FtwWorkSpace' = [FtwWorkSpace EXCEPT !.record[FtwLastRecord] = r]
      /\ flash' = [flash EXCEPT ![Work].space =
                     [flash[Work].space EXCEPT !.record[FtwLastRecord] = r]]
      /\ UNCHANGED <<FtwLastRecord, MyBuffer, SpareBuffer, call>>
  BY <1>3 DEF Allocate, SetSpace
<1> HIDE DEF r
<1>6. Writing' /\ Kept /\ FlashInv' /\ MemoryInv'
  BY <1>1, <1>2, <1>4, <1>5, WritingGoesOn
<1>7. WriteRecordAt(ToReadTarget)'
  BY <1>6 DEF WriteRecordAt
<1>8. ControlInv'
  BY <1>1, <1>2, <1>7, ReadyAfter, ProgramsTyped DEF ToWriteRecord
<1> QED BY <1>6, <1>8 DEF Good

LEMMA WriteRecordStep == ASSUME OneBlock, Inv, WriteRecord PROVE Good
<1> DEFINE rest == Tail(todo)
           r == [FtwWorkSpace.record[FtwLastRecord] EXCEPT !.target = call.area]
<1>1. rest \in Programs /\ WriteRecordAt(rest) /\ todo' = rest
  BY ReadyBefore, JoinProperties DEF WriteRecord, At, Goes, Go, Join
<1>2. rest = ToReadTarget /\ Writing
  BY <1>1 DEF WriteRecordAt
<1>3. FtwWorkSpace.record = flash[Work].space.record /\ call.area \in Targets \cup {Work}
  BY <1>2 DEF Writing, Synced, Serving, Named
<1>4. r \in RecordType /\ ~r.WriteCompleted /\ ~r.SpareCompleted /\ r.target = call.area
  <2>1. Record \in RecordType /\ ~Record.WriteCompleted /\ ~Record.SpareCompleted
    BY <1>2, SyncedRecord DEF Inv, Writing, Settled, Live
  <2> QED BY <1>3, <2>1 DEF Record, RecordType
<1>5. /\ FtwWorkSpace' = [FtwWorkSpace EXCEPT !.record[FtwLastRecord] = r]
      /\ UNCHANGED <<FtwLastRecord, MyBuffer, SpareBuffer, call>>
  BY DEF WriteRecord
<1>6. flash' = [flash EXCEPT ![Work].space =
                  [flash[Work].space EXCEPT !.record[FtwLastRecord] = r]]
  <2>1. FtwWorkSpace'.record[FtwLastRecord] = r
    <3>1. FtwWorkSpace \in SpaceType /\ FtwLastRecord \in 1..(Slots + 1)
      BY DEF Inv, MemoryInv
    <3> HIDE DEF r
    <3> QED BY <1>5, <3>1 DEF SpaceType
  <2> HIDE DEF r
  <2> QED BY <2>1 DEF WriteRecord, SetSpace
<1> HIDE DEF r
<1>7. Writing' /\ Kept /\ FlashInv' /\ MemoryInv' /\ Record' = r
  BY <1>1, <1>2, <1>4, <1>5, <1>6, WritingGoesOn
<1>8. ReadTargetAt(ToEraseSpare)'
  BY <1>4, <1>5, <1>7 DEF ReadTargetAt
<1>9. ControlInv'
  BY <1>1, <1>2, <1>8, ReadyAfter, ProgramsTyped DEF ToReadTarget
<1> QED BY <1>7, <1>9 DEF Good

LEMMA ReadTargetStep == ASSUME OneBlock, Inv, ReadTarget PROVE Good
<1> DEFINE rest == Tail(todo)
           old  == flash[call.area]
           data == [old.data EXCEPT ![call.block] = call.value]
<1>1. rest \in Programs /\ ReadTargetAt(rest) /\ todo' = rest
  BY ReadyBefore, JoinProperties DEF ReadTarget, At, Goes, Go, Join
<1>2. rest = ToEraseSpare /\ Writing /\ Record.target = call.area /\ Serving /\ Settled
  BY <1>1 DEF ReadTargetAt, Writing
<1>3. /\ MemoryInv /\ flash' = flash /\ SpareBuffer' = flash[Spare] /\ call' = call
      /\ FtwWorkSpace' = FtwWorkSpace /\ FtwLastRecord' = FtwLastRecord
  BY DEF Inv, ReadTarget
<1>4. old \in AreaType /\ call.block \in Blocks /\ call.value \in Data /\ call.area \in Named
  BY <1>2, <1>3, AreasProperties DEF Serving, MemoryInv
<1>5. data \in Contents
  BY <1>4 DEF AreaType, Contents
<1>6. MyBuffer' = [old EXCEPT !.data = data]
  BY DEF ReadTarget
<1> HIDE DEF data
<1>7. MyBuffer' \in AreaType /\ MyBuffer'.data = data /\ MyBuffer'.space = old.space
  BY <1>4, <1>5, <1>6 DEF AreaType
<1>8. Settled' /\ Kept
  BY <1>2, <1>3, FlashStays
<1>9. Buffered'
  <2>1. Writing' /\ Record' = Record
    BY <1>2, <1>3, <1>8 DEF Writing, Synced, Serving, Record
  <2> QED BY <1>2, <1>3, <1>7, <2>1 DEF Buffered, data
<1>10. EraseAt(Spare, ToFillSpare)'
  BY <1>9 DEF EraseAt
<1>11. ControlInv'
  BY <1>1, <1>2, <1>10, ReadyAfterAt, ProgramsTyped, AreasProperties DEF ToEraseSpare
<1>12. MemoryInv'
  <2>1. flash[Spare] \in AreaType
    BY <1>3, AreasProperties DEF MemoryInv
  <2> QED BY <1>1, <1>3, <1>7, <2>1 DEF MemoryInv, Programs
<1> QED BY <1>8, <1>11, <1>12 DEF Good, FlashInv

LEMMA FinishingStarts ==
  ASSUME OneBlock, NEW k \in {WriteEnds, RestartEnds}, Replacing(k)',
         NEW area \in Named, Target' = area,
         todo' = IF area = Work THEN Then("SpareRecord", Flush(Complete(k))) ELSE Replace(area, k)
  PROVE  todo' \in Programs /\ ControlInv'
<1>1. k \in Programs
  BY ProgramsTyped
<1>2. CASE area = Work
  <2>1. SpareRecordAt(Flush(Complete(k)))'
    BY <1>2 DEF SpareRecordAt
  <2>2. Flush(Complete(k)) \in Programs
    BY <1>1, ProgramsTyped
  <2>3. todo' = Then("SpareRecord", Flush(Complete(k)))
    BY <1>2
  <2> QED BY <2>1, <2>2, <2>3, ReadyAfter DEF Operations
<1>3. CASE area # Work
  <2> DEFINE next == ThenAt("Erase", area, FillTarget(area, k))
  <2>1. area \in Targets /\ area \in Areas
    BY <1>3, AreasProperties DEF Named
  <2>2. ReadSpareAt(next)'
    BY <2>1 DEF ReadSpareAt
  <2>3. next \in Programs
    BY <1>1, <2>1, ProgramsTyped
  <2>4. todo' = Then("ReadSpare", next)
    BY <1>3 DEF Replace
  <2> HIDE DEF next
  <2> QED BY <2>2, <2>3, <2>4, ReadyAfter DEF Operations
<1> QED BY <1>2, <1>3

\* The one step that changes what is recovered: a block of one area.
Moved ==
  /\ Serving
  /\ \A area \in Named :
       Recoverable(area)' = IF area = call.area
                            THEN [Recoverable(area) EXCEPT ![call.block] = call.value]
                            ELSE Recoverable(area)

LEMMA SpareCompletedStep ==
  ASSUME OneBlock, Inv, SpareCompleted
  PROVE  MemoryInv' /\ FlashInv' /\ ControlInv' /\ Moved
<1> DEFINE i == FtwLastRecord
           r == [FtwWorkSpace.record[i] EXCEPT !.SpareCompleted = TRUE]
<1>1. SpareCompletedAt(Tail(todo))
  BY ReadyBefore DEF SpareCompleted, At
<1>2. /\ Tail(todo) = <<>> /\ Buffered /\ Writing /\ Settled /\ Synced /\ Serving
      /\ flash[Spare].data = MyBuffer.data
      /\ flash[Spare].space.record = MyBuffer.space.record
      /\ Record.target = call.area /\ i <= Slots
  BY <1>1 DEF SpareCompletedAt, Buffered, Writing
<1>3. /\ MemoryInv /\ FtwLastRecord' = i /\ call' = call
      /\ MyBuffer' = MyBuffer /\ SpareBuffer' = SpareBuffer
  BY DEF Inv, SpareCompleted
<1>4. /\ Recorded(flash[Work].space) /\ i = FtwGetLastRecord(flash[Work].space)
      /\ i \in 1..(Slots + 1) /\ Record \in RecordType /\ ~Record.WriteCompleted
      /\ FtwWorkSpace.record = flash[Work].space.record
      /\ call.area \in Named
  BY <1>2, <1>3, SyncedRecord DEF Settled, Live, Synced, Serving
<1>5. r \in RecordType /\ ~r.WriteCompleted /\ r.SpareCompleted /\ r.target = call.area
  BY <1>2, <1>4 DEF Record, RecordType
<1>6. /\ FtwWorkSpace' = [FtwWorkSpace EXCEPT !.record[i] = r]
      /\ flash' = [flash EXCEPT ![Work].space = [flash[Work].space EXCEPT !.record[i] = r]]
  BY <1>4 DEF SpareCompleted, SetSpace
<1>7. [flash[Work].space.record EXCEPT ![i].SpareCompleted = TRUE]
        = [flash[Work].space.record EXCEPT ![i] = r]
  BY <1>4
<1> HIDE DEF r
<1>8. /\ flash' \in [Areas -> AreaType] /\ FtwWorkSpace' \in SpaceType
      /\ flash'[Work].data = flash[Work].data
      /\ \A b \in Areas : b # Work => flash'[b] = flash[b]
      /\ flash'[Work].space.record = [flash[Work].space.record EXCEPT ![i] = r]
      /\ flash'[Work].space.WorkingBlockValid = flash[Work].space.WorkingBlockValid
      /\ FtwWorkSpace'.record = flash'[Work].space.record
      /\ FtwWorkSpace'.WorkingBlockValid = FtwWorkSpace.WorkingBlockValid
  BY <1>3, <1>4, <1>5, <1>6, RecordChanges
<1>9. flash'[Spare] = flash[Spare] /\ \A b \in Areas : flash'[b].data = flash[b].data
  BY <1>8, AreasProperties, AreasApart
<1>10. /\ Recorded(flash'[Work].space) /\ FtwGetLastRecord(flash'[Work].space) = i
       /\ LastRecord(flash'[Work].space) = r
  <2> DEFINE old == flash[Work].space
             new == flash'[Work].space
  <2>1. /\ old \in SpaceType /\ Recorded(old) /\ FtwGetLastRecord(old) <= Slots
        /\ i = FtwGetLastRecord(old)
        /\ new.record = [old.record EXCEPT ![FtwGetLastRecord(old)] = r]
    BY <1>2, <1>3, <1>4, <1>8, WorkSpaceTyped
  <2>2. r.SpareCompleted => r.target \in Named
    BY <1>4, <1>5
  <2> HIDE DEF old, new
  <2>3. /\ Recorded(new) /\ LastRecord(new) = r
        /\ FtwGetLastRecord(new) = FtwGetLastRecord(old)
    BY <1>5, <2>1, <2>2, RecordUpdated
  <2> QED BY <2>1, <2>3 DEF old, new
<1>11. Target' = call.area
  BY <1>5, <1>10 DEF Target
<1>12. flash[Spare].data = [flash[call.area].data EXCEPT ![call.block] = call.value]
  BY <1>2 DEF Buffered
<1>13. /\ Whole(call.area) /\ call.block \in Blocks /\ call.value \in Data
  BY <1>2 DEF Settled, Live, Serving, Named
<1>14. Committed'
  <2>1. Live'
    BY <1>2, <1>8, <1>10 DEF Live, Settled, Whole
  <2>2. Whole(Spare)' /\ \A b \in Targets : Whole(b)'
    BY <1>2, <1>9, <1>12, <1>13, AreasProperties DEF Settled, Whole
  <2>3. call.area = Work =>
          [flash'[Spare].space.record EXCEPT ![i].SpareCompleted = TRUE] = flash'[Work].space.record
    BY <1>2, <1>7, <1>8, <1>9 DEF Buffered
  <2> QED BY <1>5, <1>10, <1>11, <2>1, <2>2, <2>3 DEF Committed
<1>15. Synced'
  BY <1>2, <1>3, <1>8, <1>10 DEF Synced
<1>16. flash[Spare].data[call.block] = call.value
  BY <1>12, <1>13 DEF Whole
<1>17. Replacing(WriteEnds)'
  BY <1>2, <1>3, <1>9, <1>11, <1>14, <1>15, <1>16 DEF Replacing, Finishing, Serving
<1>18. todo' = IF call.area = Work THEN Then("SpareRecord", Flush(Complete(WriteEnds)))
                                   ELSE Replace(call.area, WriteEnds)
  BY <1>2, <1>4, FinishingPrograms DEF SpareCompleted, Go
<1>19. todo' \in Programs /\ ControlInv'
  <2>1. PICK area \in Named : area = call.area
    BY <1>4
  <2> QED BY <1>11, <1>17, <1>18, <2>1, FinishingStarts
<1>20. Moved
  <2>1. \A b \in Named : Recoverable(b) = flash[b].data
    BY <1>2, RecoverableNow DEF RecoverableCases
  <2>2. \A b \in Named : Recoverable(b)' = flash'[IF b = Target' THEN Spare ELSE b].data
    BY <1>14, RecoverableNext DEF RecoverableCases
  <2> QED BY <1>2, <1>9, <1>11, <1>12, <2>1, <2>2, AreasProperties DEF Moved
<1>21. MemoryInv'
  BY <1>3, <1>8, <1>19 DEF MemoryInv, Programs
<1> QED BY <1>14, <1>19, <1>20, <1>21 DEF FlashInv

LEMMA SuccessStep == ASSUME OneBlock, Inv, Success PROVE Good
<1>1. /\ MemoryInv /\ flash' = flash /\ UNCHANGED memory /\ call' = None
      /\ Tail(todo) \in Programs /\ SuccessAt(Tail(todo)) /\ todo' = Tail(todo)
  BY ReadyBefore, JoinProperties DEF Inv, Success, At, Goes, Go, Join
<1>2. todo' = <<>> /\ Settled
  BY <1>1 DEF SuccessAt
<1>3. Settled' /\ Kept
  BY <1>1, <1>2, FlashStays
<1>4. ControlInv'
  BY <1>1, <1>2, <1>3 DEF ControlInv
<1>5. MemoryInv'
  BY <1>1 DEF MemoryInv, memory, Programs
<1> QED BY <1>3, <1>4, <1>5 DEF Good, FlashInv

-----------------------------------------------------------------------------
(* Booting.                                                                *)

LEMMA PowerFailureStep == ASSUME OneBlock, Inv, PowerFailure PROVE Good
<1>1. /\ FlashInv /\ flash' = flash /\ FtwWorkSpace' = ErasedSpace /\ FtwLastRecord' = 1
      /\ MyBuffer' = ErasedArea /\ SpareBuffer' = ErasedArea /\ call' = None /\ todo' = BootSteps
  BY DEF Inv, PowerFailure
<1>2. FlashInv' /\ Kept
  BY <1>1, FlashStays DEF FlashInv
<1>3. todo' = Then("Refresh", ToCheck) /\ ToCheck \in Programs
  BY <1>1, BootProgram, ProgramsTyped
<1>4. RefreshAt(ToCheck)'
  BY <1>1 DEF RefreshAt
<1>5. ControlInv' /\ todo' \in Programs
  BY <1>3, <1>4, ReadyAfter DEF Operations
<1>6. MemoryInv'
  BY <1>1, <1>5, ErasedTyped, SlotsProperties DEF Inv, MemoryInv, Programs
<1> QED BY <1>2, <1>5, <1>6 DEF Good

LEMMA SpaceIsValidStep == ASSUME OneBlock, Inv, SpaceIsValid PROVE Good
<1>1. /\ MemoryInv /\ FlashInv /\ flash' = flash /\ UNCHANGED memory /\ call' = call
      /\ Tail(todo) \in Programs /\ CheckSpaceAt(Tail(todo)) /\ todo' = Tail(todo)
  BY ReadyBefore, JoinProperties DEF Inv, SpaceIsValid, At, Goes, Go, Join
<1>2. todo' = ToAbort /\ call = None /\ Synced /\ FtwLastRecord <= Slots
  BY <1>1 DEF CheckSpaceAt
<1>3. Settled \/ Committed
  BY <1>1, <1>2, WorkRecorded DEF SpaceIsValid, IsValidWorkSpace, Synced
<1>4. (Settled' \/ Committed') /\ Kept
  BY <1>1, <1>3, FlashStays
<1>5. CheckAbortAt(ToRestart)'
  BY <1>1, <1>2, <1>4 DEF CheckAbortAt, Synced, memory
<1>6. ControlInv'
  BY <1>2, <1>5, ReadyAfter, ProgramsTyped DEF ToAbort
<1>7. MemoryInv'
  BY <1>1 DEF MemoryInv, memory, Programs
<1> QED BY <1>4, <1>6, <1>7 DEF Good, FlashInv

LEMMA SpaceFromSpareStep == ASSUME OneBlock, Inv, SpaceFromSpare PROVE Good
<1> DEFINE l == FtwGetLastRecord(flash[Spare].space)
<1>1. /\ MemoryInv /\ FlashInv /\ flash' = flash /\ call' = call
      /\ FtwWorkSpace' = flash[Spare].space /\ FtwLastRecord' = FtwLastRecord
      /\ MyBuffer' = MyBuffer /\ SpareBuffer' = SpareBuffer
      /\ CheckSpaceAt(Tail(todo))
  BY ReadyBefore DEF Inv, SpaceFromSpare, At
<1>2. /\ Tail(todo) = ToAbort /\ call = None /\ FtwLastRecord \in 1..(Slots + 1)
      /\ FtwLastRecord = FtwGetLastRecord(flash[Work].space)
  BY <1>1 DEF CheckSpaceAt, Synced, MemoryInv
<1>3. FromSpare
  <2>1. ~flash[Work].space.WorkingBlockValid /\ flash[Spare].space.WorkingBlockValid
    BY <1>1 DEF SpaceFromSpare, IsValidWorkSpace, CheckSpaceAt, Synced
  <2> QED BY <1>1, <2>1 DEF FlashInv, Settled, Committed, Live, Fresh
<1>4. FromSpare' /\ SpareIsCopy' /\ Kept
  BY <1>1, <1>3, FlashStays DEF FromSpare
<1>5. Recorded(flash[Spare].space) /\ l \in 1..(Slots + 1)
  BY <1>3, RecordedRange DEF FromSpare, SpareIsCopy
<1>6. FtwLastRecord = l \/ flash[Spare].space.record[FtwLastRecord].WriteCompleted
  <2>1. CASE NoRecords(flash[Work].space)
    <3>1. FtwLastRecord = 1
      BY <1>2, <2>1, NoRecordsLast
    <3>2. l = 1 \/ 1 \in 1..(l - 1)
      BY <1>5, SlotsProperties
    <3> QED BY <1>5, <3>1, <3>2 DEF Recorded
  <2>2. CASE flash[Work].space.record = flash[Spare].space.record
    BY <1>2, <1>5, <2>2, RecordsEqual
  <2> QED BY <1>3, <2>1, <2>2 DEF FromSpare
<1>7. FlushEnds(AbortSpare)'
  BY <1>1, <1>2, <1>6 DEF FlushEnds, Record
<1>8. FlushInv(AbortSpare)'
  BY <1>1, <1>4, <1>7 DEF FlushInv
<1>9. todo' = Then("SpareValid", Then("WorkInvalid", ReplaceWork(AbortSpare)))
  BY <1>2, FlushAndAbortProgram DEF SpaceFromSpare, Go, Flush
<1>10. SpareValidAt(Then("WorkInvalid", ReplaceWork(AbortSpare)))'
  BY <1>8 DEF SpareValidAt, Ends
<1>11. ControlInv' /\ todo' \in Programs
  <2>1. Then("WorkInvalid", ReplaceWork(AbortSpare)) \in Programs
    BY ProgramsTyped
  <2> QED BY <1>9, <1>10, <2>1, ReadyAfter DEF Operations
<1>12. MemoryInv'
  BY <1>1, <1>11, WorkSpaceTyped DEF MemoryInv, Programs
<1> QED BY <1>4, <1>11, <1>12 DEF Good, FlashInv

LEMMA SpaceIsNewStep == ASSUME OneBlock, Inv, SpaceIsNew PROVE Good
<1> DEFINE space == InitWorkSpaceHeader(ErasedSpace)
<1>1. /\ MemoryInv /\ FlashInv /\ call' = call /\ FtwLastRecord' = FtwLastRecord
      /\ FtwWorkSpace' = space /\ flash' = [flash EXCEPT ![Work].space = space]
      /\ MyBuffer' = MyBuffer /\ SpareBuffer' = SpareBuffer
      /\ Tail(todo) \in Programs /\ CheckSpaceAt(Tail(todo)) /\ todo' = Tail(todo)
  BY ReadyBefore, JoinProperties DEF Inv, SpaceIsNew, SetSpace, At, Goes, Go, Join
<1>2. /\ todo' = ToAbort /\ call = None /\ FtwLastRecord <= Slots
      /\ FtwLastRecord = FtwGetLastRecord(flash[Work].space)
  BY <1>1 DEF CheckSpaceAt, Synced
<1>3. Fresh
  <2>1. ~flash[Work].space.WorkingBlockValid /\ ~flash[Spare].space.WorkingBlockValid
    BY <1>1 DEF SpaceIsNew, IsValidWorkSpace, CheckSpaceAt, Synced
  <2> QED BY <1>1, <2>1 DEF FlashInv, Settled, Committed, Live, FromSpare
<1>4. space \in SpaceType /\ NoRecords(space) /\ space.WorkingBlockValid
  BY ErasedTyped DEF InitWorkSpaceHeader, SpaceType, NoRecords
<1> HIDE DEF space
<1>5. /\ flash' \in [Areas -> AreaType]
      /\ flash'[Work].data = flash[Work].data /\ flash'[Work].space = space
      /\ \A b \in Areas : b # Work => flash'[b] = flash[b]
  BY <1>1, <1>4, SetSpaceProperties, AreasProperties
<1>6. /\ Recorded(space) /\ FtwGetLastRecord(space) = 1 /\ FtwLastRecord = 1
      /\ ~LastRecord(space).SpareCompleted
  BY <1>2, <1>3, <1>4, NoRecordsLast, ErasedTyped DEF Fresh
<1>7. \A b \in Named : flash'[b].data = flash[b].data
  BY <1>5, AreasProperties
<1>8. Settled'
  BY <1>3, <1>4, <1>5, <1>6, <1>7 DEF Settled, Live, Fresh, Whole, Named
<1>9. Synced'
  BY <1>1, <1>5, <1>6 DEF Synced
<1>10. CheckAbortAt(ToRestart)'
  BY <1>1, <1>2, <1>8, <1>9 DEF CheckAbortAt
<1>11. ControlInv'
  BY <1>2, <1>10, ReadyAfter, ProgramsTyped DEF ToAbort
<1>12. Kept
  <2>1. \A b \in Named : Recoverable(b) = flash[b].data
    BY <1>3, RecoverableNow DEF RecoverableCases
  <2>2. \A b \in Named : Recoverable(b)' = flash'[b].data
    BY <1>8, RecoverableNext DEF RecoverableCases
  <2> QED BY <1>7, <2>1, <2>2 DEF Kept
<1>13. MemoryInv'
  BY <1>1, <1>4, <1>5 DEF MemoryInv, Programs
<1> QED BY <1>8, <1>11, <1>12, <1>13 DEF Good, FlashInv

LEMMA CheckAbortStep == ASSUME OneBlock, Inv, CheckAbort PROVE Good
<1>1. /\ MemoryInv /\ flash' = flash /\ UNCHANGED memory /\ call' = call
      /\ CheckAbortAt(Tail(todo))
  BY ReadyBefore DEF Inv, CheckAbort, At
<1>2. /\ Tail(todo) = ToRestart /\ call = None /\ Synced /\ FtwLastRecord <= Slots
      /\ Settled \/ Committed
  BY <1>1 DEF CheckAbortAt
<1>3. (Settled' <=> Settled) /\ (Committed' <=> Committed) /\ Kept
  BY <1>1, FlashStays
<1>4. Synced' /\ FtwLastRecord' = FtwLastRecord /\ Record' = Record
  BY <1>1, <1>2 DEF Synced, Record, memory
<1>5. Record = LastRecord(flash[Work].space)
  BY <1>1, <1>2, SyncedRecord DEF Settled, Committed, Live
<1>6. CASE Record.WriteAllocated /\ ~Record.SpareCompleted
  <2>1. Settled
    BY <1>2, <1>5, <1>6 DEF Committed
  <2>2. todo' = Then("Abort", ToRestart)
    BY <1>2, <1>6, FlushAndAbortProgram DEF CheckAbort, Go
  <2>3. AbortAt(ToRestart)'
    BY <1>1, <1>2, <1>3, <1>4, <2>1 DEF AbortAt
  <2>4. ControlInv' /\ todo' \in Programs
    BY <2>2, <2>3, ReadyAfter, ProgramsTyped DEF Operations
  <2>5. MemoryInv'
    BY <1>1, <2>4 DEF MemoryInv, memory, Programs
  <2> QED BY <1>3, <2>1, <2>4, <2>5 DEF Good, FlashInv
<1>7. CASE ~(Record.WriteAllocated /\ ~Record.SpareCompleted)
  <2>1. todo' = ToRestart
    BY <1>2, <1>7, JoinProperties, ProgramsTyped DEF CheckAbort, Go, Join
  <2>2. CheckRestartAt(ToBooted)'
    BY <1>1, <1>2, <1>3, <1>4, <1>7 DEF CheckRestartAt
  <2>3. ControlInv' /\ todo' \in Programs
    BY <2>1, <2>2, ReadyAfter, ProgramsTyped DEF ToRestart
  <2>4. MemoryInv'
    BY <1>1, <2>3 DEF MemoryInv, memory, Programs
  <2> QED BY <1>2, <1>3, <2>3, <2>4 DEF Good, FlashInv
<1> QED BY <1>6, <1>7

LEMMA CheckRestartStep == ASSUME OneBlock, Inv, CheckRestart PROVE Good
<1>1. /\ MemoryInv /\ flash' = flash /\ UNCHANGED memory /\ call' = call
      /\ CheckRestartAt(Tail(todo))
  BY ReadyBefore DEF Inv, CheckRestart, At
<1>2. /\ Tail(todo) = ToBooted /\ call = None /\ Synced /\ (Settled \/ Committed)
      /\ Record.WriteAllocated => Record.SpareCompleted
  BY <1>1 DEF CheckRestartAt
<1>3. (Settled' <=> Settled) /\ (Committed' <=> Committed) /\ Kept /\ Target' = Target
  BY <1>1, FlashStays
<1>4. Synced' /\ Record' = Record
  BY <1>1, <1>2 DEF Synced, Record, memory
<1>5. Record = LastRecord(flash[Work].space) /\ ~Record.WriteCompleted
      /\ (Record.SpareCompleted => Record.target \in Named)
  BY <1>1, <1>2, SyncedRecord DEF Settled, Committed, Live
<1>6. ASSUME todo' \in Programs, ControlInv' PROVE Good
  <2>1. MemoryInv'
    BY <1>1, <1>6 DEF MemoryInv, memory, Programs
  <2> QED BY <1>2, <1>3, <1>6, <2>1 DEF Good, FlashInv
<1>7. CASE Record.SpareCompleted
  <2>1. Committed
    BY <1>2, <1>5, <1>7 DEF Settled
  <2>2. Target = Record.target
    BY <1>5 DEF Target
  <2>3. Replacing(RestartEnds)'
    BY <1>1, <1>2, <1>3, <1>4, <2>1 DEF Replacing, Finishing
  <2>4. PICK area \in Named : area = Record.target
    BY <1>5, <1>7
  <2>5. todo' = (FtwWriteRecord(area) \o Erase(Spare)) \o ToBooted
    BY <1>2, <1>5, <1>7, <2>4 DEF CheckRestart, Go
  <2>6. todo' = IF area = Work THEN Then("SpareRecord", Flush(Complete(RestartEnds)))
                               ELSE Replace(area, RestartEnds)
    BY <2>5, FinishingPrograms
  <2> QED BY <1>3, <1>6, <2>2, <2>3, <2>4, <2>6, FinishingStarts
<1>8. CASE ~Record.SpareCompleted
  <2>1. Settled
    BY <1>2, <1>5, <1>8 DEF Committed
  <2>2. todo' = ToBooted
    BY <1>2, <1>8, JoinProperties, ProgramsTyped DEF CheckRestart, Go, Join
  <2>3. BootedAt(<<>>)'
    BY <1>1, <1>2, <1>3, <1>4, <1>8, <2>1 DEF BootedAt, Freed
  <2> QED BY <1>6, <2>2, <2>3, ReadyAfter, ProgramsTyped DEF ToBooted
<1> QED BY <1>7, <1>8

LEMMA BootedStep == ASSUME OneBlock, Inv, Booted PROVE Good
<1>1. /\ MemoryInv /\ flash' = flash /\ UNCHANGED memory /\ call' = call
      /\ Tail(todo) \in Programs /\ BootedAt(Tail(todo)) /\ todo' = Tail(todo)
  BY ReadyBefore, JoinProperties DEF Inv, Booted, At, Goes, Go, Join
<1>2. todo' = <<>> /\ Settled /\ call = None
  BY <1>1 DEF BootedAt, Freed
<1>3. Settled' /\ Kept
  BY <1>1, <1>2, FlashStays
<1>4. ControlInv'
  BY <1>1, <1>2, <1>3 DEF ControlInv
<1>5. MemoryInv'
  BY <1>1 DEF MemoryInv, memory, Programs
<1> QED BY <1>3, <1>4, <1>5 DEF Good, FlashInv

\* The record of a write that was abandoned is completed.
LEMMA RecordAborted ==
  ASSUME Inv, Abort, call = None, FtwWorkSpace.record = flash[Work].space.record,
         FtwLastRecord = FtwGetLastRecord(FtwWorkSpace), FtwLastRecord <= Slots,
         Settled \/ (Committed /\ Target = Work /\ flash[Work].data = flash[Spare].data)
  PROVE  /\ Settled' /\ Kept /\ FtwWorkSpace'.record = flash'[Work].space.record
         /\ FtwWorkSpace'.WorkingBlockValid = FtwWorkSpace.WorkingBlockValid
         /\ flash'[Work].space.WorkingBlockValid = flash[Work].space.WorkingBlockValid
         /\ FtwLastRecord' = FtwGetLastRecord(flash'[Work].space)
         /\ Record' = EmptyRecord
         /\ todo' \in Programs => MemoryInv'
<1> DEFINE i == FtwLastRecord
           r == [FtwWorkSpace.record[i] EXCEPT !.WriteCompleted = TRUE]
           old == flash[Work].space
           new == flash'[Work].space
<1>1. /\ MemoryInv /\ FtwLastRecord' = FtwGetLastRecord(FtwWorkSpace') /\ call' = call
      /\ MyBuffer' = MyBuffer /\ SpareBuffer' = SpareBuffer
  BY DEF Inv, Abort
<1>2. Recorded(old) /\ old.WorkingBlockValid /\ old \in SpaceType /\ Whole(Work)
  BY <1>1, WorkSpaceTyped DEF Settled, Committed, Live
<1>3. i = FtwGetLastRecord(old) /\ i \in 1..(Slots + 1)
  <2>1. FtwGetLastRecord(FtwWorkSpace) = FtwGetLastRecord(old)
    BY <1>2, RecordsEqual
  <2> QED BY <1>1, <2>1 DEF MemoryInv
<1>4. r \in RecordType /\ r.WriteCompleted
  <2>1. FtwWorkSpace.record[i] \in RecordType
    BY <1>1, <1>3 DEF MemoryInv, SpaceType, RecordType
  <2> QED BY <2>1 DEF RecordType
<1>5. /\ FtwWorkSpace' = [FtwWorkSpace EXCEPT !.record[i] = r]
      /\ flash' = [flash EXCEPT ![Work].space = [flash[Work].space EXCEPT !.record[i] = r]]
  BY DEF Abort, SetSpace
<1> HIDE DEF r
<1>6. /\ flash' \in [Areas -> AreaType] /\ FtwWorkSpace' \in SpaceType
      /\ flash'[Work].data = flash[Work].data
      /\ \A b \in Areas : b # Work => flash'[b] = flash[b]
      /\ new.record = [old.record EXCEPT ![i] = r]
      /\ new.WorkingBlockValid = old.WorkingBlockValid
      /\ FtwWorkSpace'.record = new.record
      /\ FtwWorkSpace'.WorkingBlockValid = FtwWorkSpace.WorkingBlockValid
  BY <1>1, <1>3, <1>4, <1>5, RecordChanges
<1> HIDE DEF old, new
<1>7. Recorded(new) /\ FtwGetLastRecord(new) = i + 1 /\ LastRecord(new) = EmptyRecord
  BY <1>2, <1>3, <1>4, <1>6, RecordCompleted
<1>8. /\ FtwGetLastRecord(FtwWorkSpace') = FtwGetLastRecord(new)
      /\ Recorded(FtwWorkSpace')
  BY <1>6, <1>7, RecordsEqual
<1>9. \A b \in Areas : flash'[b].data = flash[b].data
  BY <1>6
<1>10. Settled'
  <2>1. \A b \in Targets : Whole(b)'
    BY <1>9, AreasProperties, AreasApart DEF Settled, Committed, Whole
  <2>2. Live'
    BY <1>2, <1>6, <1>7 DEF Live, Whole, new
  <2> QED BY <1>7, <2>1, <2>2, ErasedTyped DEF Settled, new
<1>11. Kept
  <2>1. \A b \in Named : Recoverable(b) = flash[b].data
    <3>1. CASE Settled
      BY <3>1, RecoverableNow DEF RecoverableCases
    <3>2. CASE Committed /\ Target = Work /\ flash[Work].data = flash[Spare].data
      BY <3>2, RecoverableNow DEF RecoverableCases
    <3> QED BY <3>1, <3>2
  <2>2. \A b \in Named : Recoverable(b)' = flash'[b].data
    BY <1>10, RecoverableNext DEF RecoverableCases
  <2> QED BY <1>9, <2>1, <2>2, AreasProperties DEF Kept
<1>12. FtwLastRecord' = FtwGetLastRecord(new) /\ Record' = EmptyRecord
  BY <1>1, <1>6, <1>7, <1>8 DEF Record, LastRecord
<1>13. todo' \in Programs => MemoryInv'
  BY <1>1, <1>6, <1>8, <1>12, RecordedRange DEF MemoryInv, Programs
<1> QED BY <1>6, <1>10, <1>11, <1>12, <1>13 DEF old, new

LEMMA AbortStep == ASSUME OneBlock, Inv, Abort PROVE Good
<1>1. /\ MemoryInv /\ AbortAt(Tail(todo)) /\ Tail(todo) \in Programs /\ call' = call
      /\ ~Record.WriteCompleted
  BY ReadyBefore DEF Inv, Abort, At
<1>2. todo' = ThenAt("Erase", Spare, Tail(todo))
  BY <1>1, EraseProperties, AreasProperties DEF Abort, Go, Join
<1>3. CASE Tail(todo) = ToRestart /\ call = None /\ Synced /\ FtwLastRecord <= Slots /\ Settled
  <2>1. FtwWorkSpace.record = flash[Work].space.record
    BY <1>3 DEF Synced
  <2>2. FtwLastRecord = FtwGetLastRecord(FtwWorkSpace)
    BY <1>3, <2>1, RecordsEqual DEF Synced, Settled, Live
  <2>3. /\ Settled' /\ Kept /\ FtwWorkSpace'.record = flash'[Work].space.record
        /\ FtwWorkSpace'.WorkingBlockValid = FtwWorkSpace.WorkingBlockValid
        /\ flash'[Work].space.WorkingBlockValid = flash[Work].space.WorkingBlockValid
        /\ FtwLastRecord' = FtwGetLastRecord(flash'[Work].space)
        /\ Record' = EmptyRecord
        /\ todo' \in Programs => MemoryInv'
    BY <1>3, <2>1, <2>2, RecordAborted
  <2>4. Freed'
    BY <1>1, <1>3, <2>3, ErasedTyped DEF Freed, Synced
  <2>5. EraseAt(Spare, ToRestart)'
    BY <2>4 DEF EraseAt
  <2>6. ControlInv' /\ todo' \in Programs
    BY <1>2, <1>3, <2>5, ReadyAfterAt, ProgramsTyped, AreasProperties
  <2> QED BY <2>3, <2>6 DEF Good, FlashInv
<1>4. CASE /\ Tail(todo) = ToRefresh /\ call = None
           /\ Settled \/ (Committed /\ Target = Work /\ flash[Work].data = flash[Spare].data)
           /\ FtwWorkSpace.record = flash[Work].space.record
           /\ FtwGetLastRecord(FtwWorkSpace) <= Slots
           /\ FtwLastRecord = FtwGetLastRecord(FtwWorkSpace)
  <2>1. Settled' /\ Kept /\ (todo' \in Programs => MemoryInv')
    BY <1>4, RecordAborted
  <2>2. EraseAt(Spare, ToRefresh)'
    BY <1>1, <1>4, <2>1 DEF EraseAt
  <2>3. ControlInv' /\ todo' \in Programs
    BY <1>2, <1>4, <2>2, ReadyAfterAt, ProgramsTyped, AreasProperties
  <2> QED BY <2>1, <2>3 DEF Good, FlashInv
<1> QED BY <1>1, <1>3, <1>4 DEF AbortAt

LEMMA AbortNotFoundStep == ASSUME OneBlock, Inv, AbortNotFound PROVE Good
<1>1. /\ MemoryInv /\ flash' = flash /\ UNCHANGED memory /\ call' = call
      /\ Tail(todo) \in Programs /\ AbortAt(Tail(todo)) /\ todo' = Tail(todo)
      /\ Record.WriteCompleted
  BY ReadyBefore, JoinProperties DEF Inv, AbortNotFound, At, Goes, Go, Join
<1>2. Synced /\ Settled => ~Record.WriteCompleted
  BY <1>1, SyncedRecord DEF Settled, Live
<1>3. todo' = ToRefresh /\ call = None /\ (Settled \/ Committed)
  BY <1>1, <1>2 DEF AbortAt
<1>4. (Settled' \/ Committed') /\ Kept
  BY <1>1, <1>3, FlashStays
<1>5. RefreshAt(ToAbort)'
  BY <1>1, <1>3, <1>4 DEF RefreshAt
<1>6. ControlInv'
  BY <1>3, <1>5, ReadyAfter, ProgramsTyped DEF ToRefresh
<1>7. MemoryInv'
  BY <1>1 DEF MemoryInv, memory, Programs
<1> QED BY <1>4, <1>6, <1>7 DEF Good, FlashInv

LEMMA ControlStays == ASSUME ControlInv, UNCHANGED vars PROVE ControlInv'
<1>1. /\ flash' = flash /\ FtwWorkSpace' = FtwWorkSpace /\ FtwLastRecord' = FtwLastRecord
      /\ MyBuffer' = MyBuffer /\ call' = call /\ todo' = todo
  BY DEF vars, memory
<1>2. /\ Settled => Settled'
      /\ Committed => Committed'
      /\ FromSpare => FromSpare'
      /\ SpareIsCopy => SpareIsCopy'
      /\ Target' = Target
  BY <1>1, FlashStays
<1>3. Record' = Record /\ (Synced => Synced') /\ (Serving => Serving')
  BY <1>1 DEF Record, Synced, Serving
<1>4. \A k : Caller(k) => Caller(k)'
  BY <1>1, <1>3 DEF Caller
<1>5. /\ Cleaned => Cleaned'
      /\ Freed => Freed'
      /\ Writing => Writing'
  BY <1>1, <1>2, <1>3 DEF Cleaned, Freed, Writing
<1>6. Buffered => Buffered'
  BY <1>1, <1>3, <1>5 DEF Buffered
<1>7. \A k : FlushEnds(k) => FlushEnds(k)'
  BY <1>1, <1>3, <1>4 DEF FlushEnds
<1>8. \A k : FlushInv(k) => FlushInv(k)'
  BY <1>1, <1>2, <1>7 DEF FlushInv
<1>9. \A k : FlushMarked(k) => FlushMarked(k)'
  BY <1>1, <1>8 DEF FlushMarked
<1>10. \A k : Replacing(k) => Replacing(k)'
  BY <1>1, <1>2, <1>3 DEF Replacing, Finishing
<1>11. \A k : RestoringAt(k) => RestoringAt(k)'
  BY <1>1, <1>2, <1>3, <1>4 DEF RestoringAt
<1>12. \A rest :
         /\ RefreshAt(rest) => RefreshAt(rest)'
         /\ CleanupAt(rest) => CleanupAt(rest)'
         /\ SuccessAt(rest) => SuccessAt(rest)'
         /\ CheckSpaceAt(rest) => CheckSpaceAt(rest)'
  BY <1>1, <1>2, <1>3, <1>4 DEF RefreshAt, CleanupAt, SuccessAt, CheckSpaceAt
<1>13. \A area, rest : EraseAt(area, rest) => EraseAt(area, rest)'
  <2> SUFFICES ASSUME NEW area, NEW rest, EraseAt(area, rest) PROVE EraseAt(area, rest)'
    OBVIOUS
  <2> QED BY <1>1, <1>2, <1>4, <1>5, <1>6, <1>9, <1>10, <1>11 DEF EraseAt
<1>14. \A area, rest : ProgramAt(area, rest) => ProgramAt(area, rest)'
  <2> SUFFICES ASSUME NEW area, NEW rest, ProgramAt(area, rest) PROVE ProgramAt(area, rest)'
    OBVIOUS
  <2> QED BY <1>1, <1>2, <1>4, <1>5, <1>6, <1>9, <1>10 DEF ProgramAt
<1>15. \A area, rest : RestoreAt(area, rest) => RestoreAt(area, rest)'
  BY <1>11 DEF RestoreAt
<1>16. \A rest :
         /\ SpareValidAt(rest) => SpareValidAt(rest)'
         /\ WorkInvalidAt(rest) => WorkInvalidAt(rest)'
         /\ WorkValidAt(rest) => WorkValidAt(rest)'
  BY <1>1, <1>2, <1>8, <1>9 DEF SpareValidAt, WorkInvalidAt, WorkValidAt
<1>17. \A rest :
         /\ ReadSpareAt(rest) => ReadSpareAt(rest)'
         /\ SpareRecordAt(rest) => SpareRecordAt(rest)'
         /\ WriteCompletedAt(rest) => WriteCompletedAt(rest)'
  BY <1>1, <1>2, <1>10 DEF ReadSpareAt, SpareRecordAt, WriteCompletedAt
<1>18. \A rest :
         /\ AllocateAt(rest) => AllocateAt(rest)'
         /\ WriteRecordAt(rest) => WriteRecordAt(rest)'
         /\ ReadTargetAt(rest) => ReadTargetAt(rest)'
         /\ SpareCompletedAt(rest) => SpareCompletedAt(rest)'
  BY <1>1, <1>3, <1>5, <1>6 DEF AllocateAt, WriteRecordAt, ReadTargetAt, SpareCompletedAt
<1>19. \A rest :
         /\ CheckAbortAt(rest) => CheckAbortAt(rest)'
         /\ AbortAt(rest) => AbortAt(rest)'
         /\ CheckRestartAt(rest) => CheckRestartAt(rest)'
         /\ BootedAt(rest) => BootedAt(rest)'
  BY <1>1, <1>2, <1>3, <1>5 DEF CheckAbortAt, AbortAt, CheckRestartAt, BootedAt
<1>20. \A s, rest : Ready(s, rest) => Ready(s, rest)'
  BY <1>12, <1>13, <1>14, <1>15, <1>16, <1>17, <1>18, <1>19 DEF Ready
<1> QED BY <1>1, <1>2, <1>20 DEF ControlInv

LEMMA StutteringStep == ASSUME Inv, UNCHANGED vars PROVE Good
<1>1. /\ MemoryInv /\ FlashInv /\ ControlInv /\ flash' = flash
      /\ FtwWorkSpace' = FtwWorkSpace /\ FtwLastRecord' = FtwLastRecord
      /\ MyBuffer' = MyBuffer /\ SpareBuffer' = SpareBuffer /\ call' = call /\ todo' = todo
  BY DEF Inv, vars, memory
<1>2. FlashInv' /\ Kept
  BY <1>1, FlashStays DEF FlashInv
<1>3. MemoryInv'
  BY <1>1 DEF MemoryInv
<1> QED BY <1>1, <1>2, <1>3, ControlStays DEF Good

-----------------------------------------------------------------------------
(* The invariant, and what may be recovered.                               *)

LEMMA EveryStep ==
  ASSUME OneBlock, Inv, Next
  PROVE  Good \/ (SpareCompleted /\ MemoryInv' /\ FlashInv' /\ ControlInv' /\ Moved)
<1>1. WorkSpaceRefresh \/ Cleanup \/ EraseBlock \/ ProgramBlock => Good
  BY WorkSpaceRefreshStep, CleanupStep, EraseBlockStep, ProgramBlockStep
<1>2. SpareValid \/ WorkInvalid \/ WorkValid \/ ReadSpare \/ SpareRecord \/ WriteCompleted => Good
  BY SpareValidStep, WorkInvalidStep, WorkValidStep, ReadSpareStep, SpareRecordStep,
     WriteCompletedStep
<1>3. AccessDenied \/ Allocate \/ WriteRecord \/ OutOfResources \/ ReadTarget \/ Success => Good
  BY FailStep, AllocateStep, WriteRecordStep, ReadTargetStep, SuccessStep
<1>4. SpaceIsValid \/ SpaceFromSpare \/ SpaceIsNew => Good
  BY SpaceIsValidStep, SpaceFromSpareStep, SpaceIsNewStep
<1>5. CheckAbort \/ Abort \/ AbortNotFound \/ CheckRestart \/ Booted => Good
  BY CheckAbortStep, AbortStep, AbortNotFoundStep, CheckRestartStep, BootedStep
<1>6. SpareCompleted => MemoryInv' /\ FlashInv' /\ ControlInv' /\ Moved
  BY SpareCompletedStep
<1>7. (\E area \in Targets \cup {Work}, block \in Blocks, value \in Data :
         FtwLiteWrite(area, block, value)) => Good
  BY FtwLiteWriteStep
<1>8. PowerFailure => Good
  BY PowerFailureStep
<1> QED BY <1>1, <1>2, <1>3, <1>4, <1>5, <1>6, <1>7, <1>8 DEF Next, Run

LEMMA InvariantKept == ASSUME OneBlock, Inv, [Next]_vars PROVE Inv'
<1>1. ASSUME Next PROVE Inv'
  BY <1>1, EveryStep DEF Inv, Good
<1>2. ASSUME UNCHANGED vars PROVE Inv'
  BY <1>2, StutteringStep DEF Inv, Good
<1> QED BY <1>1, <1>2

\* No step but these two changes the call, and it ends with None.
LEMMA CallChanges ==
  ASSUME Next
  PROVE  \/ call' = call \/ call' = None
         \/ \E area \in Named, block \in Blocks, value \in Data : FtwLiteWrite(area, block, value)
<1>1. ASSUME Run PROVE call' = call \/ call' = None
  BY <1>1 DEF Run, WorkSpaceRefresh, Cleanup, EraseBlock, ProgramBlock, SpareValid, WorkInvalid,
     WorkValid, ReadSpare, SpareRecord, WriteCompleted, AccessDenied, Allocate, WriteRecord,
     OutOfResources, ReadTarget, SpareCompleted, Success, SpaceIsValid, SpaceFromSpare, SpaceIsNew,
     CheckAbort, Abort, AbortNotFound, CheckRestart, Booted, Fail
<1> QED BY <1>1 DEF Next, PowerFailure, Named

LEMMA AvailableChanges ==
  ASSUME Next
  PROVE  \/ available' = available \/ Success \/ Booted
         \/ \E area \in Named, block \in Blocks, value \in Data : FtwLiteWrite(area, block, value)
<1>1. ASSUME Run PROVE available' = available \/ Success \/ Booted
  BY <1>1 DEF Run, WorkSpaceRefresh, Cleanup, EraseBlock, ProgramBlock, SpareValid, WorkInvalid,
     WorkValid, ReadSpare, SpareRecord, WriteCompleted, AccessDenied, Allocate, WriteRecord,
     OutOfResources, ReadTarget, SpareCompleted, SpaceIsValid, SpaceFromSpare, SpaceIsNew,
     CheckAbort, Abort, AbortNotFound, CheckRestart, Fail
<1> QED BY <1>1 DEF Next, PowerFailure, Named

LEMMA NobodyServed == call = None => ~Serving
BY NameAssumption DEF Serving, Named

LEMMA NobodyServedNext == call' = None => ~Serving'
BY NameAssumption DEF Serving, Named

LEMMA HistoryInitially == ASSUME OneBlock, Init PROVE HistoryInv
<1>1. Inv
  BY InvariantInitially
<1>2. \A area \in Named : flash[area].data \in [Blocks -> Data]
  <2> SUFFICES ASSUME NEW area \in Named PROVE flash[area].data \in [Blocks -> Data]
    OBVIOUS
  <2>1. area \in Areas /\ area # Spare
    BY AreasProperties, AreasApart
  <2> QED BY <2>1 DEF Init
<1>3. Settled \/ Fresh
  <2>1. \A area \in {Work, Spare} : flash[area].space = ErasedSpace
    BY ErasedTyped, AreasProperties DEF Init
  <2> QED BY <1>2, <2>1, ErasedTyped DEF Fresh, Whole
<1>4. \A area \in Named : Recoverable(area) = flash[area].data
  BY <1>3, RecoverableNow DEF RecoverableCases
<1>5. ~Serving
  BY NobodyServed DEF Init
<1> QED BY <1>2, <1>4, <1>5 DEF HistoryInv, Init, Named

LEMMA HistoryKept == ASSUME OneBlock, Inv, HistoryInv, [Next]_vars PROVE HistoryInv'
<1> USE DEF HistoryInv
<1>1. ASSUME UNCHANGED vars PROVE HistoryInv'
  <2>1. Kept /\ available' = available /\ call' = call
    BY <1>1, StutteringStep DEF vars, Good
  <2> QED BY <2>1 DEF Kept, Serving
<1>2. ASSUME NEW area \in Named, NEW block \in Blocks, NEW value \in Data,
             FtwLiteWrite(area, block, value)
      PROVE  HistoryInv'
  <2> DEFINE Write(old) == [old EXCEPT ![block] = value]
  <2>1. Kept
    BY <1>2, FtwLiteWriteStep DEF Good, Named
  <2>2. /\ call' = [area |-> area, block |-> block, value |-> value]
        /\ available' = [available EXCEPT ![area] = @ \cup {Write(old) : old \in @}]
    BY <1>2 DEF FtwLiteWrite
  <2>3. \A old \in [Blocks -> Data] : Write(old) \in [Blocks -> Data] /\ Write(Write(old)) = Write(old)
    OBVIOUS
  <2> HIDE DEF Write
  <2>4. available' \in [Named -> SUBSET [Blocks -> Data]]
    BY <2>2, <2>3
  <2>5. /\ \A a \in Named : available[a] \subseteq available'[a]
        /\ available'[area] = available[area] \cup {Write(old) : old \in available[area]}
    BY <2>2
  <2>6. \A old \in available'[area] : Write(old) \in available'[area]
    <3> SUFFICES ASSUME NEW old \in available'[area] PROVE Write(old) \in available'[area]
      OBVIOUS
    <3>1. CASE old \in available[area]
      BY <2>5, <3>1
    <3>2. CASE old \in {Write(o) : o \in available[area]}
      <4>1. PICK o \in available[area] : old = Write(o)
        BY <3>2
      <4>2. Write(old) = old
        BY <2>3, <4>1
      <4> QED BY <4>2
    <3> QED BY <2>5, <3>1, <3>2
  <2>7. call'.area = area /\ call'.block = block /\ call'.value = value
    BY <2>2
  <2> QED BY <2>1, <2>4, <2>5, <2>6, <2>7 DEF Kept, Write
<1>3. ASSUME Success PROVE HistoryInv'
  <2> DEFINE Write(old) == [old EXCEPT ![call.block] = call.value]
  <2>1. Kept /\ SuccessAt(Tail(todo)) /\ call' = None
    BY <1>3, SuccessStep, ReadyBefore DEF Good, Success, At
  <2>2. Settled /\ Serving /\ flash[call.area].data[call.block] = call.value
    BY <2>1 DEF SuccessAt
  <2>3. \A area \in Named : Recoverable(area) = flash[area].data
    BY <2>2, RecoverableNow DEF RecoverableCases
  <2>4. call.area \in Named /\ call.block \in Blocks /\ call.value \in Data
    BY <2>2 DEF Serving
  <2>5. available' = [available EXCEPT ![call.area] = {Write(old) : old \in @}]
    BY <1>3 DEF Success
  <2>6. \A old \in [Blocks -> Data] : Write(old) \in [Blocks -> Data]
    BY <2>4
  <2>7. Write(Recoverable(call.area)) = Recoverable(call.area)
    BY <2>2, <2>3, <2>4
  <2> HIDE DEF Write
  <2>8. available' \in [Named -> SUBSET [Blocks -> Data]]
    BY <2>5, <2>6
  <2>9. \A area \in Named : Recoverable(area) \in available'[area]
    BY <2>4, <2>5, <2>7
  <2> QED BY <2>1, <2>8, <2>9, NobodyServedNext DEF Kept
<1>4. ASSUME Booted PROVE HistoryInv'
  <2>1. Kept /\ BootedAt(Tail(todo)) /\ call' = call
    BY <1>4, BootedStep, ReadyBefore DEF Good, Booted, At
  <2>2. Settled /\ call' = None
    BY <2>1 DEF BootedAt, Freed
  <2>3. \A area \in Named : Recoverable(area) = flash[area].data
    BY <2>2, RecoverableNow DEF RecoverableCases
  <2>4. available' = [a \in Named |-> available[a] \cap {flash[a].data}]
    BY <1>4 DEF Booted
  <2> QED BY <2>1, <2>2, <2>3, <2>4, NobodyServedNext DEF Kept
<1>5. ASSUME Next, available' = available, call' = call \/ call' = None PROVE HistoryInv'
  <2>1. Serving' => Serving /\ call' = call
    BY <1>5, NobodyServedNext DEF Serving
  <2>2. CASE Good
    BY <1>5, <2>1, <2>2 DEF Good, Kept
  <2>3. CASE Moved
    BY <1>5, <2>1, <2>3 DEF Moved
  <2> QED BY <1>5, <2>2, <2>3, EveryStep
<1> QED BY <1>1, <1>2, <1>3, <1>4, <1>5, CallChanges, AvailableChanges

\* The record behind the last slot stays erased in memory.
SlotErased == FtwWorkSpace.record[Slots + 1] = EmptyRecord

LEMMA SlotStays ==
  ASSUME OneBlock, Inv, SlotErased, [Next]_vars
  PROVE  SlotErased'
<1>1. Slots + 1 \in 1..(Slots + 1) /\ Slots \in Nat
  BY SlotsProperties
<1>2. FtwWorkSpace \in SpaceType /\ FtwLastRecord \in 1..(Slots + 1)
  BY DEF Inv, MemoryInv
<1>3. /\ Recorded(flash[Work].space)
      /\ FtwWorkSpace.record = flash[Work].space.record => Recorded(FtwWorkSpace)
  BY WorkRecorded, RecordsEqual DEF Inv
<1>4. ASSUME NEW r, NEW i \in 1..Slots, FtwWorkSpace' = [FtwWorkSpace EXCEPT !.record[i] = r]
      PROVE  SlotErased'
  <2>1. FtwWorkSpace'.record[Slots + 1] = FtwWorkSpace.record[Slots + 1]
    BY <1>1, <1>2, <1>4 DEF SpaceType
  <2> QED BY <2>1 DEF SlotErased
<1>5. ASSUME FtwWorkSpace'.record = FtwWorkSpace.record PROVE SlotErased'
  BY <1>5 DEF SlotErased
<1>6. ASSUME WorkSpaceRefresh PROVE SlotErased'
  BY <1>3, <1>6 DEF WorkSpaceRefresh, SlotErased, Recorded
<1>7. ASSUME Cleanup PROVE SlotErased'
  <2>1. FtwWorkSpace'.record[Slots + 1] = IF Slots + 1 = 1 /\ FtwWorkSpace.record[FtwLastRecord].WriteAllocated
            /\ ~FtwWorkSpace.record[FtwLastRecord].WriteCompleted
          THEN FtwWorkSpace.record[FtwLastRecord] ELSE EmptyRecord
    BY <1>1, <1>2, <1>7 DEF Cleanup, CleanupWorkSpace, SpaceType
  <2> QED BY <2>1, SlotsProperties DEF SlotErased
<1>8. ASSUME WorkInvalid \/ WorkValid PROVE SlotErased'
  <2>1. FtwWorkSpace'.record = FtwWorkSpace.record
    BY <1>2, <1>8 DEF WorkInvalid, WorkValid, SpaceType
  <2> QED BY <1>5, <2>1
<1>9. ASSUME WriteCompleted PROVE SlotErased'
  <2>1. Committed /\ Synced
    BY <1>9, ReadyBefore DEF WriteCompleted, At, WriteCompletedAt, Replacing
  <2>2. FtwLastRecord \in 1..Slots
    BY <1>1, <1>2, <2>1, SyncedRecord DEF Inv, Committed, Live
  <2> QED BY <1>4, <1>9, <2>2 DEF WriteCompleted
<1>10. ASSUME Allocate \/ WriteRecord \/ SpareCompleted PROVE SlotErased'
  <2>1. Writing
    BY <1>10, ReadyBefore DEF Allocate, WriteRecord, SpareCompleted, At, AllocateAt,
       WriteRecordAt, SpareCompletedAt, Buffered
  <2>2. FtwLastRecord \in 1..Slots
    BY <1>1, <1>2, <2>1 DEF Writing
  <2> QED BY <1>4, <1>10, <2>2 DEF Allocate, WriteRecord, SpareCompleted
<1>11. ASSUME Abort PROVE SlotErased'
  <2>1. AbortAt(Tail(todo)) /\ ~Record.WriteCompleted
    BY <1>11, ReadyBefore DEF Abort, At
  <2>2. FtwLastRecord <= Slots
    BY <2>1 DEF AbortAt
  <2>3. FtwLastRecord \in 1..Slots
    BY <1>1, <1>2, <2>2
  <2> QED BY <1>4, <1>11, <2>3 DEF Abort
<1>12. ASSUME SpaceFromSpare PROVE SlotErased'
  <2>1. /\ ~flash[Work].space.WorkingBlockValid /\ flash[Spare].space.WorkingBlockValid
        /\ FtwWorkSpace' = flash[Spare].space
    BY <1>12, ReadyBefore DEF SpaceFromSpare, IsValidWorkSpace, At, CheckSpaceAt, Synced
  <2>2. Recorded(flash[Spare].space)
    BY <2>1 DEF Inv, FlashInv, Settled, Committed, Live, Fresh, FromSpare, SpareIsCopy
  <2> QED BY <2>1, <2>2 DEF Recorded, SlotErased
<1>13. ASSUME SpaceIsNew \/ PowerFailure PROVE SlotErased'
  <2>1. FtwWorkSpace'.record = ErasedSpace.record
    BY <1>13 DEF SpaceIsNew, PowerFailure, InitWorkSpaceHeader, ErasedSpace
  <2> QED BY <1>1, <2>1 DEF SlotErased, ErasedSpace
<1>14. ASSUME \/ EraseBlock \/ ProgramBlock \/ SpareValid \/ ReadSpare \/ SpareRecord
              \/ AccessDenied \/ OutOfResources \/ ReadTarget \/ Success
              \/ SpaceIsValid \/ CheckAbort \/ AbortNotFound \/ CheckRestart \/ Booted
       PROVE  SlotErased'
  <2>1. FtwWorkSpace' = FtwWorkSpace
    BY <1>14 DEF EraseBlock, ProgramBlock, SpareValid, ReadSpare, SpareRecord, AccessDenied,
       OutOfResources, ReadTarget, Success, SpaceIsValid, CheckAbort, AbortNotFound,
       CheckRestart, Booted, Fail, memory
  <2> QED BY <1>5, <2>1
<1>15. ASSUME UNCHANGED vars PROVE SlotErased'
  BY <1>5, <1>15 DEF vars, memory
<1>16. ASSUME NEW area \in Targets \cup {Work}, NEW block \in Blocks, NEW value \in Data,
              FtwLiteWrite(area, block, value)
       PROVE  SlotErased'
  BY <1>5, <1>16 DEF FtwLiteWrite, memory
<1> QED BY <1>6, <1>7, <1>8, <1>9, <1>10, <1>11, <1>12, <1>13, <1>14, <1>15, <1>16 DEF Next, Run
-----------------------------------------------------------------------------
(* Theorems.                                                               *)

LEMMA Invariance == OneBlock => (Spec => [](Inv /\ HistoryInv /\ SlotErased))
<1> SUFFICES ASSUME OneBlock PROVE Spec => [](Inv /\ HistoryInv /\ SlotErased)
  OBVIOUS
<1>1. Init => Inv /\ HistoryInv /\ SlotErased
  <2>1. Init => SlotErased
    BY SlotsProperties DEF Init, SlotErased, ErasedSpace
  <2> QED BY <2>1, InvariantInitially, HistoryInitially
<1>2. (Inv /\ HistoryInv /\ SlotErased) /\ [Next]_vars => (Inv /\ HistoryInv /\ SlotErased)'
  BY InvariantKept, HistoryKept, SlotStays
<1> QED BY <1>1, <1>2, PTL DEF Spec

\* Every variable keeps its type, and the record behind the last slot is never
\* written (FtwGetLastRecord, FtwMisc.c), with one block to an area.
THEOREM FtwTypeCorrect == OneBlock => (Spec => []TypeOK)
<1> SUFFICES ASSUME OneBlock PROVE Spec => []TypeOK
  OBVIOUS
<1>1. Inv /\ HistoryInv /\ SlotErased => TypeOK
  BY DEF Inv, MemoryInv, HistoryInv, SlotErased, TypeOK, Named
<1> QED BY <1>1, Invariance, PTL

\* FtwLite.c:66-70 promises that "at all times ... either the original contents or the
\* modified contents are available": they are, wherever the power failed.
THEOREM ContentsStayAvailable == OneBlock => (Spec => []ContentsAvailable)
<1> SUFFICES ASSUME OneBlock PROVE Spec => []ContentsAvailable
  OBVIOUS
<1>1. ASSUME Inv, HistoryInv, todo = <<>>, NEW area \in Named
      PROVE  flash[area].data \in available[area]
  <2>1. Settled
    BY <1>1 DEF Inv, ControlInv
  <2>2. Recoverable(area) = flash[area].data
    BY <2>1, RecoverableNow DEF RecoverableCases
  <2> QED BY <1>1, <2>2 DEF HistoryInv
<1>2. Inv /\ HistoryInv /\ SlotErased => ContentsAvailable
  BY <1>1 DEF ContentsAvailable, Named
<1> QED BY <1>2, Invariance, PTL

\* Booting leaves no record that would make every later write fail (FtwLite.c:117),
\* however often it was interrupted.
THEOREM BootsFree == OneBlock => (Spec => []BootFreesRecord)
<1> SUFFICES ASSUME OneBlock PROVE Spec => []BootFreesRecord
  OBVIOUS
<1>1. ASSUME Inv, At("Booted") PROVE ~Record.WriteAllocated /\ ~Record.SpareCompleted
  <2>1. Freed
    BY <1>1, ReadyBefore DEF BootedAt, At
  <2>2. Record = LastRecord(flash[Work].space)
    BY <1>1, <2>1, SyncedRecord DEF Inv, Freed, Settled, Live
  <2> QED BY <2>1, <2>2 DEF Freed, Settled
<1>2. Inv /\ HistoryInv /\ SlotErased => BootFreesRecord
  BY <1>1 DEF BootFreesRecord
<1> QED BY <1>2, Invariance, PTL

\* The block device that changes a block in one step.
Stored == [area \in Targets \cup {Work} |-> Recoverable(area)]

\* The driver implements the block device that replaces a block in one step: the write
\* is taken when the record says that the spare block is filled (FtwLite.c:342), and no
\* erase, program, reclaim, error, power failure or boot changes what is stored.  A call
\* that returns success has been taken.
THEOREM ImplementsAtomicBlocks == OneBlock => (Spec => Atomic)
<1> SUFFICES ASSUME OneBlock PROVE Spec => Atomic
  OBVIOUS
<1>1. ASSUME Init PROVE Abstract!Init
  <2>1. HistoryInv
    BY <1>1, HistoryInitially
  <2>2. \A area \in Named : Recoverable(area) \in [Blocks -> Data]
    BY <2>1 DEF HistoryInv
  <2> QED BY <1>1, <2>2 DEF Abstract!Init, Init, Named
<1>2. ASSUME Inv, [Next]_vars PROVE [Abstract!Next]_(Abstract!bvars)
  <2>1. ASSUME Kept PROVE Stored' = Stored
    BY <2>1 DEF Kept, Stored, Named
  <2>2. ASSUME UNCHANGED vars PROVE Stored' = Stored /\ call' = call
    BY <1>2, <2>1, <2>2, StutteringStep DEF Good, vars
  <2>3. ASSUME NEW area \in Named, NEW block \in Blocks, NEW value \in Data,
               FtwLiteWrite(area, block, value)
        PROVE  Abstract!Request(area, block, value)
    <3>1. Kept /\ call = None
      BY <1>2, <2>3, FtwLiteWriteStep DEF Good, Named, Inv, ControlInv, FtwLiteWrite
    <3>2. call' = [area |-> area, block |-> block, value |-> value]
      BY <2>3 DEF FtwLiteWrite
    <3> QED BY <2>1, <3>1, <3>2 DEF Abstract!Request, Stored
  <2>4. ASSUME Good, call' = call \/ call' = None
        PROVE  Abstract!GiveUp \/ UNCHANGED Abstract!bvars
    <3>1. Stored' = Stored
      BY <2>1, <2>4 DEF Good
    <3> QED BY <2>4, <3>1 DEF Abstract!GiveUp, Abstract!bvars, Stored
  <2>5. ASSUME SpareCompleted, Moved PROVE Abstract!Commit
    <3>1. call' = call /\ call # None
      BY <2>5, NobodyServed DEF SpareCompleted, Moved
    <3>2. Stored' = [Stored EXCEPT ![call.area][call.block] = call.value]
      BY <2>5 DEF Moved, Stored, Named, Serving
    <3> QED BY <3>1, <3>2 DEF Abstract!Commit, Stored
  <2>6. ASSUME Next PROVE Abstract!Next \/ UNCHANGED Abstract!bvars
    <3>1. SpareCompleted => call' = call
      BY DEF SpareCompleted
    <3> QED BY <1>2, <2>3, <2>4, <2>5, <2>6, <3>1, EveryStep, CallChanges DEF Abstract!Next, Named
  <2> QED BY <1>2, <2>2, <2>6 DEF Abstract!bvars, Stored
<1>3. Inv /\ [Next]_vars => [Success => Abstract!Succeed]_vars
  <2> SUFFICES ASSUME Inv, Success PROVE Abstract!Succeed
    OBVIOUS
  <2>1. Kept /\ SuccessAt(Tail(todo)) /\ call' = None
    BY SuccessStep, ReadyBefore DEF Good, Success, At
  <2>2. Settled /\ Serving /\ flash[call.area].data[call.block] = call.value
    BY <2>1 DEF SuccessAt
  <2>3. \A area \in Named : Recoverable(area) = flash[area].data
    BY <2>2, RecoverableNow DEF RecoverableCases
  <2>4. Stored' = Stored
    BY <2>1 DEF Kept, Stored, Named
  <2>5. call # None /\ Stored[call.area][call.block] = call.value
    BY <2>2, <2>3, NobodyServed DEF Stored, Serving, Named
  <2> QED BY <2>1, <2>4, <2>5 DEF Abstract!Succeed, Stored
<1>4. []Inv /\ Spec => Atomic
  BY <1>1, <1>2, <1>3, PTL DEF Spec, Atomic, Abstract!Spec
<1> QED BY <1>4, Invariance, PTL
=============================================================================
