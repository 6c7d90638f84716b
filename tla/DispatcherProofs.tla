-------------------------- MODULE DispatcherProofs ---------------------------
(***************************************************************************)
(* Each driver is linked once and dispatched once, for any set of drivers, *)
(* volumes and dependency expressions, where the volumes give every driver *)
(* one place (OnePlace).                                                   *)
(*                                                                         *)
(* CoreInsertOnScheduledQueueWhileProcessingBeforeAndAfter puts the BEFORE *)
(* drivers of a driver in front of it and the AFTER drivers behind it, for *)
(* any drivers, volumes, expressions and depth of the recursion, whatever  *)
(* notification functions do between its steps.                            *)
(*                                                                         *)
(* A driver that a search put on the queue has what its expression names,  *)
(* although PUSHes are patched and protocols come and go, and the          *)
(* dispatcher returns when no driver is left that may run.                 *)
(***************************************************************************)
EXTENDS Dispatcher, ListsProofs

\* No file and no name is found twice, nor named twice by an a priori list, whose drivers
\* have expressions that can be read at once and do not begin with SOR.
OnePlace ==
  /\ \A d, e \in Drivers : FileName[d] = FileName[e] => d = e
  /\ \A fv \in Volumes : NoDuplicates(Fv[fv]) /\ NoDuplicates(Apriori[fv])
  /\ \A fv, gv \in Volumes : fv = gv \/ Members(Fv[fv]) \cap Members(Fv[gv]) = {}
  /\ \A fv \in Volumes : \A d \in Members(Fv[fv]) :
       FileName[d] \in Members(Apriori[fv]) =>
         d \notin Guided /\ ~StartsWith(DepexSection[d], "SOR")

Instruction == [op : Operations, guid : Protocols \cup {FileName[d] : d \in Drivers}]
EntryType ==
  [Dependent : BOOLEAN, Unrequested : BOOLEAN, Scheduled : BOOLEAN, Untrusted : BOOLEAN,
   Initialized : BOOLEAN, DepexProtocolError : BOOLEAN, Depex : Seq(Instruction)]
FrameType == [d : Drivers, at : {"befores", "lock", "afters"}, i : Nat \ {0}, known : Nat]

TypeInv ==
  /\ mDiscoveredList \in Seq(Drivers) /\ mScheduledQueue \in Seq(Drivers)
  /\ mFvHandleList \subseteq Volumes
  /\ entry \in [Drivers -> EntryType]
  /\ image \in [Drivers -> {"none", "loaded", "started"}]
  /\ pc \in {"idle", "drain", "load", "loaded", "start", "running", "search", "insert"}
  /\ DriverEntry \in [i : Nat] \cup [d : Drivers]
  /\ ReadyToRun \in BOOLEAN /\ disturbed \in BOOLEAN
  /\ inserting \in Seq(FrameType)
  /\ installed \subseteq present /\ present \subseteq Protocols

\* A driver is in one of its states at most, and in none while its expression is unread.
OneState(e) ==
  /\ e.Dependent => ~e.Unrequested /\ ~e.Scheduled /\ ~e.Untrusted /\ ~e.Initialized
  /\ e.Unrequested => ~e.Scheduled /\ ~e.Untrusted /\ ~e.Initialized
  /\ e.Scheduled => ~e.Untrusted /\ ~e.Initialized
  /\ e.Untrusted => ~e.Initialized
  /\ e.DepexProtocolError =>
       ~e.Dependent /\ ~e.Unrequested /\ ~e.Scheduled /\ ~e.Untrusted /\ ~e.Initialized

EntriesInv == \A d \in Drivers : OneState(entry[d])

ListsInv ==
  /\ QueueSound
  /\ \A d \in Discovered : \E fv \in mFvHandleList : d \in Members(Fv[fv])

\* The driver that the loop of CoreDispatcher is at.
LoopInv ==
  /\ pc \in {"load", "loaded"} => /\ DriverEntry \in [d : Drivers]
                                  /\ Driver \in Discovered /\ entry[Driver].Scheduled
  /\ pc \in {"start", "running"} => DriverEntry \in [d : Drivers]
  /\ pc \in {"search", "insert"} => DriverEntry \in [i : Nat \ {0}]
  /\ pc = "insert" <=> inserting # <<>>

\* The calls of CoreInsertOnScheduledQueue...: each driver but the first is tied to the one
\* of its caller, so that none is inserted twice; none is on the queue yet that is to be.
FramesInv ==
  /\ \A k \in 1..Len(inserting) :
       /\ inserting[k].d \in Discovered
       /\ inserting[k].at \in {"befores", "lock"} => entry[inserting[k].d].Dependent
       /\ k = 1 => ~IsBefore(inserting[k].d) /\ ~IsAfter(inserting[k].d)
       /\ k > 1 => /\ IsBefore(inserting[k].d) \/ IsAfter(inserting[k].d)
                   /\ Names(inserting[k].d) = FileName[inserting[k - 1].d]
  /\ \A k, l \in 1..Len(inserting) : inserting[k].d = inserting[l].d => k = l

Inv == TypeInv /\ EntriesInv /\ ListsInv /\ LoopInv /\ FramesInv
-----------------------------------------------------------------------------
(* Expressions and entries.                                                *)

LEMMA InvariantImplies == Inv => TypeOK /\ DriversLinkedOnce
<1>1. Inv => TypeOK
  BY DEF Inv, TypeInv, TypeOK, EntryType, Instruction, FrameType
<1>2. Inv => DriversLinkedOnce
  BY DEF Inv, EntriesInv, OneState, ListsInv, DriversLinkedOnce, InitializedIsFinal
<1> QED BY <1>1, <1>2

LEMMA PatchedIsDepex ==
  ASSUME NEW depex \in Seq(Instruction), NEW have
  PROVE  /\ Patched(depex, have) \in Seq(Instruction)
         /\ \A op \in {"BEFORE", "AFTER"} :
              StartsWith(Patched(depex, have), op) <=> StartsWith(depex, op)
<1> DEFINE new == Patched(depex, have)
<1>1. \A k \in 1..Len(depex) :
        /\ depex[k] \in Instruction
        /\ new[k] = depex[k] \/ /\ new[k] = [depex[k] EXCEPT !.op = "REPLACE_TRUE"]
                                /\ depex[k].op = "PUSH"
  BY DEF Patched
<1>2. \A k \in 1..Len(depex) :
        /\ new[k] \in Instruction
        /\ new[k].op = depex[k].op \/ (new[k].op = "REPLACE_TRUE" /\ depex[k].op = "PUSH")
  BY <1>1 DEF Instruction, Operations
<1>3. Len(depex) \in Nat /\ new = [k \in 1..Len(depex) |-> new[k]]
  BY DEF Patched
<1> HIDE DEF new
<1>4. new \in Seq(Instruction) /\ Len(new) = Len(depex)
  BY <1>2, <1>3, IntervalSeq
<1>5. \A op \in {"BEFORE", "AFTER"} : StartsWith(new, op) <=> StartsWith(depex, op)
  <2>1. CASE Len(depex) = 0
    BY <1>4, <2>1 DEF StartsWith
  <2>2. CASE Len(depex) # 0
    <3>1. 1 \in 1..Len(depex) /\ depex # <<>> /\ new # <<>>
      BY <1>4, <2>2
    <3> QED BY <1>2, <3>1 DEF StartsWith
  <2> QED BY <2>1, <2>2
<1> QED BY <1>4, <1>5 DEF new

LEMMA GetDepexProperties ==
  ASSUME NEW d \in Drivers, NEW e \in EntryType,
         ~e.Dependent, ~e.Unrequested, ~e.Scheduled, ~e.Untrusted, ~e.Initialized
  PROVE  /\ GetDepex(d, e) \in EntryType /\ OneState(GetDepex(d, e))
         /\ ~GetDepex(d, e).Scheduled
         /\ d \notin Guided /\ ~StartsWith(DepexSection[d], "SOR") =>
              /\ GetDepex(d, e).Dependent /\ ~GetDepex(d, e).DepexProtocolError
<1>1. DepexSection[d] \in Seq(Instruction)
  BY DispatcherAssumption DEF Instruction
<1>2. CASE d \in Guided /\ ExtractionGuid \notin installed
  <2>1. GetDepex(d, e) = [e EXCEPT !.DepexProtocolError = TRUE]
    BY <1>2 DEF GetDepex
  <2> QED BY <1>2, <2>1 DEF EntryType, OneState
<1>3. CASE ~(d \in Guided /\ ExtractionGuid \notin installed) /\ StartsWith(DepexSection[d], "SOR")
  <2>1. GetDepex(d, e) = [e EXCEPT !.DepexProtocolError = FALSE, !.Depex = DepexSection[d],
                                   !.Unrequested = TRUE]
    BY <1>3 DEF GetDepex
  <2> QED BY <1>1, <1>3, <2>1 DEF EntryType, OneState
<1>4. CASE ~(d \in Guided /\ ExtractionGuid \notin installed) /\ ~StartsWith(DepexSection[d], "SOR")
  <2>1. GetDepex(d, e) = [e EXCEPT !.DepexProtocolError = FALSE, !.Depex = DepexSection[d],
                                   !.Dependent = TRUE]
    BY <1>4 DEF GetDepex
  <2> QED BY <1>1, <1>4, <2>1 DEF EntryType, OneState
<1> QED BY <1>2, <1>3, <1>4

LEMMA ScheduledEntryProperties ==
  ASSUME NEW e \in EntryType, OneState(e), e.Dependent
  PROVE  /\ ScheduledEntry(e) \in EntryType /\ OneState(ScheduledEntry(e))
         /\ ScheduledEntry(e).Scheduled /\ ScheduledEntry(e).Depex = e.Depex
BY DEF ScheduledEntry, EntryType, OneState
-----------------------------------------------------------------------------
(* The lists.                                                              *)

LEMMA DiscoveredAreDrivers ==
  ASSUME TypeInv
  PROVE  Discovered \subseteq Drivers
<1>1. mDiscoveredList \in Seq(Drivers)
  BY DEF TypeInv
<1>2. \A k \in 1..Len(mDiscoveredList) : mDiscoveredList[k] \in Drivers
  BY <1>1
<1> QED BY <1>2 DEF Discovered, Members

\* Nothing is linked or unlinked.
LEMMA ListsStay ==
  ASSUME TypeInv, ListsInv, UNCHANGED lists,
         \A d \in Drivers : entry'[d].Scheduled = entry[d].Scheduled
  PROVE  ListsInv'
<1>1. Discovered' = Discovered /\ Discovered \subseteq Drivers
  BY DiscoveredAreDrivers DEF lists, Discovered
<1> QED BY <1>1 DEF ListsInv, QueueSound, lists

LEMMA TailLinked ==
  ASSUME NEW q \in Seq(Drivers), NEW d \in Drivers, d \notin Members(q), NoDuplicates(q)
  PROVE  /\ Members(InsertTailList(q, d)) = Members(q) \cup {d}
         /\ NoDuplicates(InsertTailList(q, d))
BY InsertTailProperties

\* A driver that is not on the queue is linked at its tail.
LEMMA QueueAppends ==
  ASSUME TypeInv, ListsInv, NEW d \in Discovered, ~entry[d].Scheduled,
         mScheduledQueue' = InsertTailList(mScheduledQueue, d),
         UNCHANGED <<mDiscoveredList, mFvHandleList>>,
         entry'[d].Scheduled, \A c \in Drivers \ {d} : entry'[c] = entry[c]
  PROVE  ListsInv'
<1>1. Discovered' = Discovered /\ Discovered \subseteq Drivers
  BY DiscoveredAreDrivers DEF Discovered
<1>2. mScheduledQueue \in Seq(Drivers) /\ d \in Drivers
  BY <1>1 DEF TypeInv
<1>3. d \notin Members(mScheduledQueue)
  BY DEF ListsInv, QueueSound
<1>4. /\ Members(mScheduledQueue') = Members(mScheduledQueue) \cup {d}
      /\ NoDuplicates(mScheduledQueue')
  <2>1. NoDuplicates(mScheduledQueue)
    BY DEF ListsInv, QueueSound
  <2>2. /\ Members(InsertTailList(mScheduledQueue, d)) = Members(mScheduledQueue) \cup {d}
        /\ NoDuplicates(InsertTailList(mScheduledQueue, d))
    BY <1>2, <1>3, <2>1, TailLinked
  <2> QED BY <2>2, Zenon
<1>5. Members(mScheduledQueue') = {c \in Discovered : entry'[c].Scheduled}
  BY <1>1, <1>4 DEF ListsInv, QueueSound
<1> QED BY <1>1, <1>4, <1>5 DEF ListsInv, QueueSound

\* A driver is unlinked from the queue.
LEMMA QueueRemoves ==
  ASSUME TypeInv, ListsInv, NEW d \in Drivers, Unqueued(d),
         UNCHANGED <<mDiscoveredList, mFvHandleList>>,
         ~entry'[d].Scheduled, \A c \in Drivers \ {d} : entry'[c] = entry[c]
  PROVE  ListsInv' /\ mScheduledQueue' \in Seq(Drivers)
<1>1. Discovered' = Discovered /\ Discovered \subseteq Drivers
  BY DiscoveredAreDrivers DEF Discovered
<1>2. mScheduledQueue \in Seq(Drivers) /\ mScheduledQueue' = RemoveEntryList(mScheduledQueue, d)
  BY DEF TypeInv, Unqueued
<1>3. /\ Members(mScheduledQueue') \subseteq Members(mScheduledQueue)
      /\ Members(mScheduledQueue) \subseteq Members(mScheduledQueue') \cup {d}
      /\ NoDuplicates(mScheduledQueue') /\ d \notin Members(mScheduledQueue')
      /\ mScheduledQueue' \in Seq(Drivers)
  BY <1>2, RemoveEntryProperties DEF ListsInv, QueueSound
<1>4. Members(mScheduledQueue') = {c \in Discovered : entry'[c].Scheduled}
  BY <1>1, <1>3 DEF ListsInv, QueueSound
<1> QED BY <1>1, <1>3, <1>4 DEF ListsInv, QueueSound

\* Two lists without a common entry.
LEMMA AppendedList ==
  ASSUME NEW S, NEW p \in Seq(S), NEW q \in Seq(S)
  PROVE  /\ p \o q \in Seq(S) /\ Members(p \o q) = Members(p) \cup Members(q)
         /\ NoDuplicates(p) /\ NoDuplicates(q) /\ Members(p) \cap Members(q) = {}
              => NoDuplicates(p \o q)
<1>1. /\ p \o q \in Seq(S) /\ Len(p) \in Nat /\ Len(q) \in Nat /\ Len(p \o q) = Len(p) + Len(q)
      /\ \A i \in 1..Len(p) : (p \o q)[i] = p[i]
      /\ \A i \in 1..Len(q) : (p \o q)[Len(p) + i] = q[i]
  OBVIOUS
<1> DEFINE r == p \o q
<1> HIDE DEF r
<1>2. \A i \in 1..Len(r) : \/ i \in 1..Len(p) /\ r[i] = p[i]
                           \/ i - Len(p) \in 1..Len(q) /\ r[i] = q[i - Len(p)]
  <2> SUFFICES ASSUME NEW i \in 1..Len(r), i > Len(p)
               PROVE  i - Len(p) \in 1..Len(q) /\ r[i] = q[i - Len(p)]
    BY <1>1 DEF r
  <2>1. i - Len(p) \in 1..Len(q) /\ Len(p) + (i - Len(p)) = i
    BY <1>1 DEF r
  <2> QED BY <1>1, <2>1 DEF r
<1>3. Members(r) = Members(p) \cup Members(q)
  <2>1. Members(r) \subseteq Members(p) \cup Members(q)
    BY <1>2 DEF Members
  <2>2. Members(p) \subseteq Members(r)
    BY <1>1 DEF Members, r
  <2>3. ASSUME NEW i \in 1..Len(q) PROVE q[i] \in Members(r)
    <3>1. Len(p) + i \in 1..Len(r) /\ r[Len(p) + i] = q[i]
      BY <1>1 DEF r
    <3> QED BY <3>1 DEF Members
  <2>4. Members(q) \subseteq Members(r)
    BY <2>3 DEF Members
  <2> QED BY <2>1, <2>2, <2>4
<1>4. ASSUME NoDuplicates(p), NoDuplicates(q), Members(p) \cap Members(q) = {}
      PROVE  NoDuplicates(r)
  <2> SUFFICES ASSUME NEW i \in 1..Len(r), NEW j \in 1..Len(r), r[i] = r[j] PROVE i = j
    BY DEF NoDuplicates
  <2>0. \A a \in 1..Len(p), b \in 1..Len(q) : p[a] # q[b]
    BY <1>4 DEF Members
  <2>1. CASE i \in 1..Len(p) /\ r[i] = p[i] /\ j \in 1..Len(p) /\ r[j] = p[j]
    BY <1>4, <2>1 DEF NoDuplicates
  <2>2. CASE /\ i - Len(p) \in 1..Len(q) /\ r[i] = q[i - Len(p)]
             /\ j - Len(p) \in 1..Len(q) /\ r[j] = q[j - Len(p)]
    <3>1. i - Len(p) = j - Len(p)
      BY <1>4, <2>2 DEF NoDuplicates
    <3> QED BY <1>1, <3>1 DEF r
  <2> QED BY <1>2, <2>0, <2>1, <2>2
<1> QED BY <1>1, <1>3, <1>4 DEF r
-----------------------------------------------------------------------------
(* The a priori list.                                                      *)

\* The loop over the names, name by name.
Finds(fv, F) ==
  /\ F[0] = <<>>
  /\ \A k \in 1..Len(Apriori[fv]) :
       F[k] = IF Named(fv, Apriori[fv][k]) = {} THEN F[k - 1]
              ELSE Append(F[k - 1], CHOOSE d \in Named(fv, Apriori[fv][k]) : TRUE)

LEMMA AprioriIsList == \A fv \in Volumes : Len(Apriori[fv]) \in Nat
<1>1. \E N : Apriori \in [Volumes -> Seq(N)]
  BY DispatcherAssumption, Zenon
<1> QED BY <1>1

LEMMA FindsExists ==
  ASSUME NEW fv \in Volumes
  PROVE  \E F : Finds(fv, F) /\ AprioriDrivers(fv) = F[Len(Apriori[fv])]
<1> DEFINE named(k) == Named(fv, Apriori[fv][k])
           At(G, k) == IF k = 0 THEN <<>>
                       ELSE IF named(k) = {} THEN G[k - 1]
                            ELSE Append(G[k - 1], CHOOSE d \in named(k) : TRUE)
           Found(n, G) == G = [k \in 0..n |-> At(G, k)]
           S == {n \in Nat : \E G : Found(n, G)}
<1>1. 0 \in S
  <2>1. Found(0, [k \in 0..0 |-> <<>>])
    OBVIOUS
  <2> QED BY <2>1
<1>2. ASSUME NEW n \in Nat, n \in S
      PROVE  n + 1 \in S
  <2>1. PICK G : Found(n, G)
    BY <1>2
  <2> DEFINE H == [k \in 0..(n + 1) |-> IF k = n + 1 THEN At(G, k) ELSE G[k]]
  <2>2. \A k \in 0..n : H[k] = G[k]
    OBVIOUS
  <2> HIDE DEF named
  <2>3. \A k \in 0..(n + 1) : H[k] = At(H, k)
    <3> TAKE k \in 0..(n + 1)
    <3>1. CASE k = n + 1
      <4>1. k # 0 /\ k - 1 \in 0..n
        BY <3>1
      <4> QED BY <2>2, <3>1, <4>1
    <3>2. CASE k \in 0..n /\ k # 0
      <4>1. k - 1 \in 0..n /\ k # n + 1
        BY <3>2
      <4>2. G[k] = At(G, k)
        BY <2>1, <3>2
      <4> QED BY <2>2, <3>2, <4>1, <4>2
    <3>3. CASE k = 0
      BY <2>1, <3>3
    <3> QED BY <3>1, <3>2, <3>3
  <2>4. H = [k \in 0..(n + 1) |-> H[k]]
    OBVIOUS
  <2> HIDE DEF H
  <2>5. Found(n + 1, H)
    BY <2>3, <2>4
  <2> HIDE DEF Found
  <2> QED BY <2>5
<1> DEFINE found[k \in 0..Len(Apriori[fv])] ==
             IF k = 0 THEN <<>>
             ELSE IF named(k) = {} THEN found[k - 1]
                  ELSE Append(found[k - 1], CHOOSE d \in named(k) : TRUE)
<1>3. Len(Apriori[fv]) \in Nat
  BY AprioriIsList
<1>4. PICK G : Found(Len(Apriori[fv]), G)
  <2> HIDE DEF Found
  <2>1. Len(Apriori[fv]) \in S
    <3> HIDE DEF S
    <3> QED BY <1>1, <1>2, <1>3, Induction
  <2> QED BY <2>1
<1>5. AprioriDrivers(fv) = found[Len(Apriori[fv])]
  BY DEF AprioriDrivers
<1> HIDE DEF named
<1>6. found = [k \in 0..Len(Apriori[fv]) |->
                IF k = 0 THEN <<>>
                ELSE IF named(k) = {} THEN found[k - 1]
                     ELSE Append(found[k - 1], CHOOSE d \in named(k) : TRUE)]
  BY <1>4
<1> HIDE DEF found
<1>7. Finds(fv, found)
  <2>1. found[0] = <<>>
    BY <1>3, <1>6
  <2>2. \A k \in 1..Len(Apriori[fv]) : k \in 0..Len(Apriori[fv]) /\ k # 0
    BY <1>3
  <2> QED BY <1>6, <2>1, <2>2 DEF Finds, named
<1> QED BY <1>5, <1>7

\* The drivers that it finds are files of the volume, each named by the list, and as many
\* times as it is.
LEMMA AprioriFacts ==
  ASSUME NEW fv \in Volumes
  PROVE  /\ AprioriDrivers(fv) \in Seq(Members(Fv[fv]))
         /\ \A d \in Members(AprioriDrivers(fv)) :
              d \in Members(Fv[fv]) /\ FileName[d] \in Members(Apriori[fv])
         /\ NoDuplicates(Apriori[fv]) => NoDuplicates(AprioriDrivers(fv))
<1>1. PICK F : Finds(fv, F) /\ AprioriDrivers(fv) = F[Len(Apriori[fv])]
  BY FindsExists
<1>2. Len(Apriori[fv]) \in Nat
  BY AprioriIsList
<1> DEFINE files == Members(Fv[fv])
           Good(k, list) ==
             /\ list \in Seq(files)
             /\ \A d \in Members(list) : d \in files /\ \E j \in 1..k : FileName[d] = Apriori[fv][j]
             /\ NoDuplicates(Apriori[fv]) => NoDuplicates(list)
           S == {k \in Nat : k <= Len(Apriori[fv]) => Good(k, F[k])}
<1>3. 0 \in S
  <2>1. <<>> \in Seq(files) /\ Members(<<>>) = {} /\ NoDuplicates(<<>>)
    BY DEF Members, NoDuplicates
  <2> QED BY <1>1, <2>1 DEF Finds
<1>4. ASSUME NEW k \in Nat, k \in S
      PROVE  k + 1 \in S
  <2>1. SUFFICES ASSUME k + 1 <= Len(Apriori[fv]) PROVE Good(k + 1, F[k + 1])
    OBVIOUS
  <2>2. k + 1 \in 1..Len(Apriori[fv]) /\ (k + 1) - 1 = k /\ k <= Len(Apriori[fv])
    BY <1>2, <2>1
  <2>3. Good(k, F[k])
    BY <1>4, <2>2
  <2>4. PICK list : list = F[k]
    OBVIOUS
  <2>5. PICK named : named = Named(fv, Apriori[fv][k + 1])
    OBVIOUS
  <2>6. F[k + 1] = IF named = {} THEN list ELSE Append(list, CHOOSE d \in named : TRUE)
    BY <1>1, <2>2, <2>4, <2>5 DEF Finds
  <2>7. \A j \in 1..k : j \in 1..(k + 1) /\ j # k + 1 /\ j \in 1..Len(Apriori[fv])
    BY <1>2, <2>1
  <2>8. CASE named = {}
    <3>1. Good(k + 1, list)
      BY <2>3, <2>4, <2>7
    <3> HIDE DEF Good
    <3> QED BY <2>6, <2>8, <3>1
  <2>9. CASE named # {}
    <3>1. PICK c : c = CHOOSE d \in named : TRUE
      OBVIOUS
    <3>2. c \in named
      BY <2>9, <3>1
    <3>3. c \in files /\ FileName[c] = Apriori[fv][k + 1]
      BY <2>5, <3>2 DEF Named
    <3>4. F[k + 1] = InsertTailList(list, c)
      BY <2>6, <2>9, <3>1 DEF InsertTailList
    <3>5. list \in Seq(files) /\ (NoDuplicates(Apriori[fv]) => NoDuplicates(list))
      BY <2>3, <2>4
    <3>6. \A d \in Members(list) : d \in files /\ \E j \in 1..k : FileName[d] = Apriori[fv][j]
      BY <2>3, <2>4
    <3>7. NoDuplicates(Apriori[fv]) => c \notin Members(list)
      BY <2>2, <2>7, <3>3, <3>6 DEF NoDuplicates
    <3>8. /\ InsertTailList(list, c) \in Seq(files)
          /\ Members(InsertTailList(list, c)) = Members(list) \cup {c}
          /\ c \notin Members(list) /\ NoDuplicates(list) => NoDuplicates(InsertTailList(list, c))
      <4> HIDE DEF files
      <4> QED BY <3>3, <3>5, InsertTailProperties
    <3>9. k + 1 \in 1..(k + 1)
      BY <2>2
    <3>10. \A d \in Members(list) \cup {c} :
             d \in files /\ \E j \in 1..(k + 1) : FileName[d] = Apriori[fv][j]
      BY <2>7, <3>3, <3>6, <3>9
    <3> QED BY <3>4, <3>5, <3>7, <3>8, <3>10
  <2> QED BY <2>8, <2>9
<1>5. Good(Len(Apriori[fv]), F[Len(Apriori[fv])])
  <2>1. Len(Apriori[fv]) \in S
    <3> HIDE DEF S
    <3> QED BY <1>2, <1>3, <1>4, Induction
  <2> QED BY <1>2, <2>1
<1> QED BY <1>1, <1>5 DEF Members

-----------------------------------------------------------------------------
(* The steps.                                                              *)

\* The calls go on while nobody takes their drivers away.
LEMMA FramesStay ==
  ASSUME FramesInv, inserting' = inserting, Discovered \subseteq Discovered',
         \A d \in Discovered : /\ entry'[d].Depex = entry[d].Depex
                               /\ entry[d].Dependent => entry'[d].Dependent
  PROVE  FramesInv'
BY DEF FramesInv, IsBefore, IsAfter, Names

LEMMA NoFrames ==
  ASSUME inserting' = <<>>
  PROVE  FramesInv'
BY DEF FramesInv

\* Steps that leave the drivers and the lists as they are.
LEMMA DriversStay ==
  ASSUME Inv, UNCHANGED <<lists, entry, inserting>>
  PROVE  EntriesInv' /\ ListsInv' /\ FramesInv'
<1>1. EntriesInv'
  BY DEF Inv, EntriesInv
<1>2. ListsInv'
  BY ListsStay DEF Inv
<1>3. FramesInv'
  BY FramesStay DEF Inv, lists, Discovered
<1> QED BY <1>1, <1>2, <1>3

LEMMA LoopSteps ==
  ASSUME Inv, disturbed' \in BOOLEAN,
         \/ CallDispatch \/ FirstScheduled \/ StartImage \/ EntryPointReturns
         \/ StartSearch \/ Searched
  PROVE  Inv'
<1> USE DEF Inv
<1>1. EntriesInv' /\ ListsInv' /\ FramesInv'
  BY DriversStay DEF CallDispatch, FirstScheduled, StartImage, EntryPointReturns, StartSearch,
     Searched
<1>2. CASE CallDispatch
  BY <1>1, <1>2 DEF CallDispatch, TypeInv, LoopInv, lists, world, Discovered
<1>3. CASE FirstScheduled
  <2>1. mScheduledQueue \in Seq(Drivers) /\ mScheduledQueue # <<>>
    BY <1>3 DEF FirstScheduled, TypeInv
  <2>2. 1 \in 1..Len(mScheduledQueue) /\ mScheduledQueue[1] \in Drivers
    BY <2>1
  <2>3. PICK d \in Drivers : d = mScheduledQueue[1] /\ d \in Members(mScheduledQueue)
    BY <2>2 DEF Members
  <2>4. d \in Discovered /\ entry[d].Scheduled
    BY <2>3 DEF ListsInv, QueueSound
  <2>5. pc' \in {"load", "loaded"} /\ DriverEntry' = [d |-> d]
    BY <1>3, <2>3 DEF FirstScheduled, Working
  <2>6. DriverEntry' \in [d : Drivers] /\ Driver' = d
    BY <2>5 DEF Driver
  <2>7. LoopInv'
    BY <1>3, <2>4, <2>5, <2>6 DEF FirstScheduled, LoopInv, lists, Discovered
  <2>8. TypeInv'
    BY <1>3, <2>5, <2>6 DEF FirstScheduled, TypeInv, lists, world
  <2> QED BY <1>1, <2>7, <2>8
<1>4. CASE StartImage
  <2>1. DriverEntry \in [d : Drivers] /\ Driver \in Drivers /\ pc = "start"
    BY <1>4 DEF StartImage, LoopInv, Driver
  <2>2. \/ pc' = "drain" /\ DriverEntry' = NoEntry /\ image' = image
        \/ /\ pc' = "running" /\ DriverEntry' = [d |-> Driver]
           /\ image' = [image EXCEPT ![Driver] = "started"]
    BY <1>4 DEF StartImage, Working
  <2>3. DriverEntry' \in [i : Nat] \cup [d : Drivers] /\ (pc' = "running" => DriverEntry' \in [d : Drivers])
    BY <2>1, <2>2 DEF NoEntry
  <2>4. TypeInv'
    BY <1>4, <2>1, <2>2, <2>3 DEF StartImage, TypeInv, lists, world
  <2>5. LoopInv'
    BY <1>4, <2>1, <2>2, <2>3 DEF StartImage, LoopInv
  <2> QED BY <1>1, <2>4, <2>5
<1>5. CASE EntryPointReturns
  BY <1>1, <1>5 DEF EntryPointReturns, TypeInv, LoopInv, lists, world, NoEntry
<1>6. CASE StartSearch
  <2>1. DriverEntry' \in [i : Nat \ {0}] /\ DriverEntry' \in [i : Nat] /\ pc' = "search"
    BY <1>6 DEF StartSearch, Searching
  <2>2. inserting' = <<>> /\ ReadyToRun' = FALSE
    BY <1>6 DEF StartSearch, LoopInv
  <2> QED BY <1>1, <1>6, <2>1, <2>2 DEF StartSearch, TypeInv, LoopInv, lists, world
<1>7. CASE Searched
  BY <1>1, <1>7 DEF Searched, TypeInv, LoopInv, lists, world, NoEntry
<1> QED BY <1>2, <1>3, <1>4, <1>5, <1>6, <1>7

\* Protocols and volumes that are rejected change nothing of the drivers.
LEMMA OutsideSteps ==
  ASSUME Inv, disturbed' \in BOOLEAN,
         \/ \E fv \in Volumes : FwVolRejected(fv)
         \/ \E g \in Protocols : InstallProtocol(g) \/ UninstallProtocol(g)
  PROVE  Inv'
<1> USE DEF Inv
<1>1. /\ UNCHANGED <<mDiscoveredList, mScheduledQueue, entry, image, loop>>
      /\ mFvHandleList \subseteq mFvHandleList' /\ mFvHandleList' \subseteq Volumes
      /\ installed' \subseteq present' /\ present' \subseteq Protocols
  BY DEF FwVolRejected, InstallProtocol, UninstallProtocol, TypeInv, lists, world
<1>2. TypeInv'
  BY <1>1 DEF TypeInv, loop
<1>3. EntriesInv'
  BY <1>1 DEF EntriesInv
<1>4. ListsInv'
  BY <1>1 DEF ListsInv, QueueSound, Discovered
<1>5. LoopInv'
  BY <1>1 DEF LoopInv, loop, Driver, Discovered
<1>6. FramesInv'
  BY <1>1, FramesStay DEF loop, Discovered
<1> QED BY <1>2, <1>3, <1>4, <1>5, <1>6

\* One entry is written.
LEMMA EntryWritten ==
  ASSUME TypeInv, EntriesInv, NEW d \in Drivers, NEW n \in EntryType, OneState(n),
         entry' = [entry EXCEPT ![d] = n]
  PROVE  /\ entry' \in [Drivers -> EntryType] /\ EntriesInv' /\ entry'[d] = n
         /\ \A c \in Drivers \ {d} : entry'[c] = entry[c]
BY DEF TypeInv, EntriesInv

LEMMA ScheduleStep ==
  ASSUME Inv, disturbed' \in BOOLEAN, NEW d \in Drivers, Schedule(d)
  PROVE  Inv'
<1> USE DEF Inv
<1>1. PICK n : n = [entry[d] EXCEPT !.Unrequested = FALSE, !.Dependent = TRUE]
  OBVIOUS
<1>2. entry[d] \in EntryType /\ OneState(entry[d]) /\ entry[d].Unrequested
  BY DEF TypeInv, EntriesInv, Schedule
<1>3. n \in EntryType /\ OneState(n) /\ n.Scheduled = entry[d].Scheduled
      /\ n.Depex = entry[d].Depex /\ n.Dependent
  BY <1>1, <1>2 DEF EntryType, OneState
<1>4. entry' = [entry EXCEPT ![d] = n]
  BY <1>1 DEF Schedule, TypeInv
<1>5. /\ entry' \in [Drivers -> EntryType] /\ EntriesInv' /\ entry'[d] = n
      /\ \A c \in Drivers \ {d} : entry'[c] = entry[c]
  BY <1>3, <1>4, EntryWritten
<1>6. UNCHANGED <<lists, image, loop, world>>
  BY DEF Schedule
<1>7. ListsInv'
  BY <1>3, <1>5, <1>6, ListsStay
<1>8. FramesInv'
  BY <1>3, <1>5, <1>6, FramesStay, DiscoveredAreDrivers DEF loop, lists, Discovered
<1>9. LoopInv'
  BY <1>3, <1>5, <1>6, DiscoveredAreDrivers DEF LoopInv, loop, lists, Driver, Discovered
<1>10. TypeInv'
  BY <1>5, <1>6 DEF TypeInv, loop, lists, world
<1> QED BY <1>5, <1>7, <1>8, <1>9, <1>10

LEMMA TrustStep ==
  ASSUME Inv, disturbed' \in BOOLEAN, NEW d \in Drivers, Trust(d)
  PROVE  Inv'
<1> USE DEF Inv
<1>1. PICK n : n = [entry[d] EXCEPT !.Untrusted = FALSE, !.Scheduled = TRUE]
  OBVIOUS
<1>2. entry[d] \in EntryType /\ OneState(entry[d]) /\ entry[d].Untrusted /\ d \in Discovered
  BY DEF TypeInv, EntriesInv, Trust
<1>3. n \in EntryType /\ OneState(n) /\ n.Scheduled /\ n.Depex = entry[d].Depex
      /\ ~entry[d].Scheduled /\ ~entry[d].Dependent
  BY <1>1, <1>2 DEF EntryType, OneState
<1>4. entry' = [entry EXCEPT ![d] = n]
  BY <1>1 DEF Trust, TypeInv
<1>5. /\ entry' \in [Drivers -> EntryType] /\ EntriesInv' /\ entry'[d] = n
      /\ \A c \in Drivers \ {d} : entry'[c] = entry[c]
  BY <1>3, <1>4, EntryWritten
<1>6. /\ UNCHANGED <<mDiscoveredList, mFvHandleList, image, loop, world>>
      /\ mScheduledQueue' = InsertTailList(mScheduledQueue, d)
  BY DEF Trust
<1>7. ListsInv'
  BY <1>2, <1>3, <1>5, <1>6, QueueAppends
<1>8. FramesInv'
  BY <1>3, <1>5, <1>6, FramesStay, DiscoveredAreDrivers DEF loop, Discovered
<1>9. LoopInv'
  BY <1>3, <1>5, <1>6, DiscoveredAreDrivers DEF LoopInv, loop, Driver, Discovered
<1>10. TypeInv'
  <2>1. mScheduledQueue' \in Seq(Drivers)
    BY <1>6 DEF TypeInv, InsertTailList
  <2> QED BY <1>5, <1>6, <2>1 DEF TypeInv, loop, world
<1> QED BY <1>5, <1>7, <1>8, <1>9, <1>10

\* The drivers of a new volume are not linked yet.
LEMMA FwVolNotifyStep ==
  ASSUME Inv, OnePlace, disturbed' \in BOOLEAN, NEW fv \in Volumes, FwVolNotify(fv)
  PROVE  Inv'
<1> USE DEF Inv
<1> DEFINE files == Members(Fv[fv])
           first == AprioriDrivers(fv)
<1>1. /\ fv \notin mFvHandleList
      /\ mFvHandleList' = mFvHandleList \cup {fv}
      /\ mDiscoveredList' = mDiscoveredList \o Fv[fv]
      /\ mScheduledQueue' = mScheduledQueue \o first
      /\ UNCHANGED <<image, loop, world>>
      /\ entry' = [d \in Drivers |->
           IF d \notin files THEN entry[d]
           ELSE IF d \in Members(first) THEN ScheduledEntry(GetDepex(d, Zeroed))
           ELSE GetDepex(d, Zeroed)]
  BY DEF FwVolNotify
<1>2. Fv[fv] \in Seq(Drivers) /\ files \subseteq Drivers
  <2>1. Fv[fv] \in Seq(Drivers)
    BY DispatcherAssumption
  <2>2. \A k \in 1..Len(Fv[fv]) : Fv[fv][k] \in Drivers
    BY <2>1
  <2> QED BY <2>1, <2>2 DEF Members
<1>3. /\ first \in Seq(files) /\ NoDuplicates(first) /\ NoDuplicates(Fv[fv])
      /\ \A d \in Members(first) : d \notin Guided /\ ~StartsWith(DepexSection[d], "SOR")
  BY AprioriFacts DEF OnePlace
<1>4. Members(first) \subseteq files
  <2>1. \A k \in 1..Len(first) : first[k] \in files
    BY <1>3
  <2> QED BY <2>1 DEF Members
<1>5. first \in Seq(Drivers)
  BY <1>2, <1>3
<1>6. files \cap Discovered = {}
  <2> SUFFICES ASSUME NEW d \in Discovered, d \in files PROVE FALSE
    OBVIOUS
  <2>1. PICK gv \in mFvHandleList : d \in Members(Fv[gv])
    BY DEF ListsInv
  <2>2. gv \in Volumes /\ gv # fv
    BY <1>1 DEF TypeInv
  <2> QED BY <2>1, <2>2 DEF OnePlace
<1>7. mDiscoveredList \in Seq(Drivers) /\ mScheduledQueue \in Seq(Drivers)
      /\ Discovered \subseteq Drivers /\ Members(mScheduledQueue) \subseteq Discovered
  BY DiscoveredAreDrivers DEF TypeInv, ListsInv, QueueSound
<1>8. /\ mDiscoveredList' \in Seq(Drivers) /\ Discovered' = Discovered \cup files
      /\ NoDuplicates(mDiscoveredList')
  BY <1>1, <1>2, <1>3, <1>6, <1>7, AppendedList DEF Discovered, ListsInv, QueueSound
<1>9. /\ mScheduledQueue' \in Seq(Drivers)
      /\ Members(mScheduledQueue') = Members(mScheduledQueue) \cup Members(first)
      /\ NoDuplicates(mScheduledQueue')
  <2>1. Members(mScheduledQueue) \cap Members(first) = {}
    BY <1>4, <1>6, <1>7
  <2>2. NoDuplicates(mScheduledQueue)
    BY DEF ListsInv, QueueSound
  <2> HIDE DEF first
  <2> QED BY <1>1, <1>3, <1>5, <1>7, <2>1, <2>2, AppendedList
<1>10. /\ Zeroed \in EntryType /\ ~Zeroed.Dependent /\ ~Zeroed.Unrequested /\ ~Zeroed.Scheduled
       /\ ~Zeroed.Untrusted /\ ~Zeroed.Initialized
  <2>1. <<>> \in Seq(Instruction)
    OBVIOUS
  <2> QED BY <2>1 DEF Zeroed, EntryType
<1>11. ASSUME NEW d \in files
       PROVE  /\ entry'[d] \in EntryType /\ OneState(entry'[d])
              /\ entry'[d].Scheduled <=> d \in Members(first)
  <2>1. d \in Drivers
    BY <1>2
  <2>2. /\ GetDepex(d, Zeroed) \in EntryType /\ OneState(GetDepex(d, Zeroed))
        /\ ~GetDepex(d, Zeroed).Scheduled
        /\ d \in Members(first) => GetDepex(d, Zeroed).Dependent
    BY <1>3, <1>10, <2>1, GetDepexProperties
  <2>3. CASE d \in Members(first)
    <3>1. entry'[d] = ScheduledEntry(GetDepex(d, Zeroed))
      BY <1>1, <2>1, <2>3
    <3> QED BY <2>2, <2>3, <3>1, ScheduledEntryProperties
  <2>4. CASE d \notin Members(first)
    <3>1. entry'[d] = GetDepex(d, Zeroed)
      BY <1>1, <2>1, <2>4
    <3> QED BY <2>2, <2>4, <3>1
  <2> QED BY <2>3, <2>4
<1>12. \A d \in Drivers \ files : entry'[d] = entry[d]
  BY <1>1
<1>13. entry' \in [Drivers -> EntryType] /\ EntriesInv'
  <2>1. \A d \in Drivers : entry'[d] \in EntryType /\ OneState(entry'[d])
    BY <1>11, <1>12 DEF TypeInv, EntriesInv
  <2>2. entry' = [d \in Drivers |-> entry'[d]]
    BY <1>1
  <2> QED BY <2>1, <2>2 DEF EntriesInv
<1> HIDE DEF files, first
<1>14. ListsInv'
  <2>1. Members(mScheduledQueue') = {d \in Discovered' : entry'[d].Scheduled}
    BY <1>4, <1>6, <1>7, <1>8, <1>9, <1>11, <1>12 DEF ListsInv, QueueSound
  <2>2. \A d \in Discovered' : \E v \in mFvHandleList' : d \in Members(Fv[v])
    BY <1>1, <1>8 DEF ListsInv, files
  <2> QED BY <1>8, <1>9, <2>1, <2>2 DEF ListsInv, QueueSound
<1>15. \A d \in Discovered : entry'[d] = entry[d]
  BY <1>6, <1>7, <1>12
<1>16. FramesInv'
  BY <1>1, <1>8, <1>15, FramesStay DEF loop
<1>17. LoopInv'
  BY <1>1, <1>8, <1>15 DEF LoopInv, loop, Driver
<1>18. TypeInv'
  BY <1>1, <1>8, <1>9, <1>13 DEF TypeInv, loop, world
<1> QED BY <1>13, <1>14, <1>16, <1>17, <1>18

LEMMA LoadImageStep ==
  ASSUME Inv, disturbed' \in BOOLEAN, LoadImage
  PROVE  Inv'
<1> USE DEF Inv
<1>1. /\ pc = "load" /\ DriverEntry \in [d : Drivers] /\ Driver \in Drivers
      /\ Driver \in Discovered /\ entry[Driver].Scheduled /\ inserting = <<>>
  BY DEF LoadImage, LoopInv, Driver
<1>2. PICK status \in LoadStatus :
        /\ image' = [image EXCEPT ![Driver] = IF status = "ACCESS_DENIED" THEN "none" ELSE "loaded"]
        /\ \/ /\ status = "SUCCESS" /\ Working("loaded", Driver)
              /\ UNCHANGED <<entry, mScheduledQueue>>
           \/ /\ status # "SUCCESS" /\ Rejected(Driver, status)
              /\ pc' = "drain" /\ DriverEntry' = NoEntry
  BY DEF LoadImage
<1>3. UNCHANGED <<mDiscoveredList, mFvHandleList, ReadyToRun, inserting, world>>
  BY DEF LoadImage
<1>4. image' \in [Drivers -> {"none", "loaded", "started"}]
  BY <1>1, <1>2 DEF TypeInv
<1>5. CASE Working("loaded", Driver) /\ UNCHANGED <<entry, mScheduledQueue>>
  <2>1. EntriesInv' /\ ListsInv' /\ FramesInv'
    BY <1>3, <1>5, DriversStay DEF lists
  <2>2. DriverEntry' \in [d : Drivers] /\ Driver' = Driver /\ pc' = "loaded"
    BY <1>1, <1>5 DEF Working, Driver
  <2>3. LoopInv'
    BY <1>1, <1>3, <1>5, <2>2 DEF LoopInv, Discovered
  <2>4. TypeInv'
    BY <1>3, <1>4, <1>5, <2>2 DEF TypeInv, world
  <2> QED BY <2>1, <2>3, <2>4
<1>6. CASE Rejected(Driver, status) /\ pc' = "drain" /\ DriverEntry' = NoEntry
  <2>1. entry[Driver] \in EntryType /\ OneState(entry[Driver])
    BY <1>1 DEF TypeInv, EntriesInv
  <2>2. PICK n : n = IF status = "SECURITY_VIOLATION"
                     THEN [entry[Driver] EXCEPT !.Untrusted = TRUE, !.Scheduled = FALSE]
                     ELSE [entry[Driver] EXCEPT !.Initialized = TRUE, !.Scheduled = FALSE]
    OBVIOUS
  <2>3. n \in EntryType /\ OneState(n) /\ ~n.Scheduled
    BY <1>1, <2>1, <2>2 DEF EntryType, OneState
  <2>4. entry' = [entry EXCEPT ![Driver] = n] /\ Unqueued(Driver)
    BY <1>1, <1>6, <2>2 DEF Rejected, TypeInv
  <2>5. /\ entry' \in [Drivers -> EntryType] /\ EntriesInv' /\ entry'[Driver] = n
        /\ \A c \in Drivers \ {Driver} : entry'[c] = entry[c]
    BY <1>1, <2>3, <2>4, EntryWritten
  <2>6. ListsInv' /\ mScheduledQueue' \in Seq(Drivers)
    BY <1>1, <1>3, <2>3, <2>4, <2>5, QueueRemoves
  <2>7. FramesInv'
    BY <1>1, <1>3, NoFrames
  <2>8. LoopInv'
    BY <1>1, <1>3, <1>6 DEF LoopInv
  <2>9. TypeInv'
    BY <1>3, <1>4, <1>6, <2>5, <2>6 DEF TypeInv, world, NoEntry
  <2> QED BY <2>5, <2>6, <2>7, <2>8, <2>9
<1> QED BY <1>2, <1>5, <1>6

LEMMA DequeueStep ==
  ASSUME Inv, disturbed' \in BOOLEAN, Dequeue
  PROVE  Inv'
<1> USE DEF Inv
<1>1. /\ pc = "loaded" /\ DriverEntry \in [d : Drivers] /\ Driver \in Drivers
      /\ entry[Driver].Scheduled /\ inserting = <<>>
  BY DEF Dequeue, LoopInv, Driver
<1>2. entry[Driver] \in EntryType /\ OneState(entry[Driver])
  BY <1>1 DEF TypeInv, EntriesInv
<1>3. PICK n : n = [entry[Driver] EXCEPT !.Scheduled = FALSE, !.Initialized = TRUE]
  OBVIOUS
<1>4. n \in EntryType /\ OneState(n) /\ ~n.Scheduled
  BY <1>1, <1>2, <1>3 DEF EntryType, OneState
<1>5. /\ entry' = [entry EXCEPT ![Driver] = n] /\ Unqueued(Driver)
      /\ pc' = "start" /\ DriverEntry' = [d |-> Driver]
      /\ UNCHANGED <<mDiscoveredList, mFvHandleList, image, ReadyToRun, inserting, world>>
  BY <1>1, <1>3 DEF Dequeue, Working, TypeInv
<1>6. /\ entry' \in [Drivers -> EntryType] /\ EntriesInv' /\ entry'[Driver] = n
      /\ \A c \in Drivers \ {Driver} : entry'[c] = entry[c]
  BY <1>1, <1>2, <1>4, <1>5, EntryWritten
<1>7. ListsInv' /\ mScheduledQueue' \in Seq(Drivers)
  BY <1>1, <1>4, <1>5, <1>6, QueueRemoves
<1>8. FramesInv'
  BY <1>1, <1>5, NoFrames
<1>9. DriverEntry' \in [d : Drivers]
  BY <1>1, <1>5
<1>10. LoopInv'
  BY <1>1, <1>5, <1>9 DEF LoopInv
<1>11. TypeInv'
  BY <1>5, <1>6, <1>7, <1>9 DEF TypeInv, world
<1> QED BY <1>6, <1>7, <1>8, <1>10, <1>11

\* The driver of a search that is to be inserted waits, and is not tied to another one.
LEMMA SearchStep ==
  ASSUME Inv, disturbed' \in BOOLEAN, Search
  PROVE  Inv'
<1> USE DEF Inv
<1>1. /\ pc = "search" /\ DriverEntry \in [i : Nat \ {0}] /\ inserting = <<>>
      /\ DriverEntry.i <= Len(mDiscoveredList) /\ mDiscoveredList \in Seq(Drivers)
  BY DEF Search, LoopInv, TypeInv
<1>2. PICK d \in Drivers : d = mDiscoveredList[DriverEntry.i] /\ d \in Discovered
  <2>1. DriverEntry.i \in 1..Len(mDiscoveredList)
    BY <1>1
  <2> QED BY <1>1, <2>1 DEF Discovered, Members
<1>3. entry[d] \in EntryType /\ OneState(entry[d])
  BY DEF TypeInv, EntriesInv
<1>4. PICK e : e = IF entry[d].DepexProtocolError THEN GetDepex(d, entry[d]) ELSE entry[d]
  OBVIOUS
<1>5. e \in EntryType /\ OneState(e) /\ e.Scheduled = entry[d].Scheduled
  <2>1. CASE entry[d].DepexProtocolError
    <3>1. ~entry[d].Scheduled
      BY <1>3, <2>1 DEF OneState
    <3>2. /\ GetDepex(d, entry[d]) \in EntryType /\ OneState(GetDepex(d, entry[d]))
          /\ ~GetDepex(d, entry[d]).Scheduled
      BY <1>3, <2>1, GetDepexProperties DEF OneState
    <3>3. e = GetDepex(d, entry[d])
      BY <1>4, <2>1
    <3>4. e \in EntryType /\ entry[d] \in EntryType /\ ~e.Scheduled
      BY <1>3, <3>2, <3>3
    <3>5. e.Scheduled = entry[d].Scheduled
      BY <3>1, <3>4 DEF EntryType
    <3> QED BY <3>2, <3>3, <3>5
  <2>2. CASE ~entry[d].DepexProtocolError
    BY <1>3, <1>4, <2>2
  <2> QED BY <2>1, <2>2
<1>6. PICK patched : patched = [e EXCEPT !.Depex = Patched(e.Depex, installed)]
  OBVIOUS
<1>7. /\ patched \in EntryType /\ OneState(patched) /\ patched.Scheduled = e.Scheduled
      /\ patched.Dependent = e.Dependent
      /\ \A op \in {"BEFORE", "AFTER"} :
           StartsWith(patched.Depex, op) <=> StartsWith(e.Depex, op)
  <2>1. e.Depex \in Seq(Instruction)
    BY <1>5 DEF EntryType
  <2>2. PICK depex : depex = Patched(e.Depex, installed)
    OBVIOUS
  <2>3. /\ depex \in Seq(Instruction)
        /\ \A op \in {"BEFORE", "AFTER"} : StartsWith(depex, op) <=> StartsWith(e.Depex, op)
    BY <2>1, <2>2, PatchedIsDepex
  <2>4. patched = [e EXCEPT !.Depex = depex]
    BY <1>6, <2>2
  <2>5. patched \in EntryType /\ patched.Depex = depex /\ OneState(patched)
        /\ patched.Scheduled = e.Scheduled /\ patched.Dependent = e.Dependent
    BY <1>5, <2>3, <2>4 DEF EntryType, OneState
  <2> QED BY <2>3, <2>5
<1>8. \/ /\ e.Dependent /\ IsSchedulable(e)
         /\ entry' = [entry EXCEPT ![d] = patched]
         /\ inserting' = <<Insertion(d)>>
         /\ pc' = "insert" /\ ReadyToRun' = TRUE
         /\ UNCHANGED DriverEntry
      \/ /\ ~(e.Dependent /\ IsSchedulable(e))
         /\ entry' = [entry EXCEPT ![d] = IF e.Dependent THEN patched ELSE e]
         /\ Searching(DriverEntry.i + 1)
         /\ UNCHANGED <<ReadyToRun, inserting>>
  BY <1>2, <1>4, <1>6 DEF Search
<1>9. UNCHANGED <<lists, image, world>>
  BY DEF Search
<1>10. PICK n \in EntryType : /\ OneState(n) /\ n.Scheduled = entry[d].Scheduled
                              /\ entry' = [entry EXCEPT ![d] = n]
                              /\ e.Dependent /\ IsSchedulable(e) => n = patched
  BY <1>5, <1>7, <1>8
<1>11. /\ entry' \in [Drivers -> EntryType] /\ EntriesInv' /\ entry'[d] = n
       /\ \A c \in Drivers \ {d} : entry'[c] = entry[c]
  BY <1>10, EntryWritten
<1>12. ListsInv'
  BY <1>9, <1>10, <1>11, ListsStay
<1>13. CASE /\ e.Dependent /\ IsSchedulable(e) /\ inserting' = <<Insertion(d)>>
            /\ pc' = "insert" /\ ReadyToRun' = TRUE /\ UNCHANGED DriverEntry
  <2>1. PICK f : f = Insertion(d)
    OBVIOUS
  <2>2. f \in FrameType /\ f.d = d /\ f.at = "befores"
    BY <1>1, <2>1 DEF Insertion, FrameType
  <2>3. inserting' = <<f>> /\ Len(inserting') = 1 /\ inserting'[1] = f
        /\ inserting' \in Seq(FrameType)
    BY <1>13, <2>1, <2>2
  <2>4. ~StartsWith(e.Depex, "BEFORE") /\ ~StartsWith(e.Depex, "AFTER")
    <3>1. e.Depex # <<>> => ~(StartsWith(e.Depex, "BEFORE") \/ StartsWith(e.Depex, "AFTER"))
      BY <1>13 DEF IsSchedulable
    <3> QED BY <3>1 DEF StartsWith
  <2>5. entry'[d].Dependent /\ ~IsBefore(d)' /\ ~IsAfter(d)'
    BY <1>7, <1>10, <1>11, <1>13, <2>4 DEF IsBefore, IsAfter
  <2>6. \A k \in 1..Len(inserting') : k = 1
    BY <2>3
  <2>7. FramesInv'
    <3>1. d \in Discovered'
      BY <1>2, <1>9 DEF lists, Discovered
    <3> QED BY <2>2, <2>3, <2>5, <2>6, <3>1 DEF FramesInv
  <2>8. LoopInv'
    BY <1>1, <1>13, <2>3 DEF LoopInv
  <2>9. TypeInv'
    BY <1>9, <1>11, <1>13, <2>3 DEF TypeInv, lists, world
  <2> QED BY <1>11, <1>12, <2>7, <2>8, <2>9
<1>14. CASE Searching(DriverEntry.i + 1) /\ UNCHANGED <<ReadyToRun, inserting>>
  <2>1. DriverEntry' \in [i : Nat \ {0}] /\ DriverEntry' \in [i : Nat] /\ pc' = "search"
    <3>1. DriverEntry.i + 1 \in Nat \ {0}
      BY <1>1
    <3> QED BY <1>14, <3>1 DEF Searching
  <2>2. FramesInv'
    BY <1>1, <1>14, NoFrames
  <2>3. LoopInv'
    BY <1>1, <1>14, <2>1 DEF LoopInv
  <2>4. TypeInv'
    BY <1>9, <1>11, <1>14, <2>1 DEF TypeInv, lists, world
  <2> QED BY <1>11, <1>12, <2>2, <2>3, <2>4
<1> QED BY <1>8, <1>13, <1>14

\* The innermost call, and the others when it goes on or returns.
LEMMA FrameFacts ==
  ASSUME TypeInv, LoopInv, FramesInv, pc = "insert"
  PROVE  /\ Len(inserting) \in Nat \ {0} /\ Frame \in FrameType /\ Frame.d \in Discovered
         /\ Frame = inserting[Len(inserting)] /\ inserting \in Seq(FrameType)
         /\ Caller \in Seq(FrameType) /\ Len(Caller) = Len(inserting) - 1
         /\ \A k \in 1..(Len(inserting) - 1) : Caller[k] = inserting[k]
<1>1. inserting \in Seq(FrameType) /\ inserting # <<>>
  BY DEF TypeInv, LoopInv
<1>2. Len(inserting) \in Nat \ {0} /\ Len(inserting) \in 1..Len(inserting)
  BY <1>1
<1>3. inserting[Len(inserting)] \in FrameType
  BY <1>1, <1>2
<1>4. /\ Caller \in Seq(FrameType) /\ Len(Caller) = Len(inserting) - 1
      /\ \A k \in 1..(Len(inserting) - 1) : Caller[k] = inserting[k]
  <2>0. Len(inserting) - 1 \in Nat
    BY <1>2
  <2>1. PICK n \in Nat : n = Len(inserting) - 1
    BY <2>0, Zenon
  <2>2. PICK s \in Seq(FrameType) : s = inserting
    BY <1>1
  <2>3. n <= Len(s) /\ Caller = SubSeq(s, 1, n)
    BY <1>2, <2>1, <2>2 DEF Caller
  <2>4. Len(SubSeq(s, 1, n)) = n /\ \A k \in 1..n : SubSeq(s, 1, n)[k] = s[k]
    BY <2>3
  <2>5. \A k \in 1..n : s[k] \in FrameType
    BY <2>3
  <2>6. SubSeq(s, 1, n) \in Seq(FrameType)
    BY <2>3
  <2> QED BY <2>1, <2>2, <2>3, <2>4, <2>6
<1> QED BY <1>1, <1>2, <1>3, <1>4 DEF Frame, FramesInv

\* The innermost call goes on with the same driver.
LEMMA FrameGoesOn ==
  ASSUME TypeInv, LoopInv, FramesInv, pc = "insert",
         NEW f \in FrameType, f.d = Frame.d, inserting' = Append(Caller, f),
         f.at \in {"befores", "lock"} => Frame.at \in {"befores", "lock"} /\ entry'[f.d].Dependent,
         Discovered' = Discovered,
         \A d \in Discovered : /\ entry'[d].Depex = entry[d].Depex
                               /\ d # Frame.d => entry'[d] = entry[d]
  PROVE  inserting' \in Seq(FrameType) /\ inserting' # <<>> /\ FramesInv'
<1>1. /\ Len(inserting) \in Nat \ {0} /\ Frame = inserting[Len(inserting)]
      /\ Caller \in Seq(FrameType) /\ Len(Caller) = Len(inserting) - 1
      /\ \A k \in 1..(Len(inserting) - 1) : Caller[k] = inserting[k]
  BY FrameFacts
<1>2. /\ inserting' \in Seq(FrameType) /\ Len(inserting') = Len(inserting)
      /\ inserting'[Len(inserting)] = f
      /\ \A k \in 1..(Len(inserting) - 1) : inserting'[k] = inserting[k]
  BY <1>1
<1>3. \A k \in 1..Len(inserting) :
        /\ inserting'[k].d = inserting[k].d
        /\ inserting[k].d \in Discovered
        /\ k # Len(inserting) => inserting'[k] = inserting[k] /\ inserting[k].d # Frame.d
        /\ k = Len(inserting) => inserting'[k] = f
  BY <1>1, <1>2 DEF FramesInv
<1>4. \A k \in 1..Len(inserting) :
        inserting'[k].at \in {"befores", "lock"} => entry'[inserting'[k].d].Dependent
  BY <1>1, <1>3 DEF FramesInv
<1>5. \A d \in Discovered : (IsBefore(d)' <=> IsBefore(d)) /\ (IsAfter(d)' <=> IsAfter(d))
                            /\ Names(d)' = Names(d)
  BY DEF IsBefore, IsAfter, Names
<1>6. \A k \in 1..Len(inserting) : k > 1 => k - 1 \in 1..Len(inserting)
  BY <1>1
<1>7. FramesInv'
  BY <1>2, <1>3, <1>4, <1>5, <1>6 DEF FramesInv
<1> QED BY <1>1, <1>2, <1>7

\* A driver that is tied to the one of the innermost call is none of those in progress.
LEMMA TiedIsNew ==
  ASSUME TypeInv, LoopInv, FramesInv, OnePlace, pc = "insert",
         NEW d \in Discovered, IsBefore(d) \/ IsAfter(d), Names(d) = FileName[Frame.d],
         NEW k \in 1..Len(inserting)
  PROVE  inserting[k].d # d
<1>1. /\ Len(inserting) \in Nat \ {0} /\ Frame = inserting[Len(inserting)]
      /\ Frame.d \in Drivers
  BY FrameFacts DEF FrameType
<1>2. CASE k = 1
  BY <1>2 DEF FramesInv
<1>3. CASE k > 1
  <2> SUFFICES ASSUME inserting[k].d = d PROVE FALSE
    OBVIOUS
  <2>1. k - 1 \in 1..Len(inserting) /\ k - 1 # Len(inserting)
    BY <1>1, <1>3
  <2>2. inserting[k - 1].d \in Drivers
    BY <2>1, DiscoveredAreDrivers DEF FramesInv
  <2>3. FileName[inserting[k - 1].d] = FileName[Frame.d]
    BY <1>3 DEF FramesInv
  <2>4. inserting[k - 1].d = inserting[Len(inserting)].d
    BY <1>1, <2>2, <2>3 DEF OnePlace
  <2>5. Len(inserting) \in 1..Len(inserting)
    BY <1>1
  <2> QED BY <2>1, <2>4, <2>5 DEF FramesInv
<1> QED BY <1>1, <1>2, <1>3

\* The call for a tied driver on top of the others.
LEMMA FrameAdded ==
  ASSUME TypeInv, LoopInv, FramesInv, OnePlace, pc = "insert", UNCHANGED <<entry, mDiscoveredList>>,
         NEW d \in Discovered, IsBefore(d) \/ IsAfter(d), Names(d) = FileName[Frame.d],
         entry[d].Dependent,
         NEW next \in FrameType, next.d = Frame.d,
         next.at \in {"befores", "lock"} => Frame.at \in {"befores", "lock"},
         inserting' = Append(Append(Caller, next), Insertion(d))
  PROVE  inserting' \in Seq(FrameType) /\ inserting' # <<>> /\ FramesInv'
<1>1. /\ Len(inserting) \in Nat \ {0} /\ Frame = inserting[Len(inserting)]
      /\ Caller \in Seq(FrameType) /\ Len(Caller) = Len(inserting) - 1
      /\ \A k \in 1..(Len(inserting) - 1) : Caller[k] = inserting[k]
  BY FrameFacts
<1>2. PICK n \in Nat \ {0} : n = Len(inserting)
  BY <1>1
<1>3. PICK f : f = Insertion(d)
  OBVIOUS
<1>4. f \in FrameType /\ f.d = d /\ f.at = "befores"
  <2>1. d \in Drivers /\ Len(mDiscoveredList) \in Nat
    BY DiscoveredAreDrivers DEF TypeInv
  <2> QED BY <1>3, <2>1 DEF Insertion, FrameType
<1>5. /\ inserting' \in Seq(FrameType) /\ Len(inserting') = n + 1
      /\ inserting'[n + 1] = f /\ inserting'[n] = next
      /\ \A k \in 1..(n - 1) : inserting'[k] = inserting[k]
  <2>1. PICK q : q = Append(Caller, next)
    OBVIOUS
  <2>2. q \in Seq(FrameType) /\ Len(q) = n /\ q[n] = next
        /\ \A k \in 1..(n - 1) : q[k] = inserting[k]
    BY <1>1, <1>2, <2>1
  <2>3. inserting' = Append(q, f)
    BY <1>3, <2>1
  <2> QED BY <1>4, <2>2, <2>3
<1>6. \A k \in 1..n : /\ inserting'[k].d = inserting[k].d
                      /\ inserting'[k].at \in {"befores", "lock"} =>
                           inserting[k].at \in {"befores", "lock"}
                      /\ inserting[k].d # d
  <2>1. \A k \in 1..n : inserting[k].d # d
    BY <1>2, TiedIsNew
  <2>2. \A k \in 1..n : k = n \/ k \in 1..(n - 1)
    OBVIOUS
  <2> QED BY <1>1, <1>2, <1>5, <2>1, <2>2
<1>7. Discovered' = Discovered
  BY DEF Discovered
<1>8. entry' = entry
  OBVIOUS
<1>9. \A k \in 1..Len(inserting') : k \in 1..n \/ k = n + 1
  BY <1>5
<1>10. ASSUME NEW k \in 1..Len(inserting')
       PROVE  /\ inserting'[k].d \in Discovered'
              /\ inserting'[k].at \in {"befores", "lock"} => entry'[inserting'[k].d].Dependent
              /\ k = 1 => ~IsBefore(inserting[k].d) /\ ~IsAfter(inserting[k].d) /\ k \in 1..n
              /\ k > 1 => /\ (IsBefore(inserting'[k].d) \/ IsAfter(inserting'[k].d))
                          /\ Names(inserting'[k].d) = FileName[inserting'[k - 1].d]
  <2>1. CASE k \in 1..n
    <3>1. k > 1 => k - 1 \in 1..n
      BY <2>1
    <3> QED BY <1>2, <1>6, <1>7, <2>1, <3>1 DEF FramesInv
  <2>2. CASE k = n + 1
    <3>1. inserting'[k] = f /\ inserting'[k - 1].d = Frame.d /\ k > 1
      BY <1>5, <2>2
    <3> QED BY <1>4, <1>7, <2>2, <3>1
  <2> QED BY <1>9, <2>1, <2>2
<1>11. \A k, l \in 1..Len(inserting') : inserting'[k].d = inserting'[l].d => k = l
  <2>1. \A k, l \in 1..n : inserting'[k].d = inserting'[l].d => k = l
    <3>1. \A k, l \in 1..n : inserting[k].d = inserting[l].d => k = l
      BY <1>2 DEF FramesInv
    <3>2. \A k \in 1..n : inserting'[k].d = inserting[k].d
      BY <1>6
    <3> QED BY <3>1, <3>2
  <2> QED BY <1>4, <1>5, <1>6, <1>9, <2>1
<1>12. FramesInv'
  <2>1. \A k \in 1..Len(inserting') : k = 1 => inserting'[k].d = inserting[k].d
    BY <1>6, <1>10
  <2>2. \A k \in 1..Len(inserting') : k = 1 =>
          /\ ~StartsWith(entry'[inserting'[k].d].Depex, "BEFORE")
          /\ ~StartsWith(entry'[inserting'[k].d].Depex, "AFTER")
    BY <1>8, <1>10, <2>1 DEF IsBefore, IsAfter
  <2>3. \A k \in 1..Len(inserting') : k > 1 =>
          /\ \/ StartsWith(entry'[inserting'[k].d].Depex, "BEFORE")
             \/ StartsWith(entry'[inserting'[k].d].Depex, "AFTER")
          /\ entry'[inserting'[k].d].Depex[1].guid = FileName[inserting'[k - 1].d]
    BY <1>8, <1>10 DEF IsBefore, IsAfter, Names
  <2>4. \A k \in 1..Len(inserting') :
          /\ inserting'[k].d \in Discovered'
          /\ inserting'[k].at \in {"befores", "lock"} => entry'[inserting'[k].d].Dependent
    BY <1>10
  <2> QED BY <1>11, <2>2, <2>3, <2>4 DEF FramesInv, IsBefore, IsAfter, Names
<1> QED BY <1>5, <1>12

\* The steps of the walk over the list.
LEMMA WalkStep ==
  ASSUME Inv, OnePlace, disturbed' \in BOOLEAN, Befores \/ Afters
  PROVE  Inv'
<1> USE DEF Inv
<1>1. pc = "insert" /\ UNCHANGED <<lists, entry, image, pc, DriverEntry, ReadyToRun, world>>
  BY DEF Befores, Afters
<1>2. Frame \in FrameType
  BY <1>1, FrameFacts
<1>3. Discovered' = Discovered
  BY <1>1 DEF lists, Discovered
<1>4. EntriesInv' /\ ListsInv'
  BY <1>1, ListsStay DEF EntriesInv
\* The walk goes on to the next driver of the list.
<1>5. ASSUME NEW tie \in {"BEFORE", "AFTER"}, Step(tie), More
      PROVE  inserting' \in Seq(FrameType) /\ inserting' # <<>> /\ FramesInv'
  <2>1. PICK next : next = [Frame EXCEPT !.i = Frame.i + 1]
    OBVIOUS
  <2>2. next \in FrameType /\ next.d = Frame.d /\ next.at = Frame.at
    BY <1>2, <2>1 DEF FrameType
  <2>3. PICK d \in Drivers : d = mDiscoveredList[Frame.i] /\ d \in Discovered
    <3>1. mDiscoveredList \in Seq(Drivers) /\ Frame.i \in 1..Len(mDiscoveredList)
      BY <1>2, <1>5 DEF TypeInv, FrameType, More
    <3> QED BY <3>1 DEF Discovered, Members
  <2>4. inserting' = IF Tied(tie, d) THEN Append(Append(Caller, next), Insertion(d))
                     ELSE Append(Caller, next)
    BY <1>5, <2>1, <2>3 DEF Step
  <2>5. CASE Tied(tie, d)
    <3>1. entry[d].Dependent /\ Names(d) = FileName[Frame.d] /\ (IsBefore(d) \/ IsAfter(d))
      BY <2>5 DEF Tied, IsBefore, IsAfter
    <3>2. UNCHANGED <<entry, mDiscoveredList>>
      BY <1>1 DEF lists
    <3> QED BY <1>1, <2>2, <2>3, <2>4, <2>5, <3>1, <3>2, FrameAdded
  <2>6. CASE ~Tied(tie, d)
    <3>1. inserting' = Append(Caller, next)
      BY <2>4, <2>6
    <3>2. Frame.at \in {"befores", "lock"} => entry'[next.d].Dependent
      BY <1>1, <2>2, FrameFacts DEF FramesInv
    <3> QED BY <1>1, <1>3, <2>2, <3>1, <3>2, FrameGoesOn
  <2> QED BY <2>5, <2>6
<1>6. ASSUME Goto([Frame EXCEPT !.at = "lock"]), Frame.at = "befores"
      PROVE  inserting' \in Seq(FrameType) /\ inserting' # <<>> /\ FramesInv'
  <2>1. PICK f : f = [Frame EXCEPT !.at = "lock"]
    OBVIOUS
  <2>2. f \in FrameType /\ f.d = Frame.d /\ f.at = "lock"
    BY <1>2, <2>1 DEF FrameType
  <2>3. inserting' = Append(Caller, f)
    BY <1>6, <2>1 DEF Goto
  <2>4. entry'[f.d].Dependent
    <3>1. Len(inserting) \in 1..Len(inserting) /\ Frame = inserting[Len(inserting)]
      BY <1>1, FrameFacts
    <3> QED BY <1>1, <1>6, <2>2, <3>1 DEF FramesInv
  <2> QED BY <1>1, <1>3, <1>6, <2>2, <2>3, <2>4, FrameGoesOn
<1>7. inserting' \in Seq(FrameType) /\ inserting' # <<>> /\ FramesInv'
  BY <1>5, <1>6 DEF Befores, Afters
<1>8. LoopInv'
  BY <1>1, <1>7 DEF LoopInv
<1>9. TypeInv'
  BY <1>1, <1>7 DEF TypeInv, lists, world
<1> QED BY <1>4, <1>7, <1>8, <1>9

LEMMA InsertDriverStep ==
  ASSUME Inv, disturbed' \in BOOLEAN, InsertDriver
  PROVE  Inv'
<1> USE DEF Inv
<1>1. /\ pc = "insert" /\ Frame.at = "lock"
      /\ UNCHANGED <<mDiscoveredList, mFvHandleList, image, pc, DriverEntry, ReadyToRun, world>>
      /\ mScheduledQueue' = InsertTailList(mScheduledQueue, Frame.d)
  BY DEF InsertDriver
<1>2. /\ Frame \in FrameType /\ Frame.d \in Discovered /\ Len(inserting) \in Nat \ {0}
      /\ Frame = inserting[Len(inserting)]
  BY <1>1, FrameFacts
<1>3. PICK d \in Drivers : d = Frame.d
  BY <1>2 DEF FrameType
<1>4. entry[d] \in EntryType /\ OneState(entry[d]) /\ entry[d].Dependent
  <2>1. Len(inserting) \in 1..Len(inserting)
    BY <1>2
  <2> QED BY <1>1, <1>2, <1>3, <2>1 DEF TypeInv, EntriesInv, FramesInv
<1>5. PICK n : n = ScheduledEntry(entry[d])
  OBVIOUS
<1>6. n \in EntryType /\ OneState(n) /\ n.Scheduled /\ n.Depex = entry[d].Depex
  BY <1>4, <1>5, ScheduledEntryProperties
<1>7. entry' = [entry EXCEPT ![d] = n]
  BY <1>3, <1>5 DEF InsertDriver
<1>8. /\ entry' \in [Drivers -> EntryType] /\ EntriesInv' /\ entry'[d] = n
      /\ \A c \in Drivers \ {d} : entry'[c] = entry[c]
  BY <1>6, <1>7, EntryWritten
<1>9. ListsInv'
  <2>1. ~entry[d].Scheduled
    BY <1>4 DEF OneState
  <2> QED BY <1>1, <1>2, <1>3, <1>6, <1>8, <2>1, QueueAppends
<1>10. inserting' \in Seq(FrameType) /\ inserting' # <<>> /\ FramesInv'
  <2>1. PICK f : f = [Frame EXCEPT !.at = "afters", !.i = 1]
    OBVIOUS
  <2>2. f \in FrameType /\ f.d = Frame.d /\ f.at = "afters"
    <3>1. PICK r : r = Frame
      OBVIOUS
    <3>2. r \in [d : Drivers, at : {"befores", "lock", "afters"}, i : Nat \ {0}, known : Nat]
      BY <1>2, <3>1 DEF FrameType
    <3>3. f = [r EXCEPT !.at = "afters", !.i = 1]
      BY <2>1, <3>1
    <3>4. f = [d |-> r.d, at |-> "afters", i |-> 1, known |-> r.known]
      BY <3>2, <3>3
    <3> QED BY <3>1, <3>2, <3>4 DEF FrameType
  <2>3. inserting' = Append(Caller, f)
    BY <2>1 DEF InsertDriver, Goto
  <2>4. Discovered' = Discovered
    BY <1>1 DEF Discovered
  <2>5. \A c \in Discovered : /\ entry'[c].Depex = entry[c].Depex
                              /\ c # Frame.d => entry'[c] = entry[c]
    BY <1>3, <1>6, <1>8, DiscoveredAreDrivers
  <2> QED BY <1>1, <2>2, <2>3, <2>4, <2>5, FrameGoesOn
<1>11. LoopInv'
  BY <1>1, <1>10 DEF LoopInv
<1>12. mScheduledQueue' \in Seq(Drivers)
  BY <1>1, <1>3 DEF TypeInv, InsertTailList
<1>13. TypeInv'
  BY <1>1, <1>8, <1>10, <1>12 DEF TypeInv, world
<1> QED BY <1>8, <1>9, <1>10, <1>11, <1>13

LEMMA InsertReturnsStep ==
  ASSUME Inv, disturbed' \in BOOLEAN, InsertReturns
  PROVE  Inv'
<1> USE DEF Inv
<1>1. /\ pc = "insert" /\ inserting' = Caller
      /\ UNCHANGED <<lists, entry, image, ReadyToRun, world>>
  BY DEF InsertReturns
<1>2. /\ Len(inserting) \in Nat \ {0}
      /\ Caller \in Seq(FrameType) /\ Len(Caller) = Len(inserting) - 1
      /\ \A k \in 1..(Len(inserting) - 1) : Caller[k] = inserting[k]
  BY <1>1, FrameFacts
<1>3. EntriesInv' /\ ListsInv'
  BY <1>1, ListsStay DEF EntriesInv
<1>4. FramesInv'
  <2>1. Discovered' = Discovered
    BY <1>1 DEF lists, Discovered
  <2>2. \A k \in 1..Len(inserting') : /\ k \in 1..Len(inserting) /\ inserting'[k] = inserting[k]
                                      /\ k > 1 => inserting'[k - 1] = inserting[k - 1]
    BY <1>1, <1>2
  <2> QED BY <1>1, <2>1, <2>2 DEF FramesInv, IsBefore, IsAfter, Names
<1>5. CASE Len(inserting) = 1
  <2>1. pc' = "search" /\ DriverEntry' = [i |-> DriverEntry.i + 1]
    BY <1>5 DEF InsertReturns, Searching
  <2>2. DriverEntry.i + 1 \in Nat \ {0}
    BY <1>1 DEF LoopInv
  <2>3. DriverEntry' \in [i : Nat \ {0}] /\ DriverEntry' \in [i : Nat]
    BY <2>1, <2>2
  <2>4. inserting' = <<>>
    BY <1>1, <1>2, <1>5
  <2>5. LoopInv'
    BY <2>1, <2>3, <2>4 DEF LoopInv
  <2>6. TypeInv'
    BY <1>1, <1>2, <2>1, <2>3 DEF TypeInv, lists, world
  <2> QED BY <1>3, <1>4, <2>5, <2>6
<1>6. CASE Len(inserting) # 1
  <2>1. pc' = pc /\ DriverEntry' = DriverEntry
    BY <1>6 DEF InsertReturns
  <2>2. inserting' # <<>>
    BY <1>1, <1>2, <1>6
  <2>3. LoopInv'
    BY <1>1, <2>1, <2>2 DEF LoopInv
  <2>4. TypeInv'
    BY <1>1, <1>2, <2>1 DEF TypeInv, lists, world
  <2> QED BY <1>3, <1>4, <2>3, <2>4
<1> QED BY <1>5, <1>6
-----------------------------------------------------------------------------
LEMMA InvariantInitially == Init => Inv
<1> SUFFICES ASSUME Init PROVE Inv
  OBVIOUS
<1>1. Zeroed \in EntryType /\ OneState(Zeroed) /\ ~Zeroed.Scheduled
  <2>1. <<>> \in Seq(Instruction)
    OBVIOUS
  <2> QED BY <2>1 DEF Zeroed, EntryType, OneState
<1>2. TypeInv
  <2>1. DriverEntry \in [i : Nat]
    BY DEF Init, NoEntry
  <2>2. entry \in [Drivers -> EntryType] /\ image \in [Drivers -> {"none", "loaded", "started"}]
    BY <1>1 DEF Init
  <2>3. <<>> \in Seq(Drivers) /\ <<>> \in Seq(FrameType)
    OBVIOUS
  <2> QED BY <2>1, <2>2, <2>3 DEF Init, TypeInv
<1>3. EntriesInv
  BY <1>1 DEF Init, EntriesInv
<1>4. ListsInv
  BY <1>1 DEF Init, ListsInv, QueueSound, NoDuplicates, Members, Discovered
<1>5. LoopInv
  BY DEF Init, LoopInv
<1>6. FramesInv
  BY DEF Init, FramesInv
<1> QED BY <1>2, <1>3, <1>4, <1>5, <1>6 DEF Inv

LEMMA StepKeepsInvariant ==
  ASSUME Inv, OnePlace, [Next]_vars
  PROVE  Inv'
<1>1. CASE CoreDispatcher
  <2>1. disturbed' \in BOOLEAN
    BY <1>1 DEF CoreDispatcher, Inv, TypeInv
  <2> QED BY <1>1, <2>1, LoopSteps, LoadImageStep, DequeueStep, SearchStep, WalkStep,
             InsertDriverStep, InsertReturnsStep DEF CoreDispatcher
<1>2. CASE Outside
  <2>1. disturbed' \in BOOLEAN
    BY <1>2 DEF Outside, Inv, TypeInv
  <2> QED BY <1>2, <2>1, OutsideSteps, FwVolNotifyStep, ScheduleStep, TrustStep DEF Outside
<1>3. CASE UNCHANGED vars
  <2>1. UNCHANGED <<lists, entry, image, loop, world, disturbed>>
    BY <1>3 DEF vars
  <2>2. EntriesInv' /\ ListsInv' /\ FramesInv'
    BY <2>1, DriversStay DEF loop
  <2>3. TypeInv' /\ LoopInv'
    BY <2>1 DEF Inv, TypeInv, LoopInv, lists, loop, world, Driver, Discovered
  <2> QED BY <2>2, <2>3 DEF Inv
<1> QED BY <1>1, <1>2, <1>3 DEF Next

\* Every variable of the dispatcher keeps its type.
THEOREM DispatcherTypeCorrect == OnePlace => (Spec => []TypeOK)
<1> SUFFICES ASSUME OnePlace PROVE Spec => []TypeOK
  OBVIOUS
<1>1. Inv /\ [Next]_vars => Inv'
  BY StepKeepsInvariant
<1> QED BY <1>1, InvariantInitially, InvariantImplies, PTL DEF Spec

\* Whatever drivers, expressions and callers there are, and whenever volumes and protocols
\* appear: each driver is linked once, the queue holds the Scheduled ones, and none comes
\* back that was started or rejected.
THEOREM LinkedOnce == OnePlace => (Spec => []DriversLinkedOnce)
<1> SUFFICES ASSUME OnePlace PROVE Spec => []DriversLinkedOnce
  OBVIOUS
<1>1. Inv /\ [Next]_vars => Inv'
  BY StepKeepsInvariant
<1> QED BY <1>1, InvariantInitially, InvariantImplies, PTL DEF Spec
-----------------------------------------------------------------------------
(* The order of the scheduled queue.                                       *)

\* b waits for the driver with that name.
Waits(tie, name, b) ==
  entry[b].Dependent /\ StartsWith(entry[b].Depex, tie) /\ Names(b) = name

\* The call for b is the one that the k-th call is in.
Calls(k, b) == k < Len(inserting) /\ inserting[k + 1].d = b

\* What the k-th call still owes the j-th driver of the list.
Passed(k, j) ==
  LET f == inserting[k]
      b == mDiscoveredList[j]
  IN  /\ f.at = "befores" /\ j < f.i => ~Waits("BEFORE", FileName[f.d], b) \/ Calls(k, b)
      /\ f.at = "lock" => ~Waits("BEFORE", FileName[f.d], b)
      /\ f.at = "afters" /\ j < f.i => ~Waits("AFTER", FileName[f.d], b) \/ Calls(k, b)

CallSound(k) ==
  /\ inserting[k].known <= Len(mDiscoveredList)
  /\ inserting[k].at = "lock" => k = Len(inserting)
  /\ inserting[k].at = "afters" => entry[inserting[k].d].Scheduled

CallsInv ==
  \A k \in 1..Len(inserting) :
    CallSound(k) /\ \A j \in 1..inserting[k].known : Passed(k, j)

\* Schedule makes only drivers Dependent that no other one is tied to.
OnRequestInv == \A d \in Drivers : entry[d].Unrequested => StartsWith(entry[d].Depex, "SOR")

TieInv == Inv /\ OnRequestInv /\ CallsInv
-----------------------------------------------------------------------------
LEMMA OnRequestStays ==
  ASSUME OnRequestInv,
         \A d \in Drivers : entry'[d].Unrequested =>
           entry[d].Unrequested /\ entry'[d].Depex = entry[d].Depex
  PROVE  OnRequestInv'
BY DEF OnRequestInv

LEMMA GetDepexOnRequest ==
  ASSUME NEW d \in Drivers, NEW e \in EntryType, ~e.Unrequested
  PROVE  GetDepex(d, e).Unrequested => StartsWith(GetDepex(d, e).Depex, "SOR")
<1>1. DepexSection[d] \in Seq(Instruction)
  BY DispatcherAssumption DEF Instruction
<1>2. CASE d \in Guided /\ ExtractionGuid \notin installed
  <2>1. GetDepex(d, e) = [e EXCEPT !.DepexProtocolError = TRUE]
    BY <1>2 DEF GetDepex
  <2> QED BY <2>1 DEF EntryType
<1>3. CASE ~(d \in Guided /\ ExtractionGuid \notin installed) /\ StartsWith(DepexSection[d], "SOR")
  <2>1. GetDepex(d, e) = [e EXCEPT !.DepexProtocolError = FALSE, !.Depex = DepexSection[d],
                                   !.Unrequested = TRUE]
    BY <1>3 DEF GetDepex
  <2>2. GetDepex(d, e).Depex = DepexSection[d]
    BY <2>1 DEF EntryType
  <2> QED BY <1>3, <2>2
<1>4. CASE ~(d \in Guided /\ ExtractionGuid \notin installed) /\ ~StartsWith(DepexSection[d], "SOR")
  <2>1. GetDepex(d, e) = [e EXCEPT !.DepexProtocolError = FALSE, !.Depex = DepexSection[d],
                                   !.Dependent = TRUE]
    BY <1>4 DEF GetDepex
  <2> QED BY <2>1 DEF EntryType
<1> QED BY <1>2, <1>3, <1>4

\* The calls in progress stay where they are: the list only grows, no known driver starts
\* to wait, and none that is on the queue leaves it.
LEMMA CallsStay ==
  ASSUME Inv, CallsInv, inserting' = inserting, Len(mDiscoveredList') \in Nat,
         Len(mDiscoveredList) <= Len(mDiscoveredList'),
         \A j \in 1..Len(mDiscoveredList) : mDiscoveredList'[j] = mDiscoveredList[j],
         \A d \in Discovered :
           /\ entry[d].Scheduled => entry'[d].Scheduled
           /\ \A tie \in {"BEFORE", "AFTER"} : \A c \in Drivers :
                Waits(tie, FileName[c], d)' => Waits(tie, FileName[c], d)
  PROVE  CallsInv'
<1>1. mDiscoveredList \in Seq(Drivers) /\ inserting \in Seq(FrameType)
  BY DEF Inv, TypeInv
<1> SUFFICES ASSUME NEW k \in 1..Len(inserting)
             PROVE  CallSound(k)' /\ \A j \in 1..inserting[k].known : Passed(k, j)'
  BY DEF CallsInv
<1>2. /\ inserting[k] \in FrameType /\ inserting[k].d \in Discovered /\ inserting[k].d \in Drivers
      /\ inserting[k].known \in Nat
  <2>1. inserting[k] \in FrameType
    BY <1>1
  <2>2. inserting[k].d \in Discovered
    BY DEF Inv, FramesInv
  <2> QED BY <2>1, <2>2, DiscoveredAreDrivers DEF Inv, FrameType
<1>3. CallSound(k)'
  <2>1. CallSound(k)
    BY DEF CallsInv
  <2>2. Len(mDiscoveredList) \in Nat
    BY <1>1
  <2> QED BY <1>2, <2>1, <2>2 DEF CallSound
<1>4. ASSUME NEW j \in 1..inserting[k].known
      PROVE  Passed(k, j)'
  <2>1. Passed(k, j) /\ CallSound(k)
    BY DEF CallsInv
  <2>2. j \in 1..Len(mDiscoveredList)
    BY <1>1, <1>2, <2>1 DEF CallSound
  <2>3. mDiscoveredList'[j] = mDiscoveredList[j] /\ mDiscoveredList[j] \in Discovered
    BY <2>2 DEF Discovered, Members
  <2>4. \A tie \in {"BEFORE", "AFTER"} :
          Waits(tie, FileName[inserting[k].d], mDiscoveredList[j])'
            => Waits(tie, FileName[inserting[k].d], mDiscoveredList[j])
    BY <1>2, <2>3 DEF Waits, Names
  <2>5. Calls(k, mDiscoveredList[j])' <=> Calls(k, mDiscoveredList[j])
    BY <2>3 DEF Calls
  <2> QED BY <2>1, <2>3, <2>4, <2>5 DEF Passed
<1> QED BY <1>3, <1>4
-----------------------------------------------------------------------------
(* Steps that do not insert.                                               *)

\* Without calls there is nothing to keep.
LEMMA NoCalls ==
  ASSUME inserting' = <<>>
  PROVE  CallsInv'
BY DEF CallsInv

LEMMA LoopKeepsTies ==
  ASSUME TieInv,
         \/ CallDispatch \/ FirstScheduled \/ StartImage \/ EntryPointReturns
         \/ StartSearch \/ Searched
  PROVE  OnRequestInv' /\ CallsInv'
<1>1. entry' = entry /\ inserting' = inserting /\ pc # "insert"
  BY DEF CallDispatch, FirstScheduled, StartImage, EntryPointReturns, StartSearch, Searched
<1>2. inserting = <<>>
  BY <1>1 DEF TieInv, Inv, LoopInv
<1> QED BY <1>1, <1>2, NoCalls, OnRequestStays DEF TieInv

LEMMA RemovalKeepsTies ==
  ASSUME TieInv, LoadImage \/ Dequeue
  PROVE  OnRequestInv' /\ CallsInv'
<1>1. /\ pc # "insert" /\ inserting' = inserting
      /\ entry \in [Drivers -> EntryType]
  BY DEF LoadImage, Dequeue, TieInv, Inv, TypeInv
<1>2. CallsInv'
  BY <1>1, NoCalls DEF TieInv, Inv, LoopInv
<1>3. \A d \in Drivers : entry'[d].Unrequested = entry[d].Unrequested /\ entry'[d].Depex = entry[d].Depex
  <2>1. \A d \in Drivers : entry[d] \in EntryType
    BY <1>1
  <2>2. \/ entry' = entry
        \/ entry' = [entry EXCEPT ![Driver].Untrusted = TRUE, ![Driver].Scheduled = FALSE]
        \/ entry' = [entry EXCEPT ![Driver].Initialized = TRUE, ![Driver].Scheduled = FALSE]
        \/ entry' = [entry EXCEPT ![Driver].Scheduled = FALSE, ![Driver].Initialized = TRUE]
    <3>1. ASSUME NEW status \in LoadStatus, Rejected(Driver, status)
          PROVE  \/ entry' = [entry EXCEPT ![Driver].Untrusted = TRUE, ![Driver].Scheduled = FALSE]
                 \/ entry' = [entry EXCEPT ![Driver].Initialized = TRUE, ![Driver].Scheduled = FALSE]
      BY <3>1, Zenon DEF Rejected
    <3>2. CASE LoadImage
      <4>1. entry' = entry \/ \E status \in LoadStatus : Rejected(Driver, status)
        BY <3>2 DEF LoadImage
      <4> QED BY <3>1, <4>1
    <3>3. CASE Dequeue
      <4>1. entry' = [entry EXCEPT ![Driver].Scheduled = FALSE, ![Driver].Initialized = TRUE]
        BY <3>3 DEF Dequeue
      <4> QED BY <4>1, Zenon
    <3> QED BY <3>2, <3>3
  <2>3. ASSUME NEW d \in Drivers
        PROVE  entry'[d].Unrequested = entry[d].Unrequested /\ entry'[d].Depex = entry[d].Depex
    <3>1. \/ entry'[d] = entry[d]
          \/ entry'[d] = [entry[d] EXCEPT !.Untrusted = TRUE, !.Scheduled = FALSE]
          \/ entry'[d] = [entry[d] EXCEPT !.Initialized = TRUE, !.Scheduled = FALSE]
          \/ entry'[d] = [entry[d] EXCEPT !.Scheduled = FALSE, !.Initialized = TRUE]
      <4>1. CASE d = Driver
        BY <1>1, <2>2, <4>1
      <4>2. CASE d # Driver
        BY <1>1, <2>2, <4>2
      <4> QED BY <4>1, <4>2
    <3> QED BY <2>1, <3>1 DEF EntryType
  <2> QED BY <2>3
<1> QED BY <1>2, <1>3, OnRequestStays DEF TieInv

LEMMA QuietKeepsTies ==
  ASSUME TieInv, UNCHANGED <<mDiscoveredList, entry, inserting>>
  PROVE  OnRequestInv' /\ CallsInv'
<1>1. Len(mDiscoveredList) \in Nat
  BY DEF TieInv, Inv, TypeInv
<1>2. CallsInv'
  BY <1>1, CallsStay DEF TieInv, Waits, Names
<1> QED BY <1>2, OnRequestStays DEF TieInv

LEMMA ScheduleKeepsTies ==
  ASSUME TieInv, NEW d \in Drivers, Schedule(d)
  PROVE  OnRequestInv' /\ CallsInv'
<1>1. /\ entry \in [Drivers -> EntryType] /\ entry[d].Unrequested
      /\ UNCHANGED <<mDiscoveredList, inserting>> /\ Len(mDiscoveredList) \in Nat
  BY DEF TieInv, Inv, TypeInv, Schedule, lists, loop
<1>2. /\ \A c \in Drivers \ {d} : entry'[c] = entry[c]
      /\ entry'[d].Depex = entry[d].Depex /\ entry'[d].Scheduled = entry[d].Scheduled
      /\ ~entry'[d].Unrequested
  <2>1. entry[d] \in EntryType
    BY <1>1
  <2> QED BY <1>1, <2>1 DEF Schedule, EntryType
<1>3. entry[d].Depex # <<>> /\ entry[d].Depex[1].op = "SOR"
  BY <1>1 DEF TieInv, OnRequestInv, StartsWith
<1>4. ASSUME NEW b \in Discovered, NEW tie \in {"BEFORE", "AFTER"}, NEW c \in Drivers,
             Waits(tie, FileName[c], b)'
      PROVE  Waits(tie, FileName[c], b)
  <2>1. b \in Drivers
    BY DiscoveredAreDrivers DEF TieInv, Inv
  <2>2. b # d
    BY <1>2, <1>3, <1>4 DEF Waits, StartsWith
  <2> QED BY <1>2, <1>4, <2>1, <2>2 DEF Waits, Names
<1>5. \A b \in Discovered : entry[b].Scheduled => entry'[b].Scheduled
  BY <1>2, DiscoveredAreDrivers DEF TieInv, Inv
<1>6. CallsInv'
  BY <1>1, <1>4, <1>5, CallsStay DEF TieInv
<1> QED BY <1>2, <1>6, OnRequestStays DEF TieInv

LEMMA TrustKeepsTies ==
  ASSUME TieInv, NEW d \in Drivers, Trust(d)
  PROVE  OnRequestInv' /\ CallsInv'
<1>1. /\ entry \in [Drivers -> EntryType]
      /\ UNCHANGED <<mDiscoveredList, inserting>> /\ Len(mDiscoveredList) \in Nat
  BY DEF TieInv, Inv, TypeInv, Trust, lists, loop
<1>2. /\ \A c \in Drivers \ {d} : entry'[c] = entry[c]
      /\ entry'[d].Depex = entry[d].Depex /\ entry'[d].Scheduled
      /\ entry'[d].Dependent = entry[d].Dependent
      /\ entry'[d].Unrequested = entry[d].Unrequested
  <2>1. entry[d] \in EntryType
    BY <1>1
  <2> QED BY <1>1, <2>1 DEF Trust, EntryType
<1>3. \A c \in Drivers : /\ entry'[c].Depex = entry[c].Depex
                         /\ entry'[c].Dependent = entry[c].Dependent
                         /\ entry'[c].Unrequested = entry[c].Unrequested
                         /\ entry[c].Scheduled => entry'[c].Scheduled
  BY <1>2
<1>4. CallsInv'
  BY <1>1, <1>3, DiscoveredAreDrivers, CallsStay DEF TieInv, Inv, Waits, Names
<1> QED BY <1>3, <1>4, OnRequestStays DEF TieInv

LEMMA FwVolNotifyKeepsTies ==
  ASSUME TieInv, OnePlace, NEW fv \in Volumes, FwVolNotify(fv)
  PROVE  OnRequestInv' /\ CallsInv'
<1>1. /\ mDiscoveredList' = mDiscoveredList \o Fv[fv] /\ inserting' = inserting
      /\ fv \notin mFvHandleList
      /\ entry' = [d \in Drivers |->
           IF d \notin Members(Fv[fv]) THEN entry[d]
           ELSE IF d \in Members(AprioriDrivers(fv)) THEN ScheduledEntry(GetDepex(d, Zeroed))
           ELSE GetDepex(d, Zeroed)]
  BY DEF FwVolNotify, loop
<1>2. Fv[fv] \in Seq(Drivers) /\ mDiscoveredList \in Seq(Drivers)
  BY DispatcherAssumption DEF TieInv, Inv, TypeInv
<1>3. \A d \in Discovered : entry'[d] = entry[d]
  <2> SUFFICES ASSUME NEW d \in Discovered PROVE entry'[d] = entry[d]
    OBVIOUS
  <2>1. PICK gv \in mFvHandleList : d \in Members(Fv[gv])
    BY DEF TieInv, Inv, ListsInv
  <2>2. gv \in Volumes /\ gv # fv
    BY <1>1 DEF TieInv, Inv, TypeInv
  <2>3. d \notin Members(Fv[fv])
    BY <2>1, <2>2 DEF OnePlace
  <2>4. d \in Drivers
    BY DiscoveredAreDrivers DEF TieInv, Inv
  <2> QED BY <1>1, <2>3, <2>4
<1>4. CallsInv'
  <2>1. /\ Len(mDiscoveredList') \in Nat /\ Len(mDiscoveredList) <= Len(mDiscoveredList')
        /\ \A j \in 1..Len(mDiscoveredList) : mDiscoveredList'[j] = mDiscoveredList[j]
    BY <1>1, <1>2
  <2>2. \A d \in Discovered :
           /\ entry[d].Scheduled => entry'[d].Scheduled
           /\ \A tie \in {"BEFORE", "AFTER"} : \A c \in Drivers :
                Waits(tie, FileName[c], d)' => Waits(tie, FileName[c], d)
    BY <1>3 DEF Waits, Names
  <2> QED BY <1>1, <2>1, <2>2, CallsStay DEF TieInv
<1>5. Zeroed \in EntryType /\ ~Zeroed.Unrequested
  <2>1. <<>> \in Seq(Instruction)
    OBVIOUS
  <2> QED BY <2>1 DEF Zeroed, EntryType
<1>6. ASSUME NEW d \in Drivers, entry'[d].Unrequested
      PROVE  StartsWith(entry'[d].Depex, "SOR")
  <2>1. GetDepex(d, Zeroed).Unrequested => StartsWith(GetDepex(d, Zeroed).Depex, "SOR")
    BY <1>5, GetDepexOnRequest
  <2>2. CASE d \notin Members(Fv[fv])
    <3>1. entry'[d] = entry[d]
      BY <1>1, <2>2
    <3> QED BY <1>6, <3>1 DEF TieInv, OnRequestInv
  <2>3. CASE d \in Members(Fv[fv]) /\ d \notin Members(AprioriDrivers(fv))
    <3>1. entry'[d] = GetDepex(d, Zeroed)
      BY <1>1, <2>3
    <3> QED BY <1>6, <2>1, <3>1
  <2>4. CASE d \in Members(Fv[fv]) /\ d \in Members(AprioriDrivers(fv))
    <3>1. entry'[d] = ScheduledEntry(GetDepex(d, Zeroed))
      BY <1>1, <2>4
    <3>2. GetDepex(d, Zeroed) \in EntryType
      BY <1>5, GetDepexProperties DEF Zeroed
    <3>3. /\ entry'[d].Unrequested = GetDepex(d, Zeroed).Unrequested
          /\ entry'[d].Depex = GetDepex(d, Zeroed).Depex
      BY <3>1, <3>2 DEF ScheduledEntry, EntryType
    <3> QED BY <1>6, <2>1, <3>3
  <2> QED BY <2>2, <2>3, <2>4
<1> QED BY <1>4, <1>6 DEF OnRequestInv

LEMMA SearchKeepsTies ==
  ASSUME TieInv, Search
  PROVE  OnRequestInv' /\ CallsInv'
<1>1. /\ pc = "search" /\ DriverEntry \in [i : Nat \ {0}] /\ inserting = <<>>
      /\ DriverEntry.i <= Len(mDiscoveredList) /\ mDiscoveredList \in Seq(Drivers)
      /\ entry \in [Drivers -> EntryType] /\ UNCHANGED lists
  BY DEF Search, TieInv, Inv, LoopInv, TypeInv
<1>2. PICK d \in Drivers : d = mDiscoveredList[DriverEntry.i] /\ d \in Discovered
  <2>1. DriverEntry.i \in 1..Len(mDiscoveredList)
    BY <1>1
  <2> QED BY <1>1, <2>1 DEF Discovered, Members
<1>3. PICK e : e = IF entry[d].DepexProtocolError THEN GetDepex(d, entry[d]) ELSE entry[d]
  OBVIOUS
<1>4. PICK depex : depex = Patched(e.Depex, installed)
  OBVIOUS
<1>5. \/ /\ e.Dependent /\ IsSchedulable(e)
         /\ entry' = [entry EXCEPT ![d] = [e EXCEPT !.Depex = depex]]
         /\ inserting' = <<Insertion(d)>>
      \/ /\ ~(e.Dependent /\ IsSchedulable(e))
         /\ entry' = [entry EXCEPT ![d] = IF e.Dependent THEN [e EXCEPT !.Depex = depex] ELSE e]
         /\ inserting' = inserting
  BY <1>2, <1>3, <1>4 DEF Search
<1>6. e \in EntryType /\ OneState(e) /\ (e.Unrequested => StartsWith(e.Depex, "SOR"))
  <2>1. entry[d] \in EntryType /\ OneState(entry[d])
        /\ (entry[d].Unrequested => StartsWith(entry[d].Depex, "SOR"))
    BY <1>1 DEF TieInv, Inv, EntriesInv, OnRequestInv
  <2>2. CASE entry[d].DepexProtocolError
    <3>1. ~entry[d].Unrequested /\ e = GetDepex(d, entry[d])
      BY <1>3, <2>1, <2>2 DEF OneState
    <3>2. e \in EntryType /\ OneState(e)
      BY <2>1, <2>2, <3>1, GetDepexProperties DEF OneState
    <3> QED BY <2>1, <3>1, <3>2, GetDepexOnRequest
  <2>3. CASE ~entry[d].DepexProtocolError
    BY <1>3, <2>1, <2>3
  <2> QED BY <2>2, <2>3
<1>7. OnRequestInv'
  <2>1. PICK n : /\ entry' = [entry EXCEPT ![d] = n]
                 /\ n = IF e.Dependent THEN [e EXCEPT !.Depex = depex] ELSE e
    BY <1>5
  <2>2. n.Unrequested => StartsWith(n.Depex, "SOR")
    <3>1. CASE e.Dependent
      <4>1. n.Unrequested = e.Unrequested /\ ~e.Unrequested
        BY <1>6, <2>1, <3>1 DEF EntryType, OneState
      <4> QED BY <4>1
    <3>2. CASE ~e.Dependent
      BY <1>6, <2>1, <3>2
    <3> QED BY <3>1, <3>2
  <2>3. \A c \in Drivers : entry'[c] = IF c = d THEN n ELSE entry[c]
    BY <1>1, <2>1
  <2> QED BY <2>2, <2>3 DEF TieInv, OnRequestInv
<1>8. CASE inserting' = <<Insertion(d)>>
  <2>1. PICK f : f = Insertion(d)
    OBVIOUS
  <2>2. /\ f.at = "befores" /\ f.i = 1 /\ f.known = Len(mDiscoveredList')
        /\ f.known \in Nat
    BY <1>1, <2>1 DEF Insertion, lists
  <2>3. Len(inserting') = 1 /\ inserting'[1] = f
    BY <1>8, <2>1
  <2>4. \A k \in 1..Len(inserting') : k = 1
    BY <2>3
  <2>5. CallSound(1)'
    BY <2>2, <2>3 DEF CallSound
  <2>6. \A j \in 1..f.known : Passed(1, j)'
    BY <2>2, <2>3 DEF Passed
  <2> QED BY <1>7, <2>3, <2>4, <2>5, <2>6 DEF CallsInv
<1>9. CASE inserting' = inserting
  BY <1>1, <1>7, <1>9, NoCalls
<1> QED BY <1>5, <1>8, <1>9
-----------------------------------------------------------------------------
(* Steps of the recursion.                                                 *)

LEMMA CallFacts ==
  ASSUME TieInv, pc = "insert"
  PROVE  /\ Len(inserting) \in Nat \ {0} /\ Frame \in FrameType /\ Frame.d \in Discovered
         /\ Frame.d \in Drivers
         /\ Frame = inserting[Len(inserting)] /\ Len(Caller) = Len(inserting) - 1
         /\ Caller \in Seq(FrameType)
         /\ \A k \in 1..(Len(inserting) - 1) : Caller[k] = inserting[k]
         /\ Len(mDiscoveredList) \in Nat
         /\ \A k \in 1..Len(inserting) :
              inserting[k] \in FrameType /\ CallSound(k) /\ \A j \in 1..inserting[k].known : Passed(k, j)
<1>1. TypeInv /\ LoopInv /\ FramesInv
  BY DEF TieInv, Inv
<1>2. /\ Len(inserting) \in Nat \ {0} /\ Frame \in FrameType /\ Frame.d \in Discovered
      /\ Frame = inserting[Len(inserting)] /\ Len(Caller) = Len(inserting) - 1
      /\ Caller \in Seq(FrameType) /\ inserting \in Seq(FrameType)
      /\ \A k \in 1..(Len(inserting) - 1) : Caller[k] = inserting[k]
  BY <1>1, FrameFacts
<1>3. Frame.d \in Drivers
  BY <1>1, <1>2, DiscoveredAreDrivers
<1>4. Len(mDiscoveredList) \in Nat
  BY <1>1 DEF TypeInv
<1>5. \A k \in 1..Len(inserting) :
        inserting[k] \in FrameType /\ CallSound(k) /\ \A j \in 1..inserting[k].known : Passed(k, j)
  BY <1>2 DEF TieInv, CallsInv
<1> QED BY <1>2, <1>3, <1>4, <1>5

\* The innermost call goes on as f, and calls d when "called" holds; the calls below it stay.
LEMMA InnermostGoesOn ==
  ASSUME TieInv, pc = "insert", NEW n, n = Len(inserting),
         NEW f \in FrameType, f.d = Frame.d, f.known = Frame.known,
         UNCHANGED mDiscoveredList,
         \/ inserting' = Append(Caller, f)
         \/ \E d \in Drivers : f.at # "lock" /\ inserting' = Append(Append(Caller, f), Insertion(d)),
         f.at = "afters" => entry'[f.d].Scheduled,
         Frame.at = "lock" => f.at # "befores",
         \A b \in Discovered :
           /\ entry[b].Scheduled => entry'[b].Scheduled
           /\ \A tie \in {"BEFORE", "AFTER"} : \A c \in Drivers :
                Waits(tie, FileName[c], b)' => Waits(tie, FileName[c], b),
         \A j \in 1..f.known : Passed(n, j)'
  PROVE  CallsInv'
<1>1. n \in Nat \ {0} /\ n = Len(inserting)
  BY CallFacts
<1>2. PICK q : q = Append(Caller, f)
  OBVIOUS
<1>3. /\ q \in Seq(FrameType) /\ Len(q) = n /\ q[n] = f
      /\ \A k \in 1..(n - 1) : q[k] = inserting[k]
  BY <1>1, <1>2, CallFacts
<1>4. \/ inserting' = q
      \/ \E d \in Drivers : f.at # "lock" /\ inserting' = Append(q, Insertion(d))
  BY <1>2
<1>5. /\ Len(inserting') \in Nat /\ n <= Len(inserting') /\ inserting'[n] = f
      /\ \A k \in 1..(n - 1) : inserting'[k] = inserting[k]
      /\ Len(inserting') # n => /\ Len(inserting') = n + 1 /\ f.at # "lock"
                                /\ \E d \in Drivers : inserting'[n + 1] = Insertion(d)
  <2>1. CASE inserting' = q
    BY <1>3, <2>1
  <2>2. ASSUME NEW d \in Drivers, f.at # "lock", inserting' = Append(q, Insertion(d))
        PROVE  /\ Len(inserting') = n + 1 /\ inserting'[n + 1] = Insertion(d) /\ inserting'[n] = f
               /\ \A k \in 1..(n - 1) : inserting'[k] = inserting[k]
    <3>1. PICK g : g = Insertion(d)
      OBVIOUS
    <3>2. inserting' = Append(q, g)
      BY <2>2, <3>1
    <3> QED BY <1>1, <1>3, <3>1, <3>2
  <2> QED BY <1>4, <2>1, <2>2
<1>6. Len(mDiscoveredList) \in Nat /\ f.d \in Drivers
  BY CallFacts
\* The calls below the innermost one.
<1>7. ASSUME NEW k \in 1..(n - 1)
      PROVE  CallSound(k)' /\ \A j \in 1..inserting'[k].known : Passed(k, j)'
  <2>1. /\ k \in 1..Len(inserting) /\ k # Len(inserting) /\ k < n /\ k + 1 \in 1..n
        /\ inserting'[k] = inserting[k] /\ inserting'[k + 1].d = inserting[k + 1].d
    <3>1. k + 1 \in 1..(n - 1) \/ k + 1 = n
      BY <1>7
    <3>2. inserting[n].d = f.d
      BY <1>1, CallFacts
    <3> QED BY <1>1, <1>5, <1>7, <3>1, <3>2
  <2>2. inserting[k] \in FrameType /\ CallSound(k) /\ inserting[k].at # "lock"
    BY <2>1, CallFacts DEF CallSound
  <2>3. inserting[k].d \in Discovered /\ inserting[k].d \in Drivers
    BY <2>1, DiscoveredAreDrivers DEF TieInv, Inv, FramesInv
  <2>4. CallSound(k)'
    BY <2>1, <2>2, <2>3 DEF CallSound
  <2>5. ASSUME NEW j \in 1..inserting[k].known
        PROVE  Passed(k, j)'
    <3>1. Passed(k, j)
      BY <2>1, CallFacts
    <3>2. j \in 1..Len(mDiscoveredList) /\ inserting[k].known \in Nat
      BY <1>6, <2>2 DEF CallSound, FrameType
    <3>3. mDiscoveredList[j] \in Discovered
      BY <3>2 DEF Discovered, Members
    <3>4. PICK b, c : b = mDiscoveredList[j] /\ c = inserting[k].d
      OBVIOUS
    <3>5. \A tie \in {"BEFORE", "AFTER"} : Waits(tie, FileName[c], b)' => Waits(tie, FileName[c], b)
      BY <2>3, <3>3, <3>4
    <3>6. Calls(k, b) => Calls(k, b)'
      BY <1>5, <2>1 DEF Calls
    <3>7. b = mDiscoveredList'[j] /\ c = inserting'[k].d
      BY <2>1, <3>4
    <3>8. Passed(k, j)' <=> LET g == inserting'[k] IN
            /\ g.at = "befores" /\ j < g.i => ~Waits("BEFORE", FileName[c], b)' \/ Calls(k, b)'
            /\ g.at = "lock" => ~Waits("BEFORE", FileName[c], b)'
            /\ g.at = "afters" /\ j < g.i => ~Waits("AFTER", FileName[c], b)' \/ Calls(k, b)'
      BY <3>7 DEF Passed, Waits, Names, Calls
    <3> QED BY <2>1, <2>2, <3>1, <3>4, <3>5, <3>6, <3>8 DEF Passed
  <2> QED BY <2>1, <2>4, <2>5
\* The innermost call.
<1>8. CallSound(n)' /\ \A j \in 1..inserting'[n].known : Passed(n, j)'
  <2>1. CallSound(Len(inserting)) /\ Frame = inserting[Len(inserting)]
    BY <1>1, CallFacts
  <2>2. f.known <= Len(mDiscoveredList')
    BY <2>1 DEF CallSound
  <2>3. CallSound(n)'
    BY <1>5, <2>2 DEF CallSound
  <2> QED BY <1>1, <1>5, <2>3
\* The call that it makes.
<1>9. ASSUME Len(inserting') = n + 1, NEW d \in Drivers, inserting'[n + 1] = Insertion(d)
      PROVE  CallSound(n + 1)' /\ \A j \in 1..inserting'[n + 1].known : Passed(n + 1, j)'
  <2>1. /\ inserting'[n + 1].at = "befores" /\ inserting'[n + 1].i = 1
        /\ inserting'[n + 1].known = Len(mDiscoveredList')
    BY <1>9 DEF Insertion
  <2>2. CallSound(n + 1)'
    BY <1>6, <2>1 DEF CallSound
  <2>3. \A j \in 1..inserting'[n + 1].known : Passed(n + 1, j)'
    BY <1>6, <2>1 DEF Passed
  <2> QED BY <2>2, <2>3
<1>10. \A k \in 1..Len(inserting') :
         k \in 1..(n - 1) \/ k = n \/ (k = n + 1 /\ Len(inserting') = n + 1)
  BY <1>5
<1>11. ASSUME NEW k \in 1..Len(inserting')
       PROVE  CallSound(k)' /\ \A j \in 1..inserting'[k].known : Passed(k, j)'
  <2>1. CASE k \in 1..(n - 1)
    BY <1>7, <2>1
  <2>2. CASE k = n
    BY <1>8, <2>2
  <2>3. CASE k = n + 1 /\ Len(inserting') = n + 1
    <3>1. PICK d \in Drivers : inserting'[n + 1] = Insertion(d)
      BY <1>5, <2>3
    <3> QED BY <1>9, <2>3, <3>1
  <2> QED BY <1>10, <2>1, <2>2, <2>3
<1> QED BY <1>11 DEF CallsInv

\* The walk goes on to the next driver, or to the insertion.
LEMMA WalkKeepsTies ==
  ASSUME TieInv, Befores \/ Afters
  PROVE  OnRequestInv' /\ CallsInv'
<1>1. pc = "insert" /\ UNCHANGED <<mDiscoveredList, entry>>
  BY DEF Befores, Afters, lists
<1>2. PICK n \in Nat \ {0} : n = Len(inserting)
  BY <1>1, CallFacts
<1>3. /\ Frame \in FrameType /\ Frame.d \in Drivers /\ Frame = inserting[n]
      /\ CallSound(n) /\ \A j \in 1..Frame.known : Passed(n, j)
      /\ Len(mDiscoveredList) \in Nat /\ mDiscoveredList \in Seq(Drivers)
  <2>1. n \in 1..Len(inserting)
    BY <1>2
  <2> QED BY <1>1, <1>2, <2>1, CallFacts DEF TieInv, Inv, TypeInv
<1>4. \A b \in Discovered :
        /\ entry[b].Scheduled => entry'[b].Scheduled
        /\ \A tie \in {"BEFORE", "AFTER"} : \A c \in Drivers :
             Waits(tie, FileName[c], b)' => Waits(tie, FileName[c], b)
  BY <1>1 DEF Waits, Names
<1>5. PICK x : x = Frame
  OBVIOUS
<1>6. x \in FrameType /\ x.d \in Drivers /\ x.known \in Nat /\ x.known <= Len(mDiscoveredList)
      /\ x.i \in Nat \ {0} /\ x = inserting[n]
  BY <1>3, <1>5 DEF FrameType, CallSound
\* What was passed before; the innermost call makes no other one.
<1>7. ASSUME NEW j \in 1..x.known
      PROVE  LET b == mDiscoveredList[j] IN
             /\ x.at = "befores" /\ j < x.i => ~Waits("BEFORE", FileName[x.d], b)
             /\ x.at = "afters" /\ j < x.i => ~Waits("AFTER", FileName[x.d], b)
  <2>1. Passed(n, j)
    BY <1>3, <1>5
  <2>2. \A b : ~Calls(n, b)
    BY <1>2 DEF Calls
  <2> QED BY <1>6, <2>1, <2>2 DEF Passed
<1>8. ASSUME NEW tie \in {"BEFORE", "AFTER"}, Step(tie), More,
             x.at = IF tie = "BEFORE" THEN "befores" ELSE "afters"
      PROVE  CallsInv'
  <2>1. PICK f : f = [x EXCEPT !.i = x.i + 1]
    OBVIOUS
  <2>2. f \in FrameType /\ f.d = x.d /\ f.at = x.at /\ f.known = x.known /\ f.i = x.i + 1
    BY <1>6, <2>1 DEF FrameType
  <2>3. x.i \in 1..Len(mDiscoveredList)
    BY <1>3, <1>5, <1>6, <1>8 DEF More
  <2>4. PICK d \in Drivers : d = mDiscoveredList[x.i]
    BY <1>3, <2>3
  <2>5. \/ Waits(tie, FileName[x.d], d) /\ inserting' = Append(Append(Caller, f), Insertion(d))
        \/ ~Waits(tie, FileName[x.d], d) /\ inserting' = Append(Caller, f)
    <3>1. Tied(tie, d) <=> Waits(tie, FileName[x.d], d)
      BY <1>5 DEF Tied, Waits
    <3>2. inserting' = IF Tied(tie, d) THEN Append(Append(Caller, f), Insertion(d))
                       ELSE Append(Caller, f)
      BY <1>5, <1>8, <2>1, <2>4 DEF Step
    <3> QED BY <3>1, <3>2
  <2>6. /\ inserting'[n] = f
        /\ Waits(tie, FileName[x.d], d) => Len(inserting') = n + 1 /\ inserting'[n + 1].d = d
    <3>1. PICK q : q = Append(Caller, f)
      OBVIOUS
    <3>2. q \in Seq(FrameType) /\ Len(q) = n /\ q[n] = f
      BY <1>1, <1>2, <2>2, <3>1, CallFacts
    <3>3. PICK g : g = Insertion(d)
      OBVIOUS
    <3>4. g.d = d
      BY <3>3 DEF Insertion
    <3> QED BY <1>2, <2>5, <3>1, <3>2, <3>3, <3>4
  <2>7. ASSUME NEW j \in 1..f.known
        PROVE  Passed(n, j)'
    <3>1. PICK b : b = mDiscoveredList[j]
      OBVIOUS
    <3>2. Passed(n, j)' <=>
            /\ f.at = "befores" /\ j < f.i => ~Waits("BEFORE", FileName[f.d], b) \/ Calls(n, b)'
            /\ f.at = "lock" => ~Waits("BEFORE", FileName[f.d], b)
            /\ f.at = "afters" /\ j < f.i => ~Waits("AFTER", FileName[f.d], b) \/ Calls(n, b)'
      BY <1>1, <2>6, <3>1 DEF Passed, Waits, Names, Calls
    <3>3. j < f.i => j < x.i \/ (j = x.i /\ b = d)
      BY <1>6, <2>2, <2>4, <3>1
    <3>4. Waits(tie, FileName[x.d], d) => Calls(n, d)'
      BY <1>2, <2>6 DEF Calls
    <3>5. /\ x.at = "befores" /\ j < x.i => ~Waits("BEFORE", FileName[x.d], b)
          /\ x.at = "afters" /\ j < x.i => ~Waits("AFTER", FileName[x.d], b)
      BY <1>7, <2>2, <3>1
    <3> QED BY <1>8, <2>2, <3>2, <3>3, <3>4, <3>5
  <2>8. f.at = "afters" => entry'[f.d].Scheduled
    BY <1>1, <1>3, <1>6, <2>2 DEF CallSound
  <2>9. f.d = Frame.d /\ f.known = Frame.known /\ f.at # "lock" /\ Frame.at # "lock"
    BY <1>5, <1>8, <2>2
  <2>10. \/ inserting' = Append(Caller, f)
         \/ \E c \in Drivers : f.at # "lock" /\ inserting' = Append(Append(Caller, f), Insertion(c))
    BY <2>5, <2>9
  <2> QED BY <1>1, <1>2, <1>4, <2>2, <2>7, <2>8, <2>9, <2>10, InnermostGoesOn
<1>9. ASSUME Goto([Frame EXCEPT !.at = "lock"]), x.at = "befores", ~More
      PROVE  CallsInv'
  <2>1. PICK f : f = [x EXCEPT !.at = "lock"]
    OBVIOUS
  <2>2. f \in FrameType /\ f.d = x.d /\ f.at = "lock" /\ f.known = x.known /\ f.i = x.i
    BY <1>6, <2>1 DEF FrameType
  <2>3. inserting' = Append(Caller, f)
    BY <1>5, <1>9, <2>1 DEF Goto
  <2>4. inserting'[n] = f
    BY <1>1, <1>2, <2>2, <2>3, CallFacts
  <2>5. ASSUME NEW j \in 1..f.known
        PROVE  Passed(n, j)'
    <3>1. PICK b : b = mDiscoveredList[j]
      OBVIOUS
    <3>2. j < x.i
      BY <1>3, <1>5, <1>6, <1>9, <2>2 DEF More
    <3>3. ~Waits("BEFORE", FileName[x.d], b)
      BY <1>7, <1>9, <2>2, <3>1, <3>2
    <3> QED BY <1>1, <2>2, <2>4, <3>1, <3>3 DEF Passed, Waits, Names
  <2>6. f.d = Frame.d /\ f.known = Frame.known
    BY <1>5, <2>2
  <2> QED BY <1>1, <1>2, <1>4, <2>2, <2>3, <2>5, <2>6, InnermostGoesOn
<1>10. CallsInv'
  <2>1. CASE Befores
    BY <1>5, <1>8, <1>9, <2>1 DEF Befores
  <2>2. CASE Afters
    BY <1>5, <1>8, <2>2 DEF Afters
  <2> QED BY <2>1, <2>2
<1> QED BY <1>1, <1>10, OnRequestStays DEF TieInv

LEMMA InsertKeepsTies ==
  ASSUME TieInv, InsertDriver
  PROVE  OnRequestInv' /\ CallsInv'
<1>1. /\ pc = "insert" /\ Frame.at = "lock" /\ UNCHANGED mDiscoveredList
      /\ entry' = [entry EXCEPT ![Frame.d] = ScheduledEntry(entry[Frame.d])]
      /\ Goto([Frame EXCEPT !.at = "afters", !.i = 1])
      /\ entry \in [Drivers -> EntryType]
  BY DEF InsertDriver, TieInv, Inv, TypeInv
<1>2. PICK n \in Nat \ {0} : n = Len(inserting)
  BY <1>1, CallFacts
<1>3. PICK x \in FrameType : x = Frame
  BY <1>1, CallFacts
<1>4. x.d \in Drivers /\ x.known \in Nat
  BY DEF FrameType
<1>5. /\ \A d \in Drivers : /\ entry'[d].Depex = entry[d].Depex
                            /\ entry'[d].Dependent => entry[d].Dependent
                            /\ entry'[d].Unrequested = entry[d].Unrequested
                            /\ entry[d].Scheduled => entry'[d].Scheduled
      /\ entry'[x.d].Scheduled
  <2>1. \A d \in Drivers : entry[d] \in EntryType
    BY <1>1
  <2>2. \A d \in Drivers : entry'[d] = IF d = x.d THEN ScheduledEntry(entry[d]) ELSE entry[d]
    BY <1>1, <1>3, <1>4
  <2>3. \A e \in EntryType : /\ ScheduledEntry(e).Depex = e.Depex
                             /\ ~ScheduledEntry(e).Dependent /\ ScheduledEntry(e).Scheduled
                             /\ ScheduledEntry(e).Unrequested = e.Unrequested
    BY DEF ScheduledEntry, EntryType
  <2> QED BY <1>4, <2>1, <2>2, <2>3
<1>6. PICK f : f = [d |-> x.d, at |-> "afters", i |-> 1, known |-> x.known]
  OBVIOUS
<1>7. f \in FrameType /\ f.d = x.d /\ f.at = "afters" /\ f.known = x.known /\ f.i = 1
  BY <1>4, <1>6 DEF FrameType
<1>8. inserting' = Append(Caller, f)
  <2>1. PICK r : r = [x EXCEPT !.at = "afters", !.i = 1]
    OBVIOUS
  <2>2. x \in [d : Drivers, at : {"befores", "lock", "afters"}, i : Nat \ {0}, known : Nat]
    BY DEF FrameType
  <2>3. r = [d |-> x.d, at |-> "afters", i |-> 1, known |-> x.known]
    BY <2>1, <2>2
  <2> QED BY <1>1, <1>3, <1>6, <2>1, <2>3 DEF Goto
<1>9. inserting'[n] = f
  BY <1>1, <1>2, <1>7, <1>8, CallFacts
<1>10. \A j \in 1..f.known : Passed(n, j)'
  BY <1>4, <1>7, <1>9 DEF Passed
<1>11. \A b \in Discovered :
         /\ entry[b].Scheduled => entry'[b].Scheduled
         /\ \A tie \in {"BEFORE", "AFTER"} : \A c \in Drivers :
              Waits(tie, FileName[c], b)' => Waits(tie, FileName[c], b)
  <2>1. Discovered \subseteq Drivers
    BY DiscoveredAreDrivers DEF TieInv, Inv
  <2>2. ASSUME NEW b \in Discovered, NEW tie \in {"BEFORE", "AFTER"}, NEW c \in Drivers,
               Waits(tie, FileName[c], b)'
        PROVE  Waits(tie, FileName[c], b)
    <3>1. entry'[b].Depex = entry[b].Depex /\ (entry'[b].Dependent => entry[b].Dependent)
      BY <1>5, <2>1
    <3> QED BY <2>2, <3>1 DEF Waits, Names
  <2>3. \A b \in Discovered : entry[b].Scheduled => entry'[b].Scheduled
    BY <1>5, <2>1
  <2> QED BY <2>2, <2>3
<1>12. CallsInv'
  <2>1. /\ f.d = Frame.d /\ f.known = Frame.known
        /\ f.at = "afters" => entry'[f.d].Scheduled
        /\ Frame.at = "lock" => f.at # "befores"
    BY <1>3, <1>5, <1>7
  <2> QED BY <1>1, <1>2, <1>7, <1>8, <1>10, <1>11, <2>1, InnermostGoesOn
<1> QED BY <1>5, <1>12, OnRequestStays DEF TieInv

\* The driver of a call that returns is on the queue, and no longer waits for its caller's.
LEMMA ReturnKeepsTies ==
  ASSUME TieInv, InsertReturns
  PROVE  OnRequestInv' /\ CallsInv'
<1>1. /\ pc = "insert" /\ Frame.at = "afters" /\ inserting' = Caller
      /\ UNCHANGED <<mDiscoveredList, entry>>
  BY DEF InsertReturns, lists
<1>2. PICK n \in Nat \ {0} : n = Len(inserting)
  BY <1>1, CallFacts
<1>3. /\ Len(inserting') = n - 1 /\ \A k \in 1..(n - 1) : inserting'[k] = inserting[k]
      /\ inserting[n].at = "afters" /\ inserting[n].d \in Drivers
  BY <1>1, <1>2, CallFacts
<1>4. ~entry[inserting[n].d].Dependent
  <2>1. n \in 1..Len(inserting)
    BY <1>2
  <2>2. entry[inserting[n].d].Scheduled
    BY <1>1, <1>3, <2>1, CallFacts DEF CallSound
  <2> QED BY <1>3, <2>2 DEF TieInv, Inv, EntriesInv, OneState
<1>5. ASSUME NEW k \in 1..(n - 1)
      PROVE  CallSound(k)' /\ \A j \in 1..inserting'[k].known : Passed(k, j)'
  <2>1. k \in 1..Len(inserting) /\ k < n /\ inserting'[k] = inserting[k]
    BY <1>2, <1>3
  <2>2. CallSound(k) /\ inserting[k].at # "lock"
    BY <1>1, <1>2, <2>1, CallFacts DEF CallSound
  <2>3. CallSound(k)'
    BY <1>1, <2>1, <2>2 DEF CallSound
  <2>4. ASSUME NEW j \in 1..inserting[k].known
        PROVE  Passed(k, j)'
    <3>1. PICK b : b = mDiscoveredList[j]
      OBVIOUS
    <3>2. Passed(k, j)
      BY <1>1, <2>1, CallFacts
    <3>3. Calls(k, b) => Calls(k, b)' \/ ~entry[b].Dependent
      <4>1. CASE k < n - 1
        <5>1. k + 1 \in 1..(n - 1)
          BY <4>1
        <5> QED BY <1>3, <4>1, <5>1 DEF Calls
      <4>2. CASE k = n - 1
        BY <1>4, <4>2 DEF Calls
      <4> QED BY <4>1, <4>2
    <3> QED BY <1>1, <2>1, <2>2, <3>1, <3>2, <3>3 DEF Passed, Waits, Names
  <2> QED BY <2>1, <2>3, <2>4
<1>6. CallsInv'
  BY <1>3, <1>5 DEF CallsInv
<1> QED BY <1>1, <1>6, OnRequestStays DEF TieInv
-----------------------------------------------------------------------------
LEMMA TiesInitially == Init => TieInv
BY InvariantInitially DEF Init, TieInv, OnRequestInv, CallsInv, Zeroed

LEMMA StepKeepsTies ==
  ASSUME TieInv, OnePlace, [Next]_vars
  PROVE  TieInv'
<1>1. Inv'
  BY StepKeepsInvariant DEF TieInv
<1>2. CASE CoreDispatcher
  <2>1. OnRequestInv' /\ CallsInv'
    BY <1>2, LoopKeepsTies, RemovalKeepsTies, SearchKeepsTies, WalkKeepsTies, InsertKeepsTies,
       ReturnKeepsTies DEF CoreDispatcher
  <2> QED BY <1>1, <2>1 DEF TieInv
<1>3. CASE Outside
  <2>1. CASE \E fv \in Volumes : FwVolNotify(fv)
    BY <1>1, <2>1, FwVolNotifyKeepsTies DEF TieInv
  <2>2. CASE \E d \in Drivers : Schedule(d) \/ Trust(d)
    BY <1>1, <2>2, ScheduleKeepsTies, TrustKeepsTies DEF TieInv
  <2>3. CASE \/ \E fv \in Volumes : FwVolRejected(fv)
             \/ \E g \in Protocols : InstallProtocol(g) \/ UninstallProtocol(g)
    <3>1. UNCHANGED <<mDiscoveredList, entry, inserting>>
      BY <2>3 DEF FwVolRejected, InstallProtocol, UninstallProtocol, lists, loop
    <3> QED BY <1>1, <3>1, QuietKeepsTies DEF TieInv
  <2> QED BY <1>3, <2>1, <2>2, <2>3 DEF Outside
<1>4. CASE UNCHANGED vars
  BY <1>1, <1>4, QuietKeepsTies DEF TieInv, vars, lists, loop
<1> QED BY <1>2, <1>3, <1>4 DEF Next

\* The drivers of a prefix of the list.
LEMMA KnownDrivers ==
  ASSUME NEW list \in Seq(Drivers), NEW m \in Nat, m <= Len(list), NEW b \in Members(SubSeq(list, 1, m))
  PROVE  \E j \in 1..m : b = list[j]
<1>1. Len(SubSeq(list, 1, m)) = m /\ \A j \in 1..m : SubSeq(list, 1, m)[j] = list[j]
  OBVIOUS
<1> QED BY <1>1 DEF Members

\* What the innermost call has passed when it inserts its driver, and when it returns.
LEMMA TiesInserted ==
  ASSUME TieInv, OnePlace, [Next]_vars, pc = "insert",
         NEW b \in Members(SubSeq(mDiscoveredList, 1, Frame.known)), Names(b) = FileName[Frame.d]
  PROVE  /\ ~entry[Frame.d].Scheduled /\ entry'[Frame.d].Scheduled /\ IsBefore(b)
              => ~entry[b].Dependent
         /\ Len(inserting') < Len(inserting) /\ IsAfter(b) => ~entry[b].Dependent
<1>1. PICK n \in Nat \ {0} : n = Len(inserting)
  BY CallFacts
<1>2. PICK x \in FrameType : x = Frame
  BY CallFacts
<1>3. /\ x.d \in Drivers /\ x.known \in Nat /\ x.d \in Discovered
      /\ x = inserting[n] /\ CallSound(n) /\ \A j \in 1..x.known : Passed(n, j)
      /\ mDiscoveredList \in Seq(Drivers)
  <2>1. n \in 1..Len(inserting)
    BY <1>1
  <2> QED BY <1>1, <1>2, <2>1, CallFacts DEF FrameType, TieInv, Inv, TypeInv
<1>4. PICK j \in 1..x.known : b = mDiscoveredList[j]
  BY <1>2, <1>3, KnownDrivers DEF CallSound
<1>5. /\ x.at = "lock" => ~Waits("BEFORE", FileName[x.d], b)
      /\ x.at = "afters" /\ j < x.i => ~Waits("AFTER", FileName[x.d], b)
  <2>1. ~Calls(n, b)
    BY <1>1 DEF Calls
  <2> QED BY <1>3, <1>4, <2>1 DEF Passed
\* Only the second section under the lock puts the driver on the queue.
<1>6. ASSUME ~entry[x.d].Scheduled, entry'[x.d].Scheduled
      PROVE  InsertDriver
  <2>1. x.at \in {"befores", "lock"} /\ entry[x.d].Dependent /\ ~entry[x.d].Untrusted
    <3>1. x.at # "afters"
      BY <1>3, <1>6 DEF CallSound
    <3>2. x.at \in {"befores", "lock"}
      BY <3>1 DEF FrameType
    <3>3. n \in 1..Len(inserting)
      BY <1>1
    <3>4. entry[x.d].Dependent
      BY <1>3, <3>2, <3>3 DEF TieInv, Inv, FramesInv
    <3> QED BY <1>3, <3>2, <3>4 DEF TieInv, Inv, EntriesInv, OneState
  <2>2. entry' # entry
    BY <1>6
  <2>3. ASSUME NEW fv \in Volumes PROVE ~FwVolNotify(fv)
    <3>1. ASSUME FwVolNotify(fv) PROVE entry'[x.d] = entry[x.d]
      <4>1. PICK gv \in mFvHandleList : x.d \in Members(Fv[gv])
        BY <1>3 DEF TieInv, Inv, ListsInv
      <4>2. gv \in Volumes /\ gv # fv
        BY <3>1 DEF FwVolNotify, TieInv, Inv, TypeInv
      <4>3. x.d \notin Members(Fv[fv])
        BY <4>1, <4>2 DEF OnePlace
      <4> QED BY <1>3, <3>1, <4>3 DEF FwVolNotify
    <3> QED BY <1>6, <3>1
  <2>4. ASSUME NEW d \in Drivers PROVE ~Schedule(d) /\ ~Trust(d)
    <3>1. entry \in [Drivers -> EntryType]
      BY DEF TieInv, Inv, TypeInv
    <3>2. ASSUME Schedule(d) PROVE entry'[x.d].Scheduled = entry[x.d].Scheduled
      <4>1. entry'[x.d] = entry[x.d]
              \/ entry'[x.d] = [entry[x.d] EXCEPT !.Unrequested = FALSE, !.Dependent = TRUE]
        <5>1. CASE d = x.d
          BY <1>3, <3>1, <3>2, <5>1 DEF Schedule
        <5>2. CASE d # x.d
          BY <1>3, <3>1, <3>2, <5>2 DEF Schedule
        <5> QED BY <5>1, <5>2
      <4>2. entry[x.d] \in EntryType
        BY <1>3, <3>1
      <4> QED BY <4>1, <4>2 DEF EntryType
    <3>3. ASSUME Trust(d) PROVE entry'[x.d] = entry[x.d]
      <4>1. d # x.d
        BY <2>1, <3>3 DEF Trust
      <4> QED BY <1>3, <3>1, <3>3, <4>1 DEF Trust
    <3> QED BY <1>6, <3>2, <3>3
  <2>5. ~Outside
    BY <2>2, <2>3, <2>4 DEF Outside, FwVolRejected, InstallProtocol, UninstallProtocol
  <2>6. CASE CoreDispatcher
    BY <2>2, <2>6 DEF CoreDispatcher, CallDispatch, FirstScheduled, LoadImage, Dequeue, StartImage,
       EntryPointReturns, StartSearch, Search, Searched, Befores, Afters, InsertReturns
  <2> QED BY <2>2, <2>5, <2>6 DEF Next, vars
<1>7. ASSUME Len(inserting') < Len(inserting)
      PROVE  x.at = "afters" /\ j < x.i
  <2>1. inserting' # inserting
    BY <1>1, <1>7
  <2>2. ~Outside /\ ~UNCHANGED vars
    BY <2>1 DEF Outside, FwVolNotify, FwVolRejected, Schedule, Trust, InstallProtocol,
       UninstallProtocol, loop, vars
  <2>3. ASSUME NEW f \in FrameType, NEW d \in Drivers
        PROVE  inserting' # Append(Caller, f) /\ inserting' # Append(Append(Caller, f), Insertion(d))
    <3>1. Caller \in Seq(FrameType) /\ Len(Caller) = n - 1
      BY <1>1, CallFacts
    <3>2. Len(Append(Caller, f)) = n /\ Append(Caller, f) \in Seq(FrameType)
      BY <3>1
    <3>3. Len(Append(Append(Caller, f), Insertion(d))) = n + 1
      BY <3>2
    <3> QED BY <1>1, <1>7, <3>2, <3>3
  <2>4. ~InsertDriver
    <3>1. PICK r : r = [x EXCEPT !.at = "afters", !.i = 1]
      OBVIOUS
    <3>2. r \in FrameType
      <4>1. x \in [d : Drivers, at : {"befores", "lock", "afters"}, i : Nat \ {0}, known : Nat]
        BY DEF FrameType
      <4>2. r = [d |-> x.d, at |-> "afters", i |-> 1, known |-> x.known]
        BY <3>1, <4>1
      <4> QED BY <4>1, <4>2 DEF FrameType
    <3> QED BY <1>2, <1>3, <2>3, <3>1, <3>2 DEF InsertDriver, Goto
  <2>5. ~Befores /\ ~Afters
    <3>1. PICK r, s : r = [x EXCEPT !.at = "lock"] /\ s = [x EXCEPT !.i = x.i + 1]
      OBVIOUS
    <3>2. r \in FrameType /\ s \in FrameType
      BY <3>1 DEF FrameType
    <3>3. ~Goto([Frame EXCEPT !.at = "lock"])
      BY <1>2, <1>3, <2>3, <3>1, <3>2 DEF Goto
    <3>4. ASSUME NEW tie \in {"BEFORE", "AFTER"}, More PROVE ~Step(tie)
      <4>1. mDiscoveredList[x.i] \in Drivers
        <5>1. x.i \in 1..Len(mDiscoveredList)
          BY <1>2, <1>3, <3>4 DEF More, FrameType
        <5> QED BY <1>3, <5>1
      <4> QED BY <1>2, <2>3, <3>1, <3>2, <4>1 DEF Step
    <3> QED BY <3>3, <3>4 DEF Befores, Afters
  <2>6. InsertReturns
    BY <2>2, <2>4, <2>5 DEF Next, CoreDispatcher, CallDispatch, FirstScheduled, LoadImage, Dequeue,
       StartImage, EntryPointReturns, StartSearch, Search, Searched
  <2>7. x.at = "afters" /\ ~(x.i <= Len(mDiscoveredList))
    BY <1>2, <2>6 DEF InsertReturns, More
  <2>8. j < x.i
    BY <1>3, <2>7 DEF CallSound, FrameType
  <2> QED BY <2>7, <2>8
<1>8. InsertDriver => x.at = "lock"
  BY <1>2 DEF InsertDriver
<1> QED BY <1>2, <1>5, <1>6, <1>7, <1>8 DEF Waits, IsBefore, IsAfter

\* However deep drivers are tied to each other, and whatever notification functions do
\* meanwhile: no driver is put on the queue while one that belongs in front of it waits, and
\* its insertion does not end while one that belongs behind it waits.
THEOREM TiedDriversInserted == OnePlace => (Spec => TiedInserted)
<1> SUFFICES ASSUME OnePlace PROVE Spec => TiedInserted
  OBVIOUS
<1>1. TieInv /\ [Next]_vars => TieInv'
  BY StepKeepsTies
<1>2. TieInv /\ [Next]_vars =>
        [LET f     == Frame
             known == Members(SubSeq(mDiscoveredList, 1, f.known))
         IN  pc = "insert" =>
               /\ ~entry[f.d].Scheduled /\ entry'[f.d].Scheduled =>
                    \A b \in known : IsBefore(b) /\ Names(b) = FileName[f.d] => ~entry[b].Dependent
               /\ Len(inserting') < Len(inserting) =>
                    \A a \in known : IsAfter(a) /\ Names(a) = FileName[f.d] => ~entry[a].Dependent]_vars
  BY TiesInserted
<1> QED BY <1>1, <1>2, TiesInitially, PTL DEF Spec, TiedInserted
-----------------------------------------------------------------------------
(* Dependency expressions: what protocols more, and patched PUSHes, change. *)

\* The runs of an expression, instruction by instruction.
Runs(depex, have, m) ==
  /\ m[0] = Machine(<<>>, "none")
  /\ \A k \in 1..Len(depex) :
       m[k] = IF m[k - 1].value # "none" THEN m[k - 1]
              ELSE Execute(m[k - 1], depex[k], k = 1, have)

LEMMA RunsExists ==
  ASSUME NEW depex \in Seq(Instruction), NEW have
  PROVE  Runs(depex, have, Run(depex, have))
<1> DEFINE At(G, k) == IF k = 0 THEN Machine(<<>>, "none")
                       ELSE IF G[k - 1].value # "none" THEN G[k - 1]
                            ELSE Execute(G[k - 1], depex[k], k = 1, have)
           Walk(n, G) == G = [k \in 0..n |-> At(G, k)]
           S == {n \in Nat : \E G : Walk(n, G)}
<1>1. 0 \in S
  <2>1. Walk(0, [k \in 0..0 |-> Machine(<<>>, "none")])
    OBVIOUS
  <2> HIDE DEF Walk
  <2> QED BY <2>1
<1>2. ASSUME NEW n \in Nat, n \in S
      PROVE  n + 1 \in S
  <2>1. PICK G : Walk(n, G)
    BY <1>2
  <2> DEFINE H == [k \in 0..(n + 1) |-> IF k = n + 1 THEN At(G, k) ELSE G[k]]
  <2>2. \A k \in 0..n : H[k] = G[k]
    OBVIOUS
  <2>3. \A k \in 0..(n + 1) : H[k] = At(H, k)
    <3> TAKE k \in 0..(n + 1)
    <3>1. CASE k = n + 1
      <4>1. k # 0 /\ k - 1 \in 0..n
        BY <3>1
      <4> QED BY <2>2, <3>1, <4>1
    <3>2. CASE k \in 0..n /\ k # 0
      <4>1. k - 1 \in 0..n /\ k # n + 1
        BY <3>2
      <4>2. G[k] = At(G, k)
        BY <2>1, <3>2
      <4> QED BY <2>2, <3>2, <4>1, <4>2
    <3>3. CASE k = 0
      BY <2>1, <3>3
    <3> QED BY <3>1, <3>2, <3>3
  <2>4. H = [k \in 0..(n + 1) |-> H[k]]
    OBVIOUS
  <2> HIDE DEF H
  <2>5. Walk(n + 1, H)
    BY <2>3, <2>4
  <2> HIDE DEF Walk
  <2> QED BY <2>5
<1> DEFINE m[k \in 0..Len(depex)] ==
             IF k = 0 THEN Machine(<<>>, "none")
             ELSE IF m[k - 1].value # "none" THEN m[k - 1]
                  ELSE Execute(m[k - 1], depex[k], k = 1, have)
<1>3. Len(depex) \in Nat
  OBVIOUS
<1>4. PICK G : Walk(Len(depex), G)
  <2> HIDE DEF Walk
  <2>1. Len(depex) \in S
    <3> HIDE DEF S
    <3> QED BY <1>1, <1>2, <1>3, Induction
  <2> QED BY <2>1
<1>5. Run(depex, have) = m
  BY DEF Run
<1>6. m = [k \in 0..Len(depex) |->
            IF k = 0 THEN Machine(<<>>, "none")
            ELSE IF m[k - 1].value # "none" THEN m[k - 1]
                 ELSE Execute(m[k - 1], depex[k], k = 1, have)]
  BY <1>4
<1> HIDE DEF m
<1>7. Runs(depex, have, m)
  <2>1. m[0] = Machine(<<>>, "none")
    BY <1>3, <1>6
  <2>2. \A k \in 1..Len(depex) : k \in 0..Len(depex) /\ k # 0
    BY <1>3
  <2> QED BY <1>6, <2>1, <2>2 DEF Runs
<1> QED BY <1>5, <1>7

\* A stack with the same length and at least the same values that are true.
Below(s, t) ==
  /\ s \in Seq(BOOLEAN) /\ t \in Seq(BOOLEAN) /\ Len(s) = Len(t)
  /\ \A j \in 1..Len(s) : s[j] = TRUE => t[j] = TRUE

\* A machine that is never behind another one.
Follows(m, n) ==
  \/ m.value = "FALSE"
  \/ m.value = "TRUE" /\ n.value = "TRUE"
  \/ m.value = "none" /\ n.value = "none" /\ Below(m.stack, n.stack)

LEMMA PushBelow ==
  ASSUME NEW s, NEW t, Below(s, t), NEW a \in BOOLEAN, NEW b \in BOOLEAN, a = TRUE => b = TRUE
  PROVE  Below(Append(s, a), Append(t, b))
<1>1. s \in Seq(BOOLEAN) /\ t \in Seq(BOOLEAN) /\ Len(s) = Len(t) /\ Len(s) \in Nat
  BY DEF Below
<1>2. PICK u, v : u = Append(s, a) /\ v = Append(t, b)
  OBVIOUS
<1>3. /\ u \in Seq(BOOLEAN) /\ v \in Seq(BOOLEAN) /\ Len(u) = Len(s) + 1 /\ Len(v) = Len(s) + 1
      /\ \A j \in 1..Len(s) : u[j] = s[j] /\ v[j] = t[j]
      /\ u[Len(s) + 1] = a /\ v[Len(s) + 1] = b
  BY <1>1, <1>2
<1>4. \A j \in 1..Len(s) : s[j] = TRUE => t[j] = TRUE
  BY DEF Below
<1>5. ASSUME NEW j \in 1..Len(u), u[j] = TRUE PROVE v[j] = TRUE
  <2>1. CASE j \in 1..Len(s)
    BY <1>3, <1>4, <1>5, <2>1
  <2>2. CASE j = Len(s) + 1
    BY <1>3, <1>5, <2>2
  <2>3. PICK l \in Nat : l = Len(s)
    BY <1>1
  <2>4. j \in 1..(l + 1)
    BY <1>3, <2>3
  <2>5. j \in 1..l \/ j = l + 1
    BY <2>4
  <2> QED BY <2>1, <2>2, <2>3, <2>5
<1>6. Below(u, v)
  BY <1>3, <1>5 DEF Below
<1> QED BY <1>2, <1>6

LEMMA PopBelow ==
  ASSUME NEW s, NEW t, Below(s, t), NEW n \in Nat, n <= Len(s)
  PROVE  Below(Down(s, n), Down(t, n))
<1>1. s \in Seq(BOOLEAN) /\ t \in Seq(BOOLEAN) /\ Len(s) = Len(t) /\ Len(s) \in Nat
  BY DEF Below
<1>2. PICK i \in Nat : i = Len(s) - n /\ i <= Len(s)
  <2>1. PICK l \in Nat : l = Len(s)
    BY <1>1
  <2>2. l - n \in Nat /\ l - n <= l
    BY <2>1
  <2> QED BY <2>1, <2>2
<1>3. PICK u, v : u = Down(s, n) /\ v = Down(t, n)
  OBVIOUS
<1>4. u = SubSeq(s, 1, i) /\ v = SubSeq(t, 1, i)
  BY <1>1, <1>2, <1>3 DEF Down
<1>5. /\ u \in Seq(BOOLEAN) /\ v \in Seq(BOOLEAN) /\ Len(u) = i /\ Len(v) = i
      /\ \A j \in 1..i : u[j] = s[j] /\ v[j] = t[j] /\ j \in 1..Len(s)
  BY <1>1, <1>2, <1>4
<1>6. \A j \in 1..Len(s) : s[j] = TRUE => t[j] = TRUE
  BY DEF Below
<1>7. Below(u, v)
  BY <1>5, <1>6 DEF Below
<1> QED BY <1>3, <1>7

LEMMA TopBelow ==
  ASSUME NEW s, NEW t, Below(s, t), NEW n \in 1..Len(s)
  PROVE  s[n] \in BOOLEAN /\ t[n] \in BOOLEAN /\ (s[n] = TRUE => t[n] = TRUE)
BY DEF Below

LEMMA FollowsAfter ==
  ASSUME NEW s, NEW t, Below(s, t)
  PROVE  Follows(Machine(s, "none"), Machine(t, "none"))
BY DEF Follows, Machine

\* Each instruction but NOT keeps the order, whether it was patched or not.
LEMMA ExecuteFollows ==
  ASSUME NEW m, NEW n, m.value = "none", Follows(m, n),
         NEW old \in Instruction, NEW new \in Instruction, NEW first \in BOOLEAN,
         NEW P, NEW I \in SUBSET P, old.op # "NOT",
         new = old \/ (old.op = "PUSH" /\ old.guid \in P /\ new.op = "REPLACE_TRUE")
  PROVE  Follows(Execute(m, new, first, I), Execute(n, old, first, P))
<1>1. PICK s, t : s = m.stack /\ t = n.stack
  OBVIOUS
<1>2. Below(s, t) /\ n.value = "none"
  BY <1>1 DEF Follows
<1>3. Len(s) \in Nat /\ Len(t) = Len(s)
  BY <1>2 DEF Below
<1>4. \A x : Follows(Returns("FALSE"), x)
  BY DEF Follows, Returns, Machine
<1>5. CASE old.op = "PUSH"
  <2>1. CASE old.guid \in P
    <3>1. Execute(n, old, first, P) = PushBool(t, TRUE)
      <4>1. (old.guid \in P) = TRUE
        BY <2>1
      <4> QED BY <1>1, <1>5, <4>1 DEF Execute
    <3>2. PICK a \in BOOLEAN : Execute(m, new, first, I) = PushBool(s, a)
      <4>1. CASE new = old /\ old.guid \in I
        <5>1. (new.guid \in I) = TRUE
          BY <4>1
        <5>2. Execute(m, new, first, I) = PushBool(s, TRUE)
          BY <1>1, <1>5, <4>1, <5>1 DEF Execute
        <5> QED BY <5>2
      <4>2. CASE new = old /\ old.guid \notin I
        <5>1. (new.guid \in I) = FALSE
          BY <4>2
        <5>2. Execute(m, new, first, I) = PushBool(s, FALSE)
          BY <1>1, <1>5, <4>2, <5>1 DEF Execute
        <5> QED BY <5>2
      <4>3. CASE new.op = "REPLACE_TRUE"
        <5>1. Execute(m, new, first, I) = PushBool(s, TRUE)
          BY <1>1, <4>3 DEF Execute
        <5> QED BY <5>1
      <4> QED BY <4>1, <4>2, <4>3
    <3>3. Below(Append(s, a), Append(t, TRUE))
      BY <1>2, PushBelow
    <3> QED BY <3>1, <3>2, <3>3, FollowsAfter DEF PushBool
  <2>2. CASE old.guid \notin P
    <3>1. new = old /\ (old.guid \in P) = FALSE /\ (new.guid \in I) = FALSE
      BY <2>2
    <3>2. Execute(n, old, first, P) = PushBool(t, FALSE)
      BY <1>1, <1>5, <3>1 DEF Execute
    <3>3. Execute(m, new, first, I) = PushBool(s, FALSE)
      BY <1>1, <1>5, <3>1 DEF Execute
    <3>4. Below(Append(s, FALSE), Append(t, FALSE))
      BY <1>2, PushBelow
    <3> QED BY <3>2, <3>3, <3>4, FollowsAfter DEF PushBool
  <2> QED BY <2>1, <2>2
<1>6. CASE old.op # "PUSH"
  <2>0. new = old
    BY <1>6
  <2>1. CASE old.op = "SOR"
    BY <1>4, <2>0, <2>1 DEF Execute
  <2>2. CASE old.op = "REPLACE_TRUE"
    <3>1. Execute(m, new, first, I) = PushBool(s, TRUE) /\ Execute(n, old, first, P) = PushBool(t, TRUE)
      BY <1>1, <2>0, <2>2 DEF Execute
    <3>2. Below(Append(s, TRUE), Append(t, TRUE))
      BY <1>2, PushBelow
    <3> QED BY <3>1, <3>2, FollowsAfter DEF PushBool
  <2>3. CASE old.op \in {"TRUE", "FALSE"}
    <3>1. PICK a \in BOOLEAN : a = (old.op = "TRUE")
      BY Zenon
    <3>2. Execute(m, new, first, I) = PushBool(s, a) /\ Execute(n, old, first, P) = PushBool(t, a)
      BY <1>1, <2>0, <2>3, <3>1 DEF Execute
    <3>3. Below(Append(s, a), Append(t, a))
      BY <1>2, PushBelow
    <3> QED BY <3>2, <3>3, FollowsAfter DEF PushBool
  <2>4. CASE old.op = "AND"
    <3>1. CASE Len(s) < 2
      <4>1. Execute(m, new, first, I) = Returns("FALSE")
        BY <1>1, <2>0, <2>4, <3>1 DEF Execute, PopBool
      <4> QED BY <1>4, <4>1
    <3>2. CASE ~(Len(s) < 2)
      <4>1. PICK a, b, c, d : /\ a = s[Len(s)] /\ b = t[Len(t)]
                              /\ c = s[Len(s) - 1] /\ d = t[Len(t) - 1]
        OBVIOUS
      <4>2. Len(s) \in 1..Len(s) /\ Len(s) - 1 \in 1..Len(s) /\ 2 <= Len(s)
        BY <1>3, <3>2
      <4>3. /\ a \in BOOLEAN /\ b \in BOOLEAN /\ c \in BOOLEAN /\ d \in BOOLEAN
            /\ (a = TRUE => b = TRUE) /\ (c = TRUE => d = TRUE)
        BY <1>2, <1>3, <4>1, <4>2, TopBelow
      <4>4. PICK e \in BOOLEAN, f \in BOOLEAN : e = (a /\ c) /\ f = (b /\ d)
        BY Zenon
      <4>5. e = TRUE => f = TRUE
        BY <4>3, <4>4
      <4>6. Below(Append(Down(s, 2), e), Append(Down(t, 2), f))
        BY <1>2, <4>2, <4>5, PopBelow, PushBelow
      <4>7. Execute(m, new, first, I) = PushBool(Down(s, 2), e)
        BY <1>1, <2>0, <2>4, <3>2, <4>1, <4>4 DEF Execute, PopBool, TopOf
      <4>8. Execute(n, old, first, P) = PushBool(Down(t, 2), f)
        BY <1>1, <1>3, <2>4, <3>2, <4>1, <4>4 DEF Execute, PopBool, TopOf
      <4> QED BY <4>6, <4>7, <4>8, FollowsAfter DEF PushBool
    <3> QED BY <3>1, <3>2
  <2>5. CASE old.op = "OR"
    <3>1. CASE Len(s) < 2
      <4>1. Execute(m, new, first, I) = Returns("FALSE")
        BY <1>1, <2>0, <2>5, <3>1 DEF Execute, PopBool
      <4> QED BY <1>4, <4>1
    <3>2. CASE ~(Len(s) < 2)
      <4>1. PICK a, b, c, d : /\ a = s[Len(s)] /\ b = t[Len(t)]
                              /\ c = s[Len(s) - 1] /\ d = t[Len(t) - 1]
        OBVIOUS
      <4>2. Len(s) \in 1..Len(s) /\ Len(s) - 1 \in 1..Len(s) /\ 2 <= Len(s)
        BY <1>3, <3>2
      <4>3. /\ a \in BOOLEAN /\ b \in BOOLEAN /\ c \in BOOLEAN /\ d \in BOOLEAN
            /\ (a = TRUE => b = TRUE) /\ (c = TRUE => d = TRUE)
        BY <1>2, <1>3, <4>1, <4>2, TopBelow
      <4>4. PICK e \in BOOLEAN, f \in BOOLEAN : e = (a \/ c) /\ f = (b \/ d)
        BY Zenon
      <4>5. e = TRUE => f = TRUE
        BY <4>3, <4>4
      <4>6. Below(Append(Down(s, 2), e), Append(Down(t, 2), f))
        BY <1>2, <4>2, <4>5, PopBelow, PushBelow
      <4>7. Execute(m, new, first, I) = PushBool(Down(s, 2), e)
        BY <1>1, <2>0, <2>5, <3>2, <4>1, <4>4 DEF Execute, PopBool, TopOf
      <4>8. Execute(n, old, first, P) = PushBool(Down(t, 2), f)
        BY <1>1, <1>3, <2>5, <3>2, <4>1, <4>4 DEF Execute, PopBool, TopOf
      <4> QED BY <4>6, <4>7, <4>8, FollowsAfter DEF PushBool
    <3> QED BY <3>1, <3>2
  <2>6. CASE old.op = "END"
    <3>1. CASE Len(s) < 1
      <4>1. Execute(m, new, first, I) = Returns("FALSE")
        BY <1>1, <2>0, <2>6, <3>1 DEF Execute, PopBool
      <4> QED BY <1>4, <4>1
    <3>2. CASE ~(Len(s) < 1)
      <4>1. PICK a, b : a = s[Len(s)] /\ b = t[Len(t)]
        OBVIOUS
      <4>2. Len(s) \in 1..Len(s)
        BY <1>3, <3>2
      <4>3. a \in BOOLEAN /\ b \in BOOLEAN /\ (a = TRUE => b = TRUE)
        BY <1>2, <1>3, <4>1, <4>2, TopBelow
      <4>4. /\ Execute(m, new, first, I) = Returns(IF a THEN "TRUE" ELSE "FALSE")
            /\ Execute(n, old, first, P) = Returns(IF b THEN "TRUE" ELSE "FALSE")
        BY <1>1, <1>3, <2>0, <2>6, <3>2, <4>1 DEF Execute, PopBool, TopOf
      <4>5. CASE a = TRUE
        <5>1. /\ Execute(m, new, first, I) = Returns("TRUE")
              /\ Execute(n, old, first, P) = Returns("TRUE")
          BY <4>3, <4>4, <4>5
        <5> QED BY <5>1 DEF Follows, Returns, Machine
      <4>6. CASE a = FALSE
        <5>1. Execute(m, new, first, I) = Returns("FALSE")
          BY <4>4, <4>6
        <5> QED BY <1>4, <5>1
      <4> QED BY <4>3, <4>5, <4>6
    <3> QED BY <3>1, <3>2
  <2>7. CASE old.op \in {"BEFORE", "AFTER"}
    <3>1. Execute(m, new, first, I) = Returns("FALSE")
      BY <2>0, <2>7 DEF Execute
    <3> QED BY <1>4, <3>1
  <2>8. old.op \in Operations
    BY DEF Instruction
  <2> QED BY <1>6, <2>1, <2>2, <2>3, <2>4, <2>5, <2>6, <2>7, <2>8 DEF Operations
<1> QED BY <1>5, <1>6

\* An expression some of whose PUSHes were patched, for protocols of P.
PatchOf(new, old, P) ==
  /\ Len(new) = Len(old)
  /\ \A k \in 1..Len(old) :
       new[k] = old[k] \/ (old[k].op = "PUSH" /\ old[k].guid \in P /\ new[k].op = "REPLACE_TRUE")
HasNot(depex) == \E k \in 1..Len(depex) : depex[k].op = "NOT"

\* An expression without a NOT that holds after it was patched, over some of the protocols,
\* holds as it was, over all of them.
LEMMA EvaluateFollows ==
  ASSUME NEW old \in Seq(Instruction), NEW new \in Seq(Instruction), NEW P, NEW I \in SUBSET P,
         PatchOf(new, old, P), ~HasNot(old), Evaluate(new, I)
  PROVE  Evaluate(old, P)
<1>1. PICK m, n : m = Run(new, I) /\ n = Run(old, P)
  OBVIOUS
<1>2. Runs(new, I, m) /\ Runs(old, P, n)
  BY <1>1, RunsExists
<1>3. Len(old) \in Nat /\ Len(new) = Len(old)
  BY DEF PatchOf
<1> DEFINE S == {k \in Nat : k <= Len(old) => Follows(m[k], n[k])}
<1>4. 0 \in S
  <2>1. Below(<<>>, <<>>)
    BY DEF Below
  <2>2. m[0] = Machine(<<>>, "none") /\ n[0] = Machine(<<>>, "none")
    BY <1>2 DEF Runs
  <2> QED BY <2>1, <2>2, FollowsAfter
<1>5. ASSUME NEW k \in Nat, k \in S
      PROVE  k + 1 \in S
  <2>1. SUFFICES ASSUME k + 1 <= Len(old) PROVE Follows(m[k + 1], n[k + 1])
    OBVIOUS
  <2>2. Follows(m[k], n[k])
    BY <1>3, <1>5, <2>1
  <2>3. k + 1 \in 1..Len(old) /\ (k + 1) - 1 = k
    BY <1>3, <2>1
  <2>4. PICK first \in BOOLEAN : first = (k + 1 = 1)
    BY Zenon
  <2>5. PICK i, j : i = new[k + 1] /\ j = old[k + 1]
    OBVIOUS
  <2>6. m[k + 1] = IF m[k].value # "none" THEN m[k] ELSE Execute(m[k], i, first, I)
    BY <1>2, <1>3, <2>3, <2>4, <2>5 DEF Runs
  <2>7. n[k + 1] = IF n[k].value # "none" THEN n[k] ELSE Execute(n[k], j, first, P)
    BY <1>2, <2>3, <2>4, <2>5 DEF Runs
  <2>8. CASE m[k].value # "none"
    BY <2>2, <2>6, <2>7, <2>8 DEF Follows
  <2>9. CASE m[k].value = "none"
    <3>1. n[k].value = "none"
      BY <2>2, <2>9 DEF Follows
    <3>2. i \in Instruction /\ j \in Instruction
      BY <1>3, <2>3, <2>5
    <3>3. /\ j.op # "NOT"
          /\ i = j \/ (j.op = "PUSH" /\ j.guid \in P /\ i.op = "REPLACE_TRUE")
      BY <2>3, <2>5 DEF PatchOf, HasNot
    <3>4. Follows(Execute(m[k], i, first, I), Execute(n[k], j, first, P))
      BY <2>2, <2>9, <3>2, <3>3, ExecuteFollows
    <3> QED BY <2>6, <2>7, <2>9, <3>1, <3>4
  <2> QED BY <2>8, <2>9
<1>6. Follows(m[Len(old)], n[Len(old)])
  <2>1. Len(old) \in S
    <3> HIDE DEF S
    <3> QED BY <1>3, <1>4, <1>5, Induction
  <2> QED BY <1>3, <2>1
<1> QED BY <1>1, <1>3, <1>6 DEF Evaluate, Follows

LEMMA PatchOfPatched ==
  ASSUME NEW old \in Seq(Instruction), NEW new \in Seq(Instruction), NEW P, NEW I \in SUBSET P,
         PatchOf(new, old, P)
  PROVE  PatchOf(Patched(new, I), old, P)
<1>1. PICK next : next = Patched(new, I)
  OBVIOUS
<1>2. /\ DOMAIN next = 1..Len(new)
      /\ \A k \in 1..Len(new) :
           next[k] = new[k] \/ /\ next[k] = [new[k] EXCEPT !.op = "REPLACE_TRUE"]
                               /\ new[k].op = "PUSH" /\ new[k].guid \in I
  BY <1>1 DEF Patched
<1>3. next \in Seq(Instruction)
  BY <1>1, PatchedIsDepex
<1>4. Len(new) = Len(old) /\ Len(old) \in Nat
  BY DEF PatchOf
<1>5. Len(next) = Len(old)
  BY <1>2, <1>3, <1>4
<1>6. ASSUME NEW k \in 1..Len(old)
      PROVE  next[k] = old[k] \/ (old[k].op = "PUSH" /\ old[k].guid \in P /\ next[k].op = "REPLACE_TRUE")
  <2>1. new[k] \in Instruction
    BY <1>4
  <2>2. next[k] = new[k] \/ (next[k].op = "REPLACE_TRUE" /\ new[k].op = "PUSH" /\ new[k].guid \in P)
    BY <1>2, <1>4, <2>1 DEF Instruction
  <2> QED BY <2>2 DEF PatchOf
<1> QED BY <1>1, <1>5, <1>6 DEF PatchOf

LEMMA SectionFacts ==
  ASSUME NEW d \in Drivers
  PROVE  DepexSection[d] \in Seq(Instruction) /\ \A P : PatchOf(DepexSection[d], DepexSection[d], P)
BY DispatcherAssumption DEF Instruction, PatchOf
-----------------------------------------------------------------------------
(* What a driver that is put on the queue waited for.                      *)

\* The expression holds over the protocols that were ever installed, as far as this can be
\* said: an a priori driver is not asked, one that is tied waits for another driver, and a
\* NOT may have held before its protocol was installed.
Met(d) ==
  \/ FileName[d] \in Members(Apriori[Volume(d)])
  \/ IsBefore(d) \/ IsAfter(d) \/ HasNot(DepexSection[d])
  \/ IF DepexSection[d] = <<>> THEN ArchProtocols \subseteq present
     ELSE Evaluate(DepexSection[d], present)

\* An entry holds the expression of its file, patched, once it could be read.
Read(e, d) ==
  IF e.DepexProtocolError THEN e.Depex = <<>> ELSE PatchOf(e.Depex, DepexSection[d], present)

ReadInv == \A d \in Discovered : Read(entry[d], d)
MetInv ==
  /\ \A d \in Discovered : entry[d].Scheduled \/ entry[d].Untrusted \/ image[d] # "none" => Met(d)
  /\ \A k \in 1..Len(inserting) : Met(inserting[k].d)
  /\ \A d \in Drivers \ Discovered : image[d] = "none"
DependInv == Inv /\ ReadInv /\ MetInv

\* Protocols are never forgotten, and a tied driver stays one.
LEMMA MetStays ==
  ASSUME NEW d \in Drivers, Met(d), present \subseteq present',
         IsBefore(d) => IsBefore(d)', IsAfter(d) => IsAfter(d)'
  PROVE  Met(d)'
<1>1. CASE ~HasNot(DepexSection[d]) /\ Evaluate(DepexSection[d], present)
  <2>1. Evaluate(DepexSection[d], present')
    BY <1>1, SectionFacts, EvaluateFollows
  <2>2. DepexSection[d] # <<>> => Met(d)'
    BY <2>1 DEF Met
  <2>3. DepexSection[d] = <<>> => Met(d)'
    BY DEF Met
  <2> QED BY <2>2, <2>3
<1>2. CASE ~(~HasNot(DepexSection[d]) /\ Evaluate(DepexSection[d], present))
  BY <1>2 DEF Met
<1> QED BY <1>1, <1>2

\* Steps that read no expression and discover no driver.
LEMMA DependencyStays ==
  ASSUME DependInv, UNCHANGED mDiscoveredList, present \subseteq present',
         \A d \in Discovered :
           /\ entry'[d].Depex = entry[d].Depex
           /\ entry'[d].DepexProtocolError = entry[d].DepexProtocolError
           /\ entry'[d].Scheduled \/ entry'[d].Untrusted =>
                entry[d].Scheduled \/ entry[d].Untrusted \/ Met(d),
         \A d \in Drivers :
           image'[d] # "none" => image[d] # "none" \/ (d \in Discovered /\ entry[d].Scheduled),
         \A k \in 1..Len(inserting') : inserting'[k].d \in Discovered /\ Met(inserting'[k].d)
  PROVE  ReadInv' /\ MetInv'
<1>1. Discovered' = Discovered /\ Discovered \subseteq Drivers
  BY DiscoveredAreDrivers DEF DependInv, Inv, Discovered
<1>2. ASSUME NEW d \in Discovered, Met(d)
      PROVE  Met(d)'
  <2>1. (IsBefore(d) => IsBefore(d)') /\ (IsAfter(d) => IsAfter(d)')
    BY DEF IsBefore, IsAfter
  <2> QED BY <1>1, <1>2, <2>1, MetStays
<1>3. ReadInv'
  <2>1. ASSUME NEW d \in Discovered
        PROVE  Read(entry[d], d)'
    <3>1. Read(entry[d], d)
      BY DEF DependInv, ReadInv
    <3>2. PatchOf(entry[d].Depex, DepexSection[d], present) =>
            PatchOf(entry[d].Depex, DepexSection[d], present')
      BY DEF PatchOf
    <3> QED BY <3>1, <3>2 DEF Read
  <2> QED BY <1>1, <2>1 DEF ReadInv
<1>4. \A d \in Discovered :
        entry'[d].Scheduled \/ entry'[d].Untrusted \/ image'[d] # "none" => Met(d)'
  BY <1>1, <1>2 DEF DependInv, MetInv
<1>5. \A k \in 1..Len(inserting') : Met(inserting[k].d)'
  BY <1>2
<1>6. \A d \in Drivers \ Discovered : image'[d] = "none"
  BY DEF DependInv, MetInv
<1> QED BY <1>1, <1>3, <1>4, <1>5, <1>6 DEF MetInv

LEMMA QuietDependency ==
  ASSUME DependInv, OnePlace, [Next]_vars,
         \/ CallDispatch \/ FirstScheduled \/ StartImage \/ EntryPointReturns \/ StartSearch
         \/ Searched
         \/ \E fv \in Volumes : FwVolRejected(fv)
         \/ \E g \in Protocols : InstallProtocol(g) \/ UninstallProtocol(g)
         \/ UNCHANGED vars
  PROVE  ReadInv' /\ MetInv'
<1>1. /\ UNCHANGED <<mDiscoveredList, entry, inserting>> /\ present \subseteq present'
  BY DEF CallDispatch, FirstScheduled, StartImage, EntryPointReturns, StartSearch, Searched,
     FwVolRejected, InstallProtocol, UninstallProtocol, vars, lists, loop, world
<1>2. \A d \in Drivers : image'[d] # "none" => image[d] # "none"
  <2>1. CASE StartImage
    <3>1. \/ image' = image
          \/ image[Driver] = "loaded" /\ image' = [image EXCEPT ![Driver] = "started"]
      BY <2>1 DEF StartImage
    <3> QED BY <3>1 DEF DependInv, Inv, TypeInv
  <2>2. CASE image' = image
    BY <2>2
  <2> QED BY <2>1, <2>2 DEF CallDispatch, FirstScheduled, EntryPointReturns, StartSearch, Searched,
     FwVolRejected, InstallProtocol, UninstallProtocol, vars
<1>3. \A k \in 1..Len(inserting) : inserting[k].d \in Discovered /\ Met(inserting[k].d)
  BY DEF DependInv, Inv, FramesInv, MetInv
<1> QED BY <1>1, <1>2, <1>3, DependencyStays

\* One entry is written, and neither its expression nor the protocols change.
LEMMA WrittenDependency ==
  ASSUME DependInv, NEW d \in Drivers, NEW n \in EntryType,
         entry' = [entry EXCEPT ![d] = n], n.Depex = entry[d].Depex,
         n.DepexProtocolError = entry[d].DepexProtocolError,
         n.Scheduled \/ n.Untrusted => entry[d].Scheduled \/ entry[d].Untrusted \/ Met(d)
  PROVE  \A c \in Discovered :
           /\ entry'[c].Depex = entry[c].Depex
           /\ entry'[c].DepexProtocolError = entry[c].DepexProtocolError
           /\ entry'[c].Scheduled \/ entry'[c].Untrusted =>
                entry[c].Scheduled \/ entry[c].Untrusted \/ Met(c)
<1>1. entry \in [Drivers -> EntryType] /\ Discovered \subseteq Drivers
  BY DiscoveredAreDrivers DEF DependInv, Inv, TypeInv
<1> SUFFICES ASSUME NEW c \in Discovered
             PROVE  /\ entry'[c].Depex = entry[c].Depex
                    /\ entry'[c].DepexProtocolError = entry[c].DepexProtocolError
                    /\ entry'[c].Scheduled \/ entry'[c].Untrusted =>
                         entry[c].Scheduled \/ entry[c].Untrusted \/ Met(c)
  OBVIOUS
<1>2. CASE c = d
  <2>1. entry'[c] = n
    BY <1>1, <1>2
  <2> QED BY <1>2, <2>1
<1>3. CASE c # d
  <2>1. entry'[c] = entry[c]
    BY <1>1, <1>3
  <2> QED BY <2>1
<1> QED BY <1>2, <1>3

LEMMA FramesAreMet ==
  ASSUME DependInv, inserting' = inserting
  PROVE  \A k \in 1..Len(inserting') : inserting'[k].d \in Discovered /\ Met(inserting'[k].d)
BY DEF DependInv, Inv, FramesInv, MetInv

LEMMA ServiceDependency ==
  ASSUME DependInv, NEW d \in Drivers, Schedule(d) \/ Trust(d)
  PROVE  ReadInv' /\ MetInv'
<1>1. UNCHANGED <<mDiscoveredList, image, inserting, present>>
  BY DEF Schedule, Trust, lists, loop, world
<1>2. entry[d] \in EntryType /\ entry \in [Drivers -> EntryType]
  BY DEF DependInv, Inv, TypeInv
<1>3. PICK n \in EntryType :
        /\ entry' = [entry EXCEPT ![d] = n] /\ n.Depex = entry[d].Depex
        /\ n.DepexProtocolError = entry[d].DepexProtocolError
        /\ n.Scheduled \/ n.Untrusted => entry[d].Scheduled \/ entry[d].Untrusted
  <2>1. CASE Schedule(d)
    <3>1. PICK n : n = [entry[d] EXCEPT !.Unrequested = FALSE, !.Dependent = TRUE]
      OBVIOUS
    <3>2. /\ n \in EntryType /\ n.Depex = entry[d].Depex
          /\ n.DepexProtocolError = entry[d].DepexProtocolError
          /\ n.Scheduled = entry[d].Scheduled /\ n.Untrusted = entry[d].Untrusted
      BY <1>2, <3>1 DEF EntryType
    <3>3. entry' = [entry EXCEPT ![d] = n]
      BY <1>2, <2>1, <3>1 DEF Schedule
    <3> QED BY <3>2, <3>3
  <2>2. CASE Trust(d)
    <3>1. PICK n : n = [entry[d] EXCEPT !.Untrusted = FALSE, !.Scheduled = TRUE]
      OBVIOUS
    <3>2. /\ n \in EntryType /\ n.Depex = entry[d].Depex
          /\ n.DepexProtocolError = entry[d].DepexProtocolError
      BY <1>2, <3>1 DEF EntryType
    <3>3. entry' = [entry EXCEPT ![d] = n] /\ entry[d].Untrusted
      BY <1>2, <2>2, <3>1 DEF Trust
    <3> QED BY <3>2, <3>3
  <2> QED BY <2>1, <2>2
<1>4. \A c \in Discovered :
        /\ entry'[c].Depex = entry[c].Depex
        /\ entry'[c].DepexProtocolError = entry[c].DepexProtocolError
        /\ entry'[c].Scheduled \/ entry'[c].Untrusted =>
             entry[c].Scheduled \/ entry[c].Untrusted \/ Met(c)
  BY <1>3, WrittenDependency
<1> QED BY <1>1, <1>4, FramesAreMet, DependencyStays

LEMMA LoadDependency ==
  ASSUME DependInv, LoadImage \/ Dequeue
  PROVE  ReadInv' /\ MetInv'
<1>1. /\ UNCHANGED <<mDiscoveredList, inserting, present>>
      /\ Driver \in Discovered /\ entry[Driver].Scheduled /\ Driver \in Drivers
  BY DiscoveredAreDrivers DEF LoadImage, Dequeue, DependInv, Inv, LoopInv, world
<1>2. entry[Driver] \in EntryType /\ entry \in [Drivers -> EntryType]
      /\ image \in [Drivers -> {"none", "loaded", "started"}]
  BY <1>1 DEF DependInv, Inv, TypeInv
<1>3. \A d \in Drivers :
        image'[d] # "none" => image[d] # "none" \/ (d \in Discovered /\ entry[d].Scheduled)
  <2>1. CASE Dequeue
    BY <2>1 DEF Dequeue
  <2>2. CASE LoadImage
    <3>1. \A d \in Drivers \ {Driver} : image'[d] = image[d]
      BY <1>2, <2>2 DEF LoadImage
    <3> QED BY <1>1, <3>1
  <2> QED BY <2>1, <2>2
<1>4. ASSUME NEW n, \/ n = entry[Driver]
                    \/ n = [entry[Driver] EXCEPT !.Untrusted = TRUE, !.Scheduled = FALSE]
                    \/ n = [entry[Driver] EXCEPT !.Initialized = TRUE, !.Scheduled = FALSE]
                    \/ n = [entry[Driver] EXCEPT !.Scheduled = FALSE, !.Initialized = TRUE]
      PROVE  /\ n \in EntryType /\ n.Depex = entry[Driver].Depex
             /\ n.DepexProtocolError = entry[Driver].DepexProtocolError
  BY <1>2, <1>4 DEF EntryType
<1>5. PICK n \in EntryType :
        /\ entry' = [entry EXCEPT ![Driver] = n] /\ n.Depex = entry[Driver].Depex
        /\ n.DepexProtocolError = entry[Driver].DepexProtocolError
  <2>1. PICK n : /\ entry' = [entry EXCEPT ![Driver] = n]
                 /\ \/ n = entry[Driver]
                    \/ n = [entry[Driver] EXCEPT !.Untrusted = TRUE, !.Scheduled = FALSE]
                    \/ n = [entry[Driver] EXCEPT !.Initialized = TRUE, !.Scheduled = FALSE]
                    \/ n = [entry[Driver] EXCEPT !.Scheduled = FALSE, !.Initialized = TRUE]
    <3>1. CASE Dequeue
      BY <1>1, <1>2, <3>1 DEF Dequeue
    <3>2. CASE LoadImage
      <4>1. \/ UNCHANGED entry
            \/ \E status \in LoadStatus : Rejected(Driver, status)
        BY <3>2 DEF LoadImage
      <4>2. CASE UNCHANGED entry
        <5>1. entry' = [entry EXCEPT ![Driver] = entry[Driver]]
          BY <1>1, <1>2, <4>2
        <5> QED BY <5>1
      <4>3. CASE \E status \in LoadStatus : Rejected(Driver, status)
        BY <1>1, <1>2, <4>3 DEF Rejected
      <4> QED BY <4>1, <4>2, <4>3
    <3> QED BY <3>1, <3>2
  <2> QED BY <1>4, <2>1
<1>6. \A c \in Discovered :
        /\ entry'[c].Depex = entry[c].Depex
        /\ entry'[c].DepexProtocolError = entry[c].DepexProtocolError
        /\ entry'[c].Scheduled \/ entry'[c].Untrusted =>
             entry[c].Scheduled \/ entry[c].Untrusted \/ Met(c)
  BY <1>1, <1>5, WrittenDependency
<1> QED BY <1>1, <1>3, <1>6, FramesAreMet, DependencyStays

\* The drivers of the calls that go on, and of the one that is added.
LEMMA InsertDependency ==
  ASSUME DependInv, Befores \/ InsertDriver \/ Afters \/ InsertReturns
  PROVE  ReadInv' /\ MetInv'
<1>1. /\ pc = "insert" /\ UNCHANGED <<mDiscoveredList, image, present>>
      /\ entry \in [Drivers -> EntryType] /\ mDiscoveredList \in Seq(Drivers)
      /\ Discovered \subseteq Drivers
  BY DiscoveredAreDrivers
  DEF Befores, InsertDriver, Afters, InsertReturns, DependInv, Inv, TypeInv, lists, world
<1>2. PICK n \in Nat \ {0} : n = Len(inserting)
  BY <1>1, FrameFacts DEF DependInv, Inv
<1>3. PICK x \in FrameType : x = Frame /\ x.d \in Discovered /\ x.d \in Drivers
  BY <1>1, FrameFacts DEF DependInv, Inv
<1>4. PICK callers \in Seq(FrameType) :
        /\ callers = Caller /\ Len(callers) = n - 1
        /\ \A k \in 1..Len(callers) : callers[k].d \in Discovered /\ Met(callers[k].d)
  <2>1. PICK callers \in Seq(FrameType) : callers = Caller
    BY <1>1, FrameFacts DEF DependInv, Inv
  <2>2. Len(callers) = n - 1 /\ \A k \in 1..(n - 1) : callers[k] = inserting[k]
    BY <1>1, <1>2, <2>1, FrameFacts DEF DependInv, Inv
  <2>3. \A k \in 1..(n - 1) : k \in 1..Len(inserting)
    BY <1>2
  <2>4. \A k \in 1..(n - 1) : inserting[k].d \in Discovered /\ Met(inserting[k].d)
    BY <2>3 DEF DependInv, Inv, FramesInv, MetInv
  <2> QED BY <2>1, <2>2, <2>4
<1>5. Met(x.d)
  <2>1. n \in 1..Len(inserting) /\ x = inserting[n]
    BY <1>1, <1>2, <1>3, FrameFacts DEF DependInv, Inv
  <2> QED BY <2>1 DEF DependInv, MetInv
<1>6. ASSUME NEW s \in Seq(FrameType), NEW f \in FrameType, f.d \in Discovered, Met(f.d),
             \A k \in 1..Len(s) : s[k].d \in Discovered /\ Met(s[k].d)
      PROVE  /\ Append(s, f) \in Seq(FrameType)
             /\ \A k \in 1..Len(Append(s, f)) :
                  Append(s, f)[k].d \in Discovered /\ Met(Append(s, f)[k].d)
  <2>1. PICK t : t = Append(s, f)
    OBVIOUS
  <2>2. t \in Seq(FrameType) /\ Len(t) = Len(s) + 1 /\ t[Len(s) + 1] = f
        /\ Len(s) \in Nat /\ \A k \in 1..Len(s) : t[k] = s[k]
    BY <2>1
  <2>3. \A k \in 1..Len(t) : k \in 1..Len(s) \/ k = Len(s) + 1
    BY <2>2
  <2>4. \A k \in 1..Len(t) : t[k].d \in Discovered /\ Met(t[k].d)
    BY <1>6, <2>2, <2>3
  <2> QED BY <2>1, <2>2, <2>4
\* x goes on as f.
<1>7. ASSUME NEW f \in FrameType, f.d = x.d
      PROVE  /\ Append(callers, f) \in Seq(FrameType)
             /\ \A k \in 1..Len(Append(callers, f)) :
                  Append(callers, f)[k].d \in Discovered /\ Met(Append(callers, f)[k].d)
  BY <1>3, <1>4, <1>5, <1>6, <1>7
<1>8. ASSUME NEW tie \in {"BEFORE", "AFTER"}, Step(tie), More
      PROVE  \A k \in 1..Len(inserting') : inserting'[k].d \in Discovered /\ Met(inserting'[k].d)
  <2>1. PICK f : f = [x EXCEPT !.i = x.i + 1]
    OBVIOUS
  <2>2. f \in FrameType /\ f.d = x.d
    BY <2>1 DEF FrameType
  <2>3. x.i \in 1..Len(mDiscoveredList)
    BY <1>1, <1>3, <1>8 DEF More, FrameType
  <2>4. PICK d \in Discovered : d = mDiscoveredList[x.i]
    BY <2>3 DEF Discovered, Members
  <2>5. inserting' = IF Tied(tie, d) THEN Append(Append(callers, f), Insertion(d))
                     ELSE Append(callers, f)
    BY <1>3, <1>4, <1>8, <2>1, <2>4 DEF Step
  <2>6. CASE Tied(tie, d)
    <3>1. PICK g : g = Insertion(d)
      OBVIOUS
    <3>2. g \in FrameType /\ g.d = d
      BY <1>1, <3>1 DEF Insertion, FrameType
    <3>3. Met(d)
      BY <2>6 DEF Tied, Met, IsBefore, IsAfter
    <3>4. PICK s : s = Append(callers, f)
      OBVIOUS
    <3>5. /\ s \in Seq(FrameType)
          /\ \A k \in 1..Len(s) : s[k].d \in Discovered /\ Met(s[k].d)
      BY <1>7, <2>2, <3>4
    <3>6. inserting' = Append(s, g)
      BY <2>5, <2>6, <3>1, <3>4
    <3> QED BY <1>6, <3>2, <3>3, <3>5, <3>6
  <2>7. CASE ~Tied(tie, d)
    BY <1>7, <2>2, <2>5, <2>7
  <2> QED BY <2>6, <2>7
<1>9. CASE Befores \/ Afters
  <2>1. \A k \in 1..Len(inserting') : inserting'[k].d \in Discovered /\ Met(inserting'[k].d)
    <3>1. CASE \E tie \in {"BEFORE", "AFTER"} : Step(tie) /\ More
      BY <1>8, <3>1
    <3>2. CASE Goto([Frame EXCEPT !.at = "lock"])
      <4>1. PICK f : f = [x EXCEPT !.at = "lock"]
        OBVIOUS
      <4>2. f \in FrameType /\ f.d = x.d
        BY <4>1 DEF FrameType
      <4>3. inserting' = Append(callers, f)
        BY <1>3, <1>4, <3>2, <4>1 DEF Goto
      <4> QED BY <1>7, <4>2, <4>3
    <3> QED BY <1>9, <3>1, <3>2 DEF Befores, Afters
  <2>2. UNCHANGED entry
    BY <1>9 DEF Befores, Afters
  <2> QED BY <1>1, <2>1, <2>2, DependencyStays
<1>10. CASE InsertDriver
  <2>1. PICK f : f = [d |-> x.d, at |-> "afters", i |-> 1, known |-> x.known]
    OBVIOUS
  <2>2. f \in FrameType /\ f.d = x.d
    BY <2>1 DEF FrameType
  <2>3. inserting' = Append(callers, f)
    <3>1. PICK r : r = [x EXCEPT !.at = "afters", !.i = 1]
      OBVIOUS
    <3>2. x \in [d : Drivers, at : {"befores", "lock", "afters"}, i : Nat \ {0}, known : Nat]
      BY DEF FrameType
    <3>3. r = [d |-> x.d, at |-> "afters", i |-> 1, known |-> x.known]
      BY <3>1, <3>2
    <3> QED BY <1>3, <1>4, <1>10, <2>1, <3>1, <3>3 DEF InsertDriver, Goto
  <2>4. \A k \in 1..Len(inserting') : inserting'[k].d \in Discovered /\ Met(inserting'[k].d)
    BY <1>7, <2>2, <2>3
  <2>5. PICK n2 : n2 = ScheduledEntry(entry[x.d])
    OBVIOUS
  <2>6. /\ n2 \in EntryType /\ n2.Depex = entry[x.d].Depex
        /\ n2.DepexProtocolError = entry[x.d].DepexProtocolError
    <3>1. entry[x.d] \in EntryType
      BY <1>1, <1>3
    <3> QED BY <2>5, <3>1 DEF ScheduledEntry, EntryType
  <2>7. entry' = [entry EXCEPT ![x.d] = n2]
    BY <1>1, <1>3, <1>10, <2>5 DEF InsertDriver
  <2>8. \A c \in Discovered :
          /\ entry'[c].Depex = entry[c].Depex
          /\ entry'[c].DepexProtocolError = entry[c].DepexProtocolError
          /\ entry'[c].Scheduled \/ entry'[c].Untrusted =>
               entry[c].Scheduled \/ entry[c].Untrusted \/ Met(c)
    BY <1>3, <1>5, <2>6, <2>7, WrittenDependency
  <2> QED BY <1>1, <2>4, <2>8, DependencyStays
<1>11. CASE InsertReturns
  <2>1. inserting' = callers /\ UNCHANGED entry
    BY <1>4, <1>11 DEF InsertReturns
  <2> QED BY <1>1, <1>4, <2>1, DependencyStays
<1> QED BY <1>9, <1>10, <1>11

\* An expression is read at most once; until then the entry holds none.
LEMMA GetDepexReads ==
  ASSUME NEW d \in Drivers, NEW e \in EntryType, e.Depex = <<>>, ~e.Dependent
  PROVE  /\ Read(GetDepex(d, e), d)
         /\ GetDepex(d, e).Scheduled = e.Scheduled /\ GetDepex(d, e).Untrusted = e.Untrusted
         /\ GetDepex(d, e).Dependent => ~GetDepex(d, e).DepexProtocolError
<1>1. DepexSection[d] \in Seq(Instruction) /\ PatchOf(DepexSection[d], DepexSection[d], present)
  BY SectionFacts
<1>2. CASE d \in Guided /\ ExtractionGuid \notin installed
  <2>1. GetDepex(d, e) = [e EXCEPT !.DepexProtocolError = TRUE]
    BY <1>2 DEF GetDepex
  <2> QED BY <2>1 DEF EntryType, Read
<1>3. CASE ~(d \in Guided /\ ExtractionGuid \notin installed) /\ StartsWith(DepexSection[d], "SOR")
  <2>1. GetDepex(d, e) = [e EXCEPT !.DepexProtocolError = FALSE, !.Depex = DepexSection[d],
                                   !.Unrequested = TRUE]
    BY <1>3 DEF GetDepex
  <2> QED BY <1>1, <2>1 DEF EntryType, Read
<1>4. CASE ~(d \in Guided /\ ExtractionGuid \notin installed) /\ ~StartsWith(DepexSection[d], "SOR")
  <2>1. GetDepex(d, e) = [e EXCEPT !.DepexProtocolError = FALSE, !.Depex = DepexSection[d],
                                   !.Dependent = TRUE]
    BY <1>4 DEF GetDepex
  <2> QED BY <1>1, <2>1 DEF EntryType, Read
<1> QED BY <1>2, <1>3, <1>4

\* A driver that a search finds schedulable has what it waits for.
LEMMA SchedulableIsMet ==
  ASSUME NEW d \in Drivers, NEW e \in EntryType, IsSchedulable(e), ~e.DepexProtocolError,
         Read(e, d), installed \subseteq present
  PROVE  Met(d)
<1>1. PICK old \in Seq(Instruction), new \in Seq(Instruction) : old = DepexSection[d] /\ new = e.Depex
  BY SectionFacts DEF EntryType
<1>2. PatchOf(new, old, present)
  BY <1>1 DEF Read
<1>3. CASE new = <<>>
  <2>1. ArchProtocols \subseteq present
    <3>1. ~(StartsWith(e.Depex, "BEFORE") \/ StartsWith(e.Depex, "AFTER")) /\ e.Depex = <<>>
      BY <1>1, <1>3 DEF StartsWith
    <3> QED BY <3>1 DEF IsSchedulable
  <2>2. old = <<>>
    BY <1>2, <1>3 DEF PatchOf
  <2> QED BY <1>1, <2>1, <2>2 DEF Met
<1>4. CASE new # <<>>
  <2>1. e.Depex # <<>> => /\ ~(StartsWith(e.Depex, "BEFORE") \/ StartsWith(e.Depex, "AFTER"))
                          /\ Evaluate(e.Depex, installed)
    BY DEF IsSchedulable
  <2>2. Evaluate(new, installed)
    BY <1>1, <1>4, <2>1
  <2>3. ~HasNot(old) => Evaluate(old, present)
    BY <1>2, <2>2, EvaluateFollows
  <2>4. old # <<>>
    BY <1>2, <1>4 DEF PatchOf
  <2> QED BY <1>1, <2>3, <2>4 DEF Met
<1> QED BY <1>3, <1>4

LEMMA SearchDependency ==
  ASSUME DependInv, Search
  PROVE  ReadInv' /\ MetInv'
<1>1. /\ pc = "search" /\ DriverEntry \in [i : Nat \ {0}] /\ inserting = <<>>
      /\ DriverEntry.i <= Len(mDiscoveredList) /\ mDiscoveredList \in Seq(Drivers)
      /\ UNCHANGED <<lists, image, world>> /\ installed \subseteq present
      /\ entry \in [Drivers -> EntryType]
  BY DEF Search, DependInv, Inv, LoopInv, TypeInv
<1>2. PICK d \in Drivers : d = mDiscoveredList[DriverEntry.i] /\ d \in Discovered
  <2>1. DriverEntry.i \in 1..Len(mDiscoveredList)
    BY <1>1
  <2> QED BY <1>1, <2>1 DEF Discovered, Members
<1>3. entry[d] \in EntryType /\ OneState(entry[d]) /\ Read(entry[d], d)
  BY <1>2 DEF DependInv, Inv, TypeInv, EntriesInv, ReadInv
<1>4. PICK e : e = IF entry[d].DepexProtocolError THEN GetDepex(d, entry[d]) ELSE entry[d]
  OBVIOUS
<1>5. /\ e \in EntryType /\ Read(e, d) /\ (e.Dependent => ~e.DepexProtocolError)
      /\ e.Scheduled = entry[d].Scheduled /\ e.Untrusted = entry[d].Untrusted
      /\ ~entry[d].DepexProtocolError => e = entry[d]
  <2>1. CASE entry[d].DepexProtocolError
    <3>1. /\ ~entry[d].Dependent /\ ~entry[d].Unrequested /\ ~entry[d].Scheduled
          /\ ~entry[d].Untrusted /\ ~entry[d].Initialized /\ entry[d].Depex = <<>>
      BY <1>3, <2>1 DEF OneState, Read
    <3>2. GetDepex(d, entry[d]) \in EntryType
      BY <1>3, <3>1, GetDepexProperties
    <3>3. /\ Read(GetDepex(d, entry[d]), d)
          /\ GetDepex(d, entry[d]).Scheduled = entry[d].Scheduled
          /\ GetDepex(d, entry[d]).Untrusted = entry[d].Untrusted
          /\ GetDepex(d, entry[d]).Dependent => ~GetDepex(d, entry[d]).DepexProtocolError
      BY <1>3, <3>1, GetDepexReads
    <3> QED BY <1>4, <2>1, <3>2, <3>3
  <2>2. CASE ~entry[d].DepexProtocolError
    BY <1>3, <1>4, <2>2 DEF OneState
  <2> QED BY <2>1, <2>2
<1>6. PICK patched : patched = [e EXCEPT !.Depex = Patched(e.Depex, installed)]
  OBVIOUS
<1>7. /\ patched \in EntryType
      /\ patched.Scheduled = e.Scheduled /\ patched.Untrusted = e.Untrusted
      /\ e.Dependent => Read(patched, d)
      /\ \A op \in {"BEFORE", "AFTER"} :
           StartsWith(patched.Depex, op) <=> StartsWith(e.Depex, op)
  <2>1. e.Depex \in Seq(Instruction)
    BY <1>5 DEF EntryType
  <2>2. PICK depex : depex = Patched(e.Depex, installed)
    OBVIOUS
  <2>3. /\ depex \in Seq(Instruction)
        /\ \A op \in {"BEFORE", "AFTER"} : StartsWith(depex, op) <=> StartsWith(e.Depex, op)
    BY <2>1, <2>2, PatchedIsDepex
  <2>4. patched = [e EXCEPT !.Depex = depex]
    BY <1>6, <2>2
  <2>5. /\ patched \in EntryType /\ patched.Depex = depex
        /\ patched.Scheduled = e.Scheduled /\ patched.Untrusted = e.Untrusted
        /\ patched.DepexProtocolError = e.DepexProtocolError
    BY <1>5, <2>3, <2>4 DEF EntryType
  <2>6. ASSUME e.Dependent PROVE Read(patched, d)
    <3>1. ~e.DepexProtocolError /\ PatchOf(e.Depex, DepexSection[d], present)
      BY <1>5, <2>6 DEF Read
    <3>2. PatchOf(depex, DepexSection[d], present)
      BY <1>1, <2>1, <2>2, <3>1, PatchOfPatched, SectionFacts
    <3> QED BY <2>5, <3>1, <3>2 DEF Read
  <2> QED BY <2>3, <2>5, <2>6
<1>8. \/ /\ e.Dependent /\ IsSchedulable(e)
         /\ entry' = [entry EXCEPT ![d] = patched] /\ inserting' = <<Insertion(d)>>
      \/ /\ ~(e.Dependent /\ IsSchedulable(e))
         /\ entry' = [entry EXCEPT ![d] = IF e.Dependent THEN patched ELSE e]
         /\ inserting' = <<>>
  BY <1>1, <1>2, <1>4, <1>6 DEF Search
<1>9. PICK n \in EntryType :
        /\ entry' = [entry EXCEPT ![d] = n] /\ Read(n, d)
        /\ n.Scheduled = entry[d].Scheduled /\ n.Untrusted = entry[d].Untrusted
        /\ \A op \in {"BEFORE", "AFTER"} : StartsWith(e.Depex, op) => StartsWith(n.Depex, op)
  BY <1>5, <1>7, <1>8
<1>10. entry'[d] = n /\ \A c \in Drivers \ {d} : entry'[c] = entry[c]
  BY <1>1, <1>9
<1>11. Discovered' = Discovered /\ Discovered \subseteq Drivers /\ present' = present
  BY <1>1, DiscoveredAreDrivers DEF DependInv, Inv, lists, world, Discovered
<1>12. (IsBefore(d) => IsBefore(d)') /\ (IsAfter(d) => IsAfter(d)')
  <2>1. CASE entry[d].DepexProtocolError
    BY <1>3, <2>1 DEF Read, IsBefore, IsAfter, StartsWith
  <2>2. CASE ~entry[d].DepexProtocolError
    BY <1>5, <1>9, <1>10, <2>2 DEF IsBefore, IsAfter
  <2> QED BY <2>1, <2>2
<1>13. ASSUME NEW c \in Drivers, Met(c)
       PROVE  Met(c)'
  <2>1. (IsBefore(c) => IsBefore(c)') /\ (IsAfter(c) => IsAfter(c)')
    BY <1>10, <1>12 DEF IsBefore, IsAfter
  <2> QED BY <1>11, <1>13, <2>1, MetStays
<1>14. ReadInv'
  <2>1. ASSUME NEW c \in Discovered PROVE Read(entry[c], c)'
    <3>1. CASE c = d
      BY <1>9, <1>10, <1>11, <3>1 DEF Read
    <3>2. CASE c # d
      <4>1. entry'[c] = entry[c] /\ Read(entry[c], c)
        BY <1>10, <1>11, <3>2 DEF DependInv, ReadInv
      <4> QED BY <1>11, <4>1 DEF Read
    <3> QED BY <3>1, <3>2
  <2> QED BY <1>11, <2>1 DEF ReadInv
<1>15. ASSUME NEW c \in Discovered, entry'[c].Scheduled \/ entry'[c].Untrusted \/ image'[c] # "none"
       PROVE  Met(c)'
  <2>1. entry[c].Scheduled \/ entry[c].Untrusted \/ image[c] # "none"
    <3>1. CASE c = d
      BY <1>1, <1>9, <1>10, <1>15, <3>1
    <3>2. CASE c # d
      BY <1>1, <1>10, <1>11, <1>15, <3>2
    <3> QED BY <3>1, <3>2
  <2> QED BY <1>11, <1>13, <2>1 DEF DependInv, MetInv
<1>16. ASSUME NEW k \in 1..Len(inserting') PROVE Met(inserting[k].d)'
  <2>1. CASE inserting' = <<>>
    BY <1>16, <2>1
  <2>2. CASE e.Dependent /\ IsSchedulable(e) /\ inserting' = <<Insertion(d)>>
    <3>1. Met(d)
      BY <1>1, <1>5, <2>2, SchedulableIsMet
    <3>2. k = 1 /\ inserting'[k].d = d
      BY <2>2 DEF Insertion
    <3> QED BY <1>13, <3>1, <3>2
  <2> QED BY <1>8, <2>1, <2>2
<1>17. \A c \in Drivers \ Discovered : image'[c] = "none"
  BY <1>1 DEF DependInv, MetInv
<1> QED BY <1>11, <1>14, <1>15, <1>16, <1>17 DEF MetInv

\* The drivers of a new volume have no image, and only its a priori drivers are scheduled.
LEMMA FwVolDependency ==
  ASSUME DependInv, OnePlace, NEW fv \in Volumes, FwVolNotify(fv)
  PROVE  ReadInv' /\ MetInv'
<1> DEFINE files == Members(Fv[fv])
           first == AprioriDrivers(fv)
<1>1. /\ fv \notin mFvHandleList
      /\ mDiscoveredList' = mDiscoveredList \o Fv[fv]
      /\ UNCHANGED <<image, inserting, installed, present>>
      /\ entry' = [d \in Drivers |->
           IF d \notin files THEN entry[d]
           ELSE IF d \in Members(first) THEN ScheduledEntry(GetDepex(d, Zeroed))
           ELSE GetDepex(d, Zeroed)]
  BY DEF FwVolNotify, loop, world
<1>2. Fv[fv] \in Seq(Drivers) /\ files \subseteq Drivers
  <2>1. Fv[fv] \in Seq(Drivers)
    BY DispatcherAssumption
  <2>2. \A k \in 1..Len(Fv[fv]) : Fv[fv][k] \in Drivers
    BY <2>1
  <2> QED BY <2>1, <2>2 DEF Members
<1>3. files \cap Discovered = {}
  <2> SUFFICES ASSUME NEW d \in Discovered, d \in files PROVE FALSE
    OBVIOUS
  <2>1. PICK gv \in mFvHandleList : d \in Members(Fv[gv])
    BY DEF DependInv, Inv, ListsInv
  <2>2. gv \in Volumes /\ gv # fv
    BY <1>1 DEF DependInv, Inv, TypeInv
  <2> QED BY <2>1, <2>2 DEF OnePlace
<1>4. /\ mDiscoveredList \in Seq(Drivers) /\ Discovered \subseteq Drivers
      /\ Discovered' = Discovered \cup files
  <2>1. mDiscoveredList \in Seq(Drivers) /\ Discovered \subseteq Drivers
    BY DiscoveredAreDrivers DEF DependInv, Inv, TypeInv
  <2> QED BY <1>1, <1>2, <2>1, AppendedList DEF Discovered
<1>5. ASSUME NEW d \in files
      PROVE  d \in Drivers /\ Volume(d) = fv
  <2>1. \E v \in Volumes : d \in Members(Fv[v])
    OBVIOUS
  <2>2. Volume(d) \in Volumes /\ d \in Members(Fv[Volume(d)])
    BY <2>1 DEF Volume
  <2> QED BY <1>2, <2>2 DEF OnePlace
<1>6. ASSUME NEW d \in files, d \in Members(first)
      PROVE  FileName[d] \in Members(Apriori[Volume(d)])
  BY <1>5, <1>6, AprioriFacts
<1>7. ASSUME NEW d \in files
      PROVE  /\ Read(entry[d], d)' /\ ~entry'[d].Untrusted
             /\ entry'[d].Scheduled => d \in Members(first)
  <2>1. Zeroed \in EntryType /\ Zeroed.Depex = <<>> /\ ~Zeroed.Dependent /\ ~Zeroed.Scheduled
        /\ ~Zeroed.Untrusted /\ ~Zeroed.Unrequested /\ ~Zeroed.Initialized
    <3>1. <<>> \in Seq(Instruction)
      OBVIOUS
    <3> QED BY <3>1 DEF Zeroed, EntryType
  <2>2. PICK e : e = GetDepex(d, Zeroed)
    OBVIOUS
  <2>3. e \in EntryType /\ Read(e, d) /\ ~e.Scheduled /\ ~e.Untrusted
    BY <1>5, <2>1, <2>2, GetDepexReads, GetDepexProperties
  <2>4. entry'[d] = e \/ (entry'[d] = ScheduledEntry(e) /\ d \in Members(first))
    BY <1>1, <1>5, <2>2
  <2>5. /\ ScheduledEntry(e).Depex = e.Depex /\ ScheduledEntry(e).Untrusted = e.Untrusted
        /\ ScheduledEntry(e).DepexProtocolError = e.DepexProtocolError
    BY <2>3 DEF ScheduledEntry, EntryType
  <2>6. Read(entry[d], d)'
    BY <1>1, <2>3, <2>4, <2>5 DEF Read
  <2> QED BY <2>3, <2>4, <2>5, <2>6
<1>8. ASSUME NEW d \in Discovered
      PROVE  entry'[d] = entry[d]
  BY <1>1, <1>3, <1>4
<1> HIDE DEF files, first
<1>9. ASSUME NEW d \in Discovered, Met(d)
      PROVE  Met(d)'
  <2>1. (IsBefore(d) => IsBefore(d)') /\ (IsAfter(d) => IsAfter(d)')
    BY <1>8 DEF IsBefore, IsAfter
  <2> QED BY <1>1, <1>4, <1>9, <2>1, MetStays
<1>10. ReadInv'
  <2>1. ASSUME NEW d \in Discovered PROVE Read(entry[d], d)'
    BY <1>1, <1>8 DEF Read, DependInv, ReadInv
  <2> QED BY <1>4, <1>7, <2>1 DEF ReadInv
<1>11. ASSUME NEW d \in Discovered', entry'[d].Scheduled \/ entry'[d].Untrusted \/ image'[d] # "none"
       PROVE  Met(d)'
  <2>1. CASE d \in Discovered
    BY <1>1, <1>8, <1>9, <1>11, <2>1 DEF DependInv, MetInv
  <2>2. CASE d \in files
    <3>1. image'[d] = "none"
      BY <1>1, <1>3, <1>5, <2>2 DEF DependInv, MetInv
    <3>2. d \in Members(first)
      BY <1>7, <1>11, <2>2, <3>1
    <3> QED BY <1>6, <2>2, <3>2 DEF Met
  <2> QED BY <1>4, <2>1, <2>2
<1>12. ASSUME NEW k \in 1..Len(inserting') PROVE Met(inserting[k].d)'
  <2>1. inserting'[k].d = inserting[k].d /\ inserting[k].d \in Discovered /\ Met(inserting[k].d)
    BY <1>1 DEF DependInv, Inv, FramesInv, MetInv
  <2> QED BY <1>9, <2>1
<1>13. \A d \in Drivers \ Discovered' : image'[d] = "none"
  BY <1>1, <1>4 DEF DependInv, MetInv
<1> QED BY <1>10, <1>11, <1>12, <1>13 DEF MetInv
-----------------------------------------------------------------------------
LEMMA DependencyInitially == Init => DependInv
<1>1. Init => Inv
  BY InvariantInitially
<1>2. Init => Discovered = {}
  BY DEF Init, Discovered, Members
<1> QED BY <1>1, <1>2 DEF Init, DependInv, ReadInv, MetInv

LEMMA StepKeepsDependency ==
  ASSUME DependInv, OnePlace, [Next]_vars
  PROVE  DependInv'
<1>1. Inv'
  BY StepKeepsInvariant DEF DependInv
<1>2. CASE CoreDispatcher
  BY <1>1, <1>2, QuietDependency, LoadDependency, SearchDependency, InsertDependency
  DEF CoreDispatcher, DependInv
<1>3. CASE Outside
  BY <1>1, <1>3, QuietDependency, ServiceDependency, FwVolDependency DEF Outside, DependInv
<1>4. CASE UNCHANGED vars
  BY <1>1, <1>4, QuietDependency DEF DependInv
<1> QED BY <1>2, <1>3, <1>4 DEF Next

LEMMA DependencyImplied == DependInv => DependencyMet
BY DEF DependInv, MetInv, DependencyMet, Met, HasNot

\* Whatever expressions drivers have, and however protocols, notifications and searches
\* follow each other: the image of a driver that a search put on the queue is started only
\* when its expression, taken as it is in its file, held over the protocols there were.
THEOREM DependencyIsMet == OnePlace => (Spec => []DependencyMet)
<1> SUFFICES ASSUME OnePlace PROVE Spec => []DependencyMet
  OBVIOUS
<1>1. DependInv /\ [Next]_vars => DependInv'
  BY StepKeepsDependency
<1> QED BY <1>1, DependencyInitially, DependencyImplied, PTL DEF Spec
-----------------------------------------------------------------------------
(* When the dispatcher returns.                                            *)

\* Over the same protocols an expression has one value, patched or not.
LEMMA PatchedIsEqual ==
  ASSUME NEW depex \in Seq(Instruction), NEW have
  PROVE  Evaluate(Patched(depex, have), have) <=> Evaluate(depex, have)
<1>1. PICK new \in Seq(Instruction) : new = Patched(depex, have)
  BY PatchedIsDepex
<1>2. PICK m, n : m = Run(new, have) /\ n = Run(depex, have)
  OBVIOUS
<1>3. Runs(new, have, m) /\ Runs(depex, have, n)
  BY <1>2, RunsExists
<1>4. /\ DOMAIN new = 1..Len(depex) /\ Len(depex) \in Nat
      /\ \A k \in 1..Len(depex) :
           new[k] = depex[k] \/ /\ new[k] = [depex[k] EXCEPT !.op = "REPLACE_TRUE"]
                                /\ depex[k].op = "PUSH" /\ depex[k].guid \in have
  BY <1>1 DEF Patched
<1>5. Len(new) = Len(depex)
  BY <1>4
<1> DEFINE S == {k \in Nat : k <= Len(depex) => m[k] = n[k]}
<1>6. 0 \in S
  BY <1>3 DEF Runs
<1>7. ASSUME NEW k \in Nat, k \in S
      PROVE  k + 1 \in S
  <2>1. SUFFICES ASSUME k + 1 <= Len(depex) PROVE m[k + 1] = n[k + 1]
    OBVIOUS
  <2>2. m[k] = n[k] /\ k + 1 \in 1..Len(depex) /\ (k + 1) - 1 = k
    BY <1>4, <1>7, <2>1
  <2>3. PICK first \in BOOLEAN : first = (k + 1 = 1)
    BY Zenon
  <2>4. PICK i, j : i = new[k + 1] /\ j = depex[k + 1]
    OBVIOUS
  <2>5. m[k + 1] = IF n[k].value # "none" THEN n[k] ELSE Execute(n[k], i, first, have)
    BY <1>3, <1>5, <2>2, <2>3, <2>4 DEF Runs
  <2>6. n[k + 1] = IF n[k].value # "none" THEN n[k] ELSE Execute(n[k], j, first, have)
    BY <1>3, <2>2, <2>3, <2>4 DEF Runs
  <2>7. CASE i = j
    BY <2>5, <2>6, <2>7
  <2>8. CASE i.op = "REPLACE_TRUE" /\ j.op = "PUSH" /\ j.guid \in have
    <3>1. (j.guid \in have) = TRUE
      BY <2>8
    <3>2. Execute(n[k], i, first, have) = PushBool(n[k].stack, TRUE)
      BY <2>8 DEF Execute
    <3>3. Execute(n[k], j, first, have) = PushBool(n[k].stack, TRUE)
      BY <2>8, <3>1 DEF Execute
    <3> QED BY <2>5, <2>6, <3>2, <3>3
  <2>9. j \in Instruction
    BY <2>2, <2>4
  <2> QED BY <1>4, <2>2, <2>4, <2>7, <2>8, <2>9 DEF Instruction
<1>8. m[Len(depex)] = n[Len(depex)]
  <2>1. Len(depex) \in S
    <3> HIDE DEF S
    <3> QED BY <1>4, <1>6, <1>7, Induction
  <2> QED BY <1>4, <2>1
<1> QED BY <1>1, <1>2, <1>5, <1>8 DEF Evaluate

LEMMA SchedulableAfterPatch ==
  ASSUME NEW e \in EntryType, NEW f \in EntryType, f.Depex = Patched(e.Depex, installed),
         IsSchedulable(f)
  PROVE  IsSchedulable(e)
<1>1. PICK old \in Seq(Instruction), new \in Seq(Instruction) :
        old = e.Depex /\ new = f.Depex /\ new = Patched(old, installed)
  BY DEF EntryType
<1>2. \A op \in {"BEFORE", "AFTER"} : StartsWith(new, op) <=> StartsWith(old, op)
  BY <1>1, PatchedIsDepex
<1>3. Evaluate(new, installed) <=> Evaluate(old, installed)
  BY <1>1, PatchedIsEqual
<1>4. DOMAIN new = 1..Len(old)
  BY <1>1 DEF Patched
<1>5. new = <<>> <=> old = <<>>
  BY <1>4
<1>6. CASE new = <<>>
  <2>1. /\ ~(StartsWith(f.Depex, "BEFORE") \/ StartsWith(f.Depex, "AFTER")) /\ f.Depex = <<>>
        /\ ~(StartsWith(e.Depex, "BEFORE") \/ StartsWith(e.Depex, "AFTER")) /\ e.Depex = <<>>
    BY <1>1, <1>5, <1>6 DEF StartsWith
  <2>2. ArchProtocols \subseteq present
    BY <2>1 DEF IsSchedulable
  <2> QED BY <2>1, <2>2 DEF IsSchedulable
<1>7. CASE new # <<>>
  <2>1. f.Depex # <<>> => /\ ~(StartsWith(f.Depex, "BEFORE") \/ StartsWith(f.Depex, "AFTER"))
                          /\ Evaluate(f.Depex, installed)
    BY DEF IsSchedulable
  <2>2. /\ ~(StartsWith(e.Depex, "BEFORE") \/ StartsWith(e.Depex, "AFTER"))
        /\ e.Depex # <<>> /\ Evaluate(e.Depex, installed)
    BY <1>1, <1>2, <1>3, <1>5, <1>7, <2>1
  <2> QED BY <2>2 DEF IsSchedulable
<1> QED BY <1>6, <1>7

\* The driver waits although its expression holds.
MayRun(d) == entry[d].Dependent /\ IsSchedulable(entry[d])

\* What an undisturbed search that has scheduled nothing has left behind it.
ExitInv ==
  /\ Inv
  /\ pc = "insert" => ReadyToRun
  /\ pc = "search" /\ ~ReadyToRun /\ ~disturbed =>
       /\ mScheduledQueue = <<>>
       /\ \A k \in 1..Len(mDiscoveredList) : k < DriverEntry.i => ~MayRun(mDiscoveredList[k])

LEMMA SearchPasses ==
  ASSUME ExitInv, Search, ~ReadyToRun', ~disturbed
  PROVE  /\ mScheduledQueue' = <<>>
         /\ \A k \in 1..Len(mDiscoveredList') :
              k < DriverEntry'.i => ~MayRun(mDiscoveredList[k])'
<1>1. /\ pc = "search" /\ DriverEntry \in [i : Nat \ {0}]
      /\ DriverEntry.i <= Len(mDiscoveredList) /\ mDiscoveredList \in Seq(Drivers)
      /\ UNCHANGED <<lists, image, world>>
      /\ entry \in [Drivers -> EntryType]
  BY DEF Search, ExitInv, Inv, LoopInv, TypeInv
<1>2. PICK d \in Drivers : d = mDiscoveredList[DriverEntry.i]
  <2>1. DriverEntry.i \in 1..Len(mDiscoveredList)
    BY <1>1
  <2> QED BY <1>1, <2>1
<1>3. entry[d] \in EntryType /\ OneState(entry[d])
  BY DEF ExitInv, Inv, TypeInv, EntriesInv
<1>4. PICK e : e = IF entry[d].DepexProtocolError THEN GetDepex(d, entry[d]) ELSE entry[d]
  OBVIOUS
<1>5. e \in EntryType
  <2>1. CASE entry[d].DepexProtocolError
    <3>1. GetDepex(d, entry[d]) \in EntryType
      BY <1>3, <2>1, GetDepexProperties DEF OneState
    <3> QED BY <1>4, <2>1, <3>1
  <2>2. CASE ~entry[d].DepexProtocolError
    BY <1>3, <1>4, <2>2
  <2> QED BY <2>1, <2>2
<1>6. PICK patched : patched = [e EXCEPT !.Depex = Patched(e.Depex, installed)]
  OBVIOUS
<1>7. /\ patched \in EntryType /\ patched.Dependent = e.Dependent
      /\ patched.Depex = Patched(e.Depex, installed)
  <2>1. PICK depex \in Seq(Instruction) : depex = Patched(e.Depex, installed)
    BY <1>5, PatchedIsDepex DEF EntryType
  <2>2. patched = [e EXCEPT !.Depex = depex]
    BY <1>6, <2>1
  <2> QED BY <1>5, <2>1, <2>2 DEF EntryType
<1>8. /\ ~(e.Dependent /\ IsSchedulable(e)) /\ ~ReadyToRun /\ DriverEntry'.i = DriverEntry.i + 1
      /\ entry' = [entry EXCEPT ![d] = IF e.Dependent THEN patched ELSE e]
  <2>1. \/ ReadyToRun'
        \/ /\ ~(e.Dependent /\ IsSchedulable(e))
           /\ entry' = [entry EXCEPT ![d] = IF e.Dependent THEN patched ELSE e]
           /\ Searching(DriverEntry.i + 1)
           /\ UNCHANGED <<ReadyToRun, inserting>>
    BY <1>2, <1>4, <1>6 DEF Search
  <2> QED BY <2>1 DEF Searching
<1>9. PICK n \in EntryType : /\ entry' = [entry EXCEPT ![d] = n]
                             /\ ~(n.Dependent /\ IsSchedulable(n))
  <2>1. CASE e.Dependent
    <3>1. ~IsSchedulable(patched)
      BY <1>5, <1>7, <1>8, <2>1, SchedulableAfterPatch
    <3> QED BY <1>7, <1>8, <2>1, <3>1
  <2>2. CASE ~e.Dependent
    BY <1>5, <1>8, <2>2
  <2> QED BY <2>1, <2>2
<1>10. entry'[d] = n /\ \A c \in Drivers \ {d} : entry'[c] = entry[c]
  BY <1>1, <1>9
<1>11. ASSUME NEW c \in Drivers
       PROVE  MayRun(c)' <=> entry'[c].Dependent /\ IsSchedulable(entry'[c])
  BY <1>1 DEF MayRun, IsSchedulable, world
<1>12. ASSUME NEW k \in 1..Len(mDiscoveredList), k < DriverEntry.i + 1
       PROVE  ~MayRun(mDiscoveredList[k])'
  <2>1. PICK c \in Drivers : c = mDiscoveredList[k]
    BY <1>1
  <2>2. ~(entry'[c].Dependent /\ IsSchedulable(entry'[c]))
    <3>1. CASE c = d
      BY <1>9, <1>10, <3>1
    <3>2. CASE c # d
      <4>1. k < DriverEntry.i
        BY <1>1, <1>2, <1>12, <2>1, <3>2
      <4>2. ~MayRun(c)
        BY <1>1, <1>8, <2>1, <4>1 DEF ExitInv
      <4> QED BY <1>10, <3>2, <4>2 DEF MayRun
    <3> QED BY <3>1, <3>2
  <2>3. mDiscoveredList'[k] = c
    BY <1>1, <2>1 DEF lists
  <2> QED BY <1>11, <2>2, <2>3
<1>13. mScheduledQueue' = <<>>
  BY <1>1, <1>8 DEF ExitInv, lists
<1> QED BY <1>1, <1>8, <1>12, <1>13 DEF lists

LEMMA ExitInitially == Init => ExitInv
BY InvariantInitially DEF Init, ExitInv

LEMMA StepKeepsExit ==
  ASSUME ExitInv, OnePlace, [Next]_vars
  PROVE  ExitInv'
<1>1. Inv'
  BY StepKeepsInvariant DEF ExitInv
<1>2. CASE UNCHANGED vars
  BY <1>1, <1>2 DEF ExitInv, vars, lists, loop, world, MayRun, IsSchedulable
<1>3. CASE Outside
  <2>1. UNCHANGED <<pc, ReadyToRun>>
    BY <1>3 DEF Outside, FwVolNotify, FwVolRejected, Schedule, Trust, InstallProtocol,
       UninstallProtocol, loop
  <2>2. pc = "search" /\ ~ReadyToRun => disturbed'
    BY <1>3 DEF Outside
  <2> QED BY <1>1, <2>1, <2>2 DEF ExitInv
<1>4. CASE CoreDispatcher
  <2>1. pc' = "insert" => ReadyToRun'
    BY <1>4 DEF ExitInv, CoreDispatcher, CallDispatch, FirstScheduled, LoadImage, Dequeue,
       StartImage, EntryPointReturns, StartSearch, Search, Searched, Befores, InsertDriver, Afters,
       InsertReturns, Working, Searching
  <2>2. ASSUME pc' = "search", ~ReadyToRun', ~disturbed'
        PROVE  /\ mScheduledQueue' = <<>>
               /\ \A k \in 1..Len(mDiscoveredList') :
                    k < DriverEntry'.i => ~MayRun(mDiscoveredList[k])'
    <3>1. StartSearch \/ Search
      BY <1>4, <2>2 DEF ExitInv, CoreDispatcher, CallDispatch, FirstScheduled, LoadImage, Dequeue,
         StartImage, EntryPointReturns, Searched, Befores, InsertDriver, Afters, InsertReturns,
         Working
    <3>2. CASE StartSearch
      <4>1. DriverEntry'.i = 1 /\ mScheduledQueue' = <<>>
        BY <3>2 DEF StartSearch, Searching, lists
      <4> QED BY <4>1
    <3>3. CASE Search
      <4>1. ~disturbed
        BY <1>4, <2>2 DEF CoreDispatcher
      <4> QED BY <2>2, <3>3, <4>1, SearchPasses
    <3> QED BY <3>1, <3>2, <3>3
  <2> QED BY <1>1, <2>1, <2>2 DEF ExitInv
<1> QED BY <1>2, <1>3, <1>4 DEF Next

LEMMA SearchEnds ==
  ASSUME ExitInv, [Next]_vars, pc = "search", pc' = "idle", ~disturbed
  PROVE  mScheduledQueue = <<>> /\ \A d \in Discovered : ~(entry[d].Dependent /\ IsSchedulable(entry[d]))
<1>1. Searched
  <2>1. ~UNCHANGED vars /\ ~Outside
    BY DEF vars, loop, Outside, FwVolNotify, FwVolRejected, Schedule, Trust, InstallProtocol,
       UninstallProtocol
  <2> QED BY <2>1 DEF Next, CoreDispatcher, CallDispatch, FirstScheduled, LoadImage, Dequeue,
       StartImage, EntryPointReturns, StartSearch, Search, Befores, InsertDriver, Afters,
       InsertReturns, Searching
<1>2. ~ReadyToRun /\ DriverEntry.i > Len(mDiscoveredList)
  BY <1>1 DEF Searched
<1>3. DriverEntry \in [i : Nat \ {0}] /\ mDiscoveredList \in Seq(Drivers)
  BY DEF ExitInv, Inv, LoopInv, TypeInv
<1>4. ASSUME NEW k \in 1..Len(mDiscoveredList) PROVE ~MayRun(mDiscoveredList[k])
  BY <1>2, <1>3 DEF ExitInv
<1> QED BY <1>2, <1>4 DEF ExitInv, MayRun, Discovered, Members

\* The dispatcher returns only when the queue is empty and no driver waits with an
\* expression that holds, unless somebody acted during the last search.
THEOREM ExitsOnlyWhenDone == OnePlace => (Spec => ExitsWhenDone)
<1> SUFFICES ASSUME OnePlace PROVE Spec => ExitsWhenDone
  OBVIOUS
<1>1. ExitInv /\ [Next]_vars => ExitInv'
  BY StepKeepsExit
<1>2. ExitInv /\ [Next]_vars =>
        [pc = "search" /\ pc' = "idle" /\ ~disturbed =>
           /\ mScheduledQueue = <<>>
           /\ \A d \in Discovered : ~(entry[d].Dependent /\ IsSchedulable(entry[d]))]_vars
  BY SearchEnds
<1> QED BY <1>1, <1>2, ExitInitially, PTL DEF Spec, ExitsWhenDone
=============================================================================
