--------------------------- MODULE PeiCoreProofs ----------------------------
(***************************************************************************)
(* The PEI core, for any descriptors, volumes, PEIMs and expressions, any  *)
(* size of the PPI database and any depth of notification functions:       *)
(*   - the types of the variables, that no PEIM has a number beyond the    *)
(*     PEIMs there are, and that no slot refers to the temporary memory    *)
(*     when it is gone;                                                    *)
(*   - each notification is called for each PPI it is for, and a callback  *)
(*     not twice;                                                          *)
(*   - the dispatcher ends only when nothing more can run.                 *)
(***************************************************************************)
EXTENDS PeiCore, ListsProofs, SequenceTheorems

-----------------------------------------------------------------------------
(* The invariant.                                                          *)

DispatchFrames ==
  [pc : {"dispatch"}, level : Levels, k : Nat, to : Nat, n : Notifies \cup {NULL},
   i : Nat, first : Nat, last : Nat]
CallFrames == [pc : {"function"}, level : Levels]
Frames == DispatchFrames \cup CallFrames

Pcs == {"search", "peim", "notifies", "notified", "installs", "installed", "processed",
        "DxeIpl", "Entered", "Asserted"}

Types ==
  /\ ppi \in Seq(Slots(Ppis)) /\ notify \in Seq(Slots(Notifies))
  /\ DispatchEnd \in Nat /\ LastNotify \in Nat /\ LastInstall \in Nat /\ TempValue \in Nat
  /\ stack \in Seq(Frames)
  /\ told \in [Notifies \X Ppis -> Nat]
  /\ PeiMemoryInstalled \in BOOLEAN /\ SwitchStackSignal \in BOOLEAN /\ FindFv \in BOOLEAN
  /\ pc \in Pcs

\* The two lists share the slots; the cursors of the dispatcher lag behind.
Cursors ==
  /\ Len(ppi) + Len(notify) <= MAX_PPI_DESCRIPTORS
  /\ LastNotify <= DispatchEnd /\ DispatchEnd <= Len(notify) /\ LastInstall <= Len(ppi)
  /\ pc = "notified" => LastNotify <= TempValue /\ TempValue <= DispatchEnd
  /\ pc = "installed" => LastInstall <= TempValue /\ TempValue <= Len(ppi)
  /\ pc = "processed" => LastInstall = Len(ppi) /\ LastNotify = DispatchEnd

\* Something is in progress only in a PEIM, while the dispatcher processes what is new, or
\* when it has just told of the memory.
Stacked == stack # <<>> => pc \in {"peim", "search", "notified", "installed"}

\* No slot refers to the temporary memory once it is gone.
Moved ==
  PeiMemoryInstalled => /\ \A k \in 1..Len(ppi) : ppi[k].at # "car"
                        /\ \A k \in 1..Len(notify) : notify[k].at # "car"

\* A walk ends among the notifications there are.
Bounded == \A m \in 1..Len(stack) : stack[m].pc = "dispatch" => stack[m].to <= Len(notify)

TypeInv == Types /\ Cursors /\ Stacked /\ Moved /\ Bounded

\* What a walk through the notifications is at is still where it was.
IsWalk(f) ==
  /\ 1 <= f.first /\ 1 <= f.i /\ f.last <= Len(ppi) /\ f.to <= Len(notify)
  /\ f.n # NULL => /\ 1 <= f.k /\ f.k <= f.to /\ f.n = notify[f.k].d
                   /\ f.level = "CALLBACK" => DispatchEnd < f.k
  /\ f.level = "CALLBACK" => DispatchEnd <= f.k
  /\ f.level = "DISPATCH" => f.to <= DispatchEnd

\* The walk of the dispatcher is at the bottom of the stack; a function is called by a walk.
WalkAt(m) ==
  /\ stack[m].pc = "dispatch" => IsWalk(stack[m]) /\ (stack[m].level = "DISPATCH" => m = 1)
  /\ stack[m].pc = "function" => /\ m > 1 /\ stack[m - 1].pc = "dispatch"
                                 /\ stack[m - 1].level = stack[m].level
Walks == \A m \in 1..Len(stack) : WalkAt(m)

\* Callbacks are above the notifications at dispatch level.
Sorted ==
  \A k \in 1..Len(notify) :
    /\ k <= DispatchEnd => Level[notify[k].d] = "DISPATCH"
    /\ k > DispatchEnd => notify[k].d \in refused \/ Level[notify[k].d] = "CALLBACK"

\* The walk f still comes to PPI i with notification k.
Waits(f, k, i) ==
  /\ f.pc = "dispatch" /\ i <= f.last
  /\ \/ f.k < k /\ k <= f.to /\ f.first <= i
     \/ f.n # NULL /\ k = f.k /\ f.i <= i

IsFor(n, p) == n \notin refused /\ p \notin refused /\ Guid[n] = Guid[p]
Told(k, i) == told[<<notify[k].d, ppi[i].d>>] >= 1

\* A callback was called for each PPI, or a walk still comes to it.
CallbacksHear ==
  \A k \in (DispatchEnd + 1)..Len(notify), i \in 1..Len(ppi) :
    IsFor(notify[k].d, ppi[i].d) =>
      Told(k, i) \/ \E m \in 1..Len(stack) : Waits(stack[m], k, i)

\* A notification at dispatch level was called for each PPI that the cursors have passed,
\* or the dispatcher's walk, at the bottom of the stack, still comes to it.
DispatchedHear ==
  \A k \in 1..DispatchEnd, i \in 1..Len(ppi) :
    IsFor(notify[k].d, ppi[i].d) /\ ppi[i].d \notin replaced =>
      /\ k <= LastNotify /\ i <= LastInstall => Told(k, i)
      /\ \/ pc = "notified" /\ k <= TempValue /\ i <= LastInstall
         \/ pc = "installed" /\ k <= LastNotify /\ i <= TempValue
         => Told(k, i) \/ (stack # <<>> /\ Waits(stack[1], k, i))

HearInv == Walks /\ Sorted /\ CallbacksHear /\ DispatchedHear

GivenPpis ==
  {p \in Ppis :
     \/ \E j \in 1..Len(DispatchTable) : DispatchTable[j] = p
     \/ p = MemoryDiscovered /\ PeiMemoryInstalled /\ ~SwitchStackSignal
     \/ \E l \in passed \cap InstallLists : \E j \in 1..Len(l) : l[j] = p}
GivenNotifies ==
  {n \in Notifies :
     \/ n = SecurityNotify
     \/ \E l \in passed \cap NotifyLists : \E j \in 1..Len(l) : l[j] = n}

\* What is in the database, and what was told, was passed.
Given ==
  /\ SwitchStackSignal => PeiMemoryInstalled
  /\ \A i \in 1..Len(ppi) : ppi[i].d \in GivenPpis \cup replaced
  /\ \A k \in 1..Len(notify) : notify[k].d \in GivenNotifies
  /\ \A n \in Notifies, p \in Ppis :
       told[<<n, p>>] # 0 => n \in GivenNotifies /\ p \in GivenPpis \cup replaced

\* A PPI has one slot unless it replaced another, and so has a callback.
OneSlot ==
  /\ \A i, j \in 1..Len(ppi) : ppi[i].d = ppi[j].d /\ ppi[i].d \notin replaced => i = j
  /\ \A k, l \in 1..Len(notify) :
       notify[k].d = notify[l].d /\ Level[notify[k].d] = "CALLBACK" => k = l

\* A callback that a walk still comes to was not called yet, and no other walk comes to it.
NotTwice ==
  /\ \A n \in Notifies, p \in Ppis \ (refused \cup replaced) :
       Level[n] = "CALLBACK" => told[<<n, p>>] <= 1
  /\ \A m \in 1..Len(stack), k \in 1..Len(notify), i \in 1..Len(ppi) :
       Waits(stack[m], k, i) /\ Level[notify[k].d] = "CALLBACK"
           /\ ppi[i].d \notin refused \cup replaced =>
         /\ told[<<notify[k].d, ppi[i].d>>] = 0
         /\ \A o \in 1..Len(stack) : Waits(stack[o], k, i) => o = m

OnceInv == Given /\ OneSlot /\ NotTwice

Volume(v) == IF FvHobs[v] = BootFv THEN <<>> ELSE Files[FvHobs[v]]
AllPeims  == Files[BootFv] \o Others

\* How many PEIMs come before the volume v + 1.
Before ==
  LET before[v \in 0..Len(FvHobs)] ==
        IF v = 0 THEN Len(Files[BootFv]) ELSE before[v - 1] + Len(Volume(v))
  IN  before

Ended == pc \in {"DxeIpl", "Entered", "Asserted"}

\* The number of PEIMs up to the current one, and the one that the dispatcher gives it.
Place  == IF CurrentFv = 0 THEN file ELSE Before[CurrentFv - 1] + file
Number == IF pc = "search" THEN CurrentPeim ELSE CurrentPeim + 1

Searching ==
  /\ CurrentFv \in 0..Len(FvHobs) /\ CurrentPeim \in Nat
  /\ fv \in DOMAIN Files /\ file \in 0..Len(Files[fv])
  /\ ~Ended => /\ IF CurrentFv = 0 THEN fv = BootFv ELSE fv = FvHobs[CurrentFv] /\ fv # BootFv
               /\ Number <= Place
               /\ OneHobPerVolume => Number = Place
               /\ ~FindFv => CurrentFv = 0

Numbered == Bitmap \cup Previous \subseteq 0..(Len(AllPeims) - 1)

Looked(k) ==
  (k - 1) \in Bitmap \/ ~DepexSatisfied(AllPeims[k]) \/ AllPeims[k] \notin Loadable

\* As long as a pass has not run a PEIM, nothing has changed since it looked at the others.
Passing ==
  /\ Previous \subseteq Bitmap
  /\ pc = "peim" => CurrentPeim \notin Bitmap
  /\ ~Ended /\ pc \notin {"search", "peim"} => Bitmap # Previous
  /\ pc = "search" /\ Bitmap = Previous => /\ stack = <<>>
                                           /\ \A k \in 1..CurrentPeim : Looked(k)
  /\ pc = "DxeIpl" => \A k \in 1..Len(Known) : Looked(k)

-----------------------------------------------------------------------------
(* What the helpers of the services return.                                *)

LEMMA EntryFacts ==
  ASSUME NEW D, NEW x \in D
  PROVE  /\ Entry(x) \in Slots(D) /\ Entry(x).d = x
         /\ PeiMemoryInstalled => Entry(x).at # "car"
BY DEF Entry, Slots

LEMMA EntriesFacts ==
  ASSUME NEW D, NEW list \in Seq(D)
  PROVE  /\ Entries(list) \in Seq(Slots(D)) /\ Len(Entries(list)) = Len(list)
         /\ \A k \in 1..Len(list) : Entries(list)[k] = Entry(list[k])
<1>1. Len(list) \in Nat /\ \A k \in 1..Len(list) : list[k] \in D
  OBVIOUS
<1>2. \A k \in 1..Len(list) : Entries(list)[k] = Entry(list[k])
  BY DEF Entries
<1>3. \A k \in 1..Len(list) : Entries(list)[k] \in Slots(D)
  BY <1>1, <1>2, EntryFacts
<1>4. Entries(list) = [k \in 1..Len(list) |-> Entries(list)[k]]
  BY DEF Entries
<1> QED BY <1>1, <1>2, <1>3, <1>4, IntervalSeq

\* A set of numbers that is not empty has a least one.
LEMMA HasMin ==
  ASSUME NEW S, S \subseteq Nat, S # {}
  PROVE  Min(S) \in S /\ \A y \in S : Min(S) <= y
<1> DEFINE T == {n \in Nat : \A m \in 0..n : m \notin S}
<1>1. SUFFICES \E x \in S : \A y \in S : x <= y
  BY DEF Min
<1>2. SUFFICES ASSUME \A x \in S : \E y \in S : y < x PROVE FALSE
  <2>1. \A x \in S, y \in S : x <= y \/ y < x
    OBVIOUS
  <2>2. PICK x \in S : \A y \in S : ~(y < x)
    BY <1>2
  <2> QED BY <2>1, <2>2
<1>3. 0 \in T
  <2>1. 0 \notin S
    BY <1>2
  <2> QED BY <2>1
<1>4. ASSUME NEW n \in Nat, n \in T PROVE n + 1 \in T
  <2>1. \A m \in 0..n : m \notin S
    BY <1>4
  <2>2. n + 1 \notin S
    BY <1>2, <2>1
  <2> QED BY <2>1, <2>2
<1>5. \A n \in Nat : n \in T
  <2> HIDE DEF T
  <2> QED BY <1>3, <1>4, Induction
<1>6. \A n \in Nat : n \in 0..n /\ n \notin S
  BY <1>5
<1> QED BY <1>6

\* A list that is stopped by the end of the slots is longer than there is room, and one that
\* nothing stops fits.
LEMMA StopsFacts ==
  ASSUME NEW D, NEW list \in Seq(D), Room \in Nat
  PROVE  /\ OutOfResources(list) => Room < Len(list) /\ \A k \in 1..Room : list[k] \notin Invalid
         /\ Stops(list) = {} => Len(list) <= Room /\ \A k \in 1..Len(list) : list[k] \notin Invalid
<1>1. Len(list) \in Nat /\ Stops(list) \subseteq Nat
  BY DEF Stops
<1>2. ASSUME OutOfResources(list)
      PROVE  Room < Len(list) /\ \A k \in 1..Room : list[k] \notin Invalid
  <2>1. Min(Stops(list)) \in Stops(list) /\ \A y \in Stops(list) : Min(Stops(list)) <= y
    BY <1>1, <1>2, HasMin DEF OutOfResources
  <2>2. PICK m : m = Min(Stops(list))
    OBVIOUS
  <2>3. m \in 1..Len(list) /\ m > Room /\ \A y \in Stops(list) : m <= y
    BY <1>2, <2>1, <2>2 DEF OutOfResources, Stops
  <2>4. \A k \in 1..Room : k \in 1..Len(list) /\ ~(m <= k)
    BY <1>1, <2>3
  <2> QED BY <1>1, <2>3, <2>4 DEF Stops
<1>3. ASSUME Stops(list) = {}
      PROVE  Len(list) <= Room /\ \A k \in 1..Len(list) : list[k] \notin Invalid
  <2>1. \A k \in 1..Len(list) : ~(k > Room) /\ list[k] \notin Invalid
    BY <1>3 DEF Stops
  <2> QED BY <1>1, <2>1
<1> QED BY <1>2, <1>3

-----------------------------------------------------------------------------
(* The notifications of a list that are at a level.                        *)

Picks(list, level, F) ==
  /\ F[0] = <<>>
  /\ \A k \in 1..Len(list) :
       F[k] = IF Level[list[k]] = level THEN Append(F[k - 1], Entry(list[k])) ELSE F[k - 1]

LEMMA PicksExists ==
  ASSUME NEW list \in Seq(Notifies), NEW level \in Levels
  PROVE  \E F : Picks(list, level, F) /\ AtLevel(Entries(list), level) = F[Len(list)]
<1> DEFINE entries == Entries(list)
<1>a. /\ entries \in Seq(Slots(Notifies)) /\ Len(entries) = Len(list)
      /\ \A k \in 1..Len(list) : entries[k] = Entry(list[k])
  BY EntriesFacts
<1> HIDE DEF entries
<1>b. \A k \in 1..Len(list) : list[k] \in Notifies
  OBVIOUS
<1>2. \A k \in 1..Len(list) : entries[k] = Entry(list[k]) /\ entries[k].d = list[k]
                               /\ Entry(list[k]) \in Slots(Notifies)
  BY <1>a, <1>b, EntryFacts
<1> DEFINE R == Seq(Slots(Notifies))
           next == [kr \in Nat \X R |->
                      IF kr[1] \in 1..Len(list) /\ Level[list[kr[1]]] = level
                      THEN Append(kr[2], Entry(list[kr[1]])) ELSE kr[2]]
<1>1. Len(list) \in Nat /\ Len(entries) = Len(list) /\ <<>> \in R
  BY <1>a
<1>3. next \in [Nat \X R -> R]
  <2>1. ASSUME NEW k \in Nat, NEW r \in R
        PROVE  IF k \in 1..Len(list) /\ Level[list[k]] = level THEN Append(r, Entry(list[k])) \in R
               ELSE r \in R
    <3>1. CASE k \in 1..Len(list)
      BY <1>2, <3>1
    <3>2. CASE k \notin 1..Len(list)
      BY <3>2
    <3> QED BY <3>1, <3>2
  <2> HIDE DEF R
  <2>2. \A kr \in Nat \X R :
          kr[1] \in Nat /\ kr[2] \in R /\ kr = <<kr[1], kr[2]>>
    OBVIOUS
  <2>3. \A kr \in Nat \X R : next[kr] \in R
    BY <2>1, <2>2
  <2> QED BY <2>3
<1>4. \A k \in 1..Len(list), r \in R :
        next[<<k, r>>] = IF Level[list[k]] = level THEN Append(r, Entry(list[k])) ELSE r
  BY <1>1
<1> HIDE DEF next
<1>5. PICK F \in [0..Len(list) -> R] :
        F[0] = <<>> /\ \A k \in 1..Len(list) : F[k] = next[<<k, F[k - 1]>>]
  <2>1. PICK x \in R, n \in Nat : x = <<>> /\ n = Len(list)
    BY <1>1
  <2> HIDE DEF R
  <2>2. PICK Q, G : Q = R /\ G = next
    OBVIOUS
  <2>3. x \in Q /\ G \in [Nat \X Q -> Q]
    BY <1>3, <2>2
  <2>4. PICK F : Recursive(F, Q, x, G, n)
    BY <2>3, Recursion
  <2> QED BY <2>1, <2>2, <2>4 DEF Recursive
<1>6. \A k \in 1..Len(list) :
        F[k] = IF Level[list[k]] = level THEN Append(F[k - 1], Entry(list[k])) ELSE F[k - 1]
  <2> TAKE k \in 1..Len(list)
  <2>1. F[k - 1] \in R
    BY <1>1, <1>5
  <2> QED BY <1>4, <1>5, <2>1
<1>7. \A k \in 0..Len(entries) :
        F[k] = IF k = 0 THEN <<>>
               ELSE IF Level[entries[k].d] = level THEN Append(F[k - 1], entries[k])
               ELSE F[k - 1]
  <2> TAKE k \in 0..Len(entries)
  <2>1. CASE k = 0
    BY <1>5, <2>1
  <2>2. CASE k \in 1..Len(list)
    <3>1. k # 0 /\ entries[k] = Entry(list[k]) /\ entries[k].d = list[k]
      BY <1>1, <1>2, <2>2
    <3> QED BY <1>6, <2>2, <3>1
  <2> QED BY <1>1, <2>1, <2>2
<1>8. F = [k \in 0..Len(entries) |->
             IF k = 0 THEN <<>>
             ELSE IF Level[entries[k].d] = level THEN Append(F[k - 1], entries[k])
             ELSE F[k - 1]]
  BY <1>1, <1>5, <1>7
<1> DEFINE some[k \in 0..Len(entries)] ==
             IF k = 0 THEN <<>>
             ELSE IF Level[entries[k].d] = level THEN Append(some[k - 1], entries[k])
             ELSE some[k - 1]
<1>9. AtLevel(entries, level) = some[Len(entries)]
  BY DEF AtLevel
<1> DEFINE Is(f) == f = [k \in 0..Len(entries) |->
             IF k = 0 THEN <<>>
             ELSE IF Level[entries[k].d] = level THEN Append(f[k - 1], entries[k])
             ELSE f[k - 1]]
<1>10. some = CHOOSE f : Is(f)
  OBVIOUS
<1>11. Is(some)
  BY <1>8, <1>10
<1> HIDE DEF some
<1>12. \A k \in 1..Len(list) :
         some[k] = IF Level[list[k]] = level THEN Append(some[k - 1], Entry(list[k])) ELSE some[k - 1]
  <2> TAKE k \in 1..Len(list)
  <2>1. k \in 0..Len(entries) /\ k # 0 /\ entries[k] = Entry(list[k]) /\ entries[k].d = list[k]
    BY <1>1, <1>2
  <2> QED BY <1>11, <2>1
<1>13. some[0] = <<>>
  BY <1>1, <1>11
<1>14. Picks(list, level, some)
  BY <1>12, <1>13 DEF Picks
<1> QED BY <1>1, <1>9, <1>14 DEF entries

\* Which entries of the list they are: some of that level, none twice.
Chosen(list, level, r, g) ==
  /\ g \in [1..Len(r) -> 1..Len(list)]
  /\ \A j \in 1..Len(r) : r[j] = Entry(list[g[j]]) /\ Level[list[g[j]]] = level
  /\ \A i, j \in 1..Len(r) : g[i] = g[j] => i = j

LEMMA AtLevelFacts ==
  ASSUME NEW list \in Seq(Notifies), NEW level \in Levels
  PROVE  /\ AtLevel(Entries(list), level) \in Seq(Slots(Notifies))
         /\ \E g : Chosen(list, level, AtLevel(Entries(list), level), g)
<1>1. PICK F : Picks(list, level, F) /\ AtLevel(Entries(list), level) = F[Len(list)]
  BY PicksExists
<1>2. Len(list) \in Nat /\ \A k \in 1..Len(list) : list[k] \in Notifies
  OBVIOUS
<1> DEFINE E == Slots(Notifies)
           Good(k, r) == /\ r \in Seq(E)
                         /\ \E g \in [1..Len(r) -> 1..k] :
                              /\ \A j \in 1..Len(r) : r[j] = Entry(list[g[j]]) /\ Level[list[g[j]]] = level
                              /\ \A i, j \in 1..Len(r) : g[i] = g[j] => i = j
           S == {k \in Nat : k <= Len(list) => Good(k, F[k])}
<1>3. 0 \in S
  <2>1. F[0] = <<>> /\ <<>> \in Seq(E) /\ Len(<<>>) = 0
    BY <1>1 DEF Picks
  <2>2. PICK r, g : r = <<>> /\ g = [j \in 1..0 |-> j]
    OBVIOUS
  <2>3. r \in Seq(E) /\ Len(r) = 0 /\ g \in [1..Len(r) -> 1..0]
    BY <2>1, <2>2
  <2> HIDE DEF E
  <2>4. Good(0, r)
    <3>1. \A j \in 1..Len(r) : FALSE
      BY <2>3
    <3> QED BY <2>3, <3>1
  <2> HIDE DEF Good
  <2> QED BY <2>1, <2>2, <2>4
<1>4. ASSUME NEW k \in Nat, k \in S PROVE k + 1 \in S
  <2>1. SUFFICES ASSUME k + 1 <= Len(list) PROVE Good(k + 1, F[k + 1])
    OBVIOUS
  <2>2. k + 1 \in 1..Len(list) /\ (k + 1) - 1 = k /\ Good(k, F[k])
    BY <1>2, <1>4, <2>1
  <2>3. PICK r : r = F[k]
    OBVIOUS
  <2>4. r \in Seq(E)
    BY <2>2, <2>3
  <2>5. PICK g \in [1..Len(r) -> 1..k] :
          /\ \A j \in 1..Len(r) : r[j] = Entry(list[g[j]]) /\ Level[list[g[j]]] = level
          /\ \A i, j \in 1..Len(r) : g[i] = g[j] => i = j
    BY <2>2, <2>3
  <2>6. CASE Level[list[k + 1]] # level
    <3>1. F[k + 1] = r
      BY <1>1, <2>2, <2>3, <2>6 DEF Picks
    <3>2. g \in [1..Len(r) -> 1..(k + 1)]
      OBVIOUS
    <3>3. Good(k + 1, r)
      BY <2>4, <2>5, <3>2
    <3> HIDE DEF Good
    <3> QED BY <3>1, <3>3
  <2>7. CASE Level[list[k + 1]] = level
    <3>1. PICK e : e = Entry(list[k + 1])
      OBVIOUS
    <3>2. e \in E
      BY <1>2, <2>2, <3>1, EntryFacts
    <3>3. F[k + 1] = Append(r, e)
      BY <1>1, <2>2, <2>3, <2>7, <3>1 DEF Picks
    <3> DEFINE t == Append(r, e)
               h == [j \in 1..(Len(r) + 1) |-> IF j = Len(r) + 1 THEN k + 1 ELSE g[j]]
    <3> HIDE DEF E
    <3>4. /\ t \in Seq(E) /\ Len(t) = Len(r) + 1 /\ Len(r) \in Nat
          /\ t[Len(r) + 1] = e /\ \A j \in 1..Len(r) : t[j] = r[j]
      BY <2>4, <3>2
    <3>5. \A j \in 1..Len(t) : j \in 1..Len(r) \/ j = Len(r) + 1
      BY <3>4
    <3>6. h[Len(r) + 1] = k + 1 /\ \A j \in 1..Len(r) : h[j] = g[j] /\ h[j] \in 1..k
      <4>1. Len(r) + 1 \in 1..(Len(r) + 1) /\ \A j \in 1..Len(r) : j \in 1..(Len(r) + 1) /\ j # Len(r) + 1
        BY <3>4
      <4>2. \A j \in 1..Len(r) : g[j] \in 1..k
        BY <2>5
      <4> QED BY <4>1, <4>2
    <3>7. h \in [1..Len(t) -> 1..(k + 1)]
      BY <2>5, <3>4
    <3> HIDE DEF t, h
    <3>8. \A j \in 1..Len(t) : t[j] = Entry(list[h[j]]) /\ Level[list[h[j]]] = level
      BY <2>5, <2>7, <3>1, <3>4, <3>5, <3>6
    <3>9. \A i, j \in 1..Len(t) : h[i] = h[j] => i = j
      BY <2>5, <3>4, <3>5, <3>6
    <3>10. Good(k + 1, t)
      BY <3>4, <3>7, <3>8, <3>9
    <3> HIDE DEF Good
    <3> QED BY <3>3, <3>10 DEF t
  <2> QED BY <2>6, <2>7
<1>5. Good(Len(list), F[Len(list)])
  <2>1. Len(list) \in S
    <3> HIDE DEF S
    <3> QED BY <1>2, <1>3, <1>4, Induction
  <2> QED BY <1>2, <2>1
<1> QED BY <1>1, <1>5 DEF Chosen

\* Every entry is at one of the levels.
LEMMA AtLevelLengths ==
  ASSUME NEW list \in Seq(Notifies)
  PROVE  /\ Len(AtLevel(Entries(list), "DISPATCH")) + Len(AtLevel(Entries(list), "CALLBACK")) = Len(list)
         /\ Len(AtLevel(Entries(list), "DISPATCH")) # 0 =>
              \E j \in 1..Len(list) : Level[list[j]] = "DISPATCH"
<1>1. PICK F : Picks(list, "DISPATCH", F) /\ AtLevel(Entries(list), "DISPATCH") = F[Len(list)]
  BY PicksExists DEF Levels
<1>2. PICK G : Picks(list, "CALLBACK", G) /\ AtLevel(Entries(list), "CALLBACK") = G[Len(list)]
  BY PicksExists DEF Levels
<1>3. Len(list) \in Nat /\ \A k \in 1..Len(list) : list[k] \in Notifies
  OBVIOUS
<1> DEFINE E == Slots(Notifies)
           Both(k, r, q) == r \in Seq(E) /\ q \in Seq(E) /\ Len(r) + Len(q) = k
           S == {k \in Nat : k <= Len(list) => Both(k, F[k], G[k])}
<1>4. 0 \in S
  <2>1. F[0] = <<>> /\ G[0] = <<>>
    BY <1>1, <1>2 DEF Picks
  <2>2. Both(0, <<>>, <<>>)
    OBVIOUS
  <2> HIDE DEF Both
  <2> QED BY <2>1, <2>2
<1>5. ASSUME NEW k \in Nat, k \in S PROVE k + 1 \in S
  <2>1. SUFFICES ASSUME k + 1 <= Len(list) PROVE Both(k + 1, F[k + 1], G[k + 1])
    <3> HIDE DEF Both
    <3> QED OBVIOUS
  <2>2. k + 1 \in 1..Len(list) /\ (k + 1) - 1 = k
    BY <1>3, <2>1
  <2>3. PICK r, q : r = F[k] /\ q = G[k]
    OBVIOUS
  <2>a. Both(k, r, q)
    <3> HIDE DEF Both
    <3> QED BY <1>3, <1>5, <2>1, <2>3
  <2>4. PICK e : e = Entry(list[k + 1])
    OBVIOUS
  <2>5. e \in E
    BY <1>3, <2>2, <2>4, EntryFacts
  <2>6. Level[list[k + 1]] \in {"CALLBACK", "DISPATCH"}
    BY <1>3, <2>2, PeiAssumption DEF Levels
  <2>7. Both(k + 1, Append(r, e), q) /\ Both(k + 1, r, Append(q, e))
    <3> HIDE DEF E
    <3> QED BY <2>5, <2>a
  <2> HIDE DEF Both
  <2>8. CASE Level[list[k + 1]] = "DISPATCH"
    <3>1. F[k + 1] = Append(r, e) /\ G[k + 1] = q
      BY <1>1, <1>2, <2>2, <2>3, <2>4, <2>8 DEF Picks
    <3> QED BY <2>7, <3>1
  <2>9. CASE Level[list[k + 1]] = "CALLBACK"
    <3>1. G[k + 1] = Append(q, e) /\ F[k + 1] = r
      BY <1>1, <1>2, <2>2, <2>3, <2>4, <2>9 DEF Picks
    <3> QED BY <2>7, <3>1
  <2> QED BY <2>6, <2>8, <2>9
<1>6. Len(F[Len(list)]) + Len(G[Len(list)]) = Len(list)
  <2>1. Len(list) \in S
    <3> HIDE DEF S
    <3> QED BY <1>3, <1>4, <1>5, Induction
  <2>2. Both(Len(list), F[Len(list)], G[Len(list)])
    <3> HIDE DEF Both
    <3> QED BY <1>3, <2>1
  <2> QED BY <2>2
<1>7. ASSUME Len(AtLevel(Entries(list), "DISPATCH")) # 0
      PROVE  \E j \in 1..Len(list) : Level[list[j]] = "DISPATCH"
  <2>1. PICK r : r = AtLevel(Entries(list), "DISPATCH")
    OBVIOUS
  <2>2. PICK g : r \in Seq(E) /\ Chosen(list, "DISPATCH", r, g)
    BY <2>1, AtLevelFacts DEF Levels
  <2>3. 1 \in 1..Len(r)
    BY <1>7, <2>1, <2>2
  <2> QED BY <2>2, <2>3 DEF Chosen
<1> QED BY <1>1, <1>2, <1>6, <1>7

-----------------------------------------------------------------------------
(* What the services do to the lists.                                      *)

PushesWalk(from, to, first, last) ==
  stack' = Append(stack, DispatchFrame("CALLBACK", from, to, first, last))

\* The first n of the list are behind the PPIs: all of them, and their notifications are
\* about to be called, or some, which are refused.
InstallEffect(list, n) ==
  /\ ppi' \in Seq(Slots(Ppis)) /\ Len(ppi') = Len(ppi) + n
  /\ Len(ppi') + Len(notify) <= MAX_PPI_DESCRIPTORS
  /\ \A i \in 1..Len(ppi) : ppi'[i] = ppi[i]
  /\ \A j \in 1..n : ppi'[Len(ppi) + j] = Entry(list[j])
  /\ refused \subseteq refused'
  /\ \/ n = Len(list) /\ refused' = refused
        /\ PushesWalk(DispatchEnd + 1, Len(notify), Len(ppi) + 1, Len(ppi'))
     \/ stack' = stack /\ \A j \in 1..n : list[j] \in refused'

\* The notifications at dispatch level are behind those that are there, more callbacks are
\* behind all others and about to be called.
NotifyEffect(list, more) ==
  /\ notify' \in Seq(Slots(Notifies)) /\ Len(notify') = Len(notify) + Len(list)
  /\ Len(ppi) + Len(notify') <= MAX_PPI_DESCRIPTORS
  /\ DispatchEnd' = DispatchEnd + more
  /\ refused' = refused
  /\ PushesWalk(Len(notify) + more + 1, Len(notify'), 1, Len(ppi))
  /\ more # 0 => \E j \in 1..Len(list) : Level[list[j]] = "DISPATCH" /\ list[j] \notin Invalid
  /\ \A k \in 1..DispatchEnd : notify'[k] = notify[k]
  /\ \A k \in (DispatchEnd + 1)..Len(notify) : notify'[k + more] = notify[k]
  /\ \A k \in (DispatchEnd + 1)..(DispatchEnd + more) :
       \E j \in 1..Len(list) : notify'[k] = Entry(list[j]) /\ Level[list[j]] = "DISPATCH"
  /\ \E g \in [1..(Len(list) - more) -> 1..Len(list)] :
       /\ \A i, j \in 1..(Len(list) - more) : g[i] = g[j] => i = j
       /\ \A j \in 1..(Len(list) - more) : /\ notify'[Len(notify) + more + j] = Entry(list[g[j]])
                                            /\ Level[list[g[j]]] = "CALLBACK"

\* The first n of a list that is refused are behind the notifications.
RefuseEffect(list, n) ==
  /\ notify' \in Seq(Slots(Notifies)) /\ Len(notify') = Len(notify) + n
  /\ Len(ppi) + Len(notify') <= MAX_PPI_DESCRIPTORS
  /\ UNCHANGED <<DispatchEnd, stack>>
  /\ \A k \in 1..Len(notify) : notify'[k] = notify[k]
  /\ \A j \in 1..n : notify'[Len(notify) + j] = Entry(list[j])
  /\ refused \subseteq refused' /\ \A j \in 1..n : list[j] \in refused'

LEMMA RoomIsNat ==
  ASSUME Types, Cursors
  PROVE  Room \in Nat /\ Len(ppi) \in Nat /\ Len(notify) \in Nat
         /\ Room = MAX_PPI_DESCRIPTORS - Len(ppi) - Len(notify)
<1>1. ppi \in Seq(Slots(Ppis)) /\ notify \in Seq(Slots(Notifies))
  BY DEF Types
<1>2. Len(ppi) \in Nat /\ Len(notify) \in Nat /\ MAX_PPI_DESCRIPTORS \in Nat
  BY <1>1, PeiAssumption
<1> QED BY <1>2 DEF Cursors, Room

\* The entries of two sequences.
Joined(st, s, t, E) ==
  /\ st \in Seq(E) /\ Len(st) = Len(s) + Len(t) /\ Len(s) \in Nat /\ Len(t) \in Nat
  /\ \A i \in 1..Len(s) : st[i] = s[i]
  /\ \A j \in 1..Len(t) : st[Len(s) + j] = t[j]

LEMMA ConcatFacts ==
  ASSUME NEW E, NEW s \in Seq(E), NEW t \in Seq(E)
  PROVE  Joined(s \o t, s, t, E)
BY DEF Joined

\* The front of a sequence.
LEMMA FrontOf ==
  ASSUME NEW D, NEW list \in Seq(D), NEW n \in 0..Len(list)
  PROVE  /\ SubSeq(list, 1, n) \in Seq(D) /\ Len(SubSeq(list, 1, n)) = n
         /\ \A j \in 1..n : SubSeq(list, 1, n)[j] = list[j]
<1>1. Len(list) \in Nat /\ \A j \in 1..Len(list) : list[j] \in D
  OBVIOUS
<1>2. PICK front : front = SubSeq(list, 1, n)
  OBVIOUS
<1>3. front = [j \in 1..n |-> front[j]] /\ \A j \in 1..n : front[j] = list[j]
  BY <1>1, <1>2
<1>4. front \in Seq(D) /\ Len(front) = n
  <2>1. \A j \in 1..n : front[j] \in D
    BY <1>1, <1>3
  <2> QED BY <1>1, <1>3, <2>1, IntervalSeq
<1> QED BY <1>2, <1>3, <1>4

\* The front of a list, as entries.
LEMMA FrontFacts ==
  ASSUME NEW D, NEW list \in Seq(D), NEW n \in 0..Len(list)
  PROVE  /\ Entries(SubSeq(list, 1, n)) \in Seq(Slots(D)) /\ Len(Entries(SubSeq(list, 1, n))) = n
         /\ \A j \in 1..n : Entries(SubSeq(list, 1, n))[j] = Entry(list[j])
<1>1. PICK front : front = SubSeq(list, 1, n)
  OBVIOUS
<1>2. front \in Seq(D) /\ Len(front) = n /\ \A j \in 1..n : front[j] = list[j]
  BY <1>1, FrontOf
<1>3. /\ Entries(front) \in Seq(Slots(D)) /\ Len(Entries(front)) = n
      /\ \A j \in 1..n : Entries(front)[j] = Entry(front[j])
  BY <1>2, EntriesFacts
<1> QED BY <1>1, <1>2, <1>3

LEMMA InstallEffects ==
  ASSUME NEW list \in Seq(Ppis), Types, Cursors, PeiInstallPpi(list)
  PROVE  \E n \in 0..Len(list) : InstallEffect(list, n)
<1>1. ppi \in Seq(Slots(Ppis)) /\ notify \in Seq(Slots(Notifies)) /\ Len(list) \in Nat
  BY DEF Types
<1>2. /\ Room \in Nat /\ Len(ppi) \in Nat /\ Len(notify) \in Nat
      /\ Room = MAX_PPI_DESCRIPTORS - Len(ppi) - Len(notify) /\ MAX_PPI_DESCRIPTORS \in Nat
  BY RoomIsNat, PeiAssumption
<1>3. CASE /\ Stops(list) = {} /\ ppi' = ppi \o Entries(list) /\ UNCHANGED refused
           /\ stack' = Append(stack, DispatchFrame("CALLBACK", DispatchEnd + 1, Len(notify),
                                                   Len(ppi) + 1, Len(ppi) + Len(list)))
  <2>1. PICK es : es = Entries(list)
    OBVIOUS
  <2>2. /\ es \in Seq(Slots(Ppis)) /\ Len(es) = Len(list)
        /\ \A k \in 1..Len(list) : es[k] = Entry(list[k])
    BY <2>1, EntriesFacts
  <2>3. /\ ppi' \in Seq(Slots(Ppis)) /\ Len(ppi') = Len(ppi) + Len(list)
        /\ \A i \in 1..Len(ppi) : ppi'[i] = ppi[i]
        /\ \A j \in 1..Len(list) : ppi'[Len(ppi) + j] = Entry(list[j])
    <3>1. ppi' = ppi \o es /\ Len(list) = Len(es)
      BY <1>3, <2>1, <2>2
    <3>2. Joined(ppi', ppi, es, Slots(Ppis))
      BY <1>1, <2>2, <3>1, ConcatFacts
    <3> QED BY <2>2, <3>1, <3>2 DEF Joined
  <2>4. Len(list) <= Room
    BY <1>2, <1>3, StopsFacts
  <2>5. InstallEffect(list, Len(list))
    BY <1>2, <1>3, <2>3, <2>4 DEF InstallEffect, PushesWalk
  <2> QED BY <1>1, <2>5
<1>4. CASE /\ OutOfResources(list) /\ ppi' = ppi \o Entries(SubSeq(list, 1, Room))
           /\ refused' = refused \cup Range(list) /\ UNCHANGED stack
  <2>1. Room < Len(list)
    BY <1>2, <1>4, StopsFacts
  <2>2. PICK n \in 0..Len(list) : n = Room
    BY <1>1, <1>2, <2>1
  <2>3. PICK es : es = Entries(SubSeq(list, 1, n))
    OBVIOUS
  <2>4. /\ es \in Seq(Slots(Ppis)) /\ Len(es) = n
        /\ \A k \in 1..n : es[k] = Entry(list[k])
    BY <2>3, FrontFacts
  <2>5. /\ ppi' \in Seq(Slots(Ppis)) /\ Len(ppi') = Len(ppi) + n
        /\ \A i \in 1..Len(ppi) : ppi'[i] = ppi[i]
        /\ \A j \in 1..n : ppi'[Len(ppi) + j] = Entry(list[j])
    <3>1. Joined(ppi', ppi, es, Slots(Ppis))
      BY <1>1, <1>4, <2>2, <2>3, <2>4, ConcatFacts
    <3> QED BY <2>4, <3>1 DEF Joined
  <2>6. \A j \in 1..n : j \in DOMAIN list
    BY <1>1
  <2>7. refused \subseteq refused' /\ \A j \in 1..n : list[j] \in refused'
    BY <1>4, <2>6 DEF Range
  <2>8. InstallEffect(list, n)
    BY <1>2, <1>4, <2>2, <2>5, <2>7 DEF InstallEffect
  <2> QED BY <2>8
<1>5. CASE InvalidParameter(list) /\ UNCHANGED <<ppi, stack, refused>>
  <2>1. InstallEffect(list, 0)
    BY <1>1, <1>2, <1>5 DEF InstallEffect
  <2> QED BY <1>1, <2>1
<1> QED BY <1>3, <1>4, <1>5 DEF PeiInstallPpi

LEMMA NotifyEffects ==
  ASSUME NEW list \in Seq(Notifies), Types, Cursors, PeiNotifyPpi(list), UNCHANGED ppi
  PROVE  \/ \E more \in 0..Len(list) : NotifyEffect(list, more)
         \/ \E n \in 0..Len(list) : RefuseEffect(list, n)
<1>1. /\ ppi \in Seq(Slots(Ppis)) /\ notify \in Seq(Slots(Notifies)) /\ Len(list) \in Nat
      /\ DispatchEnd \in 0..Len(notify)
  BY DEF Types, Cursors
<1>2. /\ Room \in Nat /\ Len(ppi) \in Nat /\ Len(notify) \in Nat
      /\ Room = MAX_PPI_DESCRIPTORS - Len(ppi) - Len(notify) /\ MAX_PPI_DESCRIPTORS \in Nat
  BY RoomIsNat, PeiAssumption
<1>3. PICK new : new = Entries(list)
  OBVIOUS
<1>4. PICK ds, cs : ds = AtLevel(new, "DISPATCH") /\ cs = AtLevel(new, "CALLBACK")
  OBVIOUS
<1>5. CASE /\ Stops(list) = {} /\ notify' = Arranged(notify, new) /\ UNCHANGED refused
           /\ DispatchEnd' = DispatchEnd + Len(ds)
           /\ stack' = Append(stack, DispatchFrame("CALLBACK", Len(notify) + Len(ds) + 1,
                                                   Len(notify) + Len(list), 1, Len(ppi)))
  <2>1. ds \in Seq(Slots(Notifies)) /\ cs \in Seq(Slots(Notifies))
    BY <1>3, <1>4, AtLevelFacts DEF Levels
  <2>2. PICK f, g : Chosen(list, "DISPATCH", ds, f) /\ Chosen(list, "CALLBACK", cs, g)
    BY <1>3, <1>4, AtLevelFacts DEF Levels
  <2>3. /\ Len(ds) + Len(cs) = Len(list) /\ Len(ds) \in Nat /\ Len(cs) \in Nat
        /\ Len(ds) # 0 => \E j \in 1..Len(list) : Level[list[j]] = "DISPATCH"
    BY <1>3, <1>4, <2>1, AtLevelLengths
  <2>4. Len(list) <= Room /\ \A k \in 1..Len(list) : list[k] \notin Invalid
    BY <1>2, <1>5, StopsFacts
  <2>5. PICK lo, hi : lo = SubSeq(notify, 1, DispatchEnd) /\ hi = SubSeq(notify, DispatchEnd + 1, Len(notify))
    OBVIOUS
  <2>6. /\ lo \in Seq(Slots(Notifies)) /\ Len(lo) = DispatchEnd
        /\ \A k \in 1..DispatchEnd : lo[k] = notify[k]
    BY <1>1, <2>5
  <2>7. /\ hi \in Seq(Slots(Notifies)) /\ Len(hi) = Len(notify) - DispatchEnd
        /\ \A k \in 1..(Len(notify) - DispatchEnd) : hi[k] = notify[DispatchEnd + k]
    BY <1>1, <2>5
  <2>8. PICK a : a = lo \o ds
    OBVIOUS
  <2>9. PICK b : b = a \o hi
    OBVIOUS
  <2>10. notify' = b \o cs
    BY <1>4, <1>5, <2>5, <2>8, <2>9 DEF Arranged
  <2>11. /\ a \in Seq(Slots(Notifies)) /\ Len(a) = DispatchEnd + Len(ds)
         /\ \A k \in 1..DispatchEnd : a[k] = lo[k]
         /\ \A k \in 1..Len(ds) : a[DispatchEnd + k] = ds[k]
    <3>1. Joined(a, lo, ds, Slots(Notifies))
      BY <2>1, <2>6, <2>8, ConcatFacts
    <3> QED BY <2>6, <3>1 DEF Joined
  <2>12. /\ b \in Seq(Slots(Notifies)) /\ Len(b) = Len(notify) + Len(ds)
         /\ \A k \in 1..(DispatchEnd + Len(ds)) : b[k] = a[k]
         /\ \A k \in 1..(Len(notify) - DispatchEnd) : b[DispatchEnd + Len(ds) + k] = hi[k]
    <3>1. Joined(b, a, hi, Slots(Notifies))
      BY <2>7, <2>9, <2>11, ConcatFacts
    <3>2. DispatchEnd + Len(ds) + (Len(notify) - DispatchEnd) = Len(notify) + Len(ds)
      BY <1>1, <1>2, <2>3
    <3> QED BY <2>7, <2>11, <3>1, <3>2 DEF Joined
  <2>13. /\ notify' \in Seq(Slots(Notifies)) /\ Len(notify') = Len(notify) + Len(list)
         /\ \A k \in 1..(Len(notify) + Len(ds)) : notify'[k] = b[k]
         /\ \A k \in 1..Len(cs) : notify'[Len(notify) + Len(ds) + k] = cs[k]
    <3>1. Joined(notify', b, cs, Slots(Notifies))
      BY <2>1, <2>10, <2>12, ConcatFacts
    <3>2. Len(notify) + Len(ds) + Len(cs) = Len(notify) + Len(list)
      BY <1>1, <1>2, <2>3
    <3> QED BY <2>12, <3>1, <3>2 DEF Joined
  <2>14. PICK more : more = Len(ds)
    OBVIOUS
  <2>15. more \in 0..Len(list) /\ more \in Nat /\ Len(list) - more = Len(cs) /\ Len(cs) \in Nat
    BY <1>1, <2>3, <2>14
  <2>16. \A k \in 1..DispatchEnd : notify'[k] = notify[k]
    <3> TAKE k \in 1..DispatchEnd
    <3>1. k \in 1..(DispatchEnd + Len(ds)) /\ k \in 1..(Len(notify) + Len(ds))
      BY <1>1, <1>2, <2>3
    <3> QED BY <2>6, <2>11, <2>12, <2>13, <3>1
  <2>17. \A k \in (DispatchEnd + 1)..Len(notify) : notify'[k + more] = notify[k]
    <3> TAKE k \in (DispatchEnd + 1)..Len(notify)
    <3>1. PICK j \in 1..(Len(notify) - DispatchEnd) : k = DispatchEnd + j
      <4>1. k - DispatchEnd \in 1..(Len(notify) - DispatchEnd) /\ k = DispatchEnd + (k - DispatchEnd)
        BY <1>1, <1>2
      <4> QED BY <4>1
    <3>2. k + more = DispatchEnd + Len(ds) + j /\ k + more \in 1..(Len(notify) + Len(ds))
      BY <1>1, <1>2, <2>3, <2>14, <3>1
    <3> QED BY <2>7, <2>12, <2>13, <3>1, <3>2
  <2>18. \A k \in (DispatchEnd + 1)..(DispatchEnd + more) :
           \E j \in 1..Len(list) : notify'[k] = Entry(list[j]) /\ Level[list[j]] = "DISPATCH"
    <3> TAKE k \in (DispatchEnd + 1)..(DispatchEnd + more)
    <3>1. PICK i \in 1..Len(ds) : k = DispatchEnd + i
      <4>1. k - DispatchEnd \in 1..Len(ds) /\ k = DispatchEnd + (k - DispatchEnd)
        BY <1>1, <1>2, <2>14, <2>15
      <4> QED BY <4>1
    <3>2. k \in 1..(DispatchEnd + Len(ds)) /\ k \in 1..(Len(notify) + Len(ds))
      BY <1>1, <1>2, <2>3, <3>1
    <3>3. notify'[k] = ds[i]
      BY <2>11, <2>12, <2>13, <3>1, <3>2
    <3>4. f[i] \in 1..Len(list) /\ ds[i] = Entry(list[f[i]]) /\ Level[list[f[i]]] = "DISPATCH"
      BY <2>2, <3>1 DEF Chosen
    <3> QED BY <3>3, <3>4
  <2>19. /\ g \in [1..(Len(list) - more) -> 1..Len(list)]
         /\ \A i, j \in 1..(Len(list) - more) : g[i] = g[j] => i = j
         /\ \A j \in 1..(Len(list) - more) : /\ notify'[Len(notify) + more + j] = Entry(list[g[j]])
                                              /\ Level[list[g[j]]] = "CALLBACK"
    BY <2>2, <2>13, <2>14, <2>15 DEF Chosen
  <2>20. Len(ppi) + Len(notify') <= MAX_PPI_DESCRIPTORS
    BY <1>1, <1>2, <2>4, <2>13
  <2>21. more # 0 => \E j \in 1..Len(list) : Level[list[j]] = "DISPATCH" /\ list[j] \notin Invalid
    BY <2>3, <2>4, <2>14
  <2>22. PushesWalk(Len(notify) + more + 1, Len(notify'), 1, Len(ppi))
    BY <1>5, <2>13, <2>14 DEF PushesWalk
  <2>23. DispatchEnd' = DispatchEnd + more /\ refused' = refused
    BY <1>5, <2>14
  <2>24. NotifyEffect(list, more)
    BY <2>13, <2>16, <2>17, <2>18, <2>19, <2>20, <2>21, <2>22, <2>23 DEF NotifyEffect
  <2> QED BY <2>15, <2>24
<1>6. CASE /\ OutOfResources(list) /\ notify' = notify \o Entries(SubSeq(list, 1, Room))
           /\ refused' = refused \cup Range(list) /\ UNCHANGED <<DispatchEnd, stack>>
  <2>1. Room < Len(list)
    BY <1>2, <1>6, StopsFacts
  <2>2. PICK n \in 0..Len(list) : n = Room
    BY <1>1, <1>2, <2>1
  <2>3. PICK es : es = Entries(SubSeq(list, 1, n))
    OBVIOUS
  <2>4. /\ es \in Seq(Slots(Notifies)) /\ Len(es) = n
        /\ \A k \in 1..n : es[k] = Entry(list[k])
    BY <2>3, FrontFacts
  <2>5. /\ notify' \in Seq(Slots(Notifies)) /\ Len(notify') = Len(notify) + n
        /\ \A i \in 1..Len(notify) : notify'[i] = notify[i]
        /\ \A j \in 1..n : notify'[Len(notify) + j] = Entry(list[j])
    <3>1. Joined(notify', notify, es, Slots(Notifies))
      BY <1>1, <1>6, <2>2, <2>3, <2>4, ConcatFacts
    <3> QED BY <2>4, <3>1 DEF Joined
  <2>6. \A j \in 1..n : j \in DOMAIN list
    BY <1>1
  <2>7. refused \subseteq refused' /\ \A j \in 1..n : list[j] \in refused'
    BY <1>6, <2>6 DEF Range
  <2>8. RefuseEffect(list, n)
    <3>1. Len(ppi) + Len(notify') <= MAX_PPI_DESCRIPTORS
      BY <1>1, <1>2, <2>2, <2>5
    <3>2. UNCHANGED <<DispatchEnd, stack>>
      BY <1>6
    <3> QED BY <2>5, <2>7, <3>1, <3>2 DEF RefuseEffect
  <2> QED BY <2>8
<1>7. CASE InvalidParameter(list) /\ UNCHANGED <<notify, DispatchEnd, stack, refused>>
  <2>1. RefuseEffect(list, 0)
    BY <1>1, <1>2, <1>7 DEF RefuseEffect
  <2> QED BY <1>1, <2>1
<1> QED BY <1>3, <1>4, <1>5, <1>6, <1>7 DEF PeiNotifyPpi

-----------------------------------------------------------------------------
(* What DispatchNotify does to the stack.                                  *)

LEMMA FrameFields ==
  ASSUME NEW f \in Frames
  PROVE  /\ f.level \in Levels /\ f.pc \in {"dispatch", "function"}
         /\ f.pc = "dispatch" => f \in DispatchFrames
         /\ f.pc = "dispatch" => /\ f.k \in Nat /\ f.to \in Nat /\ f.i \in Nat
                                 /\ f.first \in Nat /\ f.last \in Nat
                                 /\ f.n \in Notifies \cup {NULL}
BY DEF Frames, DispatchFrames, CallFrames

LEMMA FrameIsFrame ==
  /\ \A level \in Levels : \A from \in Nat \ {0} : \A to, first, last \in Nat :
        DispatchFrame(level, from, to, first, last) \in Frames
  /\ \A level \in Levels : CallFrame(level) \in Frames /\ CallFrame(level).pc = "function"
                             /\ CallFrame(level).level = level
BY DEF Frames, DispatchFrames, CallFrames, DispatchFrame, CallFrame

\* The stack has one more frame, and those below are what they were.
PushedFrame(f) ==
  /\ stack' \in Seq(Frames) /\ Len(stack') = Len(stack) + 1 /\ Len(stack) \in Nat
  /\ \A m \in 1..Len(stack) : stack'[m] = stack[m]
  /\ stack'[Len(stack) + 1] = f

LEMMA PushFacts ==
  ASSUME stack \in Seq(Frames), NEW f \in Frames, stack' = Append(stack, f)
  PROVE  PushedFrame(f)
BY DEF PushedFrame

LEMMA BelowFacts ==
  ASSUME stack \in Seq(Frames), stack # <<>>
  PROVE  /\ Len(stack) \in Nat \ {0} /\ Top \in Frames /\ Top = stack[Len(stack)]
         /\ Below \in Seq(Frames) /\ Len(Below) = Len(stack) - 1
         /\ \A m \in 1..(Len(stack) - 1) : Below[m] = stack[m]
<1>1. Len(stack) \in Nat \ {0} /\ \A m \in 1..Len(stack) : stack[m] \in Frames
  OBVIOUS
<1>2. PICK b : b = Below
  OBVIOUS
<1>3. b \in Seq(Frames) /\ Len(b) = Len(stack) - 1 /\ \A m \in 1..(Len(stack) - 1) : b[m] = stack[m]
  <2>a. Len(stack) - 1 \in 0..Len(stack)
    BY <1>1
  <2>1. PICK n \in 0..Len(stack) : n = Len(stack) - 1
    BY <2>a
  <2>2. b = SubSeq(stack, 1, n)
    BY <1>2, <2>1 DEF Below
  <2>3. b \in Seq(Frames) /\ Len(b) = n /\ \A m \in 1..n : b[m] = stack[m]
    BY <2>2, FrontOf
  <2> QED BY <2>1, <2>3
<1> QED BY <1>1, <1>2, <1>3 DEF Top

\* The frames below the top one stay, and the stack ends with the frame f.
TopBecomes(f) ==
  /\ stack' \in Seq(Frames) /\ Len(stack) \in Nat \ {0}
  /\ \A m \in 1..(Len(stack) - 1) : stack'[m] = stack[m]
  /\ stack'[Len(stack)] = f

Popped ==
  /\ stack' \in Seq(Frames) /\ Len(stack) \in Nat \ {0} /\ Len(stack') = Len(stack) - 1
  /\ \A m \in 1..(Len(stack) - 1) : stack'[m] = stack[m]

\* The top frame is at notification f.n, which is for PPI i and for none before it.
CallEffect(f, i) ==
  /\ stack # <<>> /\ f = stack[Len(stack)] /\ f \in Frames /\ f.pc = "dispatch"
  /\ f.n # NULL /\ i \in Nat /\ f.i <= i /\ i <= f.last /\ Guid[ppi[i].d] = Guid[f.n]
  /\ \A j \in Nat : f.i <= j /\ j < i => Guid[ppi[j].d] # Guid[f.n]
  /\ TopBecomes([f EXCEPT !.i = i + 1])
  /\ \/ Len(stack') = Len(stack)
     \/ Len(stack') = Len(stack) + 1 /\ stack'[Len(stack) + 1] = CallFrame(f.level)
  /\ told' = [told EXCEPT ![<<f.n, ppi[i].d>>] = @ + 1]

NextEffect(f) ==
  /\ stack # <<>> /\ f = stack[Len(stack)] /\ f \in Frames /\ f.pc = "dispatch"
  /\ f.n # NULL => \A j \in Nat : f.i <= j /\ j <= f.last => Guid[ppi[j].d] # Guid[f.n]
  /\ \/ /\ f.k < f.to
        /\ TopBecomes([f EXCEPT !.k = f.k + 1, !.i = f.first, !.n = notify[f.k + 1].d])
        /\ Len(stack') = Len(stack)
     \/ f.k >= f.to /\ Popped

\* The frame of a walk after a step of it.
LEMMA WalkedFrame ==
  ASSUME NEW f \in DispatchFrames, NEW i \in Nat, NEW n \in Notifies, NEW k \in Nat
  PROVE  /\ [f EXCEPT !.i = i] \in Frames /\ [f EXCEPT !.k = k, !.i = i, !.n = n] \in Frames
         /\ LET g == [f EXCEPT !.i = i] IN
              /\ g.pc = f.pc /\ g.level = f.level /\ g.k = f.k /\ g.to = f.to /\ g.n = f.n
              /\ g.i = i /\ g.first = f.first /\ g.last = f.last
         /\ LET g == [f EXCEPT !.k = k, !.i = i, !.n = n] IN
              /\ g.pc = f.pc /\ g.level = f.level /\ g.k = k /\ g.to = f.to /\ g.n = n
              /\ g.i = i /\ g.first = f.first /\ g.last = f.last
BY DEF Frames, DispatchFrames

LEMMA NotifyFunctionEffects ==
  ASSUME Types, NotifyFunction
  PROVE  \E f, i : CallEffect(f, i)
<1>1. stack \in Seq(Frames) /\ stack # <<>> /\ Top.pc = "dispatch"
  BY DEF Types, NotifyFunction
<1>2. PICK i \in Matches(Top) :
        /\ \A j \in Matches(Top) : i <= j
        /\ stack' = Below \o <<[Top EXCEPT !.i = i + 1]>>
                     \o IF Top.n = SecurityNotify THEN <<>> ELSE <<CallFrame(Top.level)>>
        /\ told' = [told EXCEPT ![<<Top.n, ppi[i].d>>] = @ + 1]
  BY DEF NotifyFunction
<1>3. PICK f, b : f = Top /\ b = Below
  OBVIOUS
<1>4. /\ Len(stack) \in Nat \ {0} /\ f \in Frames /\ f = stack[Len(stack)]
      /\ b \in Seq(Frames) /\ Len(b) = Len(stack) - 1
      /\ \A m \in 1..(Len(stack) - 1) : b[m] = stack[m]
  BY <1>1, <1>3, BelowFacts
<1>5. /\ f.i \in Nat /\ f.last \in Nat /\ f \in DispatchFrames /\ f.level \in Levels
      /\ f.n \in Notifies \cup {NULL}
  BY <1>1, <1>3, <1>4, FrameFields
<1>6. i \in f.i..f.last /\ f.n # NULL /\ Guid[ppi[i].d] = Guid[f.n] /\ i \in Nat /\ i + 1 \in Nat
  BY <1>3, <1>5 DEF Matches
<1>7. \A j \in Nat : f.i <= j /\ j < i => Guid[ppi[j].d] # Guid[f.n]
  <2> TAKE j \in Nat
  <2>1. SUFFICES ASSUME f.i <= j, j < i, Guid[ppi[j].d] = Guid[f.n] PROVE FALSE
    OBVIOUS
  <2>2. j \in f.i..f.last
    BY <1>5, <1>6, <2>1
  <2>3. j \in Matches(Top)
    BY <1>3, <1>6, <2>1, <2>2 DEF Matches
  <2>4. i <= j
    BY <1>2, <2>3
  <2> QED BY <1>6, <2>1, <2>4
<1>8. PICK g, c : g = [f EXCEPT !.i = i + 1] /\ c = CallFrame(f.level)
  OBVIOUS
<1>9. g \in Frames /\ c \in Frames
  <2>1. f.n \in Notifies
    BY <1>5, <1>6
  <2> QED BY <1>5, <1>6, <1>8, <2>1, WalkedFrame, FrameIsFrame
<1>10. stack' = (b \o <<g>>) \o IF f.n = SecurityNotify THEN <<>> ELSE <<c>>
  BY <1>2, <1>3, <1>8
<1>11. stack' \in Seq(Frames) /\ (\A m \in 1..(Len(stack) - 1) : stack'[m] = stack[m])
       /\ stack'[Len(stack)] = g
       /\ \/ Len(stack') = Len(stack)
          \/ Len(stack') = Len(stack) + 1 /\ stack'[Len(stack) + 1] = c
  <2>1. PICK s : s = Append(b, g)
    OBVIOUS
  <2>2. /\ s \in Seq(Frames) /\ Len(s) = Len(stack) /\ s[Len(stack)] = g
        /\ \A m \in 1..(Len(stack) - 1) : s[m] = stack[m]
    BY <1>4, <1>9, <2>1
  <2>3. b \o <<g>> = s
    BY <1>4, <1>9, <2>1
  <2>4. CASE f.n = SecurityNotify
    <3>1. stack' = s
      BY <1>10, <2>2, <2>3, <2>4
    <3> QED BY <2>2, <3>1
  <2>5. CASE f.n # SecurityNotify
    <3>a. stack' = s \o <<c>>
      BY <1>10, <2>3, <2>5
    <3>1. stack' = Append(s, c)
      BY <1>9, <2>2, <3>a
    <3> QED BY <1>4, <1>9, <2>2, <3>1
  <2> QED BY <2>4, <2>5
<1>12. TopBecomes([f EXCEPT !.i = i + 1])
  BY <1>4, <1>8, <1>11 DEF TopBecomes
<1>13. f.pc = "dispatch" /\ f.i <= i /\ i <= f.last
  BY <1>1, <1>3, <1>5, <1>6
<1> QED BY <1>1, <1>2, <1>3, <1>4, <1>6, <1>7, <1>8, <1>11, <1>12, <1>13 DEF CallEffect

LEMMA NextNotifyEffects ==
  ASSUME Types, NextNotify, Bounded
  PROVE  NextEffect(stack[Len(stack)])
<1>1. stack \in Seq(Frames) /\ stack # <<>> /\ Top.pc = "dispatch" /\ Matches(Top) = {}
  BY DEF Types, NextNotify
<1>2. PICK f : f = Top
  OBVIOUS
<1>3. /\ Len(stack) \in Nat \ {0} /\ f \in Frames /\ f = stack[Len(stack)]
      /\ Below \in Seq(Frames) /\ Len(Below) = Len(stack) - 1
      /\ \A m \in 1..(Len(stack) - 1) : Below[m] = stack[m]
  BY <1>1, <1>2, BelowFacts
<1>4. /\ f.i \in Nat /\ f.last \in Nat /\ f.k \in Nat /\ f.to \in Nat /\ f.first \in Nat
      /\ f \in DispatchFrames
  BY <1>1, <1>2, <1>3, FrameFields
<1>5. f.n # NULL => \A j \in Nat : f.i <= j /\ j <= f.last => Guid[ppi[j].d] # Guid[f.n]
  <2>1. SUFFICES ASSUME f.n # NULL, NEW j \in Nat, f.i <= j, j <= f.last, Guid[ppi[j].d] = Guid[f.n]
                 PROVE  FALSE
    OBVIOUS
  <2>2. j \in f.i..f.last
    BY <1>4, <2>1
  <2>3. j \in Matches(Top)
    BY <1>2, <2>1, <2>2 DEF Matches
  <2> QED BY <1>1, <2>3
<1>6. CASE f.k < f.to
  <2>1. PICK g : g = [f EXCEPT !.k = f.k + 1, !.i = f.first, !.n = notify[f.k + 1].d]
    OBVIOUS
  <2>2. stack' = Append(Below, g)
    BY <1>2, <1>6, <2>1 DEF NextNotify
  <2>3. f.k + 1 \in 1..Len(notify) /\ notify \in Seq(Slots(Notifies))
    <3>1. Len(stack) \in 1..Len(stack)
      BY <1>3
    <3>2. f.to <= Len(notify)
      BY <1>1, <1>2, <1>3, <3>1 DEF Bounded
    <3>3. notify \in Seq(Slots(Notifies)) /\ Len(notify) \in Nat
      BY DEF Types
    <3> QED BY <1>4, <1>6, <3>2, <3>3
  <2>4. notify[f.k + 1].d \in Notifies
    <3>1. notify[f.k + 1] \in Slots(Notifies)
      BY <2>3
    <3> QED BY <3>1 DEF Slots
  <2>5. g \in Frames
    <3>1. PICK k \in Nat, i \in Nat, n \in Notifies : k = f.k + 1 /\ i = f.first /\ n = notify[f.k + 1].d
      BY <1>4, <2>4
    <3>2. g = [f EXCEPT !.k = k, !.i = i, !.n = n]
      BY <2>1, <3>1
    <3> QED BY <1>4, <3>2, WalkedFrame
  <2>6. TopBecomes(g) /\ Len(stack') = Len(stack)
    BY <1>3, <2>2, <2>5 DEF TopBecomes
  <2> QED BY <1>1, <1>2, <1>3, <1>5, <1>6, <2>1, <2>6 DEF NextEffect
<1>7. CASE ~(f.k < f.to)
  <2>1. stack' = Below
    BY <1>2, <1>7 DEF NextNotify
  <2>2. Popped
    BY <1>3, <2>1 DEF Popped
  <2>3. f.k >= f.to
    BY <1>4, <1>7
  <2> QED BY <1>1, <1>2, <1>3, <1>5, <2>2, <2>3 DEF NextEffect
<1> QED BY <1>6, <1>7

LEMMA FunctionReturnsEffects ==
  ASSUME Types, FunctionReturns
  PROVE  Popped /\ stack[Len(stack)].pc = "function"
<1>1. stack \in Seq(Frames) /\ stack # <<>> /\ Top.pc = "function" /\ stack' = Below
  BY DEF Types, FunctionReturns
<1> QED BY <1>1, BelowFacts DEF Popped

-----------------------------------------------------------------------------
(* TYPES.                                                                  *)

LEMMA InitTypes == Init => TypeInv
<1> SUFFICES ASSUME Init PROVE TypeInv
  OBVIOUS
<1>1. /\ DispatchTable \in Seq(Ppis) /\ Len(DispatchTable) \in Nat /\ Len(DispatchTable) < MAX_PPI_DESCRIPTORS
      /\ MAX_PPI_DESCRIPTORS \in Nat /\ SecurityNotify \in Notifies
  BY PeiAssumption
<1>2. /\ ppi = [k \in 1..Len(DispatchTable) |-> ppi[k]]
      /\ \A k \in 1..Len(DispatchTable) : ppi[k] = [d |-> DispatchTable[k], at |-> "rom"]
  BY DEF Init
<1>3. \A k \in 1..Len(DispatchTable) : ppi[k] \in Slots(Ppis) /\ ppi[k].at = "rom"
  <2> TAKE k \in 1..Len(DispatchTable)
  <2>1. DispatchTable[k] \in Ppis
    BY <1>1
  <2> QED BY <1>2, <2>1 DEF Slots
<1>4. ppi \in Seq(Slots(Ppis)) /\ Len(ppi) = Len(DispatchTable)
  BY <1>1, <1>2, <1>3, IntervalSeq
<1>5. PICK e : e = [d |-> SecurityNotify, at |-> "rom"]
  OBVIOUS
<1>6. e \in Slots(Notifies) /\ notify = <<e>>
  BY <1>1, <1>5 DEF Slots, Init
<1>7. notify \in Seq(Slots(Notifies)) /\ Len(notify) = 1
  BY <1>6
<1>8. told \in [Notifies \X Ppis -> Nat] /\ stack \in Seq(Frames)
  BY DEF Init
<1>9. Types
  BY <1>4, <1>7, <1>8 DEF Types, Init, Pcs
<1>10. Cursors
  BY <1>1, <1>4, <1>7 DEF Cursors, Init
<1> QED BY <1>9, <1>10 DEF TypeInv, Stacked, Moved, Bounded, Init

\* A list that is passed.
LEMMA ListTypes ==
  /\ \A list \in InstallLists : list \in Seq(Ppis)
  /\ \A list \in NotifyLists : list \in Seq(Notifies)
  /\ <<MemoryDiscovered>> \in Seq(Ppis)
BY PeiAssumption

LEMMA PushKeepsBounded ==
  ASSUME Bounded, NEW f, PushedFrame(f), f.pc = "dispatch" => f.to <= Len(notify'),
         Len(notify) \in Nat, Len(notify') \in Nat, Len(notify) <= Len(notify'), stack \in Seq(Frames)
  PROVE  Bounded'
<1>1. SUFFICES ASSUME NEW m \in 1..Len(stack'), stack'[m].pc = "dispatch" PROVE stack'[m].to <= Len(notify')
  BY DEF Bounded
<1>2. m \in 1..Len(stack) \/ m = Len(stack) + 1
  BY DEF PushedFrame
<1>3. CASE m \in 1..Len(stack)
  <2>1. stack'[m] = stack[m] /\ stack[m] \in Frames
    BY <1>3 DEF PushedFrame
  <2>2. stack[m].to <= Len(notify) /\ stack[m].to \in Nat
    BY <1>1, <1>3, <2>1, FrameFields DEF Bounded
  <2> QED BY <2>1, <2>2
<1>4. CASE m = Len(stack) + 1
  BY <1>1, <1>4 DEF PushedFrame
<1> QED BY <1>2, <1>3, <1>4

LEMMA DispatchFrameFields ==
  ASSUME NEW level, NEW from, NEW to, NEW first, NEW last, NEW f,
         f = DispatchFrame(level, from, to, first, last)
  PROVE  /\ f.pc = "dispatch" /\ f.level = level /\ f.k = from - 1 /\ f.to = to /\ f.n = NULL
         /\ f.i = last + 1 /\ f.first = first /\ f.last = last
BY DEF DispatchFrame

LEMMA SameStackKeepsBounded ==
  ASSUME Bounded, UNCHANGED stack, Len(notify) \in Nat, Len(notify') \in Nat, Len(notify) <= Len(notify'),
         stack \in Seq(Frames)
  PROVE  Bounded'
<1>1. SUFFICES ASSUME NEW m \in 1..Len(stack), stack[m].pc = "dispatch" PROVE stack[m].to <= Len(notify')
  BY DEF Bounded
<1>2. stack[m] \in Frames
  OBVIOUS
<1>3. stack[m].to <= Len(notify) /\ stack[m].to \in Nat
  BY <1>1, <1>2, FrameFields DEF Bounded
<1> QED BY <1>3

\* What a service that installs keeps to: the dispatcher's own place may change with it.
LEMMA InstallKeepsTypes ==
  ASSUME TypeInv, NEW list \in Seq(Ppis), PeiInstallPpi(list),
         UNCHANGED <<notify, DispatchEnd, done, TempValue, FindFv, PeiMemoryInstalled, told>>,
         SwitchStackSignal' \in BOOLEAN,
         (pc' = pc /\ pc \in {"peim", "search", "notified", "installed"}) \/ pc' = "search"
  PROVE  TypeInv'
<1>1. /\ Types /\ Cursors /\ Len(list) \in Nat /\ ppi \in Seq(Slots(Ppis)) /\ notify \in Seq(Slots(Notifies))
      /\ Len(ppi) \in Nat /\ Len(notify) \in Nat /\ DispatchEnd \in Nat
      /\ stack \in Seq(Frames)
  BY DEF TypeInv, Types
<1>2. PICK n \in 0..Len(list) : InstallEffect(list, n)
  BY <1>1, InstallEffects
<1>3. n \in Nat /\ ppi' \in Seq(Slots(Ppis)) /\ Len(ppi') = Len(ppi) + n
  BY <1>1, <1>2 DEF InstallEffect
<1>4. stack' \in Seq(Frames) /\ Bounded'
  <2>1. CASE stack' = stack
    BY <1>1, <2>1, SameStackKeepsBounded DEF TypeInv
  <2>2. CASE PushesWalk(DispatchEnd + 1, Len(notify), Len(ppi) + 1, Len(ppi'))
    <3>1. PICK f : f = DispatchFrame("CALLBACK", DispatchEnd + 1, Len(notify), Len(ppi) + 1, Len(ppi'))
      OBVIOUS
    <3>2. f \in Frames
      BY <1>1, <1>3, <3>1, FrameIsFrame DEF Levels
    <3>3. stack' = Append(stack, f)
      BY <2>2, <3>1 DEF PushesWalk
    <3>4. PushedFrame(f)
      BY <1>1, <3>2, <3>3, PushFacts
    <3>5. f.to <= Len(notify')
      BY <1>1, <3>1, DispatchFrameFields
    <3> QED BY <1>1, <3>4, <3>5, PushKeepsBounded DEF TypeInv, PushedFrame
  <2> QED BY <1>2, <2>1, <2>2 DEF InstallEffect
<1>5. Types'
  BY <1>1, <1>3, <1>4 DEF Types, done, Pcs
<1>6. Cursors'
  BY <1>1, <1>2, <1>3 DEF Cursors, InstallEffect, done, Types
<1>7. Moved'
  <2>1. SUFFICES ASSUME PeiMemoryInstalled PROVE \A k \in 1..Len(ppi') : ppi'[k].at # "car"
    BY DEF TypeInv, Moved
  <2>2. \A k \in 1..Len(ppi) : ppi'[k].at # "car"
    BY <1>2, <2>1 DEF TypeInv, Moved, InstallEffect
  <2>3. \A j \in 1..n : list[j] \in Ppis /\ ppi'[Len(ppi) + j] = Entry(list[j])
    BY <1>2 DEF InstallEffect
  <2>4. \A j \in 1..n : ppi'[Len(ppi) + j].at # "car"
    BY <2>1, <2>3, EntryFacts
  <2> TAKE k \in 1..Len(ppi')
  <2>5. k \in 1..Len(ppi) \/ (k - Len(ppi) \in 1..n /\ k = Len(ppi) + (k - Len(ppi)))
    BY <1>1, <1>3
  <2> QED BY <2>2, <2>4, <2>5
<1> QED BY <1>4, <1>5, <1>6, <1>7 DEF TypeInv, Stacked

LEMMA NotifyKeepsTypes ==
  ASSUME TypeInv, NEW list \in NotifyLists, NotifyPpi(list)
  PROVE  TypeInv'
<1>1. /\ Types /\ Cursors /\ Len(list) \in Nat /\ ppi \in Seq(Slots(Ppis)) /\ notify \in Seq(Slots(Notifies))
      /\ Len(ppi) \in Nat /\ Len(notify) \in Nat /\ DispatchEnd \in 0..Len(notify)
      /\ stack \in Seq(Frames) /\ list \in Seq(Notifies)
  <2>1. list \in Seq(Notifies)
    BY ListTypes
  <2> QED BY <2>1 DEF TypeInv, Types, Cursors
<1>2. /\ PeiNotifyPpi(list) /\ Running
      /\ UNCHANGED <<ppi, done, search, Bitmap, memory, pc, TempValue, replaced, told>>
  BY DEF NotifyPpi, Passes
<1>a. /\ UNCHANGED <<ppi, LastInstall, LastNotify, FindFv, PeiMemoryInstalled, SwitchStackSignal, pc, TempValue, told>>
      /\ pc \in {"peim", "search", "notified", "installed"}
  BY <1>2 DEF done, search, memory, Running, TypeInv, Stacked
<1>3. /\ notify' \in Seq(Slots(Notifies)) /\ Len(notify') >= Len(notify)
      /\ Len(ppi) + Len(notify') <= MAX_PPI_DESCRIPTORS
      /\ stack' \in Seq(Frames) /\ Bounded'
      /\ DispatchEnd' \in Nat /\ DispatchEnd' >= DispatchEnd /\ DispatchEnd' <= Len(notify')
      /\ PeiMemoryInstalled => \A k \in 1..Len(notify') : notify'[k].at # "car"
  <2>1. CASE \E more \in 0..Len(list) : NotifyEffect(list, more)
    <3>1. PICK more \in 0..Len(list) : NotifyEffect(list, more)
      BY <2>1
    <3>2. /\ notify' \in Seq(Slots(Notifies)) /\ Len(notify') = Len(notify) + Len(list)
          /\ Len(ppi) + Len(notify') <= MAX_PPI_DESCRIPTORS /\ DispatchEnd' = DispatchEnd + more
          /\ PushesWalk(Len(notify) + more + 1, Len(notify'), 1, Len(ppi))
      BY <3>1 DEF NotifyEffect
    <3>3. more \in Nat /\ more <= Len(list) /\ Len(notify') \in Nat
      BY <1>1, <3>1, <3>2
    <3>4. stack' \in Seq(Frames) /\ Bounded'
      <4>1. PICK f : f = DispatchFrame("CALLBACK", Len(notify) + more + 1, Len(notify'), 1, Len(ppi))
        OBVIOUS
      <4>2. f \in Frames
        BY <1>1, <3>3, <4>1, FrameIsFrame DEF Levels
      <4>3. stack' = Append(stack, f)
        BY <3>2, <4>1 DEF PushesWalk
      <4>4. PushedFrame(f)
        BY <1>1, <4>2, <4>3, PushFacts
      <4>5. f.to <= Len(notify') /\ Len(notify) <= Len(notify')
        BY <1>1, <3>2, <3>3, <4>1, DispatchFrameFields
      <4> QED BY <1>1, <3>3, <4>4, <4>5, PushKeepsBounded DEF TypeInv, PushedFrame
    <3>5. PeiMemoryInstalled => \A k \in 1..Len(notify') : notify'[k].at # "car"
      <4>1. SUFFICES ASSUME PeiMemoryInstalled, NEW k \in 1..Len(notify') PROVE notify'[k].at # "car"
        OBVIOUS
      <4>2. \A i \in 1..Len(notify) : notify[i].at # "car"
        BY <4>1 DEF TypeInv, Moved
      <4>3. \A j \in 1..Len(list) : Entry(list[j]).at # "car"
        BY <1>1, <4>1, EntryFacts
      <4>4. CASE k \in 1..DispatchEnd
        <5>1. notify'[k] = notify[k]
          BY <3>1, <4>4 DEF NotifyEffect
        <5>2. k \in 1..Len(notify)
          BY <1>1, <4>4
        <5> QED BY <4>2, <5>1, <5>2
      <4>5. CASE k \in (DispatchEnd + 1)..(DispatchEnd + more)
        BY <3>1, <4>3, <4>5 DEF NotifyEffect
      <4>6. CASE k \in (DispatchEnd + more + 1)..(Len(notify) + more)
        <5>1. k - more \in (DispatchEnd + 1)..Len(notify) /\ (k - more) + more = k
              /\ k - more \in 1..Len(notify)
          BY <1>1, <3>3, <4>6
        <5>2. notify'[k] = notify[k - more]
          BY <3>1, <5>1 DEF NotifyEffect
        <5> QED BY <4>2, <5>1, <5>2
      <4>7. CASE k \in (Len(notify) + more + 1)..Len(notify')
        <5>1. k - Len(notify) - more \in 1..(Len(list) - more)
              /\ Len(notify) + more + (k - Len(notify) - more) = k
          BY <1>1, <3>2, <3>3, <4>7
        <5>2. PICK g \in [1..(Len(list) - more) -> 1..Len(list)] :
                \A j \in 1..(Len(list) - more) : notify'[Len(notify) + more + j] = Entry(list[g[j]])
          BY <3>1 DEF NotifyEffect
        <5> QED BY <4>3, <5>1, <5>2
      <4> QED BY <1>1, <3>2, <3>3, <4>4, <4>5, <4>6, <4>7
    <3> QED BY <1>1, <3>2, <3>3, <3>4, <3>5
  <2>2. CASE \E n \in 0..Len(list) : RefuseEffect(list, n)
    <3>1. PICK n \in 0..Len(list) : RefuseEffect(list, n)
      BY <2>2
    <3>2. /\ notify' \in Seq(Slots(Notifies)) /\ Len(notify') = Len(notify) + n
          /\ Len(ppi) + Len(notify') <= MAX_PPI_DESCRIPTORS /\ DispatchEnd' = DispatchEnd /\ stack' = stack
      BY <3>1 DEF RefuseEffect
    <3>3. n \in Nat /\ n <= Len(list)
      BY <1>1
    <3>4. PeiMemoryInstalled => \A k \in 1..Len(notify') : notify'[k].at # "car"
      <4>1. SUFFICES ASSUME PeiMemoryInstalled, NEW k \in 1..Len(notify') PROVE notify'[k].at # "car"
        OBVIOUS
      <4>2. \A i \in 1..Len(notify) : notify[i].at # "car"
        BY <4>1 DEF TypeInv, Moved
      <4>3. \A j \in 1..Len(list) : Entry(list[j]).at # "car"
        BY <1>1, <4>1, EntryFacts
      <4>4. CASE k \in 1..Len(notify)
        BY <3>1, <4>2, <4>4 DEF RefuseEffect
      <4>5. CASE k \in (Len(notify) + 1)..Len(notify')
        <5>1. k - Len(notify) \in 1..n /\ Len(notify) + (k - Len(notify)) = k
              /\ k - Len(notify) \in 1..Len(list)
          BY <1>1, <3>2, <3>3, <4>5
        <5> QED BY <3>1, <4>3, <5>1 DEF RefuseEffect
      <4> QED BY <1>1, <3>2, <3>3, <4>4, <4>5
    <3>5. Bounded'
      <4>1. Len(notify') \in Nat /\ Len(notify) <= Len(notify')
        BY <1>1, <3>2, <3>3
      <4> QED BY <1>1, <3>2, <4>1, SameStackKeepsBounded DEF TypeInv
    <3> QED BY <1>1, <3>2, <3>3, <3>4, <3>5
  <2> QED BY <1>1, <1>2, <1>a, <2>1, <2>2, NotifyEffects
<1>4. Types'
  BY <1>1, <1>3, <1>a DEF Types
<1>5. Cursors'
  BY <1>1, <1>3, <1>a DEF Cursors, Types
<1>6. Moved'
  BY <1>3, <1>a DEF TypeInv, Moved
<1> QED BY <1>3, <1>4, <1>5, <1>6, <1>a DEF TypeInv, Stacked

\* A PPI takes the place of another, and all callbacks are about to be called for it.
ReplaceEffect(new, i) ==
  /\ i \in 1..Len(ppi) /\ ppi' \in Seq(Slots(Ppis)) /\ Len(ppi') = Len(ppi)
  /\ \A j \in 1..Len(ppi) : ppi'[j] = IF j = i THEN Entry(new) ELSE ppi[j]
  /\ PushesWalk(DispatchEnd + 1, Len(notify), i, i)
  /\ replaced' = replaced \cup {new} /\ UNCHANGED <<notify, DispatchEnd, passed, refused>>

LEMMA ReplaceEffects ==
  ASSUME Types, NEW old, NEW new \in Ppis, PeiReInstallPpi(old, new)
  PROVE  \E i : ReplaceEffect(new, i)
<1>1. ppi \in Seq(Slots(Ppis)) /\ Len(ppi) \in Nat
  BY DEF Types
<1>2. PICK i \in 1..Len(ppi) :
        /\ ppi' = [ppi EXCEPT ![i] = Entry(new)]
        /\ stack' = Append(stack, DispatchFrame("CALLBACK", DispatchEnd + 1, Len(notify), i, i))
  BY DEF PeiReInstallPpi
<1>3. PICK e \in Slots(Ppis) : e = Entry(new)
  BY EntryFacts
<1>4. ppi' = [ppi EXCEPT ![i] = e]
  BY <1>2, <1>3
<1>5. /\ ppi' \in Seq(Slots(Ppis)) /\ Len(ppi') = Len(ppi)
      /\ \A j \in 1..Len(ppi) : ppi'[j] = IF j = i THEN e ELSE ppi[j]
  BY <1>1, <1>4
<1>6. replaced' = replaced \cup {new} /\ UNCHANGED <<notify, DispatchEnd, passed, refused>>
  BY DEF PeiReInstallPpi
<1>7. PushesWalk(DispatchEnd + 1, Len(notify), i, i)
  BY <1>2 DEF PushesWalk
<1> QED BY <1>3, <1>5, <1>6, <1>7 DEF ReplaceEffect

LEMMA ReplaceKeepsTypes ==
  ASSUME TypeInv, NEW r \in Replacements, ReInstallPpi(r[1], r[2])
  PROVE  TypeInv'
<1>1. /\ Types /\ Cursors /\ ppi \in Seq(Slots(Ppis)) /\ notify \in Seq(Slots(Notifies))
      /\ Len(ppi) \in Nat /\ Len(notify) \in Nat /\ DispatchEnd \in Nat /\ stack \in Seq(Frames)
  BY DEF TypeInv, Types
<1>2. r[2] \in Ppis
  BY PeiAssumption
<1>3. PICK i : ReplaceEffect(r[2], i)
  BY <1>1, <1>2, ReplaceEffects DEF ReInstallPpi
<1>4. /\ UNCHANGED <<notify, DispatchEnd, LastInstall, LastNotify, FindFv, PeiMemoryInstalled, SwitchStackSignal,
                     pc, TempValue, told>>
      /\ pc \in {"peim", "search", "notified", "installed"}
  BY <1>3 DEF ReInstallPpi, ReplaceEffect, done, search, memory, Running, TypeInv, Stacked
<1>5. i \in Nat /\ ppi' \in Seq(Slots(Ppis)) /\ Len(ppi') = Len(ppi)
  BY <1>1, <1>3 DEF ReplaceEffect
<1>6. stack' \in Seq(Frames) /\ Bounded'
  <2>1. PICK f : f = DispatchFrame("CALLBACK", DispatchEnd + 1, Len(notify), i, i)
    OBVIOUS
  <2>2. f \in Frames
    BY <1>1, <1>5, <2>1, FrameIsFrame DEF Levels
  <2>3. stack' = Append(stack, f)
    BY <1>3, <2>1 DEF ReplaceEffect, PushesWalk
  <2>4. PushedFrame(f)
    BY <1>1, <2>2, <2>3, PushFacts
  <2>5. f.to <= Len(notify') /\ notify' = notify
    BY <1>1, <1>4, <2>1, DispatchFrameFields
  <2> QED BY <1>1, <2>4, <2>5, PushKeepsBounded DEF TypeInv, PushedFrame
<1>7. Types'
  BY <1>1, <1>4, <1>5, <1>6 DEF Types
<1>8. Cursors'
  BY <1>1, <1>4, <1>5 DEF Cursors
<1>9. Moved'
  <2>1. PeiMemoryInstalled => Entry(r[2]).at # "car"
    BY <1>2, EntryFacts
  <2>2. PeiMemoryInstalled => \A k \in 1..Len(ppi') : ppi'[k].at # "car"
    BY <1>3, <1>5, <2>1 DEF TypeInv, Moved, ReplaceEffect
  <2> QED BY <1>4, <2>2 DEF TypeInv, Moved
<1> QED BY <1>4, <1>6, <1>7, <1>8, <1>9 DEF TypeInv, Stacked

\* What was in the temporary heap is in permanent memory, and nothing else changes.
LEMMA ConvertedFacts ==
  ASSUME NEW D, NEW entries \in Seq(Slots(D))
  PROVE  /\ Converted(entries) \in Seq(Slots(D)) /\ Len(Converted(entries)) = Len(entries)
         /\ \A k \in 1..Len(entries) : Converted(entries)[k].d = entries[k].d
                                       /\ Converted(entries)[k].at # "car"
<1>1. Len(entries) \in Nat /\ \A k \in 1..Len(entries) : entries[k] \in Slots(D)
  OBVIOUS
<1>2. PICK c : c = Converted(entries)
  OBVIOUS
<1>3. /\ c = [k \in 1..Len(entries) |-> c[k]]
      /\ \A k \in 1..Len(entries) :
           c[k] = IF entries[k].at = "car" THEN [entries[k] EXCEPT !.at = "memory"] ELSE entries[k]
  BY <1>2 DEF Converted
<1>4. \A k \in 1..Len(entries) :
        c[k] \in Slots(D) /\ c[k].d = entries[k].d /\ c[k].at # "car"
  <2> TAKE k \in 1..Len(entries)
  <2>1. PICK e \in Slots(D) : e = entries[k]
    BY <1>1
  <2>2. c[k] = IF e.at = "car" THEN [e EXCEPT !.at = "memory"] ELSE e
    BY <1>3, <2>1
  <2>3. [e EXCEPT !.at = "memory"] \in Slots(D) /\ [e EXCEPT !.at = "memory"].d = e.d
        /\ [e EXCEPT !.at = "memory"].at = "memory"
    BY DEF Slots
  <2> QED BY <2>1, <2>2, <2>3
<1>5. c \in Seq(Slots(D)) /\ Len(c) = Len(entries)
  BY <1>1, <1>3, <1>4, IntervalSeq
<1> QED BY <1>2, <1>4, <1>5

LEMMA MemoryKeepsTypes ==
  ASSUME TypeInv, PeiInstallPeiMemory
  PROVE  TypeInv'
<1>1. ppi \in Seq(Slots(Ppis)) /\ notify \in Seq(Slots(Notifies))
  BY DEF TypeInv, Types
<1>2. /\ ppi' = Converted(ppi) /\ notify' = Converted(notify) /\ PeiMemoryInstalled' = TRUE
      /\ SwitchStackSignal' = TRUE
      /\ UNCHANGED <<DispatchEnd, LastInstall, LastNotify, FindFv, pc, TempValue, stack, told>>
  BY DEF PeiInstallPeiMemory, done, search
<1>3. /\ ppi' \in Seq(Slots(Ppis)) /\ Len(ppi') = Len(ppi) /\ \A k \in 1..Len(ppi) : ppi'[k].at # "car"
      /\ notify' \in Seq(Slots(Notifies)) /\ Len(notify') = Len(notify)
      /\ \A k \in 1..Len(notify) : notify'[k].at # "car"
  BY <1>1, <1>2, ConvertedFacts
<1> QED BY <1>2, <1>3 DEF TypeInv, Types, Cursors, Stacked, Moved, Bounded

\* DispatchNotify leaves the lists alone.
LEMMA DispatchKeepsTypes ==
  ASSUME TypeInv, stack' \in Seq(Frames), stack # <<>>, told' \in [Notifies \X Ppis -> Nat], Bounded',
         UNCHANGED <<lists, done, search, Bitmap, memory, pc, TempValue, history>>
  PROVE  TypeInv'
BY DEF TypeInv, Types, Cursors, Stacked, Moved, lists, done, search, memory

LEMMA PopKeepsBounded ==
  ASSUME Bounded, Popped, UNCHANGED notify
  PROVE  Bounded'
<1>1. SUFFICES ASSUME NEW m \in 1..Len(stack'), stack'[m].pc = "dispatch" PROVE stack'[m].to <= Len(notify)
  BY DEF Bounded
<1>2. m \in 1..(Len(stack) - 1) /\ m \in 1..Len(stack)
  BY DEF Popped
<1> QED BY <1>1, <1>2 DEF Popped, Bounded

\* A walk goes on to where it went, and a function is no walk.
LEMMA StepKeepsBounded ==
  ASSUME Bounded, UNCHANGED notify, NEW f, NEW g, NEW c, f = stack[Len(stack)], TopBecomes(g),
         f.pc = "dispatch", g.to = f.to, c.pc = "function",
         Len(stack') = Len(stack) \/ (Len(stack') = Len(stack) + 1 /\ stack'[Len(stack) + 1] = c)
  PROVE  Bounded'
<1>1. SUFFICES ASSUME NEW m \in 1..Len(stack'), stack'[m].pc = "dispatch" PROVE stack'[m].to <= Len(notify)
  BY DEF Bounded
<1>2. Len(stack) \in Nat \ {0}
  BY DEF TopBecomes
<1>3. m \in 1..(Len(stack) - 1) \/ m = Len(stack) \/ (m = Len(stack) + 1 /\ Len(stack') = Len(stack) + 1)
  BY <1>2
<1>4. CASE m \in 1..(Len(stack) - 1)
  <2>1. m \in 1..Len(stack) /\ stack'[m] = stack[m]
    BY <1>2, <1>4 DEF TopBecomes
  <2> QED BY <1>1, <2>1 DEF Bounded
<1>5. CASE m = Len(stack)
  <2>1. m \in 1..Len(stack) /\ stack'[m] = g
    BY <1>2, <1>5 DEF TopBecomes
  <2>2. f.to <= Len(notify)
    BY <1>5, <2>1 DEF Bounded
  <2> QED BY <2>1, <2>2
<1>6. CASE m = Len(stack) + 1 /\ Len(stack') = Len(stack) + 1
  <2>1. stack'[m] = c
    BY <1>2, <1>6
  <2> QED BY <1>1, <2>1
<1> QED BY <1>3, <1>4, <1>5, <1>6

LEMMA NotifyFunctionKeepsTypes ==
  ASSUME TypeInv, NotifyFunction
  PROVE  TypeInv'
<1>1. PICK f, i : CallEffect(f, i)
  BY NotifyFunctionEffects DEF TypeInv
<1>2. told' \in [Notifies \X Ppis -> Nat]
  <2>1. PICK np : np = <<f.n, ppi[i].d>>
    OBVIOUS
  <2>2. told' = [told EXCEPT ![np] = @ + 1]
    BY <1>1, <2>1 DEF CallEffect
  <2>3. told \in [Notifies \X Ppis -> Nat]
    BY DEF TypeInv, Types
  <2>4. PICK D : D = Notifies \X Ppis
    OBVIOUS
  <2>5. told \in [D -> Nat]
    BY <2>3, <2>4
  <2>6. \A x \in D : told'[x] \in Nat
    BY <2>2, <2>5
  <2>7. told' = [x \in D |-> told'[x]]
    BY <2>2, <2>5
  <2>8. told' \in [D -> Nat]
    BY <2>6, <2>7
  <2> QED BY <2>4, <2>8
<1>3. stack' \in Seq(Frames) /\ stack # <<>>
  BY <1>1 DEF CallEffect, TopBecomes
<1>4. PICK g, c : g = [f EXCEPT !.i = i + 1] /\ c = CallFrame(f.level)
  OBVIOUS
<1>5. f \in DispatchFrames /\ c.pc = "function"
  BY <1>1, <1>4, FrameFields DEF CallEffect, CallFrame
<1>6. g.to = f.to
  BY <1>4, <1>5 DEF DispatchFrames
<1>7. UNCHANGED notify
  BY DEF NotifyFunction, lists
<1>8. Bounded'
  BY <1>1, <1>4, <1>5, <1>6, <1>7, StepKeepsBounded DEF CallEffect, TypeInv
<1> QED BY <1>2, <1>3, <1>8, DispatchKeepsTypes DEF NotifyFunction

LEMMA NextNotifyKeepsTypes ==
  ASSUME TypeInv, NextNotify
  PROVE  TypeInv'
<1>1. NextEffect(stack[Len(stack)])
  BY NextNotifyEffects DEF TypeInv
<1>2. stack' \in Seq(Frames) /\ stack # <<>>
  BY <1>1 DEF NextEffect, TopBecomes, Popped
<1>3. told' \in [Notifies \X Ppis -> Nat] /\ UNCHANGED notify
  BY DEF NextNotify, TypeInv, Types, lists
<1>4. Bounded'
  <2>1. CASE Popped
    BY <1>3, <2>1, PopKeepsBounded DEF TypeInv
  <2>2. CASE ~Popped
    <3>1. PICK f, g, c : /\ f = stack[Len(stack)] /\ c = CallFrame("CALLBACK")
                         /\ g = [f EXCEPT !.k = f.k + 1, !.i = f.first, !.n = notify[f.k + 1].d]
      OBVIOUS
    <3>2. TopBecomes(g) /\ Len(stack') = Len(stack) /\ f \in Frames /\ f.pc = "dispatch"
      BY <1>1, <2>2, <3>1 DEF NextEffect
    <3>3. g.to = f.to
      BY <3>1, <3>2, FrameFields DEF DispatchFrames
    <3>4. c.pc = "function"
      BY <3>1 DEF CallFrame
    <3> QED BY <1>3, <3>1, <3>2, <3>3, <3>4, StepKeepsBounded DEF TypeInv
  <2> QED BY <2>1, <2>2
<1> QED BY <1>2, <1>3, <1>4, DispatchKeepsTypes DEF NextNotify

LEMMA FunctionReturnsKeepsTypes ==
  ASSUME TypeInv, FunctionReturns
  PROVE  TypeInv'
<1>1. Popped /\ stack # <<>>
  BY FunctionReturnsEffects DEF TypeInv, FunctionReturns
<1>2. told' \in [Notifies \X Ppis -> Nat] /\ UNCHANGED notify
  BY DEF FunctionReturns, TypeInv, Types, lists
<1>3. Bounded'
  BY <1>1, <1>2, PopKeepsBounded DEF TypeInv
<1> QED BY <1>1, <1>2, <1>3, DispatchKeepsTypes DEF FunctionReturns, Popped

\* The steps of the dispatcher that leave the database alone.
Moves == SkipPeim \/ RunPeim \/ PeimReturns \/ NextPeim \/ NextVolume \/ PassEnds \/ EnterDxeIpl
Processes == ProcessNotifies \/ NotifiesProcessed \/ ProcessInstalls \/ InstallsProcessed

MoveEffect ==
  /\ UNCHANGED <<lists, done, memory, TempValue, stack, history, told>>
  /\ stack = <<>>
  /\ pc \in {"search", "peim", "processed", "DxeIpl"}
  /\ pc' \in {"search", "peim", "notifies", "DxeIpl", "Entered", "Asserted"}

LEMMA MoveEffects == Moves => MoveEffect
BY DEF Moves, MoveEffect, SkipPeim, RunPeim, PeimReturns, NextPeim, NextVolume, PassEnds, EnterDxeIpl, At

LEMMA MovesKeepTypes ==
  ASSUME TypeInv, Moves
  PROVE  TypeInv'
<1>1. FindFv' \in BOOLEAN
  BY DEF TypeInv, Types, Moves, SkipPeim, RunPeim, PeimReturns, NextPeim, NextVolume, PassEnds, EnterDxeIpl, search
<1>2. MoveEffect
  BY MoveEffects
<1> QED BY <1>1, <1>2 DEF TypeInv, Types, Cursors, Stacked, Moved, Bounded, MoveEffect, lists, done, memory, Pcs

LEMMA ProcessesKeepTypes ==
  ASSUME TypeInv, Processes
  PROVE  TypeInv'
<1>1. /\ Types /\ Cursors /\ Moved /\ Len(ppi) \in Nat /\ Len(notify) \in Nat
      /\ DispatchEnd \in Nat /\ LastInstall \in Nat /\ LastNotify \in Nat /\ TempValue \in Nat
  BY DEF TypeInv, Types
<1>2. UNCHANGED <<lists, search, memory, told>> /\ stack = <<>>
  BY DEF Processes, ProcessNotifies, NotifiesProcessed, ProcessInstalls, InstallsProcessed, At
<1>3. CASE ProcessNotifies
  <2>1. CASE LastNotify # DispatchEnd
    <3>1. /\ TempValue' = DispatchEnd /\ pc' = "notified" /\ UNCHANGED done
          /\ stack' = <<DispatchFrame("DISPATCH", LastNotify + 1, DispatchEnd, 1, LastInstall)>>
      BY <1>3, <2>1 DEF ProcessNotifies
    <3>2. PICK f : f = DispatchFrame("DISPATCH", LastNotify + 1, DispatchEnd, 1, LastInstall)
      OBVIOUS
    <3>d. f \in Frames
      BY <1>1, <3>2, FrameIsFrame DEF Levels
    <3>e. f.to = DispatchEnd
      BY <3>2, DispatchFrameFields
    <3>a. f \in Frames /\ f.to = DispatchEnd
      BY <3>d, <3>e
    <3>c. stack' = <<f>>
      BY <3>1, <3>2
    <3>3. stack' \in Seq(Frames) /\ stack' = <<f>>
      BY <3>a, <3>c
    <3>b. Bounded'
      <4>1. SUFFICES ASSUME NEW m \in 1..Len(stack') PROVE stack'[m].to <= Len(notify')
        BY DEF Bounded
      <4>2. stack'[m] = f
        BY <3>3, <4>1
      <4>3. DispatchEnd <= Len(notify) /\ notify' = notify
        BY <1>1, <1>2 DEF Cursors, lists
      <4> QED BY <3>a, <4>2, <4>3
    <3>4. UNCHANGED <<ppi, notify, DispatchEnd, LastInstall, LastNotify, told, PeiMemoryInstalled,
                      SwitchStackSignal, FindFv>>
      BY <1>2, <3>1 DEF lists, done, search, memory
    <3>5. Types'
      BY <1>1, <3>1, <3>3, <3>4 DEF Types, Pcs
    <3>6. Cursors'
      BY <1>1, <3>1, <3>4 DEF Cursors
    <3>7. Stacked' /\ Moved'
      BY <1>1, <3>1, <3>4 DEF Stacked, Moved
    <3> QED BY <3>5, <3>6, <3>7, <3>b DEF TypeInv
  <2>2. CASE LastNotify = DispatchEnd
    <3>1. pc' = "installs" /\ UNCHANGED <<done, TempValue, stack>>
      BY <1>3, <2>2 DEF ProcessNotifies
    <3> QED BY <1>1, <1>2, <3>1 DEF TypeInv, Types, Cursors, Stacked, Moved, Bounded, lists, done, search, memory, Pcs
  <2> QED BY <2>1, <2>2
<1>4. CASE NotifiesProcessed
  BY <1>1, <1>2, <1>4 DEF TypeInv, Types, Cursors, Stacked, Moved, Bounded, lists, done, search, memory, Pcs, NotifiesProcessed, At
<1>5. CASE ProcessInstalls
  <2>1. CASE LastInstall # Len(ppi)
    <3>1. /\ TempValue' = Len(ppi) /\ pc' = "installed" /\ UNCHANGED done
          /\ stack' = <<DispatchFrame("DISPATCH", 1, DispatchEnd, LastInstall + 1, Len(ppi))>>
      BY <1>5, <2>1 DEF ProcessInstalls
    <3>2. PICK f : f = DispatchFrame("DISPATCH", 1, DispatchEnd, LastInstall + 1, Len(ppi))
      OBVIOUS
    <3>d. f \in Frames
      BY <1>1, <3>2, FrameIsFrame DEF Levels
    <3>e. f.to = DispatchEnd
      BY <3>2, DispatchFrameFields
    <3>a. f \in Frames /\ f.to = DispatchEnd
      BY <3>d, <3>e
    <3>c. stack' = <<f>>
      BY <3>1, <3>2
    <3>3. stack' \in Seq(Frames) /\ stack' = <<f>>
      BY <3>a, <3>c
    <3>b. Bounded'
      <4>1. SUFFICES ASSUME NEW m \in 1..Len(stack') PROVE stack'[m].to <= Len(notify')
        BY DEF Bounded
      <4>2. stack'[m] = f
        BY <3>3, <4>1
      <4>3. DispatchEnd <= Len(notify) /\ notify' = notify
        BY <1>1, <1>2 DEF Cursors, lists
      <4> QED BY <3>a, <4>2, <4>3
    <3>4. UNCHANGED <<ppi, notify, DispatchEnd, LastInstall, LastNotify, told, PeiMemoryInstalled,
                      SwitchStackSignal, FindFv>>
      BY <1>2, <3>1 DEF lists, done, search, memory
    <3>5. Types'
      BY <1>1, <3>1, <3>3, <3>4 DEF Types, Pcs
    <3>6. Cursors'
      BY <1>1, <3>1, <3>4 DEF Cursors
    <3>7. Stacked' /\ Moved'
      BY <1>1, <3>1, <3>4 DEF Stacked, Moved
    <3> QED BY <3>5, <3>6, <3>7, <3>b DEF TypeInv
  <2>2. CASE LastInstall = Len(ppi)
    <3>1. /\ pc' = IF LastNotify = DispatchEnd THEN "processed" ELSE "notifies"
          /\ UNCHANGED <<done, TempValue, stack>>
      BY <1>5, <2>2 DEF ProcessInstalls
    <3> QED BY <1>1, <1>2, <2>2, <3>1 DEF TypeInv, Types, Cursors, Stacked, Moved, Bounded, lists, done, search, memory, Pcs
  <2> QED BY <2>1, <2>2
<1>6. CASE InstallsProcessed
  BY <1>1, <1>2, <1>6 DEF TypeInv, Types, Cursors, Stacked, Moved, Bounded, lists, done, search, memory, Pcs, InstallsProcessed, At
<1> QED BY <1>3, <1>4, <1>5, <1>6 DEF Processes

\* Every step keeps the types.
LEMMA TypeStep ==
  ASSUME TypeInv, [Next]_vars
  PROVE  TypeInv'
<1>1. ASSUME NEW list \in InstallLists, InstallPpi(list) PROVE TypeInv'
  <2>1. list \in Seq(Ppis) /\ PeiInstallPpi(list)
    BY <1>1, ListTypes DEF InstallPpi
  <2>2. /\ UNCHANGED <<notify, DispatchEnd, done, TempValue, FindFv, PeiMemoryInstalled, told>>
        /\ pc' = pc /\ SwitchStackSignal' = SwitchStackSignal
    BY <1>1 DEF InstallPpi, search, memory
  <2>3. pc \in {"peim", "search", "notified", "installed"} /\ SwitchStackSignal \in BOOLEAN
    BY <1>1 DEF InstallPpi, Passes, Running, TypeInv, Stacked, Types
  <2> QED BY <2>1, <2>2, <2>3, InstallKeepsTypes
<1>2. CASE SwitchCoreStacks
  <2>1. PICK list : list = <<MemoryDiscovered>>
    OBVIOUS
  <2>2. list \in Seq(Ppis) /\ PeiInstallPpi(list)
    BY <1>2, <2>1, ListTypes DEF SwitchCoreStacks
  <2>3. /\ UNCHANGED <<notify, DispatchEnd, done, TempValue, FindFv, PeiMemoryInstalled, told>>
        /\ pc' = "search" /\ SwitchStackSignal' \in BOOLEAN
    BY <1>2 DEF SwitchCoreStacks
  <2> QED BY <2>2, <2>3, InstallKeepsTypes
<1>3. CASE UNCHANGED vars
  BY <1>3 DEF vars, lists, done, search, memory, history, TypeInv, Types, Cursors, Stacked, Moved, Bounded
<1>4. CASE Moves
  BY <1>4, MovesKeepTypes
<1>5. CASE Processes
  BY <1>5, ProcessesKeepTypes
<1>6. CASE NotifyFunction \/ NextNotify \/ FunctionReturns
  BY <1>6, NotifyFunctionKeepsTypes, NextNotifyKeepsTypes, FunctionReturnsKeepsTypes
<1>7. ASSUME NEW list \in NotifyLists, NotifyPpi(list) PROVE TypeInv'
  BY <1>7, NotifyKeepsTypes
<1>8. ASSUME NEW r \in Replacements, ReInstallPpi(r[1], r[2]) PROVE TypeInv'
  BY <1>8, ReplaceKeepsTypes
<1>9. CASE PeiInstallPeiMemory
  BY <1>9, MemoryKeepsTypes
<1>10. CASE Client
  BY <1>1, <1>7, <1>8, <1>9, <1>10 DEF Client
<1>11. CASE Core
  BY <1>2, <1>4, <1>5, <1>6, <1>11 DEF Core, Moves, Processes
<1> QED BY <1>3, <1>10, <1>11 DEF Next

-----------------------------------------------------------------------------
(* The PEIMs in the order of search.                                       *)

LEMMA VolumeTypes ==
  /\ FvHobs \in Seq(DOMAIN Files) /\ Len(FvHobs) \in Nat
  /\ Files[BootFv] \in Seq(DOMAIN DepexSection)
  /\ \A f \in DOMAIN Files : Files[f] \in Seq(DOMAIN DepexSection) /\ Len(Files[f]) \in Nat
  /\ \A v \in 1..Len(FvHobs) : FvHobs[v] \in DOMAIN Files /\ Volume(v) \in Seq(DOMAIN DepexSection)
                               /\ Len(Volume(v)) \in Nat
  /\ \A v \in 1..Len(FvHobs) : FvHobs[v] = BootFv => Len(Volume(v)) = 0
<1>1. FvHobs \in Seq(DOMAIN Files) /\ BootFv \in DOMAIN Files /\ Files \in [DOMAIN Files -> Seq(DOMAIN DepexSection)]
  BY PeiAssumption
<1>2. PICK D, P : D = DOMAIN Files /\ P = DOMAIN DepexSection
  OBVIOUS
<1>3. FvHobs \in Seq(D) /\ BootFv \in D /\ Files \in [D -> Seq(P)]
  BY <1>1, <1>2
<1>4. Len(FvHobs) \in Nat /\ \A v \in 1..Len(FvHobs) : FvHobs[v] \in D
  BY <1>3
<1>5. \A f \in D : Files[f] \in Seq(P)
  BY <1>3
<1>6. \A f \in D : Files[f] \in Seq(P) /\ Len(Files[f]) \in Nat
  BY <1>5
<1>7. \A v \in 1..Len(FvHobs) : Volume(v) \in Seq(P)
  <2> TAKE v \in 1..Len(FvHobs)
  <2>1. Files[FvHobs[v]] \in Seq(P) /\ <<>> \in Seq(P)
    BY <1>4, <1>6
  <2> QED BY <2>1 DEF Volume
<1>8. \A v \in 1..Len(FvHobs) : Volume(v) \in Seq(P) /\ Len(Volume(v)) \in Nat
  BY <1>7
<1>9. \A v \in 1..Len(FvHobs) : FvHobs[v] = BootFv => Len(Volume(v)) = 0
  BY DEF Volume
<1> QED BY <1>2, <1>3, <1>4, <1>6, <1>8, <1>9

LEMMA BeforeFacts ==
  /\ Before[0] = Len(Files[BootFv])
  /\ \A v \in 1..Len(FvHobs) : Before[v] = Before[v - 1] + Len(Volume(v))
  /\ \A v \in 0..Len(FvHobs) : Before[v] \in Nat
<1>1. PICK N : N = Len(FvHobs)
  OBVIOUS
<1>2. N \in Nat /\ Len(Files[BootFv]) \in Nat /\ \A v \in 1..N : Len(Volume(v)) \in Nat
  BY <1>1, VolumeTypes
<1>3. PICK next : next = [kr \in Nat \X Nat |->
                           IF kr[1] \in 1..N THEN kr[2] + Len(Volume(kr[1])) ELSE kr[2]]
  OBVIOUS
<1>4. next \in [Nat \X Nat -> Nat]
  <2>1. \A kr \in Nat \X Nat : next[kr] \in Nat
    BY <1>2, <1>3
  <2> QED BY <1>3, <2>1
<1>5. PICK x \in Nat : x = Len(Files[BootFv])
  BY <1>2
<1>6. PICK F : Recursive(F, Nat, x, next, N)
  BY <1>2, <1>4, Recursion
<1>7. \A k \in 1..N : F[k] = F[k - 1] + Len(Volume(k))
  <2> TAKE k \in 1..N
  <2>1. F[k - 1] \in Nat /\ k \in Nat
    BY <1>2, <1>6 DEF Recursive
  <2>2. next[<<k, F[k - 1]>>] = F[k - 1] + Len(Volume(k))
    BY <1>3, <2>1
  <2> QED BY <1>6, <2>2 DEF Recursive
<1> DEFINE Is(f) == f = [v \in 0..Len(FvHobs) |->
                           IF v = 0 THEN Len(Files[BootFv]) ELSE f[v - 1] + Len(Volume(v))]
           some[v \in 0..Len(FvHobs)] ==
             IF v = 0 THEN Len(Files[BootFv]) ELSE some[v - 1] + Len(Volume(v))
<1>8. Is(F)
  <2>1. \A k \in 0..N : F[k] = IF k = 0 THEN Len(Files[BootFv]) ELSE F[k - 1] + Len(Volume(k))
    <3> TAKE k \in 0..N
    <3>1. CASE k = 0
      BY <1>5, <1>6, <3>1 DEF Recursive
    <3>2. CASE k \in 1..N
      <4>1. k # 0
        BY <3>2
      <4> QED BY <1>7, <3>2, <4>1
    <3> QED BY <1>2, <3>1, <3>2
  <2>2. F = [k \in 0..N |-> F[k]]
    BY <1>6 DEF Recursive
  <2> QED BY <1>1, <2>1, <2>2
<1>9. some = CHOOSE f : Is(f)
  OBVIOUS
<1>10. Is(some)
  BY <1>8, <1>9
<1>11. Before = some
  BY DEF Before
<1> HIDE DEF some
<1>12. /\ Before[0] = Len(Files[BootFv])
       /\ \A v \in 1..N : Before[v] = Before[v - 1] + Len(Volume(v))
  <2>1. PICK B : B = some
    OBVIOUS
  <2>2. Is(B)
    BY <1>10, <2>1
  <2>3. \A v \in 0..N : B[v] = IF v = 0 THEN Len(Files[BootFv]) ELSE B[v - 1] + Len(Volume(v))
    BY <1>1, <2>2
  <2>4. B[0] = Len(Files[BootFv])
    BY <1>2, <2>3
  <2>5. \A v \in 1..N : B[v] = B[v - 1] + Len(Volume(v))
    <3> TAKE v \in 1..N
    <3>1. v \in 0..N /\ v # 0
      BY <1>2
    <3> QED BY <2>3, <3>1
  <2> QED BY <1>11, <2>1, <2>4, <2>5
<1> DEFINE S == {v \in Nat : v <= N => Before[v] \in Nat}
<1>13. 0 \in S
  BY <1>2, <1>12
<1>14. ASSUME NEW v \in Nat, v \in S PROVE v + 1 \in S
  <2>1. SUFFICES ASSUME v + 1 <= N PROVE Before[v + 1] \in Nat
    OBVIOUS
  <2>2. v + 1 \in 1..N /\ (v + 1) - 1 = v /\ Before[v] \in Nat
    BY <1>2, <1>14, <2>1
  <2> QED BY <1>2, <1>12, <2>2
<1>15. \A v \in Nat : v \in S
  <2> HIDE DEF S
  <2> QED BY <1>13, <1>14, Induction
<1> QED BY <1>1, <1>2, <1>12, <1>15

\* Volumes in between that have no PEIMs do not count, and others do not count less.
LEMMA BeforeGrows ==
  ASSUME NEW v \in 0..Len(FvHobs), NEW u \in v..Len(FvHobs)
  PROVE  /\ Before[v] <= Before[u]
         /\ (\A w \in (v + 1)..u : Len(Volume(w)) = 0) => Before[u] = Before[v]
<1>1. PICK N \in Nat : N = Len(FvHobs)
  BY VolumeTypes
<1>2. \A w \in 1..N : Before[w] = Before[w - 1] + Len(Volume(w)) /\ Len(Volume(w)) \in Nat
  BY <1>1, VolumeTypes, BeforeFacts
<1>3. \A w \in 0..N : Before[w] \in Nat
  BY <1>1, BeforeFacts
<1> DEFINE Good(n) == /\ Before[v] <= Before[v + n]
                      /\ (\A w \in (v + 1)..(v + n) : Len(Volume(w)) = 0) => Before[v + n] = Before[v]
           S == {n \in Nat : v + n <= N => Good(n)}
<1>4. 0 \in S
  BY <1>1, <1>3
<1>5. ASSUME NEW n \in Nat, n \in S PROVE n + 1 \in S
  <2>1. SUFFICES ASSUME v + (n + 1) <= N PROVE Good(n + 1)
    OBVIOUS
  <2>2. Good(n) /\ v + (n + 1) \in 1..N /\ (v + (n + 1)) - 1 = v + n /\ v + n \in 0..N
    BY <1>1, <1>5, <2>1
  <2>3. PICK a, b, c, w : a = Before[v] /\ b = Before[v + n] /\ c = Before[v + (n + 1)] /\ w = v + (n + 1)
    OBVIOUS
  <2>4. a \in Nat /\ b \in Nat /\ c = b + Len(Volume(w)) /\ Len(Volume(w)) \in Nat
    BY <1>1, <1>2, <1>3, <2>2, <2>3
  <2>5. (\A x \in (v + 1)..w : Len(Volume(x)) = 0) =>
          Len(Volume(w)) = 0 /\ \A x \in (v + 1)..(v + n) : Len(Volume(x)) = 0
    <3>1. w \in (v + 1)..w /\ \A x \in (v + 1)..(v + n) : x \in (v + 1)..w
      BY <1>1, <2>3
    <3> QED BY <3>1
  <2>6. a <= b /\ a \in Nat
    BY <1>1, <1>3, <2>2, <2>3
  <2>7. a <= c
    BY <2>4, <2>6
  <2>8. (\A x \in (v + 1)..w : Len(Volume(x)) = 0) => c = a
    <3>1. SUFFICES ASSUME \A x \in (v + 1)..w : Len(Volume(x)) = 0 PROVE c = a
      OBVIOUS
    <3>2. b = a
      BY <2>2, <2>3, <2>5, <3>1
    <3>3. Len(Volume(w)) = 0
      BY <2>5, <3>1
    <3> QED BY <2>4, <2>6, <3>2, <3>3
  <2> QED BY <2>3, <2>7, <2>8
<1>6. u - v \in S
  <2>1. u - v \in Nat
    BY <1>1
  <2> HIDE DEF S
  <2> QED BY <1>4, <1>5, <2>1, Induction
<1>7. u - v \in Nat /\ v + (u - v) = u /\ u <= N
  BY <1>1
<1> QED BY <1>1, <1>6, <1>7

\* The PEIMs of the first volumes, after those of the boot volume.
Flattened(F) ==
  /\ F \in [0..Len(FvHobs) -> Seq(DOMAIN DepexSection)] /\ F[0] = <<>>
  /\ \A v \in 1..Len(FvHobs) : F[v] = F[v - 1] \o Volume(v)

LEMMA FlattenedExists == \E F : Flattened(F) /\ Others = F[Len(FvHobs)]
<1>1. PICK N, P : N = Len(FvHobs) /\ P = DOMAIN DepexSection
  OBVIOUS
<1>2. N \in Nat /\ \A v \in 1..N : Volume(v) \in Seq(P)
  BY <1>1, VolumeTypes
<1>3. PICK vols : vols = [v \in 1..N |-> Volume(v)]
  OBVIOUS
<1>4. vols \in Seq(Seq(P)) /\ Len(vols) = N /\ \A v \in 1..N : vols[v] = Volume(v)
  BY <1>2, <1>3, IntervalSeq
<1>5. Others = FlattenSeq(vols)
  BY <1>1, <1>3 DEF Others, Volume
<1>6. PICK next : next = [kr \in Nat \X Seq(P) |->
                           IF kr[1] \in 1..N THEN kr[2] \o Volume(kr[1]) ELSE kr[2]]
  OBVIOUS
<1>7. next \in [Nat \X Seq(P) -> Seq(P)]
  <2>1. ASSUME NEW kr \in Nat \X Seq(P) PROVE next[kr] \in Seq(P)
    <3>1. PICK k \in Nat, r \in Seq(P) : kr = <<k, r>>
      OBVIOUS
    <3>2. CASE k \in 1..N
      <4>1. next[kr] = r \o Volume(k) /\ Volume(k) \in Seq(P)
        BY <1>2, <1>6, <3>1, <3>2
      <4> QED BY <4>1
    <3>3. CASE k \notin 1..N
      BY <1>6, <3>1, <3>3
    <3> QED BY <3>2, <3>3
  <2> QED BY <1>6, <2>1
<1>8. PICK x \in Seq(P) : x = <<>>
  <2>1. <<>> \in Seq(P)
    OBVIOUS
  <2> QED BY <2>1
<1>9. PICK Q : Q = Seq(P)
  OBVIOUS
<1>10. PICK F : Recursive(F, Q, x, next, N)
  <2>1. x \in Q /\ next \in [Nat \X Q -> Q]
    BY <1>7, <1>8, <1>9
  <2> QED BY <1>2, <2>1, Recursion
<1>11. F \in [0..N -> Seq(P)] /\ F[0] = <<>>
  BY <1>8, <1>9, <1>10 DEF Recursive
<1>12. \A k \in 1..N : F[k] = F[k - 1] \o Volume(k)
  <2> TAKE k \in 1..N
  <2>1. F[k - 1] \in Seq(P) /\ k \in Nat
    BY <1>2, <1>11
  <2>2. next[<<k, F[k - 1]>>] = F[k - 1] \o Volume(k)
    BY <1>6, <2>1
  <2> QED BY <1>10, <2>2 DEF Recursive
<1>13. Flattened(F)
  BY <1>1, <1>11, <1>12 DEF Flattened
<1>14. FlattenSeq(vols) = F[N]
  <2>1. CASE N = 0
    <3>1. FlattenSeq(vols) = vols
      BY <1>4, <2>1 DEF FlattenSeq
    <3>2. vols = <<>>
      BY <1>4, <2>1
    <3> QED BY <1>11, <2>1, <3>1, <3>2
  <2>2. CASE N # 0
    <3> DEFINE Is(f) == f = [i \in 1..Len(vols) |-> IF i = 1 THEN vols[i] ELSE f[i - 1] \o vols[i]]
               some[i \in 1..Len(vols)] == IF i = 1 THEN vols[i] ELSE some[i - 1] \o vols[i]
    <3>1. FlattenSeq(vols) = some[Len(vols)]
      BY <1>4, <2>2 DEF FlattenSeq
    <3>2. PICK G : G = [i \in 1..N |-> F[i]]
      OBVIOUS
    <3>3. Is(G)
      <4>1. \A i \in 1..N : G[i] = IF i = 1 THEN vols[i] ELSE G[i - 1] \o vols[i]
        <5> TAKE i \in 1..N
        <5>1. CASE i = 1
          <6>a. 1 \in 1..N /\ 1 - 1 = 0
            BY <1>2, <2>2
          <6>1. F[i] = <<>> \o Volume(i) /\ Volume(i) \in Seq(P)
            BY <1>2, <1>11, <1>12, <5>1, <6>a
          <6>2. <<>> \o Volume(i) = Volume(i)
            BY <6>1
          <6> QED BY <1>4, <3>2, <5>1, <6>1, <6>2
        <5>2. CASE i # 1
          <6>1. i - 1 \in 1..N
            BY <1>2, <5>2
          <6> QED BY <1>4, <1>12, <3>2, <5>2, <6>1
        <5> QED BY <5>1, <5>2
      <4>2. G = [i \in 1..Len(vols) |-> G[i]]
        BY <1>4, <3>2
      <4> QED BY <1>4, <4>1, <4>2
    <3>4. some = CHOOSE f : Is(f)
      OBVIOUS
    <3>5. Is(some)
      BY <3>3, <3>4
    <3> HIDE DEF some
    <3>6. PICK B : B = some
      OBVIOUS
    <3>7. Is(B)
      BY <3>5, <3>6
    <3>8. \A i \in 1..N : B[i] = IF i = 1 THEN vols[i] ELSE B[i - 1] \o vols[i]
      BY <1>4, <3>7
    <3> HIDE DEF Is
    <3> DEFINE S == {i \in Nat : i + 1 <= N => B[i + 1] = F[i + 1]}
    <3>9. 0 \in S
      <4>1. 1 \in 1..N /\ 1 - 1 = 0
        BY <1>2, <2>2
      <4>2. B[1] = Volume(1) /\ Volume(1) \in Seq(P)
        BY <1>2, <1>4, <3>8, <4>1
      <4>3. F[1] = <<>> \o Volume(1)
        BY <1>11, <1>12, <4>1
      <4> QED BY <4>2, <4>3
    <3>10. ASSUME NEW i \in Nat, i \in S PROVE i + 1 \in S
      <4>1. SUFFICES ASSUME (i + 1) + 1 <= N PROVE B[(i + 1) + 1] = F[(i + 1) + 1]
        OBVIOUS
      <4>2. PICK k : k = (i + 1) + 1
        OBVIOUS
      <4>3. k \in 1..N /\ k # 1 /\ k - 1 = i + 1 /\ B[k - 1] = F[k - 1]
        BY <1>2, <3>10, <4>1, <4>2
      <4> QED BY <1>4, <1>12, <3>8, <4>2, <4>3
    <3>11. N - 1 \in S
      <4>1. N - 1 \in Nat
        BY <1>2, <2>2
      <4> HIDE DEF S
      <4> QED BY <3>9, <3>10, <4>1, Induction
    <3>12. (N - 1) + 1 = N
      BY <1>2
    <3>13. B[N] = F[N]
      BY <1>2, <3>11, <3>12
    <3> QED BY <1>4, <3>1, <3>6, <3>13
  <2> QED BY <2>1, <2>2
<1> QED BY <1>1, <1>5, <1>13, <1>14

LEMMA PeimsFacts ==
  /\ AllPeims \in Seq(DOMAIN DepexSection) /\ Len(AllPeims) = Before[Len(FvHobs)]
  /\ \A j \in 1..Len(Files[BootFv]) : AllPeims[j] = Files[BootFv][j]
  /\ \A v \in 1..Len(FvHobs) : \A j \in 1..Len(Volume(v)) : AllPeims[Before[v - 1] + j] = Volume(v)[j]
<1>1. PICK F : Flattened(F) /\ Others = F[Len(FvHobs)]
  BY FlattenedExists
<1>2. PICK N, P, boot : N = Len(FvHobs) /\ P = DOMAIN DepexSection /\ boot = Files[BootFv]
  OBVIOUS
<1>3. /\ N \in Nat /\ boot \in Seq(P) /\ Len(boot) \in Nat
      /\ \A v \in 1..N : Volume(v) \in Seq(P) /\ Len(Volume(v)) \in Nat
  BY <1>2, VolumeTypes
<1>4. /\ Before[0] = Len(boot) /\ \A v \in 1..N : Before[v] = Before[v - 1] + Len(Volume(v))
      /\ \A v \in 0..N : Before[v] \in Nat
  BY <1>2, BeforeFacts
<1>5. /\ F \in [0..N -> Seq(P)] /\ F[0] = <<>> /\ \A v \in 1..N : F[v] = F[v - 1] \o Volume(v)
      /\ AllPeims = boot \o F[N]
  BY <1>1, <1>2 DEF Flattened, AllPeims
<1> DEFINE Good(v, s) ==
             /\ s \in Seq(P) /\ Len(s) = Before[v]
             /\ \A j \in 1..Len(boot) : s[j] = boot[j]
             /\ \A w \in 1..v : \A j \in 1..Len(Volume(w)) : s[Before[w - 1] + j] = Volume(w)[j]
           S == {v \in Nat : v <= N => Good(v, boot \o F[v])}
<1>6. 0 \in S
  <2>1. boot \o F[0] = boot
    BY <1>3, <1>5
  <2>2. Good(0, boot)
    BY <1>3, <1>4
  <2> HIDE DEF Good
  <2> QED BY <2>1, <2>2
<1>7. ASSUME NEW v \in Nat, v \in S PROVE v + 1 \in S
  <2>1. SUFFICES ASSUME v + 1 <= N PROVE Good(v + 1, boot \o F[v + 1])
    <3> HIDE DEF Good
    <3> QED OBVIOUS
  <2>2. PICK u : u = v + 1
    OBVIOUS
  <2>3. u \in 1..N /\ u - 1 = v /\ v \in 0..N /\ Good(v, boot \o F[v])
    <3>1. u \in 1..N /\ u - 1 = v /\ v \in 0..N /\ v <= N
      BY <1>3, <2>1, <2>2
    <3> HIDE DEF Good
    <3> QED BY <1>7, <3>1
  <2>4. PICK f, s, t, vol : f = F[v] /\ s = boot \o F[v] /\ t = boot \o F[u] /\ vol = Volume(u)
    OBVIOUS
  <2>5. f \in Seq(P) /\ vol \in Seq(P) /\ s \in Seq(P) /\ F[u] = f \o vol /\ s = boot \o f
    BY <1>3, <1>5, <2>3, <2>4
  <2>6. t = s \o vol
    <3>1. (boot \o f) \o vol = boot \o (f \o vol)
      BY <1>3, <2>5, ConcatAssociative
    <3> QED BY <2>4, <2>5, <3>1
  <2>7. Joined(t, s, vol, P)
    BY <2>5, <2>6, ConcatFacts
  <2>8. Good(v, s)
    BY <2>3, <2>4
  <2>9. t \in Seq(P) /\ Len(t) = Before[u] /\ Len(s) = Before[v] /\ Before[v] \in Nat /\ Len(vol) \in Nat
    BY <1>3, <1>4, <2>3, <2>4, <2>7, <2>8 DEF Joined
  <2>10. \A j \in 1..Len(boot) : t[j] = boot[j]
    <3> TAKE j \in 1..Len(boot)
    <3>1. 0 \in 0..Len(FvHobs) /\ v \in 0..Len(FvHobs)
      BY <1>2, <1>3, <2>3
    <3>2. Before[0] <= Before[v]
      BY <3>1, BeforeGrows
    <3>3. j \in 1..Len(s)
      BY <1>3, <1>4, <2>9, <3>2
    <3> QED BY <2>7, <2>8, <3>3 DEF Joined
  <2>11. \A w \in 1..v : \A j \in 1..Len(Volume(w)) : t[Before[w - 1] + j] = Volume(w)[j]
    <3> TAKE w \in 1..v
    <3> TAKE j \in 1..Len(Volume(w))
    <3>1. w \in 1..N /\ w \in 0..Len(FvHobs) /\ v \in w..Len(FvHobs) /\ w - 1 \in 0..N
      BY <1>2, <1>3, <2>3
    <3>2. Before[w] <= Before[v]
      BY <3>1, BeforeGrows
    <3>3. PICK a, b : a = Before[w - 1] /\ b = Before[w]
      OBVIOUS
    <3>4. a \in Nat /\ b \in Nat /\ b = a + Len(Volume(w)) /\ b <= Before[v] /\ Len(Volume(w)) \in Nat
      BY <1>3, <1>4, <3>1, <3>2, <3>3
    <3>5. a + j \in 1..Len(s)
      BY <2>9, <3>4
    <3> QED BY <2>7, <2>8, <3>3, <3>5 DEF Joined
  <2>12. \A j \in 1..Len(vol) : t[Before[v] + j] = vol[j]
    BY <2>7, <2>9 DEF Joined
  <2>13. \A w \in 1..u : \A j \in 1..Len(Volume(w)) : t[Before[w - 1] + j] = Volume(w)[j]
    <3> TAKE w \in 1..u
    <3>1. w \in 1..v \/ (w = u /\ w - 1 = v)
      BY <2>2
    <3> QED BY <2>4, <2>11, <2>12, <3>1
  <2>14. Good(u, t)
    BY <2>9, <2>10, <2>13
  <2> HIDE DEF Good
  <2> QED BY <2>2, <2>4, <2>14
<1>8. N \in S
  <2> HIDE DEF S
  <2> QED BY <1>3, <1>6, <1>7, Induction
<1>9. Good(N, AllPeims)
  <2> HIDE DEF Good
  <2>1. N <= N
    BY <1>3
  <2> QED BY <1>5, <1>8, <2>1
<1> QED BY <1>2, <1>9

-----------------------------------------------------------------------------
(* The place of the search.                                                *)

\* The next PEIM of the volume is the next in the order of search.
LEMMA PlaceFacts ==
  ASSUME Searching, ~Ended
  PROVE  /\ Place \in 0..Len(AllPeims) /\ Len(AllPeims) \in Nat /\ Len(Files[fv]) \in Nat
         /\ file < Len(Files[fv]) => /\ Place + 1 <= Len(AllPeims)
                                     /\ AllPeims[Place + 1] = Files[fv][file + 1]
         /\ file = Len(Files[fv]) => Place = Before[CurrentFv]
<1>1. PICK N, v, len : N = Len(FvHobs) /\ v = CurrentFv /\ len = Len(Files[fv])
  OBVIOUS
<1>2. /\ N \in Nat /\ v \in 0..N /\ file \in 0..len /\ len \in Nat /\ fv \in DOMAIN Files
      /\ IF v = 0 THEN fv = BootFv ELSE fv = FvHobs[v] /\ fv # BootFv
  BY <1>1, VolumeTypes DEF Searching
<1>3. Len(AllPeims) = Before[N]
  BY <1>1, PeimsFacts
<1>4. \A w \in 0..N : Before[w] \in Nat /\ Before[w] <= Before[N]
  <2> TAKE w \in 0..N
  <2>1. w \in 0..Len(FvHobs) /\ N \in w..Len(FvHobs)
    BY <1>1, <1>2
  <2> QED BY <2>1, BeforeFacts, BeforeGrows
<1>5. N \in 0..N
  BY <1>2
<1>6. CASE v = 0
  <2>1. fv = BootFv /\ Place = file /\ Before[0] = len
    BY <1>1, <1>2, <1>6, BeforeFacts DEF Place
  <2>2. len <= Before[N]
    BY <1>2, <1>4, <2>1
  <2>3. \A j \in 1..len : AllPeims[j] = Files[fv][j]
    BY <1>1, <2>1, PeimsFacts
  <2>4. file < len => file + 1 \in 1..len
    BY <1>2
  <2> QED BY <1>1, <1>2, <1>3, <1>4, <1>5, <1>6, <2>1, <2>2, <2>3, <2>4
<1>7. CASE v # 0
  <2>1. v \in 1..N /\ fv = FvHobs[v] /\ Volume(v) = Files[fv] /\ v - 1 \in 0..N
    BY <1>2, <1>7 DEF Volume
  <2>2. PICK a : a = Before[v - 1]
    OBVIOUS
  <2>3. Place = a + file /\ a \in Nat /\ Before[v] = a + len
    BY <1>1, <1>4, <1>7, <2>1, <2>2, BeforeFacts DEF Place
  <2>4. a + len <= Before[N]
    BY <1>4, <2>1, <2>3
  <2>5. \A j \in 1..len : AllPeims[a + j] = Files[fv][j]
    <3>1. \A j \in 1..Len(Volume(v)) : AllPeims[Before[v - 1] + j] = Volume(v)[j]
      BY <1>1, <2>1, PeimsFacts
    <3>2. PICK vol : vol = Volume(v)
      OBVIOUS
    <3>3. \A j \in 1..Len(vol) : AllPeims[a + j] = vol[j]
      BY <2>2, <3>1, <3>2
    <3>4. vol = Files[fv] /\ len = Len(vol)
      BY <1>1, <2>1, <3>2
    <3> QED BY <3>3, <3>4
  <2>6. file < len => file + 1 \in 1..len /\ (a + file) + 1 = a + (file + 1)
    BY <1>2, <2>3
  <2> QED BY <1>1, <1>2, <1>3, <1>4, <1>5, <2>3, <2>4, <2>5, <2>6
<1> QED BY <1>6, <1>7

LEMMA InitSearching == Init => Searching /\ Numbered
<1> SUFFICES ASSUME Init PROVE Searching /\ Numbered
  OBVIOUS
<1>1. BootFv \in DOMAIN Files /\ Len(FvHobs) \in Nat /\ Len(Files[BootFv]) \in Nat
  BY VolumeTypes, PeiAssumption
<1>2. Place = 0 /\ Number = 0
  BY DEF Place, Number, Init
<1>3. Searching
  BY <1>1, <1>2 DEF Searching, Init
<1>4. Numbered
  BY DEF Numbered, Init
<1> QED BY <1>3, <1>4

\* A step that does not move the search.
SearchStays ==
  /\ UNCHANGED search
  /\ Ended' \/ (~Ended /\ (pc' = "search" <=> pc = "search"))

LEMMA StayKeepsSearching ==
  ASSUME Searching, SearchStays
  PROVE  Searching'
<1>1. /\ CurrentFv' = CurrentFv /\ fv' = fv /\ file' = file /\ CurrentPeim' = CurrentPeim /\ FindFv' = FindFv
  BY DEF SearchStays, search
<1>2. Place' = Place
  BY <1>1 DEF Place
<1>3. ~Ended' => ~Ended /\ Number' = Number
  BY <1>1 DEF SearchStays, Number
<1> QED BY <1>1, <1>2, <1>3 DEF Searching

\* What moves the search.
SearchMoves == SkipPeim \/ RunPeim \/ NextPeim \/ SwitchCoreStacks \/ NextVolume \/ PassEnds

LEMMA OthersStay ==
  ASSUME [Next]_vars, ~SearchMoves
  PROVE  SearchStays
<1>1. CASE UNCHANGED vars
  BY <1>1 DEF vars, SearchStays, Ended, search
<1>2. CASE Client
  BY <1>2 DEF Client, InstallPpi, ReInstallPpi, NotifyPpi, PeiInstallPeiMemory, SearchStays, Ended, search
<1>3. CASE NotifyFunction \/ NextNotify \/ FunctionReturns
  BY <1>3 DEF NotifyFunction, NextNotify, FunctionReturns, SearchStays, Ended, search
<1>4. CASE PeimReturns \/ Processes
  BY <1>4 DEF PeimReturns, Processes, ProcessNotifies, NotifiesProcessed, ProcessInstalls, InstallsProcessed,
              SearchStays, Ended, search, At
<1>5. CASE EnterDxeIpl
  BY <1>5 DEF EnterDxeIpl, SearchStays, Ended, search
<1> QED BY <1>1, <1>2, <1>3, <1>4, <1>5 DEF Next, Core, SearchMoves, Processes

LEMMA MoveKeepsSearching ==
  ASSUME Searching, SearchMoves
  PROVE  Searching'
<1>1. PICK N : N = Len(FvHobs)
  OBVIOUS
<1>2. /\ N \in Nat /\ CurrentFv \in 0..N /\ CurrentPeim \in Nat /\ fv \in DOMAIN Files
      /\ Len(Files[fv]) \in Nat /\ file \in 0..Len(Files[fv])
  BY <1>1, VolumeTypes DEF Searching
<1>3. ~Ended
  BY DEF SearchMoves, SkipPeim, RunPeim, NextPeim, SwitchCoreStacks, NextVolume, PassEnds, At, Ended
<1>4. /\ IF CurrentFv = 0 THEN fv = BootFv ELSE fv = FvHobs[CurrentFv] /\ fv # BootFv
      /\ Number <= Place /\ (OneHobPerVolume => Number = Place)
      /\ ~FindFv => CurrentFv = 0
  BY <1>3 DEF Searching
<1>5. \A w \in 0..N : Before[w] \in Nat
  BY <1>1, BeforeFacts
<1>6. Place \in Nat
  BY <1>3, PlaceFacts
<1>7. CASE SkipPeim \/ RunPeim
  <2>1. /\ file < Len(Files[fv]) /\ file' = file + 1 /\ pc = "search"
        /\ UNCHANGED <<CurrentFv, fv, FindFv>>
        /\ \/ CurrentPeim' = CurrentPeim + 1 /\ pc' = "search"
           \/ CurrentPeim' = CurrentPeim /\ pc' \in {"peim", "notifies"}
    BY <1>7 DEF SkipPeim, RunPeim, At
  <2>2. Number' = Number + 1 /\ Number \in Nat /\ CurrentPeim' \in Nat
    BY <1>2, <2>1 DEF Number
  <2>3. Place' = Place + 1
    <3>1. CASE CurrentFv = 0
      BY <2>1, <3>1 DEF Place
    <3>2. CASE CurrentFv # 0
      <4>1. PICK a \in Nat : a = Before[CurrentFv - 1]
        <5>1. CurrentFv - 1 \in 0..N
          BY <1>2, <3>2
        <5> QED BY <1>5, <5>1
      <4>2. Place = a + file /\ Place' = a + (file + 1)
        BY <2>1, <3>2, <4>1 DEF Place
      <4> QED BY <1>2, <4>1, <4>2
    <3> QED BY <3>1, <3>2
  <2>4. Number' <= Place' /\ (OneHobPerVolume => Number' = Place')
    BY <1>4, <1>6, <2>2, <2>3
  <2>5. file' \in 0..Len(Files[fv])
    BY <1>2, <2>1
  <2> QED BY <1>1, <1>2, <1>4, <2>1, <2>2, <2>4, <2>5 DEF Searching
<1>8. CASE NextPeim \/ SwitchCoreStacks
  <2>1. /\ UNCHANGED <<CurrentFv, fv, file, FindFv>> /\ pc = "processed" /\ pc' = "search"
        /\ CurrentPeim' = CurrentPeim + 1
    BY <1>8 DEF NextPeim, SwitchCoreStacks, At
  <2>2. Number' = Number /\ Place' = Place /\ CurrentPeim' \in Nat
    BY <1>2, <2>1 DEF Number, Place
  <2> QED BY <1>1, <1>2, <1>4, <2>1, <2>2 DEF Searching
<1>9. CASE NextVolume
  <2>1. PICK v \in NextVolumes :
          /\ \A w \in NextVolumes : v <= w
          /\ CurrentFv' = v /\ fv' = FvHobs[v] /\ file' = 0
    BY <1>9 DEF NextVolume
  <2>2. /\ pc = "search" /\ pc' = "search" /\ CurrentPeim' = CurrentPeim /\ FindFv' = TRUE
        /\ file = Len(Files[fv])
    BY <1>9 DEF NextVolume, At
  <2>3. v \in (CurrentFv + 1)..N /\ FvHobs[v] # BootFv /\ v \in 1..N /\ v - 1 \in CurrentFv..N /\ v # 0
    BY <1>1, <1>2, <2>1 DEF NextVolumes
  <2>4. fv' \in DOMAIN Files /\ Len(Files[fv']) \in Nat
    BY <1>1, <2>1, <2>3, VolumeTypes
  <2>5. Number' = Number /\ Place' = Before[v - 1] /\ Place = Before[CurrentFv]
    <3>1. Before[v - 1] \in Nat
      <4>1. v - 1 \in 0..N
        BY <1>2, <2>3
      <4> QED BY <1>5, <4>1
    <3> QED BY <1>3, <2>1, <2>2, <2>3, <3>1, PlaceFacts DEF Number, Place
  <2>6. /\ Before[CurrentFv] <= Before[v - 1]
        /\ OneHobPerVolume => Before[v - 1] = Before[CurrentFv]
    <3>1. CurrentFv \in 0..Len(FvHobs) /\ v - 1 \in CurrentFv..Len(FvHobs)
      BY <1>1, <1>2, <2>3
    <3>2. ASSUME OneHobPerVolume, NEW w \in (CurrentFv + 1)..(v - 1)
          PROVE  Len(Volume(w)) = 0
      <4>1. w \in (CurrentFv + 1)..N /\ ~(v <= w) /\ w \in 1..N /\ w # CurrentFv
        BY <1>2, <2>3
      <4>2. w \notin NextVolumes
        BY <2>1, <4>1
      <4>3. FvHobs[w] \in {BootFv, fv}
        BY <1>1, <4>1, <4>2 DEF NextVolumes
      <4>4. FvHobs[w] = BootFv
        <5>1. CASE CurrentFv = 0
          BY <1>4, <4>3, <5>1
        <5>2. CASE CurrentFv # 0
          <6>1. CurrentFv \in 1..N /\ fv = FvHobs[CurrentFv]
            BY <1>2, <1>4, <5>2
          <6>2. FvHobs[w] # fv
            BY <1>1, <3>2, <4>1, <6>1 DEF OneHobPerVolume
          <6> QED BY <4>3, <6>2
        <5> QED BY <5>1, <5>2
      <4> QED BY <1>1, <4>1, <4>4, VolumeTypes
    <3> QED BY <3>1, <3>2, BeforeGrows
  <2>7. Number \in Nat /\ Number' <= Place' /\ (OneHobPerVolume => Number' = Place')
    <3>1. Number \in Nat /\ Before[v - 1] \in Nat /\ Before[CurrentFv] \in Nat
      <4>1. v - 1 \in 0..N
        BY <1>2, <2>3
      <4> QED BY <1>2, <1>5, <4>1 DEF Number
    <3> QED BY <1>4, <2>5, <2>6, <3>1
  <2>8. CurrentFv' \in 0..Len(FvHobs) /\ file' \in 0..Len(Files[fv']) /\ CurrentPeim' \in Nat
    BY <1>1, <1>2, <2>1, <2>2, <2>3, <2>4
  <2>9. CurrentFv' # 0 /\ fv' = FvHobs[CurrentFv'] /\ fv' # BootFv
    BY <2>1, <2>3
  <2> QED BY <2>2, <2>4, <2>7, <2>8, <2>9 DEF Searching
<1>10. CASE PassEnds
  <2>1. CASE pc' = "DxeIpl" /\ CurrentFv' = 0 /\ UNCHANGED <<CurrentPeim, file, fv, Previous>>
    <3>1. Ended'
      BY <2>1 DEF Ended
    <3> QED BY <1>1, <1>2, <2>1, <3>1 DEF Searching
  <2>2. CASE NewPass /\ UNCHANGED pc
    <3>1. CurrentPeim' = 0 /\ file' = 0 /\ CurrentFv' = 0 /\ fv' = BootFv
      BY <2>2 DEF NewPass
    <3>2. pc' = "search"
      BY <1>10, <2>2 DEF PassEnds, At
    <3>3. Place' = 0 /\ Number' = 0
      BY <3>1, <3>2 DEF Place, Number
    <3>4. BootFv \in DOMAIN Files /\ Len(Files[BootFv]) \in Nat
      BY VolumeTypes, PeiAssumption
    <3> QED BY <1>1, <1>2, <3>1, <3>3, <3>4 DEF Searching
  <2> QED BY <1>10, <2>1, <2>2 DEF PassEnds
<1> QED BY <1>7, <1>8, <1>9, <1>10 DEF SearchMoves

LEMMA SearchingStep ==
  ASSUME Searching, [Next]_vars
  PROVE  Searching'
BY StayKeepsSearching, OthersStay, MoveKeepsSearching

LEMMA NumberedStep ==
  ASSUME Searching, Numbered, [Next]_vars
  PROVE  Numbered'
<1>1. PICK L \in Nat : L = Len(AllPeims)
  <2>1. AllPeims \in Seq(DOMAIN DepexSection)
    BY PeimsFacts
  <2> QED BY <2>1
<1>2. Bitmap \subseteq 0..(L - 1) /\ Previous \subseteq 0..(L - 1)
  BY <1>1 DEF Numbered
<1>3. Bitmap' \subseteq 0..(L - 1)
  <2>1. CASE Bitmap' = Bitmap
    BY <1>2, <2>1
  <2>2. CASE Bitmap' = Bitmap \cup {CurrentPeim} /\ (RunPeim \/ PeimReturns)
    <3>1. ~Ended /\ CurrentPeim \in Nat /\ Number <= Place
      BY <2>2 DEF RunPeim, PeimReturns, At, Ended, Searching
    <3>2. Place \in 0..L
      BY <1>1, <3>1, PlaceFacts
    <3>3. CASE RunPeim
      <4>1. file < Len(Files[fv]) /\ Number = CurrentPeim
        BY <3>3 DEF RunPeim, At, Number
      <4>2. Place + 1 <= L
        BY <1>1, <3>1, <4>1, PlaceFacts
      <4> QED BY <1>2, <2>2, <3>1, <3>2, <4>1, <4>2
    <3>4. CASE PeimReturns
      <4>1. Number = CurrentPeim + 1
        BY <3>4 DEF PeimReturns, At, Number
      <4> QED BY <1>2, <2>2, <3>1, <3>2, <4>1
    <3> QED BY <2>2, <3>3, <3>4
  <2>3. Bitmap' = Bitmap \/ (Bitmap' = Bitmap \cup {CurrentPeim} /\ (RunPeim \/ PeimReturns))
    <3>1. CASE UNCHANGED vars
      BY <3>1 DEF vars
    <3>2. CASE Client
      BY <3>2 DEF Client, InstallPpi, ReInstallPpi, NotifyPpi, PeiInstallPeiMemory
    <3>3. CASE Core
      BY <3>3 DEF Core, NotifyFunction, NextNotify, FunctionReturns, SkipPeim, RunPeim, PeimReturns,
                  ProcessNotifies, NotifiesProcessed, ProcessInstalls, InstallsProcessed, NextPeim,
                  SwitchCoreStacks, NextVolume, PassEnds, EnterDxeIpl
    <3> QED BY <3>1, <3>2, <3>3 DEF Next
  <2> QED BY <2>1, <2>2, <2>3
<1>4. Previous' = Previous \/ Previous' = Bitmap
  <2>1. CASE SearchMoves
    BY <2>1 DEF SearchMoves, SkipPeim, RunPeim, NextPeim, SwitchCoreStacks, NextVolume, PassEnds, NewPass
  <2>2. CASE ~SearchMoves
    BY <2>2, OthersStay DEF SearchStays, search
  <2> QED BY <2>1, <2>2
<1> QED BY <1>1, <1>2, <1>3, <1>4 DEF Numbered

\* The types of PpiListPtrs, the cursors, the bit map and the stack of the dispatcher (Pei/Ppi/
\* Ppi.c, Pei/Dispatcher/Dispatcher.c) in every state, and no slot that refers to the temporary
\* memory after ConvertPpiPointers: whatever is installed from anywhere.
THEOREM PeiTypeCorrect == Spec => []TypeOK
<1>1. Init => TypeInv /\ Searching /\ Numbered
  BY InitTypes, InitSearching
<1>2. TypeInv /\ Searching /\ Numbered /\ [Next]_vars => (TypeInv /\ Searching /\ Numbered)'
  BY TypeStep, SearchingStep, NumberedStep
<1>3. TypeInv /\ Searching /\ Numbered => TypeOK
  <2> SUFFICES ASSUME TypeInv, Searching, Numbered PROVE TypeOK
    OBVIOUS
  <2>1. /\ ppi \in Seq(Slots(Ppis)) /\ notify \in Seq(Slots(Notifies))
        /\ Len(ppi) \in Nat /\ Len(notify) \in Nat
        /\ DispatchEnd \in Nat /\ LastNotify \in Nat /\ LastInstall \in Nat
    BY DEF TypeInv, Types
  <2>2. Room >= 0
    BY RoomIsNat DEF TypeInv
  <2>3. DispatchEnd \in 0..Len(notify) /\ LastNotify \in 0..DispatchEnd /\ LastInstall \in 0..Len(ppi)
    BY <2>1 DEF TypeInv, Cursors
  <2>4. \A k \in 1..Len(stack) : stack[k].pc \in {"dispatch", "function"}
    <3>1. stack \in Seq(Frames)
      BY DEF TypeInv, Types
    <3>2. \A k \in 1..Len(stack) : stack[k] \in Frames
      BY <3>1
    <3> QED BY <3>2, FrameFields
  <2>5. PeiMemoryInstalled => \A e \in Range(ppi) \cup Range(notify) : e.at # "car"
    <3>1. \A e \in Range(ppi) : \E k \in 1..Len(ppi) : e = ppi[k]
      BY <2>1 DEF Range
    <3>2. \A e \in Range(notify) : \E k \in 1..Len(notify) : e = notify[k]
      BY <2>1 DEF Range
    <3> QED BY <3>1, <3>2 DEF TypeInv, Moved
  <2>6. Bitmap \cup Previous \subseteq 0..(Len(Files[BootFv] \o Others) - 1)
    BY DEF Numbered, AllPeims
  <2>7. fv \in DOMAIN Files /\ file \in 0..Len(Files[fv])
    BY DEF Searching
  <2> QED BY <2>1, <2>2, <2>3, <2>4, <2>5, <2>6, <2>7 DEF TypeOK
<1> QED BY <1>1, <1>2, <1>3, PTL DEF Spec

-----------------------------------------------------------------------------
(* The end of the dispatcher.                                              *)

LEMMA StaysLooked ==
  ASSUME UNCHANGED ppi, Bitmap \subseteq Bitmap', NEW k, Looked(k)
  PROVE  Looked(k)'
<1>1. Installed' = Installed
  BY DEF Installed
<1>2. PICK p : p = AllPeims[k]
  OBVIOUS
<1>3. (k - 1) \in Bitmap \/ ~DepexSatisfied(p) \/ p \notin Loadable
  BY <1>2 DEF Looked
<1>4. DepexSatisfied(p)' = DepexSatisfied(p)
  BY <1>1 DEF DepexSatisfied
<1> QED BY <1>2, <1>3, <1>4 DEF Looked

LEMMA InitPassing == Init => Passing
BY DEF Init, Passing, Ended

\* While something is in progress, or a PEIM runs, no pass ends.
LEMMA BusyKeepsPassing ==
  ASSUME Passing, UNCHANGED <<Bitmap, search, pc>>, stack # <<>> \/ pc = "peim", pc # "DxeIpl"
  PROVE  Passing'
BY DEF Passing, search, Ended

\* What the search has not run, it has looked at.
LEMMA SearchKeepsPassing ==
  ASSUME OneHobPerVolume, TypeInv, Searching, Passing, SkipPeim \/ RunPeim
  PROVE  Passing'
<1>1. /\ pc = "search" /\ stack = <<>> /\ file < Len(Files[fv]) /\ ~Ended
      /\ UNCHANGED <<ppi, Previous, stack>>
  BY DEF SkipPeim, RunPeim, At, Ended, lists
<1>2. Number = CurrentPeim /\ CurrentPeim \in Nat /\ Number = Place
  BY <1>1 DEF Searching, Number
<1>3. PICK peim : peim = Files[fv][file + 1]
  OBVIOUS
<1>4. AllPeims[CurrentPeim + 1] = peim
  BY <1>1, <1>2, <1>3, PlaceFacts
<1>5. CASE SkipPeim
  <2>1. /\ CurrentPeim \in Bitmap \/ ~DepexSatisfied(peim) \/ peim \notin Loadable
        /\ CurrentPeim' = CurrentPeim + 1 /\ UNCHANGED <<Bitmap, pc>>
    BY <1>3, <1>5 DEF SkipPeim
  <2>2. (CurrentPeim + 1) - 1 = CurrentPeim
    BY <1>2
  <2>3. Looked(CurrentPeim + 1)
    BY <1>4, <2>1, <2>2 DEF Looked
  <2>4. ASSUME Bitmap = Previous, NEW k \in 1..(CurrentPeim + 1) PROVE Looked(k)'
    <3>1. k \in 1..CurrentPeim \/ k = CurrentPeim + 1
      BY <1>2
    <3>2. Looked(k)
      BY <1>1, <2>3, <2>4, <3>1 DEF Passing
    <3> QED BY <1>1, <2>1, <3>2, StaysLooked
  <2>5. Bitmap = Previous => \A k \in 1..CurrentPeim' : Looked(k)'
    BY <2>1, <2>4
  <2> QED BY <1>1, <2>1, <2>5 DEF Passing, Ended
<1>6. CASE RunPeim
  <2>1. /\ CurrentPeim \notin Bitmap /\ UNCHANGED CurrentPeim
        /\ \/ pc' = "peim" /\ UNCHANGED Bitmap
           \/ pc' = "notifies" /\ Bitmap' = Bitmap \cup {CurrentPeim}
    BY <1>6 DEF RunPeim
  <2> QED BY <1>1, <2>1 DEF Passing, Ended
<1> QED BY <1>5, <1>6

\* A pass that ends without a PEIM that it ran has looked at all that are known.
LEMMA EndKeepsPassing ==
  ASSUME OneHobPerVolume, TypeInv, Searching, Passing, PassEnds
  PROVE  Passing'
<1>1. /\ pc = "search" /\ stack = <<>> /\ file = Len(Files[fv]) /\ ~Ended
      /\ FindFv \/ FindFvPpiGuid \in Installed => NextVolumes = {}
      /\ FindFv' = (FindFv \/ FindFvPpiGuid \in Installed)
      /\ UNCHANGED <<ppi, Bitmap, stack>>
  BY DEF PassEnds, At, Ended, lists
<1>2. /\ Number = CurrentPeim /\ CurrentPeim \in Nat /\ Number = Place
      /\ IF CurrentFv = 0 THEN fv = BootFv ELSE fv = FvHobs[CurrentFv] /\ fv # BootFv
      /\ ~FindFv => CurrentFv = 0
  BY <1>1 DEF Searching, Number
<1>3. CASE /\ 0..(CurrentPeim - 1) \subseteq Bitmap \/ Bitmap = Previous
           /\ pc' = "DxeIpl" /\ CurrentFv' = 0
           /\ UNCHANGED <<CurrentPeim, file, fv, Previous>>
  <2>1. ASSUME NEW k \in 1..CurrentPeim PROVE Looked(k)'
    <3>1. k - 1 \in 0..(CurrentPeim - 1)
      BY <1>2
    <3>2. CASE 0..(CurrentPeim - 1) \subseteq Bitmap
      <4>1. Looked(k)
        BY <3>1, <3>2 DEF Looked
      <4> QED BY <1>1, <4>1, StaysLooked
    <3>3. CASE Bitmap = Previous
      <4>1. Looked(k)
        BY <1>1, <3>3 DEF Passing
      <4> QED BY <1>1, <4>1, StaysLooked
    <3> QED BY <1>3, <3>2, <3>3
  <2>2. Len(Known') = CurrentPeim
    <3>1. CurrentPeim = Before[CurrentFv]
      BY <1>1, <1>2, PlaceFacts
    <3>2. CASE FindFv'
      <4>1. PICK N \in Nat : N = Len(FvHobs)
        BY VolumeTypes
      <4>2. CurrentFv \in 0..N
        BY <4>1 DEF Searching
      <4>3. ASSUME NEW w \in (CurrentFv + 1)..N PROVE Len(Volume(w)) = 0
        <5>1. w \in 1..N /\ w # CurrentFv
          BY <4>1, <4>2
        <5>2. w \notin NextVolumes
          BY <1>1, <3>2
        <5>3. FvHobs[w] \in {BootFv, fv}
          BY <4>1, <5>2 DEF NextVolumes
        <5>4. FvHobs[w] = BootFv
          <6>1. CASE CurrentFv = 0
            BY <1>2, <5>3, <6>1
          <6>2. CASE CurrentFv # 0
            <7>1. CurrentFv \in 1..N /\ fv = FvHobs[CurrentFv]
              BY <1>2, <4>2, <6>2
            <7>2. FvHobs[w] # fv
              BY <4>1, <5>1, <7>1 DEF OneHobPerVolume
            <7> QED BY <5>3, <7>2
          <6> QED BY <6>1, <6>2
        <5> QED BY <4>1, <5>1, <5>4, VolumeTypes
      <4>4. CurrentFv \in 0..Len(FvHobs) /\ N \in CurrentFv..Len(FvHobs)
        BY <4>1, <4>2
      <4>5. Before[N] = Before[CurrentFv]
        BY <4>3, <4>4, BeforeGrows
      <4>6. Known' = AllPeims
        BY <3>2 DEF Known, AllPeims
      <4>7. Len(AllPeims) = Before[N]
        BY <4>1, PeimsFacts
      <4> QED BY <3>1, <4>5, <4>6, <4>7
    <3>3. CASE ~FindFv'
      <4>1. CurrentFv = 0
        BY <1>1, <1>2, <3>3
      <4>2. Known' = Files[BootFv]
        BY <3>3 DEF Known
      <4> QED BY <3>1, <4>1, <4>2, BeforeFacts
    <3> QED BY <3>2, <3>3
  <2> QED BY <1>1, <1>3, <2>1, <2>2 DEF Passing, Ended
<1>4. CASE NewPass /\ UNCHANGED pc
  <2>1. CurrentPeim' = 0 /\ Previous' = Bitmap /\ pc' = "search"
    BY <1>1, <1>4 DEF NewPass
  <2> QED BY <1>1, <2>1 DEF Passing, Ended
<1> QED BY <1>3, <1>4 DEF PassEnds

LEMMA PassingStep ==
  ASSUME OneHobPerVolume, TypeInv, Searching, Passing, [Next]_vars
  PROVE  Passing'
<1>a. pc = "DxeIpl" => stack = <<>>
  BY DEF TypeInv, Stacked
<1>1. CASE UNCHANGED vars
  <2>1. /\ UNCHANGED <<ppi, Bitmap, Previous, pc, CurrentPeim, stack, FindFv>>
    BY <1>1 DEF vars, lists, search
  <2>2. \A k : Looked(k) => Looked(k)'
    BY <2>1, StaysLooked
  <2>3. Known' = Known
    BY <2>1 DEF Known
  <2> QED BY <2>1, <2>2, <2>3 DEF Passing, Ended
<1>2. CASE Client
  <2>1. UNCHANGED <<Bitmap, search, pc>> /\ Running
    BY <1>2 DEF Client, InstallPpi, ReInstallPpi, NotifyPpi, PeiInstallPeiMemory, Passes
  <2>2. (stack # <<>> \/ pc = "peim") /\ pc # "DxeIpl"
    BY <1>a, <2>1 DEF Running
  <2> QED BY <2>1, <2>2, BusyKeepsPassing
<1>3. CASE NotifyFunction \/ NextNotify \/ FunctionReturns
  <2>1. UNCHANGED <<Bitmap, search, pc>> /\ stack # <<>>
    BY <1>3 DEF NotifyFunction, NextNotify, FunctionReturns
  <2> QED BY <1>a, <2>1, BusyKeepsPassing
<1>4. CASE Processes
  <2>1. /\ UNCHANGED <<Bitmap, search>> /\ pc \in {"notifies", "notified", "installs", "installed"}
        /\ pc' \in {"notifies", "notified", "installs", "installed", "processed"}
    BY <1>4 DEF Processes, ProcessNotifies, NotifiesProcessed, ProcessInstalls, InstallsProcessed, At
  <2> QED BY <2>1 DEF Passing, search, Ended
<1>5. CASE PeimReturns
  <2>1. pc = "peim" /\ pc' = "notifies" /\ Bitmap' = Bitmap \cup {CurrentPeim} /\ UNCHANGED search
    BY <1>5 DEF PeimReturns, At
  <2> QED BY <2>1 DEF Passing, search, Ended
<1>6. CASE NextPeim \/ SwitchCoreStacks
  <2>1. pc = "processed" /\ pc' = "search" /\ UNCHANGED <<Bitmap, Previous>>
    BY <1>6 DEF NextPeim, SwitchCoreStacks, At
  <2> QED BY <2>1 DEF Passing, Ended
<1>7. CASE SkipPeim \/ RunPeim
  BY <1>7, SearchKeepsPassing
<1>8. CASE NextVolume
  <2>1. pc = "search" /\ UNCHANGED <<ppi, Bitmap, Previous, pc, CurrentPeim, stack>>
    BY <1>8 DEF NextVolume, At, lists
  <2>2. \A k : Looked(k) => Looked(k)'
    BY <2>1, StaysLooked
  <2> QED BY <2>1, <2>2 DEF Passing, Ended
<1>9. CASE PassEnds
  BY <1>9, EndKeepsPassing
<1>10. CASE EnterDxeIpl
  <2>1. pc' \in {"Entered", "Asserted"} /\ UNCHANGED <<Bitmap, search>>
    BY <1>10 DEF EnterDxeIpl
  <2> QED BY <2>1 DEF Passing, search, Ended
<1> QED BY <1>1, <1>2, <1>3, <1>4, <1>5, <1>6, <1>7, <1>8, <1>9, <1>10 DEF Next, Core, Processes

\* Where each volume has one HOB, the dispatcher (Dispatcher.c:PeiDispatcher) ends only when each
\* PEIM that it knows of was dispatched, waits for a PPI that is not there, or cannot be loaded.
THEOREM EndsOnlyWhenDone == OneHobPerVolume => (Spec => []EndsWhenDone)
<1> SUFFICES ASSUME OneHobPerVolume PROVE Spec => []EndsWhenDone
  OBVIOUS
<1> DEFINE Inv == TypeInv /\ Searching /\ Passing
<1>1. Init => Inv
  BY InitTypes, InitSearching, InitPassing
<1>2. Inv /\ [Next]_vars => Inv'
  BY TypeStep, SearchingStep, PassingStep
<1>3. Inv => EndsWhenDone
  <2> SUFFICES ASSUME Inv, pc = "DxeIpl", NEW k \in 1..Len(Known)
               PROVE  (k - 1) \in Bitmap \/ ~DepexSatisfied(Known[k]) \/ Known[k] \notin Loadable
    BY DEF EndsWhenDone
  <2>1. Looked(k)
    BY DEF Passing
  <2>2. Known[k] = AllPeims[k]
    <3>1. CASE FindFv
      BY <3>1 DEF Known, AllPeims
    <3>2. CASE ~FindFv
      <4>1. Known = Files[BootFv]
        BY <3>2 DEF Known
      <4> QED BY <4>1, PeimsFacts
    <3> QED BY <3>1, <3>2
  <2>3. PICK p : p = AllPeims[k]
    OBVIOUS
  <2> QED BY <2>1, <2>2, <2>3 DEF Looked
<1>4. QED
  <2> HIDE DEF Inv
  <2> QED BY <1>1, <1>2, <1>3, PTL DEF Spec

-----------------------------------------------------------------------------
(* WALKS.                                                                  *)

\* The lists and the stack, for the steps below.
Shape ==
  /\ stack \in Seq(Frames) /\ Len(ppi) \in Nat /\ Len(notify) \in Nat /\ Len(stack) \in Nat
  /\ DispatchEnd \in 0..Len(notify) /\ LastNotify \in 0..DispatchEnd /\ LastInstall \in 0..Len(ppi)
  /\ TempValue \in Nat
  /\ \A i \in 1..Len(ppi) : ppi[i].d \in Ppis
  /\ \A k \in 1..Len(notify) : notify[k].d \in Notifies
  /\ \A m \in 1..Len(stack) : stack[m] \in Frames

LEMMA ShapeOf ==
  ASSUME TypeInv
  PROVE  Shape
<1>1. /\ ppi \in Seq(Slots(Ppis)) /\ notify \in Seq(Slots(Notifies)) /\ stack \in Seq(Frames)
      /\ DispatchEnd \in Nat /\ LastNotify \in Nat /\ LastInstall \in Nat /\ TempValue \in Nat
  BY DEF TypeInv, Types
<1>2. /\ Len(ppi) \in Nat /\ Len(notify) \in Nat /\ Len(stack) \in Nat
      /\ \A m \in 1..Len(stack) : stack[m] \in Frames
      /\ \A i \in 1..Len(ppi) : ppi[i] \in Slots(Ppis)
      /\ \A k \in 1..Len(notify) : notify[k] \in Slots(Notifies)
  BY <1>1
<1>3. /\ \A i \in 1..Len(ppi) : ppi[i].d \in Ppis
      /\ \A k \in 1..Len(notify) : notify[k].d \in Notifies
  BY <1>2 DEF Slots
<1> QED BY <1>1, <1>2, <1>3 DEF TypeInv, Cursors, Shape

LEMMA ShapeAfter ==
  ASSUME TypeInv'
  PROVE  Shape'
<1>1. /\ ppi' \in Seq(Slots(Ppis)) /\ notify' \in Seq(Slots(Notifies)) /\ stack' \in Seq(Frames)
      /\ DispatchEnd' \in Nat /\ LastNotify' \in Nat /\ LastInstall' \in Nat /\ TempValue' \in Nat
  BY DEF TypeInv, Types
<1>2. /\ Len(ppi') \in Nat /\ Len(notify') \in Nat /\ Len(stack') \in Nat
      /\ \A m \in 1..Len(stack') : stack'[m] \in Frames
      /\ \A i \in 1..Len(ppi') : ppi'[i] \in Slots(Ppis)
      /\ \A k \in 1..Len(notify') : notify'[k] \in Slots(Notifies)
  BY <1>1
<1>3. /\ \A i \in 1..Len(ppi') : ppi'[i].d \in Ppis
      /\ \A k \in 1..Len(notify') : notify'[k].d \in Notifies
  BY <1>2 DEF Slots
<1> QED BY <1>1, <1>2, <1>3 DEF TypeInv, Cursors, Shape

\* The lists grow, and the callbacks move only where no walk goes through them.
Grows ==
  /\ Len(ppi) <= Len(ppi') /\ Len(notify) <= Len(notify') /\ DispatchEnd <= DispatchEnd'
  /\ DispatchEnd' # DispatchEnd => \A m \in 1..Len(stack) : stack[m].level = "DISPATCH"
  /\ \A k \in 1..Len(notify) :
       k <= DispatchEnd \/ DispatchEnd' = DispatchEnd => notify'[k].d = notify[k].d

LEMMA WalkStays ==
  ASSUME Shape, Shape', Grows, NEW f \in Frames, f.pc = "dispatch", IsWalk(f),
         DispatchEnd' # DispatchEnd => f.level = "DISPATCH"
  PROVE  IsWalk(f)'
<1>1. /\ f.k \in Nat /\ f.to \in Nat /\ f.i \in Nat /\ f.first \in Nat /\ f.last \in Nat
      /\ f.level \in Levels
  BY FrameFields
<1>a. /\ Len(ppi) \in Nat /\ Len(notify) \in Nat /\ Len(ppi') \in Nat /\ Len(notify') \in Nat
      /\ DispatchEnd \in Nat /\ DispatchEnd <= Len(notify)
  BY DEF Shape
<1>b. Len(ppi) <= Len(ppi') /\ Len(notify) <= Len(notify') /\ f.last <= Len(ppi) /\ f.to <= Len(notify)
  BY DEF Grows, IsWalk
<1>2. f.last <= Len(ppi') /\ f.to <= Len(notify')
  BY <1>1, <1>a, <1>b
<1>c. DispatchEnd' \in Nat
  BY DEF Shape
<1>3. /\ f.level = "CALLBACK" => DispatchEnd' <= f.k
      /\ f.level = "DISPATCH" => f.to <= DispatchEnd'
  <2>1. DispatchEnd <= DispatchEnd' /\ (f.level = "CALLBACK" => DispatchEnd' = DispatchEnd)
    BY DEF Grows
  <2>2. /\ f.level = "CALLBACK" => DispatchEnd <= f.k
        /\ f.level = "DISPATCH" => f.to <= DispatchEnd
    BY DEF IsWalk
  <2> QED BY <1>1, <1>a, <1>c, <2>1, <2>2
<1>4. ASSUME f.n # NULL
      PROVE  /\ 1 <= f.k /\ f.k <= f.to /\ f.n = notify'[f.k].d
             /\ f.level = "CALLBACK" => DispatchEnd' < f.k
  <2>1. /\ 1 <= f.k /\ f.k <= f.to /\ f.n = notify[f.k].d /\ f.to <= Len(notify)
        /\ f.level = "CALLBACK" => DispatchEnd < f.k
    BY <1>4 DEF IsWalk
  <2>2. f.k \in 1..Len(notify)
    BY <1>1, <1>a, <2>1
  <2>3. f.k <= DispatchEnd \/ DispatchEnd' = DispatchEnd
    <3>1. f.level = "DISPATCH" => f.to <= DispatchEnd
      BY DEF IsWalk
    <3> QED BY <1>1, <1>a, <2>1, <3>1
  <2>4. notify'[f.k].d = notify[f.k].d
    BY <2>2, <2>3 DEF Grows
  <2> QED BY <2>1, <2>4
<1>5. 1 <= f.first /\ 1 <= f.i
  BY DEF IsWalk
<1> QED BY <1>2, <1>3, <1>4, <1>5 DEF IsWalk

\* The walks that are there stay.
LEMMA WalkAtStays ==
  ASSUME Shape, Shape', Grows, NEW m \in 1..Len(stack), WalkAt(m), stack'[m] = stack[m],
         m > 1 => stack'[m - 1] = stack[m - 1]
  PROVE  WalkAt(m)'
<1>1. PICK f \in Frames : f = stack[m]
  BY DEF Shape
<1>2. ASSUME f.pc = "dispatch" PROVE IsWalk(f)' /\ (f.level = "DISPATCH" => m = 1)
  <2>1. IsWalk(f) /\ (f.level = "DISPATCH" => m = 1)
    BY <1>1, <1>2 DEF WalkAt
  <2>2. DispatchEnd' # DispatchEnd => f.level = "DISPATCH"
    BY <1>1 DEF Grows
  <2> QED BY <1>2, <2>1, <2>2, WalkStays
<1>3. ASSUME f.pc = "function"
      PROVE  m > 1 /\ stack'[m - 1].pc = "dispatch" /\ stack'[m - 1].level = f.level
  BY <1>1, <1>3 DEF WalkAt
<1> QED BY <1>1, <1>2, <1>3 DEF WalkAt

\* Another callback walk on top.
LEMMA PushKeepsWalks ==
  ASSUME Shape, Shape', Grows, Walks, NEW f, PushedFrame(f), f.pc = "dispatch", f.level = "CALLBACK", IsWalk(f)'
  PROVE  Walks'
<1>1. SUFFICES ASSUME NEW m \in 1..Len(stack') PROVE WalkAt(m)'
  BY DEF Walks
<1>2. m \in 1..Len(stack) \/ (m = Len(stack) + 1 /\ Len(stack) \in Nat)
  BY DEF PushedFrame
<1>3. CASE m \in 1..Len(stack)
  <2>1. m > 1 => m - 1 \in 1..Len(stack)
    BY <1>3 DEF Shape
  <2> QED BY <1>3, <2>1, WalkAtStays DEF Walks, PushedFrame
<1>4. CASE m = Len(stack) + 1
  <2>1. stack'[m] = f
    BY <1>4 DEF PushedFrame
  <2>2. f.pc # "function" /\ f.level # "DISPATCH"
    OBVIOUS
  <2> QED BY <2>1, <2>2 DEF WalkAt
<1> QED BY <1>2, <1>3, <1>4

LEMMA SameStackKeepsWalks ==
  ASSUME Shape, Shape', Grows, Walks, stack' = stack
  PROVE  Walks'
<1>1. SUFFICES ASSUME NEW m \in 1..Len(stack') PROVE WalkAt(m)'
  BY DEF Walks
<1>2. m \in 1..Len(stack) /\ stack'[m] = stack[m] /\ (m > 1 => stack'[m - 1] = stack[m - 1])
  OBVIOUS
<1> QED BY <1>2, WalkAtStays DEF Walks

LEMMA PopKeepsWalks ==
  ASSUME Shape, Shape', Grows, Walks, Popped
  PROVE  Walks'
<1>1. SUFFICES ASSUME NEW m \in 1..Len(stack') PROVE WalkAt(m)'
  BY DEF Walks
<1>2. m \in 1..(Len(stack) - 1) /\ m \in 1..Len(stack) /\ (m > 1 => m - 1 \in 1..(Len(stack) - 1))
  BY DEF Popped
<1> QED BY <1>2, WalkAtStays DEF Walks, Popped

\* The top walk goes on, and may call a function.
LEMMA TopKeepsWalks ==
  ASSUME Shape, Shape', Grows, Walks, NEW f, f = stack[Len(stack)], f.pc = "dispatch",
         NEW g, TopBecomes(g), IsWalk(g)', g.pc = "dispatch", g.level = f.level,
         NEW c, c.pc = "function", c.level = f.level,
         Len(stack') = Len(stack) \/ (Len(stack') = Len(stack) + 1 /\ stack'[Len(stack) + 1] = c)
  PROVE  Walks'
<1>1. SUFFICES ASSUME NEW m \in 1..Len(stack') PROVE WalkAt(m)'
  BY DEF Walks
<1>2. PICK n \in Nat \ {0} : n = Len(stack)
  BY DEF TopBecomes
<1>3. /\ \A o \in 1..(n - 1) : stack'[o] = stack[o]
      /\ stack'[n] = g
  BY <1>2 DEF TopBecomes
<1>4. m \in 1..(n - 1) \/ m = n \/ (m = n + 1 /\ Len(stack') = n + 1)
  BY <1>2
<1>5. CASE m \in 1..(n - 1)
  <2>1. m \in 1..Len(stack) /\ (m > 1 => m - 1 \in 1..(n - 1))
    BY <1>2, <1>5
  <2> QED BY <1>3, <1>5, <2>1, WalkAtStays DEF Walks
<1>6. CASE m = n
  <2>1. f.level = "DISPATCH" => m = 1
    <3>1. n \in 1..Len(stack)
      BY <1>2
    <3> QED BY <1>2, <1>6, <3>1 DEF Walks, WalkAt
  <2>2. g.pc # "function"
    OBVIOUS
  <2> QED BY <1>3, <1>6, <2>1, <2>2 DEF WalkAt
<1>7. CASE m = n + 1 /\ Len(stack') = n + 1
  <2>1. stack'[m] = c /\ stack'[m - 1] = g /\ m > 1
    BY <1>2, <1>3, <1>7
  <2>2. c.pc # "dispatch"
    OBVIOUS
  <2> QED BY <2>1, <2>2 DEF WalkAt
<1> QED BY <1>4, <1>5, <1>6, <1>7

\* What a walk still comes to is among what there is.
LEMMA WaitsAre ==
  ASSUME Shape, Walks, NEW m \in 1..Len(stack), NEW k \in Nat, NEW i \in Nat, Waits(stack[m], k, i)
  PROVE  /\ stack[m].pc = "dispatch" /\ k <= Len(notify) /\ i <= Len(ppi) /\ k <= stack[m].to
         /\ stack[m].level = "DISPATCH" => k <= DispatchEnd
<1>1. PICK f \in Frames : f = stack[m]
  BY DEF Shape
<1>2. Waits(f, k, i) /\ f.pc = "dispatch" /\ i <= f.last
  BY <1>1 DEF Waits
<1>3. IsWalk(f)
  BY <1>1, <1>2 DEF Walks, WalkAt
<1>4. f.to \in Nat /\ f.last \in Nat /\ f.k \in Nat
  BY <1>2, FrameFields
<1>5. k <= f.to
  BY <1>2, <1>3 DEF Waits, IsWalk
<1>6. f.to <= Len(notify) /\ f.last <= Len(ppi) /\ (f.level = "DISPATCH" => f.to <= DispatchEnd)
  BY <1>3 DEF IsWalk
<1>7. k <= Len(notify) /\ i <= Len(ppi) /\ (f.level = "DISPATCH" => k <= DispatchEnd)
  BY <1>2, <1>4, <1>5, <1>6 DEF Shape
<1> QED BY <1>1, <1>2, <1>5, <1>7

-----------------------------------------------------------------------------
(* EACH NOTIFICATION HEARS.                                                *)

SameEntries ==
  /\ Len(ppi') = Len(ppi) /\ Len(notify') = Len(notify) /\ DispatchEnd' = DispatchEnd
  /\ \A i \in 1..Len(ppi) : ppi'[i].d = ppi[i].d
  /\ \A k \in 1..Len(notify) : notify'[k].d = notify[k].d
  /\ refused' = refused /\ replaced' = replaced

Remembers == \A n \in Notifies, p \in Ppis : told[<<n, p>>] >= 1 => told'[<<n, p>>] >= 1

\* A walk that still came to a PPI comes to it, or has called the function.
WaitsMove ==
  \A k \in 1..Len(notify), i \in 1..Len(ppi), m \in 1..Len(stack) :
    IsFor(notify[k].d, ppi[i].d) /\ Waits(stack[m], k, i) =>
      \/ told'[<<notify[k].d, ppi[i].d>>] >= 1
      \/ m \in 1..Len(stack') /\ Waits(stack'[m], k, i)

LEMMA SameAre ==
  ASSUME UNCHANGED <<ppi, notify, DispatchEnd, refused, replaced>>
  PROVE  SameEntries
BY DEF SameEntries

LEMMA SameGrows ==
  ASSUME Shape, SameEntries
  PROVE  Grows
BY DEF Shape, SameEntries, Grows

LEMMA SameKeepsSorted ==
  ASSUME Sorted, SameEntries
  PROVE  Sorted'
<1>1. SUFFICES ASSUME NEW k \in 1..Len(notify)
               PROVE  /\ k <= DispatchEnd => Level[notify'[k].d] = "DISPATCH"
                      /\ k > DispatchEnd => notify'[k].d \in refused \/ Level[notify'[k].d] = "CALLBACK"
  BY DEF Sorted, SameEntries
<1>2. notify'[k].d = notify[k].d
  BY DEF SameEntries
<1> QED BY <1>2 DEF Sorted

LEMMA SameKeepsCallbacks ==
  ASSUME Shape, CallbacksHear, SameEntries, Remembers, WaitsMove
  PROVE  CallbacksHear'
<1>1. SUFFICES ASSUME NEW k \in (DispatchEnd + 1)..Len(notify), NEW i \in 1..Len(ppi),
                      IsFor(notify[k].d, ppi[i].d)'
               PROVE  Told(k, i)' \/ \E m \in 1..Len(stack') : Waits(stack'[m], k, i)
  BY DEF CallbacksHear, SameEntries
<1>2. k \in 1..Len(notify)
  BY DEF Shape
<1>3. PICK n \in Notifies, p \in Ppis : n = notify[k].d /\ p = ppi[i].d
  BY <1>2 DEF Shape
<1>4. notify'[k].d = n /\ ppi'[i].d = p /\ refused' = refused
  BY <1>2, <1>3 DEF SameEntries
<1>5. IsFor(n, p)
  BY <1>1, <1>4 DEF IsFor
<1>6. Told(k, i) \/ \E m \in 1..Len(stack) : Waits(stack[m], k, i)
  BY <1>3, <1>5 DEF CallbacksHear
<1>7. CASE Told(k, i)
  BY <1>3, <1>4, <1>7 DEF Told, Remembers
<1>8. ASSUME NEW m \in 1..Len(stack), Waits(stack[m], k, i)
      PROVE  Told(k, i)' \/ (m \in 1..Len(stack') /\ Waits(stack'[m], k, i))
  <2>1. told'[<<n, p>>] >= 1 \/ (m \in 1..Len(stack') /\ Waits(stack'[m], k, i))
    BY <1>2, <1>3, <1>5, <1>8 DEF WaitsMove
  <2> QED BY <1>4, <2>1 DEF Told
<1> QED BY <1>6, <1>7, <1>8

LEMMA SameKeepsDispatched ==
  ASSUME Shape, DispatchedHear, SameEntries, Remembers, WaitsMove, UNCHANGED <<LastInstall, LastNotify, TempValue, pc>>
  PROVE  DispatchedHear'
<1>1. SUFFICES ASSUME NEW k \in 1..DispatchEnd, NEW i \in 1..Len(ppi),
                      IsFor(notify[k].d, ppi[i].d)', ppi'[i].d \notin replaced'
               PROVE  /\ k <= LastNotify /\ i <= LastInstall => Told(k, i)'
                      /\ \/ pc = "notified" /\ k <= TempValue /\ i <= LastInstall
                         \/ pc = "installed" /\ k <= LastNotify /\ i <= TempValue
                         => Told(k, i)' \/ (stack' # <<>> /\ Waits(stack'[1], k, i))
  BY DEF DispatchedHear, SameEntries
<1>2. k \in 1..Len(notify)
  BY DEF Shape
<1>3. PICK n \in Notifies, p \in Ppis : n = notify[k].d /\ p = ppi[i].d
  BY <1>2 DEF Shape
<1>4. notify'[k].d = n /\ ppi'[i].d = p /\ refused' = refused /\ replaced' = replaced
  BY <1>2, <1>3 DEF SameEntries
<1>5. IsFor(n, p) /\ p \notin replaced
  BY <1>1, <1>4 DEF IsFor
<1>6. Told(k, i) => Told(k, i)'
  BY <1>3, <1>4 DEF Told, Remembers
<1>7. ASSUME stack # <<>>, Waits(stack[1], k, i)
      PROVE  Told(k, i)' \/ (stack' # <<>> /\ Waits(stack'[1], k, i))
  <2>1. 1 \in 1..Len(stack)
    <3>1. stack \in Seq(Frames) /\ Len(stack) \in Nat
      BY DEF Shape
    <3>2. Len(stack) # 0
      BY <1>7, <3>1
    <3> QED BY <3>1, <3>2
  <2>2. told'[<<n, p>>] >= 1 \/ (1 \in 1..Len(stack') /\ Waits(stack'[1], k, i))
    BY <1>2, <1>3, <1>5, <1>7, <2>1 DEF WaitsMove
  <2>3. 1 \in 1..Len(stack') => stack' # <<>>
    OBVIOUS
  <2> QED BY <1>4, <2>2, <2>3 DEF Told
<1>8. /\ k <= LastNotify /\ i <= LastInstall => Told(k, i)
      /\ \/ pc = "notified" /\ k <= TempValue /\ i <= LastInstall
         \/ pc = "installed" /\ k <= LastNotify /\ i <= TempValue
         => Told(k, i) \/ (stack # <<>> /\ Waits(stack[1], k, i))
  BY <1>3, <1>5 DEF DispatchedHear
<1> QED BY <1>6, <1>7, <1>8

LEMMA SameKeepsHear ==
  ASSUME Shape, Shape', HearInv, SameEntries, Remembers, WaitsMove, Walks',
         UNCHANGED <<LastInstall, LastNotify, TempValue, pc>>
  PROVE  HearInv'
BY SameKeepsSorted, SameKeepsCallbacks, SameKeepsDispatched DEF HearInv

LEMMA StillHears ==
  ASSUME Shape, Shape', HearInv, SameEntries, UNCHANGED <<LastInstall, LastNotify, TempValue, pc, stack, told>>
  PROVE  HearInv'
<1>1. Walks'
  BY SameGrows, SameStackKeepsWalks DEF HearInv
<1>2. WaitsMove /\ Remembers
  BY DEF WaitsMove, Remembers
<1> QED BY <1>1, <1>2, SameKeepsHear

LEMMA MemoryHears ==
  ASSUME Shape, Shape', Types, HearInv, PeiInstallPeiMemory
  PROVE  HearInv'
<1>1. ppi \in Seq(Slots(Ppis)) /\ notify \in Seq(Slots(Notifies))
  BY DEF Types
<1>2. /\ Len(ppi') = Len(ppi) /\ \A k \in 1..Len(ppi) : ppi'[k].d = ppi[k].d
      /\ Len(notify') = Len(notify) /\ \A k \in 1..Len(notify) : notify'[k].d = notify[k].d
  BY <1>1, ConvertedFacts DEF PeiInstallPeiMemory
<1>3. UNCHANGED <<DispatchEnd, refused, replaced, LastInstall, LastNotify, TempValue, pc, stack, told>>
  BY DEF PeiInstallPeiMemory, done, history
<1>4. SameEntries
  BY <1>2, <1>3 DEF SameEntries
<1> QED BY <1>3, <1>4, StillHears

\* The notification is told of a PPI, and its walk goes on behind it.
CallFacts(f, i, g) ==
  /\ CallEffect(f, i) /\ g = [f EXCEPT !.i = i + 1]
  /\ f \in DispatchFrames /\ f.k \in Nat /\ f.to \in Nat /\ f.i \in Nat /\ f.first \in Nat /\ f.last \in Nat
  /\ f.n \in Notifies /\ f.n = notify[f.k].d /\ f.k \in 1..Len(notify)
  /\ i \in 1..Len(ppi) /\ IsWalk(f) /\ (f.level = "DISPATCH" => Len(stack) = 1)
  /\ g \in Frames /\ g.pc = f.pc /\ g.level = f.level /\ g.k = f.k /\ g.to = f.to /\ g.n = f.n
  /\ g.i = i + 1 /\ g.first = f.first /\ g.last = f.last

LEMMA CallsFacts ==
  ASSUME Shape, Walks, NEW f, NEW i, CallEffect(f, i)
  PROVE  \E g : CallFacts(f, i, g)
<1>1. PICK g : g = [f EXCEPT !.i = i + 1]
  OBVIOUS
<1>2. /\ stack # <<>> /\ f = stack[Len(stack)] /\ f \in Frames /\ f.pc = "dispatch"
      /\ f.n # NULL /\ i \in Nat /\ f.i <= i /\ i <= f.last /\ Len(stack) \in Nat \ {0}
  BY DEF CallEffect, TopBecomes
<1>3. /\ f \in DispatchFrames /\ f.k \in Nat /\ f.to \in Nat /\ f.i \in Nat /\ f.first \in Nat /\ f.last \in Nat
      /\ f.n \in Notifies
  BY <1>2, FrameFields
<1>4. PICK n \in Notifies, k \in Nat, i1 \in Nat : n = f.n /\ k = f.k /\ i1 = i + 1
  BY <1>2, <1>3
<1>5. /\ g \in Frames /\ g.pc = f.pc /\ g.level = f.level /\ g.k = f.k /\ g.to = f.to /\ g.n = f.n
      /\ g.i = i + 1 /\ g.first = f.first /\ g.last = f.last
  <2>1. g = [f EXCEPT !.i = i1]
    BY <1>1, <1>4
  <2>2. g \in Frames
    BY <1>3, <1>4, <2>1, WalkedFrame
  <2>3. /\ g.pc = f.pc /\ g.level = f.level /\ g.k = f.k /\ g.to = f.to /\ g.n = f.n
        /\ g.i = i1 /\ g.first = f.first /\ g.last = f.last
    BY <1>3, <1>4, <2>1 DEF DispatchFrames
  <2> QED BY <1>4, <2>2, <2>3
<1>6. PICK m \in 1..Len(stack) : m = Len(stack)
  BY <1>2
<1>7. IsWalk(f) /\ (f.level = "DISPATCH" => Len(stack) = 1)
  BY <1>2, <1>6 DEF Walks, WalkAt
<1>8. f.n = notify[f.k].d /\ 1 <= f.k /\ f.k <= f.to /\ f.to <= Len(notify) /\ f.last <= Len(ppi) /\ 1 <= f.i
  BY <1>2, <1>7 DEF IsWalk
<1>9. f.k \in 1..Len(notify) /\ i \in 1..Len(ppi)
  <2>1. Len(notify) \in Nat /\ Len(ppi) \in Nat
    BY DEF Shape
  <2> QED BY <1>2, <1>3, <1>8, <2>1
<1> QED BY <1>1, <1>3, <1>5, <1>7, <1>8, <1>9 DEF CallFacts

\* After a call nothing waits that did not, and no longer for that PPI.
LEMMA CallWaits ==
  ASSUME Shape, NEW f, NEW i, NEW g, CallFacts(f, i, g), NEW m \in 1..Len(stack'), NEW k \in Nat, NEW j \in Nat,
         Waits(stack'[m], k, j)
  PROVE  m \in 1..Len(stack) /\ Waits(stack[m], k, j) /\ (m = Len(stack) => ~(k = f.k /\ j = i))
<1>1. /\ Len(stack) \in Nat \ {0} /\ stack'[Len(stack)] = g /\ f = stack[Len(stack)]
      /\ \A o \in 1..(Len(stack) - 1) : stack'[o] = stack[o]
      /\ \/ Len(stack') = Len(stack)
         \/ Len(stack') = Len(stack) + 1 /\ stack'[Len(stack) + 1] = CallFrame(f.level)
  BY DEF CallFacts, CallEffect, TopBecomes
<1>2. CASE m \in 1..(Len(stack) - 1)
  BY <1>1, <1>2
<1>3. CASE m = Len(stack)
  <2>1. /\ f.pc = "dispatch" /\ f.n # NULL /\ f.i <= i /\ i \in Nat /\ f.i \in Nat /\ f.k \in Nat
        /\ g.pc = f.pc /\ g.k = f.k /\ g.to = f.to /\ g.n = f.n /\ g.i = i + 1 /\ g.first = f.first /\ g.last = f.last
    BY DEF CallFacts, CallEffect
  <2>2. Waits(g, k, j)
    BY <1>1, <1>3
  <2>3. Waits(f, k, j) /\ ~(k = f.k /\ j = i)
    BY <2>1, <2>2 DEF Waits
  <2> QED BY <1>1, <1>3, <2>3
<1>4. CASE m = Len(stack) + 1
  <2>1. CallFrame(f.level).pc # "dispatch"
    BY DEF CallFrame
  <2> QED BY <1>1, <1>4, <2>1 DEF Waits
<1> QED BY <1>1, <1>2, <1>3, <1>4

Tells(f, i) ==
  \A n \in Notifies, p \in Ppis :
    told'[<<n, p>>] = IF n = f.n /\ p = ppi[i].d THEN told[<<n, p>>] + 1 ELSE told[<<n, p>>]

LEMMA CallTells ==
  ASSUME Types, NEW f, NEW i, CallEffect(f, i)
  PROVE  Tells(f, i)
<1>0. SUFFICES \A n \in Notifies, p \in Ppis :
        told'[<<n, p>>] = IF n = f.n /\ p = ppi[i].d THEN told[<<n, p>>] + 1 ELSE told[<<n, p>>]
  BY DEF Tells
<1>1. PICK D, x : D = Notifies \X Ppis /\ x = <<f.n, ppi[i].d>>
  OBVIOUS
<1>2. told \in [D -> Nat] /\ told' = [told EXCEPT ![x] = @ + 1]
  BY <1>1 DEF Types, CallEffect
<1>3. \A y \in D : told'[y] = IF y = x THEN told[y] + 1 ELSE told[y]
  BY <1>2
<1>4. TAKE n \in Notifies, p \in Ppis
<1>5. <<n, p>> \in D /\ (<<n, p>> = x <=> n = f.n /\ p = ppi[i].d)
  BY <1>1
<1> QED BY <1>3, <1>5

LEMMA CallHears ==
  ASSUME Shape, Shape', Types, HearInv, NotifyFunction
  PROVE  HearInv'
<1>1. PICK f, i : CallEffect(f, i)
  BY NotifyFunctionEffects
<1>2. PICK g : CallFacts(f, i, g)
  BY <1>1, CallsFacts DEF HearInv
<1>3. UNCHANGED <<ppi, notify, DispatchEnd, refused, replaced, LastInstall, LastNotify, TempValue, pc>>
  BY DEF NotifyFunction, lists, done, history
<1>4. SameEntries /\ Grows
  BY <1>3, SameAre, SameGrows
<1>5. \A n \in Notifies, p \in Ppis :
        told'[<<n, p>>] = IF n = f.n /\ p = ppi[i].d THEN told[<<n, p>>] + 1 ELSE told[<<n, p>>]
  <2>1. Tells(f, i)
    BY <1>1, CallTells
  <2> QED BY <2>1 DEF Tells
<1>6. \A n \in Notifies, p \in Ppis : told[<<n, p>>] \in Nat
  BY DEF Types
<1>7. Remembers
  BY <1>5, <1>6 DEF Remembers
<1>8. WaitsMove
  <2>1. SUFFICES ASSUME NEW k \in 1..Len(notify), NEW j \in 1..Len(ppi), NEW m \in 1..Len(stack),
                        IsFor(notify[k].d, ppi[j].d), Waits(stack[m], k, j)
                 PROVE  \/ told'[<<notify[k].d, ppi[j].d>>] >= 1
                        \/ m \in 1..Len(stack') /\ Waits(stack'[m], k, j)
    BY DEF WaitsMove
  <2>2. /\ Len(stack) \in Nat \ {0} /\ f = stack[Len(stack)] /\ stack'[Len(stack)] = g
        /\ \A o \in 1..(Len(stack) - 1) : stack'[o] = stack[o]
        /\ Len(stack') = Len(stack) \/ Len(stack') = Len(stack) + 1
    BY <1>2 DEF CallFacts, CallEffect, TopBecomes
  <2>3. m \in 1..Len(stack')
    BY <2>2
  <2>4. CASE m # Len(stack)
    BY <2>1, <2>2, <2>3, <2>4
  <2>5. CASE m = Len(stack)
    <3>1. Waits(f, k, j)
      BY <2>1, <2>2, <2>5
    <3>2. /\ f.n \in Notifies /\ f.n = notify[f.k].d /\ i \in Nat /\ f.i \in Nat /\ f.k \in Nat
          /\ \A o \in Nat : f.i <= o /\ o < i => Guid[ppi[o].d] # Guid[f.n]
      BY <1>2 DEF CallFacts, CallEffect
    <3>3. CASE Waits(g, k, j)
      BY <2>2, <2>3, <2>5, <3>3
    <3>4. CASE ~Waits(g, k, j)
      <4>1. k = f.k /\ f.i <= j /\ ~(i + 1 <= j)
        <5>1. /\ g.pc = f.pc /\ g.k = f.k /\ g.to = f.to /\ g.n = f.n /\ g.i = i + 1 /\ g.first = f.first
              /\ g.last = f.last
          BY <1>2 DEF CallFacts
        <5> QED BY <3>1, <3>4, <5>1 DEF Waits
      <4>2. j = i
        <5>1. Guid[ppi[j].d] = Guid[f.n]
          BY <2>1, <3>2, <4>1 DEF IsFor
        <5>2. j \in Nat
          OBVIOUS
        <5> QED BY <3>2, <4>1, <5>1, <5>2
      <4>3. notify[k].d = f.n /\ ppi[j].d \in Ppis
        BY <3>2, <4>1 DEF Shape
      <4>4. told'[<<notify[k].d, ppi[j].d>>] = told[<<notify[k].d, ppi[j].d>>] + 1
            /\ told[<<notify[k].d, ppi[j].d>>] \in Nat
        BY <1>5, <1>6, <3>2, <4>2, <4>3
      <4> QED BY <4>4
    <3> QED BY <3>3, <3>4
  <2> QED BY <2>4, <2>5
<1>9. Walks'
  <2>1. PICK c : c = CallFrame(f.level)
    OBVIOUS
  <2>2. c.pc = "function" /\ c.level = f.level
    BY <2>1 DEF CallFrame
  <2>3. IsWalk(g)'
    <3>1. /\ g.pc = f.pc /\ g.level = f.level /\ g.k = f.k /\ g.to = f.to /\ g.n = f.n
          /\ g.i = i + 1 /\ g.first = f.first /\ g.last = f.last /\ i \in Nat /\ IsWalk(f)
      BY <1>2 DEF CallFacts, CallEffect
    <3>2. 1 <= i + 1
      BY <3>1
    <3> QED BY <1>3, <3>1, <3>2 DEF IsWalk
  <2>4. /\ f = stack[Len(stack)] /\ f.pc = "dispatch" /\ TopBecomes(g) /\ g.pc = "dispatch" /\ g.level = f.level
        /\ Len(stack') = Len(stack) \/ (Len(stack') = Len(stack) + 1 /\ stack'[Len(stack) + 1] = c)
    BY <1>2, <2>1 DEF CallFacts, CallEffect
  <2> QED BY <1>4, <2>2, <2>3, <2>4, TopKeepsWalks DEF HearInv
<1> QED BY <1>3, <1>4, <1>7, <1>8, <1>9, SameKeepsHear

\* The walk goes to the next notification.
NextFacts(f, g) ==
  /\ f = stack[Len(stack)] /\ f \in DispatchFrames /\ f.pc = "dispatch" /\ IsWalk(f)
  /\ f.k \in Nat /\ f.to \in Nat /\ f.i \in Nat /\ f.first \in Nat /\ f.last \in Nat
  /\ f.k < f.to /\ f.k + 1 \in 1..Len(notify) /\ notify[f.k + 1].d \in Notifies
  /\ TopBecomes(g) /\ Len(stack') = Len(stack)
  /\ g.pc = f.pc /\ g.level = f.level /\ g.k = f.k + 1 /\ g.to = f.to /\ g.n = notify[f.k + 1].d
  /\ g.i = f.first /\ g.first = f.first /\ g.last = f.last

LEMMA NextsFacts ==
  ASSUME Shape, Walks, NextEffect(stack[Len(stack)])
  PROVE  (\E f, g : NextFacts(f, g)) \/ Popped
<1>1. SUFFICES ASSUME ~Popped PROVE \E f, g : NextFacts(f, g)
  OBVIOUS
<1>2. PICK f, g : /\ f = stack[Len(stack)]
                  /\ g = [f EXCEPT !.k = f.k + 1, !.i = f.first, !.n = notify[f.k + 1].d]
  OBVIOUS
<1>3. f \in Frames /\ f.pc = "dispatch" /\ f.k < f.to /\ TopBecomes(g) /\ Len(stack') = Len(stack)
  BY <1>1, <1>2 DEF NextEffect
<1>4. /\ f \in DispatchFrames /\ f.k \in Nat /\ f.to \in Nat /\ f.i \in Nat /\ f.first \in Nat /\ f.last \in Nat
  BY <1>3, FrameFields
<1>5. IsWalk(f)
  <2>1. PICK m \in 1..Len(stack) : m = Len(stack)
    BY <1>3 DEF TopBecomes
  <2> QED BY <1>2, <1>3, <2>1 DEF Walks, WalkAt
<1>6. f.k + 1 \in 1..Len(notify)
  <2>1. f.to <= Len(notify) /\ Len(notify) \in Nat
    BY <1>5 DEF IsWalk, Shape
  <2> QED BY <1>3, <1>4, <2>1
<1>7. notify[f.k + 1].d \in Notifies
  BY <1>6 DEF Shape
<1>8. PICK n \in Notifies, k \in Nat : n = notify[f.k + 1].d /\ k = f.k + 1
  BY <1>4, <1>7
<1>9. g = [f EXCEPT !.k = k, !.i = f.first, !.n = n]
  BY <1>2, <1>8
<1>10. /\ g.pc = f.pc /\ g.level = f.level /\ g.k = k /\ g.to = f.to /\ g.n = n
       /\ g.i = f.first /\ g.first = f.first /\ g.last = f.last
  BY <1>4, <1>9 DEF DispatchFrames
<1>11. NextFacts(f, g)
  BY <1>2, <1>3, <1>4, <1>5, <1>6, <1>7, <1>8, <1>10 DEF NextFacts
<1> QED BY <1>11

\* After it nothing waits that did not.
LEMMA NextWaits ==
  ASSUME Shape, NEW f, NEW g, NextFacts(f, g), NEW m \in 1..Len(stack'), NEW k \in Nat, NEW j \in Nat,
         Waits(stack'[m], k, j)
  PROVE  m \in 1..Len(stack) /\ Waits(stack[m], k, j)
<1>1. /\ Len(stack) \in Nat \ {0} /\ stack'[Len(stack)] = g /\ f = stack[Len(stack)]
      /\ \A o \in 1..(Len(stack) - 1) : stack'[o] = stack[o]
      /\ Len(stack') = Len(stack)
  BY DEF NextFacts, TopBecomes
<1>2. CASE m \in 1..(Len(stack) - 1)
  BY <1>1, <1>2
<1>3. CASE m = Len(stack)
  <2>1. /\ f.pc = "dispatch" /\ f.k \in Nat /\ f.to \in Nat /\ f.k < f.to /\ f.first \in Nat
        /\ g.pc = f.pc /\ g.k = f.k + 1 /\ g.to = f.to /\ g.i = f.first /\ g.first = f.first /\ g.last = f.last
    BY DEF NextFacts
  <2>2. Waits(g, k, j)
    BY <1>1, <1>3
  <2>3. j <= f.last /\ f.first <= j /\ f.k < k /\ k <= f.to
    BY <2>1, <2>2 DEF Waits
  <2>4. Waits(f, k, j)
    BY <2>1, <2>3 DEF Waits
  <2> QED BY <1>1, <1>3, <2>4
<1> QED BY <1>1, <1>2, <1>3

\* A walk that has been through its PPIs with its notification no longer waits with it.
LEMMA PassedBy ==
  ASSUME Shape, Walks, NextEffect(stack[Len(stack)]), NEW k \in 1..Len(notify), NEW j \in 1..Len(ppi),
         IsFor(notify[k].d, ppi[j].d), Waits(stack[Len(stack)], k, j)
  PROVE  stack[Len(stack)].k < k /\ k <= stack[Len(stack)].to /\ stack[Len(stack)].first <= j
         /\ j <= stack[Len(stack)].last
<1>1. PICK f : f = stack[Len(stack)]
  OBVIOUS
<1>2. /\ stack # <<>> /\ f \in Frames /\ f.pc = "dispatch"
      /\ f.n # NULL => \A i \in Nat : f.i <= i /\ i <= f.last => Guid[ppi[i].d] # Guid[f.n]
  BY <1>1 DEF NextEffect
<1>3. Waits(f, k, j)
  BY <1>1
<1>4. IsWalk(f)
  <2>1. stack \in Seq(Frames) /\ Len(stack) \in Nat
    BY DEF Shape
  <2>2. PICK m \in 1..Len(stack) : m = Len(stack)
    <3>1. Len(stack) # 0
      BY <1>2, <2>1
    <3> QED BY <2>1, <3>1
  <2> QED BY <1>1, <1>2, <2>2 DEF Walks, WalkAt
<1>5. ASSUME f.n # NULL, k = f.k, f.i <= j, j <= f.last PROVE FALSE
  <2>1. f.n = notify[f.k].d
    BY <1>4, <1>5 DEF IsWalk
  <2>2. j \in Nat
    OBVIOUS
  <2>3. Guid[ppi[j].d] = Guid[f.n]
    BY <1>5, <2>1 DEF IsFor
  <2> QED BY <1>2, <1>5, <2>2, <2>3
<1>6. f.k < k /\ k <= f.to /\ f.first <= j /\ j <= f.last
  BY <1>3, <1>5 DEF Waits
<1> QED BY <1>1, <1>6

LEMMA NextHears ==
  ASSUME Shape, Shape', Types, Bounded, HearInv, NextNotify
  PROVE  HearInv'
<1>1. NextEffect(stack[Len(stack)]) /\ Walks
  BY NextNotifyEffects DEF HearInv
<1>2. UNCHANGED <<ppi, notify, DispatchEnd, refused, replaced, LastInstall, LastNotify, TempValue, pc, told>>
  BY DEF NextNotify, lists, done, history
<1>3. SameEntries /\ Grows /\ Remembers
  BY <1>2, SameAre, SameGrows DEF Remembers
<1>4. CASE Popped
  <2>1. Walks'
    BY <1>1, <1>3, <1>4, PopKeepsWalks
  <2>2. WaitsMove
    <3>1. SUFFICES ASSUME NEW k \in 1..Len(notify), NEW j \in 1..Len(ppi), NEW m \in 1..Len(stack),
                          IsFor(notify[k].d, ppi[j].d), Waits(stack[m], k, j)
                   PROVE  m \in 1..Len(stack') /\ Waits(stack'[m], k, j)
      BY DEF WaitsMove
    <3>2. CASE m \in 1..(Len(stack) - 1)
      BY <1>4, <3>1, <3>2 DEF Popped
    <3>3. CASE m = Len(stack)
      <4>1. PICK f \in Frames : f = stack[Len(stack)]
        BY <3>3 DEF Shape
      <4>2. f.k < k /\ k <= f.to
        BY <1>1, <3>1, <3>3, <4>1, PassedBy
      <4>3. f.k \in Nat /\ f.to \in Nat
        BY <1>1, <4>1, FrameFields DEF NextEffect
      <4>4. f.k >= f.to \/ Len(stack') = Len(stack)
        BY <1>1, <4>1 DEF NextEffect
      <4>5. Len(stack') # Len(stack)
        BY <1>4 DEF Popped
      <4> QED BY <4>2, <4>3, <4>4, <4>5
    <3>4. Len(stack) \in Nat
      BY DEF Shape
    <3> QED BY <3>2, <3>3, <3>4
  <2> QED BY <1>2, <1>3, <2>1, <2>2, SameKeepsHear
<1>5. ASSUME NEW f, NEW g, NextFacts(f, g) PROVE HearInv'
  <2>1. /\ f = stack[Len(stack)] /\ f.pc = "dispatch" /\ TopBecomes(g) /\ g.pc = "dispatch" /\ g.level = f.level
        /\ Len(stack') = Len(stack) /\ Len(stack) \in Nat \ {0}
    BY <1>5 DEF NextFacts, TopBecomes
  <2>2. IsWalk(g)'
    <3>1. /\ f.k \in Nat /\ f.to \in Nat /\ f.first \in Nat /\ IsWalk(f) /\ f.k < f.to
          /\ g.level = f.level /\ g.k = f.k + 1 /\ g.to = f.to /\ g.n = notify[f.k + 1].d
          /\ g.i = f.first /\ g.first = f.first /\ g.last = f.last
      BY <1>5 DEF NextFacts
    <3>2. 1 <= f.k + 1 /\ f.k + 1 <= f.to
      BY <3>1
    <3>3. DispatchEnd \in Nat
      BY DEF Shape
    <3>4. f.level = "CALLBACK" => DispatchEnd < f.k + 1 /\ DispatchEnd <= f.k + 1
      BY <3>1, <3>3 DEF IsWalk
    <3> QED BY <1>2, <3>1, <3>2, <3>4 DEF IsWalk
  <2>3. PICK c : c = CallFrame(f.level)
    OBVIOUS
  <2>4. c.pc = "function" /\ c.level = f.level
    BY <2>3 DEF CallFrame
  <2>5. Walks'
    BY <1>1, <1>3, <2>1, <2>2, <2>4, TopKeepsWalks
  <2>6. WaitsMove
    <3>1. SUFFICES ASSUME NEW k \in 1..Len(notify), NEW j \in 1..Len(ppi), NEW m \in 1..Len(stack),
                          IsFor(notify[k].d, ppi[j].d), Waits(stack[m], k, j)
                   PROVE  m \in 1..Len(stack') /\ Waits(stack'[m], k, j)
      BY DEF WaitsMove
    <3>2. CASE m \in 1..(Len(stack) - 1)
      BY <2>1, <3>1, <3>2 DEF TopBecomes
    <3>3. CASE m = Len(stack)
      <4>1. f.k < k /\ k <= f.to /\ f.first <= j /\ j <= f.last
        BY <1>1, <2>1, <3>1, <3>3, PassedBy
      <4>2. /\ f.k \in Nat /\ g.pc = "dispatch" /\ g.k = f.k + 1 /\ g.to = f.to /\ g.n \in Notifies
            /\ g.i = f.first /\ g.first = f.first /\ g.last = f.last
        BY <1>5, <2>1 DEF NextFacts
      <4>3. g.n # NULL
        BY <4>2, PeiAssumption
      <4>4. k = g.k \/ g.k < k
        BY <4>1, <4>2
      <4>5. Waits(g, k, j)
        BY <4>1, <4>2, <4>3, <4>4 DEF Waits
      <4>6. stack'[m] = g /\ m \in 1..Len(stack')
        BY <2>1, <3>3 DEF TopBecomes
      <4> QED BY <4>5, <4>6
    <3> QED BY <2>1, <3>2, <3>3
  <2> QED BY <1>2, <1>3, <2>5, <2>6, SameKeepsHear
<1> QED BY <1>1, <1>4, <1>5, NextsFacts

LEMMA ReturnHears ==
  ASSUME Shape, Shape', Types, HearInv, FunctionReturns
  PROVE  HearInv'
<1>1. Popped /\ stack[Len(stack)].pc = "function"
  BY FunctionReturnsEffects
<1>2. UNCHANGED <<ppi, notify, DispatchEnd, refused, replaced, LastInstall, LastNotify, TempValue, pc, told>>
  BY DEF FunctionReturns, lists, done, history
<1>3. SameEntries /\ Grows /\ Remembers
  BY <1>2, SameAre, SameGrows DEF Remembers
<1>4. Walks'
  BY <1>1, <1>3, PopKeepsWalks DEF HearInv
<1>5. WaitsMove
  <2>1. SUFFICES ASSUME NEW k \in 1..Len(notify), NEW j \in 1..Len(ppi), NEW m \in 1..Len(stack),
                        Waits(stack[m], k, j)
                 PROVE  m \in 1..Len(stack') /\ Waits(stack'[m], k, j)
    BY DEF WaitsMove
  <2>2. m # Len(stack)
    BY <1>1, <2>1 DEF Waits
  <2>3. m \in 1..(Len(stack) - 1)
    <3>1. Len(stack) \in Nat
      BY DEF Shape
    <3> QED BY <2>2, <3>1
  <2> QED BY <1>1, <2>1, <2>3 DEF Popped
<1> QED BY <1>2, <1>3, <1>4, <1>5, SameKeepsHear

LEMMA MovesHear ==
  ASSUME Shape, Shape', HearInv, Moves
  PROVE  HearInv'
<1>1. /\ UNCHANGED <<ppi, notify, DispatchEnd, refused, replaced, LastInstall, LastNotify, TempValue, stack, told>>
      /\ pc' \notin {"notified", "installed"}
  BY MoveEffects DEF MoveEffect, lists, done, history
<1>2. SameEntries /\ Grows /\ Remembers /\ WaitsMove
  BY <1>1, SameAre, SameGrows DEF Remembers, WaitsMove
<1>3. Walks' /\ Sorted' /\ CallbacksHear'
  BY <1>1, <1>2, SameStackKeepsWalks, SameKeepsSorted, SameKeepsCallbacks DEF HearInv
<1>4. DispatchedHear'
  BY <1>1 DEF HearInv, DispatchedHear, IsFor, Told
<1> QED BY <1>3, <1>4 DEF HearInv

\* A walk of the dispatcher, which is alone.
LEMMA AloneWalks ==
  ASSUME Shape, NEW from \in Nat \ {0}, NEW to \in Nat, NEW first \in Nat \ {0}, NEW last \in Nat,
         stack' = <<DispatchFrame("DISPATCH", from, to, first, last)>>,
         to <= DispatchEnd, last <= Len(ppi), UNCHANGED <<ppi, notify, DispatchEnd>>
  PROVE  /\ Walks' /\ stack' # <<>>
         /\ \A k, i \in Nat : from <= k /\ k <= to /\ first <= i /\ i <= last => Waits(stack'[1], k, i)
<1>1. PICK f : f = DispatchFrame("DISPATCH", from, to, first, last)
  OBVIOUS
<1>2. stack' = <<f>>
  BY <1>1
<1>3. /\ f.pc = "dispatch" /\ f.level = "DISPATCH" /\ f.k = from - 1 /\ f.to = to /\ f.n = NULL
      /\ f.i = last + 1 /\ f.first = first /\ f.last = last
  BY <1>1, DispatchFrameFields
<1>4. to <= Len(notify)
  <2>1. DispatchEnd \in Nat /\ DispatchEnd <= Len(notify) /\ Len(notify) \in Nat
    BY DEF Shape
  <2> QED BY <2>1
<1>5. IsWalk(f)'
  <2>1. 1 <= first /\ 1 <= last + 1 /\ f.level # "CALLBACK"
    BY <1>3
  <2> QED BY <1>3, <1>4, <2>1 DEF IsWalk
<1>6. Walks'
  <2>1. SUFFICES ASSUME NEW m \in 1..Len(stack') PROVE WalkAt(m)'
    BY DEF Walks
  <2>2. m = 1 /\ stack'[m] = f
    BY <1>2
  <2>3. f.pc # "function"
    BY <1>3
  <2> QED BY <1>5, <2>2, <2>3 DEF WalkAt
<1>7. ASSUME NEW k \in Nat, NEW i \in Nat, from <= k, k <= to, first <= i, i <= last
      PROVE  Waits(f, k, i)
  <2>1. f.k < k
    BY <1>3, <1>7
  <2> QED BY <1>3, <1>7, <2>1 DEF Waits
<1>8. stack'[1] = f /\ stack' # <<>>
  BY <1>2
<1> QED BY <1>6, <1>7, <1>8

LEMMA ProcessesHear ==
  ASSUME Shape, Shape', Cursors, HearInv, Processes
  PROVE  HearInv'
<1>1. UNCHANGED <<ppi, notify, DispatchEnd, refused, replaced, told>> /\ stack = <<>>
  BY DEF Processes, ProcessNotifies, NotifiesProcessed, ProcessInstalls, InstallsProcessed, At, lists, history
<1>2. SameEntries /\ Grows /\ Remembers /\ WaitsMove
  <2>1. \A m \in 1..Len(stack) : FALSE
    BY <1>1
  <2> QED BY <1>1, <2>1, SameAre, SameGrows DEF Remembers, WaitsMove
<1>3. Sorted' /\ CallbacksHear'
  BY <1>2, SameKeepsSorted, SameKeepsCallbacks DEF HearInv
<1>4. /\ DispatchEnd \in Nat /\ LastNotify \in Nat /\ LastInstall \in Nat /\ Len(ppi) \in Nat /\ TempValue \in Nat
      /\ LastNotify <= DispatchEnd /\ LastInstall <= Len(ppi)
  BY DEF Shape
<1>5. \A k \in 1..DispatchEnd, i \in 1..Len(ppi) :
        IsFor(notify[k].d, ppi[i].d) /\ ppi[i].d \notin replaced =>
          /\ k <= LastNotify /\ i <= LastInstall => Told(k, i)
          /\ pc = "notified" /\ k <= TempValue /\ i <= LastInstall => Told(k, i)
          /\ pc = "installed" /\ k <= LastNotify /\ i <= TempValue => Told(k, i)
  BY <1>1 DEF HearInv, DispatchedHear
<1>6. SUFFICES /\ Walks'
               /\ \A k \in 1..DispatchEnd, i \in 1..Len(ppi) :
                    IsFor(notify[k].d, ppi[i].d) /\ ppi[i].d \notin replaced =>
                      /\ k <= LastNotify' /\ i <= LastInstall' => Told(k, i)
                      /\ \/ pc' = "notified" /\ k <= TempValue' /\ i <= LastInstall'
                         \/ pc' = "installed" /\ k <= LastNotify' /\ i <= TempValue'
                         => Told(k, i) \/ (stack' # <<>> /\ Waits(stack'[1], k, i))
  BY <1>1, <1>3 DEF HearInv, DispatchedHear, IsFor, Told
<1>7. CASE stack' = stack
  <2>1. Walks'
    BY <1>2, <1>7, SameStackKeepsWalks DEF HearInv
  <2>2. \/ /\ pc' \notin {"notified", "installed"} /\ LastInstall' = LastInstall
           /\ LastNotify' = LastNotify \/ (pc = "notified" /\ LastNotify' = TempValue)
        \/ /\ pc' \notin {"notified", "installed"} /\ LastNotify' = LastNotify
           /\ pc = "installed" /\ LastInstall' = TempValue
    <3>1. CASE ProcessNotifies
      <4>1. stack' # <<>> \/ (pc' = "installs" /\ UNCHANGED done)
        BY <3>1 DEF ProcessNotifies
      <4> QED BY <1>1, <1>7, <4>1 DEF done
    <3>2. CASE NotifiesProcessed
      BY <3>2 DEF NotifiesProcessed, At
    <3>3. CASE ProcessInstalls
      <4>1. stack' # <<>> \/ (pc' \in {"processed", "notifies"} /\ UNCHANGED done)
        BY <3>3 DEF ProcessInstalls
      <4> QED BY <1>1, <1>7, <4>1 DEF done
    <3>4. CASE InstallsProcessed
      BY <3>4 DEF InstallsProcessed, At
    <3> QED BY <3>1, <3>2, <3>3, <3>4 DEF Processes
  <2> QED BY <1>5, <2>1, <2>2
<1>8. CASE stack' # stack /\ ProcessNotifies
  <2>1. /\ TempValue' = DispatchEnd /\ pc' = "notified" /\ LastNotify' = LastNotify /\ LastInstall' = LastInstall
        /\ stack' = <<DispatchFrame("DISPATCH", LastNotify + 1, DispatchEnd, 1, LastInstall)>>
    BY <1>8 DEF ProcessNotifies, done
  <2>2. PICK from \in Nat \ {0}, first \in Nat \ {0} : from = LastNotify + 1 /\ first = 1
    BY <1>4
  <2>3. DispatchEnd <= DispatchEnd /\ stack' = <<DispatchFrame("DISPATCH", from, DispatchEnd, first, LastInstall)>>
    BY <1>4, <2>1, <2>2
  <2>4. /\ Walks' /\ stack' # <<>>
        /\ \A k, i \in Nat : from <= k /\ k <= DispatchEnd /\ first <= i /\ i <= LastInstall => Waits(stack'[1], k, i)
    BY <1>1, <1>4, <2>3, AloneWalks
  <2>5. ASSUME NEW k \in 1..DispatchEnd, NEW i \in 1..Len(ppi), i <= LastInstall
        PROVE  k <= LastNotify \/ Waits(stack'[1], k, i)
    <3>1. k \in Nat /\ i \in Nat /\ k <= DispatchEnd /\ first <= i /\ (k <= LastNotify \/ from <= k)
      BY <1>4, <2>2
    <3> QED BY <2>4, <2>5, <3>1
  <2> QED BY <1>5, <2>1, <2>4, <2>5
<1>9. CASE stack' # stack /\ ProcessInstalls
  <2>1. /\ TempValue' = Len(ppi) /\ pc' = "installed" /\ LastNotify' = LastNotify /\ LastInstall' = LastInstall
        /\ stack' = <<DispatchFrame("DISPATCH", 1, DispatchEnd, LastInstall + 1, Len(ppi))>>
    BY <1>9 DEF ProcessInstalls, done
  <2>2. PICK from \in Nat \ {0}, first \in Nat \ {0} : from = 1 /\ first = LastInstall + 1
    BY <1>4
  <2>3. /\ DispatchEnd <= DispatchEnd /\ Len(ppi) <= Len(ppi)
        /\ stack' = <<DispatchFrame("DISPATCH", from, DispatchEnd, first, Len(ppi))>>
    BY <1>4, <2>1, <2>2
  <2>4. /\ Walks' /\ stack' # <<>>
        /\ \A k, i \in Nat : from <= k /\ k <= DispatchEnd /\ first <= i /\ i <= Len(ppi) => Waits(stack'[1], k, i)
    BY <1>1, <1>4, <2>3, AloneWalks
  <2>5. ASSUME NEW k \in 1..DispatchEnd, NEW i \in 1..Len(ppi)
        PROVE  i <= LastInstall \/ Waits(stack'[1], k, i)
    <3>1. k \in Nat /\ i \in Nat /\ k <= DispatchEnd /\ from <= k /\ i <= Len(ppi) /\ (i <= LastInstall \/ first <= i)
      BY <1>4, <2>2
    <3> QED BY <2>4, <3>1
  <2> QED BY <1>5, <2>1, <2>4, <2>5
<1>10. CASE NotifiesProcessed \/ InstallsProcessed
  <2>1. stack' = stack
    BY <1>10 DEF NotifiesProcessed, InstallsProcessed
  <2> QED BY <1>7, <2>1
<1> QED BY <1>7, <1>8, <1>9, <1>10 DEF Processes

\* What is in progress stays in progress.
Kept == \A m \in 1..Len(stack) : m \in 1..Len(stack') /\ stack'[m] = stack[m]

LEMMA KeptFacts ==
  ASSUME Shape, Kept, stack # <<>>
  PROVE  stack' # <<>> /\ stack'[1] = stack[1] /\ 1 \in 1..Len(stack)
<1>1. stack \in Seq(Frames) /\ Len(stack) \in Nat
  BY DEF Shape
<1>2. 1 \in 1..Len(stack)
  <2>1. Len(stack) # 0
    BY <1>1
  <2> QED BY <1>1, <2>1
<1>3. 1 \in 1..Len(stack') /\ stack'[1] = stack[1]
  BY <1>2 DEF Kept
<1>4. 1 \in 1..Len(stack') => stack' # <<>>
  OBVIOUS
<1> QED BY <1>2, <1>3, <1>4

\* A walk on top of what is in progress, and what it waits for.
Started(f, from, to, first, last) ==
  /\ PushedFrame(f) /\ f.pc = "dispatch" /\ f.level = "CALLBACK" /\ IsWalk(f)' /\ Kept
  /\ \A k, i \in Nat : Waits(f, k, i) <=> from <= k /\ k <= to /\ first <= i /\ i <= last

\* A walk of callbacks that is about to start waits for all that it will come to.
LEMMA StartedWalk ==
  ASSUME Shape, Shape', NEW from \in Nat \ {0}, NEW first \in Nat \ {0}, NEW to \in Nat, NEW last \in Nat,
         DispatchEnd' < from, to <= Len(notify'), last <= Len(ppi'), PushesWalk(from, to, first, last)
  PROVE  \E f : Started(f, from, to, first, last)
<1>1. PICK f : f = DispatchFrame("CALLBACK", from, to, first, last)
  OBVIOUS
<1>2. /\ f.pc = "dispatch" /\ f.level = "CALLBACK" /\ f.k = from - 1 /\ f.to = to /\ f.n = NULL
      /\ f.i = last + 1 /\ f.first = first /\ f.last = last
  BY <1>1, DispatchFrameFields
<1>3. f \in Frames
  BY <1>1, FrameIsFrame DEF Levels
<1>4. PushedFrame(f)
  <2>1. stack' = Append(stack, f) /\ stack \in Seq(Frames)
    BY <1>1 DEF PushesWalk, Shape
  <2> QED BY <1>3, <2>1, PushFacts
<1>5. IsWalk(f)'
  <2>1. 1 <= first /\ 1 <= last + 1 /\ DispatchEnd' <= from - 1
    BY DEF Shape
  <2>2. f.level # "DISPATCH"
    BY <1>2
  <2> QED BY <1>2, <2>1, <2>2 DEF IsWalk
<1>6. Kept
  BY <1>4 DEF PushedFrame, Kept
<1>7. ASSUME NEW k \in Nat, NEW i \in Nat
      PROVE  Waits(f, k, i) <=> from <= k /\ k <= to /\ first <= i /\ i <= last
  <2>1. f.k < k <=> from <= k
    BY <1>2
  <2> QED BY <1>2, <2>1 DEF Waits
<1>8. Started(f, from, to, first, last)
  BY <1>2, <1>4, <1>5, <1>6, <1>7 DEF Started
<1> QED BY <1>8

LEMMA InstallHears ==
  ASSUME Shape, Shape', Types, Cursors, HearInv, NEW list \in Seq(Ppis), PeiInstallPpi(list),
         UNCHANGED <<notify, DispatchEnd, LastInstall, LastNotify, TempValue, told, replaced>>,
         pc' = pc \/ pc' = "search"
  PROVE  HearInv'
<1>1. PICK n \in 0..Len(list) : InstallEffect(list, n)
  BY InstallEffects
<1>2. /\ Len(ppi) \in Nat /\ Len(notify) \in Nat /\ DispatchEnd \in Nat /\ Len(list) \in Nat /\ n \in Nat
      /\ Len(ppi') \in Nat
  BY DEF Shape
<1>3. /\ Len(ppi') = Len(ppi) + n /\ refused \subseteq refused'
      /\ \A i \in 1..Len(ppi) : ppi'[i] = ppi[i]
      /\ \A j \in 1..n : ppi'[Len(ppi) + j] = Entry(list[j])
  BY <1>1 DEF InstallEffect
<1>4. Grows
  BY <1>2, <1>3 DEF Grows
<1>5. \/ /\ stack' = stack
         /\ \A i \in (Len(ppi) + 1)..Len(ppi') : ppi'[i].d \in refused'
      \/ \E f : Started(f, DispatchEnd + 1, Len(notify), Len(ppi) + 1, Len(ppi'))
  <2>1. CASE stack' = stack /\ \A j \in 1..n : list[j] \in refused'
    <3>1. ASSUME NEW i \in (Len(ppi) + 1)..Len(ppi') PROVE ppi'[i].d \in refused'
      <4>1. PICK j \in 1..n : i = Len(ppi) + j
        <5>1. i - Len(ppi) \in 1..n /\ i = Len(ppi) + (i - Len(ppi))
          BY <1>2, <1>3
        <5> QED BY <5>1
      <4>2. ppi'[i] = Entry(list[j]) /\ list[j] \in Ppis
        <5>1. j \in 1..Len(list)
          BY <1>2
        <5>2. list[j] \in Ppis
          BY <5>1
        <5> QED BY <1>3, <4>1, <5>2
      <4>3. Entry(list[j]).d = list[j]
        BY <4>2, EntryFacts
      <4> QED BY <2>1, <4>2, <4>3
    <3> QED BY <2>1, <3>1
  <2>2. CASE PushesWalk(DispatchEnd + 1, Len(notify), Len(ppi) + 1, Len(ppi'))
    <3>1. PICK from \in Nat \ {0}, first \in Nat \ {0}, to \in Nat, last \in Nat :
            from = DispatchEnd + 1 /\ to = Len(notify) /\ first = Len(ppi) + 1 /\ last = Len(ppi')
      <4>1. DispatchEnd + 1 \in Nat \ {0} /\ Len(ppi) + 1 \in Nat \ {0}
        BY <1>2
      <4> QED BY <1>2, <4>1
    <3>2. PushesWalk(from, to, first, last)
      BY <2>2, <3>1
    <3>3. DispatchEnd' < from /\ to <= Len(notify') /\ last <= Len(ppi')
      BY <1>2, <3>1
    <3>4. PICK f : Started(f, from, to, first, last)
      BY <3>2, <3>3, StartedWalk
    <3> QED BY <3>1, <3>4
  <2> QED BY <1>1, <2>1, <2>2 DEF InstallEffect
<1>6. Kept
  BY <1>5 DEF Kept, Started
<1>7. Walks'
  BY <1>4, <1>5, SameStackKeepsWalks, PushKeepsWalks DEF HearInv, Started
<1>8. Sorted'
  BY <1>3 DEF HearInv, Sorted
<1>9. CallbacksHear'
  <2>1. SUFFICES ASSUME NEW k \in (DispatchEnd + 1)..Len(notify), NEW i \in 1..Len(ppi'),
                        notify[k].d \notin refused', ppi'[i].d \notin refused',
                        Guid[notify[k].d] = Guid[ppi'[i].d]
                 PROVE  Told(k, i)' \/ \E m \in 1..Len(stack') : Waits(stack'[m], k, i)
    BY DEF CallbacksHear, IsFor
  <2>2. CASE i \in 1..Len(ppi)
    <3>1. ppi'[i] = ppi[i] /\ IsFor(notify[k].d, ppi[i].d)
      BY <1>3, <2>1, <2>2 DEF IsFor
    <3>2. Told(k, i) \/ \E m \in 1..Len(stack) : Waits(stack[m], k, i)
      BY <2>2, <3>1 DEF HearInv, CallbacksHear
    <3>3. Told(k, i) => Told(k, i)'
      BY <3>1 DEF Told
    <3> QED BY <1>6, <3>2, <3>3 DEF Kept
  <2>3. CASE i \in (Len(ppi) + 1)..Len(ppi')
    <3>1. PICK f : Started(f, DispatchEnd + 1, Len(notify), Len(ppi) + 1, Len(ppi'))
      BY <1>5, <2>1, <2>3
    <3>2. k \in Nat /\ i \in Nat
      BY <1>2
    <3>3. Waits(f, k, i)
      BY <1>2, <2>3, <3>1, <3>2 DEF Started
    <3>4. Len(stack) + 1 \in 1..Len(stack') /\ stack'[Len(stack) + 1] = f
      BY <3>1 DEF PushedFrame, Started
    <3> QED BY <3>3, <3>4
  <2> QED BY <1>2, <2>2, <2>3
<1>10. DispatchedHear'
  <2>1. SUFFICES ASSUME NEW k \in 1..DispatchEnd, NEW i \in 1..Len(ppi'),
                        notify[k].d \notin refused', ppi'[i].d \notin refused',
                        Guid[notify[k].d] = Guid[ppi'[i].d], ppi'[i].d \notin replaced
                 PROVE  /\ k <= LastNotify /\ i <= LastInstall => Told(k, i)'
                        /\ \/ pc' = "notified" /\ k <= TempValue /\ i <= LastInstall
                           \/ pc' = "installed" /\ k <= LastNotify /\ i <= TempValue
                           => Told(k, i)' \/ (stack' # <<>> /\ Waits(stack'[1], k, i))
    BY DEF DispatchedHear, IsFor
  <2>2. CASE i \in 1..Len(ppi)
    <3>1. ppi'[i] = ppi[i] /\ IsFor(notify[k].d, ppi[i].d) /\ ppi[i].d \notin replaced
      BY <1>3, <2>1, <2>2 DEF IsFor
    <3>2. /\ k <= LastNotify /\ i <= LastInstall => Told(k, i)
          /\ \/ pc = "notified" /\ k <= TempValue /\ i <= LastInstall
             \/ pc = "installed" /\ k <= LastNotify /\ i <= TempValue
             => Told(k, i) \/ (stack # <<>> /\ Waits(stack[1], k, i))
      BY <2>2, <3>1 DEF HearInv, DispatchedHear
    <3>3. Told(k, i) => Told(k, i)'
      BY <3>1 DEF Told
    <3>4. stack # <<>> => stack' # <<>> /\ stack'[1] = stack[1]
      BY <1>6, KeptFacts
    <3> QED BY <3>2, <3>3, <3>4
  <2>3. CASE i \in (Len(ppi) + 1)..Len(ppi')
    <3>1. LastInstall \in Nat /\ LastInstall <= Len(ppi) /\ TempValue \in Nat
      BY DEF Shape
    <3>2. pc' = "installed" => TempValue <= Len(ppi)
      BY DEF Cursors
    <3> QED BY <1>2, <2>3, <3>1, <3>2
  <2> QED BY <1>2, <2>2, <2>3
<1> QED BY <1>7, <1>8, <1>9, <1>10 DEF HearInv

LEMMA ReplaceHears ==
  ASSUME Shape, Shape', Types, HearInv, NEW old, NEW new \in Ppis, ReInstallPpi(old, new)
  PROVE  HearInv'
<1>1. PICK r : ReplaceEffect(new, r)
  BY ReplaceEffects DEF ReInstallPpi
<1>2. /\ r \in 1..Len(ppi) /\ Len(ppi') = Len(ppi)
      /\ \A i \in 1..Len(ppi) : ppi'[i] = IF i = r THEN Entry(new) ELSE ppi[i]
      /\ PushesWalk(DispatchEnd + 1, Len(notify), r, r)
      /\ replaced' = replaced \cup {new} /\ UNCHANGED <<notify, DispatchEnd, refused>>
  BY <1>1 DEF ReplaceEffect
<1>3. UNCHANGED <<LastInstall, LastNotify, TempValue, pc, told>>
  BY DEF ReInstallPpi, done
<1>4. Len(ppi) \in Nat /\ Len(notify) \in Nat /\ DispatchEnd \in Nat /\ r \in Nat \ {0}
  BY <1>2 DEF Shape
<1>5. Grows
  BY <1>2, <1>4 DEF Grows
<1>6. PICK f : Started(f, DispatchEnd + 1, Len(notify), r, r)
  <2>1. PICK from \in Nat \ {0}, to \in Nat : from = DispatchEnd + 1 /\ to = Len(notify)
    <3>1. DispatchEnd + 1 \in Nat \ {0}
      BY <1>4
    <3> QED BY <1>4, <3>1
  <2>2. PushesWalk(from, to, r, r) /\ DispatchEnd' < from /\ to <= Len(notify') /\ r <= Len(ppi')
    BY <1>2, <1>4, <2>1
  <2>3. PICK f : Started(f, from, to, r, r)
    BY <1>4, <2>2, StartedWalk
  <2> QED BY <2>1, <2>3
<1>a. Kept
  BY <1>6 DEF Started
<1>7. Walks'
  BY <1>5, <1>6, PushKeepsWalks DEF HearInv, Started
<1>8. Sorted'
  BY <1>2 DEF HearInv, Sorted
<1>9. CallbacksHear'
  <2>1. SUFFICES ASSUME NEW k \in (DispatchEnd + 1)..Len(notify), NEW i \in 1..Len(ppi),
                        IsFor(notify[k].d, ppi[i].d)'
                 PROVE  Told(k, i)' \/ \E m \in 1..Len(stack') : Waits(stack'[m], k, i)
    BY <1>2 DEF CallbacksHear
  <2>2. CASE i # r
    <3>1. ppi'[i] = ppi[i] /\ notify' = notify
      BY <1>2, <2>2
    <3>2. IsFor(notify[k].d, ppi[i].d)
      BY <1>2, <2>1, <3>1 DEF IsFor
    <3>3. Told(k, i) \/ \E m \in 1..Len(stack) : Waits(stack[m], k, i)
      BY <3>2 DEF HearInv, CallbacksHear
    <3>4. Told(k, i) => Told(k, i)'
      BY <1>3, <3>1 DEF Told
    <3> QED BY <1>a, <3>3, <3>4 DEF Kept
  <2>3. CASE i = r
    <3>1. k \in Nat /\ DispatchEnd + 1 <= k /\ k <= Len(notify) /\ r <= i /\ i <= r /\ i \in Nat
      BY <1>4, <2>3
    <3>2. Waits(f, k, i)
      BY <1>6, <3>1 DEF Started
    <3>3. Len(stack) + 1 \in 1..Len(stack') /\ stack'[Len(stack) + 1] = f
      BY <1>6 DEF PushedFrame, Started
    <3> QED BY <3>2, <3>3
  <2> QED BY <2>2, <2>3
<1>10. DispatchedHear'
  <2>1. SUFFICES ASSUME NEW k \in 1..DispatchEnd, NEW i \in 1..Len(ppi),
                        IsFor(notify[k].d, ppi[i].d)', ppi'[i].d \notin replaced'
                 PROVE  /\ k <= LastNotify /\ i <= LastInstall => Told(k, i)'
                        /\ \/ pc = "notified" /\ k <= TempValue /\ i <= LastInstall
                           \/ pc = "installed" /\ k <= LastNotify /\ i <= TempValue
                           => Told(k, i)' \/ (stack' # <<>> /\ Waits(stack'[1], k, i))
    BY <1>2, <1>3 DEF DispatchedHear
  <2>2. CASE i # r
    <3>1. ppi'[i] = ppi[i] /\ notify' = notify
      BY <1>2, <2>2
    <3>2. IsFor(notify[k].d, ppi[i].d) /\ ppi[i].d \notin replaced
      BY <1>2, <2>1, <3>1 DEF IsFor
    <3>3. /\ k <= LastNotify /\ i <= LastInstall => Told(k, i)
          /\ \/ pc = "notified" /\ k <= TempValue /\ i <= LastInstall
             \/ pc = "installed" /\ k <= LastNotify /\ i <= TempValue
             => Told(k, i) \/ (stack # <<>> /\ Waits(stack[1], k, i))
      BY <3>2 DEF HearInv, DispatchedHear
    <3>4. Told(k, i) => Told(k, i)'
      BY <1>3, <3>1 DEF Told
    <3>5. stack # <<>> => stack' # <<>> /\ stack'[1] = stack[1]
      BY <1>a, KeptFacts
    <3> QED BY <3>3, <3>4, <3>5
  <2>3. CASE i = r
    <3>1. ppi'[i].d = new
      BY <1>2, <2>3, EntryFacts
    <3> QED BY <1>2, <2>1, <3>1
  <2> QED BY <2>2, <2>3
<1> QED BY <1>7, <1>8, <1>9, <1>10 DEF HearInv

\* Only the functions of the dispatcher's own walk register notifications at dispatch level.
LEMMA OnlyDispatch ==
  ASSUME CallbacksRegisterCallbacks, Shape, Walks, NEW list \in NotifyLists, NotifyPpi(list),
         NEW j \in 1..Len(list), Level[list[j]] = "DISPATCH", list[j] \notin Invalid
  PROVE  \A m \in 1..Len(stack) : stack[m].level = "DISPATCH"
<1>1. SUFFICES ASSUME stack # <<>> PROVE \A m \in 1..Len(stack) : stack[m].level = "DISPATCH"
  BY DEF Shape
<1>2. PICK N \in Nat \ {0} : N = Len(stack)
  <2>1. stack \in Seq(Frames) /\ Len(stack) \in Nat
    BY DEF Shape
  <2>2. Len(stack) # 0
    BY <1>1, <2>1
  <2> QED BY <2>1, <2>2
<1>3. N \in 1..Len(stack)
  BY <1>2
<1>4. PICK f \in Frames : f = stack[N]
  BY <1>3 DEF Shape
<1>5. f.pc = "function" /\ f.level \in Levels
  BY <1>1, <1>2, <1>4, FrameFields DEF NotifyPpi, Passes, Running, Top
<1>6. f.level = "DISPATCH"
  <2>1. list \in Seq(Notifies)
    BY ListTypes
  <2>2. list[j] \in Range(list) \ Invalid
    BY <2>1 DEF Range
  <2>3. Level[list[j]] \in Registers[f.level]
    BY <1>1, <1>2, <1>4, <2>2 DEF NotifyPpi, Top
  <2> QED BY <1>5, <2>3 DEF Levels, CallbacksRegisterCallbacks
<1>7. N > 1 /\ stack[N - 1].pc = "dispatch" /\ stack[N - 1].level = "DISPATCH"
  BY <1>3, <1>4, <1>5, <1>6 DEF Walks, WalkAt
<1>8. N - 1 = 1
  <2>1. N - 1 \in 1..Len(stack)
    BY <1>2, <1>7
  <2> QED BY <1>7, <2>1 DEF Walks, WalkAt
<1>9. \A m \in 1..N : m = N \/ m = N - 1
  BY <1>8
<1>10. stack[N].level = "DISPATCH"
  BY <1>4, <1>6
<1> QED BY <1>2, <1>7, <1>9, <1>10

\* Where a notification is after new ones at dispatch level were registered.
LEMMA NotifyHearsNew ==
  ASSUME CallbacksRegisterCallbacks, Shape, Shape', Cursors, HearInv, NEW list \in NotifyLists, NotifyPpi(list),
         NEW more \in 0..Len(list), NotifyEffect(list, more),
         UNCHANGED <<ppi, LastInstall, LastNotify, TempValue, pc, told, replaced>>
  PROVE  HearInv'
<1>1. list \in Seq(Notifies) /\ Len(list) \in Nat
  BY ListTypes
<1>2. PICK N, L, D : N = Len(notify) /\ L = Len(list) /\ D = DispatchEnd
  OBVIOUS
<1>3. /\ N \in Nat /\ L \in Nat /\ D \in 0..N /\ more \in 0..L /\ more \in Nat /\ Len(ppi) \in Nat
      /\ Len(notify') = N + L /\ DispatchEnd' = D + more /\ refused' = refused
  BY <1>1, <1>2 DEF Shape, NotifyEffect
<1>4. /\ \A k \in 1..D : notify'[k] = notify[k]
      /\ \A k \in (D + 1)..N : notify'[k + more] = notify[k]
      /\ \A k \in (D + 1)..(D + more) :
           \E j \in 1..L : notify'[k] = Entry(list[j]) /\ Level[list[j]] = "DISPATCH"
      /\ more # 0 => \E j \in 1..L : Level[list[j]] = "DISPATCH" /\ list[j] \notin Invalid
      /\ PushesWalk(N + more + 1, N + L, 1, Len(ppi))
  BY <1>2, <1>3 DEF NotifyEffect
<1>5. PICK g \in [1..(L - more) -> 1..L] :
        \A j \in 1..(L - more) : notify'[N + more + j] = Entry(list[g[j]]) /\ Level[list[g[j]]] = "CALLBACK"
  <2>1. PICK g \in [1..(Len(list) - more) -> 1..Len(list)] :
          \A j \in 1..(Len(list) - more) : /\ notify'[Len(notify) + more + j] = Entry(list[g[j]])
                                           /\ Level[list[g[j]]] = "CALLBACK"
    BY DEF NotifyEffect
  <2> QED BY <1>2, <2>1
<1>6. \A j \in 1..L : list[j] \in Notifies /\ Entry(list[j]).d = list[j]
  <2> TAKE j \in 1..L
  <2>1. list[j] \in Notifies
    BY <1>1, <1>2
  <2> QED BY <2>1, EntryFacts
<1>7. more # 0 => \A m \in 1..Len(stack) : stack[m].level = "DISPATCH"
  BY <1>2, <1>4, OnlyDispatch DEF HearInv
<1>8. Grows
  <2>1. ASSUME NEW k \in 1..N, k <= D \/ D + more = D PROVE notify'[k].d = notify[k].d
    <3>1. CASE k \in 1..D
      BY <1>4, <3>1
    <3>2. CASE k \notin 1..D
      <4>1. k \in (D + 1)..N /\ more = 0 /\ k + more = k
        BY <1>3, <2>1, <3>2
      <4>2. notify'[k + more] = notify[k]
        BY <1>4, <4>1
      <4> QED BY <4>1, <4>2
    <3> QED BY <3>1, <3>2
  <2>2. Len(ppi) <= Len(ppi') /\ Len(notify) <= Len(notify') /\ DispatchEnd <= DispatchEnd'
    BY <1>2, <1>3
  <2>3. DispatchEnd' # DispatchEnd => \A m \in 1..Len(stack) : stack[m].level = "DISPATCH"
    BY <1>2, <1>3, <1>7
  <2>4. \A k \in 1..Len(notify) : k <= DispatchEnd \/ DispatchEnd' = DispatchEnd => notify'[k].d = notify[k].d
    BY <1>2, <1>3, <2>1
  <2> QED BY <2>2, <2>3, <2>4 DEF Grows
<1>9. PICK f : Started(f, N + more + 1, N + L, 1, Len(ppi))
  <2>1. PICK from \in Nat \ {0}, to \in Nat, first \in Nat \ {0}, last \in Nat :
          from = N + more + 1 /\ to = N + L /\ first = 1 /\ last = Len(ppi)
    <3>1. N + more + 1 \in Nat \ {0} /\ N + L \in Nat /\ 1 \in Nat \ {0}
      BY <1>3
    <3>2. Len(ppi) \in Nat
      BY <1>3
    <3> QED BY <3>1, <3>2
  <2>2. PushesWalk(from, to, first, last) /\ DispatchEnd' < from /\ to <= Len(notify') /\ last <= Len(ppi')
    BY <1>3, <1>4, <2>1
  <2>3. PICK f : Started(f, from, to, first, last)
    BY <2>2, StartedWalk
  <2> QED BY <2>1, <2>3
<1>10. Kept
  BY <1>9 DEF Started
<1>11. Walks'
  BY <1>8, <1>9, PushKeepsWalks DEF HearInv, Started
\* Every place of the new list.
<1>12. ASSUME NEW k \in 1..(N + L)
       PROVE  \/ k \in 1..D
              \/ k \in (D + 1)..(D + more)
              \/ k - more \in (D + 1)..N /\ (k - more) + more = k
              \/ k - N - more \in 1..(L - more) /\ N + more + (k - N - more) = k
  BY <1>3
<1>13. Sorted'
  <2>1. SUFFICES ASSUME NEW k \in 1..(N + L)
                 PROVE  /\ k <= D + more => Level[notify'[k].d] = "DISPATCH"
                        /\ k > D + more => notify'[k].d \in refused \/ Level[notify'[k].d] = "CALLBACK"
    BY <1>3 DEF Sorted
  <2>2. CASE k \in 1..D
    <3>1. k \in 1..N /\ k <= D /\ k <= D + more /\ ~(k > D + more)
      BY <1>3, <2>2
    <3>2. Level[notify[k].d] = "DISPATCH"
      BY <1>2, <3>1 DEF HearInv, Sorted
    <3> QED BY <1>4, <2>2, <3>1, <3>2
  <2>3. CASE k \in (D + 1)..(D + more)
    <3>1. Level[notify'[k].d] = "DISPATCH"
      BY <1>4, <1>6, <2>3
    <3>2. ~(k > D + more)
      BY <1>3, <2>3
    <3> QED BY <3>1, <3>2
  <2>4. CASE k - more \in (D + 1)..N /\ (k - more) + more = k
    <3>1. PICK l : l = k - more
      OBVIOUS
    <3>2. l \in 1..N /\ l \in (D + 1)..N /\ l > D /\ l + more = k /\ ~(k <= D + more)
      BY <1>3, <2>4, <3>1
    <3>3. notify'[k] = notify[l]
      BY <1>4, <3>2
    <3>4. notify[l].d \in refused \/ Level[notify[l].d] = "CALLBACK"
      BY <1>2, <3>2 DEF HearInv, Sorted
    <3> QED BY <3>2, <3>3, <3>4
  <2>5. CASE k - N - more \in 1..(L - more) /\ N + more + (k - N - more) = k
    <3>1. PICK j \in 1..(L - more) : N + more + j = k
      BY <2>5
    <3>2. notify'[k] = Entry(list[g[j]]) /\ Level[list[g[j]]] = "CALLBACK" /\ g[j] \in 1..L
      BY <1>5, <3>1
    <3>3. ~(k <= D + more)
      BY <1>3, <3>1
    <3> QED BY <1>6, <3>2, <3>3
  <2> QED BY <1>12, <2>2, <2>3, <2>4, <2>5
<1>14. CallbacksHear'
  <2>1. SUFFICES ASSUME NEW k \in (D + more + 1)..(N + L), NEW i \in 1..Len(ppi),
                        notify'[k].d \notin refused, ppi[i].d \notin refused,
                        Guid[notify'[k].d] = Guid[ppi[i].d]
                 PROVE  Told(k, i)' \/ \E m \in 1..Len(stack') : Waits(stack'[m], k, i)
    BY <1>3 DEF CallbacksHear, IsFor
  <2>2. k \in 1..(N + L) /\ k \notin 1..D /\ k \notin (D + 1)..(D + more) /\ k \in Nat /\ i \in Nat
    BY <1>3
  <2>3. CASE k - more \in (D + 1)..N /\ (k - more) + more = k
    <3>1. PICK l : l = k - more
      OBVIOUS
    <3>2. l \in 1..N /\ l \in (D + 1)..N /\ l > D /\ l + more = k /\ l \in Nat
      BY <1>3, <2>3, <3>1
    <3>3. notify'[k] = notify[l]
      BY <1>4, <3>2
    <3>4. Told(l, i) \/ \E m \in 1..Len(stack) : Waits(stack[m], l, i)
      BY <1>2, <2>1, <3>2, <3>3 DEF HearInv, CallbacksHear, IsFor
    <3>5. Told(l, i) => Told(k, i)'
      BY <3>3 DEF Told
    <3>6. ASSUME NEW m \in 1..Len(stack), Waits(stack[m], l, i)
          PROVE  \E o \in 1..Len(stack') : Waits(stack'[o], k, i)
      <4>1. more = 0
        <5>1. SUFFICES ASSUME more # 0 PROVE FALSE
          OBVIOUS
        <5>2. stack[m].level = "DISPATCH"
          BY <1>7, <5>1
        <5>3. l <= DispatchEnd
          BY <2>2, <3>2, <3>6, <5>2, WaitsAre DEF HearInv
        <5> QED BY <1>2, <1>3, <3>2, <5>3
      <4>2. l = k
        BY <3>2, <4>1
      <4> QED BY <1>10, <3>6, <4>2 DEF Kept
    <3> QED BY <3>4, <3>5, <3>6
  <2>4. CASE k - N - more \in 1..(L - more) /\ N + more + (k - N - more) = k
    <3>1. N + more + 1 <= k /\ k <= N + L /\ 1 <= i /\ i <= Len(ppi)
      BY <1>3, <2>4
    <3>2. Waits(f, k, i)
      BY <1>9, <2>2, <3>1 DEF Started
    <3>3. Len(stack) + 1 \in 1..Len(stack') /\ stack'[Len(stack) + 1] = f
      BY <1>9 DEF Started, PushedFrame
    <3> QED BY <3>2, <3>3
  <2> QED BY <1>12, <2>2, <2>3, <2>4
<1>15. DispatchedHear'
  <2>1. SUFFICES ASSUME NEW k \in 1..(D + more), NEW i \in 1..Len(ppi),
                        notify'[k].d \notin refused, ppi[i].d \notin refused,
                        Guid[notify'[k].d] = Guid[ppi[i].d], ppi[i].d \notin replaced
                 PROVE  /\ k <= LastNotify /\ i <= LastInstall => Told(k, i)'
                        /\ \/ pc = "notified" /\ k <= TempValue /\ i <= LastInstall
                           \/ pc = "installed" /\ k <= LastNotify /\ i <= TempValue
                           => Told(k, i)' \/ (stack' # <<>> /\ Waits(stack'[1], k, i))
    BY <1>3 DEF DispatchedHear, IsFor
  <2>2. CASE k \in 1..D
    <3>1. notify'[k] = notify[k]
      BY <1>4, <2>2
    <3>2. IsFor(notify[k].d, ppi[i].d)
      BY <2>1, <3>1 DEF IsFor
    <3>3. /\ k <= LastNotify /\ i <= LastInstall => Told(k, i)
          /\ \/ pc = "notified" /\ k <= TempValue /\ i <= LastInstall
             \/ pc = "installed" /\ k <= LastNotify /\ i <= TempValue
             => Told(k, i) \/ (stack # <<>> /\ Waits(stack[1], k, i))
      BY <1>2, <2>1, <2>2, <3>2 DEF HearInv, DispatchedHear
    <3>4. Told(k, i) => Told(k, i)'
      BY <3>1 DEF Told
    <3>5. stack # <<>> => stack' # <<>> /\ stack'[1] = stack[1]
      BY <1>10, KeptFacts
    <3> QED BY <3>3, <3>4, <3>5
  <2>3. CASE k \notin 1..D
    <3>1. LastNotify \in Nat /\ LastNotify <= D /\ TempValue \in Nat
      BY <1>2, <1>3 DEF Shape
    <3>2. pc = "notified" => TempValue <= D
      BY <1>2 DEF Cursors
    <3> QED BY <1>3, <2>3, <3>1, <3>2
  <2> QED BY <2>2, <2>3
<1> QED BY <1>11, <1>13, <1>14, <1>15 DEF HearInv

\* A list that does not fit.
LEMMA RefuseHears ==
  ASSUME Shape, Shape', HearInv, NEW list \in Seq(Notifies), NEW n \in 0..Len(list), RefuseEffect(list, n),
         UNCHANGED <<ppi, LastInstall, LastNotify, TempValue, pc, told, replaced>>
  PROVE  HearInv'
<1>1. PICK N : N = Len(notify)
  OBVIOUS
<1>2. /\ N \in Nat /\ Len(list) \in Nat /\ n \in Nat /\ Len(notify') = N + n /\ Len(ppi) \in Nat
      /\ refused \subseteq refused' /\ UNCHANGED <<DispatchEnd, stack>> /\ DispatchEnd \in 0..N
      /\ \A k \in 1..N : notify'[k] = notify[k]
  BY <1>1 DEF Shape, RefuseEffect
<1>3. ASSUME NEW k \in (N + 1)..(N + n) PROVE notify'[k].d \in refused'
  <2>1. PICK j \in 1..n : k = N + j
    <3>1. k - N \in 1..n /\ k = N + (k - N)
      BY <1>2
    <3> QED BY <3>1
  <2>2. notify'[k] = Entry(list[j]) /\ list[j] \in refused'
    BY <1>1, <2>1 DEF RefuseEffect
  <2>3. list[j] \in Notifies
    <3>1. j \in 1..Len(list)
      BY <1>2
    <3> QED BY <3>1
  <2> QED BY <2>2, <2>3, EntryFacts
<1>4. Grows
  BY <1>1, <1>2 DEF Grows
<1>5. Walks'
  BY <1>2, <1>4, SameStackKeepsWalks DEF HearInv
<1>6. ASSUME NEW k \in 1..(N + n) PROVE k \in 1..N \/ k \in (N + 1)..(N + n)
  BY <1>2
<1>7. Sorted'
  <2>1. SUFFICES ASSUME NEW k \in 1..(N + n)
                 PROVE  /\ k <= DispatchEnd => Level[notify'[k].d] = "DISPATCH"
                        /\ k > DispatchEnd => notify'[k].d \in refused' \/ Level[notify'[k].d] = "CALLBACK"
    BY <1>2 DEF Sorted
  <2>2. CASE k \in 1..N
    BY <1>1, <1>2, <2>2 DEF HearInv, Sorted
  <2>3. CASE k \in (N + 1)..(N + n)
    <3>1. ~(k <= DispatchEnd)
      BY <1>2, <2>3
    <3> QED BY <1>3, <2>3, <3>1
  <2> QED BY <1>6, <2>2, <2>3
<1>8. CallbacksHear'
  <2>1. SUFFICES ASSUME NEW k \in (DispatchEnd + 1)..(N + n), NEW i \in 1..Len(ppi),
                        notify'[k].d \notin refused', ppi[i].d \notin refused',
                        Guid[notify'[k].d] = Guid[ppi[i].d]
                 PROVE  Told(k, i)' \/ \E m \in 1..Len(stack) : Waits(stack[m], k, i)
    BY <1>2 DEF CallbacksHear, IsFor
  <2>2. k \in 1..N
    <3>1. k \in 1..(N + n)
      BY <1>2
    <3> QED BY <1>3, <1>6, <2>1, <3>1
  <2>3. notify'[k] = notify[k] /\ k \in (DispatchEnd + 1)..N
    BY <1>2, <2>2
  <2>4. Told(k, i) \/ \E m \in 1..Len(stack) : Waits(stack[m], k, i)
    BY <1>1, <1>2, <2>1, <2>3 DEF HearInv, CallbacksHear, IsFor
  <2> QED BY <2>3, <2>4 DEF Told
<1>9. DispatchedHear'
  <2>1. SUFFICES ASSUME NEW k \in 1..DispatchEnd, NEW i \in 1..Len(ppi),
                        notify'[k].d \notin refused', ppi[i].d \notin refused',
                        Guid[notify'[k].d] = Guid[ppi[i].d], ppi[i].d \notin replaced
                 PROVE  /\ k <= LastNotify /\ i <= LastInstall => Told(k, i)'
                        /\ \/ pc = "notified" /\ k <= TempValue /\ i <= LastInstall
                           \/ pc = "installed" /\ k <= LastNotify /\ i <= TempValue
                           => Told(k, i)' \/ (stack # <<>> /\ Waits(stack[1], k, i))
    BY <1>2 DEF DispatchedHear, IsFor
  <2>2. k \in 1..N
    BY <1>2
  <2>3. notify'[k] = notify[k]
    BY <1>2, <2>2
  <2>4. IsFor(notify[k].d, ppi[i].d)
    BY <1>2, <2>1, <2>3 DEF IsFor
  <2>5. /\ k <= LastNotify /\ i <= LastInstall => Told(k, i)
        /\ \/ pc = "notified" /\ k <= TempValue /\ i <= LastInstall
           \/ pc = "installed" /\ k <= LastNotify /\ i <= TempValue
           => Told(k, i) \/ (stack # <<>> /\ Waits(stack[1], k, i))
    BY <2>1, <2>4 DEF HearInv, DispatchedHear
  <2>6. Told(k, i) => Told(k, i)'
    BY <2>3 DEF Told
  <2> QED BY <2>5, <2>6
<1> QED BY <1>5, <1>7, <1>8, <1>9 DEF HearInv

LEMMA InitHear == Init => HearInv
<1> SUFFICES ASSUME Init PROVE HearInv
  OBVIOUS
<1>1. /\ Len(notify) = 1 /\ DispatchEnd = 1 /\ notify[1].d = SecurityNotify
      /\ stack = <<>> /\ pc = "search" /\ LastNotify = 0
  BY DEF Init
<1>2. \A m \in 1..Len(stack) : FALSE
  BY <1>1
<1>3. Walks
  BY <1>2 DEF Walks
<1>4. Sorted
  <2>1. \A k \in 1..1 : k = 1 /\ ~(k > 1)
    OBVIOUS
  <2> QED BY <1>1, <2>1, PeiAssumption DEF Sorted
<1>5. CallbacksHear
  <2>1. \A k \in (DispatchEnd + 1)..Len(notify) : FALSE
    BY <1>1
  <2> QED BY <2>1 DEF CallbacksHear
<1>6. DispatchedHear
  <2>1. \A k \in 1..DispatchEnd : ~(k <= LastNotify)
    BY <1>1
  <2> QED BY <1>1, <2>1 DEF DispatchedHear
<1> QED BY <1>3, <1>4, <1>5, <1>6 DEF HearInv

LEMMA HearStep ==
  ASSUME CallbacksRegisterCallbacks, TypeInv, TypeInv', HearInv, [Next]_vars
  PROVE  HearInv'
<1>0. Shape /\ Shape' /\ Types /\ Cursors /\ Bounded
  BY ShapeOf, ShapeAfter DEF TypeInv
<1>1. ASSUME NEW list \in InstallLists, InstallPpi(list) PROVE HearInv'
  <2>1. list \in Seq(Ppis) /\ PeiInstallPpi(list)
    BY <1>1, ListTypes DEF InstallPpi
  <2>2. UNCHANGED <<notify, DispatchEnd, LastInstall, LastNotify, TempValue, told, replaced>> /\ pc' = pc
    BY <1>1 DEF InstallPpi, done
  <2> QED BY <1>0, <2>1, <2>2, InstallHears
<1>2. CASE SwitchCoreStacks
  <2>1. PICK list : list = <<MemoryDiscovered>>
    OBVIOUS
  <2>2. list \in Seq(Ppis) /\ PeiInstallPpi(list)
    BY <1>2, <2>1, ListTypes DEF SwitchCoreStacks
  <2>3. UNCHANGED <<notify, DispatchEnd, LastInstall, LastNotify, TempValue, told, replaced>> /\ pc' = "search"
    BY <1>2 DEF SwitchCoreStacks, done
  <2> QED BY <1>0, <2>2, <2>3, InstallHears
<1>3. CASE UNCHANGED vars
  <2>1. UNCHANGED <<ppi, notify, DispatchEnd, refused, replaced, LastInstall, LastNotify, TempValue, pc, stack, told>>
    BY <1>3 DEF vars, lists, done, history
  <2> QED BY <1>0, <2>1, SameAre, StillHears
<1>4. CASE Moves
  BY <1>0, <1>4, MovesHear
<1>5. CASE Processes
  BY <1>0, <1>5, ProcessesHear
<1>6. CASE NotifyFunction \/ NextNotify \/ FunctionReturns
  BY <1>0, <1>6, CallHears, NextHears, ReturnHears
<1>7. ASSUME NEW list \in NotifyLists, NotifyPpi(list) PROVE HearInv'
  <2>1. list \in Seq(Notifies) /\ PeiNotifyPpi(list)
    BY <1>7, ListTypes DEF NotifyPpi
  <2>2. UNCHANGED <<ppi, LastInstall, LastNotify, TempValue, pc, told, replaced>>
    BY <1>7 DEF NotifyPpi, done
  <2>3. CASE \E more \in 0..Len(list) : NotifyEffect(list, more)
    BY <1>0, <1>7, <2>2, <2>3, NotifyHearsNew
  <2>4. CASE \E n \in 0..Len(list) : RefuseEffect(list, n)
    BY <1>0, <2>1, <2>2, <2>4, RefuseHears
  <2> QED BY <1>0, <2>1, <2>2, <2>3, <2>4, NotifyEffects
<1>8. ASSUME NEW r \in Replacements, ReInstallPpi(r[1], r[2]) PROVE HearInv'
  <2>1. PICK old, new : old = r[1] /\ new = r[2]
    OBVIOUS
  <2>2. new \in Ppis /\ ReInstallPpi(old, new)
    BY <1>8, <2>1, PeiAssumption
  <2> QED BY <1>0, <2>2, ReplaceHears
<1>9. CASE PeiInstallPeiMemory
  BY <1>0, <1>9, MemoryHears
<1>10. CASE Client
  BY <1>1, <1>7, <1>8, <1>9, <1>10 DEF Client
<1>11. CASE Core
  BY <1>2, <1>4, <1>5, <1>6, <1>11 DEF Core, Moves, Processes
<1> QED BY <1>3, <1>10, <1>11 DEF Next

-----------------------------------------------------------------------------
(* NO CALLBACK HEARS TWICE.                                                *)

GivenGrows ==
  /\ GivenPpis \subseteq GivenPpis' /\ GivenNotifies \subseteq GivenNotifies'
  /\ SwitchStackSignal' => PeiMemoryInstalled'

\* What was passed stays passed, and the memory stays.
Remains ==
  /\ passed \subseteq passed'
  /\ PeiMemoryInstalled => PeiMemoryInstalled'
  /\ SwitchStackSignal' => SwitchStackSignal \/ (~PeiMemoryInstalled /\ PeiMemoryInstalled')

LEMMA RemainsStep ==
  ASSUME [Next]_vars
  PROVE  Remains
<1>1. ASSUME NEW list \in InstallLists, InstallPpi(list) PROVE Remains
  BY <1>1 DEF Remains, InstallPpi, Passes, memory
<1>2. ASSUME NEW list \in NotifyLists, NotifyPpi(list) PROVE Remains
  BY <1>2 DEF Remains, NotifyPpi, Passes, memory
<1>3. ASSUME NEW r \in Replacements, ReInstallPpi(r[1], r[2]) PROVE Remains
  BY <1>3 DEF Remains, ReInstallPpi, PeiReInstallPpi, memory
<1>4. CASE PeiInstallPeiMemory
  BY <1>4 DEF Remains, PeiInstallPeiMemory, history
<1>5. CASE SwitchCoreStacks
  BY <1>5 DEF Remains, SwitchCoreStacks
<1>6. CASE UNCHANGED vars
  BY <1>6 DEF Remains, vars, memory, history
<1>7. CASE NotifyFunction \/ NextNotify \/ FunctionReturns
  BY <1>7 DEF Remains, NotifyFunction, NextNotify, FunctionReturns, memory, history
<1>8. CASE Moves
  BY <1>8 DEF Remains, Moves, SkipPeim, RunPeim, PeimReturns, NextPeim, NextVolume, PassEnds, EnterDxeIpl, memory, history
<1>9. CASE Processes
  BY <1>9 DEF Remains, Processes, ProcessNotifies, NotifiesProcessed, ProcessInstalls, InstallsProcessed, memory, history
<1>10. CASE Client
  BY <1>1, <1>2, <1>3, <1>4, <1>10 DEF Client
<1>11. CASE Core
  BY <1>5, <1>7, <1>8, <1>9, <1>11 DEF Core, Moves, Processes
<1> QED BY <1>6, <1>10, <1>11 DEF Next

LEMMA GivenGrowing ==
  ASSUME Remains, Given
  PROVE  GivenGrows
<1>1. SwitchStackSignal => PeiMemoryInstalled
  BY DEF Given
<1>2. SwitchStackSignal' => PeiMemoryInstalled'
  BY <1>1 DEF Remains
<1>3. PeiMemoryInstalled /\ ~SwitchStackSignal => PeiMemoryInstalled' /\ ~SwitchStackSignal'
  BY DEF Remains
<1>4. passed \cap InstallLists \subseteq passed' \cap InstallLists
      /\ passed \cap NotifyLists \subseteq passed' \cap NotifyLists
  BY DEF Remains
<1>5. GivenPpis \subseteq GivenPpis'
  BY <1>3, <1>4 DEF GivenPpis
<1>6. GivenNotifies \subseteq GivenNotifies'
  BY <1>4 DEF GivenNotifies
<1> QED BY <1>2, <1>5, <1>6 DEF GivenGrows

\* No callback waits that did not.
WaitsLess ==
  \A m \in 1..Len(stack'), k \in 1..Len(notify), i \in 1..Len(ppi) :
    Waits(stack'[m], k, i) /\ Level[notify[k].d] = "CALLBACK" =>
      m \in 1..Len(stack) /\ Waits(stack[m], k, i)

LEMMA SameKeepsGiven ==
  ASSUME Given, GivenGrows, SameEntries, told' = told
  PROVE  Given'
<1>1. replaced' = replaced
  BY DEF SameEntries
<1>2. \A i \in 1..Len(ppi') : ppi'[i].d \in GivenPpis' \cup replaced'
  BY <1>1 DEF SameEntries, Given, GivenGrows
<1>3. \A k \in 1..Len(notify') : notify'[k].d \in GivenNotifies'
  BY DEF SameEntries, Given, GivenGrows
<1>4. \A n \in Notifies, p \in Ppis :
        told'[<<n, p>>] # 0 => n \in GivenNotifies' /\ p \in GivenPpis' \cup replaced'
  BY <1>1 DEF Given, GivenGrows
<1> QED BY <1>2, <1>3, <1>4 DEF Given, GivenGrows

LEMMA SameKeepsOneSlot ==
  ASSUME OneSlot, SameEntries
  PROVE  OneSlot'
BY DEF OneSlot, SameEntries

LEMMA SameOnce ==
  ASSUME OnceInv, GivenGrows, SameEntries, told' = told, WaitsLess
  PROVE  OnceInv'
<1>1. Given' /\ OneSlot'
  BY SameKeepsGiven, SameKeepsOneSlot DEF OnceInv
<1>2. NotTwice'
  <2>1. \A n \in Notifies, p \in Ppis \ (refused' \cup replaced') :
          Level[n] = "CALLBACK" => told'[<<n, p>>] <= 1
    BY DEF OnceInv, NotTwice, SameEntries
  <2>2. ASSUME NEW m \in 1..Len(stack'), NEW k \in 1..Len(notify'), NEW i \in 1..Len(ppi'),
               Waits(stack'[m], k, i), Level[notify'[k].d] = "CALLBACK", ppi'[i].d \notin refused' \cup replaced'
        PROVE  /\ told'[<<notify'[k].d, ppi'[i].d>>] = 0
               /\ \A o \in 1..Len(stack') : Waits(stack'[o], k, i) => o = m
    <3>1. /\ k \in 1..Len(notify) /\ i \in 1..Len(ppi) /\ notify'[k].d = notify[k].d /\ ppi'[i].d = ppi[i].d
          /\ ppi[i].d \notin refused \cup replaced
      BY <2>2 DEF SameEntries
    <3>2. \A o \in 1..Len(stack') : Waits(stack'[o], k, i) => o \in 1..Len(stack) /\ Waits(stack[o], k, i)
      BY <2>2, <3>1 DEF WaitsLess
    <3>3. m \in 1..Len(stack) /\ Waits(stack[m], k, i)
      BY <2>2, <3>2
    <3>4. /\ told[<<notify[k].d, ppi[i].d>>] = 0
          /\ \A o \in 1..Len(stack) : Waits(stack[o], k, i) => o = m
      BY <2>2, <3>1, <3>3 DEF OnceInv, NotTwice
    <3>5. told'[<<notify'[k].d, ppi'[i].d>>] = 0
      BY <3>1, <3>4
    <3> QED BY <3>2, <3>4, <3>5
  <2> QED BY <2>1, <2>2 DEF NotTwice, Waits
<1> QED BY <1>1, <1>2 DEF OnceInv

LEMMA CallOnce ==
  ASSUME Shape, Types, HearInv, OnceInv, GivenGrows, NotifyFunction
  PROVE  OnceInv'
<1>1. PICK f, i : CallEffect(f, i)
  BY NotifyFunctionEffects
<1>2. PICK g : CallFacts(f, i, g)
  BY <1>1, CallsFacts DEF HearInv
<1>3. UNCHANGED <<ppi, notify, DispatchEnd, refused, replaced>>
  BY DEF NotifyFunction, lists, history
<1>4. SameEntries
  BY <1>3, SameAre
<1>5. \A n \in Notifies, p \in Ppis :
        told'[<<n, p>>] = IF n = f.n /\ p = ppi[i].d THEN told[<<n, p>>] + 1 ELSE told[<<n, p>>]
  <2>1. Tells(f, i)
    BY <1>1, CallTells
  <2> QED BY <2>1 DEF Tells
<1>6. PICK h \in 1..Len(notify), q \in 1..Len(ppi) : h = f.k /\ q = i
  BY <1>2 DEF CallFacts
<1>7. f.n \in Notifies /\ f.n = notify[h].d /\ ppi[q].d \in Ppis
  BY <1>2, <1>6 DEF CallFacts, Shape
<1>8. Waits(stack[Len(stack)], h, q) /\ Len(stack) \in 1..Len(stack)
  <2>1. /\ f = stack[Len(stack)] /\ f.pc = "dispatch" /\ f.n # NULL /\ f.i <= q /\ q <= f.last
        /\ Len(stack) \in Nat \ {0}
    BY <1>2, <1>6 DEF CallFacts, CallEffect, TopBecomes
  <2>2. Waits(f, h, q)
    BY <1>6, <2>1 DEF Waits
  <2> QED BY <2>1, <2>2
<1>9. OneSlot'
  BY <1>4, SameKeepsOneSlot DEF OnceInv
<1>10. Given'
  <2>1. \A n \in Notifies, p \in Ppis :
          told'[<<n, p>>] # 0 => n \in GivenNotifies /\ p \in GivenPpis \cup replaced
    <3> TAKE n \in Notifies, p \in Ppis
    <3>1. CASE n = f.n /\ p = ppi[i].d
      BY <1>6, <1>7, <3>1 DEF OnceInv, Given
    <3>2. CASE ~(n = f.n /\ p = ppi[i].d)
      BY <1>5, <3>2 DEF OnceInv, Given
    <3> QED BY <3>1, <3>2
  <2>2. /\ \A j \in 1..Len(ppi') : ppi'[j].d \in GivenPpis' \cup replaced'
        /\ \A k \in 1..Len(notify') : notify'[k].d \in GivenNotifies'
    BY <1>3 DEF OnceInv, Given, GivenGrows
  <2>3. \A n \in Notifies, p \in Ppis :
          told'[<<n, p>>] # 0 => n \in GivenNotifies' /\ p \in GivenPpis' \cup replaced'
    BY <1>3, <2>1 DEF GivenGrows
  <2> QED BY <2>2, <2>3 DEF Given, GivenGrows
<1>11. \A n \in Notifies, p \in Ppis \ (refused' \cup replaced') :
         Level[n] = "CALLBACK" => told'[<<n, p>>] <= 1
  <2> TAKE n \in Notifies, p \in Ppis \ (refused' \cup replaced')
  <2>1. CASE n = f.n /\ p = ppi[i].d
    <3>1. Level[n] = "CALLBACK" => told[<<n, p>>] = 0
      BY <1>3, <1>6, <1>7, <1>8, <2>1 DEF OnceInv, NotTwice
    <3>2. told'[<<n, p>>] = told[<<n, p>>] + 1
      BY <1>5, <2>1
    <3> QED BY <3>1, <3>2
  <2>2. CASE ~(n = f.n /\ p = ppi[i].d)
    <3>1. told'[<<n, p>>] = told[<<n, p>>]
      BY <1>5, <2>2
    <3> QED BY <1>3, <3>1 DEF OnceInv, NotTwice
  <2> QED BY <2>1, <2>2
<1>12. ASSUME NEW m \in 1..Len(stack'), NEW k \in 1..Len(notify), NEW j \in 1..Len(ppi),
              Waits(stack'[m], k, j), Level[notify[k].d] = "CALLBACK", ppi[j].d \notin refused \cup replaced
       PROVE  /\ told'[<<notify[k].d, ppi[j].d>>] = 0
              /\ \A o \in 1..Len(stack') : Waits(stack'[o], k, j) => o = m
  <2>1. k \in Nat /\ j \in Nat
    OBVIOUS
  <2>2. \A o \in 1..Len(stack') : Waits(stack'[o], k, j) =>
          o \in 1..Len(stack) /\ Waits(stack[o], k, j) /\ (o = Len(stack) => ~(k = f.k /\ j = i))
    BY <1>2, <2>1, CallWaits
  <2>3. m \in 1..Len(stack) /\ Waits(stack[m], k, j) /\ (m = Len(stack) => ~(k = f.k /\ j = i))
    BY <1>12, <2>2
  <2>4. /\ told[<<notify[k].d, ppi[j].d>>] = 0
        /\ \A o \in 1..Len(stack) : Waits(stack[o], k, j) => o = m
    BY <1>12, <2>3 DEF OnceInv, NotTwice
  <2>5. ~(notify[k].d = f.n /\ ppi[j].d = ppi[i].d)
    <3>1. SUFFICES ASSUME notify[k].d = f.n, ppi[j].d = ppi[i].d PROVE FALSE
      OBVIOUS
    <3>2. k = h
      BY <1>7, <1>12, <3>1 DEF OnceInv, OneSlot
    <3>3. j = q
      BY <1>6, <1>12, <3>1 DEF OnceInv, OneSlot
    <3>4. Len(stack) = m
      BY <1>8, <2>4, <3>2, <3>3
    <3> QED BY <1>6, <2>3, <3>2, <3>3, <3>4
  <2>6. notify[k].d \in Notifies /\ ppi[j].d \in Ppis
    BY DEF Shape
  <2>7. told'[<<notify[k].d, ppi[j].d>>] = 0
    BY <1>5, <2>4, <2>5, <2>6
  <2> QED BY <2>2, <2>4, <2>7
<1>13. NotTwice'
  <2>1. /\ Len(notify') = Len(notify) /\ Len(ppi') = Len(ppi) /\ notify' = notify /\ ppi' = ppi
        /\ refused' = refused /\ replaced' = replaced
    BY <1>3
  <2> QED BY <1>11, <1>12, <2>1 DEF NotTwice, Waits
<1> QED BY <1>9, <1>10, <1>13 DEF OnceInv

LEMMA NextOnce ==
  ASSUME Shape, Types, Bounded, HearInv, OnceInv, GivenGrows, NextNotify
  PROVE  OnceInv'
<1>1. NextEffect(stack[Len(stack)]) /\ Walks
  BY NextNotifyEffects DEF HearInv
<1>2. UNCHANGED <<ppi, notify, DispatchEnd, refused, replaced, told>>
  BY DEF NextNotify, lists, history
<1>3. SameEntries
  BY <1>2, SameAre
<1>4. CASE Popped
  <2>1. WaitsLess
    BY <1>4 DEF WaitsLess, Popped
  <2> QED BY <1>2, <1>3, <2>1, SameOnce
<1>5. CASE \E f, g : NextFacts(f, g)
  <2>1. PICK f, g : NextFacts(f, g)
    BY <1>5
  <2>2. \A k \in 1..Len(notify), i \in 1..Len(ppi) : k \in Nat /\ i \in Nat
    OBVIOUS
  <2>3. WaitsLess
    BY <2>1, <2>2, NextWaits DEF WaitsLess
  <2> QED BY <1>2, <1>3, <2>3, SameOnce
<1> QED BY <1>1, <1>4, <1>5, NextsFacts

LEMMA ReturnOnce ==
  ASSUME Types, OnceInv, GivenGrows, FunctionReturns
  PROVE  OnceInv'
<1>1. Popped
  BY FunctionReturnsEffects
<1>2. UNCHANGED <<ppi, notify, DispatchEnd, refused, replaced, told>>
  BY DEF FunctionReturns, lists, history
<1>3. WaitsLess
  BY <1>1 DEF WaitsLess, Popped
<1> QED BY <1>2, <1>3, SameAre, SameOnce

\* What is in progress stays so.
LEMMA StillOnce ==
  ASSUME OnceInv, GivenGrows, SameEntries, UNCHANGED <<stack, told>>
  PROVE  OnceInv'
<1>1. WaitsLess
  BY DEF WaitsLess
<1> QED BY <1>1, SameOnce

\* No callback is in the dispatcher's own walk.
LEMMA ProcessesOnce ==
  ASSUME Shape, Cursors, HearInv, OnceInv, GivenGrows, Processes
  PROVE  OnceInv'
<1>1. UNCHANGED <<ppi, notify, DispatchEnd, refused, replaced, told>> /\ stack = <<>>
  BY DEF Processes, ProcessNotifies, NotifiesProcessed, ProcessInstalls, InstallsProcessed, At, lists, history
<1>2. SameEntries
  BY <1>1, SameAre
<1>3. CASE stack' = stack
  BY <1>1, <1>2, <1>3, StillOnce
<1>4. ASSUME NEW from \in Nat \ {0}, NEW first, NEW last,
             stack' = <<DispatchFrame("DISPATCH", from, DispatchEnd, first, last)>>
      PROVE  OnceInv'
  <2>1. PICK f : f = DispatchFrame("DISPATCH", from, DispatchEnd, first, last)
    OBVIOUS
  <2>2. stack' = <<f>> /\ f.to = DispatchEnd /\ f.n = NULL
    BY <1>4, <2>1 DEF DispatchFrame
  <2>3. \A k \in 1..Len(notify), i \in 1..Len(ppi) : Waits(f, k, i) => Level[notify[k].d] # "CALLBACK"
    <3> SUFFICES ASSUME NEW k \in 1..Len(notify), NEW i \in 1..Len(ppi), Waits(f, k, i)
                 PROVE  Level[notify[k].d] # "CALLBACK"
      OBVIOUS
    <3>1. k <= DispatchEnd
      BY <2>2 DEF Waits
    <3> QED BY <3>1 DEF HearInv, Sorted
  <2>4. Len(stack') = 1 /\ stack'[1] = f
    BY <2>2
  <2>5. WaitsLess
    <3>1. \A m \in 1..Len(stack') : stack'[m] = f
      BY <2>4
    <3> QED BY <2>3, <3>1 DEF WaitsLess
  <2> QED BY <1>1, <1>2, <2>5, SameOnce
<1>5. CASE stack' # stack /\ ProcessNotifies
  <2>1. stack' = <<DispatchFrame("DISPATCH", LastNotify + 1, DispatchEnd, 1, LastInstall)>>
    BY <1>5 DEF ProcessNotifies
  <2>2. LastNotify + 1 \in Nat \ {0}
    BY DEF Shape
  <2> QED BY <1>4, <2>1, <2>2
<1>6. CASE stack' # stack /\ ProcessInstalls
  <2>1. stack' = <<DispatchFrame("DISPATCH", 1, DispatchEnd, LastInstall + 1, Len(ppi))>>
    BY <1>6 DEF ProcessInstalls
  <2>2. 1 \in Nat \ {0}
    OBVIOUS
  <2> QED BY <1>4, <2>1, <2>2
<1>7. CASE NotifiesProcessed \/ InstallsProcessed
  <2>1. stack' = stack
    BY <1>7 DEF NotifiesProcessed, InstallsProcessed
  <2> QED BY <1>3, <2>1
<1> QED BY <1>3, <1>5, <1>6, <1>7 DEF Processes

LEMMA MemoryOnce ==
  ASSUME Types, OnceInv, GivenGrows, PeiInstallPeiMemory
  PROVE  OnceInv'
<1>1. ppi \in Seq(Slots(Ppis)) /\ notify \in Seq(Slots(Notifies))
  BY DEF Types
<1>2. /\ Len(ppi') = Len(ppi) /\ \A k \in 1..Len(ppi) : ppi'[k].d = ppi[k].d
      /\ Len(notify') = Len(notify) /\ \A k \in 1..Len(notify) : notify'[k].d = notify[k].d
  BY <1>1, ConvertedFacts DEF PeiInstallPeiMemory
<1>3. UNCHANGED <<DispatchEnd, refused, replaced, stack, told>>
  BY DEF PeiInstallPeiMemory, history
<1>4. SameEntries
  BY <1>2, <1>3 DEF SameEntries
<1> QED BY <1>3, <1>4, StillOnce

LEMMA MovesOnce ==
  ASSUME OnceInv, GivenGrows, Moves
  PROVE  OnceInv'
<1>1. UNCHANGED <<ppi, notify, DispatchEnd, refused, replaced, stack, told>>
  BY MoveEffects DEF MoveEffect, lists, history
<1> QED BY <1>1, SameAre, StillOnce

\* A new walk waits only with what it is for.
LEMMA PushWaits ==
  ASSUME Shape, Walks, NEW from \in Nat \ {0}, NEW to \in Nat, NEW first \in Nat \ {0}, NEW last \in Nat,
         PushesWalk(from, to, first, last),
         NEW m \in 1..Len(stack'), NEW k \in Nat, NEW i \in Nat, Waits(stack'[m], k, i)
  PROVE  \/ m = Len(stack) + 1 /\ from <= k /\ k <= to /\ first <= i /\ i <= last
         \/ m \in 1..Len(stack) /\ Waits(stack[m], k, i) /\ k <= Len(notify) /\ i <= Len(ppi)
            /\ (stack[m].level = "DISPATCH" => k <= DispatchEnd)
<1>1. PICK f : f = DispatchFrame("CALLBACK", from, to, first, last)
  OBVIOUS
<1>2. f \in Frames /\ f.k = from - 1 /\ f.to = to /\ f.n = NULL /\ f.first = first /\ f.last = last
  <2>1. f \in Frames
    BY <1>1, FrameIsFrame DEF Levels
  <2>2. f.k = from - 1 /\ f.to = to /\ f.n = NULL /\ f.first = first /\ f.last = last
    BY <1>1, DispatchFrameFields
  <2> QED BY <2>1, <2>2
<1>3. stack' = Append(stack, f) /\ stack \in Seq(Frames)
  BY <1>1 DEF PushesWalk, Shape
<1>4. PushedFrame(f)
  BY <1>2, <1>3, PushFacts
<1>5. CASE m = Len(stack) + 1
  <2>1. Waits(f, k, i)
    BY <1>4, <1>5 DEF PushedFrame
  <2> QED BY <1>2, <1>5, <2>1 DEF Waits
<1>6. CASE m \in 1..Len(stack)
  <2>1. Waits(stack[m], k, i)
    BY <1>4, <1>6 DEF PushedFrame
  <2> QED BY <1>6, <2>1, WaitsAre
<1>7. m \in 1..Len(stack) \/ m = Len(stack) + 1
  BY <1>4 DEF PushedFrame
<1> QED BY <1>5, <1>6, <1>7

\* The PPIs of a list that no list had before.
NewPpis(list) ==
  /\ \A j \in 1..Len(list) : list[j] \notin GivenPpis /\ list[j] \in GivenPpis'
  /\ \A i, j \in 1..Len(list) : list[i] = list[j] => i = j

LEMMA ListPpisAreNew ==
  ASSUME OwnDescriptors, NEW list \in InstallLists, list \notin passed, list \in passed'
  PROVE  NewPpis(list)
<1>1. list \in Seq(Ppis) /\ DispatchTable \in Seq(Ppis) /\ Len(DispatchTable) \in Nat
  BY ListTypes, PeiAssumption
<1>2. PICK core : core = Append(DispatchTable, MemoryDiscovered)
  OBVIOUS
<1>3. /\ \A j \in 1..Len(DispatchTable) : j \in 1..Len(core) /\ core[j] = DispatchTable[j]
      /\ Len(DispatchTable) + 1 \in 1..Len(core) /\ core[Len(DispatchTable) + 1] = MemoryDiscovered
  BY <1>1, <1>2
<1>4. \A i \in 1..Len(list), j \in 1..Len(core) : list[i] # core[j]
  BY <1>2 DEF OwnDescriptors
<1>5. \A l \in InstallLists : \A i \in 1..Len(list), j \in 1..Len(l) : list[i] = l[j] => list = l /\ i = j
  BY DEF OwnDescriptors
<1>6. ASSUME NEW j \in 1..Len(list) PROVE list[j] \notin GivenPpis /\ list[j] \in GivenPpis'
  <2>1. list[j] \in Ppis
    BY <1>1
  <2>2. \A i \in 1..Len(DispatchTable) : DispatchTable[i] # list[j]
    BY <1>3, <1>4
  <2>3. list[j] # MemoryDiscovered
    BY <1>3, <1>4
  <2>4. \A l \in passed \cap InstallLists : \A i \in 1..Len(l) : l[i] # list[j]
    BY <1>5
  <2>5. list[j] \notin GivenPpis
    BY <2>2, <2>3, <2>4 DEF GivenPpis
  <2>6. list[j] \in GivenPpis'
    BY <2>1 DEF GivenPpis
  <2> QED BY <2>5, <2>6
<1> QED BY <1>5, <1>6 DEF NewPpis

LEMMA MemoryIsNew ==
  ASSUME OwnDescriptors, Given, SwitchCoreStacks, NEW list, list = <<MemoryDiscovered>>
  PROVE  NewPpis(list)
<1>1. DispatchTable \in Seq(Ppis) /\ Len(DispatchTable) \in Nat /\ MemoryDiscovered \in Ppis
  BY PeiAssumption
<1>2. PICK core : core = Append(DispatchTable, MemoryDiscovered)
  OBVIOUS
<1>3. /\ \A j \in 1..Len(DispatchTable) : j \in 1..Len(core) /\ core[j] = DispatchTable[j]
                                          /\ j # Len(DispatchTable) + 1
      /\ Len(DispatchTable) + 1 \in 1..Len(core) /\ core[Len(DispatchTable) + 1] = MemoryDiscovered
  BY <1>1, <1>2
<1>4. \A j \in 1..Len(DispatchTable) : DispatchTable[j] # MemoryDiscovered
  <2>1. \A i, j \in 1..Len(core) : core[i] = core[j] => i = j
    BY <1>2 DEF OwnDescriptors
  <2> QED BY <1>3, <2>1
<1>5. \A l \in passed \cap InstallLists : \A j \in 1..Len(l) : l[j] # MemoryDiscovered
  <2>1. \A l \in InstallLists : \A i \in 1..Len(l), j \in 1..Len(core) : l[i] # core[j]
    BY <1>2 DEF OwnDescriptors
  <2> QED BY <1>3, <2>1
<1>6. SwitchStackSignal /\ ~SwitchStackSignal' /\ PeiMemoryInstalled'
  BY DEF SwitchCoreStacks, Given
<1>7. MemoryDiscovered \notin GivenPpis
  BY <1>4, <1>5, <1>6 DEF GivenPpis
<1>8. MemoryDiscovered \in GivenPpis'
  BY <1>1, <1>6 DEF GivenPpis
<1>9. Len(list) = 1 /\ list[1] = MemoryDiscovered
  OBVIOUS
<1>10. \A j \in 1..Len(list) : j = 1
  BY <1>9
<1> QED BY <1>7, <1>8, <1>9, <1>10 DEF NewPpis

LEMMA InstallOnce ==
  ASSUME Shape, Shape', Types, Cursors, HearInv, OnceInv, GivenGrows, NEW list \in Seq(Ppis),
         PeiInstallPpi(list), NewPpis(list), UNCHANGED <<notify, told, replaced>>
  PROVE  OnceInv'
<1>1. PICK n \in 0..Len(list) : InstallEffect(list, n)
  BY InstallEffects
<1>2. PICK N : N = Len(ppi)
  OBVIOUS
<1>3. /\ N \in Nat /\ n \in Nat /\ Len(list) \in Nat /\ Len(notify) \in Nat /\ DispatchEnd \in Nat
      /\ Len(ppi') = N + n /\ refused \subseteq refused' /\ \A i \in 1..N : ppi'[i] = ppi[i]
  <2>1. Len(list) \in Nat /\ Len(ppi) \in Nat /\ Len(notify) \in Nat /\ DispatchEnd \in Nat
    BY DEF Shape
  <2>2. n \in Nat
    BY <2>1
  <2> QED BY <1>1, <1>2, <2>1, <2>2 DEF InstallEffect
<1>4. ASSUME NEW j \in 1..n PROVE j \in 1..Len(list) /\ ppi'[N + j].d = list[j]
  <2>1. j \in 1..Len(list)
    BY <1>3
  <2>2. list[j] \in Ppis /\ ppi'[N + j] = Entry(list[j])
    BY <1>1, <1>2, <2>1 DEF InstallEffect
  <2> QED BY <2>1, <2>2, EntryFacts
<1>5. \A i \in 1..(N + n) : i \in 1..N \/ \E j \in 1..n : i = N + j
  <2> TAKE i \in 1..(N + n)
  <2>1. i \in 1..N \/ (i - N \in 1..n /\ i = N + (i - N))
    BY <1>3
  <2> QED BY <2>1
<1>6. \A p \in GivenPpis \cup replaced : p \in GivenPpis' \cup replaced'
  BY DEF GivenGrows
<1>7. Given'
  <2>1. ASSUME NEW i \in 1..(N + n) PROVE ppi'[i].d \in GivenPpis' \cup replaced'
    <3>1. CASE i \in 1..N
      BY <1>2, <1>3, <1>6, <3>1 DEF OnceInv, Given
    <3>2. CASE \E j \in 1..n : i = N + j
      BY <1>4, <3>2 DEF NewPpis
    <3> QED BY <1>5, <3>1, <3>2
  <2>2. \A k \in 1..Len(notify') : notify'[k].d \in GivenNotifies'
    BY DEF OnceInv, Given, GivenGrows
  <2>3. \A m \in Notifies, p \in Ppis :
          told'[<<m, p>>] # 0 => m \in GivenNotifies' /\ p \in GivenPpis' \cup replaced'
    BY <1>6 DEF OnceInv, Given, GivenGrows
  <2> QED BY <1>3, <2>1, <2>2, <2>3 DEF Given, GivenGrows
<1>8. OneSlot'
  <2>1. ASSUME NEW i \in 1..(N + n), NEW j \in 1..(N + n), ppi'[i].d = ppi'[j].d, ppi'[i].d \notin replaced
        PROVE  i = j
    <3>1. CASE i \in 1..N /\ j \in 1..N
      BY <1>2, <1>3, <2>1, <3>1 DEF OnceInv, OneSlot
    <3>2. ASSUME NEW a \in 1..N, NEW b \in 1..n, ppi'[a].d = ppi'[N + b].d, ppi'[a].d \notin replaced PROVE FALSE
      <4>1. ppi[a].d \in GivenPpis
        BY <1>2, <1>3, <3>2 DEF OnceInv, Given
      <4>2. ppi[a].d = list[b] /\ b \in 1..Len(list)
        BY <1>3, <1>4, <3>2
      <4> QED BY <4>1, <4>2 DEF NewPpis
    <3>3. CASE i \notin 1..N \/ j \notin 1..N
      <4>1. (i \in 1..N \/ \E b \in 1..n : i = N + b) /\ (j \in 1..N \/ \E b \in 1..n : j = N + b)
        BY <1>5
      <4>2. \E a, b \in 1..n : i = N + a /\ j = N + b
        BY <2>1, <3>2, <3>3, <4>1
      <4>3. PICK a \in 1..n, b \in 1..n : i = N + a /\ j = N + b
        BY <4>2
      <4>4. list[a] = list[b] /\ a \in 1..Len(list) /\ b \in 1..Len(list)
        BY <1>4, <2>1, <4>3
      <4> QED BY <4>3, <4>4 DEF NewPpis
    <3> QED BY <3>1, <3>3
  <2>2. \A k, l \in 1..Len(notify') :
          notify'[k].d = notify'[l].d /\ Level[notify'[k].d] = "CALLBACK" => k = l
    BY DEF OnceInv, OneSlot
  <2> QED BY <1>3, <2>1, <2>2 DEF OneSlot
<1>9. ASSUME NEW o \in 1..Len(stack'), NEW k \in Nat, NEW i \in Nat, Waits(stack'[o], k, i)
      PROVE  \/ o \in 1..Len(stack) /\ Waits(stack[o], k, i) /\ i <= N
             \/ o = Len(stack) + 1 /\ N < i
  <2>1. CASE stack' = stack
    BY <1>2, <1>9, <2>1, WaitsAre DEF HearInv
  <2>2. CASE PushesWalk(DispatchEnd + 1, Len(notify), N + 1, N + n)
    <3>1. PICK from \in Nat \ {0}, to \in Nat, first \in Nat \ {0}, last \in Nat :
            from = DispatchEnd + 1 /\ to = Len(notify) /\ first = N + 1 /\ last = N + n
      <4>1. DispatchEnd + 1 \in Nat \ {0} /\ N + 1 \in Nat \ {0} /\ N + n \in Nat /\ Len(notify) \in Nat
        BY <1>3
      <4> QED BY <4>1
    <3>2. PushesWalk(from, to, first, last)
      BY <2>2, <3>1
    <3>3. \/ o = Len(stack) + 1 /\ first <= i
          \/ o \in 1..Len(stack) /\ Waits(stack[o], k, i) /\ i <= Len(ppi)
      BY <1>9, <3>2, PushWaits DEF HearInv
    <3> QED BY <1>2, <1>3, <3>1, <3>3
  <2> QED BY <1>1, <1>2, <1>3, <2>1, <2>2 DEF InstallEffect
<1>10. \A q \in Notifies, p \in Ppis \ (refused' \cup replaced') :
         Level[q] = "CALLBACK" => told'[<<q, p>>] <= 1
  BY <1>3 DEF OnceInv, NotTwice
<1>11. ASSUME NEW m \in 1..Len(stack'), NEW k \in 1..Len(notify), NEW i \in 1..(N + n),
              Waits(stack'[m], k, i), Level[notify[k].d] = "CALLBACK", ppi'[i].d \notin refused' \cup replaced
       PROVE  /\ told[<<notify[k].d, ppi'[i].d>>] = 0
              /\ \A o \in 1..Len(stack') : Waits(stack'[o], k, i) => o = m
  <2>1. k \in Nat /\ i \in Nat
    OBVIOUS
  <2>2. \A o \in 1..Len(stack') : Waits(stack'[o], k, i) =>
          \/ o \in 1..Len(stack) /\ Waits(stack[o], k, i) /\ i <= N
          \/ o = Len(stack) + 1 /\ N < i
    BY <1>9, <2>1
  <2>3. CASE i \in 1..N
    <3>1. ppi'[i] = ppi[i] /\ ppi[i].d \notin refused \cup replaced /\ ~(N < i)
      BY <1>3, <1>11, <2>3
    <3>2. \A o \in 1..Len(stack') : Waits(stack'[o], k, i) => o \in 1..Len(stack) /\ Waits(stack[o], k, i)
      BY <2>2, <3>1
    <3>3. m \in 1..Len(stack) /\ Waits(stack[m], k, i)
      BY <1>11, <3>2
    <3>4. /\ told[<<notify[k].d, ppi[i].d>>] = 0
          /\ \A o \in 1..Len(stack) : Waits(stack[o], k, i) => o = m
      BY <1>2, <1>11, <2>3, <3>1, <3>3 DEF OnceInv, NotTwice
    <3> QED BY <3>1, <3>2, <3>4
  <2>4. CASE i \notin 1..N
    <3>1. PICK j \in 1..n : i = N + j
      BY <1>5, <2>4
    <3>2. ppi'[i].d = list[j] /\ list[j] \notin GivenPpis /\ list[j] \in Ppis
      <4>1. j \in 1..Len(list)
        BY <1>4
      <4> QED BY <1>4, <3>1, <4>1 DEF NewPpis
    <3>3. notify[k].d \in Notifies
      BY DEF Shape
    <3>4. told[<<notify[k].d, ppi'[i].d>>] = 0
      BY <1>11, <3>2, <3>3 DEF OnceInv, Given
    <3>5. ~(i <= N)
      BY <1>3, <2>4
    <3> QED BY <1>11, <2>2, <3>4, <3>5
  <2> QED BY <2>3, <2>4
<1>12. NotTwice'
  <2>1. ASSUME NEW m \in 1..Len(stack'), NEW k \in 1..Len(notify'), NEW i \in 1..Len(ppi'),
               Waits(stack'[m], k, i), Level[notify'[k].d] = "CALLBACK", ppi'[i].d \notin refused' \cup replaced'
        PROVE  /\ told'[<<notify'[k].d, ppi'[i].d>>] = 0
               /\ \A o \in 1..Len(stack') : Waits(stack'[o], k, i) => o = m
    <3>1. k \in 1..Len(notify) /\ i \in 1..(N + n) /\ notify'[k] = notify[k] /\ told' = told
      BY <1>3
    <3>2. Level[notify[k].d] = "CALLBACK" /\ ppi'[i].d \notin refused' \cup replaced
      BY <2>1, <3>1
    <3>3. /\ told[<<notify[k].d, ppi'[i].d>>] = 0
          /\ \A o \in 1..Len(stack') : Waits(stack'[o], k, i) => o = m
      BY <1>11, <2>1, <3>1, <3>2
    <3>4. told'[<<notify'[k].d, ppi'[i].d>>] = 0
      BY <3>1, <3>3
    <3> QED BY <3>3, <3>4
  <2> QED BY <1>10, <2>1 DEF NotTwice, Waits
<1> QED BY <1>7, <1>8, <1>12 DEF OnceInv

LEMMA ReplaceOnce ==
  ASSUME Shape, Shape', Types, HearInv, OnceInv, GivenGrows, NEW old, NEW new \in Ppis, ReInstallPpi(old, new)
  PROVE  OnceInv'
<1>1. PICK r : ReplaceEffect(new, r)
  BY ReplaceEffects DEF ReInstallPpi
<1>2. /\ r \in 1..Len(ppi) /\ Len(ppi') = Len(ppi)
      /\ \A i \in 1..Len(ppi) : ppi'[i] = IF i = r THEN Entry(new) ELSE ppi[i]
      /\ PushesWalk(DispatchEnd + 1, Len(notify), r, r)
      /\ replaced' = replaced \cup {new} /\ UNCHANGED <<notify, refused>>
  BY <1>1 DEF ReplaceEffect
<1>3. told' = told
  BY DEF ReInstallPpi
<1>4. Len(ppi) \in Nat /\ Len(notify) \in Nat /\ DispatchEnd \in Nat /\ r \in Nat \ {0}
  BY <1>2 DEF Shape
<1>5. \A i \in 1..Len(ppi) : (i = r /\ ppi'[i].d = new /\ new \in replaced') \/ (i # r /\ ppi'[i] = ppi[i])
  BY <1>2, EntryFacts
<1>6. \A p \in GivenPpis \cup replaced : p \in GivenPpis' \cup replaced'
  BY <1>2 DEF GivenGrows
<1>7. Given'
  <2>1. \A i \in 1..Len(ppi') : ppi'[i].d \in GivenPpis' \cup replaced'
    BY <1>2, <1>5, <1>6 DEF OnceInv, Given
  <2>2. \A k \in 1..Len(notify') : notify'[k].d \in GivenNotifies'
    BY <1>2 DEF OnceInv, Given, GivenGrows
  <2>3. \A m \in Notifies, p \in Ppis :
          told'[<<m, p>>] # 0 => m \in GivenNotifies' /\ p \in GivenPpis' \cup replaced'
    BY <1>3, <1>6 DEF OnceInv, Given, GivenGrows
  <2> QED BY <2>1, <2>2, <2>3 DEF Given, GivenGrows
<1>8. OneSlot'
  <2>1. \A i, j \in 1..Len(ppi') : ppi'[i].d = ppi'[j].d /\ ppi'[i].d \notin replaced' => i = j
    BY <1>2, <1>5 DEF OnceInv, OneSlot
  <2>2. \A k, l \in 1..Len(notify') :
          notify'[k].d = notify'[l].d /\ Level[notify'[k].d] = "CALLBACK" => k = l
    BY <1>2 DEF OnceInv, OneSlot
  <2> QED BY <2>1, <2>2 DEF OneSlot
<1>9. ASSUME NEW o \in 1..Len(stack'), NEW k \in Nat, NEW i \in Nat, i # r, Waits(stack'[o], k, i)
      PROVE  o \in 1..Len(stack) /\ Waits(stack[o], k, i)
  <2>1. PICK from \in Nat \ {0}, to \in Nat : from = DispatchEnd + 1 /\ to = Len(notify)
    <3>1. DispatchEnd + 1 \in Nat \ {0}
      BY <1>4
    <3> QED BY <1>4, <3>1
  <2>2. PushesWalk(from, to, r, r)
    BY <1>2, <2>1
  <2>3. \/ o = Len(stack) + 1 /\ r <= i /\ i <= r
        \/ o \in 1..Len(stack) /\ Waits(stack[o], k, i)
    BY <1>4, <1>9, <2>2, PushWaits DEF HearInv
  <2> QED BY <1>4, <1>9, <2>3
<1>10. \A q \in Notifies, p \in Ppis \ (refused' \cup replaced') :
         Level[q] = "CALLBACK" => told'[<<q, p>>] <= 1
  BY <1>2, <1>3 DEF OnceInv, NotTwice
<1>11. ASSUME NEW m \in 1..Len(stack'), NEW k \in 1..Len(notify), NEW i \in 1..Len(ppi),
              Waits(stack'[m], k, i), Level[notify[k].d] = "CALLBACK", ppi'[i].d \notin refused \cup replaced'
       PROVE  /\ told[<<notify[k].d, ppi'[i].d>>] = 0
              /\ \A o \in 1..Len(stack') : Waits(stack'[o], k, i) => o = m
  <2>1. k \in Nat /\ i \in Nat /\ i # r /\ ppi'[i] = ppi[i] /\ ppi[i].d \notin refused \cup replaced
    BY <1>2, <1>5, <1>11
  <2>2. \A o \in 1..Len(stack') : Waits(stack'[o], k, i) => o \in 1..Len(stack) /\ Waits(stack[o], k, i)
    BY <1>9, <2>1
  <2>3. m \in 1..Len(stack) /\ Waits(stack[m], k, i)
    BY <1>11, <2>2
  <2>4. /\ told[<<notify[k].d, ppi[i].d>>] = 0
        /\ \A o \in 1..Len(stack) : Waits(stack[o], k, i) => o = m
    BY <1>11, <2>1, <2>3 DEF OnceInv, NotTwice
  <2> QED BY <2>1, <2>2, <2>4
<1>12. NotTwice'
  BY <1>2, <1>3, <1>10, <1>11 DEF NotTwice, Waits
<1> QED BY <1>7, <1>8, <1>12 DEF OnceInv

\* The callbacks of a list that no list had before.
NewNotifies(list) ==
  /\ \A j \in 1..Len(list) :
       list[j] \in GivenNotifies' /\ (Level[list[j]] = "CALLBACK" => list[j] \notin GivenNotifies)
  /\ \A i, j \in 1..Len(list) : list[i] = list[j] /\ Level[list[i]] = "CALLBACK" => i = j

LEMMA ListNotifiesAreNew ==
  ASSUME OwnDescriptors, NEW list \in NotifyLists, list \notin passed, list \in passed'
  PROVE  NewNotifies(list)
<1>1. list \in Seq(Notifies)
  BY ListTypes
<1>2. \A l \in NotifyLists : \A i \in 1..Len(list), j \in 1..Len(l) :
        list[i] = l[j] /\ Level[list[i]] = "CALLBACK" => list = l /\ i = j
  BY DEF OwnDescriptors
<1>3. ASSUME NEW j \in 1..Len(list)
      PROVE  list[j] \in GivenNotifies' /\ (Level[list[j]] = "CALLBACK" => list[j] \notin GivenNotifies)
  <2>1. list[j] \in Notifies
    BY <1>1
  <2>2. list[j] \in GivenNotifies'
    BY <2>1 DEF GivenNotifies
  <2>3. ASSUME Level[list[j]] = "CALLBACK" PROVE list[j] \notin GivenNotifies
    <3>1. list[j] # SecurityNotify
      BY <2>3, PeiAssumption
    <3>2. \A l \in passed \cap NotifyLists : \A i \in 1..Len(l) : l[i] # list[j]
      BY <1>2, <2>3
    <3> QED BY <3>1, <3>2 DEF GivenNotifies
  <2> QED BY <2>2, <2>3
<1> QED BY <1>2, <1>3 DEF NewNotifies

\* A callback after a registration is one that there was, which no walk comes to if it moved,
\* or a new one behind them all.
OldAt(k, more) == k - more \in (DispatchEnd + 1)..Len(notify) /\ notify'[k] = notify[k - more]
NewAt(list, k, more, g) ==
  /\ k - Len(notify) - more \in 1..(Len(list) - more)
  /\ g[k - Len(notify) - more] \in 1..Len(list)
  /\ notify'[k].d = list[g[k - Len(notify) - more]]

Placed(list, more, g) ==
  /\ \A i, j \in 1..(Len(list) - more) : g[i] = g[j] => i = j
  /\ \A k \in 1..Len(notify') : notify'[k].d \in GivenNotifies \/ \E j \in 1..Len(list) : notify'[k].d = list[j]
  /\ \A k \in 1..Len(notify') :
       Level[notify'[k].d] = "CALLBACK" => OldAt(k, more) \/ NewAt(list, k, more, g)

LEMMA PlacedNotifies ==
  ASSUME Shape, HearInv, Given, NEW list \in NotifyLists, NEW more \in 0..Len(list), NotifyEffect(list, more)
  PROVE  \E g : Placed(list, more, g)
<1>1. list \in Seq(Notifies) /\ Len(list) \in Nat
  BY ListTypes
<1>2. PICK N, L, D : N = Len(notify) /\ L = Len(list) /\ D = DispatchEnd
  OBVIOUS
<1>3. /\ N \in Nat /\ L \in Nat /\ D \in 0..N /\ more \in 0..L /\ more \in Nat /\ Len(notify') = N + L
  BY <1>1, <1>2 DEF Shape, NotifyEffect
<1>4. /\ \A k \in 1..D : notify'[k] = notify[k]
      /\ \A k \in (D + 1)..N : notify'[k + more] = notify[k]
      /\ \A k \in (D + 1)..(D + more) :
           \E j \in 1..L : notify'[k] = Entry(list[j]) /\ Level[list[j]] = "DISPATCH"
  BY <1>2, <1>3 DEF NotifyEffect
<1>5. PICK g \in [1..(L - more) -> 1..L] :
        /\ \A i, j \in 1..(L - more) : g[i] = g[j] => i = j
        /\ \A j \in 1..(L - more) : notify'[N + more + j] = Entry(list[g[j]])
  <2>1. PICK g \in [1..(Len(list) - more) -> 1..Len(list)] :
          /\ \A i, j \in 1..(Len(list) - more) : g[i] = g[j] => i = j
          /\ \A j \in 1..(Len(list) - more) : /\ notify'[Len(notify) + more + j] = Entry(list[g[j]])
                                              /\ Level[list[g[j]]] = "CALLBACK"
    BY DEF NotifyEffect
  <2> QED BY <1>2, <2>1
<1>6. \A j \in 1..L : list[j] \in Notifies /\ Entry(list[j]).d = list[j]
  <2> TAKE j \in 1..L
  <2>1. list[j] \in Notifies
    BY <1>1, <1>2
  <2> QED BY <2>1, EntryFacts
<1>7. ASSUME NEW k \in 1..(N + L)
      PROVE  /\ notify'[k].d \in GivenNotifies \/ \E j \in 1..L : notify'[k].d = list[j]
             /\ Level[notify'[k].d] = "CALLBACK" => OldAt(k, more) \/ NewAt(list, k, more, g)
  <2>1. \/ k \in 1..D
        \/ k \in (D + 1)..(D + more)
        \/ k - more \in (D + 1)..N /\ (k - more) + more = k
        \/ k - N - more \in 1..(L - more) /\ N + more + (k - N - more) = k
    BY <1>3
  <2>2. CASE k \in 1..D
    <3>1. k \in 1..N /\ k <= D
      BY <1>3, <2>2
    <3>2. notify'[k] = notify[k] /\ notify[k].d \in GivenNotifies
      BY <1>2, <1>4, <2>2, <3>1 DEF Given
    <3>3. Level[notify[k].d] = "DISPATCH"
      BY <1>2, <3>1 DEF HearInv, Sorted
    <3> QED BY <3>2, <3>3
  <2>3. CASE k \in (D + 1)..(D + more)
    BY <1>4, <1>6, <2>3
  <2>4. CASE k - more \in (D + 1)..N /\ (k - more) + more = k
    <3>1. PICK l : l = k - more
      OBVIOUS
    <3>2. l \in (D + 1)..N /\ l + more = k
      BY <2>4, <3>1
    <3>3. l \in 1..N /\ notify'[k] = notify[l]
      BY <1>3, <1>4, <3>2
    <3>4. notify[l].d \in GivenNotifies
      BY <1>2, <3>3 DEF Given
    <3>5. OldAt(k, more)
      BY <1>2, <3>1, <3>2, <3>3 DEF OldAt
    <3> QED BY <3>3, <3>4, <3>5
  <2>5. CASE k - N - more \in 1..(L - more) /\ N + more + (k - N - more) = k
    <3>1. PICK j : j = k - N - more
      OBVIOUS
    <3>2. j \in 1..(L - more) /\ N + more + j = k
      BY <2>5, <3>1
    <3>3. g[j] \in 1..L /\ notify'[k].d = list[g[j]]
      <4>1. g[j] \in 1..L /\ notify'[k] = Entry(list[g[j]])
        BY <1>5, <3>2
      <4> QED BY <1>6, <4>1
    <3>4. NewAt(list, k, more, g)
      BY <1>2, <3>1, <3>2, <3>3 DEF NewAt
    <3> QED BY <3>3, <3>4
  <2> QED BY <2>1, <2>2, <2>3, <2>4, <2>5
<1>8. Placed(list, more, g)
  BY <1>2, <1>3, <1>5, <1>7 DEF Placed
<1> QED BY <1>8

LEMMA NotifyOnce ==
  ASSUME CallbacksRegisterCallbacks, Shape, Shape', HearInv, OnceInv, GivenGrows,
         NEW list \in NotifyLists, NotifyPpi(list), NewNotifies(list),
         NEW more \in 0..Len(list), NotifyEffect(list, more), UNCHANGED <<ppi, told, replaced>>
  PROVE  OnceInv'
<1>1. list \in Seq(Notifies) /\ Len(list) \in Nat
  BY ListTypes
<1>2. PICK g : Placed(list, more, g)
  BY PlacedNotifies DEF OnceInv
<1>3. PICK N, L, D : N = Len(notify) /\ L = Len(list) /\ D = DispatchEnd
  OBVIOUS
<1>4. /\ N \in Nat /\ L \in Nat /\ D \in 0..N /\ more \in 0..L /\ more \in Nat /\ Len(ppi) \in Nat
      /\ Len(notify') = N + L /\ refused' = refused
      /\ PushesWalk(N + more + 1, N + L, 1, Len(ppi))
      /\ more # 0 => \E j \in 1..L : Level[list[j]] = "DISPATCH" /\ list[j] \notin Invalid
  <2>1. Len(notify) \in Nat /\ Len(ppi) \in Nat /\ DispatchEnd \in 0..Len(notify) /\ more \in Nat
    BY <1>1 DEF Shape
  <2>2. Len(notify') = N + L
    BY <1>3 DEF NotifyEffect
  <2> QED BY <1>1, <1>3, <2>1, <2>2 DEF NotifyEffect
<1>5. Given'
  <2>1. \A k \in 1..Len(notify') : notify'[k].d \in GivenNotifies'
    BY <1>2 DEF Placed, NewNotifies, GivenGrows
  <2>2. \A i \in 1..Len(ppi') : ppi'[i].d \in GivenPpis' \cup replaced'
    BY DEF OnceInv, Given, GivenGrows
  <2>3. \A m \in Notifies, p \in Ppis :
          told'[<<m, p>>] # 0 => m \in GivenNotifies' /\ p \in GivenPpis' \cup replaced'
    BY DEF OnceInv, Given, GivenGrows
  <2> QED BY <2>1, <2>2, <2>3 DEF Given, GivenGrows
\* Of two places with one callback, both are old or both are new.
<1>6. ASSUME NEW k \in 1..(N + L), NEW l \in 1..(N + L), notify'[k].d = notify'[l].d,
             Level[notify'[k].d] = "CALLBACK", OldAt(k, more)
      PROVE  ~NewAt(list, l, more, g)
  <2>1. SUFFICES ASSUME NewAt(list, l, more, g) PROVE FALSE
    OBVIOUS
  <2>2. PICK a : a = k - more
    OBVIOUS
  <2>3. a \in 1..Len(notify) /\ notify'[k] = notify[a]
    BY <1>3, <1>4, <1>6, <2>2 DEF OldAt
  <2>4. notify'[k].d \in GivenNotifies
    BY <2>3 DEF OnceInv, Given
  <2>5. PICK b \in 1..Len(list) : notify'[l].d = list[b]
    BY <2>1 DEF NewAt
  <2> QED BY <1>6, <2>4, <2>5 DEF NewNotifies
<1>7. OneSlot'
  <2>1. ASSUME NEW k \in 1..(N + L), NEW l \in 1..(N + L), notify'[k].d = notify'[l].d,
               Level[notify'[k].d] = "CALLBACK"
        PROVE  k = l
    <3>1. CASE OldAt(k, more) /\ OldAt(l, more)
      <4>1. PICK a, b : a = k - more /\ b = l - more
        OBVIOUS
      <4>2. a \in 1..Len(notify) /\ b \in 1..Len(notify) /\ notify'[k] = notify[a] /\ notify'[l] = notify[b]
        BY <1>3, <1>4, <3>1, <4>1 DEF OldAt
      <4>3. a = b
        BY <2>1, <4>2 DEF OnceInv, OneSlot
      <4> QED BY <1>4, <4>1, <4>3
    <3>2. CASE NewAt(list, k, more, g) /\ NewAt(list, l, more, g)
      <4>1. PICK a, b : a = k - N - more /\ b = l - N - more
        OBVIOUS
      <4>2. /\ a \in 1..(L - more) /\ b \in 1..(L - more) /\ g[a] \in 1..Len(list) /\ g[b] \in 1..Len(list)
            /\ notify'[k].d = list[g[a]] /\ notify'[l].d = list[g[b]]
        BY <1>3, <3>2, <4>1 DEF NewAt
      <4>3. g[a] = g[b]
        BY <2>1, <4>2 DEF NewNotifies
      <4>4. a = b
        BY <1>2, <1>3, <4>2, <4>3 DEF Placed
      <4> QED BY <1>4, <4>1, <4>4
    <3>3. /\ OldAt(k, more) \/ NewAt(list, k, more, g)
          /\ OldAt(l, more) \/ NewAt(list, l, more, g)
      BY <1>2, <1>4, <2>1 DEF Placed
    <3> QED BY <1>6, <2>1, <3>1, <3>2, <3>3
  <2>2. \A i, j \in 1..Len(ppi') : ppi'[i].d = ppi'[j].d /\ ppi'[i].d \notin replaced' => i = j
    BY DEF OnceInv, OneSlot
  <2> QED BY <1>4, <2>1, <2>2 DEF OneSlot
<1>8. more # 0 => \A m \in 1..Len(stack) : stack[m].level = "DISPATCH"
  BY <1>3, <1>4, OnlyDispatch DEF HearInv
<1>9. ASSUME NEW o \in 1..Len(stack'), NEW k \in Nat, NEW i \in Nat, Waits(stack'[o], k, i)
      PROVE  \/ o = Len(stack) + 1 /\ N + more + 1 <= k
             \/ o \in 1..Len(stack) /\ Waits(stack[o], k, i) /\ k <= N /\ (more # 0 => k <= D)
  <2>1. PICK from \in Nat \ {0}, to \in Nat, first \in Nat \ {0}, last \in Nat :
          from = N + more + 1 /\ to = N + L /\ first = 1 /\ last = Len(ppi)
    <3>1. N + more + 1 \in Nat \ {0} /\ N + L \in Nat /\ 1 \in Nat \ {0}
      BY <1>4
    <3>2. Len(ppi) \in Nat
      BY <1>4
    <3> QED BY <3>1, <3>2
  <2>2. PushesWalk(from, to, first, last)
    BY <1>4, <2>1
  <2>3. \/ o = Len(stack) + 1 /\ from <= k
        \/ o \in 1..Len(stack) /\ Waits(stack[o], k, i) /\ k <= Len(notify)
           /\ (stack[o].level = "DISPATCH" => k <= DispatchEnd)
    BY <1>9, <2>2, PushWaits DEF HearInv
  <2> QED BY <1>3, <1>8, <2>1, <2>3
<1>10. ASSUME NEW m \in 1..Len(stack'), NEW k \in 1..(N + L), NEW i \in 1..Len(ppi),
              Waits(stack'[m], k, i), Level[notify'[k].d] = "CALLBACK", ppi[i].d \notin refused \cup replaced
       PROVE  /\ told[<<notify'[k].d, ppi[i].d>>] = 0
              /\ \A o \in 1..Len(stack') : Waits(stack'[o], k, i) => o = m
  <2>1. k \in Nat /\ i \in Nat
    BY <1>4
  <2>2. \A o \in 1..Len(stack') : Waits(stack'[o], k, i) =>
          \/ o = Len(stack) + 1 /\ N + more + 1 <= k
          \/ o \in 1..Len(stack) /\ Waits(stack[o], k, i) /\ k <= N /\ (more # 0 => k <= D)
    BY <1>9, <2>1
  <2>3. CASE OldAt(k, more)
    <3>1. PICK a : a = k - more
      OBVIOUS
    <3>2. a \in 1..N /\ D < a /\ a + more = k /\ notify'[k] = notify[a] /\ ~(N + more + 1 <= k)
      BY <1>3, <1>4, <2>3, <3>1 DEF OldAt
    <3>3. \A o \in 1..Len(stack') : Waits(stack'[o], k, i) =>
            o \in 1..Len(stack) /\ Waits(stack[o], k, i) /\ (more # 0 => k <= D)
      BY <2>2, <3>2
    <3>4. m \in 1..Len(stack) /\ Waits(stack[m], k, i) /\ (more # 0 => k <= D)
      BY <1>10, <3>3
    <3>5. more = 0 /\ a = k
      BY <1>4, <3>2, <3>4
    <3>6. /\ told[<<notify[a].d, ppi[i].d>>] = 0
          /\ \A o \in 1..Len(stack) : Waits(stack[o], k, i) => o = m
      BY <1>3, <1>10, <3>2, <3>4, <3>5 DEF OnceInv, NotTwice
    <3> QED BY <3>2, <3>3, <3>6
  <2>4. CASE NewAt(list, k, more, g)
    <3>1. N < k
      BY <1>3, <1>4, <2>4 DEF NewAt
    <3>2. PICK b \in 1..Len(list) : notify'[k].d = list[b]
      BY <2>4 DEF NewAt
    <3>3. list[b] \in Notifies /\ list[b] \notin GivenNotifies /\ ppi[i].d \in Ppis
      <4>1. list[b] \in Notifies
        BY <1>1
      <4>2. Level[list[b]] = "CALLBACK"
        BY <1>10, <3>2
      <4>3. ppi[i].d \in Ppis
        BY DEF Shape
      <4> QED BY <4>1, <4>2, <4>3 DEF NewNotifies
    <3>4. told[<<notify'[k].d, ppi[i].d>>] = 0
      BY <3>2, <3>3 DEF OnceInv, Given
    <3>5. ~(k <= N)
      BY <1>4, <3>1
    <3> QED BY <1>10, <2>2, <3>4, <3>5
  <2> QED BY <1>2, <1>4, <1>10, <2>3, <2>4 DEF Placed
<1>11. NotTwice'
  <2>1. \A q \in Notifies, p \in Ppis \ (refused' \cup replaced') :
          Level[q] = "CALLBACK" => told'[<<q, p>>] <= 1
    BY <1>4 DEF OnceInv, NotTwice
  <2>2. ASSUME NEW m \in 1..Len(stack'), NEW k \in 1..Len(notify'), NEW i \in 1..Len(ppi'),
               Waits(stack'[m], k, i), Level[notify'[k].d] = "CALLBACK", ppi'[i].d \notin refused' \cup replaced'
        PROVE  /\ told'[<<notify'[k].d, ppi'[i].d>>] = 0
               /\ \A o \in 1..Len(stack') : Waits(stack'[o], k, i) => o = m
    <3>1. k \in 1..(N + L) /\ i \in 1..Len(ppi) /\ ppi' = ppi /\ told' = told
      BY <1>4
    <3>2. ppi[i].d \notin refused \cup replaced
      BY <1>4, <2>2
    <3>3. /\ told[<<notify'[k].d, ppi[i].d>>] = 0
          /\ \A o \in 1..Len(stack') : Waits(stack'[o], k, i) => o = m
      BY <1>10, <2>2, <3>1, <3>2
    <3> QED BY <3>1, <3>3
  <2> QED BY <2>1, <2>2 DEF NotTwice, Waits
<1> QED BY <1>5, <1>7, <1>11 DEF OnceInv

LEMMA RefuseOnce ==
  ASSUME Shape, HearInv, OnceInv, GivenGrows, NEW list \in Seq(Notifies), NEW n \in 0..Len(list),
         NewNotifies(list), RefuseEffect(list, n), UNCHANGED <<ppi, told, replaced>>
  PROVE  OnceInv'
<1>1. PICK N : N = Len(notify)
  OBVIOUS
<1>2. /\ N \in Nat /\ Len(list) \in Nat /\ n \in Nat /\ Len(notify') = N + n
      /\ refused \subseteq refused' /\ stack' = stack
      /\ \A k \in 1..N : notify'[k] = notify[k]
  BY <1>1 DEF Shape, RefuseEffect
<1>3. ASSUME NEW j \in 1..n PROVE j \in 1..Len(list) /\ notify'[N + j].d = list[j]
  <2>1. j \in 1..Len(list)
    BY <1>2
  <2>2. notify'[N + j] = Entry(list[j])
    BY <1>1 DEF RefuseEffect
  <2>3. list[j] \in Notifies
    BY <2>1
  <2> QED BY <2>1, <2>2, <2>3, EntryFacts
<1>4. \A k \in 1..(N + n) : k \in 1..N \/ \E j \in 1..n : k = N + j
  <2> TAKE k \in 1..(N + n)
  <2>1. k \in 1..N \/ (k - N \in 1..n /\ k = N + (k - N))
    BY <1>2
  <2> QED BY <2>1
<1>5. Given'
  <2>1. ASSUME NEW k \in 1..(N + n) PROVE notify'[k].d \in GivenNotifies'
    <3>1. CASE k \in 1..N
      BY <1>1, <1>2, <3>1 DEF OnceInv, Given, GivenGrows
    <3>2. CASE \E j \in 1..n : k = N + j
      BY <1>3, <3>2 DEF NewNotifies
    <3> QED BY <1>4, <3>1, <3>2
  <2>2. \A i \in 1..Len(ppi') : ppi'[i].d \in GivenPpis' \cup replaced'
    BY DEF OnceInv, Given, GivenGrows
  <2>3. \A m \in Notifies, p \in Ppis :
          told'[<<m, p>>] # 0 => m \in GivenNotifies' /\ p \in GivenPpis' \cup replaced'
    BY DEF OnceInv, Given, GivenGrows
  <2> QED BY <1>2, <2>1, <2>2, <2>3 DEF Given, GivenGrows
<1>6. OneSlot'
  <2>1. ASSUME NEW a \in 1..N, NEW b \in 1..n, notify'[a].d = notify'[N + b].d, Level[notify'[a].d] = "CALLBACK"
        PROVE  FALSE
    <3>1. notify'[a].d \in GivenNotifies
      BY <1>1, <1>2 DEF OnceInv, Given
    <3>2. notify'[a].d = list[b] /\ b \in 1..Len(list)
      BY <1>3, <2>1
    <3> QED BY <2>1, <3>1, <3>2 DEF NewNotifies
  <2>2. ASSUME NEW k \in 1..(N + n), NEW l \in 1..(N + n), notify'[k].d = notify'[l].d,
               Level[notify'[k].d] = "CALLBACK"
        PROVE  k = l
    <3>1. CASE k \in 1..N /\ l \in 1..N
      BY <1>1, <1>2, <2>2, <3>1 DEF OnceInv, OneSlot
    <3>2. CASE k \notin 1..N \/ l \notin 1..N
      <4>1. (k \in 1..N \/ \E b \in 1..n : k = N + b) /\ (l \in 1..N \/ \E b \in 1..n : l = N + b)
        BY <1>4
      <4>2. \E a, b \in 1..n : k = N + a /\ l = N + b
        BY <2>1, <2>2, <3>2, <4>1
      <4>3. PICK a \in 1..n, b \in 1..n : k = N + a /\ l = N + b
        BY <4>2
      <4>4. list[a] = list[b] /\ a \in 1..Len(list) /\ b \in 1..Len(list) /\ Level[list[a]] = "CALLBACK"
        BY <1>3, <2>2, <4>3
      <4> QED BY <4>3, <4>4 DEF NewNotifies
    <3> QED BY <3>1, <3>2
  <2>3. \A i, j \in 1..Len(ppi') : ppi'[i].d = ppi'[j].d /\ ppi'[i].d \notin replaced' => i = j
    BY DEF OnceInv, OneSlot
  <2> QED BY <1>2, <2>2, <2>3 DEF OneSlot
<1>7. ASSUME NEW m \in 1..Len(stack'), NEW k \in 1..Len(notify'), NEW i \in 1..Len(ppi'),
             Waits(stack'[m], k, i), Level[notify'[k].d] = "CALLBACK", ppi'[i].d \notin refused' \cup replaced'
      PROVE  /\ told'[<<notify'[k].d, ppi'[i].d>>] = 0
             /\ \A o \in 1..Len(stack') : Waits(stack'[o], k, i) => o = m
  <2>1. k \in Nat /\ i \in Nat /\ i \in 1..Len(ppi) /\ m \in 1..Len(stack) /\ Waits(stack[m], k, i)
        /\ 1 <= k
    BY <1>2, <1>7
  <2>2. k \in 1..N
    <3>1. k <= Len(notify)
      BY <2>1, WaitsAre DEF HearInv
    <3> QED BY <1>1, <1>2, <2>1, <3>1
  <2>3. notify'[k] = notify[k] /\ ppi' = ppi /\ told' = told /\ stack' = stack /\ replaced' = replaced
    BY <1>2, <2>2
  <2>4. Level[notify[k].d] = "CALLBACK" /\ ppi[i].d \notin refused \cup replaced
    BY <1>2, <1>7, <2>3
  <2>5. /\ told[<<notify[k].d, ppi[i].d>>] = 0
        /\ \A o \in 1..Len(stack) : Waits(stack[o], k, i) => o = m
    BY <1>1, <2>1, <2>2, <2>4 DEF OnceInv, NotTwice
  <2>6. told'[<<notify'[k].d, ppi'[i].d>>] = 0
    BY <2>3, <2>5
  <2>7. \A o \in 1..Len(stack') : Waits(stack'[o], k, i) => o = m
    BY <2>3, <2>5
  <2> QED BY <2>6, <2>7
<1>8. \A q \in Notifies, p \in Ppis \ (refused' \cup replaced') :
        Level[q] = "CALLBACK" => told'[<<q, p>>] <= 1
  BY <1>2 DEF OnceInv, NotTwice
<1>9. NotTwice'
  BY <1>7, <1>8 DEF NotTwice, Waits
<1> QED BY <1>5, <1>6, <1>9 DEF OnceInv

LEMMA InitOnce == Init /\ OwnDescriptors => OnceInv
<1> SUFFICES ASSUME Init, OwnDescriptors PROVE OnceInv
  OBVIOUS
<1>1. DispatchTable \in Seq(Ppis) /\ Len(DispatchTable) \in Nat /\ SecurityNotify \in Notifies
  BY PeiAssumption
<1>2. /\ ppi = [k \in 1..Len(DispatchTable) |-> [d |-> DispatchTable[k], at |-> "rom"]]
      /\ Len(notify) = 1 /\ notify[1].d = SecurityNotify
      /\ stack = <<>> /\ SwitchStackSignal = FALSE /\ told = [np \in Notifies \X Ppis |-> 0]
  BY DEF Init
<1>3. Len(ppi) = Len(DispatchTable) /\ \A i \in 1..Len(ppi) : ppi[i].d = DispatchTable[i] /\ DispatchTable[i] \in Ppis
  BY <1>1, <1>2
<1>4. \A n \in Notifies, p \in Ppis : told[<<n, p>>] = 0
  <2>1. \A np \in Notifies \X Ppis : told[np] = 0
    BY <1>2
  <2> QED BY <2>1
<1>5. Given
  <2>1. \A i \in 1..Len(ppi) : ppi[i].d \in GivenPpis \cup replaced
    BY <1>3 DEF GivenPpis
  <2>2. \A k \in 1..Len(notify) : notify[k].d \in GivenNotifies
    <3>1. \A k \in 1..Len(notify) : k = 1
      BY <1>2
    <3>2. SecurityNotify \in GivenNotifies
      BY <1>1 DEF GivenNotifies
    <3> QED BY <1>2, <3>1, <3>2
  <2> QED BY <1>2, <1>4, <2>1, <2>2 DEF Given
<1>6. OneSlot
  <2>1. PICK core : core = Append(DispatchTable, MemoryDiscovered)
    OBVIOUS
  <2>2. \A j \in 1..Len(DispatchTable) : j \in 1..Len(core) /\ core[j] = DispatchTable[j]
    BY <1>1, <2>1
  <2>3. \A i, j \in 1..Len(core) : core[i] = core[j] => i = j
    BY <2>1 DEF OwnDescriptors
  <2>4. \A i, j \in 1..Len(ppi) : ppi[i].d = ppi[j].d => i = j
    BY <1>3, <2>2, <2>3
  <2>5. \A k, l \in 1..Len(notify) : k = l
    BY <1>2
  <2> QED BY <2>4, <2>5 DEF OneSlot
<1>7. NotTwice
  <2>1. \A m \in 1..Len(stack) : FALSE
    BY <1>2
  <2>2. 0 <= 1
    OBVIOUS
  <2> QED BY <1>4, <2>1, <2>2 DEF NotTwice
<1> QED BY <1>5, <1>6, <1>7 DEF OnceInv

LEMMA OnceStep ==
  ASSUME OwnDescriptors, CallbacksRegisterCallbacks, TypeInv, TypeInv', HearInv, OnceInv, [Next]_vars
  PROVE  OnceInv'
<1>0. Shape /\ Shape' /\ Types /\ Cursors /\ Bounded /\ GivenGrows
  <2>1. Remains
    BY RemainsStep
  <2> QED BY <2>1, ShapeOf, ShapeAfter, GivenGrowing DEF TypeInv, OnceInv
<1>1. ASSUME NEW list \in InstallLists, InstallPpi(list) PROVE OnceInv'
  <2>1. list \in Seq(Ppis) /\ PeiInstallPpi(list)
    BY <1>1, ListTypes DEF InstallPpi
  <2>2. UNCHANGED <<notify, told, replaced>>
    BY <1>1 DEF InstallPpi
  <2>3. NewPpis(list)
    <3>1. list \notin passed /\ list \in passed'
      BY <1>1 DEF InstallPpi, Passes
    <3> QED BY <3>1, ListPpisAreNew
  <2> QED BY <1>0, <2>1, <2>2, <2>3, InstallOnce
<1>2. CASE SwitchCoreStacks
  <2>1. PICK list : list = <<MemoryDiscovered>>
    OBVIOUS
  <2>2. list \in Seq(Ppis) /\ PeiInstallPpi(list)
    BY <1>2, <2>1, ListTypes DEF SwitchCoreStacks
  <2>3. UNCHANGED <<notify, told, replaced>>
    BY <1>2 DEF SwitchCoreStacks
  <2>4. NewPpis(list)
    BY <1>2, <2>1, MemoryIsNew DEF OnceInv
  <2> QED BY <1>0, <2>2, <2>3, <2>4, InstallOnce
<1>3. CASE UNCHANGED vars
  <2>1. UNCHANGED <<ppi, notify, DispatchEnd, refused, replaced, stack, told>>
    BY <1>3 DEF vars, lists, history
  <2> QED BY <1>0, <2>1, SameAre, StillOnce
<1>4. CASE Moves
  BY <1>0, <1>4, MovesOnce
<1>5. CASE Processes
  BY <1>0, <1>5, ProcessesOnce
<1>6. CASE NotifyFunction \/ NextNotify \/ FunctionReturns
  BY <1>0, <1>6, CallOnce, NextOnce, ReturnOnce
<1>7. ASSUME NEW list \in NotifyLists, NotifyPpi(list) PROVE OnceInv'
  <2>1. list \in Seq(Notifies) /\ PeiNotifyPpi(list)
    BY <1>7, ListTypes DEF NotifyPpi
  <2>2. UNCHANGED <<ppi, told, replaced>>
    BY <1>7 DEF NotifyPpi
  <2>3. NewNotifies(list)
    <3>1. list \notin passed /\ list \in passed'
      BY <1>7 DEF NotifyPpi, Passes
    <3> QED BY <3>1, ListNotifiesAreNew
  <2>4. CASE \E more \in 0..Len(list) : NotifyEffect(list, more)
    BY <1>0, <1>7, <2>2, <2>3, <2>4, NotifyOnce
  <2>5. CASE \E n \in 0..Len(list) : RefuseEffect(list, n)
    BY <1>0, <2>1, <2>2, <2>3, <2>5, RefuseOnce
  <2> QED BY <1>0, <2>1, <2>2, <2>4, <2>5, NotifyEffects
<1>8. ASSUME NEW r \in Replacements, ReInstallPpi(r[1], r[2]) PROVE OnceInv'
  <2>1. PICK old, new : old = r[1] /\ new = r[2]
    OBVIOUS
  <2>2. new \in Ppis /\ ReInstallPpi(old, new)
    BY <1>8, <2>1, PeiAssumption
  <2> QED BY <1>0, <2>2, ReplaceOnce
<1>9. CASE PeiInstallPeiMemory
  BY <1>0, <1>9, MemoryOnce
<1>10. CASE Client
  BY <1>1, <1>7, <1>8, <1>9, <1>10 DEF Client
<1>11. CASE Core
  BY <1>2, <1>4, <1>5, <1>6, <1>11 DEF Core, Moves, Processes
<1> QED BY <1>3, <1>10, <1>11 DEF Next

LEMMA HeardWhenStill ==
  ASSUME TypeInv, HearInv, OnceInv
  PROVE  EachIsNotified
<1>1. Shape /\ Cursors
  BY ShapeOf DEF TypeInv
<1>2. \A n \in Notifies, p \in Ppis \ (refused \cup replaced) : Level[n] = "CALLBACK" => told[<<n, p>>] <= 1
  BY DEF OnceInv, NotTwice
<1>3. ASSUME stack = <<>>, NEW n \in Registered("CALLBACK"), NEW p \in Present, Guid[n] = Guid[p]
      PROVE  told[<<n, p>>] >= 1
  <2>1. PICK k \in 1..Len(notify) : notify[k].d = n
    BY DEF Registered
  <2>2. PICK i \in 1..Len(ppi) : ppi[i].d = p
    BY DEF Present
  <2>3. n \notin refused /\ p \notin refused /\ Level[n] = "CALLBACK"
    BY DEF Registered, Present
  <2>4. k \in (DispatchEnd + 1)..Len(notify)
    <3>1. ~(k <= DispatchEnd)
      BY <2>1, <2>3 DEF HearInv, Sorted
    <3> QED BY <1>1, <3>1 DEF Shape
  <2>5. \A m \in 1..Len(stack) : FALSE
    BY <1>3
  <2>6. Told(k, i)
    BY <1>3, <2>1, <2>2, <2>3, <2>4, <2>5 DEF HearInv, CallbacksHear, IsFor
  <2> QED BY <2>1, <2>2, <2>6 DEF Told
<1>4. ASSUME At("processed"), NEW n \in Registered("DISPATCH"), NEW p \in Present \ replaced, Guid[n] = Guid[p]
      PROVE  told[<<n, p>>] >= 1
  <2>1. PICK k \in 1..Len(notify) : notify[k].d = n
    BY DEF Registered
  <2>2. PICK i \in 1..Len(ppi) : ppi[i].d = p
    BY DEF Present
  <2>3. n \notin refused /\ p \notin refused /\ p \notin replaced /\ Level[n] = "DISPATCH"
    BY DEF Registered, Present
  <2>4. k \in 1..DispatchEnd
    <3>1. ~(k > DispatchEnd)
      BY <2>1, <2>3 DEF HearInv, Sorted
    <3> QED BY <1>1, <3>1 DEF Shape
  <2>5. LastInstall = Len(ppi) /\ LastNotify = DispatchEnd
    BY <1>1, <1>4 DEF Cursors, At
  <2>6. k <= LastNotify /\ i <= LastInstall
    BY <1>1, <2>4, <2>5 DEF Shape
  <2>7. Told(k, i)
    BY <1>4, <2>1, <2>2, <2>3, <2>4, <2>6 DEF HearInv, DispatchedHear, IsFor
  <2> QED BY <2>1, <2>2, <2>7 DEF Told
<1> QED BY <1>2, <1>3, <1>4 DEF EachIsNotified

\* Where clients keep to what the services do not look at, each callback was called for each PPI
\* that it is for, and once, and each notification at dispatch level when the dispatcher goes on
\* (Ppi.c:PeiInstallPpi, PeiNotifyPpi and ProcessNotifyList), however the calls are nested.
THEOREM EachHears == OwnDescriptors /\ CallbacksRegisterCallbacks => (Spec => []EachIsNotified)
<1> SUFFICES ASSUME OwnDescriptors, CallbacksRegisterCallbacks PROVE Spec => []EachIsNotified
  OBVIOUS
<1> DEFINE Inv == TypeInv /\ HearInv /\ OnceInv
<1>1. Init => Inv
  BY InitTypes, InitHear, InitOnce
<1>2. Inv /\ [Next]_vars => Inv'
  <2> SUFFICES ASSUME Inv, [Next]_vars PROVE Inv'
    OBVIOUS
  <2>1. TypeInv'
    BY TypeStep
  <2>2. HearInv'
    BY <2>1, HearStep
  <2>3. OnceInv'
    BY <2>1, OnceStep
  <2> QED BY <2>1, <2>2, <2>3
<1>3. Inv => EachIsNotified
  BY HeardWhenStill
<1>4. QED
  <2> HIDE DEF Inv
  <2> QED BY <1>1, <1>2, <1>3, PTL DEF Spec

=============================================================================
