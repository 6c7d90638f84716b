--------------------------- MODULE VariableProofs ---------------------------
(***************************************************************************)
(* The log of variables keeps its end, its order and the last value of     *)
(* each variable, for any variables, data, sizes of the stores and power   *)
(* failures. Where a copy is found depends on the attributes it was        *)
(* written with, so the order and the values need that a variable is       *)
(* always set with the same NV and RT attributes (OneKind); the types and  *)
(* the ends of the logs do not. The invariant has two parts. LogInv: the   *)
(* call in progress (CallInv) and where the logs end (EndInv).             *)
(* ContentsInv: the copy that the call found (CurrentInv), the order of    *)
(* the copies (StoresInv) and what was promised of each variable           *)
(* (ValuesInv).                                                            *)
(***************************************************************************)
EXTENDS Variable, ListsProofs

\* Each variable is non-volatile or not, and visible at runtime or not.
OneKind ==
  \A n \in Names : \A a, b \in AttributesOf[n] : a \cap {"NV", "RT"} = b \cap {"NV", "RT"}

-----------------------------------------------------------------------------
(* The invariant.                                                          *)

InCall == {"MarkOld", "Reserve", "Header", "Data", "Added", "WriteVolatile", "MarkDeleted"}

\* The call in progress: what pc says of it, and the copy being written.
CallInv ==
  /\ call # None <=> pc \in InCall
  /\ pc \in {"MarkOld", "Reserve"} => ~call.Reclaimed
  /\ pc = "MarkOld" => call.CurrPtr # None
  /\ pc \in {"Header", "Data", "Added"} => call.Base = "NonVolatile"
  /\ pc = "WriteVolatile" => call.Base = "Volatile"
  /\ pc \in {"Data", "Added"} => store["NonVolatile"] # <<>>

\* Where the next copy is written, until a reclaim fails.
EndInv ==
  /\ \A v \in Bases : EndOf(store[v]) <= Size[v]
  /\ LastVariableOffset["Volatile"] = EndOf(store["Volatile"])
  /\ pc \in {"Idle", "MarkOld", "Reserve", "Header", "WriteVolatile", "MarkDeleted"} =>
       LastVariableOffset["NonVolatile"] \in {0, EndOf(store["NonVolatile"])}
  /\ pc \in {"Data", "Added"} => NewEnd = EndOf(store["NonVolatile"])
  /\ pc \in {"Header", "WriteVolatile"} => Fits
  /\ torn => pc \in {"Boot", "Halted"}

LogInv == TypeOK /\ CallInv /\ EndInv

\* The copies that a search may return.
LiveOf(copies, i, n) == copies[i].name = n /\ copies[i].state \in Live
LastLive(copies, i, n) ==
  /\ i \in DOMAIN copies /\ LiveOf(copies, i, n)
  /\ \A j \in DOMAIN copies : j > i => ~LiveOf(copies, j, n)

\* d is the value of n in a store.
Holds(copies, n, d) ==
  \/ d = Absent /\ \A i \in DOMAIN copies : ~LiveOf(copies, i, n)
  \/ \E i \in DOMAIN copies : LastLive(copies, i, n) /\ copies[i].data = d

\* A copy in transition is older than the valid one.
Ordered(copies) ==
  \A i, j \in DOMAIN copies :
    i < j /\ copies[i].name = copies[j].name /\ copies[i].state \in Live /\ copies[j].state \in Live
    => copies[i].state = "IN_DELETED_TRANSITION"

\* The store of a variable.
Home(n) == IF Persistent(n) THEN "NonVolatile" ELSE "Volatile"

Placed(v, copy) == copy.attributes \in AttributesOf[copy.name] /\ v = Home(copy.name)

\* The copy that the call found is the last one, and once it is marked the new one may
\* become valid.
CurrentInv ==
  /\ call # None => call.attributes \in AttributesOf[call.name] /\ call.Base = Home(call.name)
  /\ pc \in {"MarkOld", "Reserve"} =>
       IF call.CurrPtr = None
       THEN \A i \in DOMAIN store[call.Base] : ~LiveOf(store[call.Base], i, call.name)
       ELSE /\ call.CurrPtr.Base = call.Base
            /\ LastLive(store[call.Base], call.CurrPtr.index, call.name)
  /\ pc \in InCall \ {"MarkOld"} /\ ~call.Reclaimed /\ call.CurrPtr # None =>
       Copy(call.CurrPtr).state = "IN_DELETED_TRANSITION"
  /\ pc \in InCall \ {"MarkOld", "MarkDeleted"} =>
       \A i \in DOMAIN store[call.Base] :
         LiveOf(store[call.Base], i, call.name) =>
           store[call.Base][i].state = "IN_DELETED_TRANSITION"
  /\ pc \in {"Data", "Added"} => store["NonVolatile"][Len(store["NonVolatile"])] = CopyOfCall
  /\ pc = "MarkDeleted" =>
       /\ store[call.Base] # <<>>
       /\ store[call.Base][Len(store[call.Base])] = [CopyOfCall EXCEPT !.state = "ADDED"]

StoresInv ==
  \A v \in Bases : Ordered(store[v]) /\ \A i \in DOMAIN store[v] : Placed(v, store[v][i])

\* What was promised of a variable is what its store holds; the promise of the call that
\* is about to return is yet to be made.
ValuesInv ==
  \A n \in Names :
    /\ pc # "Invalid" /\ Absent \notin expected[n]
    /\ pc = "MarkDeleted" => call.name # n
    => \E d \in expected[n] : Holds(store[Home(n)], n, d)

ContentsInv == CurrentInv /\ StoresInv /\ ValuesInv
-----------------------------------------------------------------------------
(* The walk over the headers of a store.                                   *)

USE DEF Bases

LEMMA SizeFacts ==
  /\ HeaderSize \in Nat /\ HeaderSize > 0
  /\ \A d \in Data : VarSize[d] \in Nat /\ VarSize[d] > 0
  /\ \A v \in Bases : Size[v] \in Nat /\ HeaderSize <= Size[v]
BY SizeAssumption

\* The headers are walked one by one.
Walks(copies, F) ==
  /\ F[0] = HeaderSize
  /\ \A i \in 1..Len(copies) : F[i] = F[i - 1] + VarSize[copies[i].data]

LEMMA WalkExists ==
  ASSUME NEW copies \in Seq(CopyType)
  PROVE  \E F : Walks(copies, F) /\ EndOf(copies) = F[Len(copies)]
<1> DEFINE Step(G, i) == IF i = 0 THEN HeaderSize ELSE G[i - 1] + VarSize[copies[i].data]
           Walk(n, G) == G = [i \in 0..n |-> Step(G, i)]
           S == {n \in Nat : \E G : Walk(n, G)}
<1>1. 0 \in S
  <2>1. Walk(0, [i \in 0..0 |-> HeaderSize])
    OBVIOUS
  <2> QED BY <2>1
<1>2. ASSUME NEW n \in Nat, n \in S
      PROVE  n + 1 \in S
  <2>1. PICK G : Walk(n, G)
    BY <1>2
  <2> DEFINE H == [i \in 0..(n + 1) |-> IF i = n + 1 THEN Step(G, i) ELSE G[i]]
  <2>2. \A i \in 0..n : H[i] = G[i]
    OBVIOUS
  <2>3. \A i \in 0..(n + 1) : H[i] = Step(H, i)
    <3> TAKE i \in 0..(n + 1)
    <3>1. CASE i = n + 1
      <4>1. i # 0 /\ i - 1 \in 0..n
        BY <3>1
      <4> QED BY <2>2, <3>1, <4>1
    <3>2. CASE i \in 0..n /\ i # 0
      <4>1. i - 1 \in 0..n /\ i # n + 1
        BY <3>2
      <4>2. G[i] = Step(G, i)
        BY <2>1, <3>2
      <4> QED BY <2>2, <3>2, <4>1, <4>2
    <3>3. CASE i = 0
      BY <2>1, <3>3
    <3> QED BY <3>1, <3>2, <3>3
  <2>4. H = [i \in 0..(n + 1) |-> H[i]]
    OBVIOUS
  <2> HIDE DEF H
  <2>5. Walk(n + 1, H)
    BY <2>3, <2>4
  <2> QED BY <2>5
<1> DEFINE At[i \in 0..Len(copies)] ==
             IF i = 0 THEN HeaderSize ELSE At[i - 1] + VarSize[copies[i].data]
<1>3. Len(copies) \in Nat
  OBVIOUS
<1>4. PICK G : Walk(Len(copies), G)
  <2> HIDE DEF Walk
  <2>1. Len(copies) \in S
    <3> HIDE DEF S
    <3> QED BY <1>1, <1>2, <1>3, Induction
  <2> QED BY <2>1
<1>5. At = [i \in 0..Len(copies) |-> IF i = 0 THEN HeaderSize ELSE At[i - 1] + VarSize[copies[i].data]]
  BY <1>4
<1>6. EndOf(copies) = At[Len(copies)]
  BY DEF EndOf
<1> HIDE DEF At
<1>7. Walks(copies, At)
  <2>1. At[0] = HeaderSize
    BY <1>3, <1>5
  <2>2. \A i \in 1..Len(copies) : i \in 0..Len(copies) /\ i # 0
    BY <1>3
  <2> QED BY <1>5, <2>1, <2>2 DEF Walks
<1> QED BY <1>6, <1>7

LEMMA WalkIsEnd ==
  ASSUME NEW copies \in Seq(CopyType), NEW F, Walks(copies, F)
  PROVE  EndOf(copies) = F[Len(copies)] /\ EndOf(copies) \in Nat /\ EndOf(copies) >= HeaderSize
<1>1. PICK G : Walks(copies, G) /\ EndOf(copies) = G[Len(copies)]
  BY WalkExists
<1> DEFINE S == {n \in Nat : n <= Len(copies) => F[n] = G[n] /\ F[n] \in Nat /\ F[n] >= HeaderSize}
<1>2. 0 \in S
  BY <1>1, SizeFacts DEF Walks
<1>3. ASSUME NEW n \in Nat, n \in S
      PROVE  n + 1 \in S
  <2>1. SUFFICES ASSUME n + 1 <= Len(copies)
                 PROVE  F[n + 1] = G[n + 1] /\ F[n + 1] \in Nat /\ F[n + 1] >= HeaderSize
    OBVIOUS
  <2>2. F[n] = G[n] /\ F[n] \in Nat /\ F[n] >= HeaderSize
    BY <1>3, <2>1
  <2>3. n + 1 \in 1..Len(copies) /\ (n + 1) - 1 = n
    BY <2>1
  <2>4. copies[n + 1] \in CopyType
    BY <2>3
  <2>5. F[n + 1] = F[n] + VarSize[copies[n + 1].data] /\ G[n + 1] = G[n] + VarSize[copies[n + 1].data]
    BY <1>1, <2>3 DEF Walks
  <2>6. copies[n + 1].data \in Data
    BY <2>4 DEF CopyType
  <2> QED BY <2>2, <2>5, <2>6, SizeFacts
<1>4. Len(copies) \in S
  <2>1. Len(copies) \in Nat
    OBVIOUS
  <2> HIDE DEF S
  <2> QED BY <1>2, <1>3, <2>1, Induction
<1> QED BY <1>1, <1>4

LEMMA EndFacts ==
  /\ EndOf(<<>>) = HeaderSize
  /\ \A copies \in Seq(CopyType) : EndOf(copies) \in Nat /\ EndOf(copies) >= HeaderSize
<1>1. <<>> \in Seq(CopyType) /\ Len(<<>>) = 0
  OBVIOUS
<1>2. Walks(<<>>, [i \in 0..0 |-> HeaderSize])
  BY DEF Walks
<1>3. EndOf(<<>>) = HeaderSize
  BY <1>1, <1>2, WalkIsEnd
<1>4. ASSUME NEW copies \in Seq(CopyType)
      PROVE  EndOf(copies) \in Nat /\ EndOf(copies) >= HeaderSize
  BY WalkExists, WalkIsEnd
<1> QED BY <1>3, <1>4

LEMMA EndAppend ==
  ASSUME NEW copies \in Seq(CopyType), NEW copy \in CopyType
  PROVE  EndOf(Append(copies, copy)) = EndOf(copies) + VarSize[copy.data]
<1>1. PICK F : Walks(copies, F) /\ EndOf(copies) = F[Len(copies)]
  BY WalkExists
<1> DEFINE n == Len(copies)
           G == [i \in 0..(n + 1) |-> IF i = n + 1 THEN F[n] + VarSize[copy.data] ELSE F[i]]
           more == Append(copies, copy)
<1>2. /\ n \in Nat /\ more \in Seq(CopyType) /\ Len(more) = n + 1 /\ more[n + 1] = copy
      /\ \A i \in 1..n : more[i] = copies[i]
  OBVIOUS
<1>3. G[n + 1] = F[n] + VarSize[copy.data] /\ \A i \in 0..n : G[i] = F[i]
  BY <1>2
<1> HIDE DEF n, more, G
<1>4. Walks(more, G)
  <2>1. G[0] = HeaderSize
    BY <1>1, <1>2, <1>3 DEF Walks
  <2>2. ASSUME NEW i \in 1..Len(more)
        PROVE  G[i] = G[i - 1] + VarSize[more[i].data]
    <3>1. CASE i = n + 1
      <4>1. i - 1 = n /\ n \in 0..n
        BY <1>2, <3>1
      <4> QED BY <1>2, <1>3, <3>1, <4>1
    <3>2. CASE i \in 1..n
      <4>1. i - 1 \in 0..n /\ i \in 0..n
        BY <1>2, <3>2
      <4>2. F[i] = F[i - 1] + VarSize[copies[i].data]
        BY <1>1, <3>2 DEF Walks, n
      <4> QED BY <1>2, <1>3, <3>2, <4>1, <4>2
    <3> QED BY <1>2, <3>1, <3>2
  <2> QED BY <2>1, <2>2 DEF Walks
<1>5. EndOf(more) = G[n + 1]
  BY <1>2, <1>4, WalkIsEnd
<1> QED BY <1>1, <1>3, <1>5 DEF n, more

\* The state of a copy is not part of its size.
LEMMA EndSame ==
  ASSUME NEW copies \in Seq(CopyType), NEW others \in Seq(CopyType), Len(others) = Len(copies),
         \A i \in 1..Len(copies) : others[i].data = copies[i].data
  PROVE  EndOf(others) = EndOf(copies)
<1>1. PICK F : Walks(copies, F) /\ EndOf(copies) = F[Len(copies)]
  BY WalkExists
<1>2. Walks(others, F)
  BY <1>1 DEF Walks
<1> QED BY <1>1, <1>2, WalkIsEnd
-----------------------------------------------------------------------------
(* What a reclaim leaves of a store.                                       *)

NewCopy(copies, i, current) ==
  [copies[i] EXCEPT !.state = IF i = current THEN copies[i].state ELSE "ADDED"]

\* buffer holds what is kept of the first n copies, the one of place k came from m[k].
Moved(copies, current, n, buffer, m) ==
  /\ buffer \in Seq(CopyType)
  /\ m \in [1..Len(buffer) -> 1..n]
  /\ \A k \in 1..Len(buffer) : Kept(copies, m[k]) /\ buffer[k] = NewCopy(copies, m[k], current)
  /\ \A j, k \in 1..Len(buffer) : j < k => m[j] < m[k]
  /\ \A i \in 1..n : Kept(copies, i) => \E k \in 1..Len(buffer) : m[k] = i

LEMMA NewCopyFacts ==
  ASSUME NEW copies \in Seq(CopyType), NEW i \in 1..Len(copies), NEW current
  PROVE  /\ NewCopy(copies, i, current) \in CopyType
         /\ NewCopy(copies, i, current).name = copies[i].name
         /\ NewCopy(copies, i, current).data = copies[i].data
         /\ NewCopy(copies, i, current).attributes = copies[i].attributes
         /\ NewCopy(copies, i, current).state = IF i = current THEN copies[i].state ELSE "ADDED"
<1>1. PICK copy : copy = copies[i] /\ copy \in CopyType
  OBVIOUS
<1>2. PICK state : state = IF i = current THEN copies[i].state ELSE "ADDED"
  OBVIOUS
<1>3. state \in Live \cup {"HEADER", "DELETED"}
  BY <1>1, <1>2 DEF CopyType, Live
<1>4. NewCopy(copies, i, current) = [copy EXCEPT !.state = state]
  BY <1>1, <1>2 DEF NewCopy
<1> QED BY <1>1, <1>2, <1>3, <1>4 DEF CopyType

LEMMA MovedOn ==
  ASSUME NEW copies \in Seq(CopyType), NEW current, NEW n \in Nat, n + 1 <= Len(copies),
         NEW buffer, NEW m, Moved(copies, current, n, buffer, m)
  PROVE  /\ ~Kept(copies, n + 1) => Moved(copies, current, n + 1, buffer, m)
         /\ Kept(copies, n + 1) =>
              \E m2 : Moved(copies, current, n + 1, Append(buffer, NewCopy(copies, n + 1, current)), m2)
<1> DEFINE len == Len(buffer)
<1>1. /\ buffer \in Seq(CopyType) /\ len \in Nat /\ m \in [1..len -> 1..n]
      /\ \A k \in 1..len : Kept(copies, m[k]) /\ buffer[k] = NewCopy(copies, m[k], current)
      /\ \A j, k \in 1..len : j < k => m[j] < m[k]
      /\ \A i \in 1..n : Kept(copies, i) => \E k \in 1..len : m[k] = i
  BY DEF Moved
<1>2. ASSUME ~Kept(copies, n + 1)
      PROVE  Moved(copies, current, n + 1, buffer, m)
  <2>1. m \in [1..len -> 1..(n + 1)]
    BY <1>1
  <2>2. \A i \in 1..(n + 1) : i \in 1..n \/ i = n + 1
    OBVIOUS
  <2> QED BY <1>1, <1>2, <2>1, <2>2 DEF Moved
<1>3. ASSUME Kept(copies, n + 1)
      PROVE  \E m2 : Moved(copies, current, n + 1, Append(buffer, NewCopy(copies, n + 1, current)), m2)
  <2>1. PICK copy : copy = NewCopy(copies, n + 1, current)
    OBVIOUS
  <2>2. copy \in CopyType
    BY <2>1, NewCopyFacts
  <2> DEFINE longer == Append(buffer, copy)
             m2 == [k \in 1..(len + 1) |-> IF k = len + 1 THEN n + 1 ELSE m[k]]
  <2>3. /\ longer \in Seq(CopyType) /\ Len(longer) = len + 1 /\ longer[len + 1] = copy
        /\ \A k \in 1..len : longer[k] = buffer[k]
    BY <1>1, <2>2
  <2>4. /\ m2[len + 1] = n + 1 /\ len + 1 \in 1..(len + 1)
        /\ \A k \in 1..len : m2[k] = m[k] /\ m[k] \in 1..n /\ k \in 1..(len + 1)
    BY <1>1
  <2>5. m2 \in [1..(len + 1) -> 1..(n + 1)]
    BY <1>1
  <2>6. \A k \in 1..(len + 1) : k = len + 1 \/ k \in 1..len
    BY <1>1
  <2> HIDE DEF len, longer, m2
  <2>7. \A k \in 1..(len + 1) : Kept(copies, m2[k]) /\ longer[k] = NewCopy(copies, m2[k], current)
    BY <1>1, <1>3, <2>1, <2>3, <2>4, <2>6
  <2>8. ASSUME NEW j \in 1..(len + 1), NEW k \in 1..(len + 1), j < k
        PROVE  m2[j] < m2[k]
    <3>1. j \in 1..len
      BY <1>1, <2>8
    <3>2. CASE k = len + 1
      BY <2>4, <3>1, <3>2
    <3>3. CASE k \in 1..len
      BY <1>1, <2>4, <2>8, <3>1, <3>3
    <3> QED BY <2>6, <3>2, <3>3
  <2>9. ASSUME NEW i \in 1..(n + 1), Kept(copies, i)
        PROVE  \E k \in 1..(len + 1) : m2[k] = i
    <3>1. CASE i = n + 1
      BY <2>4, <3>1
    <3>2. CASE i \in 1..n
      <4>1. PICK k \in 1..len : m[k] = i
        BY <1>1, <2>9, <3>2
      <4> QED BY <2>4, <4>1
    <3> QED BY <3>1, <3>2
  <2>10. Moved(copies, current, n + 1, longer, m2)
    BY <2>3, <2>5, <2>7, <2>8, <2>9 DEF Moved
  <2> QED BY <2>1, <2>10 DEF longer
<1> QED BY <1>2, <1>3

\* The buffer grows copy by copy.
Buffers(copies, current, F) ==
  /\ F[0] = <<>>
  /\ \A i \in 1..Len(copies) :
       /\ ~Kept(copies, i) => F[i] = F[i - 1]
       /\ Kept(copies, i) => F[i] = Append(F[i - 1], NewCopy(copies, i, current))

LEMMA BuffersExist ==
  ASSUME NEW copies \in Seq(CopyType), NEW current
  PROVE  \E F : Buffers(copies, current, F) /\ Reclaimed(copies, current) = F[Len(copies)]
<1> DEFINE Step(G, i) ==
             IF i = 0 THEN <<>>
             ELSE IF ~Kept(copies, i) THEN G[i - 1]
             ELSE Append(G[i - 1], NewCopy(copies, i, current))
           Walk(n, G) == G = [i \in 0..n |-> Step(G, i)]
           S == {n \in Nat : \E G : Walk(n, G)}
<1>1. 0 \in S
  <2>1. Walk(0, [i \in 0..0 |-> <<>>])
    OBVIOUS
  <2> QED BY <2>1
<1>2. ASSUME NEW n \in Nat, n \in S
      PROVE  n + 1 \in S
  <2>1. PICK G : Walk(n, G)
    BY <1>2
  <2> DEFINE H == [i \in 0..(n + 1) |-> IF i = n + 1 THEN Step(G, i) ELSE G[i]]
  <2>2. \A i \in 0..n : H[i] = G[i]
    OBVIOUS
  <2>3. \A i \in 0..(n + 1) : H[i] = Step(H, i)
    <3> TAKE i \in 0..(n + 1)
    <3>1. CASE i = n + 1
      <4>1. i # 0 /\ i - 1 \in 0..n
        BY <3>1
      <4> QED BY <2>2, <3>1, <4>1
    <3>2. CASE i \in 0..n /\ i # 0
      <4>1. i - 1 \in 0..n /\ i # n + 1
        BY <3>2
      <4>2. G[i] = Step(G, i)
        BY <2>1, <3>2
      <4> QED BY <2>2, <3>2, <4>1, <4>2
    <3>3. CASE i = 0
      BY <2>1, <3>3
    <3> QED BY <3>1, <3>2, <3>3
  <2>4. H = [i \in 0..(n + 1) |-> H[i]]
    OBVIOUS
  <2> HIDE DEF H
  <2>5. Walk(n + 1, H)
    BY <2>3, <2>4
  <2> QED BY <2>5
<1>3. Len(copies) \in Nat
  OBVIOUS
<1>4. PICK G : Walk(Len(copies), G)
  <2> HIDE DEF Walk
  <2>1. Len(copies) \in S
    <3> HIDE DEF S
    <3> QED BY <1>1, <1>2, <1>3, Induction
  <2> QED BY <2>1
<1> DEFINE Buffer[i \in 0..Len(copies)] ==
             IF i = 0 THEN <<>>
             ELSE IF ~Kept(copies, i) THEN Buffer[i - 1]
             ELSE Append(Buffer[i - 1],
                         [copies[i] EXCEPT !.state = IF i = current THEN @ ELSE "ADDED"])
<1>5. Reclaimed(copies, current) = Buffer[Len(copies)]
  BY DEF Reclaimed
<1>6. Buffer = [i \in 0..Len(copies) |-> Step(Buffer, i)]
  BY <1>4 DEF NewCopy
<1> HIDE DEF Buffer
<1>7. Buffers(copies, current, Buffer)
  <2>1. Buffer[0] = <<>>
    BY <1>3, <1>6
  <2>2. \A i \in 1..Len(copies) : i \in 0..Len(copies) /\ i # 0
    BY <1>3
  <2>3. \A i \in 1..Len(copies) : Buffer[i] = Step(Buffer, i)
    BY <1>6, <2>2
  <2> QED BY <2>1, <2>2, <2>3 DEF Buffers
<1> QED BY <1>5, <1>7

LEMMA ReclaimMoves ==
  ASSUME NEW copies \in Seq(CopyType), NEW current
  PROVE  /\ \E m : Moved(copies, current, Len(copies), Reclaimed(copies, current), m)
         /\ EndOf(Reclaimed(copies, current)) <= EndOf(copies)
<1>1. PICK B : Buffers(copies, current, B) /\ Reclaimed(copies, current) = B[Len(copies)]
  BY BuffersExist
<1>2. PICK F : Walks(copies, F) /\ EndOf(copies) = F[Len(copies)]
  BY WalkExists
<1> DEFINE Good(n) == /\ \E m : Moved(copies, current, n, B[n], m)
                      /\ F[n] \in Nat /\ EndOf(B[n]) <= F[n]
           S == {n \in Nat : n <= Len(copies) => Good(n)}
<1>3. 0 \in S
  <2>1. B[0] = <<>> /\ F[0] = HeaderSize
    BY <1>1, <1>2 DEF Buffers, Walks
  <2>2. Moved(copies, current, 0, <<>>, [k \in 1..0 |-> k])
    BY DEF Moved
  <2> QED BY <2>1, <2>2, EndFacts, SizeFacts
<1>4. ASSUME NEW n \in Nat, n \in S
      PROVE  n + 1 \in S
  <2>1. SUFFICES ASSUME n + 1 <= Len(copies)
                 PROVE  Good(n + 1)
    OBVIOUS
  <2>2. PICK m : Moved(copies, current, n, B[n], m)
    BY <1>4, <2>1
  <2>3. F[n] \in Nat /\ EndOf(B[n]) <= F[n]
    BY <1>4, <2>1
  <2>4. n + 1 \in 1..Len(copies) /\ (n + 1) - 1 = n
    BY <2>1
  <2>5. B[n] \in Seq(CopyType) /\ EndOf(B[n]) \in Nat
    BY <2>2, EndFacts DEF Moved
  <2>6. copies[n + 1] \in CopyType
    BY <2>4
  <2>7. VarSize[copies[n + 1].data] \in Nat
    BY <2>6, SizeFacts DEF CopyType
  <2>8. F[n + 1] = F[n] + VarSize[copies[n + 1].data]
    BY <1>2, <2>4 DEF Walks
  <2>9. CASE ~Kept(copies, n + 1)
    <3>1. B[n + 1] = B[n]
      BY <1>1, <2>4, <2>9 DEF Buffers
    <3>2. Moved(copies, current, n + 1, B[n + 1], m)
      BY <2>1, <2>2, <2>9, <3>1, MovedOn
    <3> QED BY <2>3, <2>5, <2>7, <2>8, <3>1, <3>2
  <2>10. CASE Kept(copies, n + 1)
    <3>1. B[n + 1] = Append(B[n], NewCopy(copies, n + 1, current))
      BY <1>1, <2>4, <2>10 DEF Buffers
    <3>2. \E m2 : Moved(copies, current, n + 1, B[n + 1], m2)
      BY <2>1, <2>2, <2>10, <3>1, MovedOn
    <3>3. NewCopy(copies, n + 1, current) \in CopyType
          /\ NewCopy(copies, n + 1, current).data = copies[n + 1].data
      BY <2>4, NewCopyFacts
    <3>4. EndOf(B[n + 1]) = EndOf(B[n]) + VarSize[copies[n + 1].data]
      BY <2>5, <3>1, <3>3, EndAppend
    <3> QED BY <2>3, <2>5, <2>7, <2>8, <3>2, <3>4
  <2> QED BY <2>9, <2>10
<1>5. Good(Len(copies))
  <2>1. Len(copies) \in Nat
    OBVIOUS
  <2>2. Len(copies) \in S
    <3> HIDE DEF S
    <3> QED BY <1>3, <1>4, <2>1, Induction
  <2> QED BY <2>1, <2>2
<1> QED BY <1>1, <1>2, <1>5
-----------------------------------------------------------------------------
(* Pointers into the stores, and searches.                                 *)

LEMMA Extremes ==
  ASSUME NEW L \in Nat, NEW S, S \subseteq 1..L, S # {}
  PROVE  /\ \E i \in S : \A j \in S : i <= j
         /\ \E i \in S : \A j \in S : j <= i
<1>1. PICK x \in S : x \in 1..L
  OBVIOUS
<1>2. \A i \in S : i \in Nat /\ 1 <= i /\ i <= L
  OBVIOUS
<1>3. \E i \in S : \A j \in S : i <= j
  <2> SUFFICES ASSUME ~\E i \in S : \A j \in S : i <= j PROVE FALSE
    OBVIOUS
  <2> DEFINE T == {n \in Nat : \A i \in S : n < i}
  <2>1. 0 \in T
    BY <1>2
  <2>2. ASSUME NEW n \in Nat, n \in T PROVE n + 1 \in T
    <3>1. \A i \in S : n + 1 <= i
      BY <1>2, <2>2
    <3>2. n + 1 \notin S
      BY <3>1
    <3>3. \A i \in S : n + 1 < i
      BY <1>2, <3>1, <3>2
    <3> QED BY <3>3
  <2>3. x \in T
    <3> HIDE DEF T
    <3> QED BY <1>1, <1>2, <2>1, <2>2, Induction
  <2> QED BY <1>1, <1>2, <2>3
<1>4. \E i \in S : \A j \in S : j <= i
  <2> SUFFICES ASSUME ~\E i \in S : \A j \in S : j <= i PROVE FALSE
    OBVIOUS
  <2> DEFINE T == {n \in Nat : \A i \in S : i + n <= L}
  <2>1. 0 \in T
    BY <1>2
  <2>2. ASSUME NEW n \in Nat, n \in T PROVE n + 1 \in T
    <3>1. \A i \in S : i <= L - n
      BY <1>2, <2>2
    <3>2. L - n \notin S
      BY <3>1
    <3>3. \A i \in S : i + (n + 1) <= L
      BY <1>2, <3>1, <3>2
    <3> QED BY <3>3
  <2>3. L \in T
    <3> HIDE DEF T
    <3> QED BY <2>1, <2>2, Induction
  <2> QED BY <1>1, <1>2, <2>3
<1> QED BY <1>3, <1>4

PointersOf(st) == UNION {{[Base |-> v, index |-> i] : i \in DOMAIN st[v]} : v \in Bases}

LEMMA PointerFacts ==
  ASSUME NEW st \in [Bases -> Seq(CopyType)]
  PROVE  /\ \A p \in PointersOf(st) : /\ p \in PointerType /\ p # None
                                      /\ p.index \in 1..Len(st[p.Base])
                                      /\ st[p.Base][p.index] \in CopyType
         /\ \A p \in PointerType : p.index \in 1..Len(st[p.Base]) => p \in PointersOf(st)
         /\ \A v \in Bases : /\ st[v] \in Seq(CopyType) /\ Len(st[v]) \in Nat
                             /\ DOMAIN st[v] = 1..Len(st[v])
                             /\ \A i \in 1..Len(st[v]) :
                                  [Base |-> v, index |-> i] \in PointersOf(st)
<1>1. \A v \in Bases : /\ st[v] \in Seq(CopyType) /\ Len(st[v]) \in Nat
                       /\ DOMAIN st[v] = 1..Len(st[v])
  OBVIOUS
<1>2. ASSUME NEW p \in PointersOf(st)
      PROVE  /\ p \in PointerType /\ p # None
             /\ p.index \in 1..Len(st[p.Base])
             /\ st[p.Base][p.index] \in CopyType
  <2>1. PICK v \in Bases : \E i \in DOMAIN st[v] : p = [Base |-> v, index |-> i]
    BY DEF PointersOf
  <2> PICK i \in DOMAIN st[v] : p = [Base |-> v, index |-> i]
    BY <2>1
  <2>2. p.Base = v /\ p.index = i /\ i \in 1..Len(st[v])
    BY <1>1
  <2>3. p \in PointerType
    BY <1>1, <2>2 DEF PointerType
  <2>4. st[v][i] \in CopyType
    BY <1>1, <2>2
  <2> QED BY <2>2, <2>3, <2>4, NameAssumption
<1>3. ASSUME NEW p \in PointerType, p.index \in 1..Len(st[p.Base])
      PROVE  p \in PointersOf(st)
  <2>1. p = [Base |-> p.Base, index |-> p.index] /\ p.Base \in Bases
    BY DEF PointerType
  <2>2. p.index \in DOMAIN st[p.Base]
    BY <1>1, <1>3, <2>1
  <2> QED BY <2>1, <2>2 DEF PointersOf
<1>4. ASSUME NEW v \in Bases, NEW i \in 1..Len(st[v])
      PROVE  [Base |-> v, index |-> i] \in PointersOf(st)
  <2>1. i \in DOMAIN st[v]
    BY <1>1
  <2>2. [Base |-> v, index |-> i] \in {[Base |-> v, index |-> j] : j \in DOMAIN st[v]}
    BY <2>1
  <2>3. \A p : p \in PointersOf(st) <=> \E w \in Bases : p \in {[Base |-> w, index |-> j] : j \in DOMAIN st[w]}
    BY DEF PointersOf
  <2> QED BY <2>2, <2>3
<1> QED BY <1>1, <1>2, <1>3, <1>4

\* A search that goes through the stores from either side finds something.
LEMMA FirstPointer ==
  ASSUME NEW st \in [Bases -> Seq(CopyType)], NEW S, S \subseteq PointersOf(st), S # {}
  PROVE  /\ \E p \in S : \A q \in S : Before(p, q)
         /\ \E p \in S : \A q \in S : Before(q, p)
<1> DEFINE In(v) == {i \in 1..Len(st[v]) : [Base |-> v, index |-> i] \in S}
<1>1. \A p \in S : /\ p \in PointerType /\ p.index \in 1..Len(st[p.Base])
                   /\ p.Base \in Bases /\ p.index \in Nat
                   /\ p = [Base |-> p.Base, index |-> p.index]
  BY PointerFacts DEF PointerType
<1>2. \A p \in S : p.index \in In(p.Base)
  BY <1>1
<1>3. \A v \in Bases : \A i \in In(v) : [Base |-> v, index |-> i] \in S
  OBVIOUS
<1>4. \A v \in Bases : In(v) # {} => /\ \E i \in In(v) : \A j \in In(v) : i <= j
                                     /\ \E i \in In(v) : \A j \in In(v) : j <= i
  <2> TAKE v \in Bases
  <2>1. In(v) \subseteq 1..Len(st[v]) /\ Len(st[v]) \in Nat
    BY PointerFacts
  <2> HIDE DEF In
  <2> QED BY <2>1, Extremes
<1>5. PICK x \in S : TRUE
  OBVIOUS
<1>6. In(x.Base) # {}
  BY <1>2
<1> HIDE DEF In
<1>7. \E p \in S : \A q \in S : Before(p, q)
  <2>1. CASE In("NonVolatile") # {}
    <3>1. PICK i \in In("NonVolatile") : \A j \in In("NonVolatile") : i <= j
      BY <1>4, <2>1
    <3>2. PICK p : p = [Base |-> "NonVolatile", index |-> i]
      OBVIOUS
    <3>3. p \in S /\ p.Base = "NonVolatile" /\ p.index = i
      BY <1>3, <3>2
    <3>4. \A q \in S : Before(p, q)
      BY <1>1, <1>2, <3>1, <3>3 DEF Before
    <3> QED BY <3>3, <3>4
  <2>2. CASE In("NonVolatile") = {}
    <3>1. \A q \in S : q.Base = "Volatile"
      BY <1>1, <1>2, <2>2
    <3>2. In("Volatile") # {}
      BY <1>6, <3>1
    <3>3. PICK i \in In("Volatile") : \A j \in In("Volatile") : i <= j
      BY <1>4, <3>2
    <3>4. PICK p : p = [Base |-> "Volatile", index |-> i]
      OBVIOUS
    <3>5. p \in S /\ p.Base = "Volatile" /\ p.index = i
      BY <1>3, <3>4
    <3>6. \A q \in S : Before(p, q)
      BY <1>2, <3>1, <3>3, <3>5 DEF Before
    <3> QED BY <3>5, <3>6
  <2> QED BY <2>1, <2>2
<1>8. \E p \in S : \A q \in S : Before(q, p)
  <2>1. CASE In("Volatile") # {}
    <3>1. PICK i \in In("Volatile") : \A j \in In("Volatile") : j <= i
      BY <1>4, <2>1
    <3>2. PICK p : p = [Base |-> "Volatile", index |-> i]
      OBVIOUS
    <3>3. p \in S /\ p.Base = "Volatile" /\ p.index = i
      BY <1>3, <3>2
    <3>4. \A q \in S : Before(q, p)
      BY <1>1, <1>2, <3>1, <3>3 DEF Before
    <3> QED BY <3>3, <3>4
  <2>2. CASE In("Volatile") = {}
    <3>1. \A q \in S : q.Base = "NonVolatile"
      BY <1>1, <1>2, <2>2
    <3>2. In("NonVolatile") # {}
      BY <1>6, <3>1
    <3>3. PICK i \in In("NonVolatile") : \A j \in In("NonVolatile") : j <= i
      BY <1>4, <3>2
    <3>4. PICK p : p = [Base |-> "NonVolatile", index |-> i]
      OBVIOUS
    <3>5. p \in S /\ p.Base = "NonVolatile" /\ p.index = i
      BY <1>3, <3>4
    <3>6. \A q \in S : Before(q, p)
      BY <1>2, <3>1, <3>3, <3>5 DEF Before
    <3> QED BY <3>5, <3>6
  <2> QED BY <2>1, <2>2
<1> QED BY <1>7, <1>8

\* What may be found, and what is.
Candidate(p, n) == Copy(p).name = n /\ Copy(p).state \in Live /\ Visible(Copy(p))

LEMMA FindFacts ==
  ASSUME store \in [Bases -> Seq(CopyType)], NEW n, NEW found, found = FindVariable(n)
  PROVE  /\ found = None => \A p \in Pointers : ~Candidate(p, n)
         /\ found # None =>
              /\ found \in Pointers /\ Candidate(found, n)
              /\ \/ Copy(found).state = "ADDED"
                 \/ \A q \in Pointers : Candidate(q, n) =>
                      Copy(q).state = "IN_DELETED_TRANSITION" /\ Before(q, found)
<1> DEFINE Copies(state) == {p \in Pointers : Copy(p).name = n /\ Copy(p).state = state /\ Visible(Copy(p))}
           added == Copies("ADDED")
           leaving == Copies("IN_DELETED_TRANSITION")
<1>1. Pointers = PointersOf(store)
  BY DEF Pointers, PointersOf
<1>2. \A p \in Pointers : Candidate(p, n) <=> p \in added \/ p \in leaving
  BY DEF Candidate, Live
<1>3. added \subseteq Pointers /\ leaving \subseteq Pointers
  OBVIOUS
<1>4. \A p \in added : Copy(p).state = "ADDED"
  OBVIOUS
<1>5. \A p \in leaving : Copy(p).state = "IN_DELETED_TRANSITION"
  OBVIOUS
<1>6. found = CASE added # {}                    -> CHOOSE p \in added : \A q \in added : Before(p, q)
                [] added = {} /\ leaving # {}    -> CHOOSE p \in leaving : \A q \in leaving : Before(q, p)
                [] added = {} /\ leaving = {}    -> None
  BY DEF FindVariable
<1> HIDE DEF added, leaving, Copies
<1>7. CASE added # {}
  <2>1. \E p \in added : \A q \in added : Before(p, q)
    BY <1>1, <1>3, <1>7, FirstPointer
  <2>2. found \in added
    BY <1>6, <1>7, <2>1
  <2>3. found # None
    BY <1>1, <1>3, <2>2, PointerFacts
  <2> QED BY <1>2, <1>3, <1>4, <2>2, <2>3
<1>8. CASE added = {} /\ leaving # {}
  <2>1. \E p \in leaving : \A q \in leaving : Before(q, p)
    BY <1>1, <1>3, <1>8, FirstPointer
  <2>2. found \in leaving /\ \A q \in leaving : Before(q, found)
    BY <1>6, <1>8, <2>1
  <2>3. found # None
    BY <1>1, <1>3, <2>2, PointerFacts
  <2> QED BY <1>2, <1>3, <1>5, <1>8, <2>2, <2>3
<1>9. CASE added = {} /\ leaving = {}
  <2>1. found = None
    BY <1>6, <1>9
  <2> QED BY <1>2, <1>9, <2>1
<1> QED BY <1>7, <1>8, <1>9
-----------------------------------------------------------------------------
(* What the flash operations do to the stores.                             *)
Stores == [Bases -> Seq(CopyType)]

MarkedIn(st, p, state) == [st EXCEPT ![p.Base][p.index].state = state]
AppendedTo(st, v, copy) == [st EXCEPT ![v] = Append(@, copy)]
ReclaimedIn(st, v, current) == [st EXCEPT ![v] = Reclaimed(@, current)]

LEMMA Marked ==
  ASSUME NEW st \in Stores, NEW p \in PointersOf(st), NEW state \in Live \cup {"HEADER", "DELETED"},
         NEW new, new = MarkedIn(st, p, state)
  PROVE  /\ new \in Stores /\ PointersOf(new) = PointersOf(st)
         /\ \A v \in Bases : Len(new[v]) = Len(st[v]) /\ EndOf(new[v]) = EndOf(st[v])
         /\ \A v \in Bases : \A i \in 1..Len(st[v]) :
              /\ new[v][i].name = st[v][i].name /\ new[v][i].data = st[v][i].data
              /\ new[v][i].attributes = st[v][i].attributes
              /\ v = p.Base /\ i = p.index => new[v][i] = [st[v][i] EXCEPT !.state = state]
              /\ v = p.Base /\ i = p.index => new[v][i].state = state
              /\ v # p.Base \/ i # p.index => new[v][i] = st[v][i]
<1>1. PICK w, k, copy, list : w = p.Base /\ k = p.index /\ list = st[w] /\ copy = list[k]
  OBVIOUS
<1>2. /\ w \in Bases /\ k \in 1..Len(list) /\ list \in Seq(CopyType) /\ copy \in CopyType
      /\ \A v \in Bases : st[v] \in Seq(CopyType) /\ Len(st[v]) \in Nat /\ DOMAIN st[v] = 1..Len(st[v])
  BY <1>1, PointerFacts DEF PointerType, Stores
<1>3. PICK copy2 : copy2 = [copy EXCEPT !.state = state]
  OBVIOUS
<1>4. /\ copy2 \in CopyType /\ copy2.name = copy.name /\ copy2.data = copy.data
      /\ copy2.attributes = copy.attributes /\ copy2.state = state
  BY <1>2, <1>3 DEF CopyType
<1>5. PICK list2 : list2 = [list EXCEPT ![k] = copy2]
  OBVIOUS
<1>6. /\ list2 \in Seq(CopyType) /\ Len(list2) = Len(list) /\ list2[k] = copy2
      /\ \A i \in 1..Len(list) : i # k => list2[i] = list[i]
  BY <1>2, <1>4, <1>5
<1>7. new = [st EXCEPT ![w] = list2]
  BY <1>1, <1>3, <1>5 DEF MarkedIn
<1>8. new \in Stores /\ new[w] = list2 /\ \A v \in Bases : v # w => new[v] = st[v]
  <2>1. w \in Bases /\ list2 \in Seq(CopyType) /\ st \in [Bases -> Seq(CopyType)]
    BY <1>2, <1>6 DEF Stores
  <2>2. new \in [Bases -> Seq(CopyType)]
    BY <1>7, <2>1
  <2>3. new[w] = list2
    BY <1>7, <2>1
  <2>4. \A v \in Bases : v # w => new[v] = st[v]
    BY <1>7, <2>1
  <2> QED BY <2>2, <2>3, <2>4 DEF Stores
<1>9. \A v \in Bases : Len(new[v]) = Len(st[v]) /\ DOMAIN new[v] = DOMAIN st[v]
  BY <1>1, <1>2, <1>6, <1>8 DEF Stores
<1>10. PointersOf(new) = PointersOf(st)
  BY <1>9 DEF PointersOf
<1>11. ASSUME NEW v \in Bases, NEW i \in 1..Len(st[v])
       PROVE  /\ new[v][i].name = st[v][i].name /\ new[v][i].data = st[v][i].data
              /\ new[v][i].attributes = st[v][i].attributes
              /\ v = p.Base /\ i = p.index => new[v][i] = [st[v][i] EXCEPT !.state = state]
              /\ v = p.Base /\ i = p.index => new[v][i].state = state
              /\ v # p.Base \/ i # p.index => new[v][i] = st[v][i]
  <2>1. CASE v = w /\ i = k
    <3>1. new[v][i] = copy2 /\ st[v][i] = copy
      BY <1>1, <1>6, <1>8, <2>1
    <3> QED BY <1>1, <1>3, <1>4, <2>1, <3>1
  <2>2. CASE v # w \/ i # k
    <3>1. new[v][i] = st[v][i]
      BY <1>1, <1>6, <1>8, <2>2
    <3> QED BY <1>1, <2>2, <3>1
  <2> QED BY <2>1, <2>2
<1>12. \A v \in Bases : EndOf(new[v]) = EndOf(st[v])
  <2> TAKE v \in Bases
  <2>1. new[v] \in Seq(CopyType) /\ st[v] \in Seq(CopyType) /\ Len(new[v]) = Len(st[v])
    BY <1>8, <1>9 DEF Stores
  <2>2. \A i \in 1..Len(st[v]) : new[v][i].data = st[v][i].data
    BY <1>11
  <2> QED BY <2>1, <2>2, EndSame
<1> QED BY <1>8, <1>9, <1>10, <1>11, <1>12

LEMMA Appended ==
  ASSUME NEW st \in Stores, NEW v \in Bases, NEW copy \in CopyType,
         NEW new, new = AppendedTo(st, v, copy)
  PROVE  /\ new \in Stores /\ PointersOf(st) \subseteq PointersOf(new)
         /\ Len(new[v]) = Len(st[v]) + 1 /\ new[v][Len(st[v]) + 1] = copy
         /\ \A i \in 1..Len(st[v]) : new[v][i] = st[v][i]
         /\ \A w \in Bases : w # v => new[w] = st[w]
         /\ EndOf(new[v]) = EndOf(st[v]) + VarSize[copy.data]
         /\ \A p \in PointersOf(st) : new[p.Base][p.index] = st[p.Base][p.index]
<1>1. st[v] \in Seq(CopyType) /\ Len(st[v]) \in Nat
  BY DEF Stores
<1>2. /\ Append(st[v], copy) \in Seq(CopyType) /\ Len(Append(st[v], copy)) = Len(st[v]) + 1
      /\ Append(st[v], copy)[Len(st[v]) + 1] = copy
      /\ \A i \in 1..Len(st[v]) : Append(st[v], copy)[i] = st[v][i]
  BY <1>1
<1>3. new[v] = Append(st[v], copy) /\ \A w \in Bases : w # v => new[w] = st[w]
  BY DEF Stores, AppendedTo
<1>4. new \in Stores
  BY <1>2 DEF Stores, AppendedTo
<1>5. EndOf(new[v]) = EndOf(st[v]) + VarSize[copy.data]
  BY <1>1, <1>3, EndAppend
<1>6. ASSUME NEW p \in PointersOf(st)
      PROVE  p \in PointersOf(new) /\ new[p.Base][p.index] = st[p.Base][p.index]
  <2>1. p \in PointerType /\ p.Base \in Bases /\ p.index \in 1..Len(st[p.Base])
    BY PointerFacts DEF PointerType, Stores
  <2>2. p.index \in 1..Len(new[p.Base]) /\ new[p.Base][p.index] = st[p.Base][p.index]
    BY <1>1, <1>2, <1>3, <2>1
  <2> QED BY <1>4, <2>1, <2>2, PointerFacts DEF Stores
<1> QED BY <1>2, <1>3, <1>4, <1>5, <1>6

LEMMA ReclaimedStore ==
  ASSUME NEW st \in Stores, NEW v \in Bases, NEW current,
         NEW new, new = ReclaimedIn(st, v, current)
  PROVE  /\ new \in Stores /\ new[v] = Reclaimed(st[v], current)
         /\ \A w \in Bases : w # v => new[w] = st[w]
         /\ EndOf(new[v]) <= EndOf(st[v]) /\ EndOf(new[v]) \in Nat
<1>1. st[v] \in Seq(CopyType)
  BY DEF Stores
<1>2. PICK list : list = Reclaimed(st[v], current)
  OBVIOUS
<1>3. list \in Seq(CopyType) /\ EndOf(list) <= EndOf(st[v])
  BY <1>1, <1>2, ReclaimMoves DEF Moved
<1>4. new = [st EXCEPT ![v] = list]
  BY <1>2 DEF ReclaimedIn
<1>5. new[v] = list /\ \A w \in Bases : w # v => new[w] = st[w]
  BY <1>4 DEF Stores
<1>6. new \in Stores
  BY <1>3, <1>4 DEF Stores
<1> QED BY <1>2, <1>3, <1>5, <1>6, EndFacts
-----------------------------------------------------------------------------
(* The log is where it is thought to end.                                  *)

Pcs == {"Idle", "MarkOld", "Reserve", "Header", "Data", "Added", "WriteVolatile",
        "MarkDeleted", "Boot", "Halted", "Invalid"}

Types ==
  /\ store \in Stores /\ LastVariableOffset \in [Bases -> Nat]
  /\ torn \in BOOLEAN /\ AtRuntime \in BOOLEAN /\ pc \in Pcs
  /\ call \in {None} \cup CallType
  /\ expected \in [Names -> SUBSET (Data \cup {Absent})]

\* CurrPtr, until a reclaim moved the copies.
CurrentOK(st, c) ==
  c # None /\ ~c.Reclaimed /\ c.CurrPtr # None =>
    c.CurrPtr \in PointersOf(st) /\ st[c.CurrPtr.Base][c.CurrPtr.index].name = c.name

LEMMA TypeParts ==
  TypeOK <=> Types /\ CurrentOK(store, call)
BY DEF TypeOK, Types, CurrentOK, Stores, Pcs, Pointers, PointersOf, Copy

LEMMA TypePartsNext ==
  ASSUME Types', CurrentOK(store', call')
  PROVE  TypeOK'
BY DEF TypeOK, Types, CurrentOK, Stores, Pcs, Pointers, PointersOf, Copy

LEMMA CallFacts ==
  ASSUME TypeOK, CallInv
  PROVE  /\ call # None => call \in CallType
         /\ pc \in InCall => /\ call # None /\ call \in CallType
                             /\ call.Base \in Bases /\ call.Reclaimed \in BOOLEAN
                             /\ call.data \in Data /\ call.name \in Names
                             /\ CopyOfCall \in CopyType
                             /\ [CopyOfCall EXCEPT !.state = "ADDED"] \in CopyType
         /\ None \notin CallType
<1>1. call # None => call \in CallType
  BY DEF TypeOK
<1>2. None \notin CallType
  BY NameAssumption
<1>3. ASSUME pc \in InCall
      PROVE  /\ call # None /\ call \in CallType
             /\ call.Base \in Bases /\ call.Reclaimed \in BOOLEAN
             /\ call.data \in Data /\ call.name \in Names
             /\ CopyOfCall \in CopyType
             /\ [CopyOfCall EXCEPT !.state = "ADDED"] \in CopyType
  <2>1. call \in CallType /\ call # None
    BY <1>1, <1>3 DEF CallInv
  <2>2. CopyOfCall \in CopyType
    BY <2>1 DEF CallType, CopyOfCall, CopyType, Live
  <2>3. [CopyOfCall EXCEPT !.state = "ADDED"] \in CopyType
    BY <2>2 DEF CopyType, Live
  <2> QED BY <2>1, <2>2, <2>3 DEF CallType
<1> QED BY <1>1, <1>2, <1>3

LEMMA EndTypes ==
  ASSUME NEW st \in Stores, NEW v \in Bases
  PROVE  st[v] \in Seq(CopyType) /\ EndOf(st[v]) \in Nat /\ EndOf(st[v]) >= HeaderSize
         /\ Len(st[v]) \in Nat
<1>1. st[v] \in Seq(CopyType)
  BY DEF Stores
<1> QED BY <1>1, EndFacts

\* Steps that do not touch the flash.
LogVars == <<store, LastVariableOffset, torn>>

LEMMA SetVariableLog ==
  ASSUME LogInv, NEW n \in Names, NEW attributes \in AttributesOf[n], NEW data \in Data,
         SetVariable(n, attributes, data)
  PROVE  LogInv'
<1> DEFINE old == FindVariable(n)
           c == [name |-> n, attributes |-> attributes, data |-> data, CurrPtr |-> old,
                 Base |-> IF "NV" \in attributes THEN "NonVolatile" ELSE "Volatile", Reclaimed |-> FALSE]
<1>1. /\ pc = "Idle" /\ call' = c /\ pc' = IF old = None THEN "Reserve" ELSE "MarkOld"
      /\ UNCHANGED <<store, LastVariableOffset, torn, AtRuntime, expected>>
  BY DEF SetVariable
<1>2. Types
  BY TypeParts DEF LogInv
<1>3. old # None => old \in PointersOf(store) /\ store[old.Base][old.index].name = n
  <2>1. PICK found : found = FindVariable(n)
    OBVIOUS
  <2>2. found # None => found \in Pointers /\ Candidate(found, n)
    BY <1>2, <2>1, FindFacts DEF Types, Stores
  <2> QED BY <2>1, <2>2 DEF Candidate, Copy, Pointers, PointersOf
<1>4. old \in {None} \cup PointerType
  BY <1>2, <1>3, PointerFacts DEF Types, Stores
<1>5. attributes \in SUBSET {"NV", "BS", "RT"}
  BY NameAssumption
<1> HIDE DEF old
<1>6. c \in CallType
  BY <1>4, <1>5 DEF CallType
<1>7. c # None
  BY <1>6, NameAssumption
<1>8. TypeOK'
  <2>1. Types'
    BY <1>1, <1>2, <1>6 DEF Types, Pcs
  <2>2. CurrentOK(store', call')
    BY <1>1, <1>3 DEF CurrentOK
  <2> QED BY <2>1, <2>2, TypePartsNext
<1>9. CallInv'
  BY <1>1, <1>7 DEF CallInv, InCall
<1>10. EndInv'
  BY <1>1 DEF LogInv, EndInv
<1> QED BY <1>8, <1>9, <1>10 DEF LogInv

LEMMA QuietLog ==
  ASSUME LogInv, UNCHANGED LogVars, UNCHANGED <<AtRuntime, call>>,
         expected' \in [Names -> SUBSET (Data \cup {Absent})],
         pc' = pc \/ WriteData \/ HasRoom
  PROVE  LogInv'
<1>1. Types /\ CurrentOK(store, call)
  BY TypeParts DEF LogInv
<1>2. pc' \in Pcs /\ store' = store /\ call' = call
  BY <1>1 DEF WriteData, HasRoom, Pcs, Types, Write, LogVars
<1>3. TypeOK'
  <2>1. Types'
    BY <1>1, <1>2 DEF Types, LogVars
  <2>2. CurrentOK(store', call')
    BY <1>1, <1>2
  <2> QED BY <2>1, <2>2, TypePartsNext
<1>4. call # None /\ pc = "Reserve" => call.Base \in Bases
  BY <1>1 DEF Types, CallType
<1>5. CallInv'
  <2>1. CASE pc' = pc
    BY <1>2, <2>1 DEF LogInv, CallInv
  <2>2. CASE WriteData
    BY <1>2, <2>2 DEF WriteData, LogInv, CallInv, InCall
  <2>3. CASE HasRoom
    BY <1>2, <1>4, <2>3 DEF HasRoom, Write, LogInv, CallInv, InCall
  <2> QED BY <2>1, <2>2, <2>3
<1>6. EndInv'
  <2>0. /\ LastVariableOffset' = LastVariableOffset /\ torn' = torn /\ store' = store
        /\ NewEnd' = NewEnd /\ (Fits' <=> Fits)
    BY <1>2 DEF LogVars, NewEnd, Fits
  <2>1. CASE pc' = pc
    BY <2>0, <2>1 DEF LogInv, EndInv
  <2>2. CASE WriteData
    <3>1. pc = "Data" /\ pc' = "Added"
      BY <2>2 DEF WriteData
    <3> QED BY <2>0, <3>1 DEF LogInv, EndInv
  <2>3. CASE HasRoom
    <3>1. pc = "Reserve" /\ pc' \in {"Header", "WriteVolatile"} /\ Fits
      BY <2>3 DEF HasRoom, Write
    <3> QED BY <2>0, <3>1 DEF LogInv, EndInv
  <2> QED BY <2>1, <2>2, <2>3
<1> QED BY <1>3, <1>5, <1>6 DEF LogInv

\* A call that returns, and a boot that does not.
LEMMA ReturnLog ==
  ASSUME LogInv, UNCHANGED <<store, LastVariableOffset, torn, AtRuntime>>,
         expected' \in [Names -> SUBSET (Data \cup {Absent})],
         pc \in InCall \ {"Data", "Added"}, Return
  PROVE  LogInv'
<1>1. Types
  BY TypeParts DEF LogInv
<1>2. TypeOK'
  <2>1. Types'
    BY <1>1 DEF Types, Pcs, Return
  <2>2. CurrentOK(store', call')
    BY DEF CurrentOK, Return
  <2> QED BY <2>1, <2>2, TypePartsNext
<1>3. CallInv'
  BY DEF CallInv, InCall, Return
<1>4. EndInv'
  BY DEF EndInv, InCall, Return, LogInv
<1> QED BY <1>2, <1>3, <1>4 DEF LogInv

LEMMA BootFailsLog ==
  ASSUME LogInv, BootFails
  PROVE  LogInv'
<1>1. Types /\ call = None
  BY TypeParts DEF LogInv, CallInv, BootFails, InCall
<1>2. pc = "Boot" /\ pc' = "Halted" /\ UNCHANGED <<store, LastVariableOffset, torn, AtRuntime, call, expected>>
  BY DEF BootFails
<1>3. TypeOK'
  <2>1. Types'
    BY <1>1, <1>2 DEF Types, Pcs
  <2>2. CurrentOK(store', call')
    BY <1>1, <1>2 DEF CurrentOK
  <2> QED BY <2>1, <2>2, TypePartsNext
<1>4. CallInv'
  BY <1>1, <1>2 DEF CallInv, InCall
<1>5. EndInv'
  BY <1>2 DEF EndInv, LogInv
<1> QED BY <1>3, <1>4, <1>5 DEF LogInv

LEMMA RuntimeLog ==
  ASSUME LogInv, ExitBootServices
  PROVE  LogInv'
<1>1. Types /\ CurrentOK(store, call)
  BY TypeParts DEF LogInv
<1>2. UNCHANGED <<store, LastVariableOffset, torn, pc, call, expected>> /\ AtRuntime' \in BOOLEAN
  BY DEF ExitBootServices
<1>3. TypeOK'
  <2>1. Types'
    BY <1>1, <1>2 DEF Types
  <2>2. CurrentOK(store', call')
    BY <1>1, <1>2
  <2> QED BY <2>1, <2>2, TypePartsNext
<1>4. CallInv' /\ EndInv'
  BY <1>2 DEF CallInv, EndInv, LogInv, NewEnd, Fits
<1> QED BY <1>3, <1>4 DEF LogInv

\* A state byte is written.
LEMMA SetStateFacts ==
  ASSUME Types, NEW p \in PointersOf(store), NEW state \in Live \cup {"HEADER", "DELETED"},
         SetState(p, state)
  PROVE  /\ store' \in Stores /\ PointersOf(store') = PointersOf(store)
         /\ \A v \in Bases : Len(store'[v]) = Len(store[v]) /\ EndOf(store'[v]) = EndOf(store[v])
         /\ \A v \in Bases : \A i \in 1..Len(store[v]) :
              /\ store'[v][i].name = store[v][i].name /\ store'[v][i].data = store[v][i].data
              /\ store'[v][i].attributes = store[v][i].attributes
              /\ v = p.Base /\ i = p.index => store'[v][i] = [store[v][i] EXCEPT !.state = state]
              /\ v = p.Base /\ i = p.index => store'[v][i].state = state
              /\ v # p.Base \/ i # p.index => store'[v][i] = store[v][i]
<1>1. store \in Stores
  BY DEF Types
<1>2. store' = [store EXCEPT ![p.Base][p.index].state = state]
  BY DEF SetState
<1>3. PICK new : new = store'
  OBVIOUS
<1>4. new = MarkedIn(store, p, state)
  BY <1>2, <1>3 DEF MarkedIn
<1> QED BY <1>1, <1>3, <1>4, Marked

LEMMA SetStateCurrent ==
  ASSUME Types, NEW p \in PointersOf(store), NEW state \in Live \cup {"HEADER", "DELETED"},
         SetState(p, state), NEW c, CurrentOK(store, c)
  PROVE  CurrentOK(store', c)
<1> SUFFICES ASSUME c # None, ~c.Reclaimed, c.CurrPtr # None
             PROVE  /\ c.CurrPtr \in PointersOf(store')
                    /\ store'[c.CurrPtr.Base][c.CurrPtr.index].name = c.name
  BY DEF CurrentOK
<1>1. c.CurrPtr \in PointersOf(store) /\ store[c.CurrPtr.Base][c.CurrPtr.index].name = c.name
  BY DEF CurrentOK
<1>2. c.CurrPtr.Base \in Bases /\ c.CurrPtr.index \in 1..Len(store[c.CurrPtr.Base])
  BY <1>1, PointerFacts DEF Types, Stores, PointerType
<1> QED BY <1>1, <1>2, SetStateFacts

LEMMA MarkOldLog ==
  ASSUME LogInv, MarkOld
  PROVE  LogInv'
<1>1. Types /\ CurrentOK(store, call)
  BY TypeParts DEF LogInv
<1>2. /\ pc = "MarkOld" /\ pc' = "Reserve" /\ SetState(call.CurrPtr, "IN_DELETED_TRANSITION")
      /\ LastVariableOffset' = LastVariableOffset /\ torn' = torn /\ AtRuntime' = AtRuntime
      /\ call' = call /\ expected' = expected
  BY DEF MarkOld
<1>3. call # None /\ ~call.Reclaimed /\ call.CurrPtr # None
  BY <1>2 DEF LogInv, CallInv, InCall
<1>4. call.CurrPtr \in PointersOf(store)
  BY <1>1, <1>3 DEF CurrentOK
<1>5. "IN_DELETED_TRANSITION" \in Live \cup {"HEADER", "DELETED"}
  BY DEF Live
<1>6. /\ store' \in Stores /\ CurrentOK(store', call)
      /\ \A v \in Bases : EndOf(store'[v]) = EndOf(store[v])
  BY <1>1, <1>2, <1>4, <1>5, SetStateFacts, SetStateCurrent
<1>7. TypeOK'
  <2>1. Types'
    BY <1>1, <1>2, <1>6 DEF Types, Pcs
  <2>2. CurrentOK(store', call')
    BY <1>2, <1>6
  <2> QED BY <2>1, <2>2, TypePartsNext
<1>8. CallInv'
  BY <1>2, <1>3 DEF LogInv, CallInv, InCall
<1>9. EndInv'
  BY <1>2, <1>6 DEF LogInv, EndInv
<1> QED BY <1>7, <1>8, <1>9 DEF LogInv

LEMMA DeleteLog ==
  ASSUME LogInv, NEW n \in Names, NEW attributes, DeleteVariable(n, attributes)
  PROVE  LogInv'
<1>1. Types /\ CurrentOK(store, call)
  BY TypeParts DEF LogInv
<1>2. PICK old : old = FindVariable(n)
  OBVIOUS
<1>3. /\ pc = "Idle" /\ old # None /\ SetState(old, "DELETED")
      /\ expected' = [expected EXCEPT ![n] = {Absent}]
      /\ LastVariableOffset' = LastVariableOffset /\ torn' = torn /\ AtRuntime' = AtRuntime
      /\ call' = call /\ pc' = pc
  BY <1>2 DEF DeleteVariable
<1>4. old \in PointersOf(store)
  <2>1. old \in Pointers
    BY <1>1, <1>2, <1>3, FindFacts DEF Types, Stores
  <2> QED BY <2>1 DEF Pointers, PointersOf
<1>5. /\ store' \in Stores /\ CurrentOK(store', call)
      /\ \A v \in Bases : EndOf(store'[v]) = EndOf(store[v])
  BY <1>1, <1>3, <1>4, SetStateFacts, SetStateCurrent
<1>6. TypeOK'
  <2>1. Types'
    BY <1>1, <1>3, <1>5 DEF Types
  <2>2. CurrentOK(store', call')
    BY <1>3, <1>5
  <2> QED BY <2>1, <2>2, TypePartsNext
<1>7. CallInv'
  BY <1>3 DEF LogInv, CallInv, InCall
<1>8. EndInv'
  BY <1>3, <1>5 DEF LogInv, EndInv
<1> QED BY <1>6, <1>7, <1>8 DEF LogInv

LEMMA MarkDeletedLog ==
  ASSUME LogInv, MarkDeleted
  PROVE  LogInv'
<1>1. Types /\ CurrentOK(store, call)
  BY TypeParts DEF LogInv
<1>2. /\ pc = "MarkDeleted" /\ pc' = "Idle" /\ call' = None
      /\ \/ ~call.Reclaimed /\ call.CurrPtr # None /\ SetState(call.CurrPtr, "DELETED")
         \/ store' = store
      /\ expected' = [expected EXCEPT ![call.name] = {call.data}]
      /\ LastVariableOffset' = LastVariableOffset /\ torn' = torn /\ AtRuntime' = AtRuntime
  BY DEF MarkDeleted, Return
<1>3. call # None /\ call.data \in Data
  BY <1>2, CallFacts DEF LogInv, InCall
<1>4. store' \in Stores /\ \A v \in Bases : EndOf(store'[v]) = EndOf(store[v])
  <2>1. CASE ~call.Reclaimed /\ call.CurrPtr # None /\ SetState(call.CurrPtr, "DELETED")
    <3>1. call.CurrPtr \in PointersOf(store)
      BY <1>1, <1>3, <2>1 DEF CurrentOK
    <3> QED BY <1>1, <2>1, <3>1, SetStateFacts
  <2>2. CASE store' = store
    BY <1>1, <2>2 DEF Types
  <2> QED BY <1>2, <2>1, <2>2
<1>5. TypeOK'
  <2>1. Types'
    BY <1>1, <1>2, <1>3, <1>4 DEF Types, Pcs
  <2>2. CurrentOK(store', call')
    BY <1>2 DEF CurrentOK
  <2> QED BY <2>1, <2>2, TypePartsNext
<1>6. CallInv'
  BY <1>2 DEF CallInv, InCall
<1>7. EndInv'
  BY <1>2, <1>4 DEF LogInv, EndInv
<1> QED BY <1>5, <1>6, <1>7 DEF LogInv

LEMMA WriteHeaderLog ==
  ASSUME LogInv, WriteHeader
  PROVE  LogInv'
<1>1. Types /\ CurrentOK(store, call)
  BY TypeParts DEF LogInv
<1>2. /\ pc = "Header" /\ LastVariableOffset' = LastVariableOffset /\ torn' = torn
      /\ AtRuntime' = AtRuntime /\ expected' = expected
  BY DEF WriteHeader
<1>3. /\ call # None /\ call.data \in Data /\ CopyOfCall \in CopyType
      /\ call.Base = "NonVolatile" /\ CopyOfCall.data = call.data
  BY <1>2, CallFacts DEF LogInv, CallInv, InCall, CopyOfCall
<1>4. torn = FALSE
  BY <1>1, <1>2 DEF LogInv, EndInv, Types
<1>5. CASE LastVariableOffset["NonVolatile"] = 0
  <2>1. store' = [store EXCEPT !["NonVolatile"] = <<>>] /\ pc' = "Invalid" /\ call' = None
    BY <1>5 DEF WriteHeader
  <2>2. store' \in Stores /\ store'["NonVolatile"] = <<>> /\ store'["Volatile"] = store["Volatile"]
    <3>1. store \in [Bases -> Seq(CopyType)] /\ <<>> \in Seq(CopyType)
      BY <1>1 DEF Types, Stores
    <3>2. store'["NonVolatile"] = <<>> /\ store'["Volatile"] = store["Volatile"]
      BY <2>1, <3>1
    <3> QED BY <2>1, <3>1, <3>2 DEF Stores
  <2>3. TypeOK'
    <3>1. Types'
      BY <1>1, <1>2, <2>1, <2>2 DEF Types, Pcs
    <3>2. CurrentOK(store', call')
      BY <2>1 DEF CurrentOK
    <3> QED BY <3>1, <3>2, TypePartsNext
  <2>4. CallInv'
    BY <2>1 DEF CallInv, InCall
  <2>5. \A v \in Bases : EndOf(store'[v]) <= Size[v]
    BY <2>2, EndFacts, SizeFacts DEF LogInv, EndInv
  <2>6. EndInv'
    BY <1>2, <1>4, <2>1, <2>2, <2>5 DEF LogInv, EndInv
  <2> QED BY <2>3, <2>4, <2>6 DEF LogInv
<1>6. CASE LastVariableOffset["NonVolatile"] # 0
  <2>1. store' = [store EXCEPT !["NonVolatile"] = Append(@, CopyOfCall)] /\ pc' = "Data" /\ call' = call
    BY <1>6 DEF WriteHeader
  <2>2. /\ store' \in Stores /\ PointersOf(store) \subseteq PointersOf(store')
        /\ Len(store'["NonVolatile"]) = Len(store["NonVolatile"]) + 1
        /\ store'["Volatile"] = store["Volatile"]
        /\ EndOf(store'["NonVolatile"]) = EndOf(store["NonVolatile"]) + VarSize[call.data]
        /\ \A p \in PointersOf(store) : store'[p.Base][p.index] = store[p.Base][p.index]
    <3>1. store \in Stores
      BY <1>1 DEF Types
    <3>2. PICK new : new = store'
      OBVIOUS
    <3>3. new = AppendedTo(store, "NonVolatile", CopyOfCall)
      BY <2>1, <3>2 DEF AppendedTo
    <3>4. "NonVolatile" \in Bases /\ "Volatile" \in Bases /\ "Volatile" # "NonVolatile"
      OBVIOUS
    <3>5. /\ new \in Stores /\ PointersOf(store) \subseteq PointersOf(new)
          /\ Len(new["NonVolatile"]) = Len(store["NonVolatile"]) + 1
          /\ \A w \in Bases : w # "NonVolatile" => new[w] = store[w]
          /\ EndOf(new["NonVolatile"]) = EndOf(store["NonVolatile"]) + VarSize[CopyOfCall.data]
          /\ \A p \in PointersOf(store) : new[p.Base][p.index] = store[p.Base][p.index]
      BY <1>3, <3>1, <3>3, <3>4, Appended
    <3> QED BY <1>3, <3>2, <3>4, <3>5
  <2>3. store'["NonVolatile"] # <<>>
    <3>1. Len(store["NonVolatile"]) \in Nat
      BY <1>1, EndTypes DEF Types
    <3>2. Len(store'["NonVolatile"]) # 0
      BY <2>2, <3>1
    <3>3. Len(<<>>) = 0
      OBVIOUS
    <3> QED BY <3>2, <3>3
  <2>4. TypeOK'
    <3>1. Types'
      BY <1>1, <1>2, <2>1, <2>2 DEF Types, Pcs
    <3>2. CurrentOK(store', call')
      BY <1>1, <2>1, <2>2 DEF CurrentOK
    <3> QED BY <3>1, <3>2, TypePartsNext
  <2>5. CallInv'
    BY <1>2, <1>3, <2>1, <2>3 DEF LogInv, CallInv, InCall
  <2>6. LastVariableOffset["NonVolatile"] = EndOf(store["NonVolatile"])
    BY <1>2, <1>6 DEF LogInv, EndInv
  <2>7. NewEnd' = EndOf(store'["NonVolatile"]) /\ EndOf(store'["NonVolatile"]) <= Size["NonVolatile"]
    <3>1. NewEnd' = NewEnd /\ NewEnd = EndOf(store["NonVolatile"]) + VarSize[call.data]
      BY <1>2, <1>3, <2>1, <2>6 DEF NewEnd
    <3>2. NewEnd <= Size["NonVolatile"]
      BY <1>2, <1>3 DEF LogInv, EndInv, Fits
    <3> QED BY <2>2, <3>1, <3>2
  <2>8. \A v \in Bases : EndOf(store'[v]) <= Size[v]
    BY <2>2, <2>7 DEF LogInv, EndInv
  <2>9. EndInv'
    BY <1>2, <1>4, <2>1, <2>2, <2>7, <2>8 DEF LogInv, EndInv
  <2> QED BY <2>4, <2>5, <2>9 DEF LogInv
<1> QED BY <1>5, <1>6

LEMMA WriteAddedLog ==
  ASSUME LogInv, WriteAdded
  PROVE  LogInv'
<1>1. Types /\ CurrentOK(store, call)
  BY TypeParts DEF LogInv
<1>2. PICK p : p = [Base |-> "NonVolatile", index |-> Len(store["NonVolatile"])]
  OBVIOUS
<1>3. /\ pc = "Added" /\ pc' = "MarkDeleted" /\ SetState(p, "ADDED")
      /\ LastVariableOffset' = [LastVariableOffset EXCEPT !["NonVolatile"] = NewEnd]
      /\ torn' = torn /\ AtRuntime' = AtRuntime /\ call' = call /\ expected' = expected
  BY <1>2 DEF WriteAdded
<1>4. call # None /\ call.Base = "NonVolatile" /\ store["NonVolatile"] # <<>> /\ NewEnd = EndOf(store["NonVolatile"])
  <2>1. pc \in InCall
    BY <1>3 DEF InCall
  <2>2. call # None /\ call.Base \in Bases
    BY <2>1, CallFacts DEF LogInv
  <2> QED BY <1>3, <2>2 DEF LogInv, CallInv, EndInv
<1>5. p \in PointersOf(store)
  <2>1. Len(store["NonVolatile"]) \in 1..Len(store["NonVolatile"])
    <3>1. store["NonVolatile"] \in Seq(CopyType)
      BY <1>1, EndTypes DEF Types
    <3>2. PICK list \in Seq(CopyType) : list = store["NonVolatile"] /\ list # <<>>
      BY <1>4, <3>1
    <3>3. Len(list) \in Nat /\ Len(list) # 0
      BY <3>2
    <3> QED BY <3>2, <3>3
  <2> QED BY <1>1, <1>2, <2>1, PointerFacts DEF Types, Stores
<1>6. "ADDED" \in Live \cup {"HEADER", "DELETED"}
  BY DEF Live
<1>7. /\ store' \in Stores /\ CurrentOK(store', call)
      /\ \A v \in Bases : EndOf(store'[v]) = EndOf(store[v])
  BY <1>1, <1>3, <1>5, <1>6, SetStateFacts, SetStateCurrent
<1>8. EndOf(store["NonVolatile"]) \in Nat
  BY <1>1, EndTypes DEF Types
<1>9. /\ LastVariableOffset' \in [Bases -> Nat]
      /\ LastVariableOffset'["NonVolatile"] = EndOf(store["NonVolatile"])
      /\ LastVariableOffset'["Volatile"] = LastVariableOffset["Volatile"]
  BY <1>1, <1>3, <1>4, <1>8 DEF Types
<1>10. TypeOK'
  <2>1. Types'
    BY <1>1, <1>3, <1>7, <1>9 DEF Types, Pcs
  <2>2. CurrentOK(store', call')
    BY <1>3, <1>7
  <2> QED BY <2>1, <2>2, TypePartsNext
<1>11. CallInv'
  BY <1>3, <1>4 DEF CallInv, InCall
<1>12. EndInv'
  BY <1>3, <1>7, <1>9 DEF LogInv, EndInv
<1> QED BY <1>10, <1>11, <1>12 DEF LogInv

LEMMA WriteVolatileLog ==
  ASSUME LogInv, WriteVolatile
  PROVE  LogInv'
<1>1. Types /\ CurrentOK(store, call)
  BY TypeParts DEF LogInv
<1>2. PICK copy : copy = [CopyOfCall EXCEPT !.state = "ADDED"]
  OBVIOUS
<1>3. /\ pc = "WriteVolatile" /\ pc' = "MarkDeleted" /\ NewEnd < Size["Volatile"]
      /\ store' = [store EXCEPT !["Volatile"] = Append(@, copy)]
      /\ LastVariableOffset' = [LastVariableOffset EXCEPT !["Volatile"] = NewEnd]
      /\ torn' = torn /\ AtRuntime' = AtRuntime /\ call' = call /\ expected' = expected
  BY <1>2 DEF WriteVolatile
<1>4. /\ call # None /\ call.Base = "Volatile" /\ call.data \in Data /\ copy \in CopyType
      /\ copy.data = call.data
  <2>1. pc \in InCall
    BY <1>3 DEF InCall
  <2>2. call.Base = "Volatile" /\ call.Base \in Bases
    BY <1>3, <2>1, CallFacts DEF LogInv, CallInv
  <2> QED BY <1>2, <2>1, <2>2, CallFacts DEF LogInv, CopyOfCall
<1>5. /\ store' \in Stores /\ PointersOf(store) \subseteq PointersOf(store')
      /\ store'["NonVolatile"] = store["NonVolatile"]
      /\ EndOf(store'["Volatile"]) = EndOf(store["Volatile"]) + VarSize[call.data]
      /\ \A p \in PointersOf(store) : store'[p.Base][p.index] = store[p.Base][p.index]
  <2>1. store \in Stores
    BY <1>1 DEF Types
  <2>2. PICK new : new = store'
    OBVIOUS
  <2>3. new = AppendedTo(store, "Volatile", copy)
    BY <1>3, <2>2 DEF AppendedTo
  <2>4. "NonVolatile" \in Bases /\ "Volatile" \in Bases /\ "Volatile" # "NonVolatile"
    OBVIOUS
  <2>5. /\ new \in Stores /\ PointersOf(store) \subseteq PointersOf(new)
        /\ \A w \in Bases : w # "Volatile" => new[w] = store[w]
        /\ EndOf(new["Volatile"]) = EndOf(store["Volatile"]) + VarSize[copy.data]
        /\ \A p \in PointersOf(store) : new[p.Base][p.index] = store[p.Base][p.index]
    BY <1>4, <2>1, <2>3, <2>4, Appended
  <2> QED BY <1>4, <2>2, <2>4, <2>5
<1>6. EndOf(store'["Volatile"]) \in Nat
  BY <1>5, EndTypes
<1>7. NewEnd = EndOf(store'["Volatile"])
  BY <1>4, <1>5 DEF LogInv, EndInv, NewEnd
<1>8. /\ LastVariableOffset' \in [Bases -> Nat]
      /\ LastVariableOffset'["Volatile"] = EndOf(store'["Volatile"])
      /\ LastVariableOffset'["NonVolatile"] = LastVariableOffset["NonVolatile"]
  BY <1>1, <1>3, <1>6, <1>7 DEF Types
<1>9. TypeOK'
  <2>1. Types'
    BY <1>1, <1>3, <1>5, <1>8 DEF Types, Pcs
  <2>2. CurrentOK(store', call')
    BY <1>1, <1>3, <1>5 DEF CurrentOK
  <2> QED BY <2>1, <2>2, TypePartsNext
<1>10. CallInv'
  BY <1>3, <1>4 DEF CallInv, InCall
<1>11. EndOf(store'["Volatile"]) <= Size["Volatile"]
  <2>1. Size["Volatile"] \in Nat
    BY SizeFacts
  <2> QED BY <1>3, <1>6, <1>7, <2>1
<1>12. EndInv'
  BY <1>3, <1>5, <1>8, <1>11 DEF LogInv, EndInv
<1> QED BY <1>9, <1>10, <1>12 DEF LogInv
\* A reclaim.
LEMMA ReclaimFacts ==
  ASSUME Types, NEW v \in Bases, NEW current, Reclaim(v, current)
  PROVE  /\ store' \in Stores /\ store'[v] = Reclaimed(store[v], current)
         /\ \A w \in Bases : w # v => store'[w] = store[w]
         /\ LastVariableOffset' \in [Bases -> Nat]
         /\ LastVariableOffset'[v] = EndOf(store'[v])
         /\ \A w \in Bases : w # v => LastVariableOffset'[w] = LastVariableOffset[w]
         /\ EndOf(store'[v]) <= EndOf(store[v]) /\ EndOf(store'[v]) \in Nat
<1>1. store \in Stores /\ LastVariableOffset \in [Bases -> Nat]
  BY DEF Types
<1>2. PICK new : new = store'
  OBVIOUS
<1>3. new = ReclaimedIn(store, v, current)
  BY <1>2 DEF Reclaim, ReclaimedIn
<1>4. /\ new \in Stores /\ new[v] = Reclaimed(store[v], current)
      /\ \A w \in Bases : w # v => new[w] = store[w]
      /\ EndOf(new[v]) <= EndOf(store[v]) /\ EndOf(new[v]) \in Nat
  BY <1>1, <1>3, ReclaimedStore
<1>5. PICK end : end = EndOf(new[v])
  OBVIOUS
<1>6. LastVariableOffset' = [LastVariableOffset EXCEPT ![v] = end] /\ end \in Nat
  BY <1>2, <1>4, <1>5 DEF Reclaim
<1>7. LastVariableOffset' \in [Bases -> Nat] /\ LastVariableOffset'[v] = end
  BY <1>1, <1>6
<1>8. \A w \in Bases : w # v => LastVariableOffset'[w] = LastVariableOffset[w]
  BY <1>1, <1>6
<1> QED BY <1>2, <1>4, <1>5, <1>7, <1>8

LEMMA ReclaimForCallLog ==
  ASSUME LogInv, ReclaimForCall
  PROVE  LogInv'
<1>1. Types /\ CurrentOK(store, call)
  BY TypeParts DEF LogInv
<1>2. PICK v, current : /\ v = call.Base /\ Reclaim(v, current)
                        /\ current = IF call.CurrPtr # None /\ call.CurrPtr.Base = v
                                     THEN call.CurrPtr.index ELSE 0
  BY DEF ReclaimForCall
<1>3. pc = "Reserve" /\ torn' = torn /\ AtRuntime' = AtRuntime /\ expected' = expected
  BY DEF ReclaimForCall
<1>4. \/ /\ LastVariableOffset'[v] + VarSize[call.data] <= Size[v]
         /\ pc' = Write /\ call' = [call EXCEPT !.Reclaimed = TRUE]
      \/ pc' = "Idle" /\ call' = None
  BY <1>2 DEF ReclaimForCall, Return
<1>5. call # None /\ call \in CallType /\ v \in Bases
  BY <1>2, <1>3, CallFacts DEF LogInv, InCall
<1>6. /\ store' \in Stores /\ \A w \in Bases : w # v => store'[w] = store[w]
      /\ LastVariableOffset' \in [Bases -> Nat]
      /\ LastVariableOffset'[v] = EndOf(store'[v])
      /\ \A w \in Bases : w # v => LastVariableOffset'[w] = LastVariableOffset[w]
      /\ EndOf(store'[v]) <= EndOf(store[v]) /\ EndOf(store'[v]) \in Nat
  BY <1>1, <1>2, <1>5, ReclaimFacts
<1>7. \/ /\ call' \in CallType /\ call'.Reclaimed /\ call'.Base = v /\ call'.data = call.data
         /\ pc' = IF v = "Volatile" THEN "WriteVolatile" ELSE "Header"
         /\ LastVariableOffset'[v] + VarSize[call.data] <= Size[v]
      \/ pc' = "Idle" /\ call' = None
  BY <1>2, <1>4, <1>5 DEF CallType, Write
<1>8. TypeOK'
  <2>1. Types'
    BY <1>1, <1>3, <1>6, <1>7 DEF Types, Pcs
  <2>2. CurrentOK(store', call')
    BY <1>7 DEF CurrentOK
  <2> QED BY <2>1, <2>2, TypePartsNext
<1>9. CallInv'
  <2>1. call' \in CallType => call' # None
    BY NameAssumption
  <2> QED BY <1>5, <1>7, <2>1 DEF CallInv, InCall
<1>10. EndInv'
  <2>1. \A w \in Bases : EndOf(store'[w]) <= Size[w]
    <3> TAKE w \in Bases
    <3>1. Size[w] \in Nat /\ EndOf(store[w]) \in Nat /\ EndOf(store[w]) <= Size[w]
      BY <1>1, SizeFacts, EndTypes DEF LogInv, EndInv, Types
    <3> QED BY <1>6, <3>1
  <2>2. /\ LastVariableOffset'["Volatile"] = EndOf(store'["Volatile"])
        /\ LastVariableOffset'["NonVolatile"] \in {0, EndOf(store'["NonVolatile"])}
    BY <1>3, <1>5, <1>6 DEF LogInv, EndInv
  <2>3. pc' \in {"Header", "WriteVolatile"} => Fits'
    BY <1>7 DEF Fits, NewEnd
  <2> QED BY <1>3, <1>7, <2>1, <2>2, <2>3 DEF LogInv, EndInv
<1> QED BY <1>8, <1>9, <1>10 DEF LogInv

LEMMA ReclaimFailsLog ==
  ASSUME LogInv, ReclaimFails
  PROVE  LogInv'
<1>1. Types
  BY TypeParts DEF LogInv
<1>2. /\ pc = "Reserve" /\ pc' = "Idle" /\ call' = None
      /\ LastVariableOffset' = [LastVariableOffset EXCEPT !["NonVolatile"] = 0]
      /\ UNCHANGED <<store, torn, AtRuntime, expected>>
  BY DEF ReclaimFails, Return
<1>3. /\ LastVariableOffset' \in [Bases -> Nat] /\ LastVariableOffset'["NonVolatile"] = 0
      /\ LastVariableOffset'["Volatile"] = LastVariableOffset["Volatile"]
  BY <1>1, <1>2 DEF Types
<1>4. TypeOK'
  <2>1. Types'
    BY <1>1, <1>2, <1>3 DEF Types, Pcs
  <2>2. CurrentOK(store', call')
    BY <1>2 DEF CurrentOK
  <2> QED BY <2>1, <2>2, TypePartsNext
<1>5. CallInv'
  BY <1>2 DEF CallInv, InCall
<1>6. EndInv'
  BY <1>2, <1>3 DEF LogInv, EndInv
<1> QED BY <1>4, <1>5, <1>6 DEF LogInv

\* Nothing in memory survives a power failure.
LEMMA PowerFailureLog ==
  ASSUME LogInv, PowerFailure
  PROVE  LogInv'
<1>1. Types
  BY TypeParts DEF LogInv
<1>2. /\ pc \notin {"Invalid", "Boot"} /\ pc' = "Boot" /\ call' = None
      /\ store' = [store EXCEPT !["Volatile"] = <<>>]
      /\ LastVariableOffset' = [v \in Bases |-> HeaderSize]
      /\ torn' \in {torn, torn \/ pc = "Header"} /\ AtRuntime' = FALSE
  BY DEF PowerFailure
<1>3. torn' \in BOOLEAN
  BY <1>1, <1>2 DEF Types
<1>4. expected' \in [Names -> SUBSET (Data \cup {Absent})]
  <2>1. \A n \in Names : call # None => {call.data} \subseteq Data
    BY <1>1 DEF Types, CallType
  <2>2. expected' = [n \in Names |->
           IF ~Persistent(n) THEN {Absent}
           ELSE expected[n] \cup (IF call # None /\ call.name = n THEN {call.data} ELSE {})]
    BY DEF PowerFailure
  <2>3. \A n \in Names : expected[n] \subseteq Data \cup {Absent}
    BY <1>1 DEF Types
  <2> QED BY <2>1, <2>2, <2>3
<1>5. /\ store' \in Stores /\ store'["Volatile"] = <<>>
      /\ store'["NonVolatile"] = store["NonVolatile"]
  <2>1. store \in [Bases -> Seq(CopyType)] /\ <<>> \in Seq(CopyType)
    BY <1>1 DEF Types, Stores
  <2>2. store' \in [Bases -> Seq(CopyType)]
    BY <1>2, <2>1
  <2>3. store'["Volatile"] = <<>> /\ store'["NonVolatile"] = store["NonVolatile"]
    BY <1>2, <2>1
  <2> QED BY <2>2, <2>3 DEF Stores
<1>6. /\ LastVariableOffset' \in [Bases -> Nat] /\ LastVariableOffset'["Volatile"] = HeaderSize
      /\ EndOf(<<>>) = HeaderSize
  BY <1>2, SizeFacts, EndFacts
<1>7. TypeOK'
  <2>1. Types'
    BY <1>2, <1>3, <1>4, <1>5, <1>6 DEF Types, Pcs
  <2>2. CurrentOK(store', call')
    BY <1>2 DEF CurrentOK
  <2> QED BY <2>1, <2>2, TypePartsNext
<1>8. CallInv'
  BY <1>2 DEF CallInv, InCall
<1>9. EndInv'
  <2>1. HeaderSize <= Size["Volatile"]
    BY SizeFacts
  <2> QED BY <1>2, <1>5, <1>6, <2>1 DEF LogInv, EndInv
<1> QED BY <1>7, <1>8, <1>9 DEF LogInv

LEMMA BootLog ==
  ASSUME LogInv, Boot
  PROVE  LogInv'
<1>1. Types
  BY TypeParts DEF LogInv
<1>2. /\ pc = "Boot" /\ pc' = "Idle" /\ AtRuntime' = AtRuntime /\ call' = call
      /\ torn' = (torn /\ ~MustReclaim)
      /\ \/ Reclaim("NonVolatile", 0)
         \/ /\ LastVariableOffset' = [LastVariableOffset EXCEPT !["NonVolatile"] = EndOf(store["NonVolatile"])]
            /\ store' = store
  BY DEF Boot
<1>3. torn' = FALSE
  BY <1>1, <1>2 DEF MustReclaim, Types
<1>4. call = None
  BY <1>2 DEF LogInv, CallInv, InCall
<1>5. expected' \in [Names -> SUBSET (Data \cup {Absent})]
  <2>1. \A n \in Names : expected[n] \subseteq Data \cup {Absent}
    BY <1>1 DEF Types
  <2>2. PICK read : \A n \in Names : read[n] = Read(n)'
    <3> DEFINE f == [n \in Names |-> Read(n)']
    <3>1. \A n \in Names : f[n] = Read(n)'
      OBVIOUS
    <3> HIDE DEF f
    <3> QED BY <3>1
  <2>3. expected' = [n \in Names |-> IF read[n] \in expected[n] THEN {read[n]} ELSE expected[n]]
    BY <2>2 DEF Boot
  <2> QED BY <2>1, <2>3
<1>6. /\ store' \in Stores /\ store'["Volatile"] = store["Volatile"]
      /\ LastVariableOffset' \in [Bases -> Nat]
      /\ LastVariableOffset'["NonVolatile"] = EndOf(store'["NonVolatile"])
      /\ LastVariableOffset'["Volatile"] = LastVariableOffset["Volatile"]
      /\ EndOf(store'["NonVolatile"]) <= EndOf(store["NonVolatile"])
      /\ EndOf(store["NonVolatile"]) \in Nat /\ EndOf(store'["NonVolatile"]) \in Nat
  <2>1. /\ EndOf(store["NonVolatile"]) \in Nat /\ store \in Stores
        /\ LastVariableOffset \in [Bases -> Nat]
    BY <1>1, EndTypes DEF Types
  <2>2. CASE Reclaim("NonVolatile", 0)
    BY <1>1, <2>1, <2>2, ReclaimFacts
  <2>3. CASE /\ LastVariableOffset' = [LastVariableOffset EXCEPT !["NonVolatile"] = EndOf(store["NonVolatile"])]
             /\ store' = store
    BY <2>1, <2>3
  <2> QED BY <1>2, <2>2, <2>3
<1>7. TypeOK'
  <2>1. Types'
    BY <1>1, <1>2, <1>3, <1>4, <1>5, <1>6 DEF Types, Pcs
  <2>2. CurrentOK(store', call')
    BY <1>2, <1>4 DEF CurrentOK
  <2> QED BY <2>1, <2>2, TypePartsNext
<1>8. CallInv'
  BY <1>2, <1>4 DEF CallInv, InCall
<1>9. EndInv'
  <2>1. EndOf(store'["NonVolatile"]) <= Size["NonVolatile"]
    <3>1. Size["NonVolatile"] \in Nat /\ EndOf(store["NonVolatile"]) <= Size["NonVolatile"]
      BY SizeFacts DEF LogInv, EndInv
    <3> QED BY <1>6, <3>1
  <2> QED BY <1>2, <1>3, <1>6, <2>1 DEF LogInv, EndInv
<1> QED BY <1>7, <1>8, <1>9 DEF LogInv

LEMMA InitLog ==
  ASSUME Init
  PROVE  LogInv
<1>1. Types
  <2>1. store \in [Bases -> Seq(CopyType)] /\ LastVariableOffset \in [Bases -> Nat]
    BY SizeFacts DEF Init
  <2> QED BY <2>1 DEF Types, Stores, Init, Pcs
<1>2. TypeOK
  BY <1>1, TypeParts DEF Init, CurrentOK
<1>3. CallInv
  BY DEF Init, CallInv, InCall
<1>4. \A v \in Bases : store[v] = <<>> /\ LastVariableOffset[v] = HeaderSize
  BY DEF Init
<1>5. EndInv
  BY <1>4, EndFacts, SizeFacts DEF Init, EndInv
<1> QED BY <1>2, <1>3, <1>5 DEF LogInv

LEMMA StepLog ==
  ASSUME LogInv, [Next]_vars
  PROVE  LogInv'
<1>1. expected \in [Names -> SUBSET (Data \cup {Absent})]
  BY DEF LogInv, TypeOK
<1>2. CASE UNCHANGED vars
  BY <1>1, <1>2, QuietLog DEF vars, LogVars
<1>3. ASSUME NEW n \in Names, NEW attributes \in AttributesOf[n], NEW data \in Data,
             SetVariable(n, attributes, data) \/ SetSame(n, attributes, data)
      PROVE  LogInv'
  <2>1. CASE SetVariable(n, attributes, data)
    BY <2>1, SetVariableLog
  <2>2. CASE SetSame(n, attributes, data)
    <3>1. expected' \in [Names -> SUBSET (Data \cup {Absent})]
      BY <1>1, <2>2 DEF SetSame
    <3> QED BY <2>2, <3>1, QuietLog DEF SetSame, LogVars
  <2> QED BY <1>3, <2>1, <2>2
<1>4. ASSUME NEW n \in Names, Sets(n) \/ Deletes(n)
      PROVE  LogInv'
  BY <1>3, <1>4, DeleteLog DEF Sets, Deletes
<1>5. CASE HasRoom \/ WriteData
  BY <1>1, <1>5, QuietLog DEF HasRoom, WriteData, LogVars
<1>6. CASE OutOfResources \/ WriteRefused
  BY <1>1, <1>6, ReturnLog DEF OutOfResources, WriteRefused, InCall
<1> QED BY <1>2, <1>4, <1>5, <1>6, MarkOldLog, ReclaimForCallLog, ReclaimFailsLog, WriteHeaderLog,
           WriteAddedLog, WriteVolatileLog, MarkDeletedLog, RuntimeLog, PowerFailureLog,
           BootLog, BootFailsLog DEF Next

LEMMA LogHolds == Spec => []LogInv
<1> QED BY InitLog, StepLog, PTL DEF Spec

\* Every variable has its type, and while a call is in progress the pointer to the copy it
\* found points at a copy of the variable it sets, until a reclaim moved it: for all
\* names, attributes, data and sizes (Variable.c:1166).
THEOREM PointersStay == Spec => []TypeOK
<1>1. LogInv => TypeOK
  BY DEF LogInv
<1> QED BY <1>1, LogHolds, PTL

\* The next copy is written where the walk over the headers ends, inside the store and on
\* erased flash, whatever a power failure left there (Variable.c:1538-1579).
THEOREM EndStaysKnown == Spec => []EndIsKnown
<1>1. ASSUME LogInv
      PROVE  EndIsKnown
  BY <1>1 DEF LogInv, EndInv, EndIsKnown
<1> QED BY <1>1, LogHolds, PTL
-----------------------------------------------------------------------------
(* What writes do to the live copies of one store.                         *)

LEMMA ListFacts ==
  ASSUME NEW copies \in Seq(CopyType)
  PROVE  /\ DOMAIN copies = 1..Len(copies) /\ Len(copies) \in Nat
         /\ \A i \in 1..Len(copies) : /\ copies[i] \in CopyType /\ copies[i].data \in Data
                                      /\ copies[i].data # Absent /\ copies[i].name \in Names
<1>1. DOMAIN copies = 1..Len(copies) /\ Len(copies) \in Nat
  OBVIOUS
<1>2. \A i \in 1..Len(copies) : copies[i] \in CopyType
  OBVIOUS
<1>3. \A copy \in CopyType : copy.data \in Data /\ copy.data # Absent /\ copy.name \in Names
  BY NameAssumption DEF CopyType
<1> QED BY <1>1, <1>2, <1>3

\* A store holds one value of a variable at most.
LEMMA HoldsOne ==
  ASSUME NEW copies \in Seq(CopyType), NEW n, NEW d, NEW e, Holds(copies, n, d), Holds(copies, n, e)
  PROVE  d = e
<1>1. \A i, j \in DOMAIN copies : LastLive(copies, i, n) /\ LastLive(copies, j, n) => i = j
  BY ListFacts DEF LastLive
<1>2. \A i \in DOMAIN copies : LastLive(copies, i, n) => LiveOf(copies, i, n)
  BY DEF LastLive
<1> QED BY <1>1, <1>2 DEF Holds

\* A search for the last live copy.
LEMMA LastLiveExists ==
  ASSUME NEW copies \in Seq(CopyType), NEW n, NEW i \in 1..Len(copies), LiveOf(copies, i, n)
  PROVE  \E k \in 1..Len(copies) : LastLive(copies, k, n)
<1> DEFINE S == {j \in 1..Len(copies) : LiveOf(copies, j, n)}
<1>1. Len(copies) \in Nat /\ S \subseteq 1..Len(copies) /\ S # {}
  BY ListFacts
<1>2. PICK k \in S : \A j \in S : j <= k
  <2> HIDE DEF S
  <2> QED BY <1>1, Extremes
<1>3. \A j \in 1..Len(copies) : j > k => ~LiveOf(copies, j, n)
  BY <1>1, <1>2
<1> QED BY <1>2, <1>3, ListFacts DEF LastLive

LEMMA HoldsSame ==
  ASSUME NEW copies \in Seq(CopyType), NEW new \in Seq(CopyType), Len(new) = Len(copies), NEW n,
         \A i \in 1..Len(copies) : /\ LiveOf(new, i, n) <=> LiveOf(copies, i, n)
                                   /\ new[i].data = copies[i].data,
         NEW d, Holds(copies, n, d)
  PROVE  Holds(new, n, d)
<1>1. DOMAIN new = 1..Len(copies) /\ DOMAIN copies = 1..Len(copies)
  BY ListFacts
<1>2. \A i \in 1..Len(copies) : LastLive(copies, i, n) => LastLive(new, i, n)
  BY <1>1 DEF LastLive
<1> QED BY <1>1, <1>2 DEF Holds

\* A header is appended.
LEMMA HeaderAppended ==
  ASSUME NEW copies \in Seq(CopyType), NEW new \in Seq(CopyType), Len(new) = Len(copies) + 1,
         \A i \in 1..Len(copies) : new[i] = copies[i], new[Len(copies) + 1].state = "HEADER",
         Ordered(copies)
  PROVE  /\ Ordered(new)
         /\ \A n, d : Holds(copies, n, d) => Holds(new, n, d)
<1>1. /\ DOMAIN new = 1..(Len(copies) + 1) /\ DOMAIN copies = 1..Len(copies) /\ Len(copies) \in Nat
      /\ \A i \in 1..(Len(copies) + 1) : i \in 1..Len(copies) \/ i = Len(copies) + 1
  BY ListFacts
<1>2. \A i \in 1..(Len(copies) + 1) : new[i].state \in Live => i \in 1..Len(copies)
  BY <1>1 DEF Live
<1>3. Ordered(new)
  BY <1>1, <1>2 DEF Ordered
<1>4. ASSUME NEW n, NEW d, Holds(copies, n, d)
      PROVE  Holds(new, n, d)
  <2>1. \A i \in 1..Len(copies) : LiveOf(new, i, n) <=> LiveOf(copies, i, n)
    BY DEF LiveOf
  <2>2. \A i \in 1..(Len(copies) + 1) : LiveOf(new, i, n) => i \in 1..Len(copies)
    BY <1>2 DEF LiveOf
  <2>3. \A i \in 1..Len(copies) : LastLive(copies, i, n) => LastLive(new, i, n)
    BY <1>1, <2>1, <2>2 DEF LastLive
  <2>4. \A i \in 1..Len(copies) : i \in 1..(Len(copies) + 1)
    BY <1>1
  <2> QED BY <1>1, <1>4, <2>1, <2>2, <2>3, <2>4 DEF Holds
<1> QED BY <1>3, <1>4

\* A valid copy is appended, the others of the variable are in transition.
LEMMA CopyAppended ==
  ASSUME NEW copies \in Seq(CopyType), NEW new \in Seq(CopyType), Len(new) = Len(copies) + 1,
         \A i \in 1..Len(copies) : new[i] = copies[i], new[Len(copies) + 1].state = "ADDED",
         Ordered(copies), NEW name, new[Len(copies) + 1].name = name,
         \A i \in 1..Len(copies) :
           LiveOf(copies, i, name) => copies[i].state = "IN_DELETED_TRANSITION"
  PROVE  /\ Ordered(new)
         /\ \A n, d : n # name /\ Holds(copies, n, d) => Holds(new, n, d)
<1>1. /\ DOMAIN new = 1..(Len(copies) + 1) /\ DOMAIN copies = 1..Len(copies) /\ Len(copies) \in Nat
      /\ \A i \in 1..(Len(copies) + 1) : i \in 1..Len(copies) \/ i = Len(copies) + 1
      /\ \A i \in 1..Len(copies) : i < Len(copies) + 1 /\ i \in 1..(Len(copies) + 1)
  BY ListFacts
<1>2. Ordered(new)
  <2> SUFFICES ASSUME NEW i \in DOMAIN new, NEW j \in DOMAIN new, i < j, new[i].name = new[j].name,
                      new[i].state \in Live, new[j].state \in Live
               PROVE  new[i].state = "IN_DELETED_TRANSITION"
    BY DEF Ordered
  <2>1. i \in 1..Len(copies) /\ new[i] = copies[i]
    BY <1>1
  <2>2. CASE j \in 1..Len(copies)
    <3>1. new[j] = copies[j]
      BY <2>2
    <3> QED BY <1>1, <2>1, <2>2, <3>1 DEF Ordered
  <2>3. CASE j = Len(copies) + 1
    BY <2>1, <2>3 DEF LiveOf
  <2> QED BY <1>1, <2>2, <2>3
<1>3. ASSUME NEW n, NEW d, n # name, Holds(copies, n, d)
      PROVE  Holds(new, n, d)
  <2>1. \A i \in 1..Len(copies) : LiveOf(new, i, n) <=> LiveOf(copies, i, n)
    BY DEF LiveOf
  <2>2. \A i \in 1..(Len(copies) + 1) : LiveOf(new, i, n) => i \in 1..Len(copies)
    BY <1>1, <1>3 DEF LiveOf
  <2>3. \A i \in 1..Len(copies) : LastLive(copies, i, n) => LastLive(new, i, n)
    BY <1>1, <2>1, <2>2 DEF LastLive
  <2> QED BY <1>1, <1>3, <2>1, <2>2, <2>3 DEF Holds
<1> QED BY <1>2, <1>3

\* The last copy is valid.
LEMMA LastHolds ==
  ASSUME NEW copies \in Seq(CopyType), copies # <<>>, copies[Len(copies)].state = "ADDED"
  PROVE  Holds(copies, copies[Len(copies)].name, copies[Len(copies)].data)
<1>1. Len(copies) \in Nat /\ Len(copies) # 0 /\ DOMAIN copies = 1..Len(copies)
  OBVIOUS
<1>2. LastLive(copies, Len(copies), copies[Len(copies)].name)
  BY <1>1 DEF LastLive, LiveOf, Live
<1> QED BY <1>1, <1>2 DEF Holds

\* The state of copy k is written.
Overwritten(copies, k, state, new) ==
  /\ Len(new) = Len(copies) /\ new[k].state = state
  /\ \A i \in 1..Len(copies) :
       /\ new[i].name = copies[i].name /\ new[i].data = copies[i].data
       /\ new[i].attributes = copies[i].attributes
       /\ i # k => new[i] = copies[i]

LEMMA OverwrittenFacts ==
  ASSUME NEW copies \in Seq(CopyType), NEW new \in Seq(CopyType), NEW k \in 1..Len(copies),
         NEW state, Overwritten(copies, k, state, new), Ordered(copies)
  PROVE  /\ \A n, d : n # copies[k].name /\ Holds(copies, n, d) => Holds(new, n, d)
         /\ state = "DELETED" => Ordered(new)
         /\ state = "IN_DELETED_TRANSITION" /\ LastLive(copies, k, copies[k].name) =>
              /\ Ordered(new) /\ LastLive(new, k, copies[k].name)
              /\ \A n, d : Holds(copies, n, d) => Holds(new, n, d)
              /\ \A i \in 1..Len(copies) : LiveOf(new, i, copies[k].name) =>
                   new[i].state = "IN_DELETED_TRANSITION"
         /\ /\ state = "ADDED" /\ k = Len(copies) /\ copies[k].state \notin Live
            /\ \A i \in 1..Len(copies) :
                 LiveOf(copies, i, copies[k].name) => copies[i].state = "IN_DELETED_TRANSITION"
            => Ordered(new)
<1>1. /\ DOMAIN new = 1..Len(copies) /\ DOMAIN copies = 1..Len(copies) /\ Len(copies) \in Nat
      /\ Len(new) = Len(copies) /\ new[k].state = state
  BY ListFacts DEF Overwritten
<1>2. \A i \in 1..Len(copies) :
       /\ new[i].name = copies[i].name /\ new[i].data = copies[i].data
       /\ i # k => new[i] = copies[i]
  BY DEF Overwritten
<1>3. ASSUME NEW n, NEW d, n # copies[k].name, Holds(copies, n, d)
      PROVE  Holds(new, n, d)
  <2>1. \A i \in 1..Len(copies) : LiveOf(new, i, n) <=> LiveOf(copies, i, n)
    BY <1>2, <1>3 DEF LiveOf
  <2> QED BY <1>1, <1>2, <1>3, <2>1, HoldsSame
<1>4. ASSUME state = "DELETED"
      PROVE  Ordered(new)
  <2>1. state \notin Live
    BY <1>4 DEF Live
  <2> QED BY <1>1, <1>2, <2>1 DEF Ordered
<1>5. ASSUME state = "IN_DELETED_TRANSITION", LastLive(copies, k, copies[k].name)
      PROVE  /\ Ordered(new) /\ LastLive(new, k, copies[k].name)
             /\ \A n, d : Holds(copies, n, d) => Holds(new, n, d)
             /\ \A i \in 1..Len(copies) : LiveOf(new, i, copies[k].name) =>
                  new[i].state = "IN_DELETED_TRANSITION"
  <2>1. copies[k].state \in Live /\ state \in Live
    BY <1>5 DEF LastLive, LiveOf, Live
  <2>2. \A i \in 1..Len(copies) : new[i].state \in Live <=> copies[i].state \in Live
    BY <1>1, <1>2, <2>1
  <2>3. \A n : \A i \in 1..Len(copies) : LiveOf(new, i, n) <=> LiveOf(copies, i, n)
    BY <1>2, <2>2 DEF LiveOf
  <2>4. Ordered(new)
    BY <1>1, <1>2, <1>5, <2>2 DEF Ordered
  <2>5. LastLive(new, k, copies[k].name)
    BY <1>1, <1>5, <2>3 DEF LastLive
  <2>6. ASSUME NEW n, NEW d, Holds(copies, n, d)
        PROVE  Holds(new, n, d)
    BY <1>1, <1>2, <2>3, <2>6, HoldsSame
  <2>7. ASSUME NEW i \in 1..Len(copies), LiveOf(new, i, copies[k].name)
        PROVE  new[i].state = "IN_DELETED_TRANSITION"
    <3>1. i <= k
      BY <1>1, <1>5, <2>3, <2>7 DEF LastLive
    <3>2. CASE i = k
      BY <1>1, <1>5, <3>2
    <3>3. CASE i < k
      <4>1. copies[i].name = copies[k].name /\ copies[i].state \in Live
        BY <1>2, <2>2, <2>7 DEF LiveOf
      <4>2. copies[i].state = "IN_DELETED_TRANSITION"
        BY <1>1, <2>1, <3>3, <4>1 DEF Ordered
      <4> QED BY <1>2, <3>3, <4>2
    <3> QED BY <1>1, <3>1, <3>2, <3>3
  <2> QED BY <2>4, <2>5, <2>6, <2>7
<1>6. ASSUME state = "ADDED", k = Len(copies), copies[k].state \notin Live,
             \A i \in 1..Len(copies) :
               LiveOf(copies, i, copies[k].name) => copies[i].state = "IN_DELETED_TRANSITION"
      PROVE  Ordered(new)
  <2> SUFFICES ASSUME NEW i \in 1..Len(copies), NEW j \in 1..Len(copies), i < j,
                      new[i].name = new[j].name, new[i].state \in Live, new[j].state \in Live
               PROVE  new[i].state = "IN_DELETED_TRANSITION"
    BY <1>1 DEF Ordered
  <2>1. i # k /\ new[i] = copies[i]
    <3>1. i < k
      BY <1>1, <1>6
    <3> QED BY <1>1, <1>2, <3>1
  <2>2. CASE j = k
    BY <1>2, <1>6, <2>1, <2>2 DEF LiveOf
  <2>3. CASE j # k
    <3>1. new[j] = copies[j]
      BY <1>2, <2>3
    <3> QED BY <1>1, <2>1, <3>1 DEF Ordered
  <2> QED BY <2>2, <2>3
<1> QED BY <1>3, <1>4, <1>5, <1>6
\* Of an ordered store, a reclaim keeps the last live copy of each variable.
LEMMA KeptIsLast ==
  ASSUME NEW copies \in Seq(CopyType), Ordered(copies), NEW i \in 1..Len(copies)
  PROVE  Kept(copies, i) <=> LastLive(copies, i, copies[i].name)
<1>1. DOMAIN copies = 1..Len(copies) /\ Len(copies) \in Nat
  BY ListFacts
<1>2. \A j : j \in (i + 1)..Len(copies) <=> j \in 1..Len(copies) /\ j > i
  BY <1>1
<1>3. ASSUME Kept(copies, i)
      PROVE  LastLive(copies, i, copies[i].name)
  <2>1. copies[i].state \in Live
    BY <1>3 DEF Kept, Live
  <2>2. ASSUME NEW j \in 1..Len(copies), j > i, LiveOf(copies, j, copies[i].name)
        PROVE  FALSE
    <3>1. copies[i].state = "IN_DELETED_TRANSITION"
      BY <1>1, <2>1, <2>2 DEF Ordered, LiveOf
    <3>2. ~ExistNewerVariable(copies, i)
      BY <1>3, <3>1 DEF Kept
    <3> QED BY <1>2, <2>2, <3>2 DEF ExistNewerVariable, LiveOf
  <2> QED BY <1>1, <2>1, <2>2 DEF LastLive, LiveOf
<1>4. ASSUME LastLive(copies, i, copies[i].name)
      PROVE  Kept(copies, i)
  <2>1. copies[i].state \in Live
    BY <1>4 DEF LastLive, LiveOf
  <2>2. ~ExistNewerVariable(copies, i)
    BY <1>1, <1>2, <1>4 DEF LastLive, LiveOf, ExistNewerVariable
  <2> QED BY <2>1, <2>2 DEF Kept, Live
<1> QED BY <1>3, <1>4

\* Copy k after a reclaim is copy i, the last live one of its variable.
CameFrom(copies, current, new, k, i) ==
  /\ new[k].name = copies[i].name /\ new[k].attributes = copies[i].attributes
  /\ LastLive(copies, i, copies[i].name)
  /\ i = current => new[k].state = copies[i].state

LEMMA ReclaimKeeps ==
  ASSUME NEW copies \in Seq(CopyType), Ordered(copies), NEW current,
         NEW new, new = Reclaimed(copies, current)
  PROVE  /\ new \in Seq(CopyType) /\ Ordered(new)
         /\ \A n, d : Holds(copies, n, d) => Holds(new, n, d)
         /\ \A k \in 1..Len(new) : \E i \in 1..Len(copies) : CameFrom(copies, current, new, k, i)
<1>1. PICK m : Moved(copies, current, Len(copies), new, m)
  BY ReclaimMoves
<1>2. /\ DOMAIN copies = 1..Len(copies) /\ Len(copies) \in Nat
      /\ new \in Seq(CopyType) /\ DOMAIN new = 1..Len(new) /\ Len(new) \in Nat
  BY <1>1, ListFacts DEF Moved
<1>3. ASSUME NEW k \in 1..Len(new)
      PROVE  /\ m[k] \in 1..Len(copies) /\ LastLive(copies, m[k], copies[m[k]].name)
             /\ new[k].name = copies[m[k]].name /\ new[k].attributes = copies[m[k]].attributes
             /\ new[k].data = copies[m[k]].data
             /\ new[k].state = IF m[k] = current THEN copies[m[k]].state ELSE "ADDED"
             /\ new[k].state \in Live
  <2>1. PICK i : i = m[k] /\ i \in 1..Len(copies) /\ Kept(copies, i) /\ new[k] = NewCopy(copies, i, current)
    BY <1>1 DEF Moved
  <2>2. LastLive(copies, i, copies[i].name)
    BY <2>1, KeptIsLast
  <2>3. /\ new[k].name = copies[i].name /\ new[k].attributes = copies[i].attributes
        /\ new[k].data = copies[i].data
        /\ new[k].state = IF i = current THEN copies[i].state ELSE "ADDED"
    BY <2>1, NewCopyFacts
  <2>4. new[k].state \in Live
    BY <2>2, <2>3 DEF LastLive, LiveOf, Live
  <2> QED BY <2>1, <2>2, <2>3, <2>4
<1>4. ASSUME NEW j \in 1..Len(new), NEW k \in 1..Len(new), new[j].name = new[k].name
      PROVE  j = k
  <2>1. PICK a, b : /\ a = m[j] /\ b = m[k] /\ a \in 1..Len(copies) /\ b \in 1..Len(copies)
                    /\ LastLive(copies, a, copies[a].name) /\ LastLive(copies, b, copies[b].name)
                    /\ copies[a].name = copies[b].name
    BY <1>3, <1>4
  <2>2. a = b
    BY <1>2, <2>1 DEF LastLive
  <2>3. \A x, y \in 1..Len(new) : x < y => m[x] < m[y]
    BY <1>1 DEF Moved
  <2>4. ~(m[j] < m[k]) /\ ~(m[k] < m[j])
    BY <1>2, <2>1, <2>2
  <2>5. ~(j < k) /\ ~(k < j)
    BY <2>3, <2>4
  <2> QED BY <1>2, <2>5
<1>5. Ordered(new)
  BY <1>2, <1>4 DEF Ordered
<1>6. ASSUME NEW n, NEW d, Holds(copies, n, d)
      PROVE  Holds(new, n, d)
  <2>1. CASE d = Absent /\ \A i \in DOMAIN copies : ~LiveOf(copies, i, n)
    <3>1. ASSUME NEW k \in 1..Len(new), LiveOf(new, k, n)
          PROVE  FALSE
      BY <1>2, <1>3, <2>1, <3>1 DEF LiveOf, LastLive
    <3> QED BY <1>2, <2>1, <3>1 DEF Holds
  <2>2. CASE \E i \in DOMAIN copies : LastLive(copies, i, n) /\ copies[i].data = d
    <3>1. PICK i \in 1..Len(copies) : LastLive(copies, i, n) /\ copies[i].data = d
      BY <1>2, <2>2
    <3>2. copies[i].name = n
      BY <3>1 DEF LastLive, LiveOf
    <3>3. Kept(copies, i)
      BY <3>1, <3>2, KeptIsLast
    <3>4. PICK k \in 1..Len(new) : m[k] = i
      BY <1>1, <3>3 DEF Moved
    <3>5. new[k].name = n /\ new[k].data = d /\ new[k].state \in Live
      BY <1>3, <3>1, <3>2, <3>4
    <3>6. LastLive(new, k, n)
      <4>1. LiveOf(new, k, n)
        BY <3>5 DEF LiveOf
      <4>2. \A j \in 1..Len(new) : j > k => new[j].name # n
        BY <1>2, <1>4, <3>5
      <4> QED BY <1>2, <4>1, <4>2 DEF LastLive, LiveOf
    <3> QED BY <1>2, <3>5, <3>6 DEF Holds
  <2> QED BY <1>6, <2>1, <2>2 DEF Holds
<1>7. ASSUME NEW k \in 1..Len(new)
      PROVE  \E i \in 1..Len(copies) : CameFrom(copies, current, new, k, i)
  <2>1. PICK i : i = m[k]
    OBVIOUS
  <2> QED BY <1>3, <2>1 DEF CameFrom
<1> QED BY <1>2, <1>5, <1>6, <1>7
-----------------------------------------------------------------------------
(* What a search finds.                                                    *)

\* The variables that can be seen.
Seen(n) == AtRuntime => \A attributes \in AttributesOf[n] : "RT" \in attributes

SearchOK(n) ==
  LET found == FindVariable(n) IN
  /\ found # None => /\ found \in PointersOf(store) /\ found.Base = Home(n) /\ Seen(n)
                     /\ LastLive(store[Home(n)], found.index, n)
                     /\ Read(n) = store[Home(n)][found.index].data
  /\ found = None /\ Seen(n) =>
       \A i \in DOMAIN store[Home(n)] : ~LiveOf(store[Home(n)], i, n)

LEMMA SearchFinds ==
  ASSUME OneKind, Types, StoresInv, NEW n \in Names
  PROVE  SearchOK(n)
<1> DEFINE copies == store[Home(n)]
<1>1. PICK found : found = FindVariable(n)
  OBVIOUS
<1>2. store \in [Bases -> Seq(CopyType)] /\ Home(n) \in Bases /\ copies \in Seq(CopyType)
  BY DEF Types, Stores, Home
<1>3. /\ found = None => \A p \in Pointers : ~Candidate(p, n)
      /\ found # None =>
              /\ found \in Pointers /\ Candidate(found, n)
              /\ \/ Copy(found).state = "ADDED"
                 \/ \A q \in Pointers : Candidate(q, n) =>
                      Copy(q).state = "IN_DELETED_TRANSITION" /\ Before(q, found)
  BY <1>1, <1>2, FindFacts
<1>4. Pointers = PointersOf(store)
  BY DEF Pointers, PointersOf
<1>5. ASSUME NEW v \in Bases, NEW i \in 1..Len(store[v]), store[v][i].name = n
      PROVE  v = Home(n) /\ (Visible(store[v][i]) <=> Seen(n))
  <2>1. Placed(v, store[v][i])
    BY <1>2, ListFacts DEF StoresInv
  <2>2. store[v][i].attributes \in AttributesOf[n] /\ v = Home(n)
    BY <1>5, <2>1 DEF Placed
  <2>3. \A a \in AttributesOf[n] : "RT" \in a <=> "RT" \in store[v][i].attributes
    BY <2>2 DEF OneKind
  <2> QED BY <2>2, <2>3 DEF Visible, Seen
<1>6. ASSUME found # None
      PROVE  /\ found \in PointersOf(store) /\ found.Base = Home(n) /\ Seen(n)
             /\ LastLive(copies, found.index, n) /\ Read(n) = copies[found.index].data
  <2>1. /\ found \in PointersOf(store) /\ found.Base \in Bases
        /\ found.index \in 1..Len(store[found.Base])
    BY <1>2, <1>3, <1>4, <1>6, PointerFacts DEF PointerType
  <2>2. Copy(found).name = n /\ Copy(found).state \in Live /\ Visible(Copy(found))
    BY <1>3, <1>6 DEF Candidate
  <2>3. found.Base = Home(n) /\ Seen(n) /\ Copy(found) = copies[found.index]
    BY <1>5, <2>1, <2>2 DEF Copy
  <2>4. LiveOf(copies, found.index, n) /\ found.index \in 1..Len(copies)
    BY <2>1, <2>2, <2>3 DEF LiveOf
  <2>5. PICK k \in 1..Len(copies) : LastLive(copies, k, n)
    <3> HIDE DEF copies
    <3> QED BY <1>2, <2>4, LastLiveExists
  <2>6. k = found.index
    <3>1. found.index <= k
      BY <1>2, <2>4, <2>5, ListFacts DEF LastLive
    <3>2. CASE Copy(found).state = "ADDED"
      <4>1. \A i, j \in DOMAIN copies : i < j /\ copies[i].name = copies[j].name
              /\ copies[i].state \in Live /\ copies[j].state \in Live
              => copies[i].state = "IN_DELETED_TRANSITION"
        BY <1>2 DEF StoresInv, Ordered
      <4>2. DOMAIN copies = 1..Len(copies)
        BY <1>2, ListFacts
      <4>3. LiveOf(copies, k, n)
        BY <2>5 DEF LastLive
      <4>4. ~(found.index < k)
        BY <2>3, <2>4, <3>2, <4>1, <4>2, <4>3 DEF LiveOf
      <4> QED BY <1>2, <2>4, <2>5, <3>1, <4>4
    <3>3. CASE \A q \in Pointers : Candidate(q, n) =>
                  Copy(q).state = "IN_DELETED_TRANSITION" /\ Before(q, found)
      <4>1. PICK q : q = [Base |-> Home(n), index |-> k]
        OBVIOUS
      <4>2. q \in Pointers /\ q.Base = Home(n) /\ q.index = k
        BY <1>2, <1>4, <2>5, <4>1, PointerFacts
      <4>3. LiveOf(copies, k, n)
        BY <2>5 DEF LastLive
      <4>4. Copy(q) = copies[k] /\ Visible(copies[k])
        BY <1>2, <1>5, <2>3, <4>2, <4>3 DEF Copy, LiveOf
      <4>5. Before(q, found)
        BY <3>3, <4>2, <4>3, <4>4 DEF Candidate, LiveOf
      <4>6. k <= found.index
        BY <2>3, <4>2, <4>5 DEF Before
      <4> QED BY <1>2, <2>4, <2>5, <3>1, <4>6
    <3> QED BY <1>3, <1>6, <3>2, <3>3
  <2>7. Read(n) = Copy(found).data
    BY <1>1, <1>6 DEF Read
  <2> QED BY <2>1, <2>3, <2>5, <2>6, <2>7
<1>7. ASSUME found = None, Seen(n), NEW i \in DOMAIN copies, LiveOf(copies, i, n)
      PROVE  FALSE
  <2>1. i \in 1..Len(copies)
    BY <1>2, <1>7, ListFacts
  <2>2. PICK q : q = [Base |-> Home(n), index |-> i]
    OBVIOUS
  <2>3. q \in Pointers /\ q.Base = Home(n) /\ q.index = i
    BY <1>2, <1>4, <2>1, <2>2, PointerFacts
  <2>4. Copy(q) = copies[i] /\ Visible(copies[i])
    BY <1>2, <1>5, <1>7, <2>1, <2>3 DEF Copy, LiveOf
  <2> QED BY <1>3, <1>7, <2>3, <2>4 DEF Candidate, LiveOf
<1> QED BY <1>1, <1>6, <1>7 DEF SearchOK

\* A variable that is seen is read as what its store holds.
ReadOK(n) == /\ Seen(n) => Holds(store[Home(n)], n, Read(n))
             /\ ~Seen(n) => Read(n) = Absent

LEMMA ReadsWhatIsHeld ==
  ASSUME OneKind, Types, StoresInv, NEW n \in Names
  PROVE  ReadOK(n)
<1>1. PICK found : found = FindVariable(n)
  OBVIOUS
<1>2. /\ found # None => /\ found \in PointersOf(store) /\ found.Base = Home(n) /\ Seen(n)
                     /\ LastLive(store[Home(n)], found.index, n)
                     /\ Read(n) = store[Home(n)][found.index].data
      /\ found = None /\ Seen(n) =>
            \A i \in DOMAIN store[Home(n)] : ~LiveOf(store[Home(n)], i, n)
  BY <1>1, SearchFinds DEF SearchOK
<1>3. CASE found # None
  BY <1>2, <1>3 DEF ReadOK, Holds, LastLive
<1>4. CASE found = None
  <2>1. Read(n) = Absent
    BY <1>1, <1>4 DEF Read
  <2> QED BY <1>2, <1>4, <2>1 DEF ReadOK, Holds
<1> QED BY <1>3, <1>4
-----------------------------------------------------------------------------
(* Every step keeps the contents.                                          *)

HoldsOn(n) == \A d : Holds(store[Home(n)], n, d) => Holds(store'[Home(n)], n, d)

ValueKept(n) ==
  \/ pc' = "Invalid"
  \/ Absent \in expected'[n]
  \/ pc' = "MarkDeleted" /\ call'.name = n
  \/ \E d \in expected'[n] : Holds(store'[Home(n)], n, d)
  \/ /\ pc # "Invalid" /\ (pc = "MarkDeleted" => call.name # n)
     /\ expected[n] \subseteq expected'[n] /\ HoldsOn(n)

LEMMA ValuesStep ==
  ASSUME ValuesInv, \A n \in Names : ValueKept(n)
  PROVE  ValuesInv'
<1> SUFFICES ASSUME NEW n \in Names, pc' # "Invalid", Absent \notin expected'[n],
                    pc' = "MarkDeleted" => call'.name # n
             PROVE  \E d \in expected'[n] : Holds(store'[Home(n)], n, d)
  BY DEF ValuesInv, Home
<1>1. CASE /\ pc # "Invalid" /\ (pc = "MarkDeleted" => call.name # n)
           /\ expected[n] \subseteq expected'[n] /\ HoldsOn(n)
  <2>1. Absent \notin expected[n]
    BY <1>1
  <2>2. PICK d \in expected[n] : Holds(store[Home(n)], n, d)
    BY <1>1, <2>1 DEF ValuesInv
  <2> QED BY <1>1, <2>2 DEF HoldsOn
<1> QED BY <1>1 DEF ValueKept

LEMMA IdleCurrent ==
  ASSUME call' = None, pc' \notin InCall
  PROVE  CurrentInv'
BY DEF CurrentInv, InCall

LEMMA SameStores ==
  ASSUME store' = store, StoresInv
  PROVE  StoresInv' /\ \A n : HoldsOn(n)
BY DEF StoresInv, Placed, Home, HoldsOn

LEMMA HomeFacts ==
  \A n : Home(n) \in Bases
BY DEF Home

\* A state byte is written, seen from the lists.
LEMMA SetStateLists ==
  ASSUME Types, NEW p \in PointersOf(store), NEW state \in Live \cup {"HEADER", "DELETED"},
         SetState(p, state)
  PROVE  /\ p.Base \in Bases /\ p.index \in 1..Len(store[p.Base])
         /\ \A v \in Bases : /\ v # p.Base => store'[v] = store[v]
                             /\ store[v] \in Seq(CopyType) /\ store'[v] \in Seq(CopyType)
         /\ Overwritten(store[p.Base], p.index, state, store'[p.Base])
<1>1. store \in Stores
  BY DEF Types
<1>2. p.Base \in Bases /\ p.index \in 1..Len(store[p.Base])
  BY <1>1, PointerFacts DEF PointerType, Stores
<1>3. store' \in Stores
  BY SetStateFacts
<1>4. \A v \in Bases : v # p.Base => store'[v] = store[v]
  BY <1>1 DEF SetState, Stores
<1>5. Overwritten(store[p.Base], p.index, state, store'[p.Base])
  <2>1. \A v \in Bases : Len(store'[v]) = Len(store[v])
    BY SetStateFacts
  <2>2. \A v \in Bases : \A i \in 1..Len(store[v]) :
              /\ store'[v][i].name = store[v][i].name /\ store'[v][i].data = store[v][i].data
              /\ store'[v][i].attributes = store[v][i].attributes
              /\ v = p.Base /\ i = p.index => store'[v][i] = [store[v][i] EXCEPT !.state = state]
              /\ v = p.Base /\ i = p.index => store'[v][i].state = state
              /\ v # p.Base \/ i # p.index => store'[v][i] = store[v][i]
    BY SetStateFacts
  <2>3. PICK v, i : v \in Bases /\ v = p.Base /\ i = p.index /\ i \in 1..Len(store[v])
    BY <1>2
  <2> QED BY <2>1, <2>2, <2>3 DEF Overwritten
<1> QED BY <1>1, <1>2, <1>3, <1>4, <1>5 DEF Stores

LEMMA SetStateStores ==
  ASSUME Types, StoresInv, NEW p \in PointersOf(store), NEW state \in Live \cup {"HEADER", "DELETED"},
         SetState(p, state), Ordered(store'[p.Base])
  PROVE  /\ StoresInv'
         /\ \A n : n # store[p.Base][p.index].name => HoldsOn(n)
<1>1. /\ p.Base \in Bases /\ p.index \in 1..Len(store[p.Base])
      /\ \A v \in Bases : /\ v # p.Base => store'[v] = store[v]
                          /\ store[v] \in Seq(CopyType) /\ store'[v] \in Seq(CopyType)
      /\ Overwritten(store[p.Base], p.index, state, store'[p.Base])
  BY SetStateLists
<1>2. ASSUME NEW v \in Bases
      PROVE  Ordered(store'[v]) /\ \A i \in DOMAIN store'[v] : Placed(v, store'[v][i])
  <2>1. Ordered(store[v]) /\ \A i \in DOMAIN store[v] : Placed(v, store[v][i])
    BY DEF StoresInv
  <2>2. CASE v # p.Base
    BY <1>1, <2>1, <2>2
  <2>3. CASE v = p.Base
    <3>1. DOMAIN store[v] = 1..Len(store[v]) /\ DOMAIN store'[v] = 1..Len(store[v])
      BY <1>1, <2>3, ListFacts DEF Overwritten
    <3>2. \A i \in 1..Len(store[v]) : /\ store'[v][i].name = store[v][i].name
                                      /\ store'[v][i].attributes = store[v][i].attributes
      BY <1>1, <2>3 DEF Overwritten
    <3> QED BY <2>1, <2>3, <3>1, <3>2 DEF Placed
  <2> QED BY <2>2, <2>3
<1>3. StoresInv'
  BY <1>2 DEF StoresInv, Placed, Home
<1>4. ASSUME NEW n, n # store[p.Base][p.index].name
      PROVE  HoldsOn(n)
  <2>1. CASE Home(n) # p.Base
    BY <1>1, <2>1, HomeFacts DEF HoldsOn
  <2>2. CASE Home(n) = p.Base
    <3>1. Ordered(store[p.Base])
      BY <1>1 DEF StoresInv
    <3>2. \A d : Holds(store[p.Base], n, d) => Holds(store'[p.Base], n, d)
      BY <1>1, <1>4, <3>1, OverwrittenFacts
    <3> QED BY <2>2, <3>2 DEF HoldsOn
  <2> QED BY <2>1, <2>2
<1> QED BY <1>3, <1>4

\* What a deletion of the copy of p does.
LEMMA DeletedLists ==
  ASSUME Types, StoresInv, NEW p \in PointersOf(store), SetState(p, "DELETED")
  PROVE  /\ StoresInv'
         /\ \A n : n # store[p.Base][p.index].name => HoldsOn(n)
<1>1. "DELETED" \in Live \cup {"HEADER", "DELETED"}
  OBVIOUS
<1>2. /\ p.Base \in Bases /\ p.index \in 1..Len(store[p.Base])
      /\ store[p.Base] \in Seq(CopyType) /\ store'[p.Base] \in Seq(CopyType)
      /\ Overwritten(store[p.Base], p.index, "DELETED", store'[p.Base])
  BY <1>1, SetStateLists
<1>3. Ordered(store[p.Base])
  BY <1>2 DEF StoresInv
<1>4. Ordered(store'[p.Base])
  BY <1>2, <1>3, OverwrittenFacts
<1> QED BY <1>1, <1>4, SetStateStores

-----------------------------------------------------------------------------
LEMMA SetSameContents ==
  ASSUME OneKind, LogInv, ContentsInv, NEW n \in Names, NEW attributes \in AttributesOf[n],
         NEW data \in Data, SetSame(n, attributes, data)
  PROVE  ContentsInv' /\ \A m \in Names : HoldsOn(m)
<1>1. Types
  BY TypeParts DEF LogInv
<1>2. PICK old : old = FindVariable(n)
  OBVIOUS
<1>3. /\ pc = "Idle" /\ old # None /\ Copy(old).data = data
      /\ expected' = [expected EXCEPT ![n] = {data}]
      /\ store' = store /\ pc' = pc /\ call' = call
  BY <1>2 DEF SetSame
<1>4. StoresInv' /\ \A m : HoldsOn(m)
  BY <1>3, SameStores DEF ContentsInv
<1>5. CurrentInv'
  <2>1. call = None
    BY <1>3 DEF LogInv, CallInv, InCall
  <2> QED BY <1>3, <2>1, IdleCurrent DEF InCall
<1>6. Holds(store'[Home(n)], n, data)
  <2>1. LastLive(store[Home(n)], old.index, n) /\ old.Base = Home(n)
    BY <1>1, <1>2, <1>3, SearchFinds DEF ContentsInv, SearchOK
  <2>2. store[Home(n)][old.index].data = data
    BY <1>3, <2>1 DEF Copy
  <2> QED BY <1>3, <2>1, <2>2 DEF Holds, LastLive
<1>7. ASSUME NEW m \in Names
      PROVE  ValueKept(m)
  <2>1. expected \in [Names -> SUBSET (Data \cup {Absent})]
    BY <1>1 DEF Types
  <2>2. CASE m = n
    <3>1. expected'[m] = {data}
      BY <1>3, <2>1, <2>2
    <3> QED BY <1>6, <2>2, <3>1 DEF ValueKept
  <2>3. CASE m # n
    <3>1. expected'[m] = expected[m]
      BY <1>3, <2>1, <2>3
    <3> QED BY <1>3, <1>4, <3>1 DEF ValueKept
  <2> QED BY <2>2, <2>3
<1> QED BY <1>4, <1>5, <1>7, ValuesStep DEF ContentsInv

LEMMA DeleteContents ==
  ASSUME OneKind, LogInv, ContentsInv, NEW n \in Names, NEW attributes, DeleteVariable(n, attributes)
  PROVE  ContentsInv' /\ \A m \in Names : m # n => HoldsOn(m)
<1>1. Types
  BY TypeParts DEF LogInv
<1>2. PICK old : old = FindVariable(n)
  OBVIOUS
<1>3. /\ pc = "Idle" /\ old # None /\ SetState(old, "DELETED")
      /\ expected' = [expected EXCEPT ![n] = {Absent}]
      /\ call' = call /\ pc' = pc
  BY <1>2 DEF DeleteVariable
<1>4. old \in PointersOf(store) /\ store[old.Base][old.index].name = n
  <2>1. /\ old \in PointersOf(store) /\ old.Base = Home(n)
        /\ LastLive(store[Home(n)], old.index, n)
    BY <1>1, <1>2, <1>3, SearchFinds DEF ContentsInv, SearchOK
  <2> QED BY <2>1 DEF LastLive, LiveOf
<1>5. StoresInv' /\ \A m : m # n => HoldsOn(m)
  BY <1>1, <1>3, <1>4, DeletedLists DEF ContentsInv
<1>6. CurrentInv'
  <2>1. call = None
    BY <1>3 DEF LogInv, CallInv, InCall
  <2> QED BY <1>3, <2>1, IdleCurrent DEF InCall
<1>7. ASSUME NEW m \in Names
      PROVE  ValueKept(m)
  <2>1. expected \in [Names -> SUBSET (Data \cup {Absent})]
    BY <1>1 DEF Types
  <2>2. CASE m = n
    <3>1. expected'[m] = {Absent}
      BY <1>3, <2>1, <2>2
    <3>2. Absent \in expected'[m]
      BY <3>1
    <3> QED BY <3>2 DEF ValueKept
  <2>3. CASE m # n
    <3>1. expected'[m] = expected[m]
      BY <1>3, <2>1, <2>3
    <3> QED BY <1>3, <1>5, <2>3, <3>1 DEF ValueKept
  <2> QED BY <2>2, <2>3
<1> QED BY <1>5, <1>6, <1>7, ValuesStep DEF ContentsInv

LEMMA SetVariableContents ==
  ASSUME OneKind, LogInv, ContentsInv, NEW n \in Names, NEW attributes \in AttributesOf[n],
         NEW data \in Data, SetVariable(n, attributes, data)
  PROVE  ContentsInv' /\ \A m \in Names : HoldsOn(m)
<1>1. Types
  BY TypeParts DEF LogInv
<1>2. PICK old : old = FindVariable(n)
  OBVIOUS
<1>3. /\ pc = "Idle" /\ Accepted(old, attributes) /\ attributes \cap {"RT", "BS"} # {}
      /\ call' = [name |-> n, attributes |-> attributes, data |-> data, CurrPtr |-> old,
                  Base |-> IF "NV" \in attributes THEN "NonVolatile" ELSE "Volatile",
                  Reclaimed |-> FALSE]
      /\ pc' = IF old = None THEN "Reserve" ELSE "MarkOld"
      /\ store' = store /\ expected' = expected
  BY <1>2 DEF SetVariable
<1>4. StoresInv' /\ \A m : HoldsOn(m)
  BY <1>3, SameStores DEF ContentsInv
<1>5. /\ call'.name = n /\ call'.attributes = attributes /\ call'.CurrPtr = old
      /\ call'.Base = IF "NV" \in attributes THEN "NonVolatile" ELSE "Volatile"
  BY <1>3
<1>6. call'.Base = Home(n)
  <2>1. \A a \in AttributesOf[n] : "NV" \in a <=> "NV" \in attributes
    BY DEF OneKind
  <2> QED BY <1>5, <2>1 DEF Home, Persistent
<1>7. Seen(n)
  <2>1. AtRuntime => "RT" \in attributes
    BY <1>3 DEF Accepted
  <2>2. \A a \in AttributesOf[n] : "RT" \in a <=> "RT" \in attributes
    BY DEF OneKind
  <2> QED BY <2>1, <2>2 DEF Seen
<1>8. /\ old # None => old.Base = Home(n) /\ LastLive(store[Home(n)], old.index, n)
      /\ old = None => \A i \in DOMAIN store[Home(n)] : ~LiveOf(store[Home(n)], i, n)
  BY <1>1, <1>2, <1>7, SearchFinds DEF ContentsInv, SearchOK
<1>9. CurrentInv'
  <2>1. call' # None => call'.attributes \in AttributesOf[call'.name] /\ call'.Base = Home(call'.name)
    BY <1>5, <1>6
  <2>2. IF call'.CurrPtr = None
        THEN \A i \in DOMAIN store'[call'.Base] : ~LiveOf(store'[call'.Base], i, call'.name)
        ELSE /\ call'.CurrPtr.Base = call'.Base
             /\ LastLive(store'[call'.Base], call'.CurrPtr.index, call'.name)
    BY <1>3, <1>5, <1>6, <1>8
  <2>3. CASE old = None
    <3>1. pc' = "Reserve" /\ call'.CurrPtr = None
      BY <1>3, <1>5, <2>3
    <3>2. \A i \in DOMAIN store'[call'.Base] : ~LiveOf(store'[call'.Base], i, call'.name)
      BY <2>2, <3>1
    <3> QED BY <2>1, <3>1, <3>2 DEF CurrentInv, InCall, Home, Persistent
  <2>4. CASE old # None
    <3>1. pc' = "MarkOld"
      BY <1>3, <2>4
    <3> QED BY <2>1, <2>2, <3>1 DEF CurrentInv, InCall, Home, Persistent
  <2> QED BY <2>3, <2>4
<1>10. ASSUME NEW m \in Names
       PROVE  ValueKept(m)
  BY <1>3, <1>4 DEF ValueKept
<1> QED BY <1>4, <1>9, <1>10, ValuesStep DEF ContentsInv
\* The fields of the call in progress.
LEMMA CallIs ==
  ASSUME LogInv, pc \in InCall
  PROVE  /\ Types /\ call # None /\ call \in CallType /\ call.name \in Names
         /\ call.Base \in Bases /\ call.data \in Data /\ store \in Stores
         /\ CopyOfCall \in CopyType /\ [CopyOfCall EXCEPT !.state = "ADDED"] \in CopyType
         /\ store[call.Base] \in Seq(CopyType)
         /\ ~call.Reclaimed /\ call.CurrPtr # None =>
              /\ call.CurrPtr \in PointersOf(store)
              /\ call.CurrPtr.Base \in Bases
              /\ call.CurrPtr.index \in 1..Len(store[call.CurrPtr.Base])
              /\ Copy(call.CurrPtr) = store[call.CurrPtr.Base][call.CurrPtr.index]
              /\ store[call.CurrPtr.Base][call.CurrPtr.index].name = call.name
<1>1. Types /\ CurrentOK(store, call) /\ TypeOK /\ CallInv
  BY TypeParts DEF LogInv
<1>2. /\ call # None /\ call \in CallType /\ call.name \in Names
      /\ call.Base \in Bases /\ call.data \in Data
      /\ CopyOfCall \in CopyType /\ [CopyOfCall EXCEPT !.state = "ADDED"] \in CopyType
  BY <1>1, CallFacts
<1>3. store \in Stores /\ store[call.Base] \in Seq(CopyType)
  BY <1>1, <1>2 DEF Types, Stores
<1>4. ASSUME ~call.Reclaimed, call.CurrPtr # None
      PROVE  /\ call.CurrPtr \in PointersOf(store)
             /\ call.CurrPtr.Base \in Bases
             /\ call.CurrPtr.index \in 1..Len(store[call.CurrPtr.Base])
             /\ Copy(call.CurrPtr) = store[call.CurrPtr.Base][call.CurrPtr.index]
             /\ store[call.CurrPtr.Base][call.CurrPtr.index].name = call.name
  <2>1. /\ call.CurrPtr \in PointersOf(store)
        /\ store[call.CurrPtr.Base][call.CurrPtr.index].name = call.name
    BY <1>1, <1>2, <1>4 DEF CurrentOK
  <2> QED BY <1>3, <2>1, PointerFacts DEF Stores, PointerType, Copy
<1> QED BY <1>1, <1>2, <1>3, <1>4

LEMMA MarkOldContents ==
  ASSUME LogInv, ContentsInv, MarkOld
  PROVE  ContentsInv' /\ \A n \in Names : HoldsOn(n)
<1>1. /\ pc = "MarkOld" /\ pc' = "Reserve" /\ SetState(call.CurrPtr, "IN_DELETED_TRANSITION")
      /\ call' = call /\ expected' = expected
  BY DEF MarkOld
<1>2. PICK p, name, v, k : p = call.CurrPtr /\ name = call.name /\ v = call.Base /\ k = p.index
  OBVIOUS
<1>3. ~call.Reclaimed /\ call.CurrPtr # None /\ pc \in InCall
  BY <1>1 DEF LogInv, CallInv, InCall
<1>4. /\ Types /\ p \in PointersOf(store) /\ v \in Bases /\ name \in Names /\ call # None
      /\ store[p.Base][k].name = name
  BY <1>2, <1>3, CallIs
<1>5. p.Base = v /\ LastLive(store[v], k, name)
  BY <1>1, <1>2, <1>3 DEF ContentsInv, CurrentInv
<1>6. "IN_DELETED_TRANSITION" \in Live \cup {"HEADER", "DELETED"}
  BY DEF Live
<1>7. /\ k \in 1..Len(store[v]) /\ store[v] \in Seq(CopyType) /\ store'[v] \in Seq(CopyType)
      /\ Overwritten(store[v], k, "IN_DELETED_TRANSITION", store'[v])
  BY <1>1, <1>2, <1>4, <1>5, <1>6, SetStateLists
<1>8. Ordered(store[v]) /\ LastLive(store[v], k, store[v][k].name)
  BY <1>4, <1>5 DEF ContentsInv, StoresInv
<1>9. /\ Ordered(store'[v]) /\ LastLive(store'[v], k, name)
      /\ \A n, d : Holds(store[v], n, d) => Holds(store'[v], n, d)
      /\ \A i \in 1..Len(store[v]) : LiveOf(store'[v], i, name) =>
                   store'[v][i].state = "IN_DELETED_TRANSITION"
  BY <1>4, <1>5, <1>7, <1>8, OverwrittenFacts
<1>10. StoresInv' /\ \A n : n # name => HoldsOn(n)
  BY <1>1, <1>2, <1>4, <1>5, <1>6, <1>9, SetStateStores DEF ContentsInv
<1>11. HoldsOn(name)
  <2>1. v = Home(name)
    BY <1>2, <1>4 DEF ContentsInv, CurrentInv
  <2> QED BY <1>9, <2>1 DEF HoldsOn
<1>12. CurrentInv'
  <2>1. call.attributes \in AttributesOf[name] /\ v = Home(name)
    BY <1>2, <1>4 DEF ContentsInv, CurrentInv
  <2>2. DOMAIN store'[v] = 1..Len(store[v])
    BY <1>7, ListFacts DEF Overwritten
  <2>3. Copy(call.CurrPtr)'.state = "IN_DELETED_TRANSITION"
    <3>1. Copy(call.CurrPtr)' = store'[v][k]
      BY <1>1, <1>2, <1>5 DEF Copy
    <3> QED BY <1>7, <3>1 DEF Overwritten
  <2>4. /\ call'.CurrPtr = p /\ call'.name = name /\ call'.Base = v /\ call'.attributes = call.attributes
        /\ p # None /\ p.index = k
    BY <1>1, <1>2, <1>3
  <2> QED BY <1>1, <1>5, <1>9, <2>1, <2>2, <2>3, <2>4 DEF CurrentInv, InCall, Home, Persistent
<1>13. ASSUME NEW n \in Names
       PROVE  ValueKept(n)
  BY <1>1, <1>10, <1>11 DEF ValueKept
<1> QED BY <1>10, <1>11, <1>12, <1>13, ValuesStep DEF ContentsInv

LEMMA QuietContents ==
  ASSUME LogInv, ContentsInv, store' = store, call' = call, expected' = expected,
         \/ pc' = pc
         \/ pc = "Reserve" /\ pc' \in {"Header", "WriteVolatile"}
         \/ pc = "Data" /\ pc' = "Added"
  PROVE  ContentsInv' /\ \A n \in Names : HoldsOn(n)
<1>1. StoresInv' /\ \A n : HoldsOn(n)
  BY SameStores DEF ContentsInv
<1>2. CurrentInv'
  <2>1. Copy(call.CurrPtr)' = Copy(call.CurrPtr) /\ CopyOfCall' = CopyOfCall
    BY DEF Copy, CopyOfCall
  <2> QED BY <2>1 DEF ContentsInv, CurrentInv, InCall, Home, Persistent
<1>3. ASSUME NEW n \in Names
      PROVE  ValueKept(n)
  <2>1. CASE pc' = pc
    BY <1>1, <2>1 DEF ValueKept
  <2>2. CASE pc # "MarkDeleted" /\ pc # "Invalid"
    BY <1>1, <2>2 DEF ValueKept
  <2> QED BY <2>1, <2>2
<1> QED BY <1>1, <1>2, <1>3, ValuesStep DEF ContentsInv

\* A call that fails, and a boot that fails.
LEMMA ReturnContents ==
  ASSUME LogInv, ContentsInv, store' = store, expected' = expected, call' = None,
         pc \notin {"MarkDeleted", "Invalid"}, pc' \in {"Idle", "Halted"}
  PROVE  ContentsInv' /\ \A n \in Names : HoldsOn(n)
<1>1. StoresInv' /\ \A n : HoldsOn(n)
  BY SameStores DEF ContentsInv
<1>2. CurrentInv'
  BY IdleCurrent DEF InCall
<1>3. ASSUME NEW n \in Names
      PROVE  ValueKept(n)
  BY <1>1 DEF ValueKept
<1> QED BY <1>1, <1>2, <1>3, ValuesStep DEF ContentsInv

\* A reclaim, seen from the lists.
LEMMA ReclaimLists ==
  ASSUME Types, StoresInv, NEW v \in Bases, NEW current, Reclaim(v, current)
  PROVE  /\ StoresInv' /\ \A n : HoldsOn(n)
         /\ \A k \in DOMAIN store'[v] : \E i \in DOMAIN store[v] :
              /\ store'[v][k].name = store[v][i].name
              /\ LastLive(store[v], i, store[v][i].name)
              /\ i = current => store'[v][k].state = store[v][i].state
<1>1. /\ store' \in Stores /\ store'[v] = Reclaimed(store[v], current)
      /\ \A w \in Bases : w # v => store'[w] = store[w]
  BY ReclaimFacts
<1>2. store[v] \in Seq(CopyType) /\ Ordered(store[v])
  BY DEF Types, Stores, StoresInv
<1>3. PICK copies, new : copies = store[v] /\ new = store'[v]
  OBVIOUS
<1>4. /\ new \in Seq(CopyType) /\ Ordered(new)
      /\ \A n, d : Holds(copies, n, d) => Holds(new, n, d)
      /\ \A k \in 1..Len(new) : \E i \in 1..Len(copies) :
           /\ new[k].name = copies[i].name /\ new[k].attributes = copies[i].attributes
           /\ LastLive(copies, i, copies[i].name)
           /\ i = current => new[k].state = copies[i].state
  <2>1. copies \in Seq(CopyType) /\ Ordered(copies) /\ new = Reclaimed(copies, current)
    BY <1>1, <1>2, <1>3
  <2>2. new \in Seq(CopyType) /\ Ordered(new)
    BY <2>1, ReclaimKeeps
  <2>3. \A n, d : Holds(copies, n, d) => Holds(new, n, d)
    BY <2>1, ReclaimKeeps
  <2>4. \A k \in 1..Len(new) : \E i \in 1..Len(copies) :
           /\ new[k].name = copies[i].name /\ new[k].attributes = copies[i].attributes
           /\ LastLive(copies, i, copies[i].name)
           /\ i = current => new[k].state = copies[i].state
    <3>1. \A k \in 1..Len(new) : \E i \in 1..Len(copies) : CameFrom(copies, current, new, k, i)
      BY <2>1, ReclaimKeeps
    <3> QED BY <3>1 DEF CameFrom
  <2> QED BY <2>2, <2>3, <2>4
<1>5. /\ DOMAIN new = 1..Len(new) /\ DOMAIN copies = 1..Len(copies)
  BY <1>2, <1>3, <1>4, ListFacts
<1>6. \A n : HoldsOn(n)
  <2> TAKE n
  <2>1. CASE Home(n) = v
    BY <1>3, <1>4, <2>1 DEF HoldsOn
  <2>2. CASE Home(n) # v
    BY <1>1, <2>2, HomeFacts DEF HoldsOn
  <2> QED BY <2>1, <2>2
<1>7. ASSUME NEW w \in Bases
      PROVE  Ordered(store'[w]) /\ \A i \in DOMAIN store'[w] : Placed(w, store'[w][i])
  <2>1. Ordered(store[w]) /\ \A i \in DOMAIN store[w] : Placed(w, store[w][i])
    BY DEF StoresInv
  <2>2. CASE w # v
    BY <1>1, <2>1, <2>2
  <2>3. CASE w = v
    <3>1. \A i \in DOMAIN copies : Placed(v, copies[i])
      BY <1>3, <2>1, <2>3
    <3>2. \A k \in DOMAIN new : Placed(v, new[k])
      BY <1>4, <1>5, <3>1 DEF Placed
    <3> QED BY <1>3, <1>4, <2>3, <3>2
  <2> QED BY <2>2, <2>3
<1>8. StoresInv'
  BY <1>7 DEF StoresInv, Placed, Home
<1> QED BY <1>3, <1>4, <1>5, <1>6, <1>8

LEMMA ReclaimForCallContents ==
  ASSUME LogInv, ContentsInv, ReclaimForCall
  PROVE  ContentsInv' /\ \A n \in Names : HoldsOn(n)
<1>1. pc = "Reserve" /\ expected' = expected
  BY DEF ReclaimForCall
<1>2. PICK v, current, name :
          /\ v = call.Base /\ name = call.name /\ Reclaim(v, current)
          /\ current = IF call.CurrPtr # None /\ call.CurrPtr.Base = v
                       THEN call.CurrPtr.index ELSE 0
  BY DEF ReclaimForCall
<1>3. \/ pc' = Write /\ call' = [call EXCEPT !.Reclaimed = TRUE]
      \/ pc' = "Idle" /\ call' = None
  BY <1>2 DEF ReclaimForCall, Return
<1>4. Types /\ call # None /\ call \in CallType /\ v \in Bases /\ name \in Names
  BY <1>1, <1>2, CallIs DEF InCall
<1>5. /\ StoresInv' /\ \A n : HoldsOn(n)
      /\ \A k \in DOMAIN store'[v] : \E i \in DOMAIN store[v] :
           /\ store'[v][k].name = store[v][i].name
           /\ LastLive(store[v], i, store[v][i].name)
           /\ i = current => store'[v][k].state = store[v][i].state
  BY <1>2, <1>4, ReclaimLists DEF ContentsInv
<1>6. ASSUME pc' = "Idle", call' = None
      PROVE  CurrentInv'
  BY <1>6, IdleCurrent DEF InCall
<1>7. ASSUME pc' = Write, call' = [call EXCEPT !.Reclaimed = TRUE]
      PROVE  CurrentInv'
  <2>1. /\ call'.Reclaimed /\ call'.name = name /\ call'.Base = v
        /\ call'.attributes = call.attributes
    BY <1>2, <1>4, <1>7 DEF CallType
  <2>2. pc' \in {"Header", "WriteVolatile"}
    BY <1>7 DEF Write
  <2>3. call.attributes \in AttributesOf[name] /\ v = Home(name)
    BY <1>2, <1>4 DEF ContentsInv, CurrentInv
  <2>4. ASSUME NEW k \in DOMAIN store'[v], LiveOf(store'[v], k, name)
        PROVE  store'[v][k].state = "IN_DELETED_TRANSITION"
    <3>1. PICK i \in DOMAIN store[v] :
             /\ store'[v][k].name = store[v][i].name
             /\ LastLive(store[v], i, store[v][i].name)
             /\ i = current => store'[v][k].state = store[v][i].state
      BY <1>5
    <3>2. LastLive(store[v], i, name)
      BY <2>4, <3>1 DEF LiveOf
    <3>3. call.CurrPtr # None
      BY <1>1, <1>2, <3>2 DEF ContentsInv, CurrentInv, LastLive
    <3>4. call.CurrPtr.Base = v /\ LastLive(store[v], call.CurrPtr.index, name)
      BY <1>1, <1>2, <3>3 DEF ContentsInv, CurrentInv
    <3>5. i = call.CurrPtr.index
      <4>1. DOMAIN store[v] \subseteq Nat
        BY <1>4, ListFacts DEF Types, Stores
      <4> QED BY <3>2, <3>4, <4>1 DEF LastLive
    <3>6. Copy(call.CurrPtr).state = "IN_DELETED_TRANSITION"
      BY <1>1, <3>3 DEF LogInv, CallInv, ContentsInv, CurrentInv, InCall
    <3> QED BY <1>2, <3>1, <3>3, <3>4, <3>5, <3>6 DEF Copy
  <2> QED BY <2>1, <2>2, <2>3, <2>4 DEF CurrentInv, InCall, Home, Persistent
<1>8. ASSUME NEW n \in Names
      PROVE  ValueKept(n)
  BY <1>1, <1>5 DEF ValueKept
<1> QED BY <1>3, <1>5, <1>6, <1>7, <1>8, ValuesStep DEF ContentsInv
\* A copy is appended, seen from the lists.
LEMMA AppendLists ==
  ASSUME Types, NEW v \in Bases, NEW copy \in CopyType, store' = AppendedTo(store, v, copy)
  PROVE  /\ store[v] \in Seq(CopyType) /\ store'[v] \in Seq(CopyType) /\ store'[v] # <<>>
         /\ Len(store[v]) \in Nat /\ Len(store'[v]) = Len(store[v]) + 1
         /\ store'[v][Len(store[v]) + 1] = copy
         /\ \A i \in 1..Len(store[v]) : store'[v][i] = store[v][i]
         /\ \A w \in Bases : w # v => store'[w] = store[w]
<1>1. store \in Stores
  BY DEF Types
<1>2. PICK new : new = store' /\ new = AppendedTo(store, v, copy)
  OBVIOUS
<1>3. /\ new \in Stores /\ Len(new[v]) = Len(store[v]) + 1 /\ new[v][Len(store[v]) + 1] = copy
      /\ \A i \in 1..Len(store[v]) : new[v][i] = store[v][i]
      /\ \A w \in Bases : w # v => new[w] = store[w]
  BY <1>1, <1>2, Appended
<1>4. store[v] \in Seq(CopyType) /\ new[v] \in Seq(CopyType) /\ Len(store[v]) \in Nat
  BY <1>1, <1>3 DEF Stores
<1>5. new[v] # <<>>
  <2>1. PICK list : list = new[v]
    OBVIOUS
  <2>2. Len(list) # 0
    BY <1>3, <1>4, <2>1
  <2> QED BY <2>1, <2>2
<1> QED BY <1>2, <1>3, <1>4, <1>5

LEMMA AppendStores ==
  ASSUME Types, StoresInv, NEW v \in Bases, NEW copy \in CopyType,
         store' = AppendedTo(store, v, copy), Placed(v, copy), Ordered(store'[v])
  PROVE  StoresInv'
<1>1. /\ store[v] \in Seq(CopyType) /\ store'[v] \in Seq(CopyType)
      /\ Len(store[v]) \in Nat /\ Len(store'[v]) = Len(store[v]) + 1
      /\ store'[v][Len(store[v]) + 1] = copy
      /\ \A i \in 1..Len(store[v]) : store'[v][i] = store[v][i]
      /\ \A w \in Bases : w # v => store'[w] = store[w]
  BY AppendLists
<1>2. ASSUME NEW w \in Bases
      PROVE  Ordered(store'[w]) /\ \A i \in DOMAIN store'[w] : Placed(w, store'[w][i])
  <2>1. Ordered(store[w]) /\ \A i \in DOMAIN store[w] : Placed(w, store[w][i])
    BY DEF StoresInv
  <2>2. CASE w # v
    BY <1>1, <2>1, <2>2
  <2>3. CASE w = v
    <3>1. ASSUME NEW i \in DOMAIN store'[v]
          PROVE  Placed(v, store'[v][i])
      <4>1. i \in 1..(Len(store[v]) + 1)
        BY <1>1, <3>1, ListFacts
      <4>2. CASE i = Len(store[v]) + 1
        BY <1>1, <4>2
      <4>3. CASE i \in 1..Len(store[v])
        <5>1. i \in DOMAIN store[v]
          BY <1>1, <4>3, ListFacts
        <5> QED BY <1>1, <2>1, <2>3, <4>3, <5>1
      <4> QED BY <1>1, <4>1, <4>2, <4>3
    <3> QED BY <2>3, <3>1
  <2> QED BY <2>2, <2>3
<1> QED BY <1>2 DEF StoresInv, Placed, Home

LEMMA WriteHeaderContents ==
  ASSUME LogInv, ContentsInv, WriteHeader
  PROVE  /\ ContentsInv'
         /\ pc' # "Invalid" => \A n \in Names : HoldsOn(n)
<1>1. pc = "Header" /\ pc \in InCall /\ expected' = expected
  BY DEF WriteHeader, InCall
<1>2. PICK v, name, copy : v = "NonVolatile" /\ name = call.name /\ copy = CopyOfCall
  OBVIOUS
<1>3. /\ Types /\ store \in Stores /\ copy \in CopyType /\ v \in Bases /\ call.Base = v
      /\ call # None /\ call.attributes \in AttributesOf[name] /\ v = Home(name)
  BY <1>1, <1>2, CallIs DEF LogInv, CallInv, ContentsInv, CurrentInv
<1>4. CASE LastVariableOffset["NonVolatile"] = 0
  <2>1. store' = [store EXCEPT ![v] = <<>>] /\ pc' = "Invalid" /\ call' = None
    BY <1>2, <1>4 DEF WriteHeader
  <2>2. \A w \in Bases : store'[w] = IF w = v THEN <<>> ELSE store[w]
    BY <1>3, <2>1 DEF Stores
  <2>3. StoresInv'
    <3>1. Ordered(<<>>) /\ DOMAIN <<>> = {}
      BY DEF Ordered
    <3>2. ASSUME NEW w \in Bases
          PROVE  Ordered(store'[w]) /\ \A i \in DOMAIN store'[w] : Placed(w, store'[w][i])
      <4>1. CASE w = v
        BY <2>2, <3>1, <4>1
      <4>2. CASE w # v
        BY <2>2, <4>2 DEF ContentsInv, StoresInv
      <4> QED BY <4>1, <4>2
    <3> QED BY <3>2 DEF StoresInv, Placed, Home
  <2>4. CurrentInv'
    BY <2>1, IdleCurrent DEF InCall
  <2>5. ValuesInv'
    BY <2>1 DEF ValuesInv
  <2> QED BY <2>1, <2>3, <2>4, <2>5 DEF ContentsInv
<1>5. CASE LastVariableOffset["NonVolatile"] # 0
  <2>1. store' = AppendedTo(store, v, copy) /\ pc' = "Data" /\ call' = call
    BY <1>2, <1>5 DEF WriteHeader, AppendedTo
  <2>2. /\ store[v] \in Seq(CopyType) /\ store'[v] \in Seq(CopyType)
        /\ Len(store[v]) \in Nat /\ Len(store'[v]) = Len(store[v]) + 1
        /\ store'[v][Len(store[v]) + 1] = copy
        /\ \A i \in 1..Len(store[v]) : store'[v][i] = store[v][i]
        /\ \A w \in Bases : w # v => store'[w] = store[w]
    BY <1>3, <2>1, AppendLists
  <2>3. /\ copy.state = "HEADER" /\ copy.name = name /\ copy.attributes = call.attributes
    BY <1>2 DEF CopyOfCall
  <2>4. Ordered(store[v])
    BY <1>3 DEF ContentsInv, StoresInv
  <2>5. Ordered(store'[v]) /\ \A n, d : Holds(store[v], n, d) => Holds(store'[v], n, d)
    BY <2>2, <2>3, <2>4, HeaderAppended
  <2>6. StoresInv'
    <3>1. Placed(v, copy)
      BY <1>3, <2>3 DEF Placed
    <3> QED BY <1>3, <2>1, <2>5, <3>1, AppendStores DEF ContentsInv
  <2>7. \A n : HoldsOn(n)
    <3> TAKE n
    <3>1. CASE Home(n) = v
      BY <2>5, <3>1 DEF HoldsOn
    <3>2. CASE Home(n) # v
      BY <2>2, <3>2, HomeFacts DEF HoldsOn
    <3> QED BY <3>1, <3>2
  <2>8. CurrentInv'
    <3>1. ASSUME ~call.Reclaimed, call.CurrPtr # None
          PROVE  Copy(call.CurrPtr)'.state = "IN_DELETED_TRANSITION"
      <4>1. Copy(call.CurrPtr).state = "IN_DELETED_TRANSITION"
        BY <1>1, <3>1 DEF ContentsInv, CurrentInv
      <4>2. /\ call.CurrPtr.Base \in Bases
            /\ call.CurrPtr.index \in 1..Len(store[call.CurrPtr.Base])
        BY <1>1, <3>1, CallIs
      <4>3. store'[call.CurrPtr.Base][call.CurrPtr.index] = store[call.CurrPtr.Base][call.CurrPtr.index]
        BY <2>2, <4>2
      <4> QED BY <2>1, <4>1, <4>3 DEF Copy
    <3>2. ASSUME NEW i \in DOMAIN store'[v], LiveOf(store'[v], i, name)
          PROVE  store'[v][i].state = "IN_DELETED_TRANSITION"
      <4>1. i \in 1..(Len(store[v]) + 1)
        BY <2>2, <3>2, ListFacts
      <4>2. i # Len(store[v]) + 1
        BY <2>2, <2>3, <3>2 DEF LiveOf, Live
      <4>3. i \in 1..Len(store[v]) /\ store'[v][i] = store[v][i]
        BY <2>2, <4>1, <4>2
      <4>4. i \in DOMAIN store[v] /\ LiveOf(store[v], i, name)
        BY <2>2, <3>2, <4>3, ListFacts DEF LiveOf
      <4> QED BY <1>1, <1>2, <1>3, <4>3, <4>4 DEF ContentsInv, CurrentInv, InCall
    <3>3. store'["NonVolatile"][Len(store'["NonVolatile"])] = CopyOfCall'
      BY <1>2, <2>1, <2>2 DEF CopyOfCall
    <3> QED BY <1>2, <1>3, <2>1, <3>1, <3>2, <3>3 DEF CurrentInv, InCall, Home, Persistent
  <2>9. ASSUME NEW n \in Names
        PROVE  ValueKept(n)
    BY <1>1, <2>7 DEF ValueKept
  <2> QED BY <2>6, <2>7, <2>8, <2>9, ValuesStep DEF ContentsInv
<1> QED BY <1>4, <1>5

LEMMA WriteVolatileContents ==
  ASSUME LogInv, ContentsInv, WriteVolatile
  PROVE  ContentsInv' /\ \A n \in Names : n # call.name => HoldsOn(n)
<1>1. pc = "WriteVolatile" /\ pc' = "MarkDeleted" /\ pc \in InCall /\ expected' = expected /\ call' = call
  BY DEF WriteVolatile, InCall
<1>2. PICK v, name, copy : /\ v = "Volatile" /\ name = call.name
                           /\ copy = [CopyOfCall EXCEPT !.state = "ADDED"]
  OBVIOUS
<1>3. /\ Types /\ copy \in CopyType /\ v \in Bases /\ call.Base = v /\ call # None
      /\ call.attributes \in AttributesOf[name] /\ v = Home(name)
  BY <1>1, <1>2, CallIs DEF LogInv, CallInv, ContentsInv, CurrentInv
<1>4. store' = AppendedTo(store, v, copy)
  BY <1>2 DEF WriteVolatile, AppendedTo
<1>5. /\ store[v] \in Seq(CopyType) /\ store'[v] \in Seq(CopyType) /\ store'[v] # <<>>
      /\ Len(store[v]) \in Nat /\ Len(store'[v]) = Len(store[v]) + 1
      /\ store'[v][Len(store[v]) + 1] = copy
      /\ \A i \in 1..Len(store[v]) : store'[v][i] = store[v][i]
      /\ \A w \in Bases : w # v => store'[w] = store[w]
  BY <1>3, <1>4, AppendLists
<1>6. copy.state = "ADDED" /\ copy.name = name /\ copy.attributes = call.attributes
  BY <1>2 DEF CopyOfCall
<1>7. Ordered(store[v])
  BY <1>3 DEF ContentsInv, StoresInv
<1>8. \A i \in 1..Len(store[v]) :
        LiveOf(store[v], i, name) => store[v][i].state = "IN_DELETED_TRANSITION"
  BY <1>1, <1>2, <1>3, <1>5, ListFacts DEF ContentsInv, CurrentInv, InCall
<1>9. Ordered(store'[v]) /\ \A n, d : n # name /\ Holds(store[v], n, d) => Holds(store'[v], n, d)
  BY <1>5, <1>6, <1>7, <1>8, CopyAppended
<1>10. StoresInv'
  <2>1. Placed(v, copy)
    BY <1>3, <1>6 DEF Placed
  <2> QED BY <1>3, <1>4, <1>9, <2>1, AppendStores DEF ContentsInv
<1>11. \A n : n # name => HoldsOn(n)
  <2> TAKE n
  <2>1. CASE Home(n) = v
    BY <1>9, <2>1 DEF HoldsOn
  <2>2. CASE Home(n) # v
    BY <1>5, <2>2, HomeFacts DEF HoldsOn
  <2> QED BY <2>1, <2>2
<1>12. CurrentInv'
  <2>1. ASSUME ~call.Reclaimed, call.CurrPtr # None
        PROVE  Copy(call.CurrPtr)'.state = "IN_DELETED_TRANSITION"
    <3>1. Copy(call.CurrPtr).state = "IN_DELETED_TRANSITION"
      BY <1>1, <2>1 DEF ContentsInv, CurrentInv
    <3>2. /\ call.CurrPtr.Base \in Bases
          /\ call.CurrPtr.index \in 1..Len(store[call.CurrPtr.Base])
      BY <1>1, <2>1, CallIs
    <3>3. store'[call.CurrPtr.Base][call.CurrPtr.index] = store[call.CurrPtr.Base][call.CurrPtr.index]
      BY <1>5, <3>2
    <3> QED BY <1>1, <3>1, <3>3 DEF Copy
  <2>2. store'[v][Len(store'[v])] = [CopyOfCall EXCEPT !.state = "ADDED"]'
    BY <1>1, <1>2, <1>5 DEF CopyOfCall
  <2> QED BY <1>1, <1>2, <1>3, <1>5, <2>1, <2>2 DEF CurrentInv, InCall, Home, Persistent
<1>13. ASSUME NEW n \in Names
       PROVE  ValueKept(n)
  BY <1>1, <1>2, <1>11 DEF ValueKept
<1> QED BY <1>2, <1>10, <1>11, <1>12, <1>13, ValuesStep DEF ContentsInv
LEMMA WriteAddedContents ==
  ASSUME LogInv, ContentsInv, WriteAdded
  PROVE  ContentsInv' /\ \A n \in Names : n # call.name => HoldsOn(n)
<1>1. pc = "Added" /\ pc' = "MarkDeleted" /\ pc \in InCall /\ expected' = expected /\ call' = call
  BY DEF WriteAdded, InCall
<1>2. PICK v, name, copies, p, new :
        /\ v = "NonVolatile" /\ name = call.name /\ copies = store[v] /\ new = store'[v]
        /\ p = [Base |-> v, index |-> Len(copies)]
  OBVIOUS
<1>3. /\ Types /\ v \in Bases /\ call.Base = v /\ call # None /\ copies # <<>>
      /\ call.attributes \in AttributesOf[name] /\ v = Home(name) /\ copies[Len(copies)] = CopyOfCall
  BY <1>1, <1>2, CallIs DEF LogInv, CallInv, ContentsInv, CurrentInv
<1>4. copies \in Seq(CopyType) /\ Len(copies) \in 1..Len(copies) /\ DOMAIN copies = 1..Len(copies)
  <2>1. copies \in Seq(CopyType)
    BY <1>2, <1>3 DEF Types, Stores
  <2>2. Len(copies) \in Nat /\ Len(copies) # 0
    BY <1>3, <2>1
  <2> QED BY <2>1, <2>2, ListFacts
<1>5. p \in PointersOf(store) /\ p.Base = v /\ p.index = Len(copies)
  BY <1>2, <1>3, <1>4, PointerFacts DEF Types, Stores
<1>6. SetState(p, "ADDED") /\ "ADDED" \in Live \cup {"HEADER", "DELETED"}
  BY <1>2 DEF WriteAdded, Live
<1>7. /\ new \in Seq(CopyType) /\ Overwritten(copies, Len(copies), "ADDED", new)
      /\ \A w \in Bases : w # v => store'[w] = store[w]
  BY <1>2, <1>3, <1>5, <1>6, SetStateLists
<1>8. CopyOfCall.state = "HEADER" /\ CopyOfCall.name = name /\ "HEADER" \notin Live
  BY <1>2 DEF CopyOfCall, Live
<1>9. \A i \in 1..Len(copies) :
        LiveOf(copies, i, name) => copies[i].state = "IN_DELETED_TRANSITION"
  BY <1>1, <1>2, <1>3, <1>4 DEF ContentsInv, CurrentInv, InCall
<1>10. Ordered(new)
  <2>1. Ordered(copies)
    BY <1>2, <1>3 DEF ContentsInv, StoresInv
  <2> QED BY <1>3, <1>4, <1>7, <1>8, <1>9, <2>1, OverwrittenFacts
<1>11. StoresInv' /\ \A n : n # name => HoldsOn(n)
  <2>1. Ordered(store'[p.Base]) /\ store[p.Base][p.index].name = name
    BY <1>2, <1>3, <1>5, <1>8, <1>10
  <2> QED BY <1>3, <1>5, <1>6, <2>1, SetStateStores DEF ContentsInv
<1>12. CurrentInv'
  <2>1. ASSUME ~call.Reclaimed, call.CurrPtr # None
        PROVE  Copy(call.CurrPtr)'.state = "IN_DELETED_TRANSITION"
    <3>1. Copy(call.CurrPtr).state = "IN_DELETED_TRANSITION"
      BY <1>1, <2>1 DEF ContentsInv, CurrentInv
    <3>2. PICK q : q = call.CurrPtr
      OBVIOUS
    <3>3. q.Base \in Bases /\ q.index \in 1..Len(store[q.Base]) /\ Copy(q) = store[q.Base][q.index]
      BY <1>1, <2>1, <3>2, CallIs
    <3>4. store'[q.Base][q.index] = store[q.Base][q.index]
      <4>1. CASE q.Base = v
        <5>1. q.index # Len(copies)
          BY <1>2, <1>3, <1>8, <3>1, <3>2, <3>3, <4>1
        <5> QED BY <1>2, <1>7, <3>3, <4>1, <5>1 DEF Overwritten
      <4>2. CASE q.Base # v
        BY <1>7, <3>3, <4>2
      <4> QED BY <4>1, <4>2
    <3> QED BY <1>1, <3>1, <3>2, <3>3, <3>4 DEF Copy
  <2>2. new # <<>> /\ new[Len(new)] = [CopyOfCall EXCEPT !.state = "ADDED"]
    <3>1. store'[v][Len(copies)] = [store[v][Len(copies)] EXCEPT !.state = "ADDED"]
      BY <1>2, <1>3, <1>4, <1>5, <1>6, SetStateFacts
    <3>2. Len(new) = Len(copies) /\ Len(new) # 0
      <4>1. Len(new) = Len(copies)
        BY <1>7 DEF Overwritten
      <4>2. Len(copies) \in Nat /\ Len(copies) # 0
        BY <1>3, <1>4
      <4> QED BY <4>1, <4>2
    <3>3. Len(<<>>) = 0
      OBVIOUS
    <3> QED BY <1>2, <1>3, <3>1, <3>2, <3>3
  <2>3. CopyOfCall' = CopyOfCall
    BY <1>1 DEF CopyOfCall
  <2> QED BY <1>1, <1>2, <1>3, <2>1, <2>2, <2>3 DEF CurrentInv, InCall, Home, Persistent
<1>13. ASSUME NEW n \in Names
       PROVE  ValueKept(n)
  BY <1>1, <1>2, <1>11 DEF ValueKept
<1> QED BY <1>2, <1>11, <1>12, <1>13, ValuesStep DEF ContentsInv

\* The new copy is written, it is the last one.
LEMMA NewValue ==
  ASSUME LogInv, CurrentInv, pc = "MarkDeleted"
  PROVE  Holds(store[call.Base], call.name, call.data) /\ call.Base = Home(call.name)
<1>1. PICK copies : copies = store[call.Base]
  OBVIOUS
<1>2. copies \in Seq(CopyType) /\ call # None
  BY <1>1, CallIs DEF InCall
<1>3. copies # <<>> /\ copies[Len(copies)] = [CopyOfCall EXCEPT !.state = "ADDED"]
  BY <1>1 DEF CurrentInv
<1>4. /\ copies[Len(copies)].state = "ADDED" /\ copies[Len(copies)].name = call.name
      /\ copies[Len(copies)].data = call.data
  BY <1>3 DEF CopyOfCall
<1>5. Holds(copies, copies[Len(copies)].name, copies[Len(copies)].data)
  BY <1>2, <1>3, <1>4, LastHolds
<1> QED BY <1>1, <1>2, <1>4, <1>5 DEF CurrentInv

LEMMA MarkDeletedContents ==
  ASSUME LogInv, ContentsInv, MarkDeleted
  PROVE  ContentsInv' /\ \A n \in Names : HoldsOn(n)
<1>1. /\ pc = "MarkDeleted" /\ pc' = "Idle" /\ call' = None /\ pc \in InCall
      /\ \/ ~call.Reclaimed /\ call.CurrPtr # None /\ SetState(call.CurrPtr, "DELETED")
         \/ store' = store
      /\ expected' = [expected EXCEPT ![call.name] = {call.data}]
  BY DEF MarkDeleted, Return, InCall
<1>2. PICK name, v, copies, data : /\ name = call.name /\ v = call.Base /\ copies = store[v]
                                   /\ data = call.data
  OBVIOUS
<1>3. Types /\ name \in Names /\ v \in Bases /\ copies \in Seq(CopyType) /\ store \in Stores
  BY <1>1, <1>2, CallIs
<1>4. Holds(copies, name, data) /\ v = Home(name)
  BY <1>1, <1>2, NewValue DEF ContentsInv
<1>5. CurrentInv'
  BY <1>1, IdleCurrent DEF InCall
<1>6. StoresInv' /\ (\A n : n # name => HoldsOn(n)) /\ Holds(store'[v], name, data)
  <2>1. CASE store' = store
    BY <1>2, <1>4, <2>1, SameStores DEF ContentsInv
  <2>2. CASE ~call.Reclaimed /\ call.CurrPtr # None /\ SetState(call.CurrPtr, "DELETED")
    <3>1. PICK p : p = call.CurrPtr
      OBVIOUS
    <3>2. /\ p \in PointersOf(store) /\ store[p.Base][p.index].name = name
          /\ p.Base \in Bases /\ p.index \in 1..Len(store[p.Base])
          /\ Copy(p) = store[p.Base][p.index]
      BY <1>1, <1>2, <2>2, <3>1, CallIs
    <3>3. StoresInv' /\ \A n : n # name => HoldsOn(n)
      BY <1>3, <2>2, <3>1, <3>2, DeletedLists DEF ContentsInv
    <3>4. store[p.Base][p.index].state = "IN_DELETED_TRANSITION"
      BY <1>1, <2>2, <3>1, <3>2 DEF ContentsInv, CurrentInv
    <3>5. copies # <<>> /\ copies[Len(copies)] = [CopyOfCall EXCEPT !.state = "ADDED"]
      BY <1>1, <1>2 DEF ContentsInv, CurrentInv
    <3>6. /\ copies[Len(copies)].state = "ADDED" /\ copies[Len(copies)].name = name
          /\ copies[Len(copies)].data = data
      BY <1>2, <3>5 DEF CopyOfCall
    <3>7. "DELETED" \in Live \cup {"HEADER", "DELETED"}
      OBVIOUS
    <3>8. PICK new : new = store'[v]
      OBVIOUS
    <3>9. /\ new \in Seq(CopyType) /\ Len(new) = Len(copies)
          /\ new[Len(copies)] = copies[Len(copies)]
      <4>1. Len(copies) \in 1..Len(copies)
        <5>1. Len(copies) \in Nat /\ Len(copies) # 0
          BY <1>3, <3>5
        <5> QED BY <5>1
      <4>2. /\ \A w \in Bases : /\ w # p.Base => store'[w] = store[w]
                                /\ store'[w] \in Seq(CopyType)
            /\ Overwritten(store[p.Base], p.index, "DELETED", store'[p.Base])
        BY <1>3, <2>2, <3>1, <3>2, <3>7, SetStateLists
      <4>3. CASE p.Base = v
        <5>1. p.index # Len(copies)
          BY <1>2, <3>4, <3>6, <4>3
        <5> QED BY <1>2, <1>3, <3>8, <4>1, <4>2, <4>3, <5>1 DEF Overwritten
      <4>4. CASE p.Base # v
        BY <1>2, <1>3, <3>8, <4>2, <4>4
      <4> QED BY <4>3, <4>4
    <3>10. new # <<>>
      <4>1. Len(new) # 0
        BY <1>3, <3>5, <3>9
      <4> QED BY <4>1
    <3>11. new[Len(new)].state = "ADDED" /\ new[Len(new)].name = name /\ new[Len(new)].data = data
      BY <3>6, <3>9
    <3>12. Holds(new, new[Len(new)].name, new[Len(new)].data)
      BY <3>9, <3>10, <3>11, LastHolds
    <3> QED BY <3>3, <3>8, <3>11, <3>12
  <2> QED BY <1>1, <2>1, <2>2
<1>7. HoldsOn(name)
  <2>1. \A d : Holds(copies, name, d) => d = data
    BY <1>3, <1>4, HoldsOne
  <2> QED BY <1>2, <1>4, <1>6, <2>1 DEF HoldsOn
<1>8. ASSUME NEW n \in Names
      PROVE  ValueKept(n)
  <2>1. expected \in [Names -> SUBSET (Data \cup {Absent})]
    BY <1>3 DEF Types
  <2>2. CASE n = name
    <3>1. expected'[n] = {data}
      BY <1>1, <1>2, <2>1, <2>2
    <3> QED BY <1>4, <1>6, <2>2, <3>1 DEF ValueKept
  <2>3. CASE n # name
    <3>1. expected'[n] = expected[n]
      BY <1>1, <1>2, <2>1, <2>3
    <3> QED BY <1>1, <1>2, <1>6, <2>3, <3>1 DEF ValueKept
  <2> QED BY <2>2, <2>3
<1> QED BY <1>5, <1>6, <1>7, <1>8, ValuesStep DEF ContentsInv

LEMMA PowerFailureContents ==
  ASSUME LogInv, ContentsInv, PowerFailure
  PROVE  ContentsInv' /\ \A n \in Names : Persistent(n) => HoldsOn(n)
<1>1. /\ pc \notin {"Invalid", "Boot"} /\ pc' = "Boot" /\ call' = None
      /\ store' = [store EXCEPT !["Volatile"] = <<>>]
  BY DEF PowerFailure
<1>2. Types
  BY TypeParts DEF LogInv
<1>3. store'["NonVolatile"] = store["NonVolatile"] /\ store'["Volatile"] = <<>>
  BY <1>1, <1>2 DEF Types, Stores
<1>4. StoresInv'
  <2>1. Ordered(<<>>) /\ DOMAIN <<>> = {}
    BY DEF Ordered
  <2>2. ASSUME NEW w \in Bases
        PROVE  Ordered(store'[w]) /\ \A i \in DOMAIN store'[w] : Placed(w, store'[w][i])
    <3>1. CASE w = "Volatile"
      BY <1>3, <2>1, <3>1
    <3>2. CASE w = "NonVolatile"
      BY <1>3, <3>2 DEF ContentsInv, StoresInv
    <3> QED BY <3>1, <3>2
  <2> QED BY <2>2 DEF StoresInv, Placed, Home
<1>5. CurrentInv'
  BY <1>1, IdleCurrent DEF InCall
<1>6. \A n : Persistent(n) => HoldsOn(n)
  BY <1>3 DEF HoldsOn, Home
<1>7. ASSUME NEW n \in Names
      PROVE  ValueKept(n)
  <2>1. expected' = [m \in Names |->
           IF ~Persistent(m) THEN {Absent}
           ELSE expected[m] \cup (IF call # None /\ call.name = m THEN {call.data} ELSE {})]
    BY DEF PowerFailure
  <2>2. CASE ~Persistent(n)
    <3>1. Absent \in expected'[n]
      BY <2>1, <2>2
    <3> QED BY <3>1 DEF ValueKept
  <2>3. CASE Persistent(n) /\ ~(pc = "MarkDeleted" /\ call.name = n)
    <3>1. expected[n] \subseteq expected'[n]
      BY <2>1, <2>3
    <3> QED BY <1>1, <1>6, <2>3, <3>1 DEF ValueKept
  <2>4. CASE Persistent(n) /\ pc = "MarkDeleted" /\ call.name = n
    <3>1. Holds(store[Home(n)], n, call.data)
      BY <2>4, NewValue DEF ContentsInv
    <3>2. call # None
      BY <2>4, CallIs DEF InCall
    <3>3. call.data \in expected'[n]
      BY <2>1, <2>4, <3>2
    <3>4. Holds(store'[Home(n)], n, call.data)
      BY <1>6, <2>4, <3>1 DEF HoldsOn
    <3> QED BY <3>3, <3>4 DEF ValueKept
  <2> QED BY <2>2, <2>3, <2>4
<1> QED BY <1>4, <1>5, <1>6, <1>7, ValuesStep DEF ContentsInv

ReadsOK == \A n \in Names : ReadOK(n)

LEMMA ReadsNext ==
  ASSUME OneKind
  PROVE  Types' /\ StoresInv' => ReadsOK'
<1>1. Types /\ StoresInv => ReadsOK
  BY ReadsWhatIsHeld DEF ReadsOK
<1> QED BY <1>1, PTL

LEMMA BootContents ==
  ASSUME OneKind, LogInv, ContentsInv, Boot
  PROVE  ContentsInv' /\ \A n \in Names : HoldsOn(n)
<1>1. pc = "Boot" /\ pc' = "Idle" /\ call' = call
  BY DEF Boot
<1>2. Types /\ Types' /\ call = None
  <2>1. LogInv'
    BY BootLog
  <2>2. Types'
    BY <2>1 DEF LogInv, TypeOK, Types, Stores, Pcs
  <2> QED BY <1>1, <2>2, TypeParts DEF LogInv, CallInv, InCall
<1>3. StoresInv' /\ \A n : HoldsOn(n)
  <2>1. CASE Reclaim("NonVolatile", 0)
    BY <1>2, <2>1, ReclaimLists DEF ContentsInv
  <2>2. CASE store' = store
    BY <2>2, SameStores DEF ContentsInv
  <2> QED BY <2>1, <2>2 DEF Boot
<1>4. CurrentInv'
  BY <1>1, <1>2, IdleCurrent DEF InCall
<1>5. ReadsOK'
  BY <1>2, <1>3, ReadsNext
<1>6. ASSUME NEW n \in Names
      PROVE  ValueKept(n)
  <2>1. PICK read : read = Read(n)'
    OBVIOUS
  <2>2. expected'[n] = IF read \in expected[n] THEN {read} ELSE expected[n]
    BY <2>1 DEF Boot
  <2>3. CASE read \notin expected[n]
    BY <1>1, <1>3, <2>2, <2>3 DEF ValueKept
  <2>4. CASE read = Absent /\ read \in expected[n]
    <3>1. Absent \in expected'[n]
      BY <2>2, <2>4
    <3> QED BY <3>1 DEF ValueKept
  <2>5. CASE read # Absent /\ read \in expected[n]
    <3>1. ReadOK(n)'
      BY <1>5 DEF ReadsOK
    <3>2. Holds(store'[Home(n)], n, read)
      BY <2>1, <2>5, <3>1 DEF ReadOK, Home, Persistent, Holds, LastLive, LiveOf
    <3> QED BY <2>2, <2>5, <3>2 DEF ValueKept
  <2> QED BY <2>3, <2>4, <2>5
<1> QED BY <1>3, <1>4, <1>6, ValuesStep DEF ContentsInv

LEMMA InitContents ==
  ASSUME Init
  PROVE  ContentsInv
<1>1. call = None /\ pc = "Idle" /\ \A n \in Names : Absent \in expected[n]
  BY DEF Init
<1>2. \A v \in Bases : store[v] = <<>> /\ DOMAIN store[v] = {}
  BY DEF Init
<1>3. CurrentInv
  BY <1>1 DEF CurrentInv, InCall
<1>4. StoresInv
  BY <1>2 DEF StoresInv, Ordered
<1>5. ValuesInv
  BY <1>1 DEF ValuesInv
<1> QED BY <1>3, <1>4, <1>5 DEF ContentsInv
\* What a step may do to what is read of a variable.
Effect(n) ==
  \/ HoldsOn(n) /\ AtRuntime' = AtRuntime
  \/ /\ pc' = "MarkDeleted" /\ call' = call /\ call # None /\ call.name = n
     /\ AtRuntime' = AtRuntime
  \/ Deletes(n)
  \/ ExitBootServices
  \/ pc' = "Invalid"
  \/ PowerFailure /\ (~Persistent(n) \/ AtRuntime)

LEMMA StepContents ==
  ASSUME OneKind, LogInv, ContentsInv, [Next]_vars
  PROVE  ContentsInv' /\ \A n \in Names : Effect(n)
<1>1. CASE UNCHANGED vars
  <2>1. store' = store /\ call' = call /\ expected' = expected /\ pc' = pc /\ AtRuntime' = AtRuntime
    BY <1>1 DEF vars
  <2> QED BY <2>1, QuietContents DEF Effect
<1>2. ASSUME NEW n \in Names, Sets(n)
      PROVE  ContentsInv' /\ \A m \in Names : Effect(m)
  <2>1. PICK attributes \in AttributesOf[n], data \in Data :
             SetVariable(n, attributes, data) \/ SetSame(n, attributes, data)
    BY <1>2 DEF Sets
  <2>2. AtRuntime' = AtRuntime
    BY <2>1 DEF SetVariable, SetSame
  <2>3. ContentsInv' /\ \A m \in Names : HoldsOn(m)
    BY <2>1, SetVariableContents, SetSameContents
  <2> QED BY <2>2, <2>3 DEF Effect
<1>3. ASSUME NEW n \in Names, Deletes(n)
      PROVE  ContentsInv' /\ \A m \in Names : Effect(m)
  <2>1. PICK attributes : DeleteVariable(n, attributes)
    BY <1>3 DEF Deletes
  <2>2. AtRuntime' = AtRuntime
    BY <2>1 DEF DeleteVariable
  <2>3. ContentsInv' /\ \A m \in Names : m # n => HoldsOn(m)
    BY <2>1, DeleteContents
  <2> QED BY <1>3, <2>2, <2>3 DEF Effect
<1>4. CASE MarkOld \/ ReclaimForCall \/ MarkDeleted
  <2>1. AtRuntime' = AtRuntime
    BY <1>4 DEF MarkOld, ReclaimForCall, MarkDeleted
  <2>2. ContentsInv' /\ \A m \in Names : HoldsOn(m)
    BY <1>4, MarkOldContents, ReclaimForCallContents, MarkDeletedContents
  <2> QED BY <2>1, <2>2 DEF Effect
<1>5. CASE HasRoom \/ WriteData
  <2>1. /\ store' = store /\ call' = call /\ expected' = expected /\ AtRuntime' = AtRuntime
        /\ \/ pc = "Reserve" /\ pc' \in {"Header", "WriteVolatile"}
           \/ pc = "Data" /\ pc' = "Added"
    BY <1>5 DEF HasRoom, WriteData, Write
  <2>2. ContentsInv' /\ \A m \in Names : HoldsOn(m)
    BY <2>1, QuietContents
  <2> QED BY <2>1, <2>2 DEF Effect
<1>6. CASE OutOfResources \/ ReclaimFails \/ WriteRefused \/ BootFails
  <2>1. /\ store' = store /\ expected' = expected /\ AtRuntime' = AtRuntime
        /\ pc \notin {"MarkDeleted", "Invalid"} /\ pc' \in {"Idle", "Halted"}
    BY <1>6 DEF OutOfResources, ReclaimFails, WriteRefused, BootFails, Return
  <2>2. call' = None
    BY <1>6 DEF OutOfResources, ReclaimFails, WriteRefused, BootFails, Return, LogInv, CallInv, InCall
  <2>3. ContentsInv' /\ \A m \in Names : HoldsOn(m)
    BY <2>1, <2>2, ReturnContents
  <2> QED BY <2>1, <2>3 DEF Effect
<1>7. CASE WriteHeader
  <2>1. AtRuntime' = AtRuntime
    BY <1>7 DEF WriteHeader
  <2> QED BY <1>7, <2>1, WriteHeaderContents DEF Effect
<1>8. CASE WriteAdded \/ WriteVolatile
  <2>1. AtRuntime' = AtRuntime /\ pc' = "MarkDeleted" /\ call' = call /\ pc \in InCall
    BY <1>8 DEF WriteAdded, WriteVolatile, InCall
  <2>2. ContentsInv' /\ \A m \in Names : m # call.name => HoldsOn(m)
    BY <1>8, WriteAddedContents, WriteVolatileContents
  <2>3. call # None
    BY <2>1, CallIs
  <2> QED BY <2>1, <2>2, <2>3 DEF Effect
<1>9. CASE ExitBootServices
  <2>1. store' = store /\ call' = call /\ expected' = expected /\ pc' = pc
    BY <1>9 DEF ExitBootServices
  <2> QED BY <1>9, <2>1, QuietContents DEF Effect
<1>10. CASE PowerFailure
  <2>1. ContentsInv' /\ \A n \in Names : Persistent(n) => HoldsOn(n)
    BY <1>10, PowerFailureContents
  <2>2. AtRuntime' = FALSE /\ AtRuntime \in BOOLEAN
    BY <1>10 DEF PowerFailure, LogInv, TypeOK
  <2>3. AtRuntime \/ AtRuntime' = AtRuntime
    BY <2>2
  <2> QED BY <1>10, <2>1, <2>3 DEF Effect
<1>11. CASE Boot
  <2>1. AtRuntime' = AtRuntime
    BY <1>11 DEF Boot
  <2> QED BY <1>11, <2>1, BootContents DEF Effect
<1> QED BY <1>1, <1>2, <1>3, <1>4, <1>5, <1>6, <1>7, <1>8, <1>9, <1>10, <1>11 DEF Next

LEMMA ContentsHold ==
  ASSUME OneKind
  PROVE  Spec => [](LogInv /\ ContentsInv)
<1>1. Init => LogInv /\ ContentsInv
  BY InitLog, InitContents
<1>2. LogInv /\ ContentsInv /\ [Next]_vars => LogInv' /\ ContentsInv'
  BY StepLog, StepContents
<1> QED BY <1>1, <1>2, PTL DEF Spec

\* Whatever is set, deleted and reclaimed and wherever the power fails, the log ends where
\* it is written next and no store holds two valid copies of a variable, or a valid one
\* that is older than one in transition: when each variable is always set with the same NV
\* and RT attributes (Variable.c:607, 1166, 1538-1579).
THEOREM StoreStaysSound ==
  ASSUME OneKind
  PROVE  Spec => []StoreSound
<1>1. LogInv /\ ContentsInv => StoreSound
  <2> SUFFICES ASSUME LogInv, ContentsInv
               PROVE  StoreSound
    OBVIOUS
  <2>1. EndIsKnown
    BY DEF LogInv, EndInv, EndIsKnown
  <2>2. CopiesInOrder
    BY DEF ContentsInv, StoresInv, Ordered, CopiesInOrder
  <2> QED BY <2>1, <2>2 DEF StoreSound
<1> QED BY <1>1, ContentsHold, PTL

\* A variable is read back with the last value it was set to, through reclaims, restarts and
\* calls that are cut off or fail (Variable.c:486, 607): under the same condition.
THEOREM LastValuesAreRead ==
  ASSUME OneKind
  PROVE  Spec => []LastValueIsRead
<1>1. LogInv /\ ContentsInv => LastValueIsRead
  <2> SUFFICES ASSUME LogInv, ContentsInv, pc = "Idle", NEW n \in Names, Absent \notin expected[n],
                      AtRuntime => \A attributes \in AttributesOf[n] : "RT" \in attributes
               PROVE  Read(n) \in expected[n]
    BY DEF LastValueIsRead
  <2>1. PICK d \in expected[n] : Holds(store[Home(n)], n, d)
    BY DEF ContentsInv, ValuesInv
  <2>2. Types /\ Home(n) \in Bases
    BY TypeParts, HomeFacts DEF LogInv
  <2>3. Holds(store[Home(n)], n, Read(n))
    BY <2>2, ReadsWhatIsHeld DEF ContentsInv, ReadOK, Seen
  <2>4. store[Home(n)] \in Seq(CopyType)
    BY <2>2 DEF Types, Stores
  <2>5. Read(n) = d
    BY <2>1, <2>3, <2>4, HoldsOne
  <2> QED BY <2>5
<1> QED BY <1>1, ContentsHold, PTL

\* No reclaim, boot or call for another variable changes what is read of a variable, under
\* the same condition: of the steps of a call only the one that commits its value does.
THEOREM OnlyCallsChangeReads ==
  ASSUME OneKind
  PROVE  Spec => ReadsChangeOnlyByCalls
<1> DEFINE Changes(n) == \/ call # None /\ call.name = n /\ Read(n)' = call.data
                         \/ Deletes(n) \/ ExitBootServices \/ pc' = "Invalid"
                         \/ PowerFailure /\ (~Persistent(n) \/ AtRuntime)
           Step == \A n \in Names : Read(n)' # Read(n) => Changes(n)
<1>1. LogInv /\ ContentsInv /\ LogInv' /\ ContentsInv' /\ [Next]_vars => Step
  <2> SUFFICES ASSUME LogInv, ContentsInv, LogInv', ContentsInv', [Next]_vars,
                      NEW n \in Names, Read(n)' # Read(n)
               PROVE  Changes(n)
    OBVIOUS
  <2>1. Effect(n)
    BY StepContents
  <2>2. Types /\ Types' /\ Home(n) \in Bases
    <3>1. Types'
      BY DEF LogInv, TypeOK, Types, Stores, Pcs
    <3> QED BY <3>1, TypeParts, HomeFacts DEF LogInv
  <2>3. ReadsOK' /\ ReadOK(n)
    BY <2>2, ReadsNext, ReadsWhatIsHeld DEF ContentsInv
  <2>4. PICK old, new : old = Read(n) /\ new = Read(n)'
    OBVIOUS
  <2>5. /\ Seen(n) => Holds(store[Home(n)], n, old)
        /\ ~Seen(n) => old = Absent
    BY <2>3, <2>4 DEF ReadOK
  <2>6. AtRuntime' = AtRuntime =>
          /\ Seen(n) => Holds(store'[Home(n)], n, new)
          /\ ~Seen(n) => new = Absent
    <3>1. ReadOK(n)'
      BY <2>3 DEF ReadsOK
    <3> QED BY <2>4, <3>1 DEF ReadOK, Seen, Home, Persistent, Holds, LastLive, LiveOf
  <2>7. store'[Home(n)] \in Seq(CopyType)
    BY <2>2 DEF Types, Stores
  <2>8. CASE HoldsOn(n) /\ AtRuntime' = AtRuntime
    <3>1. CASE Seen(n)
      <4>1. Holds(store'[Home(n)], n, old) /\ Holds(store'[Home(n)], n, new)
        BY <2>5, <2>6, <2>8, <3>1 DEF HoldsOn
      <4>2. PICK copies \in Seq(CopyType) : copies = store'[Home(n)]
        BY <2>7
      <4> QED BY <2>4, <4>1, <4>2, HoldsOne
    <3>2. CASE ~Seen(n)
      BY <2>4, <2>5, <2>6, <2>8, <3>2
    <3> QED BY <3>1, <3>2
  <2>9. CASE /\ pc' = "MarkDeleted" /\ call' = call /\ call # None /\ call.name = n
             /\ AtRuntime' = AtRuntime
    <3>1. CASE Seen(n)
      <4>1. PICK copies : copies = store'[Home(n)]
        OBVIOUS
      <4>2. call'.attributes \in AttributesOf[call'.name] /\ call'.Base = Home(n)
        BY <2>9 DEF ContentsInv, CurrentInv, Home, Persistent
      <4>3. copies # <<>> /\ copies[Len(copies)] = [CopyOfCall EXCEPT !.state = "ADDED"]'
        BY <2>9, <4>1, <4>2 DEF ContentsInv, CurrentInv
      <4>4. /\ copies[Len(copies)].state = "ADDED" /\ copies[Len(copies)].name = n
            /\ copies[Len(copies)].data = call.data
        BY <2>9, <4>3 DEF CopyOfCall
      <4>5. Holds(copies, n, call.data)
        BY <2>7, <4>1, <4>3, <4>4, LastHolds
      <4>6. new = call.data
        BY <2>6, <2>7, <2>9, <3>1, <4>1, <4>5, HoldsOne
      <4> QED BY <2>4, <2>9, <4>6
    <3>2. CASE ~Seen(n)
      BY <2>4, <2>5, <2>6, <2>9, <3>2
    <3> QED BY <3>1, <3>2
  <2> QED BY <2>1, <2>8, <2>9 DEF Effect
<1>2. Step => \A n \in Names : Read(n)' # Read(n) =>
       \/ call # None /\ call.name = n /\ Read(n)' = call.data
       \/ Deletes(n) \/ ExitBootServices \/ pc' = "Invalid"
       \/ PowerFailure /\ (~Persistent(n) \/ AtRuntime)
  OBVIOUS
<1> QED BY <1>1, <1>2, ContentsHold, PTL DEF Spec, ReadsChangeOnlyByCalls
=============================================================================
