---------------------------- MODULE ListsProofs ----------------------------
(***************************************************************************)
(* What the list operations return, for lists over any set.                *)
(***************************************************************************)
EXTENDS Lists, WellFoundedInduction, TLAPS

\* Induction over the natural numbers, for a set: a set is a hypothesis that the provers can
\* instantiate, a predicate is not.
LEMMA Induction ==
  ASSUME NEW S, 0 \in S, \A n \in Nat : n \in S => n + 1 \in S
  PROVE  \A n \in Nat : n \in S
<1> DEFINE R == OpToRel(<, Nat)
           B == {n \in Nat : n \notin S}
<1>1. SUFFICES ASSUME B # {} PROVE FALSE
  OBVIOUS
<1>2. IsWellFoundedOn(R, Nat)
  BY NatLessThanWellFounded
<1>3. \A x, y \in Nat : y < x => <<y, x>> \in R
  BY DEF OpToRel
<1> HIDE DEF R
<1>4. B \subseteq Nat
  OBVIOUS
<1> HIDE DEF B
<1>5. \E x \in B : \A y \in B : ~(<<y, x>> \in R)
  BY <1>1, <1>2, <1>4, WFMin
<1>6. PICK x \in B : \A y \in B : ~(<<y, x>> \in R)
  BY <1>5
<1>7. x \in Nat /\ x \notin S
  BY DEF B
<1>8. x # 0 /\ x - 1 \in Nat /\ x - 1 \notin S
  BY <1>7
<1>9. x - 1 \in B /\ x - 1 < x
  BY <1>7, <1>8 DEF B
<1> QED BY <1>3, <1>6, <1>7, <1>8, <1>9

\* A function is defined by its value at 0 and by what each value makes of the one before it.
Recursive(F, R, x, next, n) ==
  F \in [0..n -> R] /\ F[0] = x /\ \A k \in 1..n : F[k] = next[<<k, F[k - 1]>>]

LEMMA Recursion ==
  ASSUME NEW R, NEW x \in R, NEW next \in [Nat \X R -> R], NEW n \in Nat
  PROVE  \E F : Recursive(F, R, x, next, n)
<1> DEFINE Defined(m, F) == /\ F \in [0..m -> R] /\ F[0] = x
                            /\ \A k \in 1..m : F[k] = next[<<k, F[k - 1]>>]
           S == {m \in Nat : \E F : Defined(m, F)}
<1>1. 0 \in S
  <2>1. Defined(0, [k \in 0..0 |-> x])
    OBVIOUS
  <2> HIDE DEF Defined
  <2> QED BY <2>1
<1>2. ASSUME NEW m \in Nat, m \in S
      PROVE  m + 1 \in S
  <2>1. PICK F : Defined(m, F)
    BY <1>2
  <2>2. F \in [0..m -> R] /\ F[0] = x /\ F[m] \in R
    BY <2>1
  <2>3. PICK y \in R : y = next[<<m + 1, F[m]>>]
    BY <2>2
  <2> DEFINE H == [k \in 0..(m + 1) |-> IF k = m + 1 THEN y ELSE F[k]]
  <2>4. H \in [0..(m + 1) -> R] /\ H[0] = x
    BY <2>2
  <2>5. \A k \in 1..(m + 1) : H[k] = next[<<k, H[k - 1]>>]
    <3> TAKE k \in 1..(m + 1)
    <3>1. CASE k = m + 1
      <4>1. k - 1 = m /\ m \in 0..(m + 1) /\ m # m + 1
        BY <3>1
      <4>2. H[k] = y /\ H[k - 1] = F[m]
        BY <3>1, <4>1
      <4> QED BY <2>3, <3>1, <4>2
    <3>2. CASE k \in 1..m
      <4>1. k - 1 \in 0..m /\ k # m + 1 /\ k - 1 # m + 1
        BY <3>2
      <4>2. H[k] = F[k] /\ H[k - 1] = F[k - 1]
        BY <3>2, <4>1
      <4>3. F[k] = next[<<k, F[k - 1]>>]
        BY <2>1, <3>2
      <4> QED BY <4>2, <4>3
    <3> QED BY <3>1, <3>2
  <2> HIDE DEF H
  <2>6. Defined(m + 1, H)
    BY <2>4, <2>5
  <2> HIDE DEF Defined
  <2> QED BY <2>6
<1>3. n \in S
  <2> HIDE DEF S
  <2> QED BY <1>1, <1>2, Induction
<1> QED BY <1>3 DEF Recursive

\* A function over 1..n is a sequence of length n (used for the lists that the
\* operations write as functions).
LEMMA IntervalSeq ==
  ASSUME NEW S, NEW n \in Nat, NEW f, f = [i \in 1..n |-> f[i]], \A i \in 1..n : f[i] \in S
  PROVE  f \in Seq(S) /\ Len(f) = n /\ DOMAIN f = 1..n
<1>1. f \in [1..n -> S]
  OBVIOUS
<1> QED BY <1>1

\* InsertTailList links the new entry behind all the others.
LEMMA InsertTailProperties ==
  ASSUME NEW S, NEW list \in Seq(S), NEW x \in S
  PROVE  /\ InsertTailList(list, x) \in Seq(S)
         /\ Members(InsertTailList(list, x)) = Members(list) \cup {x}
         /\ x \notin Members(list) /\ NoDuplicates(list) => NoDuplicates(InsertTailList(list, x))
         /\ InsertTailList(list, x) # <<>>
BY DEF InsertTailList, Members, NoDuplicates

\* InsertBefore adds exactly the new entry and keeps the order of the others.
LEMMA InsertBeforeProperties ==
  ASSUME NEW S, NEW list \in Seq(S), NEW x \in S, NEW k \in 1..(Len(list) + 1)
  PROVE  /\ InsertBefore(list, k, x) \in Seq(S)
         /\ Len(InsertBefore(list, k, x)) = Len(list) + 1
         /\ Members(InsertBefore(list, k, x)) = Members(list) \cup {x}
         /\ x \notin Members(list) /\ NoDuplicates(list) => NoDuplicates(InsertBefore(list, k, x))
<1> DEFINE new == InsertBefore(list, k, x)
<1>1. new \in Seq(S) /\ Len(new) = Len(list) + 1
  <2>1. Len(list) \in Nat /\ \A i \in 1..Len(list) : list[i] \in S
    OBVIOUS
  <2>2. \A i \in 1..(Len(list) + 1) : new[i] \in S
    BY <2>1 DEF InsertBefore
  <2> QED BY <2>1, <2>2, IntervalSeq DEF InsertBefore
<1>2. \A i \in 1..(Len(list) + 1) :
        new[i] = IF i < k THEN list[i] ELSE IF i = k THEN x ELSE list[i - 1]
  BY DEF InsertBefore
<1> HIDE DEF new
<1>3. Members(new) = Members(list) \cup {x}
  <2>1. ASSUME NEW i \in 1..Len(list) PROVE \E j \in 1..Len(new) : new[j] = list[i]
    <3>1. CASE i < k
      BY <1>1, <1>2, <3>1
    <3>2. CASE i >= k
      <4>1. /\ i + 1 \in 1..(Len(list) + 1) /\ ~(i + 1 < k) /\ i + 1 # k
            /\ (i + 1) - 1 = i
        BY <3>2
      <4>2. new[i + 1] = list[(i + 1) - 1]
        BY <4>1, <1>2
      <4> QED BY <4>1, <4>2, <1>1
    <3> QED BY <3>1, <3>2
  <2>2. k \in 1..Len(new) /\ new[k] = x
    BY <1>1, <1>2
  <2>3. ASSUME NEW j \in 1..Len(new)
        PROVE  new[j] = x \/ \E i \in 1..Len(list) : new[j] = list[i]
    <3>1. CASE j < k
      BY <1>1, <1>2, <3>1
    <3>2. CASE j = k
      BY <1>1, <1>2, <3>2
    <3>3. CASE j > k
      <4>1. j - 1 \in 1..Len(list) /\ new[j] = list[j - 1]
        BY <1>1, <1>2, <3>3
      <4> QED BY <4>1
    <3> QED BY <3>1, <3>2, <3>3
  <2> QED BY <2>1, <2>2, <2>3 DEF Members
<1>4. ASSUME x \notin Members(list), NoDuplicates(list) PROVE NoDuplicates(new)
  <2>1. ASSUME NEW i \in 1..Len(new), NEW j \in 1..Len(new), i < j, new[i] = new[j]
        PROVE  FALSE
    <3>1. \A m \in 1..Len(list) : list[m] # x
      BY <1>4 DEF Members
    <3>2. \A m, n \in 1..Len(list) : list[m] = list[n] => m = n
      BY <1>4 DEF NoDuplicates
    <3>3. i \in 1..(Len(list) + 1) /\ j \in 1..(Len(list) + 1) /\ Len(list) \in Nat
      BY <1>1
    <3>4. CASE j < k
      <4>1. new[i] = list[i] /\ new[j] = list[j] /\ i \in 1..Len(list) /\ j \in 1..Len(list)
        BY <1>2, <2>1, <3>3, <3>4
      <4>2. i # j
        BY <2>1, <3>3
      <4> QED BY <4>1, <4>2, <3>2, <2>1
    <3>5. CASE j = k
      <4>1. new[i] = list[i] /\ new[j] = x /\ i \in 1..Len(list)
        BY <1>2, <2>1, <3>3, <3>5
      <4> QED BY <4>1, <3>1, <2>1
    <3>6. CASE j > k
      <4>1. new[j] = list[j - 1] /\ j - 1 \in 1..Len(list)
        BY <1>2, <3>3, <3>6
      <4>2. CASE i < k
        <5>1. new[i] = list[i] /\ i \in 1..Len(list) /\ i # j - 1
          BY <1>2, <3>3, <3>6, <4>2
        <5> QED BY <5>1, <4>1, <3>2, <2>1
      <4>3. CASE i = k
        <5>1. new[i] = x
          BY <1>2, <3>3, <4>3
        <5> QED BY <5>1, <4>1, <3>1, <2>1
      <4>4. CASE i > k
        <5>1. new[i] = list[i - 1] /\ i - 1 \in 1..Len(list) /\ i - 1 # j - 1
          BY <1>2, <3>3, <4>4, <2>1
        <5> QED BY <5>1, <4>1, <3>2, <2>1
      <4> QED BY <3>3, <4>2, <4>3, <4>4
    <3> QED BY <3>3, <3>4, <3>5, <3>6
  <2>2. \A i, j \in 1..Len(new) : i < j => new[i] # new[j]
    BY <2>1
  <2>3. \A i, j \in 1..Len(new) : i < j \/ j < i \/ i = j
    BY <1>1
  <2> QED BY <2>2, <2>3 DEF NoDuplicates
<1> QED BY <1>1, <1>3, <1>4 DEF new

\* RemoveAtIndex takes one entry away and keeps the order of the others.
LEMMA RemoveAtIndexProperties ==
  ASSUME NEW S, NEW list \in Seq(S), NEW k \in 1..Len(list)
  PROVE  /\ RemoveAtIndex(list, k) \in Seq(S)
         /\ Len(RemoveAtIndex(list, k)) = Len(list) - 1
         /\ Members(RemoveAtIndex(list, k)) \subseteq Members(list)
         /\ Members(list) \subseteq Members(RemoveAtIndex(list, k)) \cup {list[k]}
         /\ NoDuplicates(list) => /\ NoDuplicates(RemoveAtIndex(list, k))
                                  /\ list[k] \notin Members(RemoveAtIndex(list, k))
<1> DEFINE new == RemoveAtIndex(list, k)
<1>1. new \in Seq(S) /\ Len(new) = Len(list) - 1
  <2>1. Len(list) \in Nat /\ Len(list) - 1 \in Nat /\ \A i \in 1..Len(list) : list[i] \in S
    OBVIOUS
  <2>2. \A i \in 1..(Len(list) - 1) : new[i] \in S
    BY <2>1 DEF RemoveAtIndex
  <2> QED BY <2>1, <2>2, IntervalSeq DEF RemoveAtIndex
<1>2. \A i \in 1..(Len(list) - 1) : new[i] = IF i < k THEN list[i] ELSE list[i + 1]
  BY DEF RemoveAtIndex
<1> HIDE DEF new
<1>3. Members(new) \subseteq Members(list)
  BY <1>1, <1>2 DEF Members
<1>4. ASSUME NEW i \in 1..Len(list), i # k PROVE list[i] \in Members(new)
  <2>1. CASE i < k
    BY <1>1, <1>2, <2>1 DEF Members
  <2>2. CASE i > k
    <3>1. i - 1 \in 1..Len(new) /\ new[i - 1] = list[i]
      BY <1>1, <1>2, <2>2
    <3> QED BY <3>1 DEF Members
  <2> QED BY <1>4, <2>1, <2>2
<1>5. Members(list) \subseteq Members(new) \cup {list[k]}
  BY <1>4 DEF Members
<1>6. ASSUME NoDuplicates(list) PROVE NoDuplicates(new) /\ list[k] \notin Members(new)
  <2> DEFINE old(i) == IF i < k THEN i ELSE i + 1
  <2>1. \A i \in 1..Len(new) : old(i) \in 1..Len(list) /\ old(i) # k /\ new[i] = list[old(i)]
    BY <1>1, <1>2
  <2>2. \A i, j \in 1..Len(new) : old(i) = old(j) => i = j
    BY <1>1
  <2>3. \A m, n \in 1..Len(list) : list[m] = list[n] => m = n
    BY <1>6 DEF NoDuplicates
  <2> HIDE DEF old
  <2>4. NoDuplicates(new)
    BY <2>1, <2>2, <2>3 DEF NoDuplicates
  <2>5. list[k] \notin Members(new)
    BY <2>1, <2>3 DEF Members
  <2> QED BY <2>4, <2>5
<1> QED BY <1>1, <1>3, <1>5, <1>6 DEF new

\* RemoveEntryList takes away the entry, and nothing else.
LEMMA RemoveEntryProperties ==
  ASSUME NEW S, NEW list \in Seq(S), NEW x
  PROVE  /\ RemoveEntryList(list, x) \in Seq(S)
         /\ Members(RemoveEntryList(list, x)) \subseteq Members(list)
         /\ Members(list) \subseteq Members(RemoveEntryList(list, x)) \cup {x}
         /\ list = <<>> => RemoveEntryList(list, x) = <<>>
         /\ NoDuplicates(list) => /\ NoDuplicates(RemoveEntryList(list, x))
                                  /\ x \notin Members(RemoveEntryList(list, x))
<1>1. CASE x \notin Members(list)
  BY <1>1 DEF RemoveEntryList
<1>2. CASE x \in Members(list)
  <2> DEFINE k == CHOOSE k \in 1..Len(list) : list[k] = x
  <2>1. k \in 1..Len(list) /\ list[k] = x
    BY <1>2 DEF Members
  <2>2. RemoveEntryList(list, x) = RemoveAtIndex(list, k)
    BY <1>2 DEF RemoveEntryList
  <2>3. list # <<>>
    BY <2>1
  <2> HIDE DEF k
  <2> QED BY <2>1, <2>2, <2>3, RemoveAtIndexProperties
<1> QED BY <1>1, <1>2
=============================================================================
