---------------------------- MODULE PageMapProofs ----------------------------
(***************************************************************************)
(* The memory map is sound for memories of every size and layout.  The     *)
(* lemmas are about the helpers, as functions of the list of entries: a    *)
(* range that is free of entries can be added to a sound map, and pulling  *)
(* a range out of an entry leaves the map sound but for that range.        *)
(*                                                                         *)
(* What a caller was given stays its own, for memories of every size and   *)
(* layout.  While a service holds the lock its pages belong to nobody      *)
(* beside it: those that CoreConvertPages has converted so far, or, of     *)
(* CoreFreePages, those it has still to convert.                           *)
(*                                                                         *)
(* The stack of new entries never overflows, and no entry is lost, when    *)
(* there is a slot for each region that may be promoted and two more.      *)
(***************************************************************************)
EXTENDS PageMap, FiniteSetTheorems, WellFoundedInduction, TLAPS

\* The entries describe the regions, except for the range that is being converted.
SoundBut(M, R, start, end, attribute) ==
  /\ M \subseteq Entry /\ \A e \in M : e.Start <= e.End
  /\ EntriesDisjoint(M) /\ AdjoiningMerged(M) /\ AttributesKept(M, R)
  /\ \A e \in M : e.End < start \/ end < e.Start
  /\ \A e \in M : \A p \in e.Start..e.End : \E r \in R : Covers(r, p)
  /\ \A p \in start..end : \E r \in R : Covers(r, p)
  /\ \A r \in R : \A p \in r.Start..r.End :
       p \in start..end \/ \E e \in M : Covers(e, p)
  /\ \A r \in R : r.End < start \/ end < r.Start \/ attribute = r.Attribute

Sound(M, R) ==
  /\ M \subseteq Entry /\ \A e \in M : e.Start <= e.End
  /\ EntriesDisjoint(M) /\ AdjoiningMerged(M)
  /\ CoversTheRegions(M, R) /\ AttributesKept(M, R)

\* A map as the helpers pass it on.
IsMap(m) ==
  /\ m = [entries |-> m.entries, depth |-> m.depth, free |-> m.free, key |-> m.key]
  /\ IsFiniteSet(m.entries) /\ m.depth \in Nat /\ m.free \in Nat /\ m.key \in Nat

Attributes == {r.Attribute : r \in Regions}

\* The page p belongs to an entry of a type.
OfType(entries, p, type) == \E e \in entries : Covers(e, p) /\ e.Type = type

LEMMA RegionsAreRanges ==
  ASSUME NEW r \in Regions
  PROVE  r.Start \in Nat /\ r.End \in Nat /\ r.Start <= r.End /\ r.Attribute \in Attributes
BY RegionAssumption DEF Attributes

LEMMA EntryFields ==
  ASSUME NEW e \in Entry
  PROVE  /\ e.Type \in MemoryTypes /\ e.Start \in Nat /\ e.End \in Nat /\ e.slot \in Nat
         /\ e.Attribute \in Attributes
BY DEF Entry, Attributes

\* A range that no entry overlaps is added to the map; the pages of the map keep their types.
LEMMA AddingKeepsSound ==
  ASSUME NEW m, IsMap(m),
         NEW R \in SUBSET Regions,
         NEW type \in MemoryTypes, NEW start \in Nat, NEW end \in Nat, start <= end,
         NEW attribute \in Attributes,
         SoundBut(m.entries, R, start, end, attribute)
  PROVE  /\ Sound(CoreAddRange(m, type, start, end, attribute).entries, R)
         /\ \A p \in start..end :
              OfType(CoreAddRange(m, type, start, end, attribute).entries, p, type)
         /\ \A p \in Nat : \A t : OfType(m.entries, p, t) =>
              OfType(CoreAddRange(m, type, start, end, attribute).entries, p, t)
<1> DEFINE M     == m.entries
           below == {e \in M : Mergeable(e, type, attribute) /\ e.End + 1 = start}
           above == {e \in M : Mergeable(e, type, attribute) /\ e.Start = end + 1}
           S     == IF below = {} THEN start ELSE (CHOOSE e \in below : TRUE).Start
           E     == IF above = {} THEN end ELSE (CHOOSE e \in above : TRUE).End
           new   == [Type |-> type, Attribute |-> attribute, slot |-> m.depth + 1,
                     Start |-> S, End |-> E]
           rest  == M \ (below \cup above)
           N     == rest \cup {new}
<1>0. CoreAddRange(m, type, start, end, attribute).entries = N
  BY DEF CoreAddRange, Adding, IsMap
<1>1. \A e \in M : e \in Entry /\ e.Start \in Nat /\ e.End \in Nat /\ e.Start <= e.End
  BY DEF SoundBut, Entry
<1>2. \A e, f \in M : e = f \/ e.End < f.Start \/ f.End < e.Start
  BY DEF SoundBut, EntriesDisjoint, Apart
<1>3. \A e \in below : below = {e} /\ e \in M
  <2> SUFFICES ASSUME NEW e \in below, NEW f \in below PROVE e = f
    OBVIOUS
  <2> QED BY <1>1, <1>2
<1>4. \A e \in above : above = {e} /\ e \in M
  <2> SUFFICES ASSUME NEW e \in above, NEW f \in above PROVE e = f
    OBVIOUS
  <2> QED BY <1>1, <1>2
<1>5. \/ below = {} /\ S = start
      \/ \E b \in below : below = {b} /\ S = b.Start /\ b \in M /\ b.End + 1 = start
                          /\ b.Type = type /\ b.Attribute = attribute
  <2>1. CASE below = {}
    BY <2>1
  <2>2. CASE below # {}
    <3>1. PICK b : b \in below
      BY <2>2
    <3>2. below = {b} /\ (CHOOSE e \in below : TRUE) = b
      BY <1>3, <3>1
    <3> QED BY <1>3, <3>1, <3>2, <2>2 DEF Mergeable
  <2> QED BY <2>1, <2>2
<1>6. \/ above = {} /\ E = end
      \/ \E a \in above : above = {a} /\ E = a.End /\ a \in M /\ a.Start = end + 1
                          /\ a.Type = type /\ a.Attribute = attribute
  <2>1. CASE above = {}
    BY <2>1
  <2>2. CASE above # {}
    <3>1. PICK a : a \in above
      BY <2>2
    <3>2. above = {a} /\ (CHOOSE e \in above : TRUE) = a
      BY <1>4, <3>1
    <3> QED BY <1>4, <3>1, <3>2, <2>2 DEF Mergeable
  <2> QED BY <2>1, <2>2
<1> HIDE DEF S, E
<1>7. S \in Nat /\ E \in Nat /\ S <= start /\ end <= E
  BY <1>1, <1>5, <1>6
<1>8. new \in Entry /\ new.Start = S /\ new.End = E /\ new.Type = type
      /\ new.Attribute = attribute
  BY <1>7 DEF Entry, Attributes, IsMap
<1>9. \A e \in rest : e \in M /\ (e.End < S \/ E < e.Start)
  <2> SUFFICES ASSUME NEW e \in rest PROVE e.End < S \/ E < e.Start
    OBVIOUS
  <2>1. e \in M /\ e \notin below /\ e \notin above /\ (e.End < start \/ end < e.Start)
    BY DEF SoundBut
  <2>2. e.End < start => e.End < S
    BY <1>1, <1>2, <1>5, <2>1
  <2>3. end < e.Start => E < e.Start
    BY <1>1, <1>2, <1>6, <2>1
  <2> QED BY <2>1, <2>2, <2>3
\* The pages of the new entry are the range and those of the merged entries.
<1>10. \A p \in S..E : p \in start..end \/ \E e \in M : Covers(e, p)
  <2> SUFFICES ASSUME NEW p \in S..E, p < start \/ end < p PROVE \E e \in M : Covers(e, p)
    BY <1>7
  <2>1. CASE p < start
    BY <1>1, <1>5, <1>7, <2>1 DEF Covers
  <2>2. CASE end < p
    BY <1>1, <1>6, <1>7, <2>2 DEF Covers
  <2> QED BY <2>1, <2>2
<1>11. \A e \in M \ rest : S <= e.Start /\ e.End <= E
  BY <1>1, <1>3, <1>4, <1>5, <1>6, <1>7
<1> HIDE DEF new, rest, below, above
<1>12. \A e \in rest : e # new
  BY <1>1, <1>7, <1>8, <1>9
<1>13. EntriesDisjoint(N)
  BY <1>2, <1>8, <1>9 DEF EntriesDisjoint, Apart
<1>14. AdjoiningMerged(N)
  <2> SUFFICES ASSUME NEW e \in N, NEW f \in N, e.End + 1 = f.Start,
                      e.Type = f.Type, e.Attribute = f.Attribute
               PROVE  FALSE
    BY DEF AdjoiningMerged
  <2>1. \A x, y \in M : x.End + 1 = y.Start => x.Type # y.Type \/ x.Attribute # y.Attribute
    BY DEF SoundBut, AdjoiningMerged
  <2>2. CASE e \in rest /\ f \in rest
    BY <2>1, <2>2, <1>9
  <2>3. CASE e = new /\ f = new
    BY <2>3, <1>7, <1>8
  <2>4. CASE e \in rest /\ f = new
    <3>1. e \in M /\ e.End + 1 = S /\ e.Type = type /\ e.Attribute = attribute
      BY <2>4, <1>8, <1>9
    <3>2. CASE below = {} /\ S = start
      BY <3>1, <3>2 DEF below, Mergeable
    <3>3. CASE below # {}
      BY <3>1, <3>3, <2>1, <1>5
    <3> QED BY <3>2, <3>3, <1>5
  <2>5. CASE e = new /\ f \in rest
    <3>1. f \in M /\ E + 1 = f.Start /\ f.Type = type /\ f.Attribute = attribute
      BY <2>5, <1>8, <1>9
    <3>2. CASE above = {} /\ E = end
      BY <3>1, <3>2, <1>1 DEF above, Mergeable
    <3>3. CASE above # {}
      BY <3>1, <3>3, <2>1, <1>6
    <3> QED BY <3>2, <3>3, <1>6
  <2> QED BY <2>2, <2>3, <2>4, <2>5
<1>15. CoversTheRegions(N, R)
  <2>1. ASSUME NEW e \in N, NEW p \in e.Start..e.End PROVE \E r \in R : Covers(r, p)
    <3>0. \A x \in M : \A q \in x.Start..x.End : \E r \in R : Covers(r, q)
      BY DEF SoundBut
    <3>1. CASE e \in rest
      BY <3>0, <3>1, <1>9
    <3>2. CASE e = new
      <4>1. CASE p \in start..end
        BY <4>1 DEF SoundBut
      <4>2. CASE \E x \in M : Covers(x, p)
        <5>1. PICK x \in M : Covers(x, p)
          BY <4>2
        <5>2. p \in x.Start..x.End
          BY <5>1, <1>1, <1>7, <1>8, <3>2 DEF Covers
        <5> QED BY <5>2, <3>0
      <4> QED BY <4>1, <4>2, <3>2, <1>8, <1>10
    <3> QED BY <3>1, <3>2
  <2>2. ASSUME NEW r \in R, NEW p \in r.Start..r.End PROVE \E e \in N : Covers(e, p)
    <3>0. p \in Int
      BY RegionsAreRanges
    <3>1. p \in start..end \/ \E e \in M : Covers(e, p)
      BY DEF SoundBut
    <3>2. CASE p \in start..end
      BY <3>2, <1>7, <1>8 DEF Covers
    <3>3. CASE \E e \in M : Covers(e, p)
      <4>1. PICK e \in M : Covers(e, p)
        BY <3>3
      <4>2. CASE e \in rest
        BY <4>1, <4>2
      <4>3. CASE e \notin rest
        BY <4>1, <4>3, <3>0, <1>1, <1>7, <1>8, <1>11 DEF Covers
      <4> QED BY <4>2, <4>3
    <3> QED BY <3>1, <3>2, <3>3
  <2> QED BY <2>1, <2>2 DEF CoversTheRegions
<1>16. AttributesKept(N, R)
  <2> SUFFICES ASSUME NEW e \in N, NEW r \in R, ~Apart(e, r) PROVE e.Attribute = r.Attribute
    BY DEF AttributesKept
  <2>0. \A x \in M : Apart(x, r) \/ x.Attribute = r.Attribute
    BY DEF SoundBut, AttributesKept
  <2>1. CASE e \in rest
    BY <2>0, <2>1, <1>9
  <2>2. CASE e = new
    <3>1. r.Start \in Nat /\ r.End \in Nat /\ r.Start <= E /\ S <= r.End
      BY <2>2, <1>7, <1>8, RegionsAreRanges DEF Apart
    <3>2. CASE r.Start <= end /\ start <= r.End
      BY <3>1, <3>2, <2>2, <1>8 DEF SoundBut
    <3>3. CASE r.End < start
      BY <3>1, <3>3, <2>0, <2>2, <1>1, <1>5, <1>8, RegionsAreRanges DEF Apart
    <3>4. CASE end < r.Start
      BY <3>1, <3>4, <2>0, <2>2, <1>1, <1>6, <1>8, RegionsAreRanges DEF Apart
    <3> QED BY <3>1, <3>2, <3>3, <3>4
  <2> QED BY <2>1, <2>2
<1>17. \A p \in start..end : OfType(N, p, type)
  <2> SUFFICES ASSUME NEW p \in start..end PROVE OfType(N, p, type)
    OBVIOUS
  <2>1. Covers(new, p) /\ new.Type = type /\ new \in N
    BY <1>7, <1>8 DEF Covers
  <2> QED BY <2>1 DEF OfType
<1>a. \A x \in M \ rest : x.Type = type
  <2> SUFFICES ASSUME NEW x \in M \ rest PROVE x.Type = type
    OBVIOUS
  <2>1. x \in below \/ x \in above
    BY DEF rest
  <2> QED BY <2>1 DEF Mergeable, below, above
<1>18. \A p \in Nat : \A t : OfType(M, p, t) => OfType(N, p, t)
  <2> SUFFICES ASSUME NEW p \in Nat, NEW t, NEW e \in M, Covers(e, p), e.Type = t
               PROVE  OfType(N, p, t)
    BY DEF OfType
  <2>1. CASE e \in rest
    BY <2>1 DEF OfType
  <2>2. CASE e \notin rest
    <3>1. e.Type = type
      BY <1>a, <2>2
    <3>2. Covers(new, p) /\ new.Type = type /\ new \in N
      BY <1>1, <1>7, <1>8, <1>11, <2>2 DEF Covers
    <3> QED BY <3>1, <3>2 DEF OfType
  <2> QED BY <2>1, <2>2
<1>19. Sound(N, R)
  BY <1>1, <1>7, <1>8, <1>9, <1>13, <1>14, <1>15, <1>16 DEF Sound
<1> HIDE DEF N
<1> QED BY <1>0, <1>17, <1>18, <1>19

LEMMA FromPagesIsNat ==
  ASSUME NEW M, IsFiniteSet(M)
  PROVE  FromPages(M) \in Nat
<1>1. IsFiniteSet({e \in M : e.slot = 0})
  BY FS_Subset
<1> QED BY <1>1, FS_CardinalityType DEF FromPages

\* CoreAddRange returns a map, with a new key.
LEMMA AddingIsMap ==
  ASSUME NEW m, IsMap(m), NEW type, NEW start, NEW end, NEW attribute
  PROVE  /\ IsMap(CoreAddRange(m, type, start, end, attribute))
         /\ CoreAddRange(m, type, start, end, attribute).key = m.key + 1
<1> DEFINE below == {e \in m.entries : Mergeable(e, type, attribute) /\ e.End + 1 = start}
           above == {e \in m.entries : Mergeable(e, type, attribute) /\ e.Start = end + 1}
           new   == [Type |-> type, Attribute |-> attribute, slot |-> m.depth + 1,
                     Start |-> IF below = {} THEN start ELSE (CHOOSE e \in below : TRUE).Start,
                     End   |-> IF above = {} THEN end ELSE (CHOOSE e \in above : TRUE).End]
           N     == (m.entries \ (below \cup above)) \cup {new}
<1>1. IsFiniteSet(m.entries \ (below \cup above)) /\ IsFiniteSet(below \cup above)
  BY FS_Subset DEF IsMap
<1>2. IsFiniteSet(N)
  BY <1>1, FS_AddElement
<1>3. FromPages(below \cup above) \in Nat
  BY <1>1, FromPagesIsNat
<1>4. CoreAddRange(m, type, start, end, attribute) =
        [entries |-> N, depth |-> m.depth + 1, free |-> m.free + FromPages(below \cup above),
         key |-> m.key + 1]
  <2> HIDE DEF new
  <2>1. Adding(m, type, start, end, attribute) =
          [m EXCEPT !.entries = N, !.depth = m.depth + 1,
                    !.free = m.free + FromPages(below \cup above)]
    BY DEF Adding, new, IsMap
  <2> HIDE DEF N, below, above
  <2>2. Adding(m, type, start, end, attribute) =
          [entries |-> N, depth |-> m.depth + 1,
           free |-> m.free + FromPages(below \cup above), key |-> m.key]
    BY <2>1 DEF IsMap
  <2>3. PICK A : A = Adding(m, type, start, end, attribute)
    OBVIOUS
  <2>4. A = [entries |-> N, depth |-> m.depth + 1,
             free |-> m.free + FromPages(below \cup above), key |-> m.key]
    BY <2>2, <2>3
  <2>5. CoreAddRange(m, type, start, end, attribute) = [A EXCEPT !.key = A.key + 1]
    BY <2>3 DEF CoreAddRange
  <2>6. A.key = m.key
    BY <2>4
  <2>7. [A EXCEPT !.key = m.key + 1] =
          [entries |-> N, depth |-> m.depth + 1,
           free |-> m.free + FromPages(below \cup above), key |-> m.key + 1]
    BY <2>4
  <2> QED BY <2>5, <2>6, <2>7
<1> HIDE DEF N, below, above
<1> QED BY <1>2, <1>3, <1>4 DEF IsMap

\* A range is pulled out of the entry that has it.
LEMMA ClippingLeavesSound ==
  ASSUME NEW m, IsMap(m), NEW R \in SUBSET Regions, Sound(m.entries, R),
         NEW e \in m.entries, NEW start \in Nat, NEW end \in Nat,
         e.Start <= start, start <= end, end <= e.End
  PROVE  /\ SoundBut(Clipped(m, e, start, end).entries, R, start, end, e.Attribute)
         /\ IsMap(Clipped(m, e, start, end))
         /\ Clipped(m, e, start, end).key = m.key
         /\ \A p \in Nat \ (start..end) : \A t : OfType(m.entries, p, t) =>
              OfType(Clipped(m, e, start, end).entries, p, t)
<1> DEFINE M     == m.entries
           lower == IF e.Start < start THEN {[e EXCEPT !.End = start - 1]} ELSE {}
           upper == IF end < e.End
                    THEN {[e EXCEPT !.Start = end + 1,
                                    !.slot = IF lower = {} THEN @ ELSE m.depth + 1]}
                    ELSE {}
           N     == (M \ {e}) \cup lower \cup upper
<1>1. \A x \in M : x \in Entry /\ x.Start \in Nat /\ x.End \in Nat /\ x.Start <= x.End
  BY DEF Sound, Entry
<1>2. \A x, y \in M : x = y \/ x.End < y.Start \/ y.End < x.Start
  BY DEF Sound, EntriesDisjoint, Apart
<1>3. \A x \in lower : /\ x \in Entry /\ x.Start = e.Start /\ x.End = start - 1
                       /\ x.Start <= x.End /\ x.Type = e.Type /\ x.Attribute = e.Attribute
                       /\ lower = {x} /\ x.End \in Nat
  <2> SUFFICES ASSUME e.Start < start,
                      NEW x, x = [e EXCEPT !.End = start - 1]
               PROVE  /\ x \in Entry /\ x.Start = e.Start /\ x.End = start - 1
                      /\ x.Start <= x.End /\ x.Type = e.Type /\ x.Attribute = e.Attribute
                      /\ x.End \in Nat
    OBVIOUS
  <2>1. e \in Entry /\ start - 1 \in Nat
    BY <1>1
  <2> QED BY <2>1 DEF Entry
<1> DEFINE slot == IF lower = {} THEN e.slot ELSE m.depth + 1
<1>s. slot \in Nat
  <2>1. m.depth \in Nat /\ m.depth + 1 \in Nat
    BY DEF IsMap
  <2>2. e.slot \in Nat
    BY <1>1, EntryFields
  <2> QED BY <2>1, <2>2
<1>4. \A x \in upper : /\ x \in Entry /\ x.Start = end + 1 /\ x.End = e.End
                       /\ x.Start <= x.End /\ x.Type = e.Type /\ x.Attribute = e.Attribute
                       /\ upper = {x} /\ x.Start \in Nat
  <2> SUFFICES ASSUME NEW x \in upper
               PROVE  /\ x \in Entry /\ x.Start = end + 1 /\ x.End = e.End
                      /\ x.Start <= x.End /\ x.Type = e.Type /\ x.Attribute = e.Attribute
                      /\ upper = {x} /\ x.Start \in Nat
    OBVIOUS
  <2>1. e \in Entry /\ end + 1 \in Nat /\ e.End \in Nat
    BY <1>1
  <2>2. end < e.End /\ x = [e EXCEPT !.Start = end + 1, !.slot = slot] /\ upper = {x}
    OBVIOUS
  <2> HIDE DEF upper
  <2>3. PICK s \in Nat : x = [e EXCEPT !.Start = end + 1, !.slot = s]
    BY <1>s, <2>2
  <2>4. x \in Entry
    BY <2>1, <2>3 DEF Entry
  <2>5. x.Start = end + 1
    BY <2>1, <2>3 DEF Entry
  <2>6. x.End = e.End /\ x.Type = e.Type /\ x.Attribute = e.Attribute
    BY <2>1, <2>3 DEF Entry
  <2>7. x.Start <= x.End
    <3> HIDE DEF slot, lower
    <3>1. end + 1 <= e.End
      BY <2>1, <2>2
    <3> QED BY <3>1, <2>5, <2>6
  <2> QED BY <2>1, <2>2, <2>4, <2>5, <2>6, <2>7
<1>5. (lower = {} <=> e.Start = start) /\ (upper = {} <=> end = e.End)
  <2>1. e.Start \in Nat /\ e.End \in Nat
    BY <1>1
  <2>2. lower = {} <=> ~(e.Start < start)
    OBVIOUS
  <2>3. upper = {} <=> ~(end < e.End)
    OBVIOUS
  <2> HIDE DEF lower, upper
  <2> QED BY <2>1, <2>2, <2>3
<1>6. Clipped(m, e, start, end) =
        [entries |-> N, depth |-> IF lower # {} /\ upper # {} THEN m.depth + 1 ELSE m.depth,
         free |-> IF lower = {} /\ upper = {} THEN m.free + FromPages({e}) ELSE m.free,
         key |-> m.key]
  <2> HIDE DEF lower
  <2>1. Clipped(m, e, start, end) =
         [m EXCEPT !.entries = N, !.depth = IF lower # {} /\ upper # {} THEN m.depth + 1 ELSE m.depth,
                   !.free = IF lower = {} /\ upper = {} THEN m.free + FromPages({e}) ELSE m.free]
    BY DEF Clipped, lower, IsMap
  <2> HIDE DEF upper, N
  <2> QED BY <2>1 DEF IsMap
<1> HIDE DEF lower, upper
<1>7. IsMap(Clipped(m, e, start, end)) /\ Clipped(m, e, start, end).key = m.key
  <2>1. IsFiniteSet(lower) /\ IsFiniteSet(upper) /\ IsFiniteSet({e})
    BY FS_Singleton, FS_EmptySet DEF lower, upper
  <2>2. IsFiniteSet(M \ {e})
    BY FS_Subset DEF IsMap
  <2>3. IsFiniteSet(N)
    BY <2>1, <2>2, FS_Union
  <2>4. FromPages({e}) \in Nat
    BY <2>1, FromPagesIsNat
  <2> HIDE DEF N
  <2> QED BY <1>6, <2>3, <2>4 DEF IsMap
<1>8. \A x \in N : \/ x \in M /\ x # e
                   \/ x \in lower
                   \/ x \in upper
  OBVIOUS
<1> HIDE DEF N
<1>9. \A x \in N : /\ x \in Entry /\ x.Start \in Nat /\ x.End \in Nat /\ x.Start <= x.End
                   /\ x.End < start \/ end < x.Start
  BY <1>1, <1>2, <1>3, <1>4, <1>8
<1>10. EntriesDisjoint(N)
  <2> SUFFICES ASSUME NEW x \in N, NEW y \in N, x # y
               PROVE  x.End < y.Start \/ y.End < x.Start
    BY DEF EntriesDisjoint, Apart
  <2> QED BY <1>1, <1>2, <1>3, <1>4, <1>8
<1>11. AdjoiningMerged(N)
  <2> SUFFICES ASSUME NEW x \in N, NEW y \in N, x.End + 1 = y.Start
               PROVE  x.Type # y.Type \/ x.Attribute # y.Attribute
    BY DEF AdjoiningMerged
  <2>0. \A v, w \in M : v.End + 1 = w.Start => v.Type # w.Type \/ v.Attribute # w.Attribute
    BY DEF Sound, AdjoiningMerged
  <2>1. CASE x \in M /\ x # e
    BY <2>0, <2>1, <1>1, <1>2, <1>3, <1>4, <1>8
  <2>2. CASE x \in lower
    BY <2>0, <2>2, <1>1, <1>2, <1>3, <1>4, <1>8
  <2>3. CASE x \in upper
    BY <2>0, <2>3, <1>1, <1>2, <1>3, <1>4, <1>8
  <2> QED BY <2>1, <2>2, <2>3, <1>8
<1>12. AttributesKept(N, R)
  <2> SUFFICES ASSUME NEW x \in N, NEW r \in R
               PROVE  Apart(x, r) \/ x.Attribute = r.Attribute
    BY DEF AttributesKept
  <2>1. \A y \in M : y.End < r.Start \/ r.End < y.Start \/ y.Attribute = r.Attribute
    BY DEF Sound, AttributesKept, Apart
  <2>2. r.Start \in Nat /\ r.End \in Nat
    BY RegionsAreRanges
  <2> QED BY <2>1, <2>2, <1>1, <1>3, <1>4, <1>8 DEF Apart
<1>13. \A p \in e.Start..e.End : \E r \in R : Covers(r, p)
  BY DEF Sound, CoversTheRegions
<1>14. \A x \in N : \A p \in x.Start..x.End : \E r \in R : Covers(r, p)
  <2> SUFFICES ASSUME NEW x \in N, NEW p \in x.Start..x.End PROVE \E r \in R : Covers(r, p)
    OBVIOUS
  <2>1. CASE x \in M /\ x # e
    BY <2>1 DEF Sound, CoversTheRegions
  <2>2. CASE x \notin M \/ x = e
    <3>1. x \in lower \/ x \in upper
      BY <2>2, <1>8
    <3>2. p \in e.Start..e.End
      BY <3>1, <1>1, <1>3, <1>4
    <3> QED BY <3>2, <1>13
  <2> QED BY <2>1, <2>2
<1>15. \A r \in R : \A p \in r.Start..r.End : p \in start..end \/ \E x \in N : Covers(x, p)
  <2> SUFFICES ASSUME NEW r \in R, NEW p \in r.Start..r.End, p < start \/ end < p
               PROVE  \E x \in N : Covers(x, p)
    BY RegionsAreRanges
  <2>0. p \in Int
    BY RegionsAreRanges
  <2>1. PICK x \in M : Covers(x, p)
    BY DEF Sound, CoversTheRegions
  <2>2. CASE x # e
    BY <2>1, <2>2 DEF N
  <2>3. CASE x = e /\ p < start
    <3>1. lower # {}
      BY <2>0, <2>1, <2>3, <1>1, <1>5 DEF Covers
    <3>2. PICK y : y \in lower
      BY <3>1
    <3>3. y \in N /\ Covers(y, p)
      BY <2>0, <2>1, <2>3, <3>2, <1>1, <1>3 DEF Covers, N
    <3> QED BY <3>3
  <2>4. CASE x = e /\ end < p
    <3>1. upper # {}
      BY <2>0, <2>1, <2>4, <1>1, <1>5 DEF Covers
    <3>2. PICK y : y \in upper
      BY <3>1
    <3>3. y \in N /\ Covers(y, p)
      BY <2>0, <2>1, <2>4, <3>2, <1>1, <1>4 DEF Covers, N
    <3> QED BY <3>3
  <2> QED BY <2>2, <2>3, <2>4
<1>16. \A r \in R : r.End < start \/ end < r.Start \/ e.Attribute = r.Attribute
  <2> SUFFICES ASSUME NEW r \in R PROVE r.End < start \/ end < r.Start \/ e.Attribute = r.Attribute
    OBVIOUS
  <2>1. e.End < r.Start \/ r.End < e.Start \/ e.Attribute = r.Attribute
    BY DEF Sound, AttributesKept, Apart
  <2> QED BY <2>1, <1>1, RegionsAreRanges
<1>17. \A p \in start..end : \E r \in R : Covers(r, p)
  BY <1>1, <1>13
<1>18. Clipped(m, e, start, end).entries = N
  BY <1>6
<1>s1. M \ {e} \subseteq N /\ lower \subseteq N /\ upper \subseteq N
  BY DEF N
<1>s2. (e.Start < start => lower # {}) /\ (end < e.End => upper # {})
  BY <1>1, <1>5
<1>19. \A p \in Nat \ (start..end) : \A t : OfType(M, p, t) => OfType(N, p, t)
  <2> HIDE DEF N, M
  <2> SUFFICES ASSUME NEW p \in Nat \ (start..end), NEW t,
                      NEW x \in M, Covers(x, p), x.Type = t
               PROVE  \E y \in N : Covers(y, p) /\ y.Type = t
    BY DEF OfType
  <2>0. x.Start <= p /\ p <= x.End /\ (p < start \/ end < p) /\ e \in M
    BY DEF Covers, M
  <2>1. CASE x # e
    BY <1>s1, <2>1
  <2>2. CASE x = e /\ p < start
    <3>1. PICK l : l \in lower
      BY <1>1, <1>s2, <2>0, <2>2
    <3>2. l \in N /\ l.Type = t /\ l.Start = e.Start /\ l.End = start - 1
      BY <1>3, <1>s1, <2>2, <3>1
    <3>3. Covers(l, p)
      BY <2>0, <2>2, <3>2 DEF Covers
    <3> QED BY <3>2, <3>3
  <2>3. CASE x = e /\ end < p
    <3>1. PICK u : u \in upper
      BY <1>1, <1>s2, <2>0, <2>3
    <3>2. u \in N /\ u.Type = t /\ u.Start = end + 1 /\ u.End = e.End
      BY <1>4, <1>s1, <2>3, <3>1
    <3>3. Covers(u, p)
      BY <2>0, <2>3, <3>2 DEF Covers
    <3> QED BY <3>2, <3>3
  <2> QED BY <2>0, <2>1, <2>2, <2>3
<1>20. SoundBut(N, R, start, end, e.Attribute)
  BY <1>9, <1>10, <1>11, <1>12, <1>14, <1>15, <1>16, <1>17 DEF SoundBut
<1> HIDE DEF N
<1> QED BY <1>7, <1>18, <1>19, <1>20

\* A region that is not in the map yet is a free range.
LEMMA NewRegionIsFree ==
  ASSUME NEW M, NEW R \in SUBSET Regions, Sound(M, R), NEW r \in Regions, r \notin R
  PROVE  SoundBut(M, R \cup {r}, r.Start, r.End, r.Attribute)
<1>1. r.Start \in Nat /\ r.End \in Nat /\ r.Start <= r.End
  BY RegionsAreRanges
<1>2. \A e \in M : e.Start \in Nat /\ e.End \in Nat /\ e.Start <= e.End
  BY DEF Sound, Entry
<1>3. \A s \in R : s.Start \in Nat /\ s.End \in Nat /\ (s.End < r.Start \/ r.End < s.Start)
  BY RegionAssumption
<1>4. \A e \in M : e.End < r.Start \/ r.End < e.Start
  <2> SUFFICES ASSUME NEW e \in M, r.Start <= e.End, e.Start <= r.End PROVE FALSE
    BY <1>1, <1>2
  <2> DEFINE p == IF e.Start <= r.Start THEN r.Start ELSE e.Start
  <2>1. p \in e.Start..e.End /\ r.Start <= p /\ p <= r.End
    BY <1>1, <1>2
  <2>2. PICK s \in R : Covers(s, p)
    BY <2>1 DEF Sound, CoversTheRegions
  <2>3. s.Start <= p /\ p <= s.End
    BY <2>2 DEF Covers
  <2> HIDE DEF p
  <2>4. p \in Nat
    BY <1>2, <2>1
  <2> QED BY <1>1, <1>3, <2>1, <2>3, <2>4
<1>5. \A e \in M : Apart(e, r)
  BY <1>4 DEF Apart
<1>6. AttributesKept(M, R \cup {r})
  BY <1>5 DEF Sound, AttributesKept
<1>7. \A e \in M : \A p \in e.Start..e.End : \E s \in R \cup {r} : Covers(s, p)
  BY DEF Sound, CoversTheRegions
<1>8. \A p \in r.Start..r.End : \E s \in R \cup {r} : Covers(s, p)
  BY <1>1 DEF Covers
<1>9. \A s \in R \cup {r} : \A p \in s.Start..s.End :
        p \in r.Start..r.End \/ \E e \in M : Covers(e, p)
  BY DEF Sound, CoversTheRegions
<1>10. \A s \in R \cup {r} : s.End < r.Start \/ r.End < s.Start \/ r.Attribute = s.Attribute
  BY <1>3
<1> QED BY <1>4, <1>6, <1>7, <1>8, <1>9, <1>10 DEF Sound, SoundBut

\* One round of CoreConvertPages keeps the map sound and makes a new key.
LEMMA ConvertingKeepsSound ==
  ASSUME NEW m, IsMap(m), NEW R \in SUBSET Regions, Sound(m.entries, R),
         NEW e \in m.entries, NEW start \in Nat, NEW end \in Nat,
         e.Start <= start, start <= end, end <= e.End, NEW type \in MemoryTypes
  PROVE  /\ Sound(ConvertRange(m, e, start, end, type).entries, R)
         /\ IsMap(ConvertRange(m, e, start, end, type))
         /\ ConvertRange(m, e, start, end, type).key = m.key + 1
         /\ \A p \in start..end : OfType(ConvertRange(m, e, start, end, type).entries, p, type)
         /\ \A p \in Nat \ (start..end) : \A t : OfType(m.entries, p, t) =>
              OfType(ConvertRange(m, e, start, end, type).entries, p, t)
<1>1. PICK c : c = Clipped(m, e, start, end)
  OBVIOUS
<1>2. /\ IsMap(c) /\ c.key = m.key /\ SoundBut(c.entries, R, start, end, e.Attribute)
      /\ \A p \in Nat \ (start..end) : \A t : OfType(m.entries, p, t) => OfType(c.entries, p, t)
  BY <1>1, ClippingLeavesSound
<1>3. e.Attribute \in Attributes
  BY EntryFields DEF Sound
<1>4. /\ Sound(CoreAddRange(c, type, start, end, e.Attribute).entries, R)
      /\ \A p \in start..end :
           OfType(CoreAddRange(c, type, start, end, e.Attribute).entries, p, type)
      /\ \A p \in Nat : \A t : OfType(c.entries, p, t) =>
           OfType(CoreAddRange(c, type, start, end, e.Attribute).entries, p, t)
  BY <1>2, <1>3, AddingKeepsSound
<1>5. /\ IsMap(CoreAddRange(c, type, start, end, e.Attribute))
      /\ CoreAddRange(c, type, start, end, e.Attribute).key = c.key + 1
  BY <1>2, AddingIsMap
<1> QED BY <1>1, <1>2, <1>4, <1>5 DEF ConvertRange
-----------------------------------------------------------------------------
(* The inductive invariant.                                                *)

MapInv ==
  /\ Sound(gMemoryMap, regions) /\ IsFiniteSet(gMemoryMap) /\ regions \subseteq Regions
  /\ mMapDepth \in Nat /\ mFreeMemoryMapEntries \in Nat /\ mMemoryMapKey \in Nat

\* The state that is not the map: what TypeOK says of it.
CallInv ==
  /\ backing \subseteq Pages
  /\ blocks \subseteq [Start : Nat, End : Nat, Type : MemoryTypes]
  /\ loader = None \/ loader \in [copied : Nat, MapKey : Nat \cup {None}]
  /\ \/ pc \in {"Idle", "Exited", "Asserted"}
     \/ pc \in {"Find", "Promote"} /\ call \in FindCall
     \/ pc = "Convert" /\ call \in ConvertCall
     \/ /\ pc \in {"FreeStack", "PromoteMore"}
        /\ call \in ConvertCall \cup AddCall \cup {c \in FindCall : c.next = "Promote"}

IInv == MapInv /\ CallInv

LEMMA InvariantImplies == IInv => TypeOK /\ MapSound
BY DEF IInv, MapInv, CallInv, TypeOK, MapSound, Sound

LEMMA InvariantInitially == Init => IInv
<1> SUFFICES ASSUME Init PROVE IInv
  OBVIOUS
<1>1. Sound({}, {})
  BY DEF Sound, EntriesDisjoint, AdjoiningMerged, CoversTheRegions, AttributesKept
<1>2. MapInv
  BY <1>1, FS_EmptySet DEF Init, MapInv
<1>3. CallInv
  BY DEF Init, CallInv
<1> QED BY <1>2, <1>3 DEF IInv

LEMMA MapIsMap ==
  ASSUME MapInv
  PROVE  IsMap(Map) /\ Map.entries = gMemoryMap /\ Map.key = mMemoryMapKey
BY DEF MapInv, IsMap, Map

LEMMA InstallSets ==
  ASSUME NEW m, Install(m)
  PROVE  /\ gMemoryMap' = m.entries /\ mMapDepth' = m.depth
         /\ mFreeMemoryMapEntries' = m.free /\ mMemoryMapKey' = m.key
BY DEF Install

\* A new region: CoreAddMemoryDescriptor and PromoteMemoryResource.
LEMMA RegionAdded ==
  ASSUME MapInv, NEW r \in Regions, r \notin regions,
         Install(CoreAddRange(Map, EfiConventionalMemory, r.Start, r.End, r.Attribute)),
         regions' = regions \cup {r}
  PROVE  /\ MapInv' /\ mMemoryMapKey' = mMemoryMapKey + 1
         /\ \A p \in Nat : \A t : OfType(gMemoryMap, p, t) => OfType(gMemoryMap', p, t)
<1>1. PICK m : m = CoreAddRange(Map, EfiConventionalMemory, r.Start, r.End, r.Attribute)
  OBVIOUS
<1>2. r.Start \in Nat /\ r.End \in Nat /\ r.Start <= r.End /\ r.Attribute \in Attributes
  BY RegionsAreRanges
<1>3. regions \cup {r} \in SUBSET Regions /\ EfiConventionalMemory \in MemoryTypes
  BY DEF MapInv, MemoryTypes
<1>4. SoundBut(gMemoryMap, regions \cup {r}, r.Start, r.End, r.Attribute)
  BY NewRegionIsFree DEF MapInv
<1>5. /\ Sound(m.entries, regions \cup {r})
      /\ \A p \in Nat : \A t : OfType(gMemoryMap, p, t) => OfType(m.entries, p, t)
  <2>1. PICK k : k = Map
    OBVIOUS
  <2>2. IsMap(k) /\ k.entries = gMemoryMap
    BY <2>1, MapIsMap
  <2>3. /\ Sound(CoreAddRange(k, EfiConventionalMemory, r.Start, r.End, r.Attribute).entries,
                  regions \cup {r})
        /\ \A p \in Nat : \A t : OfType(k.entries, p, t) =>
             OfType(CoreAddRange(k, EfiConventionalMemory, r.Start, r.End, r.Attribute).entries, p, t)
    BY <1>2, <1>3, <1>4, <2>2, AddingKeepsSound
  <2> QED BY <1>1, <2>1, <2>2, <2>3
<1>6. IsMap(m) /\ m.key = mMemoryMapKey + 1
  BY <1>1, MapIsMap, AddingIsMap
<1>7. /\ gMemoryMap' = m.entries /\ mMapDepth' = m.depth
      /\ mFreeMemoryMapEntries' = m.free /\ mMemoryMapKey' = m.key
  BY <1>1, InstallSets
<1>8. MapInv'
  BY <1>3, <1>5, <1>6, <1>7 DEF MapInv, IsMap
<1> QED BY <1>5, <1>6, <1>7, <1>8

\* A conversion, of CoreConvertPages or for a page of entries (which then are free).
LEMMA RangeConverted ==
  ASSUME MapInv, NEW e \in gMemoryMap, NEW start \in Nat, NEW end \in Nat,
         e.Start <= start, start <= end, end <= e.End, NEW type \in MemoryTypes,
         NEW m, m = ConvertRange(Map, e, start, end, type),
         gMemoryMap' = m.entries, mMapDepth' = m.depth, mMemoryMapKey' = m.key,
         \/ mFreeMemoryMapEntries' = m.free
         \/ mFreeMemoryMapEntries' = m.free + EntriesPerPage,
         regions' = regions
  PROVE  /\ MapInv' /\ mMemoryMapKey' = mMemoryMapKey + 1
         /\ \A p \in start..end : OfType(gMemoryMap', p, type)
         /\ \A p \in Nat \ (start..end) : \A t : OfType(gMemoryMap, p, t) => OfType(gMemoryMap', p, t)
<1>1. PICK k : k = Map
  OBVIOUS
<1>2. IsMap(k) /\ k.entries = gMemoryMap /\ k.key = mMemoryMapKey
  BY <1>1, MapIsMap
<1>3. Sound(k.entries, regions) /\ regions \in SUBSET Regions /\ e \in k.entries
  BY <1>2 DEF MapInv
<1>4. m = ConvertRange(k, e, start, end, type)
  BY <1>1
<1>5. /\ Sound(ConvertRange(k, e, start, end, type).entries, regions)
      /\ IsMap(ConvertRange(k, e, start, end, type))
      /\ ConvertRange(k, e, start, end, type).key = k.key + 1
      /\ \A p \in start..end : OfType(ConvertRange(k, e, start, end, type).entries, p, type)
      /\ \A p \in Nat \ (start..end) : \A t : OfType(k.entries, p, t) =>
           OfType(ConvertRange(k, e, start, end, type).entries, p, t)
  BY <1>2, <1>3, ConvertingKeepsSound
<1>6. MapInv' /\ mMemoryMapKey' = mMemoryMapKey + 1
  BY <1>2, <1>3, <1>4, <1>5, EntryAssumption DEF MapInv, IsMap
<1> QED BY <1>2, <1>4, <1>5, <1>6

\* What a step does to the map: nothing, or a sound change with a new key, or only the
\* places of the entries change.
MapStep ==
  /\ MapInv'
  /\ Visible' = Visible \/ mMemoryMapKey' = mMemoryMapKey + 1

LEMMA SameMap ==
  ASSUME MapInv, UNCHANGED <<map, regions>>
  PROVE  MapStep
BY DEF MapInv, MapStep, map, Visible

\* An entry that moves to pool memory stays what it is.
LEMMA MovingKeepsMap ==
  ASSUME MapInv, MoveEntry
  PROVE  /\ MapStep
         /\ \A p \in Nat : \A t : OfType(gMemoryMap, p, t) => OfType(gMemoryMap', p, t)
<1> DEFINE top  == {e \in gMemoryMap : e.slot = mMapDepth}
           In(e) == IF e \in top THEN [e EXCEPT !.slot = 0] ELSE e
<1>1. gMemoryMap' = (gMemoryMap \ top) \cup {[e EXCEPT !.slot = 0] : e \in top}
  BY DEF MoveEntry
<1>2. gMemoryMap' = {In(e) : e \in gMemoryMap}
  BY <1>1
<1>3. \A e \in gMemoryMap :
        /\ In(e) \in Entry /\ In(e).Type = e.Type /\ In(e).Attribute = e.Attribute
        /\ In(e).Start = e.Start /\ In(e).End = e.End /\ e.Start <= e.End
  <2> SUFFICES ASSUME NEW e \in gMemoryMap
               PROVE  /\ In(e) \in Entry /\ In(e).Type = e.Type
                      /\ In(e).Attribute = e.Attribute
                      /\ In(e).Start = e.Start /\ In(e).End = e.End /\ e.Start <= e.End
    OBVIOUS
  <2>1. e \in Entry /\ e.Start <= e.End
    BY DEF MapInv, Sound
  <2>2. PICK f : f = [e EXCEPT !.slot = 0]
    OBVIOUS
  <2>3. f \in Entry /\ f.Type = e.Type /\ f.Attribute = e.Attribute /\ f.Start = e.Start
        /\ f.End = e.End
    BY <2>1, <2>2 DEF Entry
  <2>4. In(e) = f \/ In(e) = e
    BY <2>2
  <2> HIDE DEF In
  <2> QED BY <2>1, <2>3, <2>4
<1> HIDE DEF In, top
<1>4. IsFiniteSet(gMemoryMap')
  <2>1. PICK f : f = [e \in gMemoryMap |-> In(e)]
    OBVIOUS
  <2>2. f \in Surjection(gMemoryMap, gMemoryMap')
    BY <1>2, <2>1 DEF Surjection
  <2> QED BY <2>2, FS_Surjection DEF MapInv
<1>5. EntriesDisjoint(gMemoryMap')
  BY <1>2, <1>3 DEF MapInv, Sound, EntriesDisjoint, Apart
<1>6. AdjoiningMerged(gMemoryMap')
  BY <1>2, <1>3 DEF MapInv, Sound, AdjoiningMerged
<1>7. CoversTheRegions(gMemoryMap', regions)
  BY <1>2, <1>3 DEF MapInv, Sound, CoversTheRegions, Covers
<1>8. AttributesKept(gMemoryMap', regions)
  BY <1>2, <1>3 DEF MapInv, Sound, AttributesKept, Apart
<1>9. gMemoryMap' \subseteq Entry /\ \A e \in gMemoryMap' : e.Start <= e.End
  BY <1>2, <1>3
<1>10. Sound(gMemoryMap', regions)
  BY <1>5, <1>6, <1>7, <1>8, <1>9 DEF Sound
<1>11. /\ mMapDepth' \in Nat /\ mFreeMemoryMapEntries' \in Nat
       /\ mMemoryMapKey' = mMemoryMapKey /\ regions' = regions
  BY DEF MoveEntry, EntriesLeft, MapInv
<1>12. MapInv'
  BY <1>4, <1>10, <1>11 DEF MapInv
<1>13. Visible' = Visible
  <2> DEFINE V(e) == [Type |-> e.Type, Start |-> e.Start, End |-> e.End,
                      Attribute |-> e.Attribute]
  <2>1. Visible' = {V(e) : e \in gMemoryMap'} /\ Visible = {V(e) : e \in gMemoryMap}
    BY DEF Visible
  <2>2. \A e \in gMemoryMap : V(In(e)) = V(e)
    BY <1>3
  <2> HIDE DEF V
  <2> QED BY <1>2, <2>1, <2>2
<1>14. \A p \in Nat : \A t : OfType(gMemoryMap, p, t) => OfType(gMemoryMap', p, t)
  BY <1>2, <1>3 DEF OfType, Covers
<1> QED BY <1>12, <1>13, <1>14 DEF MapStep

\* A finite set of numbers has a largest.
LEMMA LargestExists ==
  ASSUME NEW S \in SUBSET Nat, S # {}, IsFiniteSet(S)
  PROVE  \E x \in S : \A y \in S : x >= y
<1> DEFINE From(x) == {y \in S : x <= y}
           T       == {From(x) : x \in S}
<1>1. IsWellFoundedOn(StrictSubsetOrdering(S), SUBSET S)
  BY FS_StrictSubsetOrderingWellFounded, FS_FiniteSubsetsOfFinite
<1>2. T \subseteq SUBSET S /\ T # {}
  OBVIOUS
<1>3. PICK x \in S : \A t \in T : <<t, From(x)>> \notin StrictSubsetOrdering(S)
  <2>1. PICK t \in T : \A u \in T : <<u, t>> \notin StrictSubsetOrdering(S)
    BY <1>1, <1>2, WFMin
  <2> QED BY <2>1
<1>4. ASSUME NEW y \in S, ~(x >= y) PROVE FALSE
  <2>1. x \in Nat /\ y \in Nat /\ x < y
    BY <1>4
  <2>2. From(y) \subseteq From(x) /\ x \in From(x) /\ x \notin From(y)
    <3>1. \A z \in S : z \in Nat
      OBVIOUS
    <3>2. \A z \in S : y <= z => x <= z
      BY <2>1, <3>1
    <3>3. x <= x /\ ~(y <= x)
      BY <2>1
    <3>4. From(y) \subseteq From(x)
      BY <3>2
    <3>5. x \in From(x)
      BY <3>3, Zenon
    <3>6. x \notin From(y)
      BY <3>3, Zenon
    <3> QED BY <3>4, <3>5, <3>6
  <2>3. From(y) \in T /\ From(y) \in SUBSET S /\ From(x) \in SUBSET S
    OBVIOUS
  <2> HIDE DEF From, T
  <2>4. <<From(y), From(x)>> \in StrictSubsetOrdering(S)
    BY <2>2, <2>3 DEF StrictSubsetOrdering
  <2> QED BY <1>3, <2>3, <2>4
<1> QED BY <1>4

\* The addresses end somewhere: a finite set of regions has a last page.
LEMMA LastPageIsNat == LastPage \in Nat /\ \A r \in Regions : r.End <= LastPage
<1> DEFINE S == {r.End : r \in Regions}
<1>1. S \subseteq Nat /\ S # {}
  BY RegionAssumption DEF Regions
<1>2. IsFiniteSet(S)
  <2>1. PICK f : f = [r \in Regions |-> r.End]
    OBVIOUS
  <2>2. f \in Surjection(Regions, S)
    BY <2>1 DEF Surjection
  <2> QED BY <2>2, FS_Surjection, RegionAssumption
<1>3. LastPage = CHOOSE x \in S : \A y \in S : x >= y
  BY DEF LastPage, Max
<1>4. \A r \in Regions : r.End \in S
  OBVIOUS
<1> HIDE DEF S
<1>5. LastPage \in S /\ \A y \in S : LastPage >= y
  BY <1>1, <1>2, <1>3, LargestExists
<1> QED BY <1>1, <1>4, <1>5

\* One round of CoreConvertPages.
LEMMA PagesConverted ==
  ASSUME IInv, CoreConvertPages
  PROVE  /\ MapInv' /\ mMemoryMapKey' = mMemoryMapKey + 1
         /\ \E e \in gMemoryMap, end \in Nat :
              /\ e.Start <= call.Start /\ call.Start <= end /\ end <= e.End /\ end <= call.End
              /\ Compatible(e, call.Type)
              /\ call' = [call EXCEPT !.Start = end + 1]
              /\ \A p \in call.Start..end : OfType(gMemoryMap', p, call.Type)
              /\ \A p \in Nat \ (call.Start..end) : \A t :
                   OfType(gMemoryMap, p, t) => OfType(gMemoryMap', p, t)
<1> USE DEF IInv
<1>1. call \in ConvertCall
  BY DEF CoreConvertPages, CallInv
<1>2. call.Start \in Nat /\ call.End \in Nat /\ call.Type \in MemoryTypes
      /\ call.Start <= call.End
  BY <1>1 DEF CoreConvertPages, ConvertCall
<1>3. PICK e \in gMemoryMap :
        /\ Covers(e, call.Start) /\ Compatible(e, call.Type)
        /\ Install(ConvertRange(Map, e, call.Start,
                     IF e.End < call.End THEN e.End ELSE call.End, call.Type))
        /\ call' = [call EXCEPT !.Start = (IF e.End < call.End THEN e.End ELSE call.End) + 1]
  BY DEF CoreConvertPages
<1>4. e.Start \in Nat /\ e.End \in Nat /\ e.Start <= call.Start /\ call.Start <= e.End
  BY <1>3 DEF MapInv, Sound, Entry, Covers
<1>5. PICK end \in Nat : /\ end = IF e.End < call.End THEN e.End ELSE call.End
                         /\ call.Start <= end /\ end <= e.End /\ end <= call.End
  BY <1>2, <1>4
<1>6. PICK m : m = ConvertRange(Map, e, call.Start, end, call.Type)
  OBVIOUS
<1>7. /\ gMemoryMap' = m.entries /\ mMapDepth' = m.depth
      /\ mFreeMemoryMapEntries' = m.free /\ mMemoryMapKey' = m.key
  BY <1>3, <1>5, <1>6, InstallSets
<1>8. regions' = regions
  BY DEF CoreConvertPages
<1>9. /\ MapInv' /\ mMemoryMapKey' = mMemoryMapKey + 1
      /\ \A p \in call.Start..end : OfType(gMemoryMap', p, call.Type)
      /\ \A p \in Nat \ (call.Start..end) : \A t :
           OfType(gMemoryMap, p, t) => OfType(gMemoryMap', p, t)
  BY <1>2, <1>4, <1>5, <1>6, <1>7, <1>8, RangeConverted
<1> QED BY <1>3, <1>4, <1>5, <1>9

\* A page of entries is taken out of the map.
LEMMA EntryPageConverted ==
  ASSUME IInv, NEW start, NEW e \in gMemoryMap, AllocateMemoryMapEntry(start, e)
  PROVE  /\ MapInv' /\ mMemoryMapKey' = mMemoryMapKey + 1
         /\ start \in Nat /\ OfType(gMemoryMap, start, EfiConventionalMemory)
         /\ OfType(gMemoryMap', start, EfiBootServicesData)
         /\ \A p \in Nat \ {start} : \A t : OfType(gMemoryMap, p, t) => OfType(gMemoryMap', p, t)
<1> USE DEF IInv
<1>1. PICK f \in gMemoryMap :
        LET last == IF f.End <= LastPage THEN f.End ELSE LastPage
        IN  /\ f.Type = EfiConventionalMemory
            /\ last + 1 >= f.Start + 1 /\ start = last + 1 - 1
  BY MapIsMap DEF AllocateMemoryMapEntry, CoreFindFreePagesI
<1>2. f.Start \in Nat /\ f.End \in Nat
  BY DEF MapInv, Sound, Entry
<1>3. start \in Nat /\ f.Start <= start /\ start <= f.End
  BY <1>1, <1>2, LastPageIsNat
<1>4. OfType(gMemoryMap, start, EfiConventionalMemory)
  BY <1>1, <1>3 DEF OfType, Covers
<1>5. e.Start \in Nat /\ e.End \in Nat /\ e.Start <= start /\ start <= e.End
  BY DEF AllocateMemoryMapEntry, MapInv, Sound, Entry, Covers
<1>6. PICK m : m = ConvertRange(Map, e, start, start, EfiBootServicesData)
  OBVIOUS
<1>7. EfiBootServicesData \in MemoryTypes
  BY DEF MemoryTypes
<1>8. IsMap(m)
  <2>1. PICK k : k = Map
    OBVIOUS
  <2>2. IsMap(k) /\ k.entries = gMemoryMap
    BY <2>1, MapIsMap
  <2> QED BY <1>3, <1>5, <1>6, <1>7, <2>1, <2>2, ConvertingKeepsSound DEF MapInv
<1>9. Install([m EXCEPT !.free = @ + EntriesPerPage])
  BY <1>6 DEF AllocateMemoryMapEntry
<1>10. PICK n : n = [m EXCEPT !.free = m.free + EntriesPerPage]
  OBVIOUS
<1>11. n.entries = m.entries /\ n.depth = m.depth /\ n.key = m.key
       /\ n.free = m.free + EntriesPerPage
  BY <1>8, <1>10 DEF IsMap
<1>12. /\ gMemoryMap' = n.entries /\ mMapDepth' = n.depth
       /\ mFreeMemoryMapEntries' = n.free /\ mMemoryMapKey' = n.key
  BY <1>9, <1>10, InstallSets
<1>13. regions' = regions
  BY DEF AllocateMemoryMapEntry
<1>14. /\ MapInv' /\ mMemoryMapKey' = mMemoryMapKey + 1
       /\ \A p \in start..start : OfType(gMemoryMap', p, EfiBootServicesData)
       /\ \A p \in Nat \ (start..start) : \A t :
            OfType(gMemoryMap, p, t) => OfType(gMemoryMap', p, t)
  BY <1>3, <1>5, <1>6, <1>7, <1>11, <1>12, <1>13, RangeConverted
<1> QED BY <1>3, <1>4, <1>14

\* Every step of the system.
LEMMA StepKeepsMap ==
  ASSUME IInv, [Next]_vars
  PROVE  MapStep
<1> USE DEF IInv
<1>1. ASSUME NEW r \in Tested, CoreAddMemoryDescriptor(r) PROVE MapStep
  BY <1>1, RegionAdded DEF CoreAddMemoryDescriptor, Regions, MapStep
<1>2. ASSUME NEW r \in Untested, PromoteMemoryResource(r) PROVE MapStep
  BY <1>2, RegionAdded DEF PromoteMemoryResource, Regions, MapStep
<1>3. ASSUME CoreConvertPages PROVE MapStep
  BY <1>3, PagesConverted DEF MapStep
<1>4. ASSUME NEW start \in Pages, NEW e \in gMemoryMap, AllocateMemoryMapEntry(start, e)
      PROVE  MapStep
  BY <1>4, EntryPageConverted DEF MapStep
<1>5. ASSUME MoveEntry PROVE MapStep
  BY <1>5, MovingKeepsMap
<1>6. CASE UNCHANGED vars
  BY <1>6, SameMap DEF vars
<1>7. ASSUME NEW type, NEW n, NEW max, NEW gcd, CoreAllocatePages(type, n, max, gcd)
      PROVE MapStep
  BY <1>7, SameMap DEF CoreAllocatePages
<1>8. ASSUME NEW type, NEW start, NEW n, CoreAllocateAddress(type, start, n) PROVE MapStep
  BY <1>8, SameMap DEF CoreAllocateAddress
<1>9. ASSUME NEW b, CoreFreePages(b) PROVE MapStep
  BY <1>9, SameMap DEF CoreFreePages
<1>10. ASSUME CopyMap \/ ReadKey \/ CoreTerminateMemoryMap \/ DestroyContents PROVE MapStep
  BY <1>10, SameMap DEF CopyMap, ReadKey, CoreTerminateMemoryMap, DestroyContents
<1>11. ASSUME FindFreePages \/ Promoted \/ ConvertFails \/ ConvertDone PROVE MapStep
  BY <1>11, SameMap DEF FindFreePages, Promoted, ConvertFails, ConvertDone
<1>12. ASSUME NoPageForEntries \/ StackIsFree PROVE MapStep
  BY <1>12, SameMap DEF NoPageForEntries, StackIsFree
<1> QED BY <1>1, <1>2, <1>3, <1>4, <1>5, <1>6, <1>7, <1>8, <1>9, <1>10, <1>11, <1>12
        DEF Next, Caller, Service

\* The service that holds the lock and the data beside the map.
LEMMA StepKeepsCalls ==
  ASSUME IInv, [Next]_vars
  PROVE  CallInv'
<1> USE DEF IInv
<1> DEFINE Data ==
             /\ backing \subseteq Pages
             /\ blocks \subseteq [Start : Nat, End : Nat, Type : MemoryTypes]
             /\ loader = None \/ loader \in [copied : Nat, MapKey : Nat \cup {None}]
           Pc ==
             \/ pc \in {"Idle", "Exited", "Asserted"}
             \/ pc \in {"Find", "Promote"} /\ call \in FindCall
             \/ pc = "Convert" /\ call \in ConvertCall
             \/ /\ pc \in {"FreeStack", "PromoteMore"}
                /\ call \in ConvertCall \cup AddCall \cup {c \in FindCall : c.next = "Promote"}
<1>a. Data /\ Pc
  BY DEF CallInv
<1>b. SUFFICES Data' /\ Pc'
  BY DEF CallInv
<1>c. EfiConventionalMemory \in MemoryTypes /\ EfiBootServicesData \in MemoryTypes
      /\ Types \subseteq MemoryTypes
  BY DEF MemoryTypes
<1>1. ASSUME NEW r \in Tested, CoreAddMemoryDescriptor(r) PROVE Data' /\ Pc'
  BY <1>a, <1>1 DEF CoreAddMemoryDescriptor, AddCall
<1>2. ASSUME NEW type \in MemoryTypes, NEW n \in Nat \ {0}, NEW max \in Nat, NEW gcd \in BOOLEAN,
             CoreAllocatePages(type, n, max, gcd)
      PROVE  Data' /\ Pc'
  BY <1>a, <1>2 DEF CoreAllocatePages, FindCall
<1>3. ASSUME NEW type \in MemoryTypes, NEW start \in Nat, NEW n \in Nat \ {0},
             CoreAllocateAddress(type, start, n)
      PROVE  Data' /\ Pc'
  <2>1. start + n - 1 \in Nat
    BY <1>3
  <2>2. PICK end \in Nat : end = start + n - 1
    BY <2>1
  <2>3. call' = Converting("Allocate", type, start, end, FALSE) /\ pc' = "Convert"
    BY <1>3, <2>2 DEF CoreAllocateAddress
  <2>4. call' \in ConvertCall
    BY <2>3 DEF Converting, ConvertCall
  <2> QED BY <1>a, <1>3, <2>3, <2>4 DEF CoreAllocateAddress
<1>4. ASSUME NEW b \in blocks, CoreFreePages(b) PROVE Data' /\ Pc'
  <2>1. b.Start \in Nat /\ b.End \in Nat
    BY <1>a
  <2>2. call' \in ConvertCall /\ pc' = "Convert"
    BY <1>4, <1>c, <2>1 DEF CoreFreePages, Converting, ConvertCall
  <2> QED BY <1>a, <1>4, <2>2 DEF CoreFreePages
<1>5. ASSUME CopyMap PROVE Data' /\ Pc'
  BY <1>a, <1>5 DEF CopyMap, MapInv
<1>6. ASSUME ReadKey PROVE Data' /\ Pc'
  <2>1. loader \in [copied : Nat, MapKey : Nat \cup {None}]
    BY <1>a, <1>6 DEF ReadKey
  <2>2. loader' \in [copied : Nat, MapKey : Nat \cup {None}]
    BY <1>6, <2>1 DEF ReadKey, MapInv
  <2> QED BY <1>a, <1>6, <2>2 DEF ReadKey
<1>7. ASSUME CoreTerminateMemoryMap PROVE Data' /\ Pc'
  BY <1>a, <1>7 DEF CoreTerminateMemoryMap
<1>8. ASSUME DestroyContents PROVE Data' /\ Pc'
  BY <1>a, <1>8 DEF DestroyContents
<1>9. ASSUME FindFreePages PROVE Data' /\ Pc'
  <2>1. call \in FindCall /\ Data'
    BY <1>a, <1>9 DEF FindFreePages
  <2>2. ASSUME NEW start \in CoreFindFreePagesI(Map, call.max, call.n),
               call' = Converting("Allocate", call.Type, start, start + call.n - 1, call.gcd),
               pc' = "Convert"
        PROVE  Pc'
    <3>1. call.Type \in MemoryTypes /\ call.n \in Nat \ {0} /\ call.max \in Nat
          /\ call.gcd \in BOOLEAN
      BY <2>1 DEF FindCall
    <3>2. start \in Nat
      <4>1. PICK e \in gMemoryMap :
              LET last == IF e.End <= call.max THEN e.End ELSE call.max
              IN  last + 1 >= e.Start + call.n /\ start = last + 1 - call.n
        BY <2>2, MapIsMap DEF CoreFindFreePagesI
      <4>2. e.Start \in Nat /\ e.End \in Nat
        BY DEF MapInv, Sound, Entry
      <4> QED BY <3>1, <4>1, <4>2
    <3>3. PICK end \in Nat : end = start + call.n - 1
      BY <3>1, <3>2
    <3>4. call' = Converting("Allocate", call.Type, start, end, call.gcd)
      BY <2>2, <3>3
    <3>5. call' \in ConvertCall
      BY <3>1, <3>2, <3>4 DEF Converting, ConvertCall
    <3> QED BY <2>2, <3>5
  <2>3. CASE /\ OutOfPages /\ ~call.promoted
             /\ pc' = IF call.gcd THEN "Asserted" ELSE "Promote"
             /\ UNCHANGED call
    BY <2>1, <2>3
  <2>4. ASSUME Return PROVE Pc'
    BY <2>4 DEF Return
  <2> QED BY <1>9, <2>1, <2>2, <2>3, <2>4 DEF FindFreePages
<1>10. ASSUME Promoted PROVE Data' /\ Pc'
  <2>1. call \in FindCall
    BY <1>a, <1>10 DEF Promoted
  <2>2. call' \in FindCall
    BY <1>10, <2>1 DEF Promoted, FindCall
  <2> QED BY <1>a, <1>10, <2>2 DEF Promoted
<1>11. ASSUME NEW r \in Untested, PromoteMemoryResource(r) PROVE Data' /\ Pc'
  <2>1. Data'
    BY <1>a, <1>11 DEF PromoteMemoryResource
  <2>2. CASE pc = "Promote"
    <3>1. call \in FindCall /\ call' = [call EXCEPT !.next = "Promote"] /\ pc' = "FreeStack"
      BY <1>a, <1>11, <2>2 DEF PromoteMemoryResource
    <3>2. call' \in {c \in FindCall : c.next = "Promote"}
      BY <3>1 DEF FindCall
    <3> QED BY <2>1, <3>1, <3>2
  <2>3. CASE pc = "PromoteMore"
    BY <1>a, <1>11, <2>1, <2>3 DEF PromoteMemoryResource
  <2> QED BY <1>11, <2>2, <2>3 DEF PromoteMemoryResource
<1>12. ASSUME CoreConvertPages PROVE Data' /\ Pc'
  <2>1. call \in ConvertCall
    BY <1>a, <1>12 DEF CoreConvertPages
  <2>2. PICK e \in gMemoryMap :
          call' = [call EXCEPT !.Start = (IF e.End < call.End THEN e.End ELSE call.End) + 1]
    BY <1>12 DEF CoreConvertPages
  <2>3. e.End \in Nat /\ call.End \in Nat
    BY <2>1 DEF MapInv, Sound, Entry, ConvertCall
  <2>4. PICK s \in Nat : s = (IF e.End < call.End THEN e.End ELSE call.End) + 1
    BY <2>3
  <2>5. call' \in ConvertCall
    BY <2>1, <2>2, <2>4 DEF ConvertCall
  <2> QED BY <1>a, <1>12, <2>5 DEF CoreConvertPages
<1>13. ASSUME ConvertFails PROVE Data' /\ Pc'
  BY <1>a, <1>13 DEF ConvertFails, Return
<1>14. ASSUME ConvertDone PROVE Data' /\ Pc'
  <2>1. call \in ConvertCall
    BY <1>a, <1>14 DEF ConvertDone
  <2>2. [Start |-> call.from, End |-> call.End, Type |-> call.Type]
          \in [Start : Nat, End : Nat, Type : MemoryTypes]
    BY <2>1 DEF ConvertCall
  <2> QED BY <1>a, <1>14, <2>2 DEF ConvertDone, Return
<1>15. ASSUME NEW start \in Pages, NEW e \in gMemoryMap, AllocateMemoryMapEntry(start, e)
       PROVE  Data' /\ Pc'
  BY <1>a, <1>15 DEF AllocateMemoryMapEntry, NeedsEntry, HasPromoted
<1>16. ASSUME NoPageForEntries PROVE Data' /\ Pc'
  BY <1>a, <1>16 DEF NoPageForEntries, NeedsEntry, HasPromoted
<1>17. ASSUME MoveEntry PROVE Data' /\ Pc'
  BY <1>a, <1>17 DEF MoveEntry
<1>18. ASSUME StackIsFree PROVE Data' /\ Pc'
  <2>1. Data'
    BY <1>a, <1>18 DEF StackIsFree
  <2>2. CASE Return
    BY <2>1, <2>2 DEF Return
  <2>3. CASE call.next # "Done" /\ pc' = call.next /\ UNCHANGED call
    BY <1>a, <1>18, <2>1, <2>3 DEF StackIsFree, ConvertCall, AddCall, FindCall
  <2> QED BY <1>18, <2>2, <2>3 DEF StackIsFree
<1>19. ASSUME UNCHANGED vars PROVE Data' /\ Pc'
  BY <1>a, <1>19 DEF vars, map
<1> HIDE DEF Data, Pc
<1>20. CASE Caller
  <2>1. \A n \in 1..MaxPages : n \in Nat \ {0}
    BY AddressAssumption
  <2>2. ASSUME CoreAllocatePages(EfiBootServicesData, 1, LastPage, TRUE) PROVE Data' /\ Pc'
    <3>1. EfiBootServicesData \in MemoryTypes /\ 1 \in Nat \ {0} /\ TRUE \in BOOLEAN
          /\ LastPage \in Nat
      BY <1>c, LastPageIsNat
    <3> QED BY <1>2, <2>2, <3>1
  <2> QED BY <1>1, <1>2, <1>3, <1>4, <1>5, <1>6, <1>7, <1>8, <1>20, <1>c, <2>1, <2>2,
             AddressAssumption DEF Caller
<1>21. CASE Service
  BY <1>9, <1>10, <1>11, <1>12, <1>13, <1>14, <1>15, <1>16, <1>17, <1>18, <1>21 DEF Service
<1> QED BY <1>19, <1>20, <1>21 DEF Next

\* The memory map is typed at all times.
THEOREM PageMapTypeCorrect == Spec => []TypeOK
<1>1. IInv /\ [Next]_vars => IInv'
  BY StepKeepsMap, StepKeepsCalls DEF IInv, MapStep
<1> QED BY <1>1, InvariantInitially, InvariantImplies, PTL DEF Spec

\* Whatever the memory, the callers and the bounds, the map describes exactly the memory
\* that was added, every page once, merged, and with its attributes.
THEOREM MapIsSound == Spec => []MapSound
<1>1. IInv /\ [Next]_vars => IInv'
  BY StepKeepsMap, StepKeepsCalls DEF IInv, MapStep
<1> QED BY <1>1, InvariantInitially, InvariantImplies, PTL DEF Spec

\* No step changes what GetMemoryMap returns without a new key.
THEOREM KeyTracksTheMap == Spec => KeyTracksMap
<1>1. IInv /\ [Next]_vars => IInv'
  BY StepKeepsMap, StepKeepsCalls DEF IInv, MapStep
<1>2. IInv /\ [Next]_vars => [Visible' # Visible => mMemoryMapKey' > mMemoryMapKey]_vars
  BY StepKeepsMap DEF IInv, MapInv, MapStep
<1> QED BY <1>1, <1>2, InvariantInitially, PTL DEF Spec, KeyTracksMap
-----------------------------------------------------------------------------
(* Who owns pages.                                                         *)

\* The service that converts pages, also while it frees the stack between two rounds.
Converts(op) == pc \in {"Convert", "FreeStack", "PromoteMore"} /\ call.op = op

NotOwned(p) == p \notin backing /\ \A b \in blocks : p \notin b.Start..b.End

BlockInv ==
  /\ \A b \in blocks : b.Start <= b.End /\ b.Type # EfiConventionalMemory
  /\ \A b, c \in blocks : b = c \/ Apart(b, c)
  /\ \A b \in blocks : \A p \in b.Start..b.End :
       p \notin backing /\ OfType(gMemoryMap, p, b.Type)
  /\ \A p \in backing : OfType(gMemoryMap, p, EfiBootServicesData)

FindInv ==
  pc \in {"Find", "FreeStack", "Promote", "PromoteMore"} /\ call.op = "Find"
    => call.Type # EfiConventionalMemory

\* The pages converted for an allocation.
AllocateInv ==
  Converts("Allocate") =>
    /\ call.Type # EfiConventionalMemory /\ call.from <= call.Start /\ call.from <= call.End
    /\ \A p \in call.from..(call.Start - 1) :
         NotOwned(p) /\ OfType(gMemoryMap, p, call.Type)

\* The pages that have still to be given back.
FreeInv ==
  Converts("Free") =>
    /\ call.Type = EfiConventionalMemory
    /\ \A p \in call.Start..call.End :
         /\ NotOwned(p)
         /\ \E type \in MemoryTypes : type # EfiConventionalMemory /\ OfType(gMemoryMap, p, type)

OwnerInv == BlockInv /\ FindInv /\ AllocateInv /\ FreeInv
-----------------------------------------------------------------------------
LEMMA OwnersInitially == Init => OwnerInv
BY DEF Init, OwnerInv, BlockInv, FindInv, AllocateInv, FreeInv, Converts

\* A page belongs to one entry and so has one type.
LEMMA OneType ==
  ASSUME MapInv, NEW p \in Nat, NEW t, NEW u,
         OfType(gMemoryMap, p, t), OfType(gMemoryMap, p, u)
  PROVE  t = u
<1>1. PICK e \in gMemoryMap : Covers(e, p) /\ e.Type = t
  BY DEF OfType
<1>2. PICK f \in gMemoryMap : Covers(f, p) /\ f.Type = u
  BY DEF OfType
<1>3. e = f \/ Apart(e, f)
  BY DEF MapInv, Sound, EntriesDisjoint
<1>4. e.Start \in Nat /\ e.End \in Nat /\ f.Start \in Nat /\ f.End \in Nat
  BY DEF MapInv, Sound, Entry
<1> QED BY <1>1, <1>2, <1>3, <1>4 DEF Apart, Covers

\* The numbers of the state.
LEMMA OwnersAreRanges ==
  ASSUME IInv
  PROVE  /\ \A b \in blocks : b.Start \in Nat /\ b.End \in Nat /\ b.Type \in MemoryTypes
         /\ backing \subseteq Nat
BY LastPageIsNat DEF IInv, CallInv, Pages

LEMMA ConvertingCall ==
  ASSUME IInv, Converts("Allocate") \/ Converts("Free")
  PROVE  call \in ConvertCall
BY DEF IInv, CallInv, Converts, FindCall, AddCall

\* No owner has a page of free memory.
LEMMA FreePagesNotOwned ==
  ASSUME IInv, BlockInv, NEW p \in Nat, OfType(gMemoryMap, p, EfiConventionalMemory)
  PROVE  NotOwned(p)
<1>1. EfiBootServicesData # EfiConventionalMemory
  BY DEF EfiBootServicesData, EfiConventionalMemory
<1>2. p \notin backing
  BY <1>1, OneType DEF BlockInv, IInv
<1>3. ASSUME NEW b \in blocks, p \in b.Start..b.End PROVE FALSE
  BY <1>3, OneType DEF BlockInv, IInv
<1> QED BY <1>2, <1>3 DEF NotOwned

LEMMA OwnersImplyKept == IInv /\ OwnerInv => BlocksKept
<1> SUFFICES ASSUME IInv, BlockInv PROVE BlocksKept
  BY DEF OwnerInv
<1>1. \A b \in blocks : Typed(b.Start, b.End, b.Type) /\ backing \cap (b.Start..b.End) = {}
  BY DEF BlockInv, OfType, Typed
<1>2. ASSUME NEW p \in backing PROVE Typed(p, p, EfiBootServicesData)
  <2>1. p..p = {p}
    BY OwnersAreRanges
  <2> QED BY <2>1 DEF BlockInv, OfType, Typed
<1> QED BY <1>1, <1>2 DEF BlocksKept, BlockInv
-----------------------------------------------------------------------------
(* The steps.                                                              *)

\* Where pages keep their types and nobody is given or gives back any, the owners keep
\* theirs, and so does the service that goes on.
LEMMA OwnersStay ==
  ASSUME IInv, OwnerInv, UNCHANGED <<blocks, backing>>,
         \A p \in Nat : \A t : OfType(gMemoryMap, p, t) => OfType(gMemoryMap', p, t)
  PROVE  /\ BlockInv'
         /\ (Converts("Allocate")' => Converts("Allocate") /\ call' = call) => AllocateInv'
         /\ (Converts("Free")' => Converts("Free") /\ call' = call) => FreeInv'
<1>1. BlockInv'
  BY OwnersAreRanges DEF OwnerInv, BlockInv
<1>2. ASSUME Converts("Allocate"), Converts("Allocate")', call' = call PROVE AllocateInv'
  <2>1. call.from \in Nat /\ call.Start \in Nat
    BY <1>2, ConvertingCall DEF ConvertCall
  <2>2. \A p \in call.from..(call.Start - 1) : p \in Nat
    BY <2>1
  <2> QED BY <1>2, <2>2 DEF OwnerInv, AllocateInv, NotOwned
<1>3. ASSUME Converts("Free"), Converts("Free")', call' = call PROVE FreeInv'
  <2>1. call.Start \in Nat /\ call.End \in Nat
    BY <1>3, ConvertingCall DEF ConvertCall
  <2>2. \A p \in call.Start..call.End : p \in Nat
    BY <2>1
  <2> QED BY <1>3, <2>2 DEF OwnerInv, FreeInv, NotOwned
<1> QED BY <1>1, <1>2, <1>3 DEF AllocateInv, FreeInv

\* One round of CoreConvertPages: for an allocation the pages were free, given back they
\* belong to nobody any more.
LEMMA ConvertingKeepsOwners ==
  ASSUME IInv, OwnerInv, CoreConvertPages
  PROVE  OwnerInv'
<1>1. call \in ConvertCall /\ pc = "Convert" /\ pc' = "FreeStack"
      /\ blocks' = blocks /\ backing' = backing
  BY DEF CoreConvertPages, IInv, CallInv
<1>2. call.Start \in Nat /\ call.End \in Nat /\ call.from \in Nat
      /\ call.op \in {"Allocate", "Free"}
  BY <1>1 DEF ConvertCall
<1>3. PICK e \in gMemoryMap, end \in Nat :
        /\ e.Start <= call.Start /\ call.Start <= end /\ end <= e.End /\ end <= call.End
        /\ Compatible(e, call.Type)
        /\ call' = [call EXCEPT !.Start = end + 1]
        /\ \A p \in call.Start..end : OfType(gMemoryMap', p, call.Type)
        /\ \A p \in Nat \ (call.Start..end) : \A t :
             OfType(gMemoryMap, p, t) => OfType(gMemoryMap', p, t)
  BY PagesConverted
<1>4. e.Start \in Nat /\ e.End \in Nat
  BY DEF IInv, MapInv, Sound, Entry
<1>5. /\ call'.op = call.op /\ call'.Type = call.Type /\ call'.Start = end + 1
      /\ call'.End = call.End /\ call'.from = call.from
  BY <1>1, <1>3 DEF ConvertCall
<1>6. \A p \in call.Start..end : p \in Nat /\ OfType(gMemoryMap, p, e.Type)
  BY <1>2, <1>3, <1>4 DEF OfType, Covers
<1>7. \A p \in call.Start..end : NotOwned(p)
  <2>1. CASE call.op = "Allocate"
    <3>1. e.Type = EfiConventionalMemory
      BY <1>1, <1>3, <2>1 DEF OwnerInv, AllocateInv, Converts, Compatible
    <3> QED BY <1>6, <3>1, FreePagesNotOwned DEF OwnerInv
  <2>2. CASE call.op = "Free"
    <3>1. \A p \in call.Start..end : p \in call.Start..call.End
      BY <1>2, <1>3
    <3> QED BY <1>1, <2>2, <3>1 DEF OwnerInv, FreeInv, Converts
  <2> QED BY <1>2, <2>1, <2>2
<1>8. BlockInv'
  <2>1. ASSUME NEW p \in Nat, NEW t, OfType(gMemoryMap, p, t), ~NotOwned(p)
        PROVE  OfType(gMemoryMap', p, t)
    BY <1>3, <1>7, <2>1
  <2>2. \A b \in blocks : \A p \in b.Start..b.End : p \in Nat /\ ~NotOwned(p)
    BY OwnersAreRanges DEF NotOwned
  <2>3. \A p \in backing : p \in Nat /\ ~NotOwned(p)
    BY OwnersAreRanges DEF NotOwned
  <2> QED BY <1>1, <2>1, <2>2, <2>3 DEF OwnerInv, BlockInv
<1>9. FindInv'
  BY <1>2, <1>5 DEF FindInv
<1>10. AllocateInv'
  <2> SUFFICES ASSUME call.op = "Allocate" PROVE AllocateInv'
    BY <1>5 DEF AllocateInv, Converts
  <2>1. /\ call.Type # EfiConventionalMemory /\ call.from <= call.Start
        /\ call.from <= call.End
        /\ \A p \in call.from..(call.Start - 1) :
             NotOwned(p) /\ OfType(gMemoryMap, p, call.Type)
    BY <1>1 DEF OwnerInv, AllocateInv, Converts
  <2>2. ASSUME NEW p \in call.from..end
        PROVE  NotOwned(p) /\ OfType(gMemoryMap', p, call.Type)
    <3>1. CASE p \in call.Start..end
      BY <1>3, <1>7, <3>1
    <3>2. CASE p \notin call.Start..end
      <4>1. p \in call.from..(call.Start - 1) /\ p \in Nat
        BY <1>2, <1>3, <3>2
      <4> QED BY <1>3, <2>1, <3>2, <4>1
    <3> QED BY <3>1, <3>2
  <2>3. call'.Start - 1 = end /\ call.from <= end + 1
    BY <1>2, <1>3, <1>5, <2>1
  <2> QED BY <1>1, <1>5, <2>1, <2>2, <2>3 DEF AllocateInv, NotOwned
<1>11. FreeInv'
  <2> SUFFICES ASSUME call.op = "Free" PROVE FreeInv'
    BY <1>5 DEF FreeInv, Converts
  <2>1. /\ call.Type = EfiConventionalMemory
        /\ \A p \in call.Start..call.End :
             /\ NotOwned(p)
             /\ \E t \in MemoryTypes : t # EfiConventionalMemory /\ OfType(gMemoryMap, p, t)
    BY <1>1 DEF OwnerInv, FreeInv, Converts
  <2>2. \A p \in call'.Start..call'.End :
          p \in call.Start..call.End /\ p \in Nat \ (call.Start..end)
    BY <1>2, <1>3, <1>5
  <2> QED BY <1>1, <1>3, <1>5, <2>1, <2>2 DEF FreeInv, NotOwned
<1> QED BY <1>8, <1>9, <1>10, <1>11 DEF OwnerInv

\* A page that is taken for entries was free.
LEMMA EntryPageKeepsOwners ==
  ASSUME IInv, OwnerInv, NEW start, NEW e \in gMemoryMap, AllocateMemoryMapEntry(start, e)
  PROVE  OwnerInv'
<1>1. /\ pc \in {"FreeStack", "PromoteMore"} /\ pc' = "FreeStack" /\ call' = call
      /\ blocks' = blocks /\ backing' = backing \cup {start}
  BY DEF AllocateMemoryMapEntry, NeedsEntry, HasPromoted
<1>2. /\ start \in Nat /\ OfType(gMemoryMap, start, EfiConventionalMemory)
      /\ OfType(gMemoryMap', start, EfiBootServicesData)
      /\ \A p \in Nat \ {start} : \A t : OfType(gMemoryMap, p, t) => OfType(gMemoryMap', p, t)
  BY EntryPageConverted
<1>3. NotOwned(start)
  BY <1>2, FreePagesNotOwned DEF OwnerInv
<1>4. BlockInv'
  <2>1. \A b \in blocks : \A p \in b.Start..b.End :
          p \in Nat \ {start} /\ p \notin backing /\ OfType(gMemoryMap, p, b.Type)
    BY <1>3, OwnersAreRanges DEF OwnerInv, BlockInv, NotOwned
  <2>2. \A p \in backing : p \in Nat \ {start} /\ OfType(gMemoryMap, p, EfiBootServicesData)
    BY <1>3, OwnersAreRanges DEF OwnerInv, BlockInv, NotOwned
  <2>3. \A b \in blocks : \A p \in b.Start..b.End :
          p \notin backing' /\ OfType(gMemoryMap', p, b.Type)
    BY <1>1, <1>2, <2>1
  <2>4. \A p \in backing' : OfType(gMemoryMap', p, EfiBootServicesData)
    BY <1>1, <1>2, <2>2
  <2> QED BY <1>1, <2>3, <2>4 DEF OwnerInv, BlockInv
<1>5. FindInv'
  BY <1>1 DEF OwnerInv, FindInv
\* The page is none of those that the service works on, which are not free.
<1>6. ASSUME NEW p \in Nat, NEW t, t # EfiConventionalMemory, OfType(gMemoryMap, p, t),
             NotOwned(p)
      PROVE  NotOwned(p)' /\ OfType(gMemoryMap', p, t)
  <2>1. p # start
    BY <1>2, <1>6, OneType DEF IInv
  <2> QED BY <1>1, <1>2, <1>6, <2>1 DEF NotOwned
<1>7. AllocateInv'
  <2> SUFFICES ASSUME Converts("Allocate") PROVE AllocateInv'
    BY <1>1 DEF AllocateInv, Converts
  <2>1. call.from \in Nat /\ call.Start \in Nat
    BY ConvertingCall DEF ConvertCall
  <2>2. \A p \in call.from..(call.Start - 1) : p \in Nat
    BY <2>1
  <2>3. /\ call.Type # EfiConventionalMemory /\ call.from <= call.Start
        /\ call.from <= call.End
        /\ \A p \in call.from..(call.Start - 1) :
             NotOwned(p) /\ OfType(gMemoryMap, p, call.Type)
    BY DEF OwnerInv, AllocateInv
  <2> QED BY <1>1, <1>6, <2>2, <2>3 DEF AllocateInv
<1>8. FreeInv'
  <2> SUFFICES ASSUME Converts("Free") PROVE FreeInv'
    BY <1>1 DEF FreeInv, Converts
  <2>1. call.Start \in Nat /\ call.End \in Nat
    BY ConvertingCall DEF ConvertCall
  <2>2. \A p \in call.Start..call.End : p \in Nat
    BY <2>1
  <2>3. /\ call.Type = EfiConventionalMemory
        /\ \A p \in call.Start..call.End :
             /\ NotOwned(p)
             /\ \E t \in MemoryTypes : t # EfiConventionalMemory /\ OfType(gMemoryMap, p, t)
    BY DEF OwnerInv, FreeInv
  <2> QED BY <1>1, <1>6, <2>2, <2>3 DEF FreeInv
<1> QED BY <1>4, <1>5, <1>7, <1>8 DEF OwnerInv

\* A new allocation has no page yet.
LEMMA AllocationStarts ==
  ASSUME IInv, OwnerInv, UNCHANGED <<map, blocks, backing>>, pc' = "Convert",
         NEW type, type # EfiConventionalMemory, NEW start \in Nat, NEW n \in Nat \ {0},
         NEW gcd, call' = Converting("Allocate", type, start, start + n - 1, gcd)
  PROVE  OwnerInv'
<1>1. /\ call'.op = "Allocate" /\ call'.Type = type /\ call'.Start = start
      /\ call'.from = start /\ call'.End = start + n - 1
  BY DEF Converting
<1>2. BlockInv'
  BY DEF OwnerInv, BlockInv, map
<1>3. AllocateInv'
  <2>1. call'.from..(call'.Start - 1) = {}
    BY <1>1
  <2>2. call'.from <= call'.Start /\ call'.from <= call'.End
    BY <1>1
  <2> QED BY <1>1, <2>1, <2>2 DEF AllocateInv
<1> QED BY <1>1, <1>2, <1>3 DEF OwnerInv, FindInv, FreeInv, Converts

\* CoreFreePages: the pages of the block belong to nobody, but are not free yet.
LEMMA FreeingStarts ==
  ASSUME IInv, OwnerInv, NEW b \in blocks, CoreFreePages(b)
  PROVE  OwnerInv'
<1>1. /\ blocks' = blocks \ {b} /\ backing' = backing /\ gMemoryMap' = gMemoryMap
      /\ pc' = "Convert"
      /\ call' = Converting("Free", EfiConventionalMemory, b.Start, b.End, FALSE)
  BY DEF CoreFreePages, map
<1>2. /\ call'.op = "Free" /\ call'.Type = EfiConventionalMemory
      /\ call'.Start = b.Start /\ call'.End = b.End
  BY <1>1 DEF Converting
<1>3. BlockInv'
  BY <1>1 DEF OwnerInv, BlockInv
<1>4. ASSUME NEW p \in b.Start..b.End PROVE NotOwned(p)'
  <2>1. p \notin backing
    BY DEF OwnerInv, BlockInv
  <2>2. ASSUME NEW c \in blocks \ {b} PROVE p \notin c.Start..c.End
    BY OwnersAreRanges DEF OwnerInv, BlockInv, Apart
  <2> QED BY <1>1, <2>1, <2>2 DEF NotOwned
<1>5. \A p \in b.Start..b.End : OfType(gMemoryMap', p, b.Type)
  BY <1>1 DEF OwnerInv, BlockInv
<1>6. b.Type \in MemoryTypes /\ b.Type # EfiConventionalMemory
  BY OwnersAreRanges DEF OwnerInv, BlockInv
<1>7. FreeInv'
  BY <1>2, <1>4, <1>5, <1>6 DEF FreeInv
<1> QED BY <1>2, <1>3, <1>7 DEF OwnerInv, FindInv, AllocateInv, Converts

\* The caller becomes the owner of what has been converted for it.
LEMMA ConversionEnds ==
  ASSUME IInv, OwnerInv, ConvertDone
  PROVE  OwnerInv'
<1>1. call \in ConvertCall /\ pc = "Convert" /\ call.Start > call.End /\ pc' = "Idle"
      /\ backing' = backing /\ gMemoryMap' = gMemoryMap
  BY DEF ConvertDone, IInv, CallInv, Return, map
<1>2. call.Start \in Nat /\ call.End \in Nat /\ call.from \in Nat
  BY <1>1 DEF ConvertCall
<1>3. BlockInv'
  <2>1. CASE call.op # "Allocate"
    BY <1>1, <2>1 DEF ConvertDone, OwnerInv, BlockInv
  <2>2. CASE call.op = "Allocate"
    <3>1. PICK b : b = [Start |-> call.from, End |-> call.End, Type |-> call.Type]
      OBVIOUS
    <3>2. blocks' = blocks \cup {b} /\ b.Start = call.from /\ b.End = call.End
          /\ b.Type = call.Type
      BY <2>2, <3>1 DEF ConvertDone
    <3>3. /\ b.Type # EfiConventionalMemory /\ b.Start <= b.End
          /\ \A p \in b.Start..b.End : NotOwned(p) /\ OfType(gMemoryMap, p, b.Type)
      <4>1. \A p \in call.from..call.End : p \in call.from..(call.Start - 1)
        BY <1>1, <1>2
      <4> QED BY <1>1, <2>2, <3>2, <4>1 DEF OwnerInv, AllocateInv, Converts
    <3>4. ASSUME NEW c \in blocks PROVE Apart(b, c)
      <4>1. c.Start \in Nat /\ c.End \in Nat /\ c.Start <= c.End
            /\ b.Start \in Nat /\ b.End \in Nat
        BY <1>2, <3>2, OwnersAreRanges DEF OwnerInv, BlockInv
      <4>2. \A p \in b.Start..b.End : p \notin c.Start..c.End
        BY <3>3 DEF NotOwned
      <4>3. b.Start \notin c.Start..c.End /\ (b.Start <= c.Start /\ c.Start <= b.End => FALSE)
        BY <3>3, <4>1, <4>2
      <4> QED BY <4>1, <4>3 DEF Apart
    <3>5. \A c, d \in blocks' : c = d \/ Apart(c, d)
      BY <3>2, <3>4 DEF OwnerInv, BlockInv, Apart
    <3> QED BY <1>1, <3>2, <3>3, <3>5 DEF OwnerInv, BlockInv, NotOwned
  <2> QED BY <2>1, <2>2
<1> QED BY <1>1, <1>3 DEF OwnerInv, FindInv, AllocateInv, FreeInv, Converts

\* Every step of the system.
LEMMA StepKeepsOwners ==
  ASSUME IInv, OwnerInv, [Next]_vars
  PROVE  OwnerInv'
<1> DEFINE Stay ==
             /\ UNCHANGED <<blocks, backing>>
             /\ \A p \in Nat : \A t : OfType(gMemoryMap, p, t) => OfType(gMemoryMap', p, t)
           Same == UNCHANGED <<gMemoryMap, blocks, backing>>
\* Steps after which the service, if any, works on the same pages.
<1>a. ASSUME Stay, FindInv',
             \A op \in {"Allocate", "Free"} : Converts(op)' => Converts(op) /\ call' = call
      PROVE  OwnerInv'
  BY <1>a, OwnersStay DEF OwnerInv
<1>b. Same => Stay
  OBVIOUS
<1>c. CallInv /\ FindInv
  BY DEF IInv, OwnerInv
<1> HIDE DEF Stay
<1>1. ASSUME NEW r \in Tested, CoreAddMemoryDescriptor(r) PROVE OwnerInv'
  <2>1. Stay
    BY <1>1, RegionAdded DEF CoreAddMemoryDescriptor, Regions, IInv, Stay
  <2> QED BY <1>1, <1>a, <2>1 DEF CoreAddMemoryDescriptor, FindInv, Converts
<1>2. ASSUME NEW type, type # EfiConventionalMemory, NEW n, NEW max, NEW gcd,
             CoreAllocatePages(type, n, max, gcd)
      PROVE  OwnerInv'
  BY <1>2, <1>a, <1>b DEF CoreAllocatePages, map, FindInv, Converts
<1>3. ASSUME NEW type \in Types, NEW start \in Addresses, NEW n \in 1..MaxPages,
             CoreAllocateAddress(type, start, n)
      PROVE  OwnerInv'
  <2>1. type # EfiConventionalMemory /\ start \in Nat /\ n \in Nat \ {0}
    BY AddressAssumption, TypeAssumption
  <2>2. /\ UNCHANGED <<map, blocks, backing>> /\ pc' = "Convert"
        /\ call' = Converting("Allocate", type, start, start + n - 1, FALSE)
    BY <1>3 DEF CoreAllocateAddress
  <2> QED BY <2>1, <2>2, AllocationStarts
<1>4. ASSUME NEW b \in blocks, CoreFreePages(b) PROVE OwnerInv'
  BY <1>4, FreeingStarts
<1>5. ASSUME CopyMap \/ ReadKey \/ CoreTerminateMemoryMap \/ DestroyContents PROVE OwnerInv'
  <2>1. Same /\ call' = call /\ pc = "Idle" /\ pc' \in {"Idle", "Exited"}
    BY <1>5 DEF CopyMap, ReadKey, CoreTerminateMemoryMap, DestroyContents, map
  <2> QED BY <1>a, <1>b, <2>1 DEF FindInv, Converts
<1>6. ASSUME FindFreePages PROVE OwnerInv'
  <2>1. call \in FindCall /\ call.Type # EfiConventionalMemory /\ call.op = "Find"
        /\ Same /\ map' = map
    BY <1>6, <1>c DEF FindFreePages, CallInv, FindInv, FindCall, map
  <2>2. ASSUME NEW start \in CoreFindFreePagesI(Map, call.max, call.n),
               call' = Converting("Allocate", call.Type, start, start + call.n - 1, call.gcd),
               pc' = "Convert"
        PROVE  OwnerInv'
    <3>1. call.n \in Nat \ {0} /\ call.max \in Nat
      BY <2>1 DEF FindCall
    <3>2. PICK e \in gMemoryMap :
            LET last == IF e.End <= call.max THEN e.End ELSE call.max
            IN  last + 1 >= e.Start + call.n /\ start = last + 1 - call.n
      BY <2>2, MapIsMap DEF CoreFindFreePagesI, IInv
    <3>3. e.Start \in Nat /\ e.End \in Nat
      BY DEF IInv, MapInv, Sound, Entry
    <3>4. start \in Nat
      BY <3>1, <3>2, <3>3
    <3> QED BY <2>1, <2>2, <3>1, <3>4, AllocationStarts
  <2>3. CASE pc' \in {"Asserted", "Promote"} /\ call' = call
    BY <1>6, <1>a, <1>b, <2>1, <2>3 DEF FindFreePages, FindInv, Converts
  <2>4. CASE Return
    BY <1>a, <1>b, <2>1, <2>4 DEF Return, FindInv, Converts
  <2> QED BY <1>6, <2>2, <2>3, <2>4 DEF FindFreePages
<1>7. ASSUME Promoted PROVE OwnerInv'
  <2>1. call \in FindCall /\ call'.Type = call.Type /\ pc = "Promote" /\ pc' = "Find" /\ Same
        /\ call.op = "Find"
    BY <1>7, <1>c DEF Promoted, CallInv, FindCall, map
  <2> QED BY <1>a, <1>b, <1>c, <2>1 DEF FindInv, Converts
<1>8. ASSUME NEW r \in Untested, PromoteMemoryResource(r) PROVE OwnerInv'
  <2>1. Stay
    BY <1>8, RegionAdded DEF PromoteMemoryResource, Regions, IInv, Stay
  <2>2. CASE pc = "Promote"
    <3>1. call \in FindCall /\ call'.Type = call.Type /\ call'.op = "Find" /\ call.op = "Find"
          /\ pc' = "FreeStack"
      BY <1>8, <1>c, <2>2 DEF PromoteMemoryResource, CallInv, FindCall
    <3> QED BY <1>a, <1>c, <2>1, <2>2, <3>1 DEF FindInv, Converts
  <2>3. CASE pc = "PromoteMore"
    BY <1>8, <1>a, <1>c, <2>1, <2>3 DEF PromoteMemoryResource, FindInv, Converts
  <2> QED BY <1>8, <2>2, <2>3 DEF PromoteMemoryResource
<1>9. ASSUME CoreConvertPages PROVE OwnerInv'
  BY <1>9, ConvertingKeepsOwners
<1>10. ASSUME ConvertFails PROVE OwnerInv'
  BY <1>10, <1>a, <1>b DEF ConvertFails, Return, map, FindInv, Converts
<1>11. ASSUME ConvertDone PROVE OwnerInv'
  BY <1>11, ConversionEnds
<1>12. ASSUME NEW start \in Pages, NEW e \in gMemoryMap, AllocateMemoryMapEntry(start, e)
       PROVE  OwnerInv'
  BY <1>12, EntryPageKeepsOwners
<1>13. ASSUME NoPageForEntries PROVE OwnerInv'
  <2>1. Same /\ call' = call /\ pc \in {"FreeStack", "PromoteMore"}
        /\ pc' \in {"PromoteMore", "Asserted"}
    BY <1>13 DEF NoPageForEntries, NeedsEntry, HasPromoted, map
  <2> QED BY <1>a, <1>b, <1>c, <2>1 DEF FindInv, Converts
<1>14. ASSUME MoveEntry PROVE OwnerInv'
  <2>1. Stay /\ call' = call /\ pc' = pc
    BY <1>14, MovingKeepsMap DEF MoveEntry, IInv, Stay
  <2> QED BY <1>a, <1>c, <2>1 DEF FindInv, Converts
<1>15. ASSUME StackIsFree PROVE OwnerInv'
  <2>1. Same /\ pc = "FreeStack"
    BY <1>15 DEF StackIsFree, map
  <2>2. CASE Return
    BY <1>a, <1>b, <2>1, <2>2 DEF Return, FindInv, Converts
  <2>3. CASE call.next # "Done" /\ pc' = call.next /\ UNCHANGED call
    <3>0. call \in ConvertCall \/ call \in AddCall
          \/ call \in {c \in FindCall : c.next = "Promote"}
      BY <1>c, <2>1 DEF CallInv
    <3>1. \/ /\ call \in ConvertCall
             /\ pc' = "Convert"
          \/ /\ call \in FindCall
             /\ pc' = "Promote"
      BY <2>3, <3>0 DEF ConvertCall, AddCall
    <3>2. call.op = "Find" => pc' = "Promote"
      BY <3>1 DEF ConvertCall
    <3>3. call.op \in {"Allocate", "Free"} => pc' = "Convert"
      BY <3>1 DEF FindCall
    <3> QED BY <1>a, <1>b, <1>c, <2>1, <2>3, <3>1, <3>2, <3>3 DEF FindInv, Converts
  <2> QED BY <1>15, <2>2, <2>3 DEF StackIsFree
<1>16. CASE UNCHANGED vars
  BY <1>16, <1>a, <1>b, <1>c DEF vars, map, FindInv, Converts
<1>17. CASE Caller
  <2>1. \A type \in Types : type # EfiConventionalMemory
    BY TypeAssumption
  <2>2. EfiBootServicesData # EfiConventionalMemory
    BY DEF EfiBootServicesData, EfiConventionalMemory
  <2>3. ASSUME CoreAllocatePages(EfiBootServicesData, 1, LastPage, TRUE) PROVE OwnerInv'
    BY <1>2, <2>2, <2>3
  <2> QED BY <1>1, <1>2, <1>3, <1>4, <1>5, <1>17, <2>1, <2>3 DEF Caller
<1>18. CASE Service
  BY <1>6, <1>7, <1>8, <1>9, <1>10, <1>11, <1>12, <1>13, <1>14, <1>15, <1>18 DEF Service
<1> QED BY <1>16, <1>17, <1>18 DEF Next

\* Whatever the memory, the callers and the bounds, pages that a caller was given stay of
\* its type and its own until it frees them, and no page holds entries beside.
THEOREM OwnersKeepPages == Spec => []BlocksKept
<1>1. IInv /\ [Next]_vars => IInv'
  BY StepKeepsMap, StepKeepsCalls DEF IInv, MapStep
<1>2. IInv /\ OwnerInv /\ [Next]_vars => OwnerInv'
  BY StepKeepsOwners
<1> QED BY <1>1, <1>2, InvariantInitially, OwnersInitially, OwnersImplyKept, PTL DEF Spec
-----------------------------------------------------------------------------
(* The stack of new entries.                                               *)

\* Every entry on the stack has a slot of its own.
Slots(entries, depth) ==
  /\ \A e \in entries : e.slot <= depth
  /\ \A e, f \in entries : e.slot = f.slot => e = f \/ e.slot = 0

\* The entries from pages, in use or free: their number changes with the pages only.
Accounted(m) == FromPages(m.entries) + m.free

SlotInv ==
  /\ Slots(gMemoryMap, mMapDepth)
  /\ IsFiniteSet(backing)
  /\ FromPages(gMemoryMap) + mFreeMemoryMapEntries = EntriesPerPage * Cardinality(backing)

Promotions == Cardinality(Untested \cap regions)

PageIsFree == \E p \in Nat \ {0} : OfType(gMemoryMap, p, EfiConventionalMemory)

\* A conversion that needs two slots leaves a free page, so that memory is promoted, one
\* slot for each region, only after one that needed one; and a page of entries has enough
\* of them for the slots that were needed before it.
DepthInv ==
  /\ \/ mMapDepth <= Promotions + 1
     \/ mMapDepth <= Promotions + 2 /\ mFreeMemoryMapEntries > 0
     \/ mMapDepth <= 3 /\ mMapDepth <= mFreeMemoryMapEntries
     \/ mMapDepth <= 2 /\ PageIsFree /\ pc = "FreeStack"
  /\ pc = "PromoteMore" => mMapDepth <= Promotions + 1
  /\ pc \in {"Idle", "Find", "Convert", "Promote"} => mMapDepth = 0

StackInv == SlotInv /\ DepthInv

\* One slot for each region that is promoted and two more fit on the stack.
StackIsLargeEnough ==
  MAX_MAP_DEPTH \in Nat /\ 3 < MAX_MAP_DEPTH /\ Cardinality(Untested) + 2 < MAX_MAP_DEPTH
-----------------------------------------------------------------------------
(* The helpers.                                                            *)

LEMMA FromPagesSplit ==
  ASSUME NEW M, IsFiniteSet(M), NEW S \in SUBSET M
  PROVE  FromPages(M \ S) + FromPages(S) = FromPages(M)
<1> DEFINE A == {e \in M \ S : e.slot = 0}
           B == {e \in S : e.slot = 0}
           C == {e \in M : e.slot = 0}
<1>1. IsFiniteSet(A) /\ IsFiniteSet(B)
  <2>1. A \in SUBSET M /\ B \in SUBSET M
    OBVIOUS
  <2> QED BY <2>1, FS_Subset
<1>2. C = A \cup B /\ A \cap B = {}
  OBVIOUS
<1>3. FromPages(M \ S) = Cardinality(A) /\ FromPages(S) = Cardinality(B)
      /\ FromPages(M) = Cardinality(C)
  BY DEF FromPages
<1> HIDE DEF A, B, C
<1>4. Cardinality(A \cup B) = Cardinality(A) + Cardinality(B) - Cardinality(A \cap B)
  BY <1>1, FS_Union
<1>5. Cardinality(A) \in Nat /\ Cardinality(B) \in Nat /\ Cardinality({}) = 0
  BY <1>1, FS_CardinalityType, FS_EmptySet
<1>6. Cardinality(C) = Cardinality(A) + Cardinality(B) - Cardinality({})
  BY <1>2, <1>4
<1> QED BY <1>3, <1>5, <1>6

LEMMA FromPagesAdd ==
  ASSUME NEW M, IsFiniteSet(M), NEW x, x \notin M
  PROVE  FromPages(M \cup {x}) = IF x.slot = 0 THEN FromPages(M) + 1 ELSE FromPages(M)
<1> DEFINE A == {e \in M : e.slot = 0}
           C == {e \in M \cup {x} : e.slot = 0}
<1>1. IsFiniteSet(A) /\ x \notin A
  BY FS_Subset
<1>2. FromPages(M \cup {x}) = Cardinality(C) /\ FromPages(M) = Cardinality(A)
  BY DEF FromPages
<1>3. CASE x.slot = 0
  <2>1. C = A \cup {x}
    BY <1>3
  <2> HIDE DEF A, C
  <2> QED BY <1>1, <1>2, <1>3, <2>1, FS_AddElement
<1>4. CASE x.slot # 0
  <2>1. C = A
    BY <1>4
  <2> QED BY <1>2, <1>4, <2>1
<1> QED BY <1>3, <1>4

LEMMA FromPagesOne ==
  ASSUME NEW x
  PROVE  FromPages({x}) = IF x.slot = 0 THEN 1 ELSE 0
<1>1. IsFiniteSet({}) /\ FromPages({}) = 0
  <2>1. {e \in {} : e.slot = 0} = {}
    OBVIOUS
  <2> QED BY <2>1, FS_EmptySet DEF FromPages
<1>2. {} \cup {x} = {x}
  OBVIOUS
<1> QED BY <1>1, <1>2, FromPagesAdd

\* A new entry takes the slot above the others, and what it is merged with gives its back.
LEMMA AddingKeepsSlots ==
  ASSUME NEW m, IsMap(m), NEW type, NEW start, NEW end, NEW attribute,
         m.entries \subseteq Entry, Slots(m.entries, m.depth),
         NEW c, c = CoreAddRange(m, type, start, end, attribute)
  PROVE  /\ Slots(c.entries, c.depth) /\ c.depth = m.depth + 1
         /\ Accounted(c) = Accounted(m) /\ m.free <= c.free
<1> DEFINE below == {e \in m.entries : Mergeable(e, type, attribute) /\ e.End + 1 = start}
           above == {e \in m.entries : Mergeable(e, type, attribute) /\ e.Start = end + 1}
           new   == [Type |-> type, Attribute |-> attribute, slot |-> m.depth + 1,
                     Start |-> IF below = {} THEN start ELSE (CHOOSE e \in below : TRUE).Start,
                     End   |-> IF above = {} THEN end ELSE (CHOOSE e \in above : TRUE).End]
           gone  == below \cup above
           rest  == m.entries \ gone
<1>1. c.entries = rest \cup {new} /\ c.depth = m.depth + 1
      /\ c.free = m.free + FromPages(gone)
  BY DEF CoreAddRange, Adding, IsMap
<1>2. new.slot = m.depth + 1
  OBVIOUS
<1>3. gone \in SUBSET m.entries
  OBVIOUS
<1> HIDE DEF new, gone
<1>4. m.depth \in Nat /\ m.free \in Nat /\ IsFiniteSet(m.entries)
  BY DEF IsMap
<1>5. \A e \in m.entries : e.slot \in Nat /\ e.slot <= m.depth
  BY EntryFields DEF Slots
<1>6. IsFiniteSet(gone) /\ IsFiniteSet(rest)
  <2>1. rest \in SUBSET m.entries
    OBVIOUS
  <2> HIDE DEF rest
  <2> QED BY <1>3, <1>4, <2>1, FS_Subset
<1>7. new \notin rest /\ new.slot # 0
  BY <1>2, <1>4, <1>5
<1>8. FromPages(rest) + FromPages(gone) = FromPages(m.entries)
  BY <1>3, <1>4, FromPagesSplit
<1>9. FromPages(rest \cup {new}) = FromPages(rest)
  <2> HIDE DEF rest
  <2> QED BY <1>6, <1>7, FromPagesAdd
<1>10. FromPages(rest) \in Nat /\ FromPages(gone) \in Nat
  <2> HIDE DEF rest
  <2> QED BY <1>6, FromPagesIsNat
<1>11. Slots(c.entries, c.depth)
  <2>1. \A e \in rest : e \in m.entries /\ e.slot # new.slot /\ e.slot <= m.depth + 1
    BY <1>2, <1>4, <1>5
  <2>2. \A e \in c.entries : e = new \/ (e \in m.entries /\ e.slot # new.slot
                                         /\ e.slot <= m.depth + 1)
    BY <1>1, <2>1
  <2>3. new.slot <= m.depth + 1
    BY <1>2, <1>4
  <2> QED BY <1>1, <2>2, <2>3 DEF Slots
<1> HIDE DEF rest
<1> QED BY <1>1, <1>4, <1>8, <1>9, <1>10, <1>11 DEF Accounted

\* What is left of an entry that is clipped keeps its slot; a second part takes the next.
LEMMA ClippingKeepsSlots ==
  ASSUME NEW m, IsMap(m), NEW R \in SUBSET Regions, Sound(m.entries, R),
         NEW e \in m.entries, NEW start \in Nat, NEW end \in Nat,
         e.Start <= start, start <= end, end <= e.End,
         Slots(m.entries, m.depth)
  PROVE  \E c : /\ c = Clipped(m, e, start, end)
                /\ Slots(c.entries, c.depth)
                /\ c.depth = IF e.Start < start /\ end < e.End THEN m.depth + 1 ELSE m.depth
                /\ Accounted(c) = Accounted(m) /\ m.free <= c.free
<1>c. PICK c : c = Clipped(m, e, start, end)
  OBVIOUS
<1> SUFFICES /\ Slots(c.entries, c.depth)
             /\ c.depth = IF e.Start < start /\ end < e.End THEN m.depth + 1 ELSE m.depth
             /\ Accounted(c) = Accounted(m) /\ m.free <= c.free
  BY <1>c
<1> DEFINE M     == m.entries
           rest  == M \ {e}
           lower == IF e.Start < start THEN {[e EXCEPT !.End = start - 1]} ELSE {}
           upper == IF end < e.End
                    THEN {[e EXCEPT !.Start = end + 1,
                                    !.slot = IF lower = {} THEN @ ELSE m.depth + 1]}
                    ELSE {}
           N     == rest \cup lower \cup upper
<1>1. \A x \in M : x \in Entry /\ x.Start \in Nat /\ x.End \in Nat /\ x.Start <= x.End
                   /\ x.slot \in Nat /\ x.slot <= m.depth
  BY DEF Sound, Entry, Slots
<1>2. \A x, y \in M : x = y \/ x.End < y.Start \/ y.End < x.Start
  BY DEF Sound, EntriesDisjoint, Apart
<1>3. m.depth \in Nat /\ m.free \in Nat /\ IsFiniteSet(M)
  BY DEF IsMap
<1>4. \A x, y \in M : x.slot = y.slot => x = y \/ x.slot = 0
  BY DEF Slots
<1>5. PICK l : l = [e EXCEPT !.End = start - 1]
  OBVIOUS
<1>6. PICK s : s = IF lower = {} THEN e.slot ELSE m.depth + 1
  OBVIOUS
<1>7. PICK u : u = [e EXCEPT !.Start = end + 1, !.slot = s]
  OBVIOUS
<1>8. lower = (IF e.Start < start THEN {l} ELSE {}) /\ upper = (IF end < e.End THEN {u} ELSE {})
  BY <1>5, <1>6, <1>7
<1>9. l.Start = e.Start /\ l.End = start - 1 /\ l.slot = e.slot
  BY <1>1, <1>5 DEF Entry
<1>10. u.Start = end + 1 /\ u.End = e.End /\ u.slot = s
  BY <1>1, <1>7 DEF Entry
<1>11. /\ c.entries = N
       /\ c.depth = IF lower # {} /\ upper # {} THEN m.depth + 1 ELSE m.depth
       /\ c.free = IF lower = {} /\ upper = {} THEN m.free + FromPages({e}) ELSE m.free
  <2> HIDE DEF lower
  <2>1. c = [m EXCEPT !.entries = N, !.depth = IF lower # {} /\ upper # {} THEN m.depth + 1 ELSE m.depth,
                   !.free = IF lower = {} /\ upper = {} THEN m.free + FromPages({e}) ELSE m.free]
    BY <1>c DEF Clipped, lower, IsMap
  <2> HIDE DEF upper, N
  <2> QED BY <2>1 DEF IsMap
<1>12. (lower = {} <=> ~(e.Start < start)) /\ (upper = {} <=> ~(end < e.End))
  OBVIOUS
<1> HIDE DEF lower, upper
<1>13. IsFiniteSet(rest) /\ e \notin rest /\ FromPages(rest) \in Nat
  <2>1. IsFiniteSet(rest)
    BY <1>3, FS_RemoveElement
  <2> QED BY <2>1, FromPagesIsNat
<1>14. FromPages(M) = IF e.slot = 0 THEN FromPages(rest) + 1 ELSE FromPages(rest)
  <2>1. M = rest \cup {e}
    OBVIOUS
  <2> HIDE DEF rest, M
  <2> QED BY <1>13, <2>1, FromPagesAdd
<1>15. \A x \in rest : /\ x.Start \in Nat /\ x.End \in Nat /\ x.Start <= x.End
                       /\ x.End < e.Start \/ e.End < x.Start
                       /\ x.slot \in Nat /\ x.slot <= m.depth
                       /\ x.slot = e.slot => x.slot = 0
  BY <1>1, <1>2, <1>4
<1>16. \A x, y \in rest : x.slot = y.slot => x = y \/ x.slot = 0
  BY <1>4
<1>17. e.slot \in Nat /\ e.slot <= m.depth /\ e.Start \in Nat /\ e.End \in Nat
  BY <1>1
<1> HIDE DEF M, rest
<1>18. CASE e.Start < start /\ end < e.End
  <2>1. N = (rest \cup {l}) \cup {u} /\ c.depth = m.depth + 1 /\ c.free = m.free
        /\ s = m.depth + 1
    BY <1>6, <1>8, <1>11, <1>12, <1>18
  <2>2. l \notin rest
    BY <1>9, <1>15, <1>17, <1>18
  <2>3. u \notin rest \cup {l} /\ u.slot # 0
    BY <1>3, <1>9, <1>10, <1>15, <1>17, <2>1
  <2>4. IsFiniteSet(rest \cup {l})
    BY <1>13, FS_AddElement
  <2>5. FromPages(N) = FromPages(rest \cup {l})
    BY <2>1, <2>3, <2>4, FromPagesAdd
  <2>6. FromPages(rest \cup {l}) = FromPages(M)
    BY <1>9, <1>13, <1>14, <2>2, FromPagesAdd
  <2>7. \A x \in N : x \in rest \/ x = l \/ x = u
    BY <2>1
  <2>8. Slots(N, m.depth + 1)
    <3>1. \A x \in N : x.slot <= m.depth + 1
      BY <1>3, <1>9, <1>10, <1>15, <1>17, <2>1, <2>7
    <3>2. \A x, y \in N : x.slot = y.slot => x = y \/ x.slot = 0
      BY <1>3, <1>9, <1>10, <1>15, <1>16, <1>17, <2>1, <2>7
    <3> QED BY <3>1, <3>2 DEF Slots
  <2> QED BY <1>3, <1>11, <1>18, <2>1, <2>5, <2>6, <2>8 DEF Accounted, M
<1>19. ASSUME NEW x, N = rest \cup {x}, x \notin rest, x.slot = e.slot,
              c.depth = m.depth, c.free = m.free
       PROVE  Slots(N, c.depth) /\ Accounted(c) = Accounted(m) /\ m.free <= c.free
  <2>1. FromPages(N) = FromPages(M)
    BY <1>13, <1>14, <1>19, FromPagesAdd
  <2>2. Slots(N, m.depth)
    <3>1. \A y \in N : y.slot <= m.depth
      BY <1>15, <1>17, <1>19
    <3>2. \A y, z \in N : y.slot = z.slot => y = z \/ y.slot = 0
      BY <1>15, <1>16, <1>19
    <3> QED BY <3>1, <3>2 DEF Slots
  <2> QED BY <1>3, <1>11, <1>19, <2>1, <2>2 DEF Accounted, M
<1>20. CASE e.Start < start /\ ~(end < e.End)
  <2>1. N = rest \cup {l} /\ c.depth = m.depth /\ c.free = m.free
    BY <1>8, <1>11, <1>12, <1>20
  <2>2. l \notin rest
    BY <1>9, <1>15, <1>17, <1>20
  <2> QED BY <1>9, <1>11, <1>19, <1>20, <2>1, <2>2
<1>21. CASE ~(e.Start < start) /\ end < e.End
  <2>1. N = rest \cup {u} /\ c.depth = m.depth /\ c.free = m.free /\ s = e.slot
    BY <1>6, <1>8, <1>11, <1>12, <1>21
  <2>2. u \notin rest
    BY <1>10, <1>15, <1>17, <1>21
  <2> QED BY <1>10, <1>11, <1>19, <1>21, <2>1, <2>2
<1>22. CASE ~(e.Start < start) /\ ~(end < e.End)
  <2>1. N = rest /\ c.depth = m.depth /\ c.free = m.free + FromPages({e})
    BY <1>8, <1>11, <1>12, <1>22
  <2>2. FromPages({e}) = IF e.slot = 0 THEN 1 ELSE 0
    BY FromPagesOne
  <2>3. Accounted(c) = Accounted(m) /\ m.free <= c.free
    <3>1. FromPages(c.entries) = FromPages(rest) /\ c.free = m.free + FromPages({e})
      BY <1>11, <2>1
    <3>2. FromPages(M) = FromPages(rest) + FromPages({e})
      BY <1>13, <1>14, <2>2
    <3>3. FromPages({e}) \in Nat
      BY <2>2
    <3> QED BY <1>3, <1>13, <3>1, <3>2, <3>3 DEF Accounted, M
  <2>4. Slots(N, m.depth)
    BY <1>15, <1>16, <2>1 DEF Slots
  <2> QED BY <1>11, <1>22, <2>1, <2>3, <2>4
<1> QED BY <1>18, <1>20, <1>21, <1>22

\* One round of CoreConvertPages: one slot, and one more out of the center of an entry.
LEMMA ConvertingKeepsSlots ==
  ASSUME NEW m, IsMap(m), NEW R \in SUBSET Regions, Sound(m.entries, R),
         NEW e \in m.entries, NEW start \in Nat, NEW end \in Nat,
         e.Start <= start, start <= end, end <= e.End, NEW type \in MemoryTypes,
         Slots(m.entries, m.depth)
  PROVE  \E c : /\ c = ConvertRange(m, e, start, end, type) /\ IsMap(c)
                /\ Slots(c.entries, c.depth)
                /\ c.depth = IF e.Start < start /\ end < e.End THEN m.depth + 2 ELSE m.depth + 1
                /\ Accounted(c) = Accounted(m) /\ m.free <= c.free
<1>c. PICK c : c = ConvertRange(m, e, start, end, type)
  OBVIOUS
<1>1. PICK k : /\ k = Clipped(m, e, start, end)
               /\ Slots(k.entries, k.depth)
               /\ k.depth = IF e.Start < start /\ end < e.End THEN m.depth + 1 ELSE m.depth
               /\ Accounted(k) = Accounted(m) /\ m.free <= k.free
  BY ClippingKeepsSlots
<1>2. /\ Slots(k.entries, k.depth)
      /\ k.depth = IF e.Start < start /\ end < e.End THEN m.depth + 1 ELSE m.depth
      /\ Accounted(k) = Accounted(m) /\ m.free <= k.free
  BY <1>1
<1>3. IsMap(k) /\ k.entries \subseteq Entry
  <2>1. IsMap(k) /\ SoundBut(k.entries, R, start, end, e.Attribute)
    BY <1>1, ClippingLeavesSound
  <2> QED BY <2>1 DEF SoundBut
<1>4. c = CoreAddRange(k, type, start, end, e.Attribute)
  BY <1>c, <1>1 DEF ConvertRange
<1>5. /\ Slots(c.entries, c.depth) /\ c.depth = k.depth + 1
      /\ Accounted(c) = Accounted(k) /\ k.free <= c.free
  BY <1>2, <1>3, <1>4, AddingKeepsSlots
<1>6. IsMap(c)
  BY <1>3, <1>4, AddingIsMap
<1>7. c.depth = IF e.Start < start /\ end < e.End THEN m.depth + 2 ELSE m.depth + 1
  BY <1>2, <1>5 DEF IsMap
<1>8. Accounted(c) = Accounted(m) /\ m.free <= c.free
  BY <1>2, <1>3, <1>5, <1>6 DEF IsMap
<1> QED BY <1>c, <1>5, <1>6, <1>7, <1>8

LEMMA EntriesEnd ==
  ASSUME MapInv, NEW e \in gMemoryMap
  PROVE  e.Start \in Nat /\ e.End \in Nat /\ e.Start <= e.End /\ e.End <= LastPage
<1>1. e.Start \in Nat /\ e.End \in Nat /\ e.Start <= e.End
  BY DEF MapInv, Sound, Entry
<1>2. e.End \in e.Start..e.End
  BY <1>1
<1>3. PICK r \in regions : Covers(r, e.End)
  BY <1>2 DEF MapInv, Sound, CoversTheRegions
<1>4. r \in Regions /\ e.End <= r.End /\ r.End \in Nat
  BY <1>3, RegionsAreRanges DEF MapInv, Covers
<1> QED BY <1>1, <1>4, LastPageIsNat

\* A page that is free, and is not page 0, is found.
LEMMA FreePageFound ==
  ASSUME MapInv, PageIsFree
  PROVE  CoreFindFreePagesI(Map, LastPage, 1) # {}
<1> DEFINE fits == {e \in gMemoryMap : e.Type = EfiConventionalMemory}
           ends == {e.End : e \in fits}
<1>1. PICK p \in Nat \ {0} : OfType(gMemoryMap, p, EfiConventionalMemory)
  BY DEF PageIsFree
<1>2. PICK e \in gMemoryMap : Covers(e, p) /\ e.Type = EfiConventionalMemory
  BY <1>1 DEF OfType
<1>3. e.End # 0 /\ e \in fits
  BY <1>1, <1>2, EntriesEnd DEF Covers
<1>4. ends \in SUBSET Nat /\ ends # {}
  BY <1>3, EntriesEnd
<1>5. IsFiniteSet(ends)
  <2>1. PICK f : f = [x \in fits |-> x.End]
    OBVIOUS
  <2>2. f \in Surjection(fits, ends)
    BY <2>1 DEF Surjection
  <2>3. IsFiniteSet(fits)
    BY FS_Subset DEF MapInv
  <2> QED BY <2>2, <2>3, FS_Surjection
<1>6. \E x \in ends : \A y \in ends : x >= y
  <2> HIDE DEF ends
  <2> QED BY <1>4, <1>5, LargestExists
<1>7. PICK b \in fits : \A f \in fits : f.End <= b.End
  <2>1. PICK x \in ends : \A y \in ends : x >= y
    BY <1>6
  <2>2. PICK b \in fits : x = b.End
    BY <2>1
  <2>3. \A f \in fits : f.End \in ends /\ f.End \in Nat /\ b.End \in Nat
    BY EntriesEnd
  <2> QED BY <2>1, <2>2, <2>3
<1>8. b.End # 0
  BY <1>3, <1>7, EntriesEnd
<1>9. \A f \in gMemoryMap : (IF f.End <= LastPage THEN f.End ELSE LastPage) = f.End
  BY EntriesEnd
<1>10. b.Start <= LastPage /\ b.End + 1 >= b.Start + 1 /\ b.End + 1 - 1 = b.End
  BY EntriesEnd, LastPageIsNat
<1>11. b.End \in CoreFindFreePagesI(Map, LastPage, 1)
  <2>1. Map.entries = gMemoryMap
    BY MapIsMap
  <2> QED BY <1>7, <1>8, <1>9, <1>10, <2>1 DEF CoreFindFreePagesI
<1> QED BY <1>11
-----------------------------------------------------------------------------
(* The steps.                                                              *)

LEMMA StackInitially == Init => StackInv
<1> SUFFICES ASSUME Init PROVE StackInv
  OBVIOUS
<1>1. gMemoryMap = {} /\ mMapDepth = 0 /\ mFreeMemoryMapEntries = 0 /\ backing = {}
      /\ regions = {} /\ pc = "Idle"
  BY DEF Init
<1>2. IsFiniteSet(backing) /\ Cardinality(backing) = 0
  BY <1>1, FS_EmptySet
<1>3. FromPages(gMemoryMap) = 0
  <2>1. {e \in gMemoryMap : e.slot = 0} = {}
    BY <1>1
  <2> QED BY <2>1, FS_EmptySet DEF FromPages
<1>4. EntriesPerPage * 0 = 0
  BY EntryAssumption
<1>5. Slots(gMemoryMap, mMapDepth)
  BY <1>1 DEF Slots
<1>6. SlotInv
  BY <1>1, <1>2, <1>3, <1>4, <1>5 DEF SlotInv
<1>7. Promotions = 0
  <2>1. Untested \cap regions = {}
    BY <1>1
  <2> QED BY <2>1, FS_EmptySet DEF Promotions
<1>8. DepthInv
  BY <1>1, <1>7 DEF DepthInv
<1> QED BY <1>6, <1>8 DEF StackInv

\* A region that is promoted takes one slot and counts as one.
LEMMA PromotionsCount ==
  ASSUME MapInv, MapInv', regions \subseteq regions'
  PROVE  /\ Promotions \in Nat /\ Promotions' \in Nat /\ Promotions <= Promotions'
         /\ \A r \in Untested \ regions :
              regions' = regions \cup {r} => Promotions' = Promotions + 1
<1> DEFINE P == Untested \cap regions
           Q == Untested \cap regions'
<1>1. P \in SUBSET Regions /\ Q \in SUBSET Regions /\ P \in SUBSET Q
  BY DEF Regions
<1>2. Promotions = Cardinality(P) /\ Promotions' = Cardinality(Q)
  BY DEF Promotions
<1>3. ASSUME NEW r \in Untested \ regions, regions' = regions \cup {r}
      PROVE  Q = P \cup {r} /\ r \notin P
  BY <1>3
<1> HIDE DEF P, Q
<1>4. IsFiniteSet(P) /\ IsFiniteSet(Q)
  BY <1>1, FS_Subset, RegionAssumption
<1>5. Cardinality(P) \in Nat /\ Cardinality(Q) \in Nat /\ Cardinality(P) <= Cardinality(Q)
  BY <1>1, <1>4, FS_Subset, FS_CardinalityType
<1>6. ASSUME NEW r \in Untested \ regions, regions' = regions \cup {r}
      PROVE  Cardinality(Q) = Cardinality(P) + 1
  BY <1>3, <1>4, <1>6, FS_AddElement
<1> QED BY <1>2, <1>5, <1>6

\* A new region takes one slot.
LEMMA RegionKeepsSlots ==
  ASSUME IInv, SlotInv, NEW r,
         Install(CoreAddRange(Map, EfiConventionalMemory, r.Start, r.End, r.Attribute)),
         backing' = backing
  PROVE  /\ SlotInv' /\ mMapDepth' = mMapDepth + 1
         /\ mFreeMemoryMapEntries <= mFreeMemoryMapEntries'
<1>1. PICK m : m = Map
  OBVIOUS
<1>2. IsMap(m) /\ m.entries = gMemoryMap /\ m.depth = mMapDepth /\ m.free = mFreeMemoryMapEntries
  BY <1>1, MapIsMap DEF IInv, Map
<1>3. PICK c : c = CoreAddRange(m, EfiConventionalMemory, r.Start, r.End, r.Attribute)
  OBVIOUS
<1>4. m.entries \subseteq Entry /\ Slots(m.entries, m.depth)
  BY <1>2 DEF IInv, MapInv, Sound, SlotInv
<1>5. /\ Slots(c.entries, c.depth) /\ c.depth = m.depth + 1
      /\ Accounted(c) = Accounted(m) /\ m.free <= c.free
  BY <1>2, <1>3, <1>4, AddingKeepsSlots
<1>6. gMemoryMap' = c.entries /\ mMapDepth' = c.depth /\ mFreeMemoryMapEntries' = c.free
  BY <1>1, <1>3, InstallSets
<1> QED BY <1>2, <1>5, <1>6 DEF SlotInv, Accounted

\* Two slots are taken out of the center of an entry, which leaves or makes a free page.
LEMMA PagesKeepSlots ==
  ASSUME IInv, SlotInv, CoreConvertPages, mMapDepth = 0
  PROVE  /\ SlotInv'
         /\ mMapDepth' = 1 \/ (mMapDepth' = 2 /\ PageIsFree')
<1>1. call \in ConvertCall
  BY DEF CoreConvertPages, IInv, CallInv
<1>2. call.Start \in Nat /\ call.End \in Nat /\ call.Type \in MemoryTypes
      /\ call.Start <= call.End
  BY <1>1 DEF CoreConvertPages, ConvertCall
<1>3. PICK e \in gMemoryMap :
        /\ Covers(e, call.Start) /\ Compatible(e, call.Type)
        /\ Install(ConvertRange(Map, e, call.Start,
                     IF e.End < call.End THEN e.End ELSE call.End, call.Type))
  BY DEF CoreConvertPages
<1>4. e.Start \in Nat /\ e.End \in Nat /\ e.Start <= call.Start /\ call.Start <= e.End
  BY <1>3, EntriesEnd DEF IInv, Covers
<1>5. PICK end \in Nat : /\ end = IF e.End < call.End THEN e.End ELSE call.End
                         /\ call.Start <= end /\ end <= e.End /\ end <= call.End
  BY <1>2, <1>4
<1>6. PICK m : m = Map
  OBVIOUS
<1>7. IsMap(m) /\ m.entries = gMemoryMap /\ m.depth = mMapDepth /\ m.free = mFreeMemoryMapEntries
  BY <1>6, MapIsMap DEF IInv, Map
<1>8. Sound(m.entries, regions) /\ regions \in SUBSET Regions /\ Slots(m.entries, m.depth)
       /\ e \in m.entries
  BY <1>7 DEF IInv, MapInv, SlotInv
<1>9. PICK c : /\ c = ConvertRange(m, e, call.Start, end, call.Type)
               /\ Slots(c.entries, c.depth)
               /\ c.depth = IF e.Start < call.Start /\ end < e.End
                            THEN m.depth + 2 ELSE m.depth + 1
               /\ Accounted(c) = Accounted(m) /\ m.free <= c.free
  BY <1>2, <1>4, <1>5, <1>7, <1>8, ConvertingKeepsSlots
<1>10. /\ gMemoryMap' = c.entries /\ mMapDepth' = c.depth
      /\ mFreeMemoryMapEntries' = c.free /\ mMemoryMapKey' = c.key
  BY <1>3, <1>5, <1>6, <1>9, InstallSets
<1>12. backing' = backing /\ regions' = regions
  BY DEF CoreConvertPages
<1>13. SlotInv'
  BY <1>7, <1>10, <1>9, <1>12 DEF SlotInv, Accounted
<1>14. /\ \A p \in call.Start..end : OfType(gMemoryMap', p, call.Type)
       /\ \A p \in Nat \ (call.Start..end) : \A t :
            OfType(gMemoryMap, p, t) => OfType(gMemoryMap', p, t)
  <2>1. c = ConvertRange(Map, e, call.Start, end, call.Type) /\ MapInv
    BY <1>6, <1>9 DEF IInv
  <2> QED BY <1>2, <1>4, <1>5, <1>10, <1>12, <2>1, RangeConverted
<1>15. CASE e.Start < call.Start /\ end < e.End
  <2>1. mMapDepth' = 2
    BY <1>7, <1>10, <1>9, <1>15
  <2>2. CASE call.Type = EfiConventionalMemory
    <3>1. call.Start \in call.Start..end /\ call.Start # 0
      BY <1>2, <1>4, <1>5, <1>15
    <3> QED BY <1>2, <1>14, <2>1, <2>2, <3>1, <1>13 DEF PageIsFree
  <2>3. CASE call.Type # EfiConventionalMemory
    <3>1. e.Type = EfiConventionalMemory
      BY <1>3, <2>3 DEF Compatible
    <3>2. PICK p \in Nat \ {0} : p = end + 1
      OBVIOUS
    <3>3. Covers(e, p) /\ p \notin call.Start..end
      BY <1>2, <1>4, <1>5, <1>15, <3>2 DEF Covers
    <3>4. OfType(gMemoryMap, p, EfiConventionalMemory)
      BY <3>1, <3>3 DEF OfType
    <3>5. OfType(gMemoryMap', p, EfiConventionalMemory)
      BY <1>14, <3>2, <3>3, <3>4
    <3> QED BY <1>13, <2>1, <3>2, <3>5 DEF PageIsFree
  <2> QED BY <2>2, <2>3
<1>16. CASE ~(e.Start < call.Start /\ end < e.End)
  BY <1>7, <1>10, <1>9, <1>13, <1>16
<1> QED BY <1>15, <1>16

\* A page of entries is the last of its entry and takes one slot.
LEMMA EntryPageKeepsSlots ==
  ASSUME IInv, OwnerInv, SlotInv, NEW start, NEW e \in gMemoryMap,
         AllocateMemoryMapEntry(start, e)
  PROVE  SlotInv' /\ mMapDepth' = mMapDepth + 1 /\ 3 <= mFreeMemoryMapEntries'
<1>1. PICK f \in gMemoryMap :
        LET last == IF f.End <= LastPage THEN f.End ELSE LastPage
        IN  /\ f.Type = EfiConventionalMemory
            /\ last + 1 >= f.Start + 1 /\ start = last + 1 - 1
  BY MapIsMap DEF AllocateMemoryMapEntry, CoreFindFreePagesI, IInv
<1>2. f.Start \in Nat /\ f.End \in Nat /\ f.Start <= f.End /\ f.End <= LastPage
  BY EntriesEnd DEF IInv
<1>3. start \in Nat /\ start = f.End
  BY <1>1, <1>2
<1>4. e.Start \in Nat /\ e.End \in Nat /\ e.Start <= start /\ start <= e.End
  BY EntriesEnd DEF AllocateMemoryMapEntry, IInv, Covers
<1>5. e.End = start
  <2>1. e = f \/ e.End < f.Start \/ f.End < e.Start
    BY DEF IInv, MapInv, Sound, EntriesDisjoint, Apart
  <2> QED BY <1>2, <1>3, <1>4, <2>1
<1>6. PICK m : m = Map
  OBVIOUS
<1>7. IsMap(m) /\ m.entries = gMemoryMap /\ m.depth = mMapDepth /\ m.free = mFreeMemoryMapEntries
  BY <1>6, MapIsMap DEF IInv, Map
<1>9. Sound(m.entries, regions) /\ regions \in SUBSET Regions /\ Slots(m.entries, m.depth)
      /\ e \in m.entries /\ EfiBootServicesData \in MemoryTypes
  BY <1>7 DEF IInv, MapInv, SlotInv, MemoryTypes
<1>10. PICK c : /\ c = ConvertRange(m, e, start, start, EfiBootServicesData) /\ IsMap(c)
                /\ Slots(c.entries, c.depth)
                /\ c.depth = IF e.Start < start /\ start < e.End
                             THEN m.depth + 2 ELSE m.depth + 1
                /\ Accounted(c) = Accounted(m) /\ m.free <= c.free
  <2>1. start <= start
    BY <1>3
  <2> QED BY <1>3, <1>4, <1>7, <1>9, <2>1, ConvertingKeepsSlots
<1>11. IsMap(c)
  BY <1>10
<1>12. PICK n : n = [c EXCEPT !.free = c.free + EntriesPerPage]
  OBVIOUS
<1>13. n.entries = c.entries /\ n.depth = c.depth /\ n.free = c.free + EntriesPerPage
  BY <1>11, <1>12 DEF IsMap
<1>14. gMemoryMap' = n.entries /\ mMapDepth' = n.depth /\ mFreeMemoryMapEntries' = n.free
  <2>1. Install([c EXCEPT !.free = @ + EntriesPerPage])
    BY <1>6, <1>10 DEF AllocateMemoryMapEntry
  <2> QED BY <1>12, <2>1, InstallSets
<1>15. backing' = backing \cup {start} /\ start \notin backing
  <2>1. OfType(gMemoryMap, start, EfiConventionalMemory)
    BY EntryPageConverted
  <2>2. NotOwned(start)
    BY <1>3, <2>1, FreePagesNotOwned DEF OwnerInv
  <2> QED BY <2>2 DEF NotOwned, AllocateMemoryMapEntry
<1>16. IsFiniteSet(backing') /\ Cardinality(backing') = Cardinality(backing) + 1
       /\ Cardinality(backing) \in Nat
  BY <1>15, FS_AddElement, FS_CardinalityType DEF SlotInv
<1>17. EntriesPerPage * Cardinality(backing') = EntriesPerPage * Cardinality(backing) + EntriesPerPage
  <2>1. \A x, y \in Nat : x * (y + 1) = x * y + x
    OBVIOUS
  <2> QED BY <1>16, <2>1, EntryAssumption
<1>18. FromPages(gMemoryMap') = FromPages(c.entries) /\ FromPages(c.entries) \in Nat
       /\ FromPages(gMemoryMap) \in Nat
  BY <1>11, <1>13, <1>14, FromPagesIsNat DEF IsMap, IInv, MapInv
<1>19. FromPages(gMemoryMap') + mFreeMemoryMapEntries' = EntriesPerPage * Cardinality(backing')
  <2>1. FromPages(c.entries) + c.free = FromPages(gMemoryMap) + mFreeMemoryMapEntries
    BY <1>7, <1>10 DEF Accounted
  <2>2. FromPages(gMemoryMap) + mFreeMemoryMapEntries = EntriesPerPage * Cardinality(backing)
    BY DEF SlotInv
  <2>3. c.free \in Nat /\ EntriesPerPage \in Nat
    BY <1>11, EntryAssumption DEF IsMap
  <2> QED BY <1>13, <1>14, <1>17, <1>18, <2>1, <2>2, <2>3
<1>20. SlotInv'
  BY <1>10, <1>13, <1>14, <1>16, <1>19 DEF SlotInv
<1>21. mMapDepth' = mMapDepth + 1
  BY <1>3, <1>5, <1>7, <1>10, <1>13, <1>14
<1>22. 3 <= mFreeMemoryMapEntries'
  <2>1. c.free \in Nat
    BY <1>11 DEF IsMap
  <2> QED BY <1>13, <1>14, <2>1, EntryAssumption
<1> QED BY <1>20, <1>21, <1>22

\* The entry of the top slot, if there is one, is an entry from pages now.
LEMMA MovingKeepsSlots ==
  ASSUME IInv, SlotInv, MoveEntry
  PROVE  /\ SlotInv' /\ mMapDepth' = mMapDepth - 1
         /\ mFreeMemoryMapEntries - 1 <= mFreeMemoryMapEntries'
<1> DEFINE top == {e \in gMemoryMap : e.slot = mMapDepth}
           rest == gMemoryMap \ top
<1>1. /\ gMemoryMap' = rest \cup {[e EXCEPT !.slot = 0] : e \in top}
      /\ mFreeMemoryMapEntries' = EntriesLeft(top) /\ mMapDepth' = mMapDepth - 1
      /\ backing' = backing /\ mMapDepth > 0 /\ mFreeMemoryMapEntries > 0
  BY DEF MoveEntry
<1>2. mMapDepth \in Nat /\ mFreeMemoryMapEntries \in Nat /\ IsFiniteSet(gMemoryMap)
  BY DEF IInv, MapInv
<1>3. \A e \in gMemoryMap : /\ e \in Entry /\ e.slot \in Nat /\ e.slot <= mMapDepth
                            /\ e.Start \in Nat /\ e.End \in Nat /\ e.Start <= e.End
  BY EntryFields DEF IInv, MapInv, Sound, SlotInv, Slots
<1>4. \A e, f \in gMemoryMap : e.slot = f.slot => e = f \/ e.slot = 0
  BY DEF SlotInv, Slots
<1>5. \A e \in rest : e \in gMemoryMap /\ e.slot <= mMapDepth - 1
  BY <1>2, <1>3
<1>6. CASE top = {}
  <2>1. gMemoryMap' = gMemoryMap /\ mFreeMemoryMapEntries' = mFreeMemoryMapEntries /\ rest = gMemoryMap
    BY <1>1, <1>6 DEF EntriesLeft
  <2>2. Slots(gMemoryMap', mMapDepth')
    BY <1>1, <1>4, <1>5, <2>1 DEF Slots
  <2>3. FromPages(gMemoryMap') = FromPages(gMemoryMap) /\ backing' = backing
    BY <1>1, <2>1
  <2>4. mFreeMemoryMapEntries - 1 <= mFreeMemoryMapEntries'
    BY <1>2, <2>1
  <2> HIDE DEF top
  <2> QED BY <1>1, <2>1, <2>2, <2>3, <2>4 DEF SlotInv
<1>7. CASE top # {}
  <2>1. PICK e : e \in top
    BY <1>7
  <2>2. top = {e} /\ e \in gMemoryMap /\ e.slot # 0
    BY <1>1, <1>2, <1>4, <2>1
  <2>3. PICK x : x = [e EXCEPT !.slot = 0]
    OBVIOUS
  <2>4. gMemoryMap' = rest \cup {x} /\ mFreeMemoryMapEntries' = mFreeMemoryMapEntries - 1
        /\ rest = gMemoryMap \ {e}
    BY <1>1, <1>7, <2>2, <2>3 DEF EntriesLeft
  <2>5. x.slot = 0 /\ x.Start = e.Start /\ x.End = e.End
    BY <1>3, <2>2, <2>3 DEF Entry
  <2>6. x \notin rest
    <3>1. \A f \in rest : f.End < e.Start \/ e.End < f.Start
      BY <2>2, <2>4 DEF IInv, MapInv, Sound, EntriesDisjoint, Apart
    <3> QED BY <1>3, <2>2, <2>5, <3>1
  <2> HIDE DEF top
  <2>7. IsFiniteSet(rest) /\ FromPages(rest) \in Nat
    <3>1. IsFiniteSet(rest)
      BY <1>2, <2>4, FS_RemoveElement
    <3> QED BY <3>1, FromPagesIsNat
  <2>8. FromPages(gMemoryMap) = FromPages(rest)
    <3>1. gMemoryMap = rest \cup {e} /\ e \notin rest
      BY <2>2, <2>4
    <3> HIDE DEF rest
    <3> QED BY <2>2, <2>7, <3>1, FromPagesAdd
  <2>9. FromPages(gMemoryMap') = FromPages(rest) + 1
    <3> HIDE DEF rest
    <3> QED BY <2>4, <2>5, <2>6, <2>7, FromPagesAdd
  <2>10. Slots(gMemoryMap', mMapDepth')
    <3>1. \A f \in gMemoryMap' : f = x \/ f \in rest
      BY <2>4
    <3>2. \A f \in gMemoryMap' : f.slot <= mMapDepth - 1
      BY <1>1, <1>2, <1>5, <2>5, <3>1
    <3>3. \A f \in rest : f \in gMemoryMap
      OBVIOUS
    <3> HIDE DEF rest
    <3>4. \A f, g \in gMemoryMap' : f.slot = g.slot => f = g \/ f.slot = 0
      BY <1>4, <2>5, <3>1, <3>3
    <3> QED BY <1>1, <3>2, <3>4 DEF Slots
  <2> QED BY <1>1, <1>2, <2>4, <2>7, <2>8, <2>9, <2>10 DEF SlotInv
<1> QED BY <1>6, <1>7

LEMMA PromotionsIsNat == Promotions \in Nat
<1>1. Untested \cap regions \in SUBSET Regions
  BY DEF Regions
<1> QED BY <1>1, FS_Subset, FS_CardinalityType, RegionAssumption DEF Promotions

\* Where the map does not change, only the service goes on.
LEMMA SameStack ==
  ASSUME StackInv, UNCHANGED <<gMemoryMap, mMapDepth, mFreeMemoryMapEntries, backing, regions>>,
         pc' = "PromoteMore" => mMapDepth <= Promotions + 1,
         pc' \in {"Idle", "Find", "Convert", "Promote"} => mMapDepth = 0,
         pc' = pc \/ mMapDepth = 0 \/ mMapDepth <= Promotions + 1
  PROVE  StackInv'
<1>1. SlotInv'
  BY DEF StackInv, SlotInv
<1>2. Promotions' = Promotions /\ (PageIsFree' <=> PageIsFree)
  BY DEF Promotions, PageIsFree
<1>3. \/ mMapDepth <= Promotions + 1
      \/ mMapDepth <= Promotions + 2 /\ mFreeMemoryMapEntries > 0
      \/ mMapDepth <= 3 /\ mMapDepth <= mFreeMemoryMapEntries
      \/ mMapDepth <= 2 /\ PageIsFree /\ pc = "FreeStack"
  BY DEF StackInv, DepthInv
<1>4. CASE pc' = pc
  BY <1>1, <1>2, <1>3, <1>4 DEF StackInv, DepthInv
<1>5. CASE mMapDepth <= Promotions + 1
  BY <1>1, <1>2, <1>5 DEF StackInv, DepthInv
<1>6. CASE mMapDepth = 0
  BY <1>5, <1>6, PromotionsIsNat
<1> QED BY <1>4, <1>5, <1>6

\* Every step of the system.
LEMMA StepKeepsStack ==
  ASSUME IInv, MapInv', OwnerInv, StackInv, [Next]_vars
  PROVE  StackInv'
<1> DEFINE Same == UNCHANGED <<gMemoryMap, mMapDepth, mFreeMemoryMapEntries, backing, regions>>
<1>a. SlotInv /\ DepthInv
  BY DEF StackInv
<1>b. /\ mMapDepth \in Nat /\ mFreeMemoryMapEntries \in Nat
      /\ mMapDepth' \in Nat /\ mFreeMemoryMapEntries' \in Nat
  BY DEF IInv, MapInv
<1>c. Promotions \in Nat
  BY PromotionsIsNat
<1>d. pc \in {"Idle", "Find", "Convert", "Promote"} => mMapDepth = 0
  BY <1>a DEF DepthInv
\* Steps of callers and of services that leave the map alone, with the stack empty.
<1>e. ASSUME Same, mMapDepth = 0, pc' # "PromoteMore" PROVE StackInv'
  <2>1. pc' = "PromoteMore" => mMapDepth <= Promotions + 1
    BY <1>e
  <2>2. pc' \in {"Idle", "Find", "Convert", "Promote"} => mMapDepth = 0
    BY <1>e
  <2> QED BY <1>e, <2>1, <2>2, SameStack
<1>1. ASSUME NEW r \in Tested, CoreAddMemoryDescriptor(r) PROVE StackInv'
  <2>1. /\ Install(CoreAddRange(Map, EfiConventionalMemory, r.Start, r.End, r.Attribute))
        /\ backing' = backing /\ regions' = regions \cup {r} /\ pc = "Idle" /\ pc' = "FreeStack"
    BY <1>1 DEF CoreAddMemoryDescriptor, MayCall
  <2>2. SlotInv' /\ mMapDepth' = mMapDepth + 1
    BY <1>a, <2>1, RegionKeepsSlots
  <2>3. PICK n \in Nat : n = Promotions'
    <3>1. regions \subseteq regions'
      BY <2>1
    <3> QED BY <3>1, PromotionsCount DEF IInv
  <2>4. mMapDepth' <= n + 1
    BY <1>d, <2>1, <2>2
  <2>5. mMapDepth' <= Promotions' + 1
    BY <2>3, <2>4
  <2> QED BY <2>1, <2>2, <2>5 DEF StackInv, DepthInv
<1>2. ASSUME NEW type, NEW n, NEW max, NEW gcd, CoreAllocatePages(type, n, max, gcd)
      PROVE  StackInv'
  BY <1>2, <1>d, <1>e DEF CoreAllocatePages, MayCall, map
<1>3. ASSUME NEW type, NEW start, NEW n, CoreAllocateAddress(type, start, n) PROVE StackInv'
  BY <1>3, <1>d, <1>e DEF CoreAllocateAddress, MayCall, map
<1>4. ASSUME NEW b, CoreFreePages(b) PROVE StackInv'
  BY <1>4, <1>d, <1>e DEF CoreFreePages, MayCall, map
<1>5. ASSUME CopyMap \/ ReadKey \/ CoreTerminateMemoryMap \/ DestroyContents PROVE StackInv'
  <2>1. Same /\ pc = "Idle" /\ pc' \in {"Idle", "Exited"}
    BY <1>5 DEF CopyMap, ReadKey, CoreTerminateMemoryMap, DestroyContents, map
  <2> QED BY <1>d, <1>e, <2>1
<1>6. ASSUME FindFreePages PROVE StackInv'
  <2>1. Same /\ pc = "Find" /\ pc' # "PromoteMore"
    BY <1>6 DEF FindFreePages, Return, map
  <2> QED BY <1>d, <1>e, <2>1
<1>7. ASSUME Promoted \/ ConvertFails \/ ConvertDone PROVE StackInv'
  <2>1. Same /\ pc \in {"Promote", "Convert"} /\ pc' # "PromoteMore"
    BY <1>7 DEF Promoted, ConvertFails, ConvertDone, Return, map
  <2> QED BY <1>d, <1>e, <2>1
<1>8. ASSUME NEW r \in Untested, PromoteMemoryResource(r) PROVE StackInv'
  <2>1. /\ Install(CoreAddRange(Map, EfiConventionalMemory, r.Start, r.End, r.Attribute))
        /\ backing' = backing /\ regions' = regions \cup {r} /\ r \in Untested \ regions
        /\ pc \in {"Promote", "PromoteMore"} /\ pc' \in {"FreeStack", "PromoteMore"}
    BY <1>8 DEF PromoteMemoryResource
  <2>2. SlotInv' /\ mMapDepth' = mMapDepth + 1
    BY <1>a, <2>1, RegionKeepsSlots
  <2>3. Promotions' = Promotions + 1
    <3>1. regions \subseteq regions'
      BY <2>1
    <3> QED BY <2>1, <3>1, PromotionsCount DEF IInv
  <2>4. mMapDepth <= Promotions + 1
    BY <1>a, <1>c, <1>d, <2>1 DEF DepthInv
  <2>5. mMapDepth' <= Promotions' + 1
    BY <1>b, <1>c, <2>2, <2>3, <2>4
  <2> QED BY <2>1, <2>2, <2>5 DEF StackInv, DepthInv
<1>9. ASSUME CoreConvertPages PROVE StackInv'
  <2>1. pc = "Convert" /\ pc' = "FreeStack" /\ regions' = regions
    BY <1>9 DEF CoreConvertPages
  <2>2. SlotInv' /\ (mMapDepth' = 1 \/ (mMapDepth' = 2 /\ PageIsFree'))
    BY <1>9, <1>a, <1>d, <2>1, PagesKeepSlots
  <2>3. Promotions' = Promotions
    BY <2>1 DEF Promotions
  <2>4. CASE mMapDepth' = 1
    <3>1. mMapDepth' <= Promotions' + 1
      BY <1>c, <2>3, <2>4
    <3> QED BY <2>1, <2>2, <3>1 DEF StackInv, DepthInv
  <2>5. CASE mMapDepth' = 2 /\ PageIsFree'
    <3>1. mMapDepth' <= 2
      BY <2>5
    <3> QED BY <2>1, <2>2, <2>5, <3>1 DEF StackInv, DepthInv
  <2> QED BY <2>2, <2>4, <2>5
<1>10. ASSUME NEW start, NEW e \in gMemoryMap, AllocateMemoryMapEntry(start, e) PROVE StackInv'
  <2>1. /\ NeedsEntry \/ HasPromoted
        /\ pc' = "FreeStack" /\ regions' = regions
    BY <1>10 DEF AllocateMemoryMapEntry
  <2>2. SlotInv' /\ mMapDepth' = mMapDepth + 1 /\ 3 <= mFreeMemoryMapEntries'
    BY <1>10, <1>a, EntryPageKeepsSlots
  <2>3. Promotions' = Promotions
    BY <2>1 DEF Promotions
  <2>4. mMapDepth <= Promotions + 1 \/ mMapDepth <= 2
    <3>1. CASE NeedsEntry
      <4>1. mMapDepth > 0 /\ mFreeMemoryMapEntries = 0
        BY <3>1 DEF NeedsEntry
      <4> QED BY <1>a, <1>b, <4>1 DEF DepthInv
    <3>2. CASE HasPromoted
      BY <1>a, <3>2 DEF DepthInv, HasPromoted
    <3> QED BY <2>1, <3>1, <3>2
  <2>5. \/ mMapDepth' <= Promotions' + 2 /\ mFreeMemoryMapEntries' > 0
        \/ mMapDepth' <= 3 /\ mMapDepth' <= mFreeMemoryMapEntries'
    BY <1>b, <1>c, <2>2, <2>3, <2>4
  <2> QED BY <2>1, <2>2, <2>5 DEF StackInv, DepthInv
<1>11. ASSUME NoPageForEntries PROVE StackInv'
  <2>1. /\ Same
        /\ NeedsEntry \/ HasPromoted
        /\ CoreFindFreePagesI(Map, LastPage, 1) = {}
        /\ pc' \in {"PromoteMore", "Asserted"}
    BY <1>11 DEF NoPageForEntries, map
  <2>2. ~PageIsFree
    BY <2>1, FreePageFound DEF IInv
  <2>3. mMapDepth <= Promotions + 1
    <3>1. CASE NeedsEntry
      <4>1. mMapDepth > 0 /\ mFreeMemoryMapEntries = 0
        BY <3>1 DEF NeedsEntry
      <4> QED BY <1>a, <1>b, <2>2, <4>1 DEF DepthInv
    <3>2. CASE HasPromoted
      BY <1>a, <3>2 DEF DepthInv, HasPromoted
    <3> QED BY <2>1, <3>1, <3>2
  <2> QED BY <2>1, <2>3, SameStack
<1>12. ASSUME MoveEntry PROVE StackInv'
  <2>1. pc = "FreeStack" /\ pc' = "FreeStack" /\ regions' = regions
    BY <1>12 DEF MoveEntry
  <2>2. /\ SlotInv' /\ mMapDepth' = mMapDepth - 1
        /\ mFreeMemoryMapEntries - 1 <= mFreeMemoryMapEntries'
    BY <1>12, <1>a, MovingKeepsSlots
  <2>3. Promotions' = Promotions
    BY <2>1 DEF Promotions
  <2>4. \/ mMapDepth <= Promotions + 1
        \/ mMapDepth <= Promotions + 2 /\ mFreeMemoryMapEntries > 0
        \/ mMapDepth <= 3 /\ mMapDepth <= mFreeMemoryMapEntries
        \/ mMapDepth <= 2
    BY <1>a DEF DepthInv
  <2>5. \/ mMapDepth' <= Promotions' + 1
        \/ mMapDepth' <= 3 /\ mMapDepth' <= mFreeMemoryMapEntries'
    BY <1>b, <1>c, <2>2, <2>3, <2>4
  <2> QED BY <2>1, <2>2, <2>5 DEF StackInv, DepthInv
<1>13. ASSUME StackIsFree PROVE StackInv'
  <2>1. Same /\ mMapDepth = 0 /\ pc = "FreeStack"
    BY <1>13 DEF StackIsFree, map
  <2>2. pc' # "PromoteMore"
    <3>1. call \in ConvertCall \cup AddCall \cup {c \in FindCall : c.next = "Promote"}
      BY <2>1 DEF IInv, CallInv
    <3>2. call.next \in {"Convert", "Done", "Promote"}
      BY <3>1 DEF ConvertCall, AddCall
    <3> QED BY <1>13, <3>2 DEF StackIsFree, Return
  <2> QED BY <1>e, <2>1, <2>2
<1>14. CASE UNCHANGED vars
  <2>1. Same /\ pc' = pc
    BY <1>14 DEF vars, map
  <2>2. pc' = "PromoteMore" => mMapDepth <= Promotions + 1
    BY <1>a, <2>1 DEF DepthInv
  <2> QED BY <1>d, <2>1, <2>2, SameStack
<1>15. CASE Caller
  BY <1>1, <1>2, <1>3, <1>4, <1>5, <1>15 DEF Caller
<1>16. CASE Service
  BY <1>6, <1>7, <1>8, <1>9, <1>10, <1>11, <1>12, <1>13, <1>16 DEF Service
<1> QED BY <1>14, <1>15, <1>16 DEF Next

LEMMA StackInvImplies == StackIsLargeEnough /\ IInv /\ StackInv => StackSound
<1> SUFFICES ASSUME StackIsLargeEnough, IInv, StackInv PROVE StackSound
  OBVIOUS
<1>1. Promotions \in Nat /\ Cardinality(Untested) \in Nat /\ Promotions <= Cardinality(Untested)
  <2>1. Untested \cap regions \in SUBSET Untested /\ Untested \in SUBSET Regions
    BY DEF Regions
  <2>2. IsFiniteSet(Untested)
    BY <2>1, FS_Subset, RegionAssumption
  <2>3. IsFiniteSet(Untested \cap regions)
    BY <2>1, <2>2, FS_Subset
  <2> QED BY <2>1, <2>2, <2>3, FS_Subset, FS_CardinalityType DEF Promotions
<1>2. mMapDepth \in Nat /\ mFreeMemoryMapEntries \in Nat
  BY DEF IInv, MapInv
<1>3. mMapDepth <= Promotions + 2 \/ mMapDepth <= 3
  BY <1>1, <1>2 DEF StackInv, DepthInv
<1>4. mMapDepth < MAX_MAP_DEPTH
  BY <1>1, <1>2, <1>3 DEF StackIsLargeEnough
<1> QED BY <1>4 DEF StackInv, SlotInv, Slots, StackSound

\* The stack of new entries never overflows when it has room for two and for each region
\* that may be promoted; no slot holds two entries, and entries from pages are in the map or
\* on the list of free ones, each once.
THEOREM StackSuffices == StackIsLargeEnough => (Spec => []StackSound)
<1>1. IInv /\ [Next]_vars => IInv'
  BY StepKeepsMap, StepKeepsCalls DEF IInv, MapStep
<1>2. IInv /\ OwnerInv /\ [Next]_vars => OwnerInv'
  BY StepKeepsOwners
<1>3. IInv /\ IInv' /\ OwnerInv /\ StackInv /\ [Next]_vars => StackInv'
  BY StepKeepsStack DEF IInv
<1>4. CASE StackIsLargeEnough
  <2>1. IInv /\ StackInv => StackSound
    BY <1>4, StackInvImplies
  <2>2. Spec => []StackSound
    BY <1>1, <1>2, <1>3, <2>1, InvariantInitially, OwnersInitially, StackInitially, PTL DEF Spec
  <2> QED BY <2>2
<1> QED BY <1>4
=============================================================================
