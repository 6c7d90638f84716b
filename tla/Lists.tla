------------------------------- MODULE Lists -------------------------------
(***************************************************************************)
(* The circular doubly linked lists (EFI_LIST_ENTRY) that every service of *)
(* the DXE core keeps its objects in, seen from the list head: a sequence. *)
(* An entry is on a list at most once, so an entry is named by its object. *)
(***************************************************************************)
EXTENDS Naturals, Sequences

Members(list) == {list[i] : i \in 1..Len(list)}

InsertTailList(list, x) == Append(list, x)

\* The new entry is linked in front of the k-th one (k = Len + 1: at the tail).
InsertBefore(list, k, x) ==
  [i \in 1..(Len(list) + 1) |->
     IF i < k THEN list[i] ELSE IF i = k THEN x ELSE list[i - 1]]

InsertHeadList(list, x) == InsertBefore(list, 1, x)

RemoveAtIndex(list, k) ==
  [i \in 1..(Len(list) - 1) |-> IF i < k THEN list[i] ELSE list[i + 1]]

\* Unlinks x; the callers test ForwardLink # NULL first, so a list that does
\* not hold x is left alone.
RemoveEntryList(list, x) ==
  IF x \in Members(list)
  THEN RemoveAtIndex(list, CHOOSE k \in 1..Len(list) : list[k] = x)
  ELSE list

NoDuplicates(list) == \A i, j \in 1..Len(list) : list[i] = list[j] => i = j
=============================================================================
