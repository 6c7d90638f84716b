----------------------------- MODULE NotifyQueue -----------------------------
(***************************************************************************)
(* What RegisterProtocolNotify promises: a registration is a queue of the  *)
(* interfaces of its protocol.  It starts with those that are installed,   *)
(* each install appends, each locate call takes the first, and what is     *)
(* uninstalled leaves the queue wherever it is.  Nothing is skipped,       *)
(* repeated or returned out of order.                                      *)
(***************************************************************************)
EXTENDS Lists

CONSTANTS Regs, Guids, Prots,
          NoGuid      \* not a protocol

VARIABLES
  installed,    \* [Guids -> interfaces of the protocol, oldest first]
  watched,      \* [Regs -> the registration's protocol, or NoGuid]
  unseen        \* [Regs -> interfaces it has not returned yet]

qvars == <<installed, watched, unseen>>

Init ==
  /\ installed = [g \in Guids |-> <<>>]
  /\ watched = [r \in Regs |-> NoGuid]
  /\ unseen = [r \in Regs |-> <<>>]

Register(r, g) ==
  /\ watched[r] = NoGuid
  /\ watched' = [watched EXCEPT ![r] = g]
  /\ unseen' = [unseen EXCEPT ![r] = installed[g]]
  /\ UNCHANGED installed

Unregister(r) ==
  /\ watched[r] # NoGuid
  /\ watched' = [watched EXCEPT ![r] = NoGuid]
  /\ unseen' = [unseen EXCEPT ![r] = <<>>]
  /\ UNCHANGED installed

\* The protocol's list and the queues of its registrations change alike.
Change(g, Op(_)) ==
  /\ installed' = [installed EXCEPT ![g] = Op(@)]
  /\ unseen' = [r \in Regs |-> IF watched[r] = g THEN Op(unseen[r]) ELSE unseen[r]]
  /\ UNCHANGED watched

Arrive(g, p) ==
  /\ \A h \in Guids : p \notin Members(installed[h])
  /\ Change(g, LAMBDA list : InsertTailList(list, p))
Leave(g, p)  == p \in Members(installed[g]) /\ Change(g, LAMBDA list : RemoveEntryList(list, p))
Move(g, p)   ==
  /\ p \in Members(installed[g])
  /\ Change(g, LAMBDA list : InsertTailList(RemoveEntryList(list, p), p))

Return(r) ==
  /\ unseen[r] # <<>>
  /\ unseen' = [unseen EXCEPT ![r] = Tail(@)]
  /\ UNCHANGED <<installed, watched>>

Next ==
  \/ \E r \in Regs : Unregister(r) \/ Return(r) \/ \E g \in Guids : Register(r, g)
  \/ \E g \in Guids, p \in Prots : Arrive(g, p) \/ Leave(g, p) \/ Move(g, p)

Spec == Init /\ [][Next]_qvars
=============================================================================
