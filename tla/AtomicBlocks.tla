---------------------------- MODULE AtomicBlocks ----------------------------
(***************************************************************************)
(* What EFI_FTW_LITE_PROTOCOL promises (FtwLite.c:66-70): a write replaces *)
(* the contents of its block in one step.  A power failure forgets the     *)
(* request, before or after that step; a call that returns success has     *)
(* taken it.                                                               *)
(***************************************************************************)
EXTENDS Naturals

CONSTANTS Areas,    \* areas of the flash device that may be written
          Blocks,   \* the blocks of an area
          Data,     \* contents of a block
          None      \* no request

VARIABLES content,  \* [Areas -> [Blocks -> Data]]
          request   \* the write that is being served, or None

bvars == <<content, request>>

Request(area, block, value) ==
  /\ request = None
  /\ request' = [area |-> area, block |-> block, value |-> value]
  /\ UNCHANGED content

Commit ==
  /\ request # None
  /\ content' = [content EXCEPT ![request.area][request.block] = request.value]
  /\ UNCHANGED request

Succeed ==
  /\ request # None
  /\ content[request.area][request.block] = request.value
  /\ request' = None
  /\ UNCHANGED content

\* The call returns an error, or the power fails.  FtwLite requires on top of Spec
\* that what returns success is Succeed and no GiveUp.
GiveUp ==
  /\ request # None
  /\ request' = None
  /\ UNCHANGED content

Next ==
  \/ \E area \in Areas, block \in Blocks, value \in Data : Request(area, block, value)
  \/ Commit \/ Succeed \/ GiveUp

Init == content \in [Areas -> [Blocks -> Data]] /\ request = None
Spec == Init /\ [][Next]_bvars
=============================================================================
