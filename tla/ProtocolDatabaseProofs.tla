----------------------- MODULE ProtocolDatabaseProofs -----------------------
(***************************************************************************)
(* The lists of the database and the Positions of its registrations agree, *)
(* for any handles, protocols, registrations and depth of the calls.  What *)
(* is assumed is RemoveInUse = FALSE: callbacks leave alone the interface  *)
(* that a service they interrupt has found and works on.                   *)
(*                                                                         *)
(* The invariant says of every frame of the call stack what it holds: the  *)
(* frames below the top one are those of interrupted services, and what a  *)
(* frame may do depends on what those below it hold.                       *)
(***************************************************************************)
EXTENDS ProtocolDatabase, ListsProofs, WellFoundedInduction

Tpls == {EFI_TPL_APPLICATION, EFI_TPL_CALLBACK, EFI_TPL_NOTIFY}
Entry == [Handle : Handles, Protocol : Guids, Interface : Interfaces]

\* The frames, by what they work on.
Removes     == {"uninstall", "uninstallStopped", "reinstall", "reinstallStopped", "refused"}
Opens       == {"exclusive", "exclusiveStopped"}
Installs    == {"installMultiple", "installOne", "installRollback"}
Uninstalls  == {"uninstallMultiple", "uninstallRollback"}
NoArgument  == {"app", "driver", "image"}

MultiArgs(hs) == [h : hs, list : Seq(Guids \X Interfaces), n : Nat, m : Nat, was : SUBSET Entry]

FramesOf(pcs, args) == [pc : pcs, tpl : Tpls, arg : args]
Frames ==
         FramesOf(NoArgument, {NULL})
    \cup FramesOf({"notify"}, [reg : Regs, saved : {"SUCCESS", "ERROR"}])
    \cup FramesOf({"callback"}, [reg : Regs \cup {NULL}, saved : {"SUCCESS", "ERROR"}])
    \cup FramesOf({"install"}, [h : Handles \cup {NULL}, g : Guids, i : Interfaces])
    \cup FramesOf(Removes, [h : Handles, p : Prots, i : Interfaces \cup {NULL}])
    \cup FramesOf(Opens \cup {"disconnect"}, [h : Handles, p : Prots, o : OpenData])
    \cup FramesOf({"reinstalled"}, [h : Handles, g : Guids])
    \cup [pc : Installs, tpl : {EFI_TPL_NOTIFY}, arg : MultiArgs(Handles \cup {NULL})]
    \cup FramesOf(Uninstalls, MultiArgs(Handles))
    \cup FramesOf({"stopChildren", "stop"},
                  [h : Handles, agent : Agents \cup {gDxeCoreImageHandle}])
    \cup FramesOf({"connect"}, [h : Handles])
    \cup FramesOf({"locateBuffer"}, [g : Guids, size : {Cardinality(S) : S \in SUBSET Handles}])
    \cup FramesOf({"connectByKey"}, SUBSET Handles)

\* One of the first n frames of s holds an interface of the protocol on the handle.
Held(s, n, pr, h, g) ==
  \E k \in 1..n : s[k].pc \in HoldsProt /\ s[k].arg.h = h /\ pr[s[k].arg.p].Protocol = g

\* What frame f may rely on, above the first n frames of s.
SoundOn(s, n, pr, nt, f) ==
  /\ f.pc = "install" =>
       /\ f.arg.h # NULL => ~Held(s, n, pr, f.arg.h, f.arg.g)
       /\ n >= 1 /\ s[n].pc = "installMultiple" => f.arg.h = s[n].arg.h
  /\ f.pc = "notify" => nt[f.arg.reg] # Free
  /\ f.pc \in HoldsProt => pr[f.arg.p] # Free /\ pr[f.arg.p].Handle = f.arg.h
  /\ f.pc \in Removes => ~Held(s, n, pr, f.arg.h, pr[f.arg.p].Protocol)
  /\ f.pc \in {"reinstall", "reinstallStopped"} => f.arg.i \in Interfaces
  /\ f.pc \in Installs =>
       /\ f.arg.n \in 0..Len(f.arg.list)
       /\ f.pc = "installOne" => f.arg.n < Len(f.arg.list)
       /\ f.pc = "installRollback" => f.arg.m >= 1
       /\ f.arg.h # NULL => \A j \in 1..(f.arg.n - 1) : ~Held(s, n, pr, f.arg.h, f.arg.list[j][1])
  /\ f.pc \in Uninstalls =>
       /\ f.arg.n \in 0..Len(f.arg.list)
       /\ f.pc = "uninstallRollback" => f.arg.m >= 1
       /\ f.pc = "uninstallMultiple" => \A j \in 1..Len(f.arg.list) : ~Held(s, n, pr, f.arg.h, f.arg.list[j][1])

StackSound(s, pr, nt) ==
  /\ s \in Seq(Frames)
  /\ Len(s) >= 1 /\ s[1].pc = "app"
  /\ \A k \in 1..Len(s) : SoundOn(s, k - 1, pr, nt, s[k])

\* The last argument that InstallMultiple processed: it was not on the handle, unless
\* that is why the call fails.
LastProcessed(s, status, pr) ==
  \A k \in 1..Len(s) :
    /\ s[k].pc \in {"installMultiple", "installOne"}
    /\ k < Len(s) \/ s[k].pc = "installOne" \/ status = "SUCCESS"
    /\ s[k].arg.n >= 1 /\ s[k].arg.h # NULL
    => ~Held(s, k - 1, pr, s[k].arg.h, s[k].arg.list[s[k].arg.n][1])

Calls(s, status, pr, nt) == StackSound(s, pr, nt) /\ LastProcessed(s, status, pr)

CallsSound == Calls(stack, Status, prot, notify)
SignalsSound == \A r \in signalled : Allocated(r)

IInv == TypeOK /\ CallsSound /\ SignalsSound /\ LinksSound
-----------------------------------------------------------------------------
(* The call stack.                                                         *)

\* The call at the top of a stack returns.
LEMMA PopSeq ==
  ASSUME NEW S, NEW s \in Seq(S), Len(s) >= 1
  PROVE  /\ Pop(s) \in Seq(S) /\ Len(Pop(s)) = Len(s) - 1
         /\ \A k \in 1..(Len(s) - 1) : Pop(s)[k] = s[k]
<1>1. Len(s) - 1 \in Nat /\ \A k \in 1..(Len(s) - 1) : s[k] \in S
  OBVIOUS
<1> QED BY <1>1, IntervalSeq DEF Pop

\* What a frame has as its argument.
LEMMA FrameArgs ==
  ASSUME NEW f \in Frames
  PROVE  /\ f.pc \in Labels /\ f.tpl \in Tpls
         /\ f = [pc |-> f.pc, tpl |-> f.tpl, arg |-> f.arg]
         /\ f.pc = "notify" => f.arg \in [reg : Regs, saved : {"SUCCESS", "ERROR"}]
         /\ f.pc = "callback" => f.arg \in [reg : Regs \cup {NULL}, saved : {"SUCCESS", "ERROR"}]
         /\ f.pc = "install" => f.arg \in [h : Handles \cup {NULL}, g : Guids, i : Interfaces]
         /\ f.pc \in Removes => f.arg \in [h : Handles, p : Prots, i : Interfaces \cup {NULL}]
         /\ f.pc \in Opens \cup {"disconnect"} => f.arg \in [h : Handles, p : Prots, o : OpenData]
         /\ f.pc = "reinstalled" => f.arg \in [h : Handles, g : Guids]
         /\ f.pc \in Installs => f.tpl = EFI_TPL_NOTIFY /\ f.arg \in MultiArgs(Handles \cup {NULL})
         /\ f.pc \in Uninstalls => f.arg \in MultiArgs(Handles)
         /\ f.pc \in {"stopChildren", "stop"} =>
              f.arg \in [h : Handles, agent : Agents \cup {gDxeCoreImageHandle}]
         /\ f.pc = "connect" => f.arg \in [h : Handles]
         /\ f.pc = "connectByKey" => f.arg \subseteq Handles
BY DEF Frames, FramesOf, Labels, ClientPc, Locked, NoArgument, Removes, Opens, Installs, Uninstalls, Tpls

\* The frames that the services build.
LEMMA BuildFrames ==
  ASSUME NEW tpl \in Tpls
  PROVE  /\ \A pc \in NoArgument : Frame(pc, tpl, NULL) \in Frames
         /\ \A a \in [reg : Regs, saved : {"SUCCESS", "ERROR"}] : Frame("notify", tpl, a) \in Frames
         /\ \A a \in [reg : Regs \cup {NULL}, saved : {"SUCCESS", "ERROR"}] : Frame("callback", tpl, a) \in Frames
         /\ \A a \in [h : Handles \cup {NULL}, g : Guids, i : Interfaces] : Frame("install", tpl, a) \in Frames
         /\ \A pc \in Removes : \A a \in [h : Handles, p : Prots, i : Interfaces \cup {NULL}] :
              Frame(pc, tpl, a) \in Frames
         /\ \A pc \in Opens \cup {"disconnect"} : \A a \in [h : Handles, p : Prots, o : OpenData] :
              Frame(pc, tpl, a) \in Frames
         /\ \A a \in [h : Handles, g : Guids] : Frame("reinstalled", tpl, a) \in Frames
         /\ \A pc \in Installs : \A a \in MultiArgs(Handles \cup {NULL}) :
              tpl = EFI_TPL_NOTIFY => Frame(pc, tpl, a) \in Frames
         /\ \A pc \in Uninstalls : \A a \in MultiArgs(Handles) : Frame(pc, tpl, a) \in Frames
         /\ \A pc \in {"stopChildren", "stop"} :
              \A a \in [h : Handles, agent : Agents \cup {gDxeCoreImageHandle}] : Frame(pc, tpl, a) \in Frames
         /\ \A a \in [h : Handles] : Frame("connect", tpl, a) \in Frames
         /\ \A a \in [g : Guids, size : {Cardinality(S) : S \in SUBSET Handles}] :
              Frame("locateBuffer", tpl, a) \in Frames
         /\ \A a \in SUBSET Handles : Frame("connectByKey", tpl, a) \in Frames
BY DEF Frames, FramesOf, Frame

LEMMA HeldSame ==
  ASSUME NEW s, NEW t, NEW n, NEW pr, NEW h, NEW g, \A k \in 1..n : s[k] = t[k]
  PROVE  Held(s, n, pr, h, g) <=> Held(t, n, pr, h, g)
BY DEF Held

LEMMA SoundOnSame ==
  ASSUME NEW s, NEW t, NEW n \in Nat, NEW pr, NEW nt, NEW f, \A k \in 1..n : s[k] = t[k],
         SoundOn(s, n, pr, nt, f)
  PROVE  SoundOn(t, n, pr, nt, f)
<1>1. \A h, g : Held(s, n, pr, h, g) <=> Held(t, n, pr, h, g)
  BY HeldSame
<1>2. n >= 1 => s[n] = t[n]
  OBVIOUS
<1> QED BY <1>1, <1>2 DEF SoundOn

LEMMA PopCalls ==
  ASSUME NEW s, NEW status, NEW pr, NEW nt, Calls(s, status, pr, nt),
         s[Len(s)].pc # "app"
  PROVE  /\ \A status2 : Calls(Pop(s), status2, pr, nt)
         /\ Len(s) >= 2 /\ Len(Pop(s)) = Len(s) - 1
         /\ \A k \in 1..(Len(s) - 1) : Pop(s)[k] = s[k]
<1>1. s \in Seq(Frames) /\ Len(s) >= 1 /\ s[1].pc = "app" /\ Len(s) \in Nat
  BY DEF Calls, StackSound
<1>2. Len(s) >= 2
  BY <1>1
<1>3. Pop(s) \in Seq(Frames) /\ Len(Pop(s)) = Len(s) - 1 /\ \A k \in 1..(Len(s) - 1) : Pop(s)[k] = s[k]
  BY <1>1, PopSeq
<1>4. ASSUME NEW k \in 1..(Len(s) - 1)
      PROVE  SoundOn(Pop(s), k - 1, pr, nt, Pop(s)[k])
  <2>1. SoundOn(s, k - 1, pr, nt, s[k]) /\ k - 1 \in Nat
    BY <1>1 DEF Calls, StackSound
  <2>2. \A j \in 1..(k - 1) : s[j] = Pop(s)[j]
    BY <1>1, <1>3
  <2> QED BY <1>3, <2>1, <2>2, SoundOnSame
<1>5. StackSound(Pop(s), pr, nt)
  BY <1>1, <1>2, <1>3, <1>4 DEF StackSound
<1>6. ASSUME NEW status2, NEW k \in 1..Len(Pop(s)),
             Pop(s)[k].pc \in {"installMultiple", "installOne"},
             Pop(s)[k].arg.n >= 1, Pop(s)[k].arg.h # NULL
      PROVE  ~Held(Pop(s), k - 1, pr, Pop(s)[k].arg.h, Pop(s)[k].arg.list[Pop(s)[k].arg.n][1])
  <2>1. k \in 1..Len(s) /\ k < Len(s) /\ Pop(s)[k] = s[k]
    BY <1>1, <1>3
  <2>2. ~Held(s, k - 1, pr, s[k].arg.h, s[k].arg.list[s[k].arg.n][1])
    BY <1>6, <2>1 DEF Calls, LastProcessed
  <2>3. \A j \in 1..(k - 1) : s[j] = Pop(s)[j]
    BY <1>1, <1>3
  <2> QED BY <2>1, <2>2, <2>3, HeldSame
<1>7. \A status2 : LastProcessed(Pop(s), status2, pr)
  BY <1>6 DEF LastProcessed
<1> QED BY <1>2, <1>3, <1>5, <1>7 DEF Calls

\* A call adds a frame that may rely on those below it.
LEMMA PushCalls ==
  ASSUME NEW s, NEW status, NEW status2, NEW pr, NEW nt, NEW f \in Frames, Calls(s, status, pr, nt),
         status = "SUCCESS" \/ s[Len(s)].pc \notin {"installMultiple", "installOne"},
         SoundOn(s, Len(s), pr, nt, f),
         /\ f.pc = "installOne" \/ (f.pc = "installMultiple" /\ status2 = "SUCCESS")
         /\ f.arg.n >= 1 /\ f.arg.h # NULL
         => ~Held(s, Len(s), pr, f.arg.h, f.arg.list[f.arg.n][1])
  PROVE  Calls(Append(s, f), status2, pr, nt)
<1> DEFINE t == Append(s, f)
<1>1. s \in Seq(Frames) /\ Len(s) >= 1 /\ s[1].pc = "app" /\ Len(s) \in Nat
  BY DEF Calls, StackSound
<1>2. t \in Seq(Frames) /\ Len(t) = Len(s) + 1 /\ t[Len(t)] = f /\ \A k \in 1..Len(s) : t[k] = s[k]
  BY <1>1
<1> HIDE DEF t
<1>3. ASSUME NEW k \in 1..Len(t)
      PROVE  SoundOn(t, k - 1, pr, nt, t[k])
  <2>1. \A j \in 1..(k - 1) : s[j] = t[j]
    BY <1>1, <1>2
  <2>2. k - 1 \in Nat
    BY <1>1, <1>2
  <2>3. SoundOn(s, k - 1, pr, nt, t[k])
    <3>1. CASE k = Len(t)
      <4>1. k - 1 = Len(s)
        BY <3>1, <1>1, <1>2
      <4> QED BY <3>1, <4>1, <1>2
    <3>2. CASE k # Len(t)
      <4>1. k \in 1..Len(s) /\ t[k] = s[k]
        BY <3>2, <1>1, <1>2
      <4> QED BY <4>1 DEF Calls, StackSound
    <3> QED BY <3>1, <3>2
  <2> QED BY <2>1, <2>2, <2>3, SoundOnSame
<1>4. StackSound(t, pr, nt)
  BY <1>1, <1>2, <1>3 DEF StackSound
<1>5. ASSUME NEW k \in 1..Len(t), t[k].pc \in {"installMultiple", "installOne"},
             k < Len(t) \/ t[k].pc = "installOne" \/ status2 = "SUCCESS", t[k].arg.n >= 1, t[k].arg.h # NULL
      PROVE  ~Held(t, k - 1, pr, t[k].arg.h, t[k].arg.list[t[k].arg.n][1])
  <2>1. \A j \in 1..(k - 1) : s[j] = t[j]
    BY <1>1, <1>2
  <2>2. ~Held(s, k - 1, pr, t[k].arg.h, t[k].arg.list[t[k].arg.n][1])
    <3>1. CASE k = Len(t)
      <4>1. k - 1 = Len(s) /\ t[k] = f /\ ~(k < Len(t))
        BY <3>1, <1>1, <1>2
      <4>2. f.pc = "installOne" \/ (f.pc = "installMultiple" /\ status2 = "SUCCESS")
        BY <1>5, <4>1
      <4>3. f.arg.n >= 1 /\ f.arg.h # NULL
        BY <1>5, <4>1
      <4>4. ~Held(s, Len(s), pr, f.arg.h, f.arg.list[f.arg.n][1])
        BY <4>2, <4>3
      <4> QED BY <4>1, <4>4
    <3>2. CASE k # Len(t)
      <4>1. k \in 1..Len(s) /\ t[k] = s[k] /\ (k < Len(s) \/ k = Len(s))
        BY <3>2, <1>1, <1>2
      <4>2. k < Len(s) \/ status = "SUCCESS"
        BY <1>5, <4>1
      <4> QED BY <1>5, <4>1, <4>2 DEF Calls, LastProcessed
    <3> QED BY <3>1, <3>2
  <2> QED BY <2>1, <2>2, HeldSame
<1>6. LastProcessed(t, status2, pr)
  BY <1>5 DEF LastProcessed
<1> QED BY <1>4, <1>6 DEF Calls, t

LEMMA StatusCalls ==
  ASSUME NEW s, NEW status, NEW status2, NEW pr, NEW nt, Calls(s, status, pr, nt),
         s[Len(s)].pc \notin {"installMultiple", "installOne"} \/ status2 # "SUCCESS"
  PROVE  Calls(s, status2, pr, nt)
<1>1. Len(s) \in Nat
  BY DEF Calls, StackSound
<1>2. \A k \in 1..Len(s) : k < Len(s) \/ k = Len(s)
  BY <1>1
<1> QED BY <1>1, <1>2 DEF Calls, LastProcessed

\* What a frame relies on stays true when the structures that frames hold stay.
LEMMA ChangedCalls ==
  ASSUME NEW s, NEW status, NEW pr, NEW nt, NEW pr2, NEW nt2, Calls(s, status, pr, nt),
         \A k \in 1..Len(s) : s[k].pc \in HoldsProt =>
            /\ pr2[s[k].arg.p] # Free
            /\ pr2[s[k].arg.p].Handle = pr[s[k].arg.p].Handle
            /\ pr2[s[k].arg.p].Protocol = pr[s[k].arg.p].Protocol,
         \A k \in 1..Len(s) : s[k].pc = "notify" /\ nt[s[k].arg.reg] # Free => nt2[s[k].arg.reg] # Free
  PROVE  Calls(s, status, pr2, nt2)
<1>1. Len(s) \in Nat
  BY DEF Calls, StackSound
<1>2. \A h, g : \A k \in 1..Len(s) : Held(s, k - 1, pr2, h, g) <=> Held(s, k - 1, pr, h, g)
  BY <1>1 DEF Held
<1>3. ASSUME NEW k \in 1..Len(s)
      PROVE  SoundOn(s, k - 1, pr2, nt2, s[k])
  <2>1. SoundOn(s, k - 1, pr, nt, s[k])
    BY DEF Calls, StackSound
  <2>2. \A h, g : Held(s, k - 1, pr2, h, g) <=> Held(s, k - 1, pr, h, g)
    BY <1>2
  <2>3. s[k].pc \in Removes => s[k].pc \in HoldsProt
    BY DEF Removes, HoldsProt, Locked
  <2> HIDE DEF Held
  <2> QED BY <2>1, <2>2, <2>3 DEF SoundOn
<1>4. StackSound(s, pr2, nt2)
  BY <1>3 DEF Calls, StackSound
<1>5. LastProcessed(s, status, pr2)
  BY <1>2 DEF Calls, LastProcessed
<1> QED BY <1>4, <1>5 DEF Calls

\* The call in progress, and the calls it interrupts.
LEMMA TopFacts ==
  ASSUME CallsSound
  PROVE  /\ stack \in Seq(Frames) /\ Len(stack) >= 1 /\ Len(stack) \in Nat
         /\ Top \in Frames
         /\ SoundOn(stack, Len(stack) - 1, prot, notify, Top)
         /\ Top.pc # "app" => /\ Len(stack) >= 2 /\ Len(Pop(stack)) = Len(stack) - 1
                              /\ \A status : Calls(Pop(stack), status, prot, notify)
                              /\ SoundOn(Pop(stack), Len(Pop(stack)), prot, notify, Top)
<1>1. stack \in Seq(Frames) /\ Len(stack) >= 1 /\ Len(stack) \in Nat
  BY DEF CallsSound, Calls, StackSound
<1>2. Top \in Frames /\ SoundOn(stack, Len(stack) - 1, prot, notify, Top)
  BY <1>1 DEF CallsSound, Calls, StackSound, Top
<1>3. ASSUME Top.pc # "app"
      PROVE  /\ Len(stack) >= 2 /\ Len(Pop(stack)) = Len(stack) - 1
             /\ \A status : Calls(Pop(stack), status, prot, notify)
             /\ SoundOn(Pop(stack), Len(Pop(stack)), prot, notify, Top)
  <2>1. /\ \A status : Calls(Pop(stack), status, prot, notify)
        /\ Len(stack) >= 2 /\ Len(Pop(stack)) = Len(stack) - 1
        /\ \A k \in 1..(Len(stack) - 1) : Pop(stack)[k] = stack[k]
    <3>1. stack[Len(stack)].pc # "app"
      BY <1>3 DEF Top
    <3>2. Calls(stack, Status, prot, notify)
      BY DEF CallsSound
    <3> QED BY <3>1, <3>2, PopCalls
  <2>2. SoundOn(Pop(stack), Len(stack) - 1, prot, notify, Top)
    <3>1. \A k \in 1..(Len(stack) - 1) : stack[k] = Pop(stack)[k]
      BY <2>1
    <3>2. Len(stack) - 1 \in Nat
      BY <1>1
    <3> QED BY <1>2, <3>1, <3>2, SoundOnSame
  <2> QED BY <2>1, <2>2
<1> QED BY <1>1, <1>2, <1>3
-----------------------------------------------------------------------------
(* The lists of the database.                                              *)

LEMMA Smallest ==
  ASSUME NEW B, B \subseteq Nat, B # {}
  PROVE  \E m \in B : \A n \in B : m <= n
<1> DEFINE R == OpToRel(<, Nat)
<1>1. IsWellFoundedOn(R, Nat)
  BY NatLessThanWellFounded
<1>2. \A x, y \in Nat : y < x => <<y, x>> \in R
  BY DEF OpToRel
<1> HIDE DEF R
<1>3. \E x \in B : \A y \in B : ~(<<y, x>> \in R)
  BY <1>1, WFMin
<1>4. PICK x \in B : \A y \in B : ~(<<y, x>> \in R)
  BY <1>3
<1>5. \A y \in B : x \in Nat /\ y \in Nat /\ ~(y < x)
  BY <1>2, <1>4
<1>6. \A y \in B : x <= y
  BY <1>5
<1> QED BY <1>6

LEMMA FirstOfFacts ==
  ASSUME NEW list \in Seq(Prots), NEW set
  PROVE  /\ FirstOf(list, set) = NULL => Members(list) \cap set = {}
         /\ FirstOf(list, set) # NULL => FirstOf(list, set) \in Members(list) \cap set
         /\ FirstOf(list, set) \in Prots \cup {NULL}
<1> DEFINE found == {k \in 1..Len(list) : list[k] \in set}
           first == CHOOSE k \in found : \A l \in found : k <= l
<1>1. \A p \in Prots : p # NULL
  BY StructureAssumption DEF Structures
<1>2. CASE found = {}
  <2>1. Members(list) \cap set = {}
    BY <1>2 DEF Members
  <2>2. FirstOf(list, set) = NULL
    BY <1>2 DEF FirstOf
  <2> QED BY <2>1, <2>2
<1>3. CASE found # {}
  <2>1. found \subseteq Nat
    OBVIOUS
  <2>2. \E k \in found : \A l \in found : k <= l
    <3> HIDE DEF found
    <3> QED BY <1>3, <2>1, Smallest
  <2>3. first \in found
    BY <2>2
  <2>4. FirstOf(list, set) = list[first]
    BY <1>3 DEF FirstOf
  <2> HIDE DEF first
  <2>5. list[first] \in Members(list) \cap set /\ list[first] \in Prots
    BY <2>3 DEF Members
  <2> QED BY <2>4, <2>5, <1>1
<1> QED BY <1>2, <1>3

\* Handle and Protocol say which lists a structure is on.
LEMMA InstalledFacts ==
  ASSUME TypeOK
  PROVE  /\ Installed \subseteq Prots
         /\ \A p \in Installed : prot[p] \in Entry
         /\ \A h \in Handles : Valid(h) => handle[h] \in Seq(Prots) /\ handle[h] # <<>>
         /\ \A h : Valid(h) => h \in Handles
BY DEF TypeOK, Installed, Entry, Valid

LEMMA GetFacts ==
  ASSUME TypeOK, DatabaseSound, NEW h, NEW g
  PROVE  /\ CoreGetProtocolInterface(h, g) # NULL =>
              /\ CoreGetProtocolInterface(h, g) \in Installed
              /\ prot[CoreGetProtocolInterface(h, g)].Handle = h
              /\ prot[CoreGetProtocolInterface(h, g)].Protocol = g
              /\ h \in Handles /\ Valid(h)
         /\ CoreGetProtocolInterface(h, g) = NULL =>
              \A p \in Installed : ~(prot[p].Handle = h /\ prot[p].Protocol = g)
<1>1. CASE ~Valid(h)
  <2>1. CoreGetProtocolInterface(h, g) = NULL
    BY <1>1 DEF CoreGetProtocolInterface
  <2>2. \A p \in Installed : prot[p].Handle # h
    BY <1>1 DEF DatabaseSound
  <2> QED BY <2>1, <2>2
<1>2. CASE Valid(h)
  <2> DEFINE set == {p \in Installed : prot[p].Protocol = g}
  <2>1. CoreGetProtocolInterface(h, g) = FirstOf(handle[h], set)
    BY <1>2 DEF CoreGetProtocolInterface
  <2>2. h \in Handles /\ handle[h] \in Seq(Prots)
    BY <1>2, InstalledFacts
  <2>3. Members(handle[h]) = {p \in Installed : prot[p].Handle = h}
    BY <1>2, <2>2 DEF DatabaseSound
  <2>4. /\ FirstOf(handle[h], set) = NULL => Members(handle[h]) \cap set = {}
        /\ FirstOf(handle[h], set) # NULL => FirstOf(handle[h], set) \in Members(handle[h]) \cap set
    <3> HIDE DEF set
    <3> QED BY <2>2, FirstOfFacts
  <2> QED BY <1>2, <2>1, <2>2, <2>3, <2>4
<1> QED BY <1>1, <1>2

LEMMA FindFacts ==
  ASSUME TypeOK, DatabaseSound, NEW h, NEW g, NEW i
  PROVE  /\ CoreFindProtocolInterface(h, g, i) # NULL =>
              /\ CoreFindProtocolInterface(h, g, i) \in Installed
              /\ prot[CoreFindProtocolInterface(h, g, i)].Handle = h
              /\ prot[CoreFindProtocolInterface(h, g, i)].Protocol = g
              /\ prot[CoreFindProtocolInterface(h, g, i)].Interface = i
              /\ h \in Handles /\ Valid(h)
         /\ CoreFindProtocolInterface(h, g, i) = NULL =>
              \A p \in Installed : ~(prot[p].Handle = h /\ prot[p].Protocol = g /\ prot[p].Interface = i)
<1>1. CASE ~Valid(h)
  <2>1. CoreFindProtocolInterface(h, g, i) = NULL
    BY <1>1 DEF CoreFindProtocolInterface
  <2>2. \A p \in Installed : prot[p].Handle # h
    BY <1>1 DEF DatabaseSound
  <2> QED BY <2>1, <2>2
<1>2. CASE Valid(h)
  <2> DEFINE set == {p \in Installed : prot[p].Protocol = g /\ prot[p].Interface = i}
  <2>1. CoreFindProtocolInterface(h, g, i) = FirstOf(handle[h], set)
    BY <1>2 DEF CoreFindProtocolInterface
  <2>2. h \in Handles /\ handle[h] \in Seq(Prots)
    BY <1>2, InstalledFacts
  <2>3. Members(handle[h]) = {p \in Installed : prot[p].Handle = h}
    BY <1>2, <2>2 DEF DatabaseSound
  <2>4. /\ FirstOf(handle[h], set) = NULL => Members(handle[h]) \cap set = {}
        /\ FirstOf(handle[h], set) # NULL => FirstOf(handle[h], set) \in Members(handle[h]) \cap set
    <3> HIDE DEF set
    <3> QED BY <2>2, FirstOfFacts
  <2> QED BY <1>2, <2>1, <2>2, <2>3, <2>4
<1> QED BY <1>1, <1>2

\* A service that holds an interface holds one that is installed.
LEMMA HeldIsInstalled ==
  ASSUME NEW s, NEW status, Calls(s, status, prot, notify), NEW h, NEW g,
         \A p \in Installed : ~(prot[p].Handle = h /\ prot[p].Protocol = g)
  PROVE  ~Held(s, Len(s), prot, h, g)
<1>1. s \in Seq(Frames)
  BY DEF Calls, StackSound
<1>2. ASSUME NEW k \in 1..Len(s), s[k].pc \in HoldsProt
      PROVE  s[k].arg.p \in Installed /\ prot[s[k].arg.p].Handle = s[k].arg.h
  <2>1. SoundOn(s, k - 1, prot, notify, s[k])
    BY DEF Calls, StackSound
  <2>2. s[k] \in Frames
    BY <1>1
  <2>3. s[k].arg.p \in Prots
    <3>1. s[k].pc \in Removes \/ s[k].pc \in Opens
      BY <1>2 DEF HoldsProt, Locked, Removes, Opens
    <3> QED BY <2>2, <3>1, FrameArgs
  <2> QED BY <1>2, <2>1, <2>3 DEF SoundOn, Installed
<1> QED BY <1>2 DEF Held
-----------------------------------------------------------------------------
(* Steps that leave the lists as they are.                                 *)

\* Records are kept of installed interfaces only.
RecordsSound(records) ==
  /\ records \in [Prots -> SUBSET OpenData]
  /\ \A p \in Prots \ Installed : records[p] = {}

LEMMA CallsType ==
  ASSUME NEW s, NEW status, NEW pr, NEW nt, Calls(s, status, pr, nt)
  PROVE  /\ s \in Seq(Frames) /\ Len(s) \in Nat /\ s # <<>>
         /\ \A k \in 1..Len(s) : s[k].pc \in Labels /\ s[k].tpl \in Tpls
<1>1. s \in Seq(Frames) /\ Len(s) >= 1
  BY DEF Calls, StackSound
<1>2. \A k \in 1..Len(s) : s[k] \in Frames
  BY <1>1
<1>3. \A k \in 1..Len(s) : s[k].pc \in Labels /\ s[k].tpl \in Tpls
  BY <1>2, FrameArgs
<1> QED BY <1>1, <1>3

LEMMA SameLists ==
  ASSUME IInv, UNCHANGED <<handle, entries, regs>>,
         newer' \subseteq Handles, modified' \subseteq Handles,
         RecordsSound(OpenList'), Status' \in {"SUCCESS", "ERROR"},
         Calls(stack', Status', prot, notify)
  PROVE  IInv'
<1>1. /\ prot' = prot /\ Protocols' = Protocols /\ handle' = handle
      /\ notify' = notify /\ signalled' = signalled /\ before' = before
  BY DEF entries, regs
<1>2. Installed' = Installed
  BY <1>1 DEF Installed
<1>3. CallsSound'
  BY <1>1 DEF CallsSound
<1>4. TypeOK'
  <2>1. /\ \A k \in 1..Len(stack') : /\ stack'[k].pc \in Labels
                                     /\ stack'[k].tpl \in {EFI_TPL_APPLICATION, EFI_TPL_CALLBACK, EFI_TPL_NOTIFY}
        /\ stack' # <<>>
    BY CallsType DEF Tpls
  <2>2. TypeOK
    BY DEF IInv
  <2> QED BY <1>1, <2>1, <2>2 DEF TypeOK, RecordsSound
<1>5. LinksSound'
  <2>1. \A h : Valid(h)' <=> Valid(h)
    BY <1>1 DEF Valid
  <2>2. \A r : Allocated(r)' <=> Allocated(r)
    BY <1>1 DEF Allocated
  <2>3. DatabaseSound'
    BY <1>1, <1>2, <2>1 DEF IInv, LinksSound, DatabaseSound, RecordsSound
  <2>4. PositionSound'
    BY <1>1, <2>2 DEF IInv, LinksSound, PositionSound
  <2> QED BY <2>3, <2>4 DEF LinksSound
<1>6. SignalsSound'
  BY <1>1 DEF IInv, SignalsSound, Allocated
<1> QED BY <1>3, <1>4, <1>5, <1>6 DEF IInv

LEMMA OnlyCalls ==
  ASSUME IInv, UNCHANGED <<handles, entries, OpenList, regs>>,
         Status' \in {"SUCCESS", "ERROR"}, Calls(stack', Status', prot, notify)
  PROVE  IInv'
<1>1. UNCHANGED <<handle, entries, regs>> /\ newer' = newer /\ modified' = modified
  BY DEF handles
<1>2. newer \subseteq Handles /\ modified \subseteq Handles
  BY DEF IInv, TypeOK
<1>3. RecordsSound(OpenList')
  BY DEF IInv, TypeOK, LinksSound, DatabaseSound, RecordsSound
<1> QED BY <1>1, <1>2, <1>3, SameLists

LEMMA OnlyRecords ==
  ASSUME IInv, UNCHANGED <<handles, entries, regs>>, RecordsSound(OpenList'),
         Status' \in {"SUCCESS", "ERROR"}, Calls(stack', Status', prot, notify)
  PROVE  IInv'
<1>1. UNCHANGED <<handle, entries, regs>> /\ newer' = newer /\ modified' = modified
  BY DEF handles
<1>2. newer \subseteq Handles /\ modified \subseteq Handles
  BY DEF IInv, TypeOK
<1> QED BY <1>1, <1>2, SameLists

\* A record of an installed interface is added.
LEMMA AddedRecord ==
  ASSUME IInv, NEW p \in Installed, NEW o \in OpenData,
         OpenList' = [OpenList EXCEPT ![p] = @ \cup {o}]
  PROVE  RecordsSound(OpenList')
BY DEF IInv, TypeOK, LinksSound, DatabaseSound, RecordsSound, Installed

LEMMA ReturnFacts ==
  ASSUME CallsSound, Top.pc # "app", NEW status \in {"SUCCESS", "ERROR"}, Return(status)
  PROVE  Calls(stack', Status', prot, notify) /\ Status' \in {"SUCCESS", "ERROR"}
BY TopFacts DEF Return

\* A frame on top of the calls that the present one interrupted.
LEMMA BecomeFacts ==
  ASSUME CallsSound, Top.pc # "app", NEW f \in Frames, NEW status2,
         SoundOn(Pop(stack), Len(Pop(stack)), prot, notify, f),
         /\ f.pc = "installOne" \/ (f.pc = "installMultiple" /\ status2 = "SUCCESS")
         /\ f.arg.n >= 1 /\ f.arg.h # NULL
         => ~Held(Pop(stack), Len(Pop(stack)), prot, f.arg.h, f.arg.list[f.arg.n][1])
  PROVE  Calls(Append(Pop(stack), f), status2, prot, notify)
<1>1. Calls(Pop(stack), "SUCCESS", prot, notify)
  BY TopFacts
<1> QED BY <1>1, PushCalls

\* The frames that rely on nothing.
Plain == NoArgument \cup {"callback", "disconnect", "reinstalled", "stopChildren", "stop",
                          "connect", "locateBuffer", "connectByKey"}
LEMMA PlainSound ==
  ASSUME NEW s, NEW n, NEW pr, NEW nt, NEW f, f.pc \in Plain
  PROVE  SoundOn(s, n, pr, nt, f) /\ f.pc \notin {"installMultiple", "installOne"}
BY DEF Plain, SoundOn, NoArgument, HoldsProt, Locked, Removes, Installs, Uninstalls

LEMMA PushPlain ==
  ASSUME NEW s, NEW status, NEW status2, NEW pr, NEW nt, NEW f \in Frames, f.pc \in Plain,
         Calls(s, status, pr, nt),
         status = "SUCCESS" \/ s[Len(s)].pc \notin {"installMultiple", "installOne"}
  PROVE  Calls(Append(s, f), status2, pr, nt)
<1>1. SoundOn(s, Len(s), pr, nt, f) /\ f.pc \notin {"installMultiple", "installOne"}
  BY PlainSound
<1> QED BY <1>1, PushCalls

LEMMA BecomePlain ==
  ASSUME CallsSound, Top.pc # "app", NEW f \in Frames, f.pc \in Plain, NEW status2
  PROVE  Calls(Append(Pop(stack), f), status2, prot, notify)
<1>1. Calls(Pop(stack), "SUCCESS", prot, notify)
  BY TopFacts
<1> QED BY <1>1, PushPlain
-----------------------------------------------------------------------------
(* Calls of the services that install and remove one interface.            *)

\* What callbacks leave alone.
NothingRemovedInUse == RemoveInUse = FALSE

\* An application, a driver or a notification function calls.
LEMMA ClientFacts ==
  ASSUME CallsSound, NEW service, May(service)
  PROVE  /\ Top.pc \in ClientPc
         /\ \A status : Calls(stack, status, prot, notify)
         /\ Top.pc \notin {"installMultiple", "installOne"} /\ stack[Len(stack)] = Top
         /\ Top.tpl \in Tpls
<1>1. Top.pc \in ClientPc
  BY DEF May
<1>2. Top.pc \notin {"installMultiple", "installOne"} /\ stack[Len(stack)] = Top
  BY <1>1 DEF ClientPc, Top
<1>3. Calls(stack, Status, prot, notify)
  BY DEF CallsSound
<1>4. \A status : Calls(stack, status, prot, notify)
  BY <1>2, <1>3, StatusCalls
<1>5. Top \in Frames
  BY TopFacts
<1> QED BY <1>1, <1>2, <1>4, <1>5, FrameArgs

LEMMA CallInstallFacts ==
  ASSUME TypeOK, DatabaseSound, NEW s, NEW h \in Handles \cup {NULL}, NEW g \in Guids, NEW i \in Interfaces,
         Calls(s, "ERROR", prot, notify),
         CoreGetProtocolInterface(h, g) = NULL => Calls(s, "SUCCESS", prot, notify),
         s[Len(s)].pc = "installMultiple" => h = s[Len(s)].arg.h,
         CallInstall(s, h, g, i)
  PROVE  Calls(stack', Status', prot, notify) /\ Status' \in {"SUCCESS", "ERROR"} /\ RecordsSound(OpenList')
<1> DEFINE p == CoreGetProtocolInterface(h, g)
           f == Frame("install", s[Len(s)].tpl, [h |-> h, g |-> g, i |-> i])
<1>1. RecordsSound(OpenList)
  BY DEF TypeOK, DatabaseSound, RecordsSound
<1>2. Status \in {"SUCCESS", "ERROR"}
  BY DEF TypeOK
<1>3. CASE p = NULL
  <2>1. stack' = Append(s, f) /\ UNCHANGED <<Status, OpenList>>
    BY <1>3 DEF CallInstall, Call
  <2>2. Calls(s, "SUCCESS", prot, notify)
    BY <1>3
  <2>3. s \in Seq(Frames) /\ Len(s) \in Nat /\ s # <<>> /\ s[Len(s)].tpl \in Tpls
    <3>1. s \in Seq(Frames) /\ Len(s) \in Nat /\ s # <<>> /\ \A k \in 1..Len(s) : s[k].tpl \in Tpls
      BY <2>2, CallsType
    <3> QED BY <3>1
  <2>4. f \in Frames /\ f.pc = "install" /\ f.arg = [h |-> h, g |-> g, i |-> i]
    <3>1. [h |-> h, g |-> g, i |-> i] \in [h : Handles \cup {NULL}, g : Guids, i : Interfaces]
      OBVIOUS
    <3>2. f \in Frames
      BY <2>3, <3>1, BuildFrames
    <3> QED BY <3>2 DEF Frame
  <2>5. ~Held(s, Len(s), prot, h, g)
    <3>1. \A q \in Installed : ~(prot[q].Handle = h /\ prot[q].Protocol = g)
      BY <1>3, GetFacts
    <3> QED BY <2>2, <3>1, HeldIsInstalled
  <2> HIDE DEF f
  <2>6. SoundOn(s, Len(s), prot, notify, f)
    BY <2>4, <2>5 DEF SoundOn, HoldsProt, Locked, Removes, Installs, Uninstalls
  <2>7. Calls(Append(s, f), Status', prot, notify)
    BY <2>2, <2>4, <2>6, PushCalls
  <2> QED BY <1>1, <1>2, <2>1, <2>7
<1>4. CASE p # NULL
  <2>1. HandleProtocol(p) /\ stack' = s /\ Status' = IF s[Len(s)].pc \in ClientPc THEN "SUCCESS" ELSE "ERROR"
    BY <1>4 DEF CallInstall
  <2>2. Calls(s, Status', prot, notify)
    <3>1. s[Len(s)].pc \in ClientPc => s[Len(s)].pc \notin {"installMultiple", "installOne"}
      BY DEF ClientPc
    <3>2. s[Len(s)].pc \notin {"installMultiple", "installOne"} \/ Status' # "SUCCESS"
      BY <2>1, <3>1
    <3> QED BY <3>2, StatusCalls
  <2>3. p \in Installed
    BY <1>4, GetFacts
  <2>4. Record(gDxeCoreImageHandle, NULL, {"USE"}) \in OpenData
    BY DEF Record, OpenData
  <2>5. RecordsSound(OpenList')
    <3>1. OpenList' = [OpenList EXCEPT ![p] = @ \cup {Record(gDxeCoreImageHandle, NULL, {"USE"})}]
      BY <2>1 DEF HandleProtocol
    <3> HIDE DEF p
    <3> QED BY <1>1, <2>3, <2>4, <3>1 DEF RecordsSound, Installed
  <2> QED BY <2>1, <2>2, <2>5
<1> QED BY <1>3, <1>4

LEMMA CallRemoveFacts ==
  ASSUME TypeOK, DatabaseSound, NEW s, NEW pc \in {"uninstall", "reinstall"},
         NEW h \in Handles \cup {NULL}, NEW g \in Guids, NEW i \in Interfaces,
         NEW new \in Interfaces \cup {NULL}, pc = "reinstall" => new \in Interfaces,
         Calls(s, "SUCCESS", prot, notify), s[Len(s)].pc \notin {"installMultiple", "installOne"},
         h \in Handles => ~Held(s, Len(s), prot, h, g),
         CallRemove(s, pc, h, g, i, new)
  PROVE  Calls(stack', Status', prot, notify) /\ Status' \in {"SUCCESS", "ERROR"}
<1> DEFINE p == CoreFindProtocolInterface(h, g, i)
           f == Frame(pc, s[Len(s)].tpl, [h |-> h, p |-> p, i |-> new])
<1>1. CASE p = NULL
  <2>1. stack' = s /\ Status' = IF s[Len(s)].pc \in ClientPc THEN "SUCCESS" ELSE "ERROR"
    BY <1>1 DEF CallRemove
  <2>2. Calls(s, Status', prot, notify)
    BY StatusCalls
  <2> QED BY <2>1, <2>2
<1>2. CASE p # NULL
  <2>1. stack' = Append(s, f) /\ UNCHANGED Status
    BY <1>2 DEF CallRemove, Call
  <2>2. p \in Installed /\ prot[p].Handle = h /\ prot[p].Protocol = g /\ h \in Handles
    BY <1>2, FindFacts
  <2>3. s \in Seq(Frames) /\ Len(s) \in Nat /\ s # <<>> /\ s[Len(s)].tpl \in Tpls
    <3>1. s \in Seq(Frames) /\ Len(s) \in Nat /\ s # <<>> /\ \A k \in 1..Len(s) : s[k].tpl \in Tpls
      BY CallsType
    <3> QED BY <3>1
  <2>4. f \in Frames /\ f.pc = pc /\ f.arg = [h |-> h, p |-> p, i |-> new]
    <3> HIDE DEF p
    <3>1. [h |-> h, p |-> p, i |-> new] \in [h : Handles, p : Prots, i : Interfaces \cup {NULL}]
      BY <2>2 DEF Installed
    <3>2. pc \in Removes
      BY DEF Removes
    <3>3. f \in Frames
      BY <2>3, <3>1, <3>2, BuildFrames
    <3> QED BY <3>3 DEF Frame
  <2> HIDE DEF f, p
  <2>5. SoundOn(s, Len(s), prot, notify, f)
    BY <2>2, <2>4 DEF SoundOn, Installed, HoldsProt, Locked, Removes, Installs, Uninstalls
  <2>6. Calls(Append(s, f), Status', prot, notify)
    BY <2>4, <2>5, PushCalls
  <2>7. Status \in {"SUCCESS", "ERROR"}
    BY DEF TypeOK
  <2> QED BY <2>1, <2>6, <2>7
<1> QED BY <1>1, <1>2

LEMMA InstallProtocolInterfaceStep ==
  ASSUME IInv, NEW h \in Handles \cup {NULL}, NEW g \in Guids, NEW i \in Interfaces,
         InstallProtocolInterface(h, g, i)
  PROVE  IInv'
<1>1. CallsSound /\ TypeOK /\ DatabaseSound
  BY DEF IInv, LinksSound
<1>2. May("Install") /\ CallInstall(stack, h, g, i) /\ UNCHANGED <<handles, entries, regs>>
  BY DEF InstallProtocolInterface
<1>3. /\ \A status : Calls(stack, status, prot, notify)
      /\ stack[Len(stack)].pc # "installMultiple"
  BY <1>1, <1>2, ClientFacts
<1>4. Calls(stack', Status', prot, notify) /\ Status' \in {"SUCCESS", "ERROR"} /\ RecordsSound(OpenList')
  BY <1>1, <1>2, <1>3, CallInstallFacts
<1> QED BY <1>2, <1>4, OnlyRecords

\* What no interrupted service holds may be removed.
LEMMA MayRemoveFacts ==
  ASSUME NothingRemovedInUse, NEW h, NEW g, MayRemove(h, g)
  PROVE  ~Held(stack, Len(stack), prot, h, g)
BY DEF NothingRemovedInUse, MayRemove, InUse, Held

LEMMA UninstallProtocolInterfaceStep ==
  ASSUME NothingRemovedInUse, IInv, NEW h \in Handles, NEW g \in Guids, NEW i \in Interfaces,
         UninstallProtocolInterface(h, g, i)
  PROVE  IInv'
<1>1. CallsSound /\ TypeOK /\ DatabaseSound
  BY DEF IInv, LinksSound
<1>2. /\ May("Uninstall") /\ MayRemove(h, g) /\ CallRemove(stack, "uninstall", h, g, i, i)
      /\ UNCHANGED <<handles, entries, OpenList, regs>>
  BY DEF UninstallProtocolInterface
<1>3. /\ \A status : Calls(stack, status, prot, notify)
      /\ stack[Len(stack)].pc \notin {"installMultiple", "installOne"}
  BY <1>1, <1>2, ClientFacts
<1>4. Calls(stack', Status', prot, notify) /\ Status' \in {"SUCCESS", "ERROR"}
  BY <1>1, <1>2, <1>3, CallRemoveFacts, MayRemoveFacts
<1> QED BY <1>2, <1>4, OnlyCalls

LEMMA ReinstallProtocolInterfaceStep ==
  ASSUME NothingRemovedInUse, IInv, NEW h \in Handles, NEW g \in Guids,
         NEW old \in Interfaces, NEW new \in Interfaces, ReinstallProtocolInterface(h, g, old, new)
  PROVE  IInv'
<1>1. CallsSound /\ TypeOK /\ DatabaseSound
  BY DEF IInv, LinksSound
<1>2. /\ May("Reinstall") /\ MayRemove(h, g) /\ CallRemove(stack, "reinstall", h, g, old, new)
      /\ UNCHANGED <<handles, entries, OpenList, regs>>
  BY DEF ReinstallProtocolInterface
<1>3. /\ \A status : Calls(stack, status, prot, notify)
      /\ stack[Len(stack)].pc \notin {"installMultiple", "installOne"}
  BY <1>1, <1>2, ClientFacts
<1>4. Calls(stack', Status', prot, notify) /\ Status' \in {"SUCCESS", "ERROR"}
  BY <1>1, <1>2, <1>3, CallRemoveFacts, MayRemoveFacts
<1> QED BY <1>2, <1>4, OnlyCalls

LEMMA ReturnStep ==
  ASSUME IInv, Top.pc # "app", NEW status \in {"SUCCESS", "ERROR"}, Return(status),
         UNCHANGED <<handles, entries, OpenList, regs>>
  PROVE  IInv'
<1>1. CallsSound
  BY DEF IInv
<1>2. Calls(stack', Status', prot, notify) /\ Status' \in {"SUCCESS", "ERROR"}
  BY <1>1, ReturnFacts
<1> QED BY <1>2, OnlyCalls

LEMMA InstallFailsStep ==
  ASSUME IInv, InstallFails
  PROVE  IInv'
<1>1. Top.pc # "app" /\ Return("ERROR") /\ UNCHANGED <<handles, entries, OpenList, regs>>
  BY DEF InstallFails, At
<1> QED BY <1>1, ReturnStep

LEMMA RefusedStep ==
  ASSUME IInv, Refused
  PROVE  IInv'
<1>1. Top.pc # "app" /\ Return("ERROR") /\ UNCHANGED <<handles, entries, OpenList, regs>>
  BY DEF Refused, At
<1> QED BY <1>1, ReturnStep

LEMMA LocateAgainStep ==
  ASSUME IInv, LocateAgain
  PROVE  IInv'
<1>1. Top.pc # "app" /\ Return("SUCCESS") /\ UNCHANGED <<handles, entries, OpenList, regs>>
  BY DEF LocateAgain, At
<1> QED BY <1>1, ReturnStep

LEMMA DriverReturnsStep ==
  ASSUME IInv, DriverReturns
  PROVE  IInv'
<1>1. Top.pc # "app" /\ (Return("SUCCESS") \/ Return("ERROR")) /\ UNCHANGED <<handles, entries, OpenList, regs>>
  BY DEF DriverReturns, At
<1> QED BY <1>1, ReturnStep

\* A service that works on an interface, at any of its labels.
LEMMA HolderFacts ==
  ASSUME IInv, Top.pc \in HoldsProt
  PROVE  /\ arg.p \in Installed /\ prot[arg.p].Handle = arg.h /\ arg.h \in Handles
         /\ Top.pc \in Removes => ~Held(Pop(stack), Len(Pop(stack)), prot, arg.h, prot[arg.p].Protocol)
<1>1. CallsSound
  BY DEF IInv
<1>2. Top.pc # "app" /\ (Top.pc \in Removes \/ Top.pc \in Opens \cup {"disconnect"})
  BY DEF HoldsProt, Locked, Removes, Opens
<1>3. Top \in Frames /\ SoundOn(Pop(stack), Len(Pop(stack)), prot, notify, Top)
  BY <1>1, <1>2, TopFacts
<1>4. arg.h \in Handles /\ arg.p \in Prots
  BY <1>2, <1>3, FrameArgs DEF arg
<1> QED BY <1>3, <1>4 DEF SoundOn, arg, Installed

\* It goes on at another label, with what it found.
LEMMA HolderGoesOn ==
  ASSUME IInv, Top.pc \in HoldsProt, NEW pc \in HoldsProt,
         \/ Top.pc \in Opens /\ pc \in Opens
         \/ Top.pc \in Removes /\ pc \in Removes
            /\ (pc \in {"reinstall", "reinstallStopped"} => Top.pc \in {"reinstall", "reinstallStopped"}),
         NEW status
  PROVE  /\ Calls(Become(pc, arg), status, prot, notify)
         /\ Become(pc, arg)[Len(Become(pc, arg))].pc = pc
         /\ Become(pc, arg)[Len(Become(pc, arg))].tpl \in Tpls
<1>1. CallsSound
  BY DEF IInv
<1>2. Top.pc # "app"
  BY DEF HoldsProt, Locked
<1>3. Top \in Frames /\ SoundOn(Pop(stack), Len(Pop(stack)), prot, notify, Top)
      /\ Calls(Pop(stack), "SUCCESS", prot, notify)
  BY <1>1, <1>2, TopFacts
<1>4. Top.tpl \in Tpls
  BY <1>3, FrameArgs
<1> DEFINE f == Frame(pc, Top.tpl, arg)
<1>5. f \in Frames
  <2>1. CASE Top.pc \in Opens /\ pc \in Opens
    <3>1. Top.arg \in [h : Handles, p : Prots, o : OpenData] /\ pc \in Opens \cup {"disconnect"}
      BY <1>3, <2>1, FrameArgs
    <3> QED BY <1>4, <3>1, BuildFrames DEF arg
  <2>2. CASE Top.pc \in Removes /\ pc \in Removes
    <3>1. Top.arg \in [h : Handles, p : Prots, i : Interfaces \cup {NULL}]
      BY <1>3, <2>2, FrameArgs
    <3> QED BY <1>4, <2>2, <3>1, BuildFrames DEF arg
  <2> QED BY <2>1, <2>2
<1>6. f.pc = pc /\ f.arg = Top.arg /\ f.tpl = Top.tpl
  BY DEF Frame, arg
<1> HIDE DEF f
<1>7. pc \notin {"install", "notify"} \cup Installs \cup Uninstalls
  BY DEF HoldsProt, Locked, Installs, Uninstalls
<1>8. /\ pc \in Removes => Top.pc \in Removes
      /\ pc \in {"reinstall", "reinstallStopped"} => Top.pc \in {"reinstall", "reinstallStopped"}
  BY DEF Removes, Opens
<1>9. SoundOn(Pop(stack), Len(Pop(stack)), prot, notify, f)
  BY <1>3, <1>6, <1>7, <1>8 DEF SoundOn
<1>10. Calls(Append(Pop(stack), f), status, prot, notify)
  BY <1>3, <1>5, <1>6, <1>7, <1>9, PushCalls DEF Installs
<1>11. Append(Pop(stack), f)[Len(Append(Pop(stack), f))] = f
  <2>1. Pop(stack) \in Seq(Frames)
    BY <1>3, CallsType
  <2> QED BY <2>1, <1>5
<1>12. Become(pc, arg) = Append(Pop(stack), f)
  BY DEF Become, f
<1> QED BY <1>4, <1>6, <1>10, <1>11, <1>12

LEMMA DisconnectUserStep ==
  ASSUME IInv, DisconnectUser
  PROVE  IInv'
<1>1. Top.pc \in Locked /\ UNCHANGED <<Status, handles, entries, OpenList, regs>>
  BY DEF DisconnectUser
<1>2. PICK o \in ByDriver(arg.p) :
        stack' = Call(Become(Stopped[Top.pc], arg), "disconnect", [h |-> arg.h, p |-> arg.p, o |-> o])
  BY DEF DisconnectUser
<1> DEFINE s == Become(Stopped[Top.pc], arg)
           f == Frame("disconnect", s[Len(s)].tpl, [h |-> arg.h, p |-> arg.p, o |-> o])
<1>3. Top.pc \in HoldsProt
  BY <1>1 DEF HoldsProt
<1>4. /\ Stopped[Top.pc] \in HoldsProt
      /\ \/ Top.pc \in Opens /\ Stopped[Top.pc] \in Opens
         \/ Top.pc \in Removes /\ Stopped[Top.pc] \in Removes
            /\ (Stopped[Top.pc] \in {"reinstall", "reinstallStopped"} => Top.pc \in {"reinstall", "reinstallStopped"})
      /\ Stopped[Top.pc] \notin {"installMultiple", "installOne"}
  BY <1>1 DEF Locked, Stopped, HoldsProt, Opens, Removes
<1>5. Calls(s, Status, prot, notify) /\ s[Len(s)].pc = Stopped[Top.pc] /\ s[Len(s)].tpl \in Tpls
  BY <1>3, <1>4, HolderGoesOn
<1>6. [h |-> arg.h, p |-> arg.p, o |-> o] \in [h : Handles, p : Prots, o : OpenData]
  <2>1. arg.p \in Installed /\ arg.h \in Handles
    BY <1>3, HolderFacts
  <2>2. o \in OpenData
    BY <2>1 DEF IInv, TypeOK, ByDriver, Installed
  <2> QED BY <2>1, <2>2 DEF Installed
<1> HIDE DEF s
<1>7. f \in Frames /\ f.pc = "disconnect"
  BY <1>5, <1>6, BuildFrames DEF Frame
<1>8. stack' = Append(s, f)
  BY <1>2 DEF Call, s
<1> HIDE DEF f
<1>9. f.pc \in Plain
  BY <1>7 DEF Plain
<1>10. Calls(stack', Status', prot, notify)
  BY <1>4, <1>5, <1>7, <1>8, <1>9, PushPlain
<1>11. Status' \in {"SUCCESS", "ERROR"}
  BY <1>1 DEF IInv, TypeOK
<1> QED BY <1>1, <1>10, <1>11, OnlyCalls

\* The interface stays installed, and its drivers are connected again.
LEMMA RefuseFacts ==
  ASSUME IInv, Top.pc \in HoldsProt \cap Removes, UNCHANGED Status,
         stack' = Call(Become("refused", arg), "connect", [h |-> arg.h])
  PROVE  Calls(stack', Status', prot, notify) /\ Status' \in {"SUCCESS", "ERROR"}
<1> DEFINE s == Become("refused", arg)
           f == Frame("connect", s[Len(s)].tpl, [h |-> arg.h])
<1>1. Calls(s, Status, prot, notify) /\ s[Len(s)].pc = "refused" /\ s[Len(s)].tpl \in Tpls
  BY HolderGoesOn DEF HoldsProt, Removes
<1>2. [h |-> arg.h] \in [h : Handles]
  BY HolderFacts
<1> HIDE DEF s
<1>3. f \in Frames /\ f.pc = "connect"
  BY <1>1, <1>2, BuildFrames DEF Frame
<1>4. stack' = Append(s, f)
  BY DEF Call, s
<1> HIDE DEF f
<1>5. f.pc \in Plain
  BY <1>3 DEF Plain
<1>6. Calls(stack', Status', prot, notify)
  BY <1>1, <1>3, <1>4, <1>5, PushPlain
<1> QED BY <1>6 DEF IInv, TypeOK

LEMMA DisconnectAgainStep ==
  ASSUME IInv, DisconnectAgain
  PROVE  IInv'
<1>1. PICK pc \in Locked :
        /\ At(Stopped[pc])
        /\ \/ Status = "SUCCESS" /\ stack' = Become(pc, arg) /\ UNCHANGED Status
           \/ /\ Status = "ERROR" /\ pc # "exclusive"
              /\ stack' = Call(Become("refused", arg), "connect", [h |-> arg.h])
              /\ UNCHANGED Status
           \/ Status = "ERROR" /\ pc = "exclusive" /\ Return("ERROR")
  BY DEF DisconnectAgain
<1>2. UNCHANGED <<handles, entries, OpenList, regs>>
  BY DEF DisconnectAgain
<1>3. /\ Top.pc \in HoldsProt /\ Top.pc # "app" /\ pc \in HoldsProt
      /\ \/ Top.pc \in Opens /\ pc \in Opens
         \/ Top.pc \in Removes /\ pc \in Removes
            /\ (pc \in {"reinstall", "reinstallStopped"} => Top.pc \in {"reinstall", "reinstallStopped"})
      /\ pc # "exclusive" => Top.pc \in Removes
  BY <1>1 DEF At, Locked, Stopped, HoldsProt, Opens, Removes
<1>4. CASE stack' = Become(pc, arg) /\ UNCHANGED Status
  <2>1. Calls(stack', Status', prot, notify)
    BY <1>3, <1>4, HolderGoesOn
  <2>2. Status' \in {"SUCCESS", "ERROR"}
    BY <1>4 DEF IInv, TypeOK
  <2> QED BY <1>2, <2>1, <2>2, OnlyCalls
<1>5. CASE pc # "exclusive" /\ UNCHANGED Status
           /\ stack' = Call(Become("refused", arg), "connect", [h |-> arg.h])
  <2>1. Calls(stack', Status', prot, notify) /\ Status' \in {"SUCCESS", "ERROR"}
    BY <1>3, <1>5, RefuseFacts
  <2> QED BY <1>2, <2>1, OnlyCalls
<1>6. CASE Return("ERROR")
  BY <1>2, <1>3, <1>6, ReturnStep
<1> QED BY <1>1, <1>4, <1>5, <1>6

LEMMA RemoveRefusedStep ==
  ASSUME IInv, RemoveRefused
  PROVE  IInv'
<1>1. /\ Top.pc \in HoldsProt \cap Removes
      /\ OpenList' = [OpenList EXCEPT ![arg.p] = Kept(arg.p)]
      /\ stack' = Call(Become("refused", arg), "connect", [h |-> arg.h])
      /\ UNCHANGED Status /\ UNCHANGED <<handles, entries, regs>>
  BY DEF RemoveRefused, HoldsProt, Removes, Locked
<1>2. Calls(stack', Status', prot, notify) /\ Status' \in {"SUCCESS", "ERROR"}
  BY <1>1, RefuseFacts
<1>3. arg.p \in Installed
  BY <1>1, HolderFacts
<1>4. RecordsSound(OpenList')
  BY <1>1, <1>3 DEF IInv, TypeOK, LinksSound, DatabaseSound, RecordsSound, Installed, Kept
<1> QED BY <1>1, <1>2, <1>4, OnlyRecords
-----------------------------------------------------------------------------
(* InstallMultiple and UninstallMultiple.                                  *)

LEMMA MultiFacts ==
  ASSUME IInv, Top.pc \in Installs \cup Uninstalls
  PROVE  /\ Top.pc # "app" /\ Top.tpl \in Tpls /\ (Top.pc \in Installs => Top.tpl = EFI_TPL_NOTIFY)
         /\ Calls(Pop(stack), "SUCCESS", prot, notify) /\ Pop(stack) \in Seq(Frames)
         /\ arg \in MultiArgs(Handles \cup {NULL}) /\ (Top.pc \in Uninstalls => arg.h \in Handles)
         /\ arg.n \in 0..Len(arg.list) /\ Len(arg.list) \in Nat
         /\ \A k \in 1..Len(arg.list) :
              arg.list[k][1] \in Guids /\ arg.list[k][2] \in Interfaces
              /\ Argument(k) = [g |-> arg.list[k][1], i |-> arg.list[k][2]]
         /\ Top.pc = "installOne" => arg.n < Len(arg.list)
         /\ Top.pc \in {"installRollback", "uninstallRollback"} => arg.m >= 1
         /\ Top.pc \in Installs /\ arg.h # NULL =>
              \A j \in 1..(arg.n - 1) : ~Held(Pop(stack), Len(Pop(stack)), prot, arg.h, arg.list[j][1])
         /\ Top.pc = "installOne" \/ (Top.pc = "installMultiple" /\ Status = "SUCCESS") =>
              (arg.h # NULL =>
                \A j \in 1..arg.n : ~Held(Pop(stack), Len(Pop(stack)), prot, arg.h, arg.list[j][1]))
         /\ Top.pc = "uninstallMultiple" =>
              \A j \in 1..Len(arg.list) : ~Held(Pop(stack), Len(Pop(stack)), prot, arg.h, arg.list[j][1])
<1>1. CallsSound
  BY DEF IInv
<1>2. Top.pc # "app"
  BY DEF Installs, Uninstalls
<1>3. /\ Top \in Frames /\ SoundOn(Pop(stack), Len(Pop(stack)), prot, notify, Top)
      /\ Calls(Pop(stack), "SUCCESS", prot, notify) /\ Len(Pop(stack)) = Len(stack) - 1
      /\ stack \in Seq(Frames) /\ Len(stack) >= 1 /\ Len(stack) \in Nat
  BY <1>1, <1>2, TopFacts
<1>4. Pop(stack) \in Seq(Frames)
  BY <1>3, CallsType
<1>5. /\ Top.tpl \in Tpls
      /\ Top.pc \in Installs => Top.tpl = EFI_TPL_NOTIFY
      /\ arg \in MultiArgs(Handles \cup {NULL})
      /\ Top.pc \in Uninstalls => arg.h \in Handles
  <2>1. Top.pc \in Installs => Top.tpl = EFI_TPL_NOTIFY /\ arg \in MultiArgs(Handles \cup {NULL})
    BY <1>3, FrameArgs DEF arg
  <2>2. Top.tpl \in Tpls /\ (Top.pc \in Uninstalls => arg \in MultiArgs(Handles))
    BY <1>3, FrameArgs DEF arg
  <2>3. \A a \in MultiArgs(Handles) : a \in MultiArgs(Handles \cup {NULL}) /\ a.h \in Handles
    BY DEF MultiArgs
  <2> QED BY <2>1, <2>2, <2>3
<1>6. arg.list \in Seq(Guids \X Interfaces)
  BY <1>5 DEF MultiArgs
<1>7. /\ Len(arg.list) \in Nat
      /\ \A k \in 1..Len(arg.list) : arg.list[k][1] \in Guids /\ arg.list[k][2] \in Interfaces
  <2>1. \A k \in 1..Len(arg.list) : arg.list[k] \in Guids \X Interfaces
    BY <1>6
  <2> QED BY <1>6, <2>1
<1>8. \A k : Argument(k) = [g |-> arg.list[k][1], i |-> arg.list[k][2]]
  BY DEF Argument
<1>9. /\ arg.n \in 0..Len(arg.list)
      /\ Top.pc = "installOne" => arg.n < Len(arg.list)
      /\ Top.pc \in {"installRollback", "uninstallRollback"} => arg.m >= 1
      /\ Top.pc \in Installs /\ arg.h # NULL =>
           \A j \in 1..(arg.n - 1) : ~Held(Pop(stack), Len(Pop(stack)), prot, arg.h, arg.list[j][1])
      /\ Top.pc = "uninstallMultiple" =>
           \A j \in 1..Len(arg.list) : ~Held(Pop(stack), Len(Pop(stack)), prot, arg.h, arg.list[j][1])
  BY <1>3 DEF SoundOn, arg, Installs, Uninstalls
<1>10. ASSUME Top.pc = "installOne" \/ (Top.pc = "installMultiple" /\ Status = "SUCCESS"), arg.h # NULL,
              NEW j \in 1..arg.n
       PROVE  ~Held(Pop(stack), Len(Pop(stack)), prot, arg.h, arg.list[j][1])
  <2>1. CASE j \in 1..(arg.n - 1)
    BY <1>9, <1>10, <2>1 DEF Installs
  <2>2. CASE j = arg.n
    <3>1. LastProcessed(stack, Status, prot)
      BY <1>1 DEF CallsSound, Calls
    <3>2. Len(stack) \in 1..Len(stack) /\ stack[Len(stack)] = Top /\ arg = Top.arg /\ arg.n >= 1
      BY <1>3, <1>9, <2>2 DEF Top, arg
    <3>3. ~Held(stack, Len(stack) - 1, prot, arg.h, arg.list[arg.n][1])
      BY <1>10, <3>1, <3>2 DEF LastProcessed
    <3>4. \A k \in 1..(Len(stack) - 1) : stack[k] = Pop(stack)[k]
      BY <1>3 DEF Pop
    <3> QED BY <1>3, <2>2, <3>3, <3>4, HeldSame
  <2> QED BY <1>9, <2>1, <2>2
<1> QED BY <1>2, <1>3, <1>4, <1>5, <1>7, <1>8, <1>9, <1>10

\* It goes on at another label, or with the next argument.
LEMMA MultiGoesOn ==
  ASSUME IInv, NEW pc, NEW a, NEW status,
         \/ Top.pc \in Installs /\ pc \in Installs
         \/ Top.pc \in Uninstalls /\ pc \in Uninstalls /\ (pc = "uninstallMultiple" => Top.pc = "uninstallMultiple"),
         a \in MultiArgs(Handles \cup {NULL}), a.h = arg.h, a.list = arg.list,
         a.n \in 0..Len(arg.list),
         pc = "installOne" => a.n < Len(arg.list),
         pc \in {"installRollback", "uninstallRollback"} => a.m >= 1,
         pc \in Installs /\ arg.h # NULL =>
           \A j \in 1..(a.n - 1) : ~Held(Pop(stack), Len(Pop(stack)), prot, arg.h, arg.list[j][1]),
         (pc = "installOne" \/ (pc = "installMultiple" /\ status = "SUCCESS")) /\ a.n >= 1 /\ arg.h # NULL =>
           ~Held(Pop(stack), Len(Pop(stack)), prot, arg.h, arg.list[a.n][1])
  PROVE  /\ Calls(Become(pc, a), status, prot, notify)
         /\ Become(pc, a)[Len(Become(pc, a))] = Frame(pc, Top.tpl, a)
         /\ Len(Become(pc, a)) = Len(stack)
         /\ \A k \in 1..(Len(stack) - 1) : Become(pc, a)[k] = Pop(stack)[k]
<1>1. Top.pc \in Installs \cup Uninstalls
  OBVIOUS
<1>2. /\ CallsSound /\ Top.pc # "app" /\ Top.tpl \in Tpls /\ Pop(stack) \in Seq(Frames)
      /\ Top.pc \in Uninstalls => arg.h \in Handles
      /\ Top.pc \in Installs => Top.tpl = EFI_TPL_NOTIFY
  BY <1>1, MultiFacts DEF IInv
<1>3. Calls(Pop(stack), "SUCCESS", prot, notify)
  BY <1>1, MultiFacts
<1> DEFINE f == Frame(pc, Top.tpl, a)
<1>4. f \in Frames
  <2>1. CASE pc \in Installs
    <3>1. Top.pc \in Installs
      BY <2>1 DEF Installs, Uninstalls
    <3> QED BY <1>2, <2>1, <3>1, BuildFrames
  <2>2. CASE Top.pc \in Uninstalls /\ pc \in Uninstalls
    <3>1. a \in MultiArgs(Handles)
      BY <1>2, <2>2 DEF MultiArgs
    <3> QED BY <1>2, <2>2, <3>1, BuildFrames
  <2> QED BY <2>1, <2>2
<1>5. f.pc = pc /\ f.arg = a
  BY DEF Frame
<1> HIDE DEF f
<1>6. pc = "uninstallMultiple" =>
        \A j \in 1..Len(arg.list) : ~Held(Pop(stack), Len(Pop(stack)), prot, arg.h, arg.list[j][1])
  <2>1. pc = "uninstallMultiple" => Top.pc = "uninstallMultiple"
    BY DEF Installs, Uninstalls
  <2> QED BY <1>1, <2>1, MultiFacts
<1>7. SoundOn(Pop(stack), Len(Pop(stack)), prot, notify, f)
  <2>1. pc \notin {"install", "notify"} \cup HoldsProt \cup Removes
    BY DEF Installs, Uninstalls, HoldsProt, Locked, Removes
  <2>2. pc \in Installs => pc \notin Uninstalls
    BY DEF Installs, Uninstalls
  <2>3. pc \notin {"reinstall", "reinstallStopped"}
    BY DEF Installs, Uninstalls
  <2> QED BY <1>5, <1>6, <2>1, <2>2, <2>3 DEF SoundOn
<1>8. Calls(Append(Pop(stack), f), status, prot, notify)
  BY <1>2, <1>4, <1>5, <1>7, BecomeFacts
<1>9. Become(pc, a) = Append(Pop(stack), f)
  BY DEF Become, f
<1>10. Len(Pop(stack)) = Len(stack) - 1 /\ Len(stack) \in Nat
  BY <1>2, TopFacts
<1>11. /\ Append(Pop(stack), f)[Len(Append(Pop(stack), f))] = f
       /\ Len(Append(Pop(stack), f)) = Len(stack)
       /\ \A k \in 1..(Len(stack) - 1) : Append(Pop(stack), f)[k] = Pop(stack)[k]
  BY <1>2, <1>4, <1>10
<1> QED BY <1>8, <1>9, <1>11 DEF f

\* The loops count arguments in n and m.
LEMMA NextArgument ==
  ASSUME NEW hs, NEW a \in MultiArgs(hs), NEW b,
         \/ b = [a EXCEPT !.n = @ + 1] \/ b = [a EXCEPT !.m = @ + 1] \/ b = [a EXCEPT !.m = 1]
  PROVE  /\ b \in MultiArgs(hs) /\ b.h = a.h /\ b.list = a.list
         /\ b = [a EXCEPT !.n = @ + 1] => b.n = a.n + 1
         /\ b = [a EXCEPT !.m = @ + 1] => b.n = a.n /\ b.m = a.m + 1
         /\ b = [a EXCEPT !.m = 1] => b.n = a.n /\ b.m = 1
<1>1. /\ [a EXCEPT !.n = @ + 1] = [h |-> a.h, list |-> a.list, n |-> a.n + 1, m |-> a.m, was |-> a.was]
      /\ [a EXCEPT !.n = @ + 1] \in MultiArgs(hs)
      /\ [a EXCEPT !.m = @ + 1] = [h |-> a.h, list |-> a.list, n |-> a.n, m |-> a.m + 1, was |-> a.was]
      /\ [a EXCEPT !.m = @ + 1] \in MultiArgs(hs)
      /\ [a EXCEPT !.m = 1] = [h |-> a.h, list |-> a.list, n |-> a.n, m |-> 1, was |-> a.was]
      /\ [a EXCEPT !.m = 1] \in MultiArgs(hs)
  BY DEF MultiArgs
<1> QED BY <1>1

LEMMA MultiStarts ==
  ASSUME NEW hs, NEW h \in hs, NEW list \in Multiple, TypeOK
  PROVE  /\ Multi(h, list) \in MultiArgs(hs) /\ list \in Seq(Guids \X Interfaces) /\ Len(list) \in Nat
         /\ Multi(h, list).h = h /\ Multi(h, list).list = list /\ Multi(h, list).n = 0
<1>1. Contents \in SUBSET Entry
  BY InstalledFacts DEF Contents
<1>2. list \in Seq(Guids \X Interfaces)
  BY ServiceAssumption
<1> QED BY <1>1, <1>2 DEF Multi, MultiArgs

LEMMA InstallMultipleStep ==
  ASSUME IInv, NEW h \in Handles \cup {NULL}, NEW list \in Multiple, InstallMultiple(h, list)
  PROVE  IInv'
<1>1. CallsSound /\ TypeOK
  BY DEF IInv
<1> DEFINE f == Frame("installMultiple", EFI_TPL_NOTIFY, Multi(h, list))
<1>2. May("InstallMultiple") /\ stack' = Append(stack, f) /\ Status' = "SUCCESS"
      /\ UNCHANGED <<handles, entries, OpenList, regs>>
  BY DEF InstallMultiple
<1>3. /\ Multi(h, list) \in MultiArgs(Handles \cup {NULL}) /\ Len(list) \in Nat
      /\ Multi(h, list).list = list /\ Multi(h, list).n = 0
  BY <1>1, MultiStarts
<1>4. f \in Frames /\ f.pc = "installMultiple" /\ f.arg = Multi(h, list)
  <2>1. EFI_TPL_NOTIFY \in Tpls /\ "installMultiple" \in Installs
    BY DEF Tpls, Installs
  <2> QED BY <1>3, <2>1, BuildFrames DEF Frame
<1> HIDE DEF f
<1>5. SoundOn(stack, Len(stack), prot, notify, f)
  BY <1>3, <1>4 DEF SoundOn, HoldsProt, Locked, Removes, Uninstalls
<1>6. Calls(stack, "SUCCESS", prot, notify)
  BY <1>1, <1>2, ClientFacts
<1>7. ~(f.arg.n >= 1)
  BY <1>3, <1>4
<1>8. Calls(stack', Status', prot, notify)
  BY <1>2, <1>4, <1>5, <1>6, <1>7, PushCalls
<1> QED BY <1>2, <1>8, OnlyCalls

LEMMA UninstallMultipleStep ==
  ASSUME NothingRemovedInUse, IInv, NEW h \in Handles, NEW list \in Multiple, UninstallMultiple(h, list)
  PROVE  IInv'
<1>1. CallsSound /\ TypeOK
  BY DEF IInv
<1> DEFINE f == Frame("uninstallMultiple", Top.tpl, Multi(h, list))
<1>2. May("UninstallMultiple") /\ stack' = Append(stack, f) /\ Status' = "SUCCESS"
      /\ UNCHANGED <<handles, entries, OpenList, regs>>
      /\ \A k \in 1..Len(list) : MayRemove(h, list[k][1])
  BY DEF UninstallMultiple, Call, Top
<1>3. /\ Multi(h, list) \in MultiArgs(Handles) /\ Len(list) \in Nat
      /\ Multi(h, list).h = h /\ Multi(h, list).list = list /\ Multi(h, list).n = 0
  BY <1>1, MultiStarts
<1>4. f \in Frames /\ f.pc = "uninstallMultiple" /\ f.arg = Multi(h, list)
  <2>1. Top.tpl \in Tpls /\ "uninstallMultiple" \in Uninstalls
    BY <1>1, <1>2, ClientFacts DEF Uninstalls
  <2> QED BY <1>3, <2>1, BuildFrames DEF Frame
<1> HIDE DEF f
<1>5. \A k \in 1..Len(list) : ~Held(stack, Len(stack), prot, h, list[k][1])
  BY <1>2, MayRemoveFacts
<1>6. SoundOn(stack, Len(stack), prot, notify, f)
  BY <1>3, <1>4, <1>5 DEF SoundOn, HoldsProt, Locked, Removes, Installs
<1>7. Calls(stack, "SUCCESS", prot, notify)
  BY <1>1, <1>2, ClientFacts
<1>8. Calls(stack', Status', prot, notify)
  BY <1>2, <1>4, <1>6, <1>7, PushCalls
<1> QED BY <1>2, <1>8, OnlyCalls

LEMMA CheckDevicePathStep ==
  ASSUME IInv, CheckDevicePath
  PROVE  IInv'
<1>1. /\ Top.pc = "installMultiple" /\ Status = "SUCCESS" /\ arg.n < Len(arg.list)
      /\ UNCHANGED <<handles, entries, regs>>
      /\ OpenList' = [p \in Prots |->
           OpenList[p] \cup IF p \in DevicePaths THEN {Record(gDxeCoreImageHandle, NULL, {"USE"})} ELSE {}]
      /\ \/ stack' = Become("installMultiple", [arg EXCEPT !.n = @ + 1]) /\ Status' = "ERROR"
         \/ stack' = Become("installOne", arg) /\ UNCHANGED Status
  BY DEF CheckDevicePath, At
<1>2. /\ arg \in MultiArgs(Handles \cup {NULL}) /\ arg.n \in 0..Len(arg.list) /\ Len(arg.list) \in Nat
      /\ arg.h # NULL => \A j \in 1..arg.n : ~Held(Pop(stack), Len(Pop(stack)), prot, arg.h, arg.list[j][1])
  BY <1>1, MultiFacts DEF Installs
<1>3. Calls(stack', Status', prot, notify) /\ Status' \in {"SUCCESS", "ERROR"}
  <2>1. CASE stack' = Become("installMultiple", [arg EXCEPT !.n = @ + 1]) /\ Status' = "ERROR"
    <3> DEFINE a == [arg EXCEPT !.n = @ + 1]
    <3>1. a \in MultiArgs(Handles \cup {NULL}) /\ a.h = arg.h /\ a.list = arg.list /\ a.n = arg.n + 1
      BY <1>2, NextArgument
    <3> HIDE DEF a
    <3>2. a.n \in 0..Len(arg.list) /\ a.n - 1 = arg.n
      BY <1>1, <1>2, <3>1
    <3>3. Calls(Become("installMultiple", a), "ERROR", prot, notify)
      BY <1>1, <1>2, <3>1, <3>2, MultiGoesOn DEF Installs
    <3> QED BY <2>1, <3>3 DEF a
  <2>2. CASE stack' = Become("installOne", arg) /\ UNCHANGED Status
    <3>1. Calls(Become("installOne", arg), "SUCCESS", prot, notify)
      <4>1. \A j \in 1..(arg.n - 1) : j \in 1..arg.n
        BY <1>2
      <4>2. arg.n >= 1 => arg.n \in 1..arg.n
        BY <1>2
      <4> QED BY <1>1, <1>2, <4>1, <4>2, MultiGoesOn DEF Installs
    <3> QED BY <1>1, <2>2, <3>1
  <2> QED BY <1>1, <2>1, <2>2
<1>4. RecordsSound(OpenList')
  <2>1. \A p \in DevicePaths : p \in Installed
    BY DEF DevicePaths
  <2>2. Record(gDxeCoreImageHandle, NULL, {"USE"}) \in OpenData
    BY DEF Record, OpenData
  <2> QED BY <1>1, <2>1, <2>2 DEF IInv, TypeOK, LinksSound, DatabaseSound, RecordsSound
<1> QED BY <1>1, <1>3, <1>4, OnlyRecords

LEMMA InstallOneStep ==
  ASSUME IInv, InstallOne
  PROVE  IInv'
<1>1. /\ \/ Top.pc = "installOne"
         \/ Top.pc = "installMultiple" /\ Status = "SUCCESS" /\ arg.n < Len(arg.list)
      /\ CallInstall(Become("installMultiple", [arg EXCEPT !.n = @ + 1]), arg.h,
                     Argument(arg.n + 1).g, Argument(arg.n + 1).i)
      /\ UNCHANGED <<handles, entries, regs>>
  BY DEF InstallOne, At
<1>2. /\ arg \in MultiArgs(Handles \cup {NULL}) /\ arg.n \in 0..Len(arg.list) /\ Len(arg.list) \in Nat
      /\ arg.n < Len(arg.list)
      /\ arg.h # NULL => \A j \in 1..arg.n : ~Held(Pop(stack), Len(Pop(stack)), prot, arg.h, arg.list[j][1])
      /\ \A k \in 1..Len(arg.list) :
           /\ arg.list[k][1] \in Guids /\ arg.list[k][2] \in Interfaces
           /\ Argument(k) = [g |-> arg.list[k][1], i |-> arg.list[k][2]]
  BY <1>1, MultiFacts DEF Installs
<1> DEFINE a == [arg EXCEPT !.n = @ + 1]
           s == Become("installMultiple", a)
           g == Argument(arg.n + 1).g
           i == Argument(arg.n + 1).i
<1>3. a \in MultiArgs(Handles \cup {NULL}) /\ a.h = arg.h /\ a.list = arg.list /\ a.n = arg.n + 1
      /\ arg.h \in Handles \cup {NULL}
  <2>1. arg.h \in Handles \cup {NULL}
    BY <1>2 DEF MultiArgs
  <2> QED BY <1>2, <2>1, NextArgument
<1>4. arg.n + 1 \in 1..Len(arg.list)
  BY <1>2
<1>5. g = arg.list[arg.n + 1][1] /\ g \in Guids /\ i \in Interfaces
  BY <1>2, <1>4
<1>6. CallInstall(s, arg.h, g, i)
  BY <1>1
<1> HIDE DEF a, g, i
<1>7. a.n \in 0..Len(arg.list) /\ a.n - 1 = arg.n /\ Top.pc \in Installs /\ "installMultiple" \in Installs
  BY <1>1, <1>2, <1>3 DEF Installs
<1>8. /\ Calls(s, "ERROR", prot, notify)
      /\ s[Len(s)] = Frame("installMultiple", Top.tpl, a)
      /\ Len(s) = Len(stack) /\ \A k \in 1..(Len(stack) - 1) : s[k] = Pop(stack)[k]
  <2>1. arg.h # NULL => \A j \in 1..(a.n - 1) : ~Held(Pop(stack), Len(Pop(stack)), prot, arg.h, arg.list[j][1])
    BY <1>2, <1>7
  <2>2. ~("installMultiple" = "installOne" \/ ("installMultiple" = "installMultiple" /\ "ERROR" = "SUCCESS"))
    OBVIOUS
  <2>3. "installMultiple" \notin {"installRollback", "uninstallRollback"} /\ "installMultiple" # "installOne"
    OBVIOUS
  <2> QED BY <1>3, <1>7, <2>1, <2>2, <2>3, MultiGoesOn
<1>9. ASSUME CoreGetProtocolInterface(arg.h, g) = NULL
      PROVE  Calls(s, "SUCCESS", prot, notify)
  <2>1. ~Held(Pop(stack), Len(Pop(stack)), prot, arg.h, g)
    <3>1. Calls(Pop(stack), "SUCCESS", prot, notify)
      BY <1>7, MultiFacts
    <3>2. \A p \in Installed : ~(prot[p].Handle = arg.h /\ prot[p].Protocol = g)
      BY <1>9, GetFacts DEF IInv, LinksSound
    <3> QED BY <3>1, <3>2, HeldIsInstalled
  <2>2. ~Held(Pop(stack), Len(Pop(stack)), prot, arg.h, arg.list[a.n][1])
    BY <2>1, <1>3, <1>5
  <2> QED BY <1>2, <1>3, <1>7, <2>2, MultiGoesOn
<1> HIDE DEF s
<1>10. s[Len(s)].pc = "installMultiple" => arg.h = s[Len(s)].arg.h
  BY <1>3, <1>8 DEF Frame
<1>11. Calls(stack', Status', prot, notify) /\ Status' \in {"SUCCESS", "ERROR"} /\ RecordsSound(OpenList')
  <2>1. TypeOK /\ DatabaseSound
    BY DEF IInv, LinksSound
  <2> QED BY <1>3, <1>5, <1>6, <1>8, <1>9, <1>10, <2>1, CallInstallFacts
<1> QED BY <1>1, <1>11, OnlyRecords

LEMMA InstallMultipleEndsStep ==
  ASSUME IInv, InstallMultipleEnds
  PROVE  IInv'
<1>1. /\ Top.pc = "installMultiple" /\ UNCHANGED <<handles, entries, OpenList, regs>>
      /\ \/ Return("SUCCESS")
         \/ stack' = Become("installRollback", [arg EXCEPT !.m = 1]) /\ UNCHANGED Status
  BY DEF InstallMultipleEnds, At
<1>2. CASE Return("SUCCESS")
  BY <1>1, <1>2, ReturnStep
<1>3. CASE stack' = Become("installRollback", [arg EXCEPT !.m = 1]) /\ UNCHANGED Status
  <2>1. /\ arg \in MultiArgs(Handles \cup {NULL}) /\ arg.n \in 0..Len(arg.list)
        /\ arg.h # NULL => \A j \in 1..(arg.n - 1) : ~Held(Pop(stack), Len(Pop(stack)), prot, arg.h, arg.list[j][1])
    BY <1>1, MultiFacts DEF Installs
  <2> DEFINE a == [arg EXCEPT !.m = 1]
  <2>2. a \in MultiArgs(Handles \cup {NULL}) /\ a.h = arg.h /\ a.list = arg.list /\ a.n = arg.n /\ a.m = 1
    BY <2>1, NextArgument
  <2> HIDE DEF a
  <2>3. Calls(Become("installRollback", a), Status, prot, notify)
    <3>1. Top.pc \in Installs /\ "installRollback" \in Installs
      BY <1>1 DEF Installs
    <3>2. a.n \in 0..Len(arg.list) /\ a.m >= 1
      BY <2>1, <2>2
    <3>3. arg.h # NULL => \A j \in 1..(a.n - 1) : ~Held(Pop(stack), Len(Pop(stack)), prot, arg.h, arg.list[j][1])
      BY <2>1, <2>2
    <3> QED BY <2>2, <3>1, <3>2, <3>3, MultiGoesOn
  <2>4. Calls(stack', Status', prot, notify) /\ Status' \in {"SUCCESS", "ERROR"}
    BY <1>3, <2>3 DEF a, IInv, TypeOK
  <2> QED BY <1>1, <2>4, OnlyCalls
<1> QED BY <1>1, <1>2, <1>3

\* A frame of the loops holds no interface.
LEMMA MultiHoldsNothing ==
  ASSUME IInv, Top.pc \in Installs \cup Uninstalls, NEW pc \in Installs \cup Uninstalls, NEW a, NEW s,
         Len(s) = Len(stack), s[Len(s)] = Frame(pc, Top.tpl, a),
         \A k \in 1..(Len(stack) - 1) : s[k] = Pop(stack)[k], NEW h, NEW g
  PROVE  Held(s, Len(s), prot, h, g) => Held(Pop(stack), Len(Pop(stack)), prot, h, g)
<1>1. Len(Pop(stack)) = Len(stack) - 1 /\ Len(stack) \in Nat
  <2>1. CallsSound /\ Top.pc # "app"
    BY DEF IInv, Installs, Uninstalls
  <2> QED BY <2>1, TopFacts
<1>2. s[Len(s)].pc = pc /\ pc \notin HoldsProt
  BY DEF Frame, Installs, Uninstalls, HoldsProt, Locked
<1>3. ASSUME NEW k \in 1..Len(s), s[k].pc \in HoldsProt
      PROVE  k \in 1..Len(Pop(stack)) /\ s[k] = Pop(stack)[k]
  <2>1. k # Len(s)
    BY <1>2, <1>3
  <2> QED BY <1>1, <2>1
<1> QED BY <1>3 DEF Held

LEMMA InstallRollbackStep ==
  ASSUME IInv, InstallRollback
  PROVE  IInv'
<1>1. /\ Top.pc = "installRollback" /\ UNCHANGED <<handles, entries, OpenList, regs>>
      /\ \/ /\ arg.m < arg.n
            /\ CallRemove(Become("installRollback", [arg EXCEPT !.m = @ + 1]), "uninstall",
                          arg.h, Argument(arg.m).g, Argument(arg.m).i, NULL)
         \/ Return("ERROR")
  BY DEF InstallRollback, At
<1>2. CASE Return("ERROR")
  BY <1>1, <1>2, ReturnStep
<1>3. CASE /\ arg.m < arg.n
           /\ CallRemove(Become("installRollback", [arg EXCEPT !.m = @ + 1]), "uninstall",
                         arg.h, Argument(arg.m).g, Argument(arg.m).i, NULL)
  <2>1. /\ arg \in MultiArgs(Handles \cup {NULL}) /\ arg.n \in 0..Len(arg.list) /\ Len(arg.list) \in Nat
        /\ arg.m >= 1
        /\ arg.h # NULL => \A j \in 1..(arg.n - 1) : ~Held(Pop(stack), Len(Pop(stack)), prot, arg.h, arg.list[j][1])
        /\ \A k \in 1..Len(arg.list) :
             /\ arg.list[k][1] \in Guids /\ arg.list[k][2] \in Interfaces
             /\ Argument(k) = [g |-> arg.list[k][1], i |-> arg.list[k][2]]
    BY <1>1, MultiFacts DEF Installs
  <2> DEFINE a == [arg EXCEPT !.m = @ + 1]
             s == Become("installRollback", a)
             g == Argument(arg.m).g
             i == Argument(arg.m).i
  <2>2. a \in MultiArgs(Handles \cup {NULL}) /\ a.h = arg.h /\ a.list = arg.list /\ a.n = arg.n /\ a.m = arg.m + 1
    BY <2>1, NextArgument
  <2>3. arg.h \in Handles \cup {NULL} /\ arg.m \in Nat
    BY <2>1 DEF MultiArgs
  <2>4. arg.m \in 1..(arg.n - 1) /\ arg.m \in 1..Len(arg.list)
    BY <1>3, <2>1, <2>3
  <2>5. g = arg.list[arg.m][1] /\ g \in Guids /\ i \in Interfaces
    BY <2>1, <2>4
  <2>6. CallRemove(s, "uninstall", arg.h, g, i, NULL)
    BY <1>3
  <2> HIDE DEF a, g, i
  <2>7. /\ Calls(s, "SUCCESS", prot, notify)
        /\ s[Len(s)] = Frame("installRollback", Top.tpl, a)
        /\ Len(s) = Len(stack) /\ \A k \in 1..(Len(stack) - 1) : s[k] = Pop(stack)[k]
    <3>1. Top.pc \in Installs /\ "installRollback" \in Installs /\ "installRollback" \notin {"installMultiple", "installOne"}
      BY <1>1 DEF Installs
    <3>2. a.n \in 0..Len(arg.list) /\ a.m >= 1
      BY <2>1, <2>2, <2>3
    <3>3. arg.h # NULL => \A j \in 1..(a.n - 1) : ~Held(Pop(stack), Len(Pop(stack)), prot, arg.h, arg.list[j][1])
      BY <2>1, <2>2
    <3> QED BY <2>2, <3>1, <3>2, <3>3, MultiGoesOn
  <2> HIDE DEF s
  <2>8. s[Len(s)].pc \notin {"installMultiple", "installOne"}
    BY <2>7 DEF Frame
  <2>9. arg.h \in Handles => ~Held(s, Len(s), prot, arg.h, g)
    <3>1. arg.h \in Handles => arg.h # NULL
      BY StructureAssumption DEF Structures
    <3>2. arg.h \in Handles => ~Held(Pop(stack), Len(Pop(stack)), prot, arg.h, g)
      BY <2>1, <2>4, <2>5, <3>1
    <3>3. Top.pc \in Installs \cup Uninstalls /\ "installRollback" \in Installs \cup Uninstalls
      BY <1>1 DEF Installs
    <3> QED BY <2>7, <3>2, <3>3, MultiHoldsNothing
  <2>10. Calls(stack', Status', prot, notify) /\ Status' \in {"SUCCESS", "ERROR"}
    <3>1. TypeOK /\ DatabaseSound
      BY DEF IInv, LinksSound
    <3> QED BY <2>3, <2>5, <2>6, <2>7, <2>8, <2>9, <3>1, CallRemoveFacts
  <2> QED BY <1>1, <2>10, OnlyCalls
<1> QED BY <1>1, <1>2, <1>3

LEMMA UninstallOneStep ==
  ASSUME IInv, UninstallOne
  PROVE  IInv'
<1>1. /\ Top.pc = "uninstallMultiple" /\ UNCHANGED <<handles, entries, OpenList, regs>>
      /\ \/ /\ arg.n < Len(arg.list)
            /\ CallRemove(Become("uninstallMultiple", [arg EXCEPT !.n = @ + 1]), "uninstall",
                          arg.h, Argument(arg.n + 1).g, Argument(arg.n + 1).i, NULL)
         \/ Return("SUCCESS")
         \/ stack' = Become("uninstallRollback", [arg EXCEPT !.m = 1]) /\ UNCHANGED Status
  BY DEF UninstallOne, At
<1>2. /\ arg \in MultiArgs(Handles \cup {NULL}) /\ arg.n \in 0..Len(arg.list) /\ Len(arg.list) \in Nat
      /\ arg.h \in Handles
      /\ \A j \in 1..Len(arg.list) : ~Held(Pop(stack), Len(Pop(stack)), prot, arg.h, arg.list[j][1])
      /\ \A k \in 1..Len(arg.list) :
           /\ arg.list[k][1] \in Guids /\ arg.list[k][2] \in Interfaces
           /\ Argument(k) = [g |-> arg.list[k][1], i |-> arg.list[k][2]]
  BY <1>1, MultiFacts DEF Uninstalls
<1>3. Top.pc \in Uninstalls /\ {"uninstallMultiple", "uninstallRollback"} \subseteq Uninstalls
  BY <1>1 DEF Uninstalls
<1>4. {"uninstallMultiple", "uninstallRollback"} \cap Installs = {}
  BY DEF Installs
<1>5. CASE Return("SUCCESS")
  BY <1>1, <1>5, ReturnStep
<1>6. CASE stack' = Become("uninstallRollback", [arg EXCEPT !.m = 1]) /\ UNCHANGED Status
  <2> DEFINE a == [arg EXCEPT !.m = 1]
  <2>1. a \in MultiArgs(Handles \cup {NULL}) /\ a.h = arg.h /\ a.list = arg.list /\ a.n = arg.n /\ a.m = 1
    BY <1>2, NextArgument
  <2> HIDE DEF a
  <2>2. Calls(Become("uninstallRollback", a), Status, prot, notify)
    <3>1. a.n \in 0..Len(arg.list) /\ a.m >= 1
      BY <1>2, <2>1
    <3>2. "uninstallRollback" \in Uninstalls /\ "uninstallRollback" \notin Installs
      BY <1>3, <1>4
    <3>3. "uninstallRollback" # "installOne" /\ "uninstallRollback" # "installMultiple" /\ "uninstallRollback" # "uninstallMultiple"
      OBVIOUS
    <3> QED BY <1>3, <2>1, <3>1, <3>2, <3>3, MultiGoesOn
  <2>3. Calls(stack', Status', prot, notify) /\ Status' \in {"SUCCESS", "ERROR"}
    BY <1>6, <2>2 DEF a, IInv, TypeOK
  <2> QED BY <1>1, <2>3, OnlyCalls
<1>7. CASE /\ arg.n < Len(arg.list)
           /\ CallRemove(Become("uninstallMultiple", [arg EXCEPT !.n = @ + 1]), "uninstall",
                         arg.h, Argument(arg.n + 1).g, Argument(arg.n + 1).i, NULL)
  <2> DEFINE a == [arg EXCEPT !.n = @ + 1]
             s == Become("uninstallMultiple", a)
             g == Argument(arg.n + 1).g
             i == Argument(arg.n + 1).i
  <2>1. a \in MultiArgs(Handles \cup {NULL}) /\ a.h = arg.h /\ a.list = arg.list /\ a.n = arg.n + 1
    BY <1>2, NextArgument
  <2>2. arg.n + 1 \in 1..Len(arg.list)
    BY <1>2, <1>7
  <2>3. g = arg.list[arg.n + 1][1] /\ g \in Guids /\ i \in Interfaces
    BY <1>2, <2>2
  <2>4. CallRemove(s, "uninstall", arg.h, g, i, NULL)
    BY <1>7
  <2> HIDE DEF a, g, i
  <2>5. /\ Calls(s, "SUCCESS", prot, notify)
        /\ s[Len(s)] = Frame("uninstallMultiple", Top.tpl, a)
        /\ Len(s) = Len(stack) /\ \A k \in 1..(Len(stack) - 1) : s[k] = Pop(stack)[k]
    <3>1. a.n \in 0..Len(arg.list)
      BY <1>2, <2>1, <2>2
    <3>2. "uninstallMultiple" \in Uninstalls /\ "uninstallMultiple" \notin Installs
      BY <1>3, <1>4
    <3>3. /\ "uninstallMultiple" # "installOne" /\ "uninstallMultiple" # "installMultiple"
          /\ "uninstallMultiple" \notin {"installRollback", "uninstallRollback"}
      OBVIOUS
    <3> QED BY <1>1, <1>3, <2>1, <3>1, <3>2, <3>3, MultiGoesOn
  <2> HIDE DEF s
  <2>6. s[Len(s)].pc \notin {"installMultiple", "installOne"}
    BY <2>5 DEF Frame
  <2>7. ~Held(s, Len(s), prot, arg.h, g)
    <3>1. ~Held(Pop(stack), Len(Pop(stack)), prot, arg.h, g)
      BY <1>2, <2>2, <2>3
    <3>2. Top.pc \in Installs \cup Uninstalls /\ "uninstallMultiple" \in Installs \cup Uninstalls
      BY <1>3
    <3> QED BY <2>5, <3>1, <3>2, MultiHoldsNothing
  <2>8. Calls(stack', Status', prot, notify) /\ Status' \in {"SUCCESS", "ERROR"}
    <3>1. TypeOK /\ DatabaseSound
      BY DEF IInv, LinksSound
    <3> QED BY <1>2, <2>3, <2>4, <2>5, <2>6, <2>7, <3>1, CallRemoveFacts
  <2> QED BY <1>1, <2>8, OnlyCalls
<1> QED BY <1>1, <1>5, <1>6, <1>7

LEMMA UninstallRollbackStep ==
  ASSUME IInv, UninstallRollback
  PROVE  IInv'
<1>1. /\ Top.pc = "uninstallRollback" /\ UNCHANGED <<handles, entries, regs>>
      /\ \/ /\ arg.m < arg.n
            /\ CallInstall(Become("uninstallRollback", [arg EXCEPT !.m = @ + 1]),
                           arg.h, Argument(arg.m).g, Argument(arg.m).i)
         \/ Return("ERROR") /\ UNCHANGED OpenList
  BY DEF UninstallRollback, At
<1>2. CASE Return("ERROR") /\ UNCHANGED OpenList
  <2>1. Top.pc # "app" /\ UNCHANGED <<handles, entries, OpenList, regs>>
    BY <1>1, <1>2
  <2> QED BY <1>2, <2>1, ReturnStep
<1>3. CASE /\ arg.m < arg.n
           /\ CallInstall(Become("uninstallRollback", [arg EXCEPT !.m = @ + 1]),
                          arg.h, Argument(arg.m).g, Argument(arg.m).i)
  <2>1. /\ arg \in MultiArgs(Handles \cup {NULL}) /\ arg.n \in 0..Len(arg.list) /\ Len(arg.list) \in Nat
        /\ arg.m >= 1 /\ arg.h \in Handles
        /\ \A k \in 1..Len(arg.list) :
             /\ arg.list[k][1] \in Guids /\ arg.list[k][2] \in Interfaces
             /\ Argument(k) = [g |-> arg.list[k][1], i |-> arg.list[k][2]]
    BY <1>1, MultiFacts DEF Uninstalls
  <2> DEFINE a == [arg EXCEPT !.m = @ + 1]
             s == Become("uninstallRollback", a)
             g == Argument(arg.m).g
             i == Argument(arg.m).i
  <2>2. a \in MultiArgs(Handles \cup {NULL}) /\ a.h = arg.h /\ a.list = arg.list /\ a.n = arg.n /\ a.m = arg.m + 1
    BY <2>1, NextArgument
  <2>3. arg.m \in Nat
    BY <2>1 DEF MultiArgs
  <2>4. arg.m \in 1..Len(arg.list)
    BY <1>3, <2>1, <2>3
  <2>5. g \in Guids /\ i \in Interfaces
    BY <2>1, <2>4
  <2>6. CallInstall(s, arg.h, g, i)
    BY <1>3
  <2> HIDE DEF a, g, i
  <2>7. /\ \A status : Calls(s, status, prot, notify)
        /\ s[Len(s)] = Frame("uninstallRollback", Top.tpl, a)
    <3>1. a.n \in 0..Len(arg.list) /\ a.m >= 1
      BY <2>1, <2>2, <2>3
    <3>2. Top.pc \in Uninstalls /\ "uninstallRollback" \in Uninstalls /\ "uninstallRollback" \notin Installs
      BY <1>1 DEF Installs, Uninstalls
    <3>3. "uninstallRollback" # "installOne" /\ "uninstallRollback" # "installMultiple" /\ "uninstallRollback" # "uninstallMultiple"
      OBVIOUS
    <3> QED BY <2>2, <3>1, <3>2, <3>3, MultiGoesOn
  <2> HIDE DEF s
  <2>8. s[Len(s)].pc # "installMultiple"
    BY <2>7 DEF Frame
  <2>9. Calls(stack', Status', prot, notify) /\ Status' \in {"SUCCESS", "ERROR"} /\ RecordsSound(OpenList')
    <3>1. TypeOK /\ DatabaseSound
      BY DEF IInv, LinksSound
    <3> QED BY <2>1, <2>5, <2>6, <2>7, <2>8, <3>1, CallInstallFacts
  <2> QED BY <1>1, <2>9, OnlyRecords
<1> QED BY <1>1, <1>2, <1>3
-----------------------------------------------------------------------------
(* OpenProtocol, CloseProtocol and the calls of driver code.               *)

LEMMA OpenProtocolStep ==
  ASSUME IInv, NEW h \in Handles, NEW g \in Guids, NEW agent \in Agents, NEW ctrl \in Handles,
         NEW attr \in Attributes \cup NestedAttributes, OpenProtocol(h, g, agent, ctrl, attr)
  PROVE  IInv'
<1> DEFINE p == CoreGetProtocolInterface(h, g)
           o == Record(agent, ctrl, attr)
           f == Frame("exclusive", Top.tpl, [h |-> h, p |-> p, o |-> o])
<1>1. /\ May("Open") /\ p # NULL /\ UNCHANGED <<Status, handles, entries, regs>>
      /\ \/ AddRecord(p, o) /\ UNCHANGED stack
         \/ stack' = Append(stack, f) /\ UNCHANGED OpenList
  BY DEF OpenProtocol, Call, Top
<1>2. CallsSound /\ TypeOK /\ DatabaseSound
  BY DEF IInv, LinksSound
<1>3. p \in Installed /\ prot[p].Handle = h
  BY <1>1, <1>2, GetFacts
<1>4. o \in OpenData
  <2>1. attr \in SUBSET {"USE", "CHILD", "BY_DRIVER", "EXCLUSIVE"}
    BY ServiceAssumption
  <2> QED BY <2>1 DEF Record, OpenData
<1>5. Status' \in {"SUCCESS", "ERROR"}
  BY <1>1, <1>2 DEF TypeOK
<1>6. CASE AddRecord(p, o) /\ UNCHANGED stack
  <2> HIDE DEF p, o
  <2>1. RecordsSound(OpenList')
    BY <1>3, <1>4, <1>6, AddedRecord DEF AddRecord
  <2>2. Calls(stack', Status', prot, notify)
    BY <1>1, <1>2, <1>6 DEF CallsSound
  <2>3. UNCHANGED <<handles, entries, regs>>
    BY <1>1
  <2> QED BY <1>5, <2>1, <2>2, <2>3, OnlyRecords
<1>7. CASE stack' = Append(stack, f) /\ UNCHANGED OpenList
  <2>1. f \in Frames /\ f.pc = "exclusive" /\ f.arg = [h |-> h, p |-> p, o |-> o]
    <3> HIDE DEF p, o
    <3>1. [h |-> h, p |-> p, o |-> o] \in [h : Handles, p : Prots, o : OpenData]
      BY <1>3, <1>4 DEF Installed
    <3>2. Top.tpl \in Tpls /\ "exclusive" \in Opens \cup {"disconnect"}
      BY <1>1, <1>2, ClientFacts DEF Opens
    <3> QED BY <3>1, <3>2, BuildFrames DEF Frame
  <2> HIDE DEF f, p, o
  <2>2. SoundOn(stack, Len(stack), prot, notify, f)
    BY <1>3, <2>1 DEF SoundOn, Installed, Removes, Installs, Uninstalls
  <2>3. Calls(stack, "SUCCESS", prot, notify)
    BY <1>1, <1>2, ClientFacts
  <2>4. Calls(stack', Status', prot, notify)
    BY <1>7, <2>1, <2>2, <2>3, PushCalls
  <2>5. UNCHANGED <<handles, entries, OpenList, regs>>
    BY <1>1, <1>7
  <2> QED BY <1>5, <2>4, <2>5, OnlyCalls
<1> QED BY <1>1, <1>6, <1>7

LEMMA OpenExclusiveStep ==
  ASSUME IInv, OpenExclusive
  PROVE  IInv'
<1>1. /\ Top.pc = "exclusive" /\ AddRecord(arg.p, arg.o) /\ Return("SUCCESS")
      /\ UNCHANGED <<handles, entries, regs>>
  BY DEF OpenExclusive, At
<1>2. CallsSound
  BY DEF IInv
<1>3. Calls(stack', Status', prot, notify) /\ Status' \in {"SUCCESS", "ERROR"}
  BY <1>1, <1>2, ReturnFacts
<1>4. arg.p \in Installed
  BY <1>1, HolderFacts DEF HoldsProt, Locked
<1>5. arg.o \in OpenData
  <2>1. Top \in Frames
    BY <1>2, TopFacts
  <2> QED BY <1>1, <2>1, FrameArgs DEF arg, Opens
<1>6. RecordsSound(OpenList')
  BY <1>1, <1>4, <1>5, AddedRecord DEF AddRecord
<1> QED BY <1>1, <1>3, <1>6, OnlyRecords

LEMMA CloseProtocolStep ==
  ASSUME IInv, NEW h, NEW g, NEW agent, NEW ctrl, CloseProtocol(h, g, agent, ctrl)
  PROVE  IInv'
<1> DEFINE p == CoreGetProtocolInterface(h, g)
<1>1. /\ OpenList' = [OpenList EXCEPT ![p] = {o \in @ : ~(o.agent = agent /\ o.ctrl = ctrl)}]
      /\ UNCHANGED <<control, handles, entries, regs>>
  BY DEF CloseProtocol
<1> HIDE DEF p
<1>2. RecordsSound(OpenList')
  BY <1>1 DEF IInv, TypeOK, LinksSound, DatabaseSound, RecordsSound
<1>3. Calls(stack', Status', prot, notify) /\ Status' \in {"SUCCESS", "ERROR"}
  BY <1>1 DEF IInv, TypeOK, CallsSound, control
<1>4. UNCHANGED <<handles, entries, regs>>
  BY <1>1
<1> QED BY <1>2, <1>3, <1>4, OnlyRecords

\* A frame that relies on nothing, and driver code that it calls.
LEMMA CallDriverFacts ==
  ASSUME IInv, Top.pc # "app", NEW f \in Frames, f.pc \in Plain, UNCHANGED Status,
         stack' = Call(Append(Pop(stack), f), "driver", NULL)
  PROVE  Calls(stack', Status', prot, notify) /\ Status' \in {"SUCCESS", "ERROR"}
<1> DEFINE s == Append(Pop(stack), f)
           d == Frame("driver", s[Len(s)].tpl, NULL)
<1>1. CallsSound
  BY DEF IInv
<1>2. Calls(s, Status, prot, notify)
  BY <1>1, BecomePlain
<1>3. s[Len(s)] = f
  <2>1. Pop(stack) \in Seq(Frames)
    BY <1>1, TopFacts, CallsType
  <2> QED BY <2>1
<1>4. f.tpl \in Tpls /\ f.pc \notin {"installMultiple", "installOne"}
  BY FrameArgs, PlainSound
<1> HIDE DEF s
<1>5. d \in Frames /\ d.pc = "driver"
  <2>1. "driver" \in NoArgument
    BY DEF NoArgument
  <2> QED BY <1>3, <1>4, <2>1, BuildFrames DEF Frame
<1>6. stack' = Append(s, d)
  BY DEF Call, s
<1> HIDE DEF d
<1>7. d.pc \in Plain
  BY <1>5 DEF Plain, NoArgument
<1>8. Calls(stack', Status', prot, notify)
  BY <1>2, <1>3, <1>4, <1>5, <1>6, <1>7, PushPlain
<1> QED BY <1>8 DEF IInv, TypeOK

LEMMA DisconnectControllerStep ==
  ASSUME IInv, DisconnectController
  PROVE  IInv'
<1> DEFINE Calling == \E pc \in {"stopChildren", "stop"} :
                        \E a \in [h : Handles, agent : Agents \cup {gDxeCoreImageHandle}] :
                          CallDriver(pc, a.h, a.agent)
<1>1. Top.pc \in {"disconnect", "stopChildren", "stop"} /\ UNCHANGED <<handles, entries, OpenList, regs>>
  BY DEF DisconnectController, At
<1>2. Top \in Frames /\ Top.pc # "app"
  BY <1>1, TopFacts DEF IInv
<1>3. Return("ERROR") \/ Return(Status) \/ Calling
  <2>1. CASE Top.pc = "disconnect"
    <3>1. arg.h \in Handles /\ arg.o \in OpenData
      BY <1>2, <2>1, FrameArgs DEF arg
    <3>2. PICK agent \in IF arg.o \in OpenList[arg.p] THEN {arg.o.agent} ELSE Agents :
            IF ~Manages(arg.h, agent) THEN Return("ERROR")
            ELSE CallDriver(IF Children(arg.h, agent) # {} THEN "stopChildren" ELSE "stop", arg.h, agent)
      BY <2>1 DEF DisconnectController, At
    <3>3. agent \in Agents \cup {gDxeCoreImageHandle}
      BY <3>1, <3>2 DEF OpenData
    <3>4. CASE Return("ERROR")
      BY <3>4
    <3>5. CASE \E pc \in {"stopChildren", "stop"} : CallDriver(pc, arg.h, agent)
      <4> DEFINE a == [h |-> arg.h, agent |-> agent]
      <4>1. a \in [h : Handles, agent : Agents \cup {gDxeCoreImageHandle}] /\ a.h = arg.h /\ a.agent = agent
        BY <3>1, <3>3
      <4> HIDE DEF a
      <4> QED BY <3>5, <4>1
    <3> QED BY <3>2, <3>4, <3>5
  <2>2. CASE Top.pc = "stopChildren"
    <3>1. arg \in [h : Handles, agent : Agents \cup {gDxeCoreImageHandle}]
      BY <1>2, <2>2, FrameArgs DEF arg
    <3>2. Return("ERROR") \/ CallDriver("stop", arg.h, arg.agent)
      BY <2>2 DEF DisconnectController, At
    <3> QED BY <3>1, <3>2
  <2>3. CASE Top.pc = "stop"
    BY <2>3 DEF DisconnectController, At
  <2> QED BY <1>1, <2>1, <2>2, <2>3
<1>4. CASE Return("ERROR") \/ Return(Status)
  <2>1. Status \in {"SUCCESS", "ERROR"}
    BY DEF IInv, TypeOK
  <2> QED BY <1>1, <1>2, <1>4, <2>1, ReturnStep
<1>5. CASE Calling
  <2>1. PICK pc \in {"stopChildren", "stop"}, a \in [h : Handles, agent : Agents \cup {gDxeCoreImageHandle}] :
          CallDriver(pc, a.h, a.agent)
    BY <1>5
  <2>2. a = [h |-> a.h, agent |-> a.agent]
    OBVIOUS
  <2> DEFINE f == Frame(pc, Top.tpl, a)
  <2>3. stack' = Call(Append(Pop(stack), f), "driver", NULL) /\ UNCHANGED Status
    BY <2>1, <2>2 DEF CallDriver, Become
  <2>4. f \in Frames /\ f.pc \in Plain
    BY <1>2, FrameArgs, BuildFrames DEF Frame, Plain
  <2> HIDE DEF f
  <2>5. Calls(stack', Status', prot, notify) /\ Status' \in {"SUCCESS", "ERROR"}
    BY <1>2, <2>3, <2>4, CallDriverFacts
  <2> QED BY <1>1, <2>5, OnlyCalls
<1> QED BY <1>3, <1>4, <1>5

LEMMA ConnectControllerStep ==
  ASSUME IInv, ConnectController
  PROVE  IInv'
<1> DEFINE f == Frame("driver", Top.tpl, NULL)
<1>1. /\ Top.pc = "connect" /\ UNCHANGED <<handles, entries, OpenList, regs>>
      /\ Return("ERROR") \/ (stack' = Append(Pop(stack), f) /\ UNCHANGED Status)
  BY DEF ConnectController, At
<1>2. Top \in Frames /\ CallsSound
  BY TopFacts DEF IInv
<1>3. CASE Return("ERROR")
  BY <1>1, <1>3, ReturnStep
<1>4. CASE stack' = Append(Pop(stack), f) /\ UNCHANGED Status
  <2>1. f \in Frames /\ f.pc \in Plain
    BY <1>2, FrameArgs, BuildFrames DEF Frame, Plain, NoArgument
  <2> HIDE DEF f
  <2>2. Calls(stack', Status', prot, notify)
    BY <1>1, <1>2, <1>4, <2>1, BecomePlain
  <2>3. Status' \in {"SUCCESS", "ERROR"}
    BY <1>4 DEF IInv, TypeOK
  <2> QED BY <1>1, <2>2, <2>3, OnlyCalls
<1> QED BY <1>1, <1>3, <1>4
-----------------------------------------------------------------------------
(* Registrations.                                                          *)

\* The entries of a list behind a Position.
After(list, pos) ==
  SubSeq(list, (IF pos = NULL THEN 0 ELSE CHOOSE i \in 1..Len(list) : list[i] = pos) + 1, Len(list))

LEMMA AfterFacts ==
  ASSUME NEW list \in Seq(Prots), NEW pos \in {NULL} \cup Members(list)
  PROVE  \E k \in 0..Len(list) :
           /\ k = 0 <=> pos = NULL
           /\ k # 0 => list[k] = pos
           /\ After(list, pos) \in Seq(Prots)
           /\ Len(After(list, pos)) = Len(list) - k
           /\ \A j \in 1..(Len(list) - k) : After(list, pos)[j] = list[k + j]
<1> DEFINE k == IF pos = NULL THEN 0 ELSE CHOOSE i \in 1..Len(list) : list[i] = pos
<1>1. Members(list) \subseteq Prots /\ NULL \notin Prots /\ Len(list) \in Nat
  BY StructureAssumption DEF Members, Structures
<1>2. pos # NULL => \E i \in 1..Len(list) : list[i] = pos
  BY <1>1 DEF Members
<1>3. k \in 0..Len(list) /\ (k = 0 <=> pos = NULL) /\ (k # 0 => list[k] = pos)
  BY <1>1, <1>2
<1>4. After(list, pos) = SubSeq(list, k + 1, Len(list))
  BY DEF After
<1> HIDE DEF k
<1>5. /\ SubSeq(list, k + 1, Len(list)) \in Seq(Prots)
      /\ Len(SubSeq(list, k + 1, Len(list))) = Len(list) - k
      /\ \A j \in 1..(Len(list) - k) : SubSeq(list, k + 1, Len(list))[j] = list[k + j]
  BY <1>1, <1>3
<1> QED BY <1>3, <1>4, <1>5

\* A registration has a list and a Position on it.
LEMMA RegFacts ==
  ASSUME TypeOK, PositionSound, NEW r \in Regs, Allocated(r)
  PROVE  /\ notify[r] \in [Protocol : Guids, Position : Prots \cup {NULL}]
         /\ Protocols[notify[r].Protocol] \in Seq(Prots)
         /\ notify[r].Position \in {NULL} \cup Members(Protocols[notify[r].Protocol])
         /\ Unseen(r) = After(Protocols[notify[r].Protocol], notify[r].Position)
         /\ Unseen(r) \in Seq(Prots)
         /\ Members(Unseen(r)) \subseteq Members(Protocols[notify[r].Protocol])
<1>1. /\ notify[r] \in [Protocol : Guids, Position : Prots \cup {NULL}]
      /\ Protocols[notify[r].Protocol] \in Seq(Prots)
      /\ notify[r].Position \in {NULL} \cup Members(Protocols[notify[r].Protocol])
  BY DEF TypeOK, PositionSound, Allocated
<1>2. Unseen(r) = After(Protocols[notify[r].Protocol], notify[r].Position)
  BY DEF Unseen, After
<1> DEFINE list == Protocols[notify[r].Protocol]
           pos == notify[r].Position
<1> HIDE DEF list, pos
<1>3. After(list, pos) \in Seq(Prots) /\ Members(After(list, pos)) \subseteq Members(list)
  <2>1. list \in Seq(Prots) /\ pos \in {NULL} \cup Members(list)
    BY <1>1 DEF list, pos
  <2>2. PICK k \in 0..Len(list) :
           /\ After(list, pos) \in Seq(Prots)
           /\ Len(After(list, pos)) = Len(list) - k
           /\ \A j \in 1..(Len(list) - k) : After(list, pos)[j] = list[k + j]
    BY <2>1, AfterFacts
  <2>3. \A j \in 1..Len(After(list, pos)) : After(list, pos)[j] = list[k + j] /\ k + j \in 1..Len(list)
    BY <2>1, <2>2
  <2> QED BY <2>2, <2>3 DEF Members
<1> QED BY <1>1, <1>2, <1>3 DEF list, pos

\* Steps that leave the handles and the interfaces alone.
LEMMA OnlyRegs ==
  ASSUME IInv, UNCHANGED <<handles, entries, OpenList>>,
         notify' \in [Regs -> [Protocol : Guids, Position : Prots \cup {NULL}] \cup {Free}],
         before' \in [Regs -> SUBSET Prots],
         \A r \in Regs : notify'[r] # Free =>
           notify'[r].Position \in {NULL} \cup Members(Protocols[notify'[r].Protocol]),
         \A r \in signalled' : r \in Regs /\ notify'[r] # Free,
         Status' \in {"SUCCESS", "ERROR"}, Calls(stack', Status', prot, notify')
  PROVE  IInv'
<1>1. /\ prot' = prot /\ Protocols' = Protocols /\ handle' = handle /\ OpenList' = OpenList
      /\ newer' = newer /\ modified' = modified
  BY DEF entries, handles
<1>2. Installed' = Installed
  BY <1>1 DEF Installed
<1>3. CallsSound'
  BY <1>1 DEF CallsSound
<1>4. TypeOK'
  <2>1. /\ \A k \in 1..Len(stack') : /\ stack'[k].pc \in Labels
                                     /\ stack'[k].tpl \in {EFI_TPL_APPLICATION, EFI_TPL_CALLBACK, EFI_TPL_NOTIFY}
        /\ stack' # <<>>
    <3>1. \A nt : Calls(stack', Status', prot, nt) =>
             stack' # <<>> /\ \A k \in 1..Len(stack') : stack'[k].pc \in Labels /\ stack'[k].tpl \in Tpls
      BY CallsType
    <3> QED BY <3>1 DEF Tpls
  <2>2. TypeOK
    BY DEF IInv
  <2> QED BY <1>1, <2>1, <2>2 DEF TypeOK
<1>5. LinksSound'
  <2>1. \A h : Valid(h)' <=> Valid(h)
    BY <1>1 DEF Valid
  <2>2. DatabaseSound'
    BY <1>1, <1>2, <2>1 DEF IInv, LinksSound, DatabaseSound
  <2>3. PositionSound'
    BY <1>1 DEF PositionSound, Allocated
  <2> QED BY <2>2, <2>3 DEF LinksSound
<1>6. SignalsSound'
  BY DEF SignalsSound, Allocated
<1> QED BY <1>3, <1>4, <1>5, <1>6 DEF IInv

\* What the registrations have is of the right type and stays.
LEMMA RegsType ==
  ASSUME IInv
  PROVE  /\ notify \in [Regs -> [Protocol : Guids, Position : Prots \cup {NULL}] \cup {Free}]
         /\ before \in [Regs -> SUBSET Prots]
         /\ \A r \in Regs : notify[r] # Free =>
              notify[r].Position \in {NULL} \cup Members(Protocols[notify[r].Protocol])
         /\ \A r \in signalled : r \in Regs /\ notify[r] # Free
         /\ \A r \in Regs : Allocated(r) <=> notify[r] # Free
         /\ Status \in {"SUCCESS", "ERROR"} /\ CallsSound
         /\ Free \notin [Protocol : Guids, Position : Prots \cup {NULL}]
BY StructureAssumption DEF IInv, TypeOK, LinksSound, PositionSound, SignalsSound, Allocated

\* What the calls rely on when a registration changes.
LEMMA ChangedRegs ==
  ASSUME IInv, NEW nt,
         \A r \in Regs : notify[r] # Free /\ nt[r] = Free =>
           ~\E k \in 1..Len(stack) : stack[k].pc = "notify" /\ stack[k].arg.reg = r
  PROVE  Calls(stack, Status, prot, nt)
<1>1. Calls(stack, Status, prot, notify)
  BY DEF IInv, CallsSound
<1>2. ASSUME NEW k \in 1..Len(stack), stack[k].pc = "notify", notify[stack[k].arg.reg] # Free
      PROVE  nt[stack[k].arg.reg] # Free
  <2>1. stack[k] \in Frames
    BY <1>1, CallsType
  <2>2. stack[k].arg.reg \in Regs
    BY <1>2, <2>1, FrameArgs
  <2> QED BY <1>2, <2>2
<1>3. \A k \in 1..Len(stack) : stack[k].pc = "notify" /\ notify[stack[k].arg.reg] # Free => nt[stack[k].arg.reg] # Free
  BY <1>2
<1>4. \A k \in 1..Len(stack) : stack[k].pc \in HoldsProt =>
        /\ prot[stack[k].arg.p] # Free
        /\ prot[stack[k].arg.p].Handle = prot[stack[k].arg.p].Handle
        /\ prot[stack[k].arg.p].Protocol = prot[stack[k].arg.p].Protocol
  BY <1>1 DEF Calls, StackSound, SoundOn
<1> QED BY <1>1, <1>3, <1>4, ChangedCalls

LEMMA ReinstalledStep ==
  ASSUME IInv, Reinstalled
  PROVE  IInv'
<1>1. /\ Top.pc # "app" /\ signalled' = NotifyProtocolEntry(arg.g) /\ Return("SUCCESS")
      /\ UNCHANGED <<handles, entries, OpenList>> /\ notify' = notify /\ before' = before
  BY DEF Reinstalled, At
<1>2. Calls(stack', Status', prot, notify) /\ Status' \in {"SUCCESS", "ERROR"}
  BY <1>1, RegsType, ReturnFacts
<1>3. \A r \in signalled' : r \in Regs /\ notify'[r] # Free
  BY <1>1, RegsType DEF NotifyProtocolEntry
<1> QED BY <1>1, <1>2, <1>3, RegsType, OnlyRegs

LEMMA RegisterProtocolNotifyStep ==
  ASSUME IInv, NEW r \in Regs, NEW g \in Guids, RegisterProtocolNotify(r, g)
  PROVE  IInv'
<1>1. /\ notify' = [notify EXCEPT ![r] = [Protocol |-> g, Position |-> NULL]]
      /\ before' = [before EXCEPT ![r] = Members(Protocols[g])]
      /\ UNCHANGED <<handles, entries, OpenList>> /\ UNCHANGED control /\ signalled' = signalled
  BY DEF RegisterProtocolNotify
<1>2. /\ notify' \in [Regs -> [Protocol : Guids, Position : Prots \cup {NULL}] \cup {Free}]
      /\ \A q \in Regs : notify'[q] # Free =>
           notify'[q].Position \in {NULL} \cup Members(Protocols[notify'[q].Protocol])
      /\ \A q \in Regs : notify[q] # Free => notify'[q] # Free
  BY <1>1, RegsType
<1>3. before' \in [Regs -> SUBSET Prots]
  <2>1. Members(Protocols[g]) \subseteq Prots
    BY DEF IInv, TypeOK, Members
  <2> QED BY <1>1, <2>1, RegsType
<1>4. \A q \in signalled' : q \in Regs /\ notify'[q] # Free
  BY <1>1, <1>2, RegsType
<1>5. stack' = stack /\ Status' = Status
  BY <1>1 DEF control
<1>6. Calls(stack, Status, prot, notify')
  BY <1>2, ChangedRegs
<1> QED BY <1>1, <1>2, <1>3, <1>4, <1>5, <1>6, RegsType, OnlyRegs

LEMMA UnregisterProtocolNotifyStep ==
  ASSUME IInv, NEW r \in Regs, UnregisterProtocolNotify(r)
  PROVE  IInv'
<1>1. /\ notify' = [notify EXCEPT ![r] = Free] /\ signalled' = signalled \ {r}
      /\ before' = [before EXCEPT ![r] = {}]
      /\ UNCHANGED <<handles, entries, OpenList>> /\ UNCHANGED control
      /\ ~\E k \in 1..Len(stack) : stack[k].pc \in {"notify", "callback"} /\ stack[k].arg.reg = r
  BY DEF UnregisterProtocolNotify
<1>2. /\ notify' \in [Regs -> [Protocol : Guids, Position : Prots \cup {NULL}] \cup {Free}]
      /\ \A q \in Regs : notify'[q] # Free =>
           notify'[q].Position \in {NULL} \cup Members(Protocols[notify'[q].Protocol])
      /\ \A q \in Regs : q # r => notify'[q] = notify[q]
      /\ before' \in [Regs -> SUBSET Prots]
  BY <1>1, RegsType
<1>3. \A q \in signalled' : q \in Regs /\ notify'[q] # Free
  BY <1>1, <1>2, RegsType
<1>4. stack' = stack /\ Status' = Status
  BY <1>1 DEF control
<1>5. Calls(stack, Status, prot, notify')
  BY <1>2, <1>1, ChangedRegs
<1> QED BY <1>1, <1>2, <1>3, <1>4, <1>5, RegsType, OnlyRegs

LEMMA AdvanceStep ==
  ASSUME IInv, NEW r \in Regs, Allocated(r), Advance(r)
  PROVE  IInv'
<1>1. /\ Unseen(r) # <<>>
      /\ notify' = [notify EXCEPT ![r].Position = Unseen(r)[1]]
      /\ UNCHANGED <<handles, entries, OpenList>> /\ UNCHANGED control
      /\ signalled' = signalled /\ before' = before
  BY DEF Advance
<1>2. /\ notify[r] \in [Protocol : Guids, Position : Prots \cup {NULL}]
      /\ Unseen(r) \in Seq(Prots)
      /\ Members(Unseen(r)) \subseteq Members(Protocols[notify[r].Protocol])
  BY RegFacts DEF IInv, LinksSound
<1> DEFINE p == Unseen(r)[1]
           n == [Protocol |-> notify[r].Protocol, Position |-> p]
<1>3. p \in Prots /\ p \in Members(Protocols[notify[r].Protocol])
  <2>1. 1 \in 1..Len(Unseen(r))
    BY <1>1, <1>2
  <2> QED BY <1>2, <2>1 DEF Members
<1> HIDE DEF p
<1>4. [notify[r] EXCEPT !.Position = p] = n
  BY <1>2
<1>5. notify' = [notify EXCEPT ![r] = n]
  BY <1>1, <1>4 DEF p
<1>6. n \in [Protocol : Guids, Position : Prots \cup {NULL}] /\ n.Position = p /\ n.Protocol = notify[r].Protocol
  BY <1>2, <1>3
<1> HIDE DEF n
<1>7. /\ notify' \in [Regs -> [Protocol : Guids, Position : Prots \cup {NULL}] \cup {Free}]
      /\ \A q \in Regs : notify'[q] # Free =>
           notify'[q].Position \in {NULL} \cup Members(Protocols[notify'[q].Protocol])
      /\ \A q \in Regs : notify[q] # Free => notify'[q] # Free
  BY <1>3, <1>5, <1>6, RegsType
<1>8. \A q \in signalled' : q \in Regs /\ notify'[q] # Free
  BY <1>1, <1>7, RegsType
<1>9. stack' = stack /\ Status' = Status
  BY <1>1 DEF control
<1>10. Calls(stack, Status, prot, notify')
  BY <1>7, ChangedRegs
<1> QED BY <1>1, <1>7, <1>8, <1>9, <1>10, RegsType, OnlyRegs

LEMMA LocateProtocolStep ==
  ASSUME IInv, NEW r \in Regs, LocateProtocol(r)
  PROVE  IInv'
BY AdvanceStep DEF LocateProtocol

LEMMA NotifyFacts ==
  ASSUME IInv, At("notify")
  PROVE  arg \in [reg : Regs, saved : {"SUCCESS", "ERROR"}] /\ Allocated(arg.reg) /\ Top.tpl \in Tpls
<1>1. Top \in Frames /\ SoundOn(stack, Len(stack) - 1, prot, notify, Top)
  BY TopFacts DEF IInv
<1>2. Top.pc = "notify"
  BY DEF At
<1> QED BY <1>1, <1>2, FrameArgs DEF SoundOn, arg, Allocated

LEMMA NotifyTakesStep ==
  ASSUME IInv, NotifyTakes
  PROVE  IInv'
<1>1. At("notify") /\ Advance(arg.reg)
  BY DEF NotifyTakes
<1>2. arg.reg \in Regs /\ Allocated(arg.reg)
  BY <1>1, NotifyFacts
<1> QED BY <1>1, <1>2, AdvanceStep

LEMMA NotifyTookAllStep ==
  ASSUME IInv, NotifyTookAll
  PROVE  IInv'
<1> DEFINE f == Frame("callback", Top.tpl, arg)
<1>1. /\ At("notify") /\ stack' = Append(Pop(stack), f)
      /\ UNCHANGED <<Status, handles, entries, OpenList, regs>>
  BY DEF NotifyTookAll, Become
<1>2. f \in Frames /\ f.pc \in Plain
  <2>1. arg \in [reg : Regs \cup {NULL}, saved : {"SUCCESS", "ERROR"}] /\ Top.tpl \in Tpls
    BY <1>1, NotifyFacts
  <2>2. \A a \in [reg : Regs \cup {NULL}, saved : {"SUCCESS", "ERROR"}] : Frame("callback", Top.tpl, a) \in Frames
    BY <2>1, BuildFrames
  <2>3. f \in Frames
    BY <2>1, <2>2
  <2> QED BY <2>3 DEF Frame, Plain
<1> HIDE DEF f
<1>3. Calls(stack', Status', prot, notify)
  BY <1>1, <1>2, RegsType, BecomePlain DEF At
<1>4. Status' \in {"SUCCESS", "ERROR"}
  BY <1>1, RegsType
<1> QED BY <1>1, <1>3, <1>4, OnlyCalls
-----------------------------------------------------------------------------
(* Notification functions.                                                 *)

\* What is interrupted is not InstallMultiple, which runs at NOTIFY.
LEMMA InterruptFacts ==
  ASSUME IInv, NEW tpl \in {EFI_TPL_CALLBACK, EFI_TPL_NOTIFY}, NEW pc, NEW r, Interrupt(tpl, pc, r)
  PROVE  /\ stack' = Append(stack, Frame(pc, tpl, [reg |-> r, saved |-> Status]))
         /\ tpl \in Tpls /\ Status \in {"SUCCESS", "ERROR"}
         /\ stack[Len(stack)].pc \notin {"installMultiple", "installOne"}
         /\ Calls(stack, Status, prot, notify)
<1>1. /\ Top.tpl < tpl
      /\ stack' = Append(stack, Frame(pc, tpl, [reg |-> r, saved |-> Status]))
  BY DEF Interrupt
<1>2. Top \in Frames /\ CallsSound
  BY TopFacts DEF IInv
<1>3. Top.pc \in Installs => Top.tpl = EFI_TPL_NOTIFY
  BY <1>2, FrameArgs
<1>4. Top.pc \notin Installs
  BY <1>1, <1>3 DEF EFI_TPL_CALLBACK, EFI_TPL_NOTIFY
<1>5. tpl \in Tpls /\ Status \in {"SUCCESS", "ERROR"}
  BY RegsType DEF Tpls
<1> QED BY <1>1, <1>2, <1>4, <1>5 DEF Installs, Top, CallsSound

LEMMA NotifiedStep ==
  ASSUME IInv, NEW r \in Regs, Notified(r)
  PROVE  IInv'
<1> DEFINE f == Frame("notify", NotifyTpl[r], [reg |-> r, saved |-> Status])
<1>1. /\ r \in signalled /\ Interrupt(NotifyTpl[r], "notify", r) /\ signalled' = signalled \ {r}
      /\ UNCHANGED <<handles, entries, OpenList>> /\ Status' = Status /\ notify' = notify /\ before' = before
  BY DEF Notified
<1>2. NotifyTpl[r] \in {EFI_TPL_CALLBACK, EFI_TPL_NOTIFY}
  BY ServiceAssumption
<1>3. /\ stack' = Append(stack, f)
      /\ NotifyTpl[r] \in Tpls /\ Status \in {"SUCCESS", "ERROR"}
      /\ stack[Len(stack)].pc \notin {"installMultiple", "installOne"}
      /\ Calls(stack, Status, prot, notify)
  BY <1>1, <1>2, InterruptFacts
<1>4. f \in Frames /\ f.pc = "notify" /\ f.arg.reg = r
  <2>1. [reg |-> r, saved |-> Status] \in [reg : Regs, saved : {"SUCCESS", "ERROR"}]
    BY <1>3
  <2> QED BY <1>3, <2>1, BuildFrames DEF Frame
<1> HIDE DEF f
<1>5. notify[r] # Free
  BY <1>1, RegsType
<1>6. SoundOn(stack, Len(stack), prot, notify, f)
  BY <1>4, <1>5 DEF SoundOn, HoldsProt, Locked, Removes, Installs, Uninstalls
<1>7. Calls(stack', Status', prot, notify')
  BY <1>1, <1>3, <1>4, <1>6, PushCalls
<1>8. Status' \in {"SUCCESS", "ERROR"} /\ \A q \in signalled' : q \in Regs /\ notify'[q] # Free
  BY <1>1, <1>3, RegsType
<1> QED BY <1>1, <1>7, <1>8, RegsType, OnlyRegs

LEMMA CallbackStep ==
  ASSUME IInv, Callback
  PROVE  IInv'
<1> DEFINE f == Frame("callback", EFI_TPL_CALLBACK, [reg |-> NULL, saved |-> Status])
<1>1. /\ Interrupt(EFI_TPL_CALLBACK, "callback", NULL)
      /\ UNCHANGED <<handles, entries, OpenList, regs>> /\ Status' = Status
  BY DEF Callback
<1>2. /\ stack' = Append(stack, f)
      /\ EFI_TPL_CALLBACK \in Tpls /\ Status \in {"SUCCESS", "ERROR"}
      /\ stack[Len(stack)].pc \notin {"installMultiple", "installOne"}
      /\ Calls(stack, Status, prot, notify)
  BY <1>1, InterruptFacts
<1>3. f \in Frames /\ f.pc \in Plain
  <2>1. [reg |-> NULL, saved |-> Status] \in [reg : Regs \cup {NULL}, saved : {"SUCCESS", "ERROR"}]
    BY <1>2
  <2> QED BY <1>2, <2>1, BuildFrames DEF Frame, Plain
<1> HIDE DEF f
<1>4. Calls(stack', Status', prot, notify)
  BY <1>2, <1>3, PushPlain
<1> QED BY <1>1, <1>2, <1>4, OnlyCalls

LEMMA CallbackReturnsStep ==
  ASSUME IInv, CallbackReturns
  PROVE  IInv'
<1>1. /\ Top.pc = "callback" /\ stack' = Pop(stack) /\ Status' = arg.saved
      /\ UNCHANGED <<handles, entries, OpenList, regs>>
  BY DEF CallbackReturns, At
<1>2. Top \in Frames /\ \A status : Calls(Pop(stack), status, prot, notify)
  BY <1>1, TopFacts DEF IInv
<1>3. Status' \in {"SUCCESS", "ERROR"}
  BY <1>1, <1>2, FrameArgs DEF arg
<1> QED BY <1>1, <1>2, <1>3, OnlyCalls
-----------------------------------------------------------------------------
(* LocateHandleBuffer and StartImage.                                      *)

LEMMA LocateHandleBufferStep ==
  ASSUME IInv, NEW g \in Guids, LocateHandleBuffer(g)
  PROVE  IInv'
<1> DEFINE f == Frame("locateBuffer", Top.tpl, [g |-> g, size |-> Cardinality(LocateHandle(g))])
<1>1. /\ May("LocateBuffer") /\ stack' = Append(stack, f) /\ Status' = Status
      /\ UNCHANGED <<handles, entries, OpenList, regs>>
  BY DEF LocateHandleBuffer, Call, Top
<1>2. LocateHandle(g) \in SUBSET Handles
  BY DEF IInv, TypeOK, LinksSound, DatabaseSound, LocateHandle, Installed
<1>3. Top.tpl \in Tpls /\ Calls(stack, "SUCCESS", prot, notify)
  BY <1>1, ClientFacts DEF IInv
<1>4. f \in Frames /\ f.pc \in Plain
  <2>1. [g |-> g, size |-> Cardinality(LocateHandle(g))]
          \in [g : Guids, size : {Cardinality(S) : S \in SUBSET Handles}]
    BY <1>2
  <2> QED BY <1>3, <2>1, BuildFrames DEF Frame, Plain
<1> HIDE DEF f
<1>5. Calls(stack', Status', prot, notify)
  BY <1>1, <1>3, <1>4, PushPlain
<1> QED BY <1>1, <1>5, RegsType, OnlyCalls

LEMMA StartImageStep ==
  ASSUME IInv, StartImage
  PROVE  IInv'
<1> DEFINE f == Frame("image", Top.tpl, NULL)
           s == Append(stack, f)
           d == Frame("driver", s[Len(s)].tpl, NULL)
<1>1. /\ May("StartImage") /\ stack' = Append(s, d) /\ Status' = Status
      /\ newer' = {} /\ modified' = {} /\ handle' = handle
      /\ UNCHANGED <<handle, entries, regs>> /\ OpenList' = OpenList
  BY DEF StartImage, Call, Top
<1>2. Top.tpl \in Tpls /\ Calls(stack, "SUCCESS", prot, notify)
  BY <1>1, ClientFacts DEF IInv
<1>3. f \in Frames /\ f.pc = "image" /\ f.tpl = Top.tpl
  <2>1. "image" \in NoArgument
    BY DEF NoArgument
  <2> QED BY <1>2, <2>1, BuildFrames DEF Frame
<1> HIDE DEF f
<1>4. f.pc \in Plain
  BY <1>3 DEF Plain, NoArgument
<1>5. Calls(s, "SUCCESS", prot, notify)
  BY <1>2, <1>3, <1>4, PushPlain
<1>6. s[Len(s)] = f
  <2>1. stack \in Seq(Frames)
    BY <1>2, CallsType
  <2> QED BY <2>1
<1> HIDE DEF s
<1>7. d \in Frames /\ d.pc = "driver"
  <2>1. "driver" \in NoArgument
    BY DEF NoArgument
  <2> QED BY <1>2, <1>3, <1>6, <2>1, BuildFrames DEF Frame
<1> HIDE DEF d
<1>8. d.pc \in Plain
  BY <1>7 DEF Plain, NoArgument
<1>9. Calls(stack', Status', prot, notify)
  BY <1>1, <1>5, <1>7, <1>8, PushPlain
<1>10. RecordsSound(OpenList')
  BY <1>1 DEF IInv, TypeOK, LinksSound, DatabaseSound, RecordsSound
<1>11. newer' \subseteq Handles /\ modified' \subseteq Handles
  BY <1>1
<1> QED BY <1>1, <1>9, <1>10, <1>11, RegsType, SameLists

LEMMA ConnectHandlesByKeyStep ==
  ASSUME IInv, ConnectHandlesByKey
  PROVE  IInv'
<1> DEFINE f == Frame("connectByKey", Top.tpl, newer)
<1>1. /\ Top.pc = "image" /\ stack' = Append(Pop(stack), f) /\ Status' = Status
      /\ newer' = {} /\ modified' = {}
      /\ UNCHANGED <<handle, entries, regs>> /\ OpenList' = OpenList
  BY DEF ConnectHandlesByKey, At, Become
<1>2. CallsSound /\ Top \in Frames
  BY TopFacts DEF IInv
<1>3. f \in Frames /\ f.pc \in Plain
  <2>1. newer \in SUBSET Handles
    BY DEF IInv, TypeOK
  <2> QED BY <1>2, <2>1, FrameArgs, BuildFrames DEF Frame, Plain
<1> HIDE DEF f
<1>4. Calls(stack', Status', prot, notify)
  BY <1>1, <1>2, <1>3, BecomePlain
<1>5. RecordsSound(OpenList')
  BY <1>1 DEF IInv, TypeOK, LinksSound, DatabaseSound, RecordsSound
<1>6. newer' \subseteq Handles /\ modified' \subseteq Handles
  BY <1>1
<1> QED BY <1>1, <1>4, <1>5, <1>6, RegsType, SameLists

LEMMA ConnectNextStep ==
  ASSUME IInv, ConnectNext
  PROVE  IInv'
<1>1. /\ Top.pc = "connectByKey" /\ UNCHANGED <<handles, entries, OpenList, regs>>
      /\ \/ \E h \in arg : stack' = Call(Become("connectByKey", arg \ {h}), "connect", [h |-> h])
                           /\ UNCHANGED Status
         \/ Return("SUCCESS")
  BY DEF ConnectNext, At
<1>2. CallsSound /\ Top \in Frames
  BY TopFacts DEF IInv
<1>3. arg \subseteq Handles
  BY <1>1, <1>2, FrameArgs DEF arg
<1>4. CASE Return("SUCCESS")
  BY <1>1, <1>4, ReturnStep
<1>5. CASE \E h \in arg : stack' = Call(Become("connectByKey", arg \ {h}), "connect", [h |-> h])
                          /\ UNCHANGED Status
  <2>1. PICK h \in arg : stack' = Call(Become("connectByKey", arg \ {h}), "connect", [h |-> h])
                         /\ UNCHANGED Status
    BY <1>5
  <2> DEFINE f == Frame("connectByKey", Top.tpl, arg \ {h})
             s == Append(Pop(stack), f)
             c == Frame("connect", s[Len(s)].tpl, [h |-> h])
  <2>2. stack' = Append(s, c) /\ Status' = Status
    BY <2>1 DEF Call, Become
  <2>3. f \in Frames /\ f.pc = "connectByKey" /\ f.tpl \in Tpls
    <3>1. arg \ {h} \in SUBSET Handles
      BY <1>3
    <3> QED BY <1>2, <3>1, FrameArgs, BuildFrames DEF Frame
  <2> HIDE DEF f
  <2>4. f.pc \in Plain
    BY <2>3 DEF Plain
  <2>5. Calls(s, Status, prot, notify)
    BY <1>1, <1>2, <2>3, <2>4, BecomePlain
  <2>6. s[Len(s)] = f
    <3>1. Pop(stack) \in Seq(Frames)
      BY <1>1, <1>2, TopFacts, CallsType
    <3> QED BY <2>3, <3>1
  <2> HIDE DEF s
  <2>7. c \in Frames /\ c.pc = "connect"
    <3>1. [h |-> h] \in [h : Handles]
      BY <1>3
    <3> QED BY <2>3, <2>6, <3>1, BuildFrames DEF Frame
  <2> HIDE DEF c
  <2>8. c.pc \in Plain
    BY <2>7 DEF Plain
  <2>9. Calls(stack', Status', prot, notify)
    BY <2>2, <2>3, <2>5, <2>6, <2>7, <2>8, PushPlain
  <2> QED BY <1>1, <2>2, <2>9, RegsType, OnlyCalls
<1> QED BY <1>1, <1>4, <1>5
-----------------------------------------------------------------------------
(* The steps that change the lists.                                        *)

\* Holders hold what is installed.
LEMMA HeldFacts ==
  ASSUME NEW s, NEW status, Calls(s, status, prot, notify), NEW k \in 1..Len(s), s[k].pc \in HoldsProt
  PROVE  s[k].arg.p \in Installed /\ prot[s[k].arg.p].Handle = s[k].arg.h
<1>1. s[k] \in Frames /\ SoundOn(s, k - 1, prot, notify, s[k])
  BY DEF Calls, StackSound
<1>2. s[k].pc \in Removes \/ s[k].pc \in Opens
  BY DEF HoldsProt, Locked, Removes, Opens
<1>3. s[k].arg.p \in Prots
  BY <1>1, <1>2, FrameArgs
<1> QED BY <1>1, <1>3 DEF SoundOn, Installed

\* A new structure is held by nobody.
LEMMA NewStructure ==
  ASSUME NEW s, NEW status, Calls(s, status, prot, notify), NEW pr,
         \A q \in Installed : pr[q] = prot[q]
  PROVE  Calls(s, status, pr, notify)
<1>1. \A k \in 1..Len(s) : s[k].pc \in HoldsProt =>
        /\ pr[s[k].arg.p] # Free
        /\ pr[s[k].arg.p].Handle = prot[s[k].arg.p].Handle
        /\ pr[s[k].arg.p].Protocol = prot[s[k].arg.p].Protocol
  BY HeldFacts DEF Installed
<1>2. \A k \in 1..Len(s) : s[k].pc = "notify" /\ notify[s[k].arg.reg] # Free => notify[s[k].arg.reg] # Free
  OBVIOUS
<1> QED BY <1>1, <1>2, ChangedCalls

\* InstallMultiple is told the handle; a handle that is new is held by nobody.
LEMMA ReturnHandleFacts ==
  ASSUME IInv, Top.pc = "install", NEW h \in Handles, NEW pr,
         \A q \in Installed : pr[q] = prot[q],
         IF arg.h = NULL THEN ~Valid(h) ELSE h = arg.h,
         ReturnHandle(h)
  PROVE  Calls(stack', Status', pr, notify)
<1> DEFINE s == Pop(stack)
           t == s[Len(s)]
           f == [t EXCEPT !.arg.h = h]
<1>1. /\ Calls(s, "SUCCESS", prot, notify) /\ SoundOn(s, Len(s), prot, notify, Top) /\ Top \in Frames
      /\ Len(s) = Len(stack) - 1 /\ Len(stack) >= 2 /\ Len(stack) \in Nat
  BY TopFacts DEF IInv
<1>2. stack' = (IF t.pc = "installMultiple" THEN Append(Pop(s), f) ELSE s) /\ Status' = "SUCCESS"
  BY DEF ReturnHandle
<1>3. s \in Seq(Frames) /\ Len(s) \in 1..Len(s) /\ t \in Frames
  <2>1. s \in Seq(Frames) /\ Len(s) \in Nat
    BY <1>1, CallsType
  <2> HIDE DEF s
  <2> QED BY <1>1, <2>1
<1> HIDE DEF s
<1>4. Calls(s, "SUCCESS", pr, notify)
  BY <1>1, NewStructure
<1>5. CASE t.pc # "installMultiple"
  BY <1>2, <1>4, <1>5
<1>6. CASE t.pc = "installMultiple"
  <2>1. /\ t.tpl = EFI_TPL_NOTIFY /\ t.arg \in MultiArgs(Handles \cup {NULL})
        /\ t = [pc |-> t.pc, tpl |-> t.tpl, arg |-> t.arg]
    BY <1>3, <1>6, FrameArgs DEF Installs
  <2>2. /\ t.arg = [h |-> t.arg.h, list |-> t.arg.list, n |-> t.arg.n, m |-> t.arg.m, was |-> t.arg.was]
        /\ t.arg.h = arg.h
    <3>1. t.arg.h = arg.h
      BY <1>1, <1>3, <1>6 DEF SoundOn, arg
    <3> QED BY <2>1, <3>1 DEF MultiArgs
  <2> DEFINE a == [h |-> h, list |-> t.arg.list, n |-> t.arg.n, m |-> t.arg.m, was |-> t.arg.was]
             e == Frame("installMultiple", EFI_TPL_NOTIFY, a)
  <2>3. f = e
    <3>1. f = [pc |-> t.pc, tpl |-> t.tpl, arg |-> [t.arg EXCEPT !.h = h]]
      <4> HIDE DEF t
      <4> QED BY <2>1
    <3>2. [t.arg EXCEPT !.h = h] = a
      <4> HIDE DEF t
      <4> QED BY <2>2
    <3> QED BY <1>6, <2>1, <3>1, <3>2 DEF Frame
  <2>4. a \in MultiArgs(Handles \cup {NULL})
    BY <2>1 DEF MultiArgs
  <2>5. e \in Frames /\ e.pc = "installMultiple" /\ e.arg = a
    <3>1. EFI_TPL_NOTIFY \in Tpls /\ "installMultiple" \in Installs
      BY DEF Tpls, Installs
    <3> QED BY <2>4, <3>1, BuildFrames DEF Frame
  <2>6. /\ Calls(Pop(s), "SUCCESS", pr, notify) /\ Len(Pop(s)) = Len(s) - 1
        /\ Calls(Pop(s), "SUCCESS", prot, notify)
        /\ \A k \in 1..(Len(s) - 1) : Pop(s)[k] = s[k]
    <3>1. s[Len(s)].pc # "app"
      BY <1>6
    <3> QED BY <1>1, <1>4, <3>1, PopCalls
  <2>7. stack' = Append(Pop(s), e) /\ Status' = "SUCCESS"
    BY <1>2, <1>6, <2>3
  <2>8. SoundOn(s, Len(s) - 1, pr, notify, t)
    BY <1>3, <1>4 DEF Calls, StackSound
  <2>9. SoundOn(Pop(s), Len(Pop(s)), pr, notify, t)
    <3>1. Len(s) - 1 \in Nat /\ \A k \in 1..(Len(s) - 1) : s[k] = Pop(s)[k]
      BY <1>3, <2>6
    <3> QED BY <2>6, <2>8, <3>1, SoundOnSame
  <2>10. CASE arg.h # NULL
    <3>1. h = t.arg.h
      BY <2>2, <2>10
    <3>2. e = t
      BY <1>6, <2>1, <2>2, <3>1 DEF Frame
    <3>3. e.arg.n >= 1 /\ e.arg.h # NULL =>
            ~Held(Pop(s), Len(Pop(s)), pr, e.arg.h, e.arg.list[e.arg.n][1])
      <4>1. LastProcessed(s, "SUCCESS", pr)
        BY <1>4 DEF Calls
      <4>2. t.arg.n >= 1 /\ t.arg.h # NULL => ~Held(s, Len(s) - 1, pr, t.arg.h, t.arg.list[t.arg.n][1])
        BY <1>3, <1>6, <4>1 DEF LastProcessed
      <4>3. \A k \in 1..(Len(s) - 1) : s[k] = Pop(s)[k]
        BY <2>6
      <4> HIDE DEF e, t
      <4> QED BY <2>6, <3>2, <4>2, <4>3, HeldSame
    <3> HIDE DEF e
    <3>4. Calls(Append(Pop(s), e), "SUCCESS", pr, notify)
      BY <2>5, <2>6, <2>9, <3>2, <3>3, PushCalls
    <3> QED BY <2>7, <3>4
  <2>11. CASE arg.h = NULL
    <3>1. \A g : ~Held(Pop(s), Len(Pop(s)), prot, h, g)
      <4>1. \A p \in Installed : prot[p].Handle # h
        BY <2>11 DEF IInv, LinksSound, DatabaseSound
      <4> QED BY <2>6, <4>1, HeldIsInstalled
    <3>2. \A g : ~Held(Pop(s), Len(Pop(s)), pr, h, g)
      <4>1. \A k \in 1..Len(Pop(s)) : Pop(s)[k].pc \in HoldsProt => pr[Pop(s)[k].arg.p] = prot[Pop(s)[k].arg.p]
        BY <2>6, HeldFacts
      <4> QED BY <3>1, <4>1 DEF Held
    <3>3. a.n \in 0..Len(a.list) /\ a.h = h
      BY <1>6, <2>9 DEF SoundOn, Installs
    <3> HIDE DEF e, a
    <3>4. SoundOn(Pop(s), Len(Pop(s)), pr, notify, e)
      BY <2>5, <3>2, <3>3 DEF SoundOn, HoldsProt, Locked, Removes, Uninstalls
    <3>5. Calls(Append(Pop(s), e), "SUCCESS", pr, notify)
      BY <2>5, <2>6, <3>2, <3>3, <3>4, PushCalls
    <3> QED BY <2>7, <3>5
  <2> QED BY <2>10, <2>11
<1> QED BY <1>5, <1>6

LEMMA InstallStep ==
  ASSUME IInv, Install
  PROVE  IInv'
<1>1. Top.pc = "install" /\ UNCHANGED <<OpenList, notify, before>>
  BY DEF Install, At
<1>2. PICK h \in Handles, p \in Prots \ Installed :
        /\ IF arg.h = NULL THEN ~Valid(h) ELSE h = arg.h /\ Valid(h)
        /\ prot' = [prot EXCEPT ![p] = [Handle |-> h, Protocol |-> arg.g, Interface |-> arg.i]]
        /\ handle' = [handle EXCEPT ![h] = IF Valid(h) THEN InsertHeadList(@, p) ELSE <<p>>]
        /\ Protocols' = EntryAdded(arg.g, p)
        /\ newer' = (IF Valid(h) THEN newer ELSE Mark(newer, h))
        /\ modified' = Mark(modified, h)
        /\ signalled' = NotifyProtocolEntry(arg.g)
        /\ ReturnHandle(h)
  BY DEF Install
<1>3. TypeOK /\ DatabaseSound /\ PositionSound /\ CallsSound /\ SignalsSound
  BY DEF IInv, LinksSound
<1>4. arg \in [h : Handles \cup {NULL}, g : Guids, i : Interfaces]
  <2>1. Top \in Frames
    BY <1>3, TopFacts
  <2> QED BY <1>1, <2>1, FrameArgs DEF arg
<1> DEFINE new == [Handle |-> h, Protocol |-> arg.g, Interface |-> arg.i]
           g == arg.g
<1>5. new \in Entry /\ new # Free /\ new.Handle = h /\ new.Protocol = g /\ g \in Guids
  BY <1>4, StructureAssumption DEF Entry
<1>6. prot' = [prot EXCEPT ![p] = new]
  BY <1>2
<1>7. Protocols' = [Protocols EXCEPT ![g] = InsertTailList(@, p)]
  BY <1>2 DEF EntryAdded
<1> HIDE DEF new, g
<1>8. /\ prot[p] = Free /\ p \in Prots
      /\ prot \in [Prots -> Entry \cup {Free}]
      /\ Protocols \in [Guids -> Seq(Prots)]
      /\ handle \in [Handles -> (Seq(Prots) \ {<<>>}) \cup {Free}]
  BY <1>3 DEF TypeOK, Installed, Entry
<1>9. /\ prot' \in [Prots -> Entry \cup {Free}] /\ Installed' = Installed \cup {p}
      /\ prot'[p] = new /\ \A q \in Installed : prot'[q] = prot[q] /\ q # p
  BY <1>5, <1>6, <1>8 DEF Installed
<1> DEFINE links == IF Valid(h) THEN InsertHeadList(handle[h], p) ELSE <<p>>
           list == InsertTailList(Protocols[g], p)
<1>10. /\ links \in Seq(Prots) /\ links # <<>> /\ NoDuplicates(links)
       /\ Members(links) = {q \in Installed : prot[q].Handle = h} \cup {p}
  <2>1. CASE Valid(h)
    <3>1. /\ handle[h] \in Seq(Prots) /\ NoDuplicates(handle[h])
          /\ Members(handle[h]) = {q \in Installed : prot[q].Handle = h} /\ p \notin Members(handle[h])
          /\ Len(handle[h]) \in Nat
      BY <1>2, <1>3, <1>8, <2>1 DEF DatabaseSound, Valid
    <3>2. 1 \in 1..(Len(handle[h]) + 1)
      BY <3>1
    <3>3. /\ InsertBefore(handle[h], 1, p) \in Seq(Prots)
          /\ Len(InsertBefore(handle[h], 1, p)) = Len(handle[h]) + 1
          /\ Members(InsertBefore(handle[h], 1, p)) = Members(handle[h]) \cup {p}
          /\ NoDuplicates(InsertBefore(handle[h], 1, p))
      BY <1>8, <3>1, <3>2, InsertBeforeProperties
    <3>4. links = InsertBefore(handle[h], 1, p)
      BY <2>1 DEF InsertHeadList
    <3> HIDE DEF links
    <3>5. links # <<>>
      BY <3>1, <3>3, <3>4
    <3> QED BY <3>1, <3>3, <3>4, <3>5
  <2>2. CASE ~Valid(h)
    <3>1. links = <<p>>
      BY <2>2
    <3>2. {q \in Installed : prot[q].Handle = h} = {}
      BY <1>3, <2>2 DEF DatabaseSound
    <3>3. <<p>> \in Seq(Prots) /\ <<p>> # <<>> /\ Len(<<p>>) = 1 /\ <<p>>[1] = p
      BY <1>8
    <3>4. NoDuplicates(<<p>>) /\ Members(<<p>>) = {p}
      <4> DEFINE one == <<p>>
      <4>1. Len(one) = 1 /\ one[1] = p
        BY <3>3
      <4> HIDE DEF one
      <4>2. 1..Len(one) = {1}
        BY <4>1
      <4>3. NoDuplicates(one) /\ Members(one) = {p}
        BY <4>1, <4>2 DEF NoDuplicates, Members
      <4> QED BY <4>3 DEF one
    <3> HIDE DEF links
    <3> QED BY <3>1, <3>2, <3>3, <3>4
  <2> QED BY <2>1, <2>2
<1>11. /\ list \in Seq(Prots) /\ NoDuplicates(list)
       /\ Members(list) = {q \in Installed : prot[q].Protocol = g} \cup {p}
       /\ Members(Protocols[g]) \subseteq Members(list)
  <2>1. /\ Protocols[g] \in Seq(Prots) /\ NoDuplicates(Protocols[g])
        /\ Members(Protocols[g]) = {q \in Installed : prot[q].Protocol = g} /\ p \notin Members(Protocols[g])
    BY <1>2, <1>3, <1>5, <1>8 DEF DatabaseSound
  <2>2. list = InsertTailList(Protocols[g], p) /\ p \in Prots
    BY <1>8
  <2> HIDE DEF list
  <2>3. list \in Seq(Prots) /\ NoDuplicates(list) /\ Members(list) = Members(Protocols[g]) \cup {p}
    <3> DEFINE old == Protocols[g]
    <3>1. old \in Seq(Prots) /\ NoDuplicates(old) /\ p \notin Members(old)
      BY <2>1
    <3> HIDE DEF old
    <3>2. /\ InsertTailList(old, p) \in Seq(Prots)
          /\ Members(InsertTailList(old, p)) = Members(old) \cup {p}
          /\ NoDuplicates(InsertTailList(old, p))
      BY <2>2, <3>1, InsertTailProperties
    <3> QED BY <2>2, <3>2 DEF old
  <2> QED BY <2>1, <2>3
<1>12. handle' = [handle EXCEPT ![h] = links]
  BY <1>2
<1>13. Protocols' = [Protocols EXCEPT ![g] = list]
  BY <1>7
<1> HIDE DEF links, list
<1>14. /\ handle' \in [Handles -> (Seq(Prots) \ {<<>>}) \cup {Free}]
       /\ handle'[h] = links /\ \A x \in Handles : x # h => handle'[x] = handle[x]
       /\ Protocols' \in [Guids -> Seq(Prots)]
       /\ Protocols'[g] = list /\ \A x \in Guids : x # g => Protocols'[x] = Protocols[x]
  BY <1>5, <1>8, <1>10, <1>11, <1>12, <1>13
<1>15. Valid(h)' /\ \A x \in Handles : x # h => (Valid(x)' <=> Valid(x))
  <2>1. links # Free
    BY <1>10, StructureAssumption
  <2> QED BY <1>14, <2>1 DEF Valid
<1>16. DatabaseSound'
  <2>1. \A x \in Handles : Valid(x)' => /\ NoDuplicates(handle'[x])
                                        /\ Members(handle'[x]) = {q \in Installed' : prot'[q].Handle = x}
    <3>1. ASSUME NEW x \in Handles, Valid(x)'
          PROVE  NoDuplicates(handle'[x]) /\ Members(handle'[x]) = {q \in Installed' : prot'[q].Handle = x}
      <4>1. CASE x = h
        BY <1>5, <1>9, <1>10, <1>14, <4>1
      <4>2. CASE x # h
        <5>1. NoDuplicates(handle[x]) /\ Members(handle[x]) = {q \in Installed : prot[q].Handle = x}
          BY <1>3, <1>15, <3>1, <4>2 DEF DatabaseSound
        <5> QED BY <1>5, <1>9, <1>14, <4>2, <5>1
      <4> QED BY <4>1, <4>2
    <3> QED BY <3>1
  <2>2. \A x \in Guids : /\ NoDuplicates(Protocols'[x])
                         /\ Members(Protocols'[x]) = {q \in Installed' : prot'[q].Protocol = x}
    <3>1. ASSUME NEW x \in Guids
          PROVE  NoDuplicates(Protocols'[x]) /\ Members(Protocols'[x]) = {q \in Installed' : prot'[q].Protocol = x}
      <4>1. CASE x = g
        BY <1>5, <1>9, <1>11, <1>14, <4>1
      <4>2. CASE x # g
        <5>1. NoDuplicates(Protocols[x]) /\ Members(Protocols[x]) = {q \in Installed : prot[q].Protocol = x}
          BY <1>3 DEF DatabaseSound
        <5> QED BY <1>5, <1>9, <1>14, <4>2, <5>1
      <4> QED BY <4>1, <4>2
    <3> QED BY <3>1
  <2>3. ASSUME NEW q \in Installed'
        PROVE  prot'[q].Handle \in Handles /\ handle'[prot'[q].Handle] # Free
    <3>1. CASE q = p
      BY <1>5, <1>9, <1>15, <3>1 DEF Valid
    <3>2. CASE q # p
      <4>1. q \in Installed /\ prot'[q] = prot[q] /\ Valid(prot[q].Handle)
        BY <1>3, <1>9, <2>3, <3>2 DEF DatabaseSound
      <4> QED BY <1>14, <1>15, <4>1 DEF Valid
    <3> QED BY <3>1, <3>2
  <2>4. \A q \in Prots \ Installed' : OpenList'[q] = {}
    BY <1>1, <1>3, <1>9 DEF DatabaseSound
  <2> QED BY <2>1, <2>2, <2>3, <2>4 DEF DatabaseSound, Valid
<1>17. PositionSound'
  <2>1. ASSUME NEW r \in Regs, Allocated(r)
        PROVE  notify[r].Position \in {NULL} \cup Members(Protocols'[notify[r].Protocol])
    <3>1. /\ notify[r].Protocol \in Guids
          /\ notify[r].Position \in {NULL} \cup Members(Protocols[notify[r].Protocol])
      BY <1>3, <2>1, RegFacts
    <3> QED BY <1>11, <1>14, <3>1
  <2> QED BY <1>1, <2>1 DEF PositionSound, Allocated
<1>18. CallsSound'
  <2>1. IF arg.h = NULL THEN ~Valid(h) ELSE h = arg.h
    BY <1>2
  <2>2. \A q \in Installed : prot'[q] = prot[q]
    BY <1>9
  <2>3. \A pr : (\A q \in Installed : pr[q] = prot[q]) => Calls(stack', Status', pr, notify)
    BY <1>1, <1>2, <2>1, ReturnHandleFacts
  <2>4. Calls(stack', Status', prot', notify)
    BY <2>2, <2>3
  <2> QED BY <1>1, <2>4 DEF CallsSound
<1>19. TypeOK'
  <2>1. /\ \A k \in 1..Len(stack') : /\ stack'[k].pc \in Labels
                                     /\ stack'[k].tpl \in {EFI_TPL_APPLICATION, EFI_TPL_CALLBACK, EFI_TPL_NOTIFY}
        /\ stack' # <<>>
    <3>1. CallsSound' => stack' # <<>> /\ \A k \in 1..Len(stack') : stack'[k].pc \in Labels /\ stack'[k].tpl \in Tpls
      <4>1. \A pr, nt : Calls(stack', Status', pr, nt) =>
               stack' # <<>> /\ \A k \in 1..Len(stack') : stack'[k].pc \in Labels /\ stack'[k].tpl \in Tpls
        BY CallsType
      <4> QED BY <4>1 DEF CallsSound
    <3> QED BY <1>18, <3>1 DEF Tpls
  <2>2. newer' \subseteq Handles /\ modified' \subseteq Handles
    BY <1>2, <1>3 DEF TypeOK, Mark
  <2>3. signalled' \subseteq Regs
    BY <1>2, <1>3 DEF TypeOK, NotifyProtocolEntry
  <2>4. Status' \in {"SUCCESS", "ERROR"}
    BY <1>2 DEF ReturnHandle
  <2> QED BY <1>1, <1>3, <1>9, <1>14, <2>1, <2>2, <2>3, <2>4 DEF TypeOK, Entry
<1>20. SignalsSound'
  <2>1. \A r \in signalled' : Allocated(r)
    BY <1>2, <1>3 DEF SignalsSound, NotifyProtocolEntry
  <2> QED BY <1>1, <2>1 DEF SignalsSound, Allocated
<1> QED BY <1>16, <1>17, <1>18, <1>19, <1>20 DEF IInv, LinksSound

\* Removing an entry of a list.
LEMMA RemovedEntry ==
  ASSUME NEW list \in Seq(Prots), NoDuplicates(list), NEW p
  PROVE  /\ RemoveEntryList(list, p) \in Seq(Prots) /\ NoDuplicates(RemoveEntryList(list, p))
         /\ Members(RemoveEntryList(list, p)) = Members(list) \ {p}
BY RemoveEntryProperties

LEMMA BackLinkFacts ==
  ASSUME NEW list \in Seq(Prots), NoDuplicates(list), NEW p \in Members(list)
  PROVE  BackLink(list, p) \in {NULL} \cup (Members(list) \ {p})
<1> DEFINE k == CHOOSE i \in 1..Len(list) : list[i] = p
<1>1. k \in 1..Len(list) /\ list[k] = p
  BY DEF Members
<1>2. BackLink(list, p) = IF k = 1 THEN NULL ELSE list[k - 1]
  BY DEF BackLink
<1> HIDE DEF k
<1>3. k # 1 => k - 1 \in 1..Len(list) /\ k - 1 # k
  BY <1>1
<1>4. k # 1 => list[k - 1] \in Members(list) \ {p}
  BY <1>1, <1>3 DEF Members, NoDuplicates
<1> QED BY <1>2, <1>4

\* Every Position that was the entry is backed up.
LEMMA PositionsFacts ==
  ASSUME IInv, NEW p \in Installed
  PROVE  /\ PositionsWithout(p) \in [Regs -> [Protocol : Guids, Position : Prots \cup {NULL}] \cup {Free}]
         /\ \A r \in Regs : /\ PositionsWithout(p)[r] # Free <=> notify[r] # Free
                            /\ notify[r] # Free =>
                                 /\ PositionsWithout(p)[r].Protocol = notify[r].Protocol
                                 /\ PositionsWithout(p)[r].Position
                                      \in {NULL} \cup (Members(Protocols[notify[r].Protocol]) \ {p})
<1> DEFINE w == PositionsWithout(p)
<1>1. TypeOK /\ DatabaseSound /\ PositionSound
  BY DEF IInv, LinksSound
<1>2. ASSUME NEW r \in Regs
      PROVE  /\ w[r] \in [Protocol : Guids, Position : Prots \cup {NULL}] \cup {Free}
             /\ w[r] # Free <=> notify[r] # Free
             /\ notify[r] # Free =>
                  /\ w[r].Protocol = notify[r].Protocol
                  /\ w[r].Position \in {NULL} \cup (Members(Protocols[notify[r].Protocol]) \ {p})
  <2>1. CASE Allocated(r) /\ notify[r].Position = p
    <3>1. /\ notify[r] \in [Protocol : Guids, Position : Prots \cup {NULL}]
          /\ p \in {NULL} \cup Members(Protocols[notify[r].Protocol])
          /\ Protocols[notify[r].Protocol] \in Seq(Prots)
      BY <1>1, <2>1, RegFacts
    <3>2. p \in Prots /\ p # NULL
      BY StructureAssumption DEF Installed, Structures
    <3>3. prot[p].Protocol = notify[r].Protocol /\ NoDuplicates(Protocols[notify[r].Protocol])
      BY <1>1, <3>1, <3>2 DEF DatabaseSound
    <3> DEFINE b == BackLink(Protocols[notify[r].Protocol], p)
    <3>4. w[r] = [notify[r] EXCEPT !.Position = b]
      BY <2>1, <3>3 DEF PositionsWithout
    <3>5. b \in {NULL} \cup (Members(Protocols[notify[r].Protocol]) \ {p})
      BY <3>1, <3>2, <3>3, BackLinkFacts
    <3>6. Members(Protocols[notify[r].Protocol]) \subseteq Prots
      BY <3>1 DEF Members
    <3> HIDE DEF b, w
    <3>7. w[r] = [Protocol |-> notify[r].Protocol, Position |-> b]
      BY <3>1, <3>4
    <3>8. w[r] \in [Protocol : Guids, Position : Prots \cup {NULL}]
      BY <3>1, <3>5, <3>6, <3>7
    <3>9. w[r] # Free
      BY <3>8, StructureAssumption
    <3> QED BY <2>1, <3>5, <3>7, <3>8, <3>9 DEF Allocated
  <2>2. CASE ~(Allocated(r) /\ notify[r].Position = p)
    <3>1. w[r] = notify[r]
      BY <2>2 DEF PositionsWithout
    <3>2. notify[r] \in [Protocol : Guids, Position : Prots \cup {NULL}] \cup {Free}
      BY <1>1 DEF TypeOK
    <3>3. notify[r] # Free => notify[r].Position \in {NULL} \cup Members(Protocols[notify[r].Protocol])
      BY <1>1 DEF PositionSound, Allocated
    <3> QED BY <2>2, <3>1, <3>2, <3>3 DEF Allocated
  <2> QED BY <2>1, <2>2
<1>3. w = [r \in Regs |-> w[r]]
  BY DEF PositionsWithout
<1> HIDE DEF w
<1>4. w \in [Regs -> [Protocol : Guids, Position : Prots \cup {NULL}] \cup {Free}]
  BY <1>2, <1>3
<1> QED BY <1>2, <1>4 DEF w

\* What Uninstall and Reinstall find again, and what the interrupted services hold.
LEMMA RemovedFacts ==
  ASSUME IInv, Top.pc \in {"uninstall", "reinstall"}
  PROVE  /\ Removed(arg) \in Installed /\ arg.p \in Installed
         /\ prot[Removed(arg)].Handle = arg.h /\ prot[Removed(arg)].Protocol = prot[arg.p].Protocol
         /\ arg.h \in Handles /\ Valid(arg.h) /\ (Top.pc = "reinstall" => arg.i \in Interfaces)
         /\ Top.pc # "app" /\ Top \in Frames /\ Top.tpl \in Tpls
         /\ \A status : Calls(Pop(stack), status, prot, notify)
         /\ \A k \in 1..Len(Pop(stack)) : Pop(stack)[k].pc \in HoldsProt =>
              Pop(stack)[k].arg.p \in Installed /\ Pop(stack)[k].arg.p # Removed(arg)
<1> DEFINE p == Removed(arg)
<1>1. TypeOK /\ DatabaseSound /\ CallsSound
  BY DEF IInv, LinksSound
<1>2. Top.pc \in HoldsProt /\ Top.pc \in Removes /\ Top.pc # "app"
  BY DEF HoldsProt, Locked, Removes
<1>3. /\ arg.p \in Installed /\ prot[arg.p].Handle = arg.h /\ arg.h \in Handles
      /\ ~Held(Pop(stack), Len(Pop(stack)), prot, arg.h, prot[arg.p].Protocol)
  BY <1>2, HolderFacts
<1>4. p = CoreFindProtocolInterface(arg.h, prot[arg.p].Protocol, prot[arg.p].Interface)
  BY DEF Removed
<1>5. p # NULL
  BY <1>1, <1>3, <1>4, FindFacts
<1>6. p \in Installed /\ prot[p].Handle = arg.h /\ prot[p].Protocol = prot[arg.p].Protocol /\ Valid(arg.h)
  BY <1>1, <1>4, <1>5, FindFacts
<1> HIDE DEF p
<1>7. /\ \A status : Calls(Pop(stack), status, prot, notify)
      /\ SoundOn(Pop(stack), Len(Pop(stack)), prot, notify, Top)
      /\ Top \in Frames
  BY <1>1, <1>2, TopFacts
<1>8. Top.pc = "reinstall" => arg.i \in Interfaces
  BY <1>7 DEF SoundOn, arg
<1>9. ASSUME NEW k \in 1..Len(Pop(stack)), Pop(stack)[k].pc \in HoldsProt
      PROVE  Pop(stack)[k].arg.p \in Installed /\ Pop(stack)[k].arg.p # p
  <2>1. Pop(stack)[k].arg.p \in Installed /\ prot[Pop(stack)[k].arg.p].Handle = Pop(stack)[k].arg.h
    BY <1>7, <1>9, HeldFacts
  <2> QED BY <1>3, <1>6, <1>9, <2>1 DEF Held
<1>10. Top.tpl \in Tpls
  BY <1>7, FrameArgs
<1> QED BY <1>2, <1>3, <1>6, <1>7, <1>8, <1>9, <1>10 DEF p

LEMMA UninstallStep ==
  ASSUME IInv, Uninstall
  PROVE  IInv'
<1> DEFINE p == Removed(arg)
           h == arg.h
           g == prot[p].Protocol
           rest == RemoveEntryList(handle[h], p)
           list == RemoveEntryList(Protocols[g], p)
<1>1. /\ Top.pc = "uninstall"
      /\ notify' = PositionsWithout(p) /\ Protocols' = EntryRemoved(p)
      /\ newer' \subseteq newer \cup {h} /\ modified' \subseteq modified \cup {h}
      /\ prot' = [prot EXCEPT ![p] = Free]
      /\ OpenList' = [OpenList EXCEPT ![arg.p] = {}, ![p] = {}]
      /\ handle' = LinkRemoved(h, p)
      /\ before' = [r \in Regs |-> before[r] \ {p}]
      /\ Return("SUCCESS") /\ signalled' = signalled
  BY DEF Uninstall, At, Mark
<1>2. TypeOK /\ DatabaseSound /\ PositionSound /\ CallsSound /\ SignalsSound
  BY DEF IInv, LinksSound
<1>3. /\ p \in Installed /\ arg.p \in Installed /\ prot[p].Handle = h /\ h \in Handles /\ Valid(h)
      /\ Top.pc # "app"
      /\ \A status : Calls(Pop(stack), status, prot, notify)
      /\ \A k \in 1..Len(Pop(stack)) : Pop(stack)[k].pc \in HoldsProt =>
           Pop(stack)[k].arg.p \in Installed /\ Pop(stack)[k].arg.p # p
  BY <1>1, RemovedFacts
<1>4. /\ prot \in [Prots -> Entry \cup {Free}] /\ Protocols \in [Guids -> Seq(Prots)]
      /\ handle \in [Handles -> (Seq(Prots) \ {<<>>}) \cup {Free}]
      /\ OpenList \in [Prots -> SUBSET OpenData]
  BY <1>2 DEF TypeOK, Entry
<1>5. g \in Guids /\ p \in Prots
  BY <1>2, <1>3, InstalledFacts DEF Entry, Installed
<1>6. Protocols' = [Protocols EXCEPT ![g] = list]
  BY <1>1 DEF EntryRemoved
<1>7. handle' = [handle EXCEPT ![h] = IF rest = <<>> THEN Free ELSE rest]
  BY <1>1 DEF LinkRemoved
<1>8. /\ rest \in Seq(Prots) /\ NoDuplicates(rest)
      /\ Members(rest) = {q \in Installed : prot[q].Handle = h} \ {p}
  <2>1. handle[h] \in Seq(Prots) /\ NoDuplicates(handle[h]) /\ Members(handle[h]) = {q \in Installed : prot[q].Handle = h}
    BY <1>2, <1>3, <1>4 DEF DatabaseSound, Valid
  <2> HIDE DEF h, p
  <2> QED BY <2>1, RemovedEntry
<1>9. /\ list \in Seq(Prots) /\ NoDuplicates(list)
      /\ Members(list) = {q \in Installed : prot[q].Protocol = g} \ {p}
      /\ Members(list) = Members(Protocols[g]) \ {p}
  <2>1. Protocols[g] \in Seq(Prots) /\ NoDuplicates(Protocols[g]) /\ Members(Protocols[g]) = {q \in Installed : prot[q].Protocol = g}
    BY <1>2, <1>4, <1>5 DEF DatabaseSound
  <2> HIDE DEF g, p
  <2> QED BY <2>1, RemovedEntry
<1> HIDE DEF p, h, g, rest, list
<1>10. /\ prot' \in [Prots -> Entry \cup {Free}] /\ Installed' = Installed \ {p}
       /\ \A q \in Installed' : prot'[q] = prot[q]
  BY <1>1, <1>3, <1>4 DEF Installed
<1>11. /\ handle' \in [Handles -> (Seq(Prots) \ {<<>>}) \cup {Free}]
       /\ \A x \in Handles : x # h => handle'[x] = handle[x]
       /\ Protocols' \in [Guids -> Seq(Prots)]
       /\ Protocols'[g] = list /\ \A x \in Guids : x # g => Protocols'[x] = Protocols[x]
       /\ handle'[h] # Free => rest # <<>> /\ handle'[h] = rest
       /\ rest # <<>> => handle'[h] # Free
  <2>1. Free \notin Seq(Prots)
    BY StructureAssumption
  <2> QED BY <1>3, <1>4, <1>5, <1>6, <1>7, <1>8, <1>9, <2>1
<1>12. DatabaseSound'
  <2>1. ASSUME NEW x \in Handles, handle'[x] # Free
        PROVE  NoDuplicates(handle'[x]) /\ Members(handle'[x]) = {q \in Installed' : prot'[q].Handle = x}
    <3>1. CASE x = h
      <4>1. handle'[x] = rest
        BY <1>11, <2>1, <3>1
      <4> QED BY <1>8, <1>10, <3>1, <4>1
    <3>2. CASE x # h
      <4>1. NoDuplicates(handle[x]) /\ Members(handle[x]) = {q \in Installed : prot[q].Handle = x} /\ handle'[x] = handle[x]
        BY <1>2, <1>11, <2>1, <3>2 DEF DatabaseSound, Valid
      <4> QED BY <1>3, <1>10, <3>2, <4>1
    <3> QED BY <3>1, <3>2
  <2>2. ASSUME NEW x \in Guids
        PROVE  NoDuplicates(Protocols'[x]) /\ Members(Protocols'[x]) = {q \in Installed' : prot'[q].Protocol = x}
    <3>1. CASE x = g
      BY <1>9, <1>10, <1>11, <3>1
    <3>2. CASE x # g
      <4>1. NoDuplicates(Protocols[x]) /\ Members(Protocols[x]) = {q \in Installed : prot[q].Protocol = x}
        BY <1>2 DEF DatabaseSound
      <4>2. prot[p].Protocol # x
        BY <3>2 DEF g
      <4> QED BY <1>10, <1>11, <3>2, <4>1, <4>2
    <3> QED BY <3>1, <3>2
  <2>3. ASSUME NEW q \in Installed'
        PROVE  prot'[q].Handle \in Handles /\ handle'[prot'[q].Handle] # Free
    <3>1. q \in Installed /\ q # p /\ prot'[q] = prot[q] /\ Valid(prot[q].Handle)
      BY <1>2, <1>10, <2>3 DEF DatabaseSound
    <3>2. CASE prot[q].Handle = h
      <4>1. q \in Members(rest)
        BY <1>8, <3>1, <3>2
      <4>2. rest # <<>>
        BY <1>8, <4>1 DEF Members
      <4> QED BY <1>3, <1>11, <3>1, <3>2, <4>2
    <3>3. CASE prot[q].Handle # h
      BY <1>11, <3>1, <3>3 DEF Valid
    <3> QED BY <3>2, <3>3
  <2>4. \A q \in Prots \ Installed' : OpenList'[q] = {}
    BY <1>1, <1>2, <1>3, <1>4, <1>5, <1>10 DEF DatabaseSound
  <2> QED BY <2>1, <2>2, <2>3, <2>4 DEF DatabaseSound, Valid
<1>13. PositionSound'
  <2>1. ASSUME NEW r \in Regs, notify'[r] # Free
        PROVE  notify'[r].Position \in {NULL} \cup Members(Protocols'[notify'[r].Protocol])
    <3>1. /\ notify[r] # Free /\ notify'[r].Protocol = notify[r].Protocol
          /\ notify'[r].Position \in {NULL} \cup (Members(Protocols[notify[r].Protocol]) \ {p})
      BY <1>1, <1>3, <2>1, PositionsFacts
    <3>2. notify[r].Protocol \in Guids
      BY <1>2, <3>1, RegFacts DEF Allocated
    <3> QED BY <1>9, <1>11, <3>1, <3>2
  <2> QED BY <2>1 DEF PositionSound, Allocated
<1>14. \A r \in Regs : notify'[r] # Free <=> notify[r] # Free
  BY <1>1, <1>3, PositionsFacts
<1>15. Calls(stack', Status', prot', notify') /\ Status' \in {"SUCCESS", "ERROR"}
  <2>1. stack' = Pop(stack) /\ Status' \in {"SUCCESS", "ERROR"}
    BY <1>1 DEF Return
  <2>2. Calls(Pop(stack), Status', prot, notify)
    BY <1>3
  <2> DEFINE s == Pop(stack)
  <2> HIDE DEF s
  <2>3. \A k \in 1..Len(s) : s[k].pc \in HoldsProt =>
          /\ prot'[s[k].arg.p] # Free
          /\ prot'[s[k].arg.p].Handle = prot[s[k].arg.p].Handle
          /\ prot'[s[k].arg.p].Protocol = prot[s[k].arg.p].Protocol
    <3>1. ASSUME NEW k \in 1..Len(s), s[k].pc \in HoldsProt
          PROVE  s[k].arg.p \in Installed' /\ prot'[s[k].arg.p] = prot[s[k].arg.p]
      BY <1>3, <1>10, <3>1 DEF s
    <3> QED BY <3>1 DEF Installed
  <2>4. ASSUME NEW k \in 1..Len(s), s[k].pc = "notify", notify[s[k].arg.reg] # Free
        PROVE  notify'[s[k].arg.reg] # Free
    <3>1. s[k] \in Frames
      BY <2>2, CallsType DEF s
    <3>2. s[k].arg.reg \in Regs
      BY <2>4, <3>1, FrameArgs
    <3> QED BY <1>14, <2>4, <3>2
  <2>5. Calls(s, Status', prot', notify')
    BY <2>2, <2>3, <2>4, ChangedCalls DEF s
  <2> QED BY <2>1, <2>5 DEF s
<1>16. TypeOK'
  <2>1. /\ \A k \in 1..Len(stack') : /\ stack'[k].pc \in Labels
                                     /\ stack'[k].tpl \in {EFI_TPL_APPLICATION, EFI_TPL_CALLBACK, EFI_TPL_NOTIFY}
        /\ stack' # <<>>
    <3>1. \A pr, nt : Calls(stack', Status', pr, nt) =>
             stack' # <<>> /\ \A k \in 1..Len(stack') : stack'[k].pc \in Labels /\ stack'[k].tpl \in Tpls
      BY CallsType
    <3> QED BY <1>15, <3>1 DEF Tpls
  <2>2. newer' \subseteq Handles /\ modified' \subseteq Handles /\ before' \in [Regs -> SUBSET Prots]
    BY <1>1, <1>2, <1>3 DEF TypeOK
  <2>3. notify' \in [Regs -> [Protocol : Guids, Position : Prots \cup {NULL}] \cup {Free}]
    BY <1>1, <1>3, PositionsFacts
  <2>4. OpenList' \in [Prots -> SUBSET OpenData]
    BY <1>1, <1>4
  <2>5. signalled' \subseteq Regs
    BY <1>1, <1>2 DEF TypeOK
  <2> QED BY <1>10, <1>11, <1>15, <2>1, <2>2, <2>3, <2>4, <2>5 DEF TypeOK, Entry
<1>17. SignalsSound'
  BY <1>1, <1>2, <1>14 DEF SignalsSound, Allocated, TypeOK
<1>18. CallsSound'
  BY <1>15 DEF CallsSound
<1> QED BY <1>12, <1>13, <1>16, <1>17, <1>18 DEF IInv, LinksSound

LEMMA ReinstallStep ==
  ASSUME IInv, Reinstall
  PROVE  IInv'
<1> DEFINE p == Removed(arg)
           h == arg.h
           g == prot[p].Protocol
           list == RemoveEntryList(Protocols[g], p)
           moved == InsertTailList(list, p)
           f == Frame("reinstalled", Top.tpl, [h |-> h, g |-> g])
           s == Append(Pop(stack), f)
           c == Frame("connect", s[Len(s)].tpl, [h |-> h])
<1>1. /\ Top.pc = "reinstall"
      /\ notify' = PositionsWithout(p)
      /\ Protocols' = [EntryRemoved(p) EXCEPT ![g] = InsertTailList(@, p)]
      /\ newer' \subseteq newer \cup {h} /\ modified' \subseteq modified \cup {h}
      /\ prot' = [prot EXCEPT ![p].Interface = arg.i]
      /\ OpenList' = [OpenList EXCEPT ![arg.p] = {}]
      /\ before' = [r \in Regs |-> before[r] \ {p}]
      /\ stack' = Append(s, c)
      /\ Status' = Status /\ handle' = handle /\ signalled' = signalled
  BY DEF Reinstall, At, Mark, Call, Become
<1>2. TypeOK /\ DatabaseSound /\ PositionSound /\ CallsSound /\ SignalsSound
  BY DEF IInv, LinksSound
<1>3. /\ p \in Installed /\ arg.p \in Installed /\ prot[p].Handle = h /\ h \in Handles /\ Valid(h)
      /\ Top.pc # "app" /\ arg.i \in Interfaces /\ Top.tpl \in Tpls
      /\ Calls(Pop(stack), "SUCCESS", prot, notify)
  BY <1>1, RemovedFacts
<1>4. /\ prot \in [Prots -> Entry \cup {Free}] /\ Protocols \in [Guids -> Seq(Prots)]
      /\ OpenList \in [Prots -> SUBSET OpenData]
  BY <1>2 DEF TypeOK, Entry
<1>5. g \in Guids /\ p \in Prots /\ prot[p] \in Entry
  BY <1>2, <1>3, InstalledFacts DEF Entry, Installed
<1>6. Protocols' = [Protocols EXCEPT ![g] = moved]
  BY <1>1, <1>4, <1>5 DEF EntryRemoved
<1>7. f \in Frames /\ f.pc = "reinstalled" /\ f.tpl \in Tpls
  <2>1. [h |-> h, g |-> g] \in [h : Handles, g : Guids]
    BY <1>3, <1>5
  <2> HIDE DEF h, g
  <2> QED BY <1>3, <2>1, BuildFrames DEF Frame
<1>8. s[Len(s)] = f
  <2>1. Pop(stack) \in Seq(Frames)
    BY <1>3, CallsType
  <2> HIDE DEF f
  <2> QED BY <1>7, <2>1
<1>9. c \in Frames /\ c.pc = "connect"
  <2>1. [h |-> h] \in [h : Handles]
    BY <1>3
  <2> HIDE DEF h, f, s
  <2> QED BY <1>7, <1>8, <2>1, BuildFrames DEF Frame
<1>10. /\ moved \in Seq(Prots) /\ NoDuplicates(moved)
       /\ Members(moved) = {q \in Installed : prot[q].Protocol = g}
       /\ Members(moved) = Members(Protocols[g])
  <2>1. Protocols[g] \in Seq(Prots) /\ NoDuplicates(Protocols[g]) /\ Members(Protocols[g]) = {q \in Installed : prot[q].Protocol = g}
    BY <1>2, <1>4, <1>5 DEF DatabaseSound
  <2>2. p \in Members(Protocols[g])
    BY <1>3, <2>1
  <2> HIDE DEF g, p, list
  <2>3. list \in Seq(Prots) /\ NoDuplicates(list) /\ Members(list) = Members(Protocols[g]) \ {p}
    BY <2>1, RemovedEntry DEF list
  <2>4. /\ InsertTailList(list, p) \in Seq(Prots)
        /\ Members(InsertTailList(list, p)) = Members(list) \cup {p}
        /\ NoDuplicates(InsertTailList(list, p))
    <3>1. p \notin Members(list) /\ p \in Prots
      BY <1>5, <2>3 DEF p
    <3> QED BY <2>3, <3>1, InsertTailProperties
  <2> QED BY <2>1, <2>2, <2>3, <2>4
<1> HIDE DEF p, h, g, list, moved, f, s, c
<1>11. /\ prot' \in [Prots -> Entry \cup {Free}] /\ Installed' = Installed
       /\ \A q \in Installed : prot'[q].Handle = prot[q].Handle /\ prot'[q].Protocol = prot[q].Protocol
  <2> DEFINE e == [prot[p] EXCEPT !.Interface = arg.i]
  <2>1. prot' = [prot EXCEPT ![p] = e]
    BY <1>1
  <2>2. e = [Handle |-> prot[p].Handle, Protocol |-> prot[p].Protocol, Interface |-> arg.i]
    BY <1>5 DEF Entry
  <2>3. e \in Entry /\ e.Handle = prot[p].Handle /\ e.Protocol = prot[p].Protocol
    BY <1>3, <1>5, <2>2 DEF Entry
  <2>4. e # Free
    BY <2>3, StructureAssumption DEF Entry
  <2> HIDE DEF e
  <2> QED BY <1>3, <1>4, <1>5, <2>1, <2>3, <2>4 DEF Installed
<1>12. /\ Protocols' \in [Guids -> Seq(Prots)]
       /\ Protocols'[g] = moved /\ \A x \in Guids : x # g => Protocols'[x] = Protocols[x]
       /\ \A x \in Guids : Members(Protocols'[x]) = Members(Protocols[x])
  BY <1>4, <1>5, <1>6, <1>10
<1>13. DatabaseSound'
  <2>1. ASSUME NEW x \in Handles, handle'[x] # Free
        PROVE  NoDuplicates(handle'[x]) /\ Members(handle'[x]) = {q \in Installed' : prot'[q].Handle = x}
    <3>1. NoDuplicates(handle[x]) /\ Members(handle[x]) = {q \in Installed : prot[q].Handle = x} /\ handle'[x] = handle[x]
      BY <1>1, <1>2, <2>1 DEF DatabaseSound, Valid
    <3> QED BY <1>11, <3>1
  <2>2. ASSUME NEW x \in Guids
        PROVE  NoDuplicates(Protocols'[x]) /\ Members(Protocols'[x]) = {q \in Installed' : prot'[q].Protocol = x}
    <3>1. NoDuplicates(Protocols[x]) /\ Members(Protocols[x]) = {q \in Installed : prot[q].Protocol = x}
      BY <1>2 DEF DatabaseSound
    <3> QED BY <1>10, <1>11, <1>12, <3>1
  <2>3. ASSUME NEW q \in Installed'
        PROVE  prot'[q].Handle \in Handles /\ handle'[prot'[q].Handle] # Free
    <3>1. q \in Installed /\ prot'[q].Handle = prot[q].Handle /\ Valid(prot[q].Handle)
      BY <1>2, <1>11, <2>3 DEF DatabaseSound
    <3> QED BY <1>1, <3>1 DEF Valid
  <2>4. \A q \in Prots \ Installed' : OpenList'[q] = {}
    BY <1>1, <1>2, <1>3, <1>4, <1>11 DEF DatabaseSound
  <2> QED BY <2>1, <2>2, <2>3, <2>4 DEF DatabaseSound, Valid
<1>14. PositionSound'
  <2>1. ASSUME NEW r \in Regs, notify'[r] # Free
        PROVE  notify'[r].Position \in {NULL} \cup Members(Protocols'[notify'[r].Protocol])
    <3>1. /\ notify[r] # Free /\ notify'[r].Protocol = notify[r].Protocol
          /\ notify'[r].Position \in {NULL} \cup (Members(Protocols[notify[r].Protocol]) \ {p})
      BY <1>1, <1>3, <2>1, PositionsFacts
    <3>2. notify[r].Protocol \in Guids
      BY <1>2, <3>1, RegFacts DEF Allocated
    <3> QED BY <1>12, <3>1, <3>2
  <2> QED BY <2>1 DEF PositionSound, Allocated
<1>15. \A r \in Regs : notify'[r] # Free <=> notify[r] # Free
  BY <1>1, <1>3, PositionsFacts
<1>16. Calls(stack', Status', prot', notify') /\ Status' \in {"SUCCESS", "ERROR"}
  <2> DEFINE t == Pop(stack)
  <2>1. Calls(t, "SUCCESS", prot, notify)
    BY <1>3
  <2> HIDE DEF t
  <2>2. \A k \in 1..Len(t) : t[k].pc \in HoldsProt =>
          /\ prot'[t[k].arg.p] # Free
          /\ prot'[t[k].arg.p].Handle = prot[t[k].arg.p].Handle
          /\ prot'[t[k].arg.p].Protocol = prot[t[k].arg.p].Protocol
    <3>1. ASSUME NEW k \in 1..Len(t), t[k].pc \in HoldsProt
          PROVE  /\ t[k].arg.p \in Installed'
                 /\ prot'[t[k].arg.p].Handle = prot[t[k].arg.p].Handle
                 /\ prot'[t[k].arg.p].Protocol = prot[t[k].arg.p].Protocol
      <4>1. t[k].arg.p \in Installed
        BY <2>1, <3>1, HeldFacts
      <4> QED BY <1>11, <4>1
    <3> QED BY <3>1 DEF Installed
  <2>3. ASSUME NEW k \in 1..Len(t), t[k].pc = "notify", notify[t[k].arg.reg] # Free
        PROVE  notify'[t[k].arg.reg] # Free
    <3>1. t[k] \in Frames
      BY <2>1, CallsType
    <3>2. t[k].arg.reg \in Regs
      BY <2>3, <3>1, FrameArgs
    <3> QED BY <1>15, <2>3, <3>2
  <2>4. Calls(t, "SUCCESS", prot', notify')
    BY <2>1, <2>2, <2>3, ChangedCalls
  <2>5. f.pc \in Plain /\ c.pc \in Plain
    BY <1>7, <1>9 DEF Plain
  <2>6. Calls(s, "SUCCESS", prot', notify')
    BY <1>7, <2>4, <2>5, PushPlain DEF s, t
  <2>7. Calls(Append(s, c), Status', prot', notify')
    BY <1>9, <2>5, <2>6, PushPlain
  <2>8. Status' \in {"SUCCESS", "ERROR"}
    BY <1>1, <1>2 DEF TypeOK
  <2> QED BY <1>1, <2>7, <2>8
<1>17. TypeOK'
  <2>1. /\ \A k \in 1..Len(stack') : /\ stack'[k].pc \in Labels
                                     /\ stack'[k].tpl \in {EFI_TPL_APPLICATION, EFI_TPL_CALLBACK, EFI_TPL_NOTIFY}
        /\ stack' # <<>>
    <3>1. \A pr, nt : Calls(stack', Status', pr, nt) =>
             stack' # <<>> /\ \A k \in 1..Len(stack') : stack'[k].pc \in Labels /\ stack'[k].tpl \in Tpls
      BY CallsType
    <3> QED BY <1>16, <3>1 DEF Tpls
  <2>2. newer' \subseteq Handles /\ modified' \subseteq Handles /\ before' \in [Regs -> SUBSET Prots]
    BY <1>1, <1>2, <1>3 DEF TypeOK
  <2>3. notify' \in [Regs -> [Protocol : Guids, Position : Prots \cup {NULL}] \cup {Free}]
    BY <1>1, <1>3, PositionsFacts
  <2>4. OpenList' \in [Prots -> SUBSET OpenData]
    BY <1>1, <1>4
  <2>5. signalled' \subseteq Regs /\ handle' \in [Handles -> (Seq(Prots) \ {<<>>}) \cup {Free}]
    BY <1>1, <1>2 DEF TypeOK
  <2> QED BY <1>11, <1>12, <1>16, <2>1, <2>2, <2>3, <2>4, <2>5 DEF TypeOK, Entry
<1>18. SignalsSound'
  BY <1>1, <1>2, <1>15 DEF SignalsSound, Allocated, TypeOK
<1>19. CallsSound'
  BY <1>16 DEF CallsSound
<1> QED BY <1>13, <1>14, <1>17, <1>18, <1>19 DEF IInv, LinksSound
-----------------------------------------------------------------------------
(* The theorems.                                                           *)

LEMMA InitSound ==
  ASSUME Init
  PROVE  IInv
<1>1. /\ stack = <<Frame("app", EFI_TPL_APPLICATION, NULL)>> /\ Status = "SUCCESS"
      /\ handle = [h \in Handles |-> Free] /\ newer = {} /\ prot = [p \in Prots |-> Free]
      /\ OpenList = [p \in Prots |-> {}] /\ Protocols = [g \in Guids |-> <<>>]
      /\ notify = [r \in Regs |-> Free] /\ signalled = {} /\ before = [r \in Regs |-> {}] /\ modified = {}
  BY DEF Init
<1> DEFINE f == Frame("app", EFI_TPL_APPLICATION, NULL)
<1>2. f \in Frames /\ f.pc = "app" /\ f.tpl = EFI_TPL_APPLICATION
  <2>1. EFI_TPL_APPLICATION \in Tpls /\ "app" \in NoArgument
    BY DEF Tpls, NoArgument
  <2> QED BY <2>1, BuildFrames DEF Frame
<1> HIDE DEF f
<1>3. stack \in Seq(Frames) /\ Len(stack) = 1 /\ stack[1] = f
  BY <1>1, <1>2 DEF f
<1>4. f.pc \in Plain
  BY <1>2 DEF Plain, NoArgument
<1>5. CallsSound
  <2>1. \A k \in 1..Len(stack) : SoundOn(stack, k - 1, prot, notify, stack[k])
    BY <1>3, <1>4, PlainSound
  <2>2. StackSound(stack, prot, notify)
    BY <1>2, <1>3, <2>1 DEF StackSound
  <2>3. LastProcessed(stack, Status, prot)
    BY <1>2, <1>3 DEF LastProcessed
  <2> QED BY <2>2, <2>3 DEF CallsSound, Calls
<1>6. Installed = {} /\ (\A h : ~Valid(h)) /\ \A r \in Regs : ~Allocated(r)
  BY <1>1 DEF Installed, Valid, Allocated
<1>7. TypeOK
  <2>1. stack # <<>> /\ \A k \in 1..Len(stack) : stack[k].pc \in Labels /\ stack[k].tpl \in Tpls
    BY <1>5, CallsType DEF CallsSound
  <2>2. <<>> \in Seq(Prots)
    OBVIOUS
  <2> QED BY <1>1, <2>1, <2>2 DEF TypeOK, Tpls
<1>8. LinksSound
  <2>1. NoDuplicates(<<>>) /\ Members(<<>>) = {}
    BY DEF NoDuplicates, Members
  <2>2. \A g \in Guids : Protocols[g] = <<>>
    BY <1>1
  <2>3. DatabaseSound
    BY <1>1, <1>6, <2>1, <2>2 DEF DatabaseSound
  <2>4. PositionSound
    BY <1>6 DEF PositionSound
  <2> QED BY <2>3, <2>4 DEF LinksSound
<1>9. SignalsSound
  BY <1>1 DEF SignalsSound
<1> QED BY <1>5, <1>7, <1>8, <1>9 DEF IInv

LEMMA StepSound ==
  ASSUME NothingRemovedInUse, IInv, [Next]_vars
  PROVE  IInv'
<1>1. CASE UNCHANGED vars
  <2>1. /\ UNCHANGED <<handles, entries, OpenList, regs>>
        /\ stack' = stack /\ Status' = Status
    BY <1>1 DEF vars, control
  <2>2. Calls(stack', Status', prot, notify)
    BY <2>1 DEF IInv, CallsSound
  <2> QED BY <2>1, <2>2, RegsType, OnlyCalls
<1>2. CASE CoreStep
  BY <1>2, InstallStep, InstallFailsStep, DisconnectUserStep, DisconnectAgainStep, RemoveRefusedStep,
     RefusedStep, UninstallStep, ReinstallStep, ReinstalledStep, CheckDevicePathStep, InstallOneStep,
     InstallMultipleEndsStep, InstallRollbackStep, UninstallOneStep, UninstallRollbackStep,
     OpenExclusiveStep, DisconnectControllerStep, ConnectControllerStep, NotifyTakesStep,
     NotifyTookAllStep, LocateAgainStep, ConnectHandlesByKeyStep, ConnectNextStep
     DEF CoreStep
<1>3. CASE ServiceCall
  <2>1. CASE \E h \in Handles, g \in Guids :
               \/ \E i \in Interfaces :
                    \/ InstallProtocolInterface(h, g, i)
                    \/ UninstallProtocolInterface(h, g, i)
                    \/ \E new \in Interfaces : ReinstallProtocolInterface(h, g, i, new)
               \/ \E agent \in Agents, ctrl \in Handles :
                    \/ \E attr \in Attributes \cup NestedAttributes : OpenProtocol(h, g, agent, ctrl, attr)
                    \/ CloseProtocol(h, g, agent, ctrl)
    BY <2>1, InstallProtocolInterfaceStep, UninstallProtocolInterfaceStep, ReinstallProtocolInterfaceStep,
       OpenProtocolStep, CloseProtocolStep
  <2>2. CASE \E g \in Guids, i \in Interfaces : InstallProtocolInterface(NULL, g, i)
    BY <2>2, InstallProtocolInterfaceStep
  <2>3. CASE \E list \in Multiple :
               \/ \E h \in Handles \cup {NULL} : InstallMultiple(h, list)
               \/ \E h \in Handles : UninstallMultiple(h, list)
    BY <2>3, InstallMultipleStep, UninstallMultipleStep
  <2>4. CASE \E r \in Regs :
               \/ \E g \in Guids : RegisterProtocolNotify(r, g)
               \/ UnregisterProtocolNotify(r)
               \/ LocateProtocol(r)
    BY <2>4, RegisterProtocolNotifyStep, UnregisterProtocolNotifyStep, LocateProtocolStep
  <2>5. CASE \E g \in Guids : LocateHandleBuffer(g)
    BY <2>5, LocateHandleBufferStep
  <2>6. CASE StartImage
    BY <2>6, StartImageStep
  <2> QED BY <1>3, <2>1, <2>2, <2>3, <2>4, <2>5, <2>6 DEF ServiceCall
<1>4. CASE DriverReturns \/ CallbackReturns \/ Callback \/ \E r \in Regs : Notified(r)
  BY <1>4, DriverReturnsStep, CallbackReturnsStep, CallbackStep, NotifiedStep
<1> QED BY <1>1, <1>2, <1>3, <1>4 DEF Next

\* Whatever services are called, interrupted and nested in any order: what each of
\* them works on is still there, as long as callbacks leave it alone.
THEOREM CallsInvariant ==
  ASSUME NothingRemovedInUse
  PROVE  Spec => []IInv
<1>1. Init => IInv
  BY InitSound
<1>2. IInv /\ [Next]_vars => IInv'
  BY StepSound
<1> QED BY <1>1, <1>2, PTL DEF Spec

\* Every variable keeps its type through any nesting of services and callbacks.
THEOREM TypeCorrect ==
  ASSUME NothingRemovedInUse
  PROVE  Spec => []TypeOK
<1>1. IInv => TypeOK
  BY DEF IInv
<1> QED BY <1>1, CallsInvariant, PTL

\* The lists of handles and protocols (IHANDLE.Protocols, PROTOCOL_ENTRY.Protocols)
\* agree with the structures on them, and each registration's Position is on its
\* protocol's list, for any number of handles, protocols and registrations.
THEOREM ListsAgree ==
  ASSUME NothingRemovedInUse
  PROVE  Spec => []LinksSound
<1>1. IInv => LinksSound
  BY DEF IInv
<1> QED BY <1>1, CallsInvariant, PTL

-----------------------------------------------------------------------------
(***************************************************************************)
(* What the services of the database promise to their callers, whatever    *)
(* drivers and notification functions do while a service runs:             *)
(*   - a registration for protocol notifications is a queue, and hears of  *)
(*     all that is put on it;                                              *)
(*   - exclusive access is exclusive;                                      *)
(*   - InstallMultiple undoes what it did when it fails.                   *)
(* They rest on what the lists and Positions keep to, and on what each     *)
(* frame of the call stack holds (IInv).                                   *)
(***************************************************************************)

(* REGISTRATIONS.  The Position scheme implements NotifyQueue, and no      *)
(* install is missed.                                                      *)

\* Sequences are their entries.
LEMMA SameEntries ==
  ASSUME NEW s \in Seq(Prots), NEW t \in Seq(Prots), Len(s) = Len(t), \A i \in 1..Len(s) : s[i] = t[i]
  PROVE  s = t
OBVIOUS

\* The place of an entry on a list.
LEMMA AtPlace ==
  ASSUME NEW list \in Seq(Prots), NoDuplicates(list), NEW k \in 0..Len(list), NEW pos,
         k = 0 => pos = NULL, k # 0 => pos = list[k]
  PROVE  /\ After(list, pos) = SubSeq(list, k + 1, Len(list))
         /\ After(list, pos) \in Seq(Prots) /\ Len(After(list, pos)) = Len(list) - k
         /\ \A j \in 1..(Len(list) - k) : After(list, pos)[j] = list[k + j]
<1>1. Members(list) \subseteq Prots /\ NULL \notin Prots /\ Len(list) \in Nat
  BY StructureAssumption DEF Members, Structures
<1> DEFINE i == IF pos = NULL THEN 0 ELSE CHOOSE i \in 1..Len(list) : list[i] = pos
<1>2. i = k
  <2>1. CASE k = 0
    BY <2>1
  <2>2. CASE k # 0
    <3>1. k \in 1..Len(list) /\ pos # NULL
      BY <1>1, <2>2 DEF Members
    <3>2. i \in 1..Len(list) /\ list[i] = list[k]
      BY <2>2, <3>1
    <3> HIDE DEF i
    <3> QED BY <3>1, <3>2 DEF NoDuplicates
  <2> QED BY <2>1, <2>2
<1>3. After(list, pos) = SubSeq(list, i + 1, Len(list))
  BY DEF After
<1> HIDE DEF i
<1> QED BY <1>1, <1>2, <1>3

LEMMA PlaceOf ==
  ASSUME NEW list \in Seq(Prots), NEW pos \in {NULL} \cup Members(list)
  PROVE  \E k \in 0..Len(list) : (k = 0 => pos = NULL) /\ (k # 0 => pos = list[k])
<1>1. CASE pos = NULL
  BY <1>1
<1>2. CASE pos # NULL
  BY <1>2 DEF Members
<1> QED BY <1>1, <1>2

\* A new registration has everything to see.
LEMMA AfterHead ==
  ASSUME NEW list \in Seq(Prots), NoDuplicates(list)
  PROVE  After(list, NULL) = list
<1>1. 0 \in 0..Len(list) /\ Len(list) \in Nat
  OBVIOUS
<1>2. /\ After(list, NULL) \in Seq(Prots) /\ Len(After(list, NULL)) = Len(list) - 0
      /\ \A j \in 1..(Len(list) - 0) : After(list, NULL)[j] = list[0 + j]
  BY <1>1, AtPlace
<1>3. Len(After(list, NULL)) = Len(list) /\ \A j \in 1..Len(list) : After(list, NULL)[j] = list[j]
  BY <1>1, <1>2
<1> QED BY <1>2, <1>3, SameEntries

\* What is put on the list is put on the queue.
LEMMA AfterInsert ==
  ASSUME NEW list \in Seq(Prots), NoDuplicates(list), NEW pos \in {NULL} \cup Members(list),
         NEW p \in Prots, p \notin Members(list)
  PROVE  After(InsertTailList(list, p), pos) = InsertTailList(After(list, pos), p)
<1> DEFINE new == InsertTailList(list, p)
           old == After(list, pos)
<1>1. PICK k \in 0..Len(list) : (k = 0 => pos = NULL) /\ (k # 0 => pos = list[k])
  BY PlaceOf
<1>2. /\ new \in Seq(Prots) /\ Len(new) = Len(list) + 1 /\ new[Len(list) + 1] = p
      /\ \A i \in 1..Len(list) : new[i] = list[i]
  BY DEF InsertTailList
<1>3. NoDuplicates(new)
  BY InsertTailProperties
<1> HIDE DEF new
<1>4. k \in 0..Len(new) /\ (k = 0 => pos = NULL) /\ (k # 0 => pos = new[k]) /\ Len(list) \in Nat /\ k \in Nat
  BY <1>1, <1>2
<1>5. /\ After(new, pos) \in Seq(Prots) /\ Len(After(new, pos)) = Len(new) - k
      /\ \A j \in 1..(Len(new) - k) : After(new, pos)[j] = new[k + j]
  <2>1. new \in Seq(Prots)
    BY <1>2
  <2> QED BY <1>3, <1>4, <2>1, AtPlace
<1>6. /\ old \in Seq(Prots) /\ Len(old) = Len(list) - k
      /\ \A j \in 1..(Len(list) - k) : old[j] = list[k + j]
  BY <1>1, AtPlace
<1> HIDE DEF old
<1>7. /\ InsertTailList(old, p) \in Seq(Prots) /\ Len(InsertTailList(old, p)) = Len(old) + 1
      /\ InsertTailList(old, p)[Len(old) + 1] = p
      /\ \A j \in 1..Len(old) : InsertTailList(old, p)[j] = old[j]
  BY <1>6 DEF InsertTailList
<1>8. Len(After(new, pos)) = Len(InsertTailList(old, p))
  BY <1>2, <1>4, <1>5, <1>6, <1>7
<1>9. ASSUME NEW j \in 1..Len(After(new, pos))
      PROVE  After(new, pos)[j] = InsertTailList(old, p)[j]
  <2>1. After(new, pos)[j] = new[k + j] /\ j \in 1..(Len(list) + 1 - k)
    BY <1>2, <1>4, <1>5
  <2>2. CASE j \in 1..(Len(list) - k)
    <3>1. k + j \in 1..Len(list)
      BY <1>4, <2>2
    <3> QED BY <1>2, <1>6, <1>7, <2>1, <2>2, <3>1
  <2>3. CASE j = Len(list) - k + 1
    <3>1. k + j = Len(list) + 1 /\ j = Len(old) + 1
      BY <1>4, <1>6, <2>3
    <3> QED BY <1>2, <1>7, <2>1, <3>1
  <2> QED BY <1>4, <2>1, <2>2, <2>3
<1> QED BY <1>5, <1>7, <1>8, <1>9, SameEntries DEF new, old

\* What is returned is the first of the queue.
LEMMA AfterNext ==
  ASSUME NEW list \in Seq(Prots), NoDuplicates(list), NEW pos \in {NULL} \cup Members(list),
         After(list, pos) # <<>>
  PROVE  After(list, After(list, pos)[1]) = Tail(After(list, pos))
<1> DEFINE old == After(list, pos)
           x == old[1]
           new == After(list, x)
<1>1. PICK k \in 0..Len(list) : (k = 0 => pos = NULL) /\ (k # 0 => pos = list[k])
  BY PlaceOf
<1>2. /\ old \in Seq(Prots) /\ Len(old) = Len(list) - k /\ old # <<>>
      /\ \A j \in 1..(Len(list) - k) : old[j] = list[k + j]
  BY <1>1, AtPlace
<1> HIDE DEF old
<1>3. Len(list) \in Nat /\ k \in Nat /\ Len(old) >= 1 /\ k + 1 \in 0..Len(list) /\ k + 1 # 0
  BY <1>2
<1>4. x = list[k + 1]
  BY <1>2, <1>3
<1> HIDE DEF x
<1>5. /\ new \in Seq(Prots) /\ Len(new) = Len(list) - (k + 1)
      /\ \A j \in 1..(Len(list) - (k + 1)) : new[j] = list[(k + 1) + j]
  BY <1>3, <1>4, AtPlace
<1> HIDE DEF new
<1>6. /\ Tail(old) \in Seq(Prots) /\ Len(Tail(old)) = Len(old) - 1
      /\ \A j \in 1..(Len(old) - 1) : Tail(old)[j] = old[j + 1]
  BY <1>2, <1>3
<1>7. Len(new) = Len(Tail(old))
  BY <1>2, <1>3, <1>5, <1>6
<1>8. ASSUME NEW j \in 1..Len(new)
      PROVE  new[j] = Tail(old)[j]
  <2>1. j \in 1..(Len(list) - (k + 1)) /\ j \in 1..(Len(old) - 1) /\ j + 1 \in 1..(Len(list) - k)
        /\ k + (j + 1) = (k + 1) + j
    BY <1>2, <1>3, <1>5
  <2> QED BY <1>2, <1>5, <1>6, <2>1
<1> QED BY <1>5, <1>6, <1>7, <1>8, SameEntries DEF new, old, x

LEMMA RemovedAt ==
  ASSUME NEW list \in Seq(Prots), NoDuplicates(list), NEW m \in 1..Len(list), NEW p, p = list[m]
  PROVE  /\ RemoveEntryList(list, p) \in Seq(Prots) /\ NoDuplicates(RemoveEntryList(list, p))
         /\ Len(RemoveEntryList(list, p)) = Len(list) - 1
         /\ \A i \in 1..(Len(list) - 1) : RemoveEntryList(list, p)[i] = IF i < m THEN list[i] ELSE list[i + 1]
<1> DEFINE k == CHOOSE k \in 1..Len(list) : list[k] = p
<1>1. p \in Members(list)
  BY DEF Members
<1>2. k \in 1..Len(list) /\ list[k] = p
  OBVIOUS
<1>3. RemoveEntryList(list, p) = RemoveAtIndex(list, k)
  BY <1>1 DEF RemoveEntryList
<1> HIDE DEF k
<1>4. k = m
  BY <1>2 DEF NoDuplicates
<1>5. RemoveAtIndex(list, m) \in Seq(Prots) /\ Len(RemoveAtIndex(list, m)) = Len(list) - 1
      /\ NoDuplicates(RemoveAtIndex(list, m))
  BY RemoveAtIndexProperties
<1>6. \A i \in 1..(Len(list) - 1) : RemoveAtIndex(list, m)[i] = IF i < m THEN list[i] ELSE list[i + 1]
  BY DEF RemoveAtIndex
<1> QED BY <1>3, <1>4, <1>5, <1>6

LEMMA NotRemoved ==
  ASSUME NEW list, NEW p, p \notin Members(list)
  PROVE  RemoveEntryList(list, p) = list
BY DEF RemoveEntryList

\* What leaves the list leaves the queue, and the Position that was there is backed up.
LEMMA AfterRemove ==
  ASSUME NEW list \in Seq(Prots), NoDuplicates(list), NEW pos \in {NULL} \cup Members(list),
         NEW p \in Members(list)
  PROVE  After(RemoveEntryList(list, p), IF pos = p THEN BackLink(list, p) ELSE pos)
           = RemoveEntryList(After(list, pos), p)
<1> DEFINE new == RemoveEntryList(list, p)
           old == After(list, pos)
           back == IF pos = p THEN BackLink(list, p) ELSE pos
           b == After(new, back)
           d == RemoveEntryList(old, p)
<1>1. PICK k \in 0..Len(list) : (k = 0 => pos = NULL) /\ (k # 0 => pos = list[k])
  BY PlaceOf
<1>2. PICK m \in 1..Len(list) : p = list[m]
  BY DEF Members
<1>3. Members(list) \subseteq Prots /\ p # NULL /\ p \in Prots
  BY StructureAssumption DEF Members, Structures
<1>4. /\ new \in Seq(Prots) /\ NoDuplicates(new) /\ Len(new) = Len(list) - 1
      /\ \A i \in 1..(Len(list) - 1) : new[i] = IF i < m THEN list[i] ELSE list[i + 1]
  BY <1>2, RemovedAt
<1>5. /\ old \in Seq(Prots) /\ Len(old) = Len(list) - k
      /\ \A j \in 1..(Len(list) - k) : old[j] = list[k + j]
  BY <1>1, AtPlace
<1>6. Len(list) \in Nat /\ k \in Nat /\ m \in Nat /\ k <= Len(list) /\ m <= Len(list) /\ m >= 1
  OBVIOUS
<1>7. NoDuplicates(old)
  <2>1. ASSUME NEW i \in 1..Len(old), NEW j \in 1..Len(old), old[i] = old[j]
        PROVE  i = j
    <3>1. i \in 1..(Len(list) - k) /\ j \in 1..(Len(list) - k) /\ k + i \in 1..Len(list) /\ k + j \in 1..Len(list)
      BY <1>5, <1>6
    <3>2. list[k + i] = list[k + j]
      BY <1>5, <2>1, <3>1
    <3>3. k + i = k + j
      BY <3>1, <3>2 DEF NoDuplicates
    <3> QED BY <1>6, <3>3
  <2> QED BY <2>1 DEF NoDuplicates
<1>8. BackLink(list, p) = IF m = 1 THEN NULL ELSE list[m - 1]
  <2> DEFINE x == CHOOSE i \in 1..Len(list) : list[i] = p
  <2>1. x \in 1..Len(list) /\ list[x] = p
    BY <1>2
  <2>2. BackLink(list, p) = IF x = 1 THEN NULL ELSE list[x - 1]
    BY DEF BackLink
  <2> HIDE DEF x
  <2>3. x = m
    BY <1>2, <2>1 DEF NoDuplicates
  <2> QED BY <2>2, <2>3
<1>9. pos = p <=> k = m
  BY <1>1, <1>2, <1>3, <1>6 DEF NoDuplicates
<1>10. CASE k < m
  <2>1. back = pos /\ m - k \in 1..Len(old) /\ old[m - k] = p
    <3>1. m - k \in 1..(Len(list) - k) /\ k + (m - k) = m
      BY <1>6, <1>10
    <3>2. old[m - k] = list[k + (m - k)]
      BY <1>5, <3>1
    <3> QED BY <1>2, <1>5, <1>6, <1>9, <1>10, <3>1, <3>2
  <2>2. k \in 0..Len(new) /\ (k = 0 => back = NULL) /\ (k # 0 => back = new[k])
    BY <1>1, <1>4, <1>6, <1>10, <2>1
  <2> HIDE DEF new, old, back
  <2>3. /\ b \in Seq(Prots) /\ Len(b) = Len(new) - k
        /\ \A j \in 1..(Len(new) - k) : b[j] = new[k + j]
    BY <1>4, <2>2, AtPlace
  <2>4. /\ d \in Seq(Prots) /\ Len(d) = Len(old) - 1
        /\ \A i \in 1..(Len(old) - 1) : d[i] = IF i < m - k THEN old[i] ELSE old[i + 1]
    BY <1>5, <1>7, <2>1, RemovedAt
  <2> HIDE DEF b, d
  <2>5. Len(b) = Len(d) /\ Len(b) = Len(list) - k - 1
    BY <1>4, <1>5, <1>6, <2>3, <2>4
  <2>6. ASSUME NEW j \in 1..Len(b)
        PROVE  b[j] = d[j]
    <3>1. /\ k + j \in 1..(Len(list) - 1) /\ j \in 1..(Len(new) - k) /\ j \in 1..(Len(old) - 1)
          /\ j \in 1..(Len(list) - k) /\ j + 1 \in 1..(Len(list) - k) /\ (k + j < m <=> j < m - k)
          /\ k + (j + 1) = (k + j) + 1
      BY <1>4, <1>5, <1>6, <2>5
    <3>2. b[j] = IF j < m - k THEN list[k + j] ELSE list[(k + j) + 1]
      BY <1>4, <2>3, <3>1
    <3>3. d[j] = IF j < m - k THEN list[k + j] ELSE list[k + (j + 1)]
      BY <1>5, <2>4, <3>1
    <3> QED BY <3>1, <3>2, <3>3
  <2> QED BY <2>3, <2>4, <2>5, <2>6, SameEntries DEF b, d, new, old, back
<1>11. CASE k >= m
  <2>1. k - 1 \in 0..Len(new) /\ (k - 1 = 0 => back = NULL) /\ (k - 1 # 0 => back = new[k - 1])
    <3>1. CASE k = m
      <4>1. back = IF m = 1 THEN NULL ELSE list[m - 1]
        BY <1>8, <1>9, <3>1
      <4>2. k # 1 => k - 1 \in 1..(Len(list) - 1) /\ k - 1 < m
        BY <1>6, <3>1
      <4> HIDE DEF new, back
      <4> QED BY <1>4, <1>6, <3>1, <4>1, <4>2
    <3>2. CASE k # m
      <4>1. back = pos /\ k # 0 /\ k # 1 /\ k - 1 \in 1..(Len(list) - 1) /\ ~(k - 1 < m) /\ (k - 1) + 1 = k
        BY <1>6, <1>9, <1>11, <3>2
      <4> HIDE DEF new, back
      <4> QED BY <1>1, <1>4, <1>6, <4>1
    <3> QED BY <3>1, <3>2
  <2>2. p \notin Members(old)
    <3>1. \A j \in 1..Len(old) : k + j \in 1..Len(list) /\ k + j # m /\ old[j] = list[k + j]
      BY <1>5, <1>6, <1>11
    <3>2. \A j \in 1..Len(old) : old[j] # p
      BY <1>2, <3>1 DEF NoDuplicates
    <3> HIDE DEF old
    <3> QED BY <3>2 DEF Members
  <2>3. d = old
    BY <2>2, NotRemoved
  <2> HIDE DEF new, old, back, d
  <2>4. /\ b \in Seq(Prots) /\ Len(b) = Len(new) - (k - 1)
        /\ \A j \in 1..(Len(new) - (k - 1)) : b[j] = new[(k - 1) + j]
    <3> DEFINE l == k - 1
    <3>1. l \in 0..Len(new) /\ (l = 0 => back = NULL) /\ (l # 0 => back = new[l])
      BY <2>1
    <3> HIDE DEF l
    <3>2. /\ After(new, back) \in Seq(Prots) /\ Len(After(new, back)) = Len(new) - l
          /\ \A j \in 1..(Len(new) - l) : After(new, back)[j] = new[l + j]
      <4>1. new \in Seq(Prots) /\ NoDuplicates(new)
        BY <1>4
      <4> QED BY <3>1, <4>1, AtPlace
    <3> QED BY <3>2 DEF l, b
  <2> HIDE DEF b
  <2>5. Len(b) = Len(old) /\ Len(b) = Len(list) - k
    BY <1>4, <1>5, <1>6, <2>4
  <2>6. ASSUME NEW j \in 1..Len(b)
        PROVE  b[j] = old[j]
    <3>1. /\ (k - 1) + j \in 1..(Len(list) - 1) /\ j \in 1..(Len(new) - (k - 1)) /\ j \in 1..(Len(list) - k)
          /\ ~((k - 1) + j < m) /\ ((k - 1) + j) + 1 = k + j
      BY <1>4, <1>6, <1>11, <2>5
    <3>2. b[j] = list[((k - 1) + j) + 1]
      BY <1>4, <2>4, <3>1
    <3> QED BY <1>5, <3>1, <3>2
  <2>7. b = old
    BY <1>5, <2>4, <2>5, <2>6, SameEntries
  <2> QED BY <2>3, <2>7 DEF b, d, new, old, back
<1> QED BY <1>6, <1>10, <1>11
-----------------------------------------------------------------------------
(* Steps that leave the lists and the registrations alone.                 *)

\* The frames that are about to look at a registration, or to signal it.
Listening == {"notify", "reinstalled"}
Listens(s, r, g) ==
  \E k \in 1..Len(s) : \/ s[k].pc = "notify" /\ s[k].arg.reg = r
                       \/ s[k].pc = "reinstalled" /\ s[k].arg.g = g

\* Those of s are frames of t.
KeptCalls(s, t) ==
  \A k \in 1..Len(s) : s[k].pc \in Listening =>
    \E j \in 1..Len(t) : t[j].pc = s[k].pc /\ t[j].arg = s[k].arg

LEMMA KeptListens ==
  ASSUME NEW s, NEW t, KeptCalls(s, t), NEW r, NEW g, Listens(s, r, g)
  PROVE  Listens(t, r, g)
BY DEF KeptCalls, Listens, Listening

LEMMA KeptOn ==
  ASSUME NEW s, NEW t, NEW u, KeptCalls(s, t), KeptCalls(t, u)
  PROVE  KeptCalls(s, u)
BY DEF KeptCalls

LEMMA KeptPush ==
  ASSUME NEW S, NEW s \in Seq(S), NEW f
  PROVE  KeptCalls(s, Append(s, f))
<1>1. Len(Append(s, f)) = Len(s) + 1 /\ \A k \in 1..Len(s) : Append(s, f)[k] = s[k]
  OBVIOUS
<1>2. \A k \in 1..Len(s) : k \in 1..(Len(s) + 1)
  OBVIOUS
<1> QED BY <1>1, <1>2 DEF KeptCalls

LEMMA KeptPop ==
  ASSUME NEW s \in Seq(Frames), Len(s) >= 1, s[Len(s)].pc \notin Listening
  PROVE  KeptCalls(s, Pop(s)) /\ Pop(s) \in Seq(Frames)
<1>1. Pop(s) \in Seq(Frames) /\ Len(Pop(s)) = Len(s) - 1 /\ \A k \in 1..(Len(s) - 1) : Pop(s)[k] = s[k]
  BY PopSeq
<1>2. \A k \in 1..Len(s) : s[k].pc \in Listening => k \in 1..(Len(s) - 1)
  OBVIOUS
<1> QED BY <1>1, <1>2 DEF KeptCalls

\* What calls, returns and jumps keep.
LEMMA StackKept ==
  ASSUME CallsSound
  PROVE  /\ KeptCalls(stack, stack)
         /\ \A f : KeptCalls(stack, Append(stack, f))
         /\ \A f, g : KeptCalls(stack, Append(Append(stack, f), g))
         /\ Top.pc \notin Listening =>
              /\ KeptCalls(stack, Pop(stack))
              /\ \A f : KeptCalls(stack, Append(Pop(stack), f))
              /\ \A f, g : KeptCalls(stack, Append(Append(Pop(stack), f), g))
<1>1. stack \in Seq(Frames) /\ Len(stack) >= 1
  BY TopFacts
<1>2. KeptCalls(stack, stack)
  BY DEF KeptCalls
<1>3. \A f : KeptCalls(stack, Append(stack, f))
  BY <1>1, KeptPush
<1>4. \A f : Append(stack, f) \in Seq(Frames \cup {f})
  BY <1>1
<1>5. ASSUME NEW f, NEW g PROVE KeptCalls(stack, Append(Append(stack, f), g))
  <2>1. KeptCalls(Append(stack, f), Append(Append(stack, f), g))
    BY <1>4, KeptPush
  <2> QED BY <1>3, <2>1, KeptOn
<1>6. ASSUME Top.pc \notin Listening
      PROVE  /\ KeptCalls(stack, Pop(stack))
             /\ \A f : KeptCalls(stack, Append(Pop(stack), f))
             /\ \A f, g : KeptCalls(stack, Append(Append(Pop(stack), f), g))
  <2>1. KeptCalls(stack, Pop(stack)) /\ Pop(stack) \in Seq(Frames)
    BY <1>1, <1>6, KeptPop DEF Top
  <2>2. ASSUME NEW f PROVE KeptCalls(stack, Append(Pop(stack), f))
    BY <2>1, KeptPush, KeptOn
  <2>3. ASSUME NEW f, NEW g PROVE KeptCalls(stack, Append(Append(Pop(stack), f), g))
    <3>1. Append(Pop(stack), f) \in Seq(Frames \cup {f})
      BY <2>1
    <3>2. KeptCalls(Append(Pop(stack), f), Append(Append(Pop(stack), f), g))
      BY <3>1, KeptPush
    <3> QED BY <2>2, <3>2, KeptOn
  <2> QED BY <2>1, <2>2, <2>3
<1> QED BY <1>2, <1>3, <1>5, <1>6

Quiet == UNCHANGED <<entries, regs>> /\ KeptCalls(stack, stack')

\* A return, a call, and an interface that is found or not.
LEMMA ReturnKept ==
  ASSUME CallsSound, Top.pc \notin Listening, NEW status, Return(status)
  PROVE  KeptCalls(stack, stack')
BY StackKept DEF Return

LEMMA BecomeKept ==
  ASSUME CallsSound, Top.pc \notin Listening, NEW pc, NEW a
  PROVE  /\ KeptCalls(stack, Become(pc, a))
         /\ \A pc2, b : KeptCalls(stack, Call(Become(pc, a), pc2, b))
BY StackKept DEF Become, Call

LEMMA CallKept ==
  ASSUME CallsSound, NEW pc, NEW a
  PROVE  /\ KeptCalls(stack, Call(stack, pc, a))
         /\ \A pc2, b : KeptCalls(stack, Call(Call(stack, pc, a), pc2, b))
BY StackKept DEF Call

LEMMA DisconnectKept ==
  ASSUME CallsSound, DisconnectUser \/ DisconnectAgain \/ RemoveRefused
  PROVE  KeptCalls(stack, stack')
<1>1. CASE DisconnectUser
  <2>1. Top.pc \notin Listening
    BY <1>1 DEF DisconnectUser, Locked, Listening
  <2>2. PICK pc, a, b : stack' = Call(Become(pc, a), "disconnect", b)
    BY <1>1 DEF DisconnectUser
  <2> QED BY <2>1, <2>2, BecomeKept
<1>2. CASE DisconnectAgain
  <2>1. Top.pc \notin Listening
    BY <1>2 DEF DisconnectAgain, Locked, Stopped, At, Listening
  <2>2. \/ Return("ERROR")
        \/ \E pc, a : stack' = Become(pc, a)
        \/ \E pc, a, pc2, b : stack' = Call(Become(pc, a), pc2, b)
    BY <1>2 DEF DisconnectAgain
  <2> QED BY <2>1, <2>2, ReturnKept, BecomeKept
<1>3. CASE RemoveRefused
  <2>1. Top.pc \notin Listening
    BY <1>3 DEF RemoveRefused, Listening
  <2>2. stack' = Call(Become("refused", arg), "connect", [h |-> arg.h])
    BY <1>3 DEF RemoveRefused
  <2> QED BY <2>1, <2>2, BecomeKept
<1> QED BY <1>1, <1>2, <1>3

LEMMA MultipleKept ==
  ASSUME CallsSound, \/ CheckDevicePath \/ InstallOne \/ InstallMultipleEnds \/ InstallRollback
                     \/ UninstallOne \/ UninstallRollback
  PROVE  KeptCalls(stack, stack')
<1>1. Top.pc \notin Listening
  BY DEF CheckDevicePath, InstallOne, InstallMultipleEnds, InstallRollback, UninstallOne, UninstallRollback,
         At, Listening
<1>2. \A pc, a, h, g, i : CallInstall(Become(pc, a), h, g, i) =>
        stack' = Become(pc, a) \/ \E b : stack' = Call(Become(pc, a), "install", b)
  BY DEF CallInstall
<1>3. \A pc, a, h, g, i, new : CallRemove(Become(pc, a), "uninstall", h, g, i, new) =>
        stack' = Become(pc, a) \/ \E b : stack' = Call(Become(pc, a), "uninstall", b)
  BY DEF CallRemove
<1>4. \/ \E status : Return(status)
      \/ \E pc, a : stack' = Become(pc, a)
      \/ \E pc, a, h, g, i : CallInstall(Become(pc, a), h, g, i)
      \/ \E pc, a, h, g, i, new : CallRemove(Become(pc, a), "uninstall", h, g, i, new)
  <2>1. CASE CheckDevicePath
    BY <2>1 DEF CheckDevicePath
  <2>2. CASE InstallOne
    BY <2>2 DEF InstallOne
  <2>3. CASE InstallMultipleEnds
    BY <2>3 DEF InstallMultipleEnds
  <2>4. CASE InstallRollback
    BY <2>4 DEF InstallRollback
  <2>5. CASE UninstallOne
    BY <2>5 DEF UninstallOne
  <2>6. CASE UninstallRollback
    BY <2>6 DEF UninstallRollback
  <2> QED BY <2>1, <2>2, <2>3, <2>4, <2>5, <2>6
<1> QED BY <1>1, <1>2, <1>3, <1>4, ReturnKept, BecomeKept

LEMMA ControllerKept ==
  ASSUME CallsSound, DisconnectController \/ ConnectController \/ DriverReturns \/ CallbackReturns
  PROVE  KeptCalls(stack, stack')
<1>1. Top.pc \notin Listening
  BY DEF DisconnectController, ConnectController, DriverReturns, CallbackReturns, At, Listening
<1>2. \/ \E status : Return(status)
      \/ stack' = Pop(stack)
      \/ \E f : stack' = Append(Pop(stack), f)
      \/ \E pc, a : stack' = Call(Become(pc, a), "driver", NULL)
  <2>1. CASE DisconnectController
    BY <2>1 DEF DisconnectController, CallDriver
  <2>2. CASE ConnectController
    BY <2>2 DEF ConnectController
  <2>3. CASE DriverReturns
    BY <2>3 DEF DriverReturns
  <2>4. CASE CallbackReturns
    BY <2>4 DEF CallbackReturns
  <2> QED BY <2>1, <2>2, <2>3, <2>4
<1> QED BY <1>1, <1>2, ReturnKept, BecomeKept, StackKept

LEMMA OtherStepsKept ==
  ASSUME CallsSound, \/ InstallFails \/ Refused \/ OpenExclusive \/ LocateAgain
                     \/ ConnectHandlesByKey \/ ConnectNext
  PROVE  KeptCalls(stack, stack')
<1>1. Top.pc \notin Listening
  BY DEF InstallFails, Refused, OpenExclusive, LocateAgain, ConnectHandlesByKey, ConnectNext, At, Listening
<1>2. \/ \E status : Return(status)
      \/ \E pc, a : stack' = Become(pc, a)
      \/ \E pc, a, b : stack' = Call(Become(pc, a), "connect", b)
  BY DEF InstallFails, Refused, OpenExclusive, LocateAgain, ConnectHandlesByKey, ConnectNext
<1> QED BY <1>1, <1>2, ReturnKept, BecomeKept

LEMMA ServiceKept ==
  ASSUME CallsSound,
         \/ \E h, g, i : InstallProtocolInterface(h, g, i) \/ UninstallProtocolInterface(h, g, i)
         \/ \E h, g, i, new : ReinstallProtocolInterface(h, g, i, new)
         \/ \E h, g, agent, ctrl, attr : OpenProtocol(h, g, agent, ctrl, attr)
         \/ \E h, list : InstallMultiple(h, list) \/ UninstallMultiple(h, list)
         \/ (\E g : LocateHandleBuffer(g)) \/ StartImage
         \/ Callback \/ \E r : Notified(r)
  PROVE  KeptCalls(stack, stack')
<1>1. \/ stack' = stack
      \/ \E f : stack' = Append(stack, f)
      \/ \E pc, a : stack' = Call(stack, pc, a)
      \/ \E pc, a, pc2, b : stack' = Call(Call(stack, pc, a), pc2, b)
  <2>1. CASE \E h, g, i : InstallProtocolInterface(h, g, i) \/ UninstallProtocolInterface(h, g, i)
    BY <2>1 DEF InstallProtocolInterface, CallInstall, UninstallProtocolInterface, CallRemove
  <2>2. CASE \E h, g, i, new : ReinstallProtocolInterface(h, g, i, new)
    BY <2>2 DEF ReinstallProtocolInterface, CallRemove
  <2>3. CASE \E h, g, agent, ctrl, attr : OpenProtocol(h, g, agent, ctrl, attr)
    BY <2>3 DEF OpenProtocol
  <2>4. CASE \E h, list : InstallMultiple(h, list) \/ UninstallMultiple(h, list)
    BY <2>4 DEF InstallMultiple, UninstallMultiple
  <2>5. CASE (\E g : LocateHandleBuffer(g)) \/ StartImage
    BY <2>5 DEF LocateHandleBuffer, StartImage
  <2>6. CASE Callback \/ \E r : Notified(r)
    BY <2>6 DEF Callback, Notified, Interrupt
  <2> QED BY <2>1, <2>2, <2>3, <2>4, <2>5, <2>6
<1>2. KeptCalls(stack, stack) /\ \A f : KeptCalls(stack, Append(stack, f))
  BY StackKept
<1>3. \A pc, a : KeptCalls(stack, Call(stack, pc, a))
  BY CallKept
<1>4. \A pc, a, pc2, b : KeptCalls(stack, Call(Call(stack, pc, a), pc2, b))
  BY CallKept
<1> QED BY <1>1, <1>2, <1>3, <1>4

\* The steps that change the lists, a registration or what is signalled.
Registers(r) ==
  \/ \E g \in Guids : RegisterProtocolNotify(r, g)
  \/ UnregisterProtocolNotify(r) \/ Notified(r)
  \/ Allocated(r) /\ Advance(r)
Changes ==
  \/ Install \/ Uninstall \/ Reinstall \/ Reinstalled \/ NotifyTookAll
  \/ \E r \in Regs : Registers(r)

LEMMA EveryStep ==
  ASSUME IInv, [Next]_vars
  PROVE  Quiet \/ Changes
<1>1. CallsSound
  BY DEF IInv
<1>2. CASE UNCHANGED vars
  <2>1. UNCHANGED <<entries, regs>> /\ UNCHANGED stack
    BY <1>2 DEF vars, control
  <2> QED BY <1>1, <2>1, StackKept DEF Quiet
<1>3. CASE CoreStep
  <2>1. CASE \/ InstallFails \/ Refused \/ OpenExclusive \/ LocateAgain \/ ConnectHandlesByKey \/ ConnectNext
    <3>1. UNCHANGED <<entries, regs>>
      BY <2>1 DEF InstallFails, Refused, OpenExclusive, LocateAgain, ConnectHandlesByKey, ConnectNext
    <3> QED BY <1>1, <2>1, <3>1, OtherStepsKept DEF Quiet
  <2>2. CASE DisconnectUser \/ DisconnectAgain \/ RemoveRefused
    <3>1. UNCHANGED <<entries, regs>>
      BY <2>2 DEF DisconnectUser, DisconnectAgain, RemoveRefused
    <3> QED BY <1>1, <2>2, <3>1, DisconnectKept DEF Quiet
  <2>3. CASE \/ CheckDevicePath \/ InstallOne \/ InstallMultipleEnds \/ InstallRollback
             \/ UninstallOne \/ UninstallRollback
    <3>1. UNCHANGED <<entries, regs>>
      BY <2>3 DEF CheckDevicePath, InstallOne, InstallMultipleEnds, InstallRollback, UninstallOne, UninstallRollback
    <3> QED BY <1>1, <2>3, <3>1, MultipleKept DEF Quiet
  <2>4. CASE DisconnectController \/ ConnectController
    <3>1. UNCHANGED <<entries, regs>>
      BY <2>4 DEF DisconnectController, ConnectController
    <3> QED BY <1>1, <2>4, <3>1, ControllerKept DEF Quiet
  <2>5. CASE NotifyTakes
    BY <2>5, NotifyFacts DEF NotifyTakes, Changes, Registers
  <2> QED BY <1>3, <2>1, <2>2, <2>3, <2>4, <2>5 DEF CoreStep, Changes
<1>4. CASE DriverReturns \/ CallbackReturns
  <2>1. UNCHANGED <<entries, regs>>
    BY <1>4 DEF DriverReturns, CallbackReturns
  <2> QED BY <1>1, <1>4, <2>1, ControllerKept DEF Quiet
<1>5. CASE Callback \/ \E r \in Regs : Notified(r)
  <2>1. CASE Callback
    <3>1. UNCHANGED <<entries, regs>>
      BY <2>1 DEF Callback
    <3> QED BY <1>1, <2>1, <3>1, ServiceKept DEF Quiet
  <2> QED BY <1>5, <2>1 DEF Changes, Registers
<1>6. CASE ServiceCall
  <2>1. CASE \/ \E h, g, i : InstallProtocolInterface(h, g, i) \/ UninstallProtocolInterface(h, g, i)
             \/ \E h, g, i, new : ReinstallProtocolInterface(h, g, i, new)
    <3>1. UNCHANGED <<entries, regs>>
      BY <2>1 DEF InstallProtocolInterface, UninstallProtocolInterface, ReinstallProtocolInterface
    <3> QED BY <1>1, <2>1, <3>1, ServiceKept DEF Quiet
  <2>2. CASE \E h, g, agent, ctrl, attr : OpenProtocol(h, g, agent, ctrl, attr)
    <3>1. UNCHANGED <<entries, regs>>
      BY <2>2 DEF OpenProtocol
    <3> QED BY <1>1, <2>2, <3>1, ServiceKept DEF Quiet
  <2>3. CASE \E h, g, agent, ctrl : CloseProtocol(h, g, agent, ctrl)
    <3>1. UNCHANGED <<entries, regs>> /\ UNCHANGED stack
      BY <2>3 DEF CloseProtocol, control
    <3> QED BY <1>1, <3>1, StackKept DEF Quiet
  <2>4. CASE (\E h, list : InstallMultiple(h, list) \/ UninstallMultiple(h, list))
             \/ (\E g : LocateHandleBuffer(g)) \/ StartImage
    <3>1. UNCHANGED <<entries, regs>>
      BY <2>4 DEF InstallMultiple, UninstallMultiple, LocateHandleBuffer, StartImage
    <3> QED BY <1>1, <2>4, <3>1, ServiceKept DEF Quiet
  <2>5. CASE \E r \in Regs : \/ \E g \in Guids : RegisterProtocolNotify(r, g)
                             \/ UnregisterProtocolNotify(r) \/ LocateProtocol(r)
    BY <2>5 DEF LocateProtocol, Changes, Registers
  <2> QED BY <1>6, <2>1, <2>2, <2>3, <2>4, <2>5 DEF ServiceCall
<1> QED BY <1>2, <1>3, <1>4, <1>5, <1>6 DEF Next
-----------------------------------------------------------------------------
(* How the queue of each registration changes.                             *)

LEMMA ListFacts ==
  ASSUME IInv, NEW g \in Guids
  PROVE  /\ Protocols \in [Guids -> Seq(Prots)]
         /\ Protocols[g] \in Seq(Prots) /\ NoDuplicates(Protocols[g])
         /\ \A p : p \in Members(Protocols[g]) <=> p \in Installed /\ prot[p].Protocol = g
BY DEF IInv, TypeOK, LinksSound, DatabaseSound

LEMMA QueueFacts ==
  ASSUME IInv, NEW r \in Regs, Allocated(r)
  PROVE  /\ notify[r].Protocol \in Guids /\ notify[r].Protocol # NULL
         /\ notify[r] = [Protocol |-> notify[r].Protocol, Position |-> notify[r].Position]
         /\ notify[r].Position \in {NULL} \cup Members(Protocols[notify[r].Protocol])
         /\ Unseen(r) = After(Protocols[notify[r].Protocol], notify[r].Position)
         /\ Unseen(r) \in Seq(Prots)
         /\ Members(Unseen(r)) \subseteq Members(Protocols[notify[r].Protocol])
BY RegFacts, StructureAssumption DEF IInv, LinksSound, Structures

\* Install: the interface is new, and is put on the queues of its protocol.
LEMMA InstallUnseen ==
  ASSUME IInv, Install
  PROVE  /\ arg.g \in Guids /\ signalled' = NotifyProtocolEntry(arg.g) /\ UNCHANGED <<notify, before>>
         /\ \E p \in Prots :
              /\ \A g \in Guids : p \notin Members(Protocols[g])
              /\ Protocols' = [Protocols EXCEPT ![arg.g] = InsertTailList(@, p)]
              /\ \A r \in Regs : Allocated(r) =>
                   Unseen(r)' = IF notify[r].Protocol = arg.g THEN InsertTailList(Unseen(r), p) ELSE Unseen(r)
<1>1. Top.pc = "install" /\ UNCHANGED <<notify, before>>
  BY DEF Install, At
<1>2. PICK p \in Prots \ Installed : Protocols' = EntryAdded(arg.g, p) /\ signalled' = NotifyProtocolEntry(arg.g)
  BY DEF Install
<1>3. arg \in [h : Handles \cup {NULL}, g : Guids, i : Interfaces]
  <2>1. Top \in Frames
    BY TopFacts DEF IInv
  <2> QED BY <1>1, <2>1, FrameArgs DEF arg
<1> DEFINE g == arg.g
<1>4. g \in Guids
  BY <1>3
<1>5. Protocols' = [Protocols EXCEPT ![g] = InsertTailList(@, p)]
  BY <1>2 DEF EntryAdded
<1> HIDE DEF g
<1>6. \A l \in Guids : p \notin Members(Protocols[l])
  BY <1>2, ListFacts
<1>7. ASSUME NEW r \in Regs, Allocated(r)
      PROVE  Unseen(r)' = IF notify[r].Protocol = g THEN InsertTailList(Unseen(r), p) ELSE Unseen(r)
  <2> DEFINE pos == notify[r].Position
             list == Protocols[g]
  <2>1. Unseen(r)' = After(Protocols'[notify[r].Protocol], pos)
    BY <1>1 DEF Unseen, After
  <2>2. notify[r].Protocol \in Guids /\ pos \in {NULL} \cup Members(Protocols[notify[r].Protocol])
        /\ Unseen(r) = After(Protocols[notify[r].Protocol], pos)
    BY <1>7, QueueFacts
  <2>3. list \in Seq(Prots) /\ NoDuplicates(list) /\ p \notin Members(list) /\ p \in Prots
        /\ Protocols \in [Guids -> Seq(Prots)]
    BY <1>4, <1>6, ListFacts
  <2>4. CASE notify[r].Protocol = g
    <3>1. pos \in {NULL} \cup Members(list) /\ Unseen(r) = After(list, pos)
          /\ Unseen(r)' = After(InsertTailList(list, p), pos)
      BY <1>4, <1>5, <2>1, <2>2, <2>3, <2>4
    <3> HIDE DEF pos, list
    <3>2. After(InsertTailList(list, p), pos) = InsertTailList(After(list, pos), p)
      BY <2>3, <3>1, AfterInsert
    <3> QED BY <2>4, <3>1, <3>2
  <2>5. CASE notify[r].Protocol # g
    BY <1>5, <2>1, <2>2, <2>3, <2>5
  <2> QED BY <2>4, <2>5
<1> QED BY <1>1, <1>2, <1>4, <1>5, <1>6, <1>7 DEF g

\* CoreRemoveInterfaceFromProtocol: the interface leaves the queues, and the
\* Positions stay registrations of the same protocol.
LEMMA RemoveUnseen ==
  ASSUME IInv, NEW p \in Installed, NEW r \in Regs, Allocated(r)
  PROVE  LET g == prot[p].Protocol
             nt == PositionsWithout(p)[r]
         IN  /\ nt # Free /\ nt.Protocol = notify[r].Protocol
             /\ notify[r].Protocol = g =>
                  /\ nt.Position \in {NULL} \cup Members(RemoveEntryList(Protocols[g], p))
                  /\ After(RemoveEntryList(Protocols[g], p), nt.Position) = RemoveEntryList(Unseen(r), p)
             /\ notify[r].Protocol # g => nt = notify[r]
<1> DEFINE g == prot[p].Protocol
           list == Protocols[g]
           pos == notify[r].Position
           nt == PositionsWithout(p)[r]
<1>1. /\ notify[r].Protocol \in Guids /\ pos \in {NULL} \cup Members(Protocols[notify[r].Protocol])
      /\ Unseen(r) = After(Protocols[notify[r].Protocol], pos)
      /\ notify[r] = [Protocol |-> notify[r].Protocol, Position |-> pos]
  BY QueueFacts
<1>2. g \in Guids /\ p \in Prots /\ p # NULL
  BY InstalledFacts, StructureAssumption DEF Entry, Installed, IInv, Structures
<1>3. list \in Seq(Prots) /\ NoDuplicates(list) /\ p \in Members(list)
  BY <1>2, ListFacts
<1>4. nt = IF pos = p THEN [notify[r] EXCEPT !.Position = BackLink(list, p)] ELSE notify[r]
  BY DEF PositionsWithout
<1>5. nt = [Protocol |-> notify[r].Protocol, Position |-> IF pos = p THEN BackLink(list, p) ELSE pos]
  BY <1>1, <1>4
<1>6. nt # Free /\ nt.Protocol = notify[r].Protocol
  <2>1. /\ PositionsWithout(p)[r] # Free <=> notify[r] # Free
        /\ notify[r] # Free => PositionsWithout(p)[r].Protocol = notify[r].Protocol
    BY PositionsFacts
  <2> QED BY <2>1 DEF Allocated
<1>7. ASSUME notify[r].Protocol # g PROVE nt = notify[r]
  <2>1. pos # p
    BY <1>1, <1>2, <1>7, ListFacts
  <2> QED BY <1>4, <2>1
<1>8. ASSUME notify[r].Protocol = g
      PROVE  /\ nt.Position \in {NULL} \cup Members(RemoveEntryList(list, p))
             /\ After(RemoveEntryList(list, p), nt.Position) = RemoveEntryList(Unseen(r), p)
  <2>1. pos \in {NULL} \cup Members(list) /\ Unseen(r) = After(list, pos)
    BY <1>1, <1>8
  <2>2. nt.Position = IF pos = p THEN BackLink(list, p) ELSE pos
    BY <1>5
  <2> HIDE DEF nt, pos, list, g
  <2>3. After(RemoveEntryList(list, p), IF pos = p THEN BackLink(list, p) ELSE pos)
          = RemoveEntryList(After(list, pos), p)
    BY <1>3, <2>1, AfterRemove
  <2>4. BackLink(list, p) \in {NULL} \cup (Members(list) \ {p})
    BY <1>3, BackLinkFacts
  <2>5. Members(RemoveEntryList(list, p)) = Members(list) \ {p}
    BY <1>3, RemovedEntry
  <2> QED BY <2>1, <2>2, <2>3, <2>4, <2>5
<1> QED BY <1>6, <1>7, <1>8

LEMMA UninstallUnseen ==
  ASSUME IInv, Uninstall
  PROVE  /\ signalled' = signalled /\ Top.pc = "uninstall" /\ stack' = Pop(stack)
         /\ \E p \in Installed, g \in Guids :
              /\ p \in Members(Protocols[g]) /\ g = prot[p].Protocol
              /\ before' = [r \in Regs |-> before[r] \ {p}]
              /\ Protocols' = [Protocols EXCEPT ![g] = RemoveEntryList(@, p)]
              /\ \A r \in Regs :
                   /\ notify'[r] # Free <=> notify[r] # Free
                   /\ Allocated(r) =>
                        /\ notify'[r].Protocol = notify[r].Protocol
                        /\ Unseen(r)' = IF notify[r].Protocol = g THEN RemoveEntryList(Unseen(r), p) ELSE Unseen(r)
<1>1. /\ Top.pc = "uninstall" /\ signalled' = signalled /\ Return("SUCCESS")
      /\ notify' = PositionsWithout(Removed(arg)) /\ Protocols' = EntryRemoved(Removed(arg))
      /\ before' = [r \in Regs |-> before[r] \ {Removed(arg)}]
  BY DEF Uninstall, At
<1>2. Removed(arg) \in Installed
  BY <1>1, RemovedFacts
<1>3. PICK p \in Installed : p = Removed(arg)
  BY <1>2
<1>4. PICK g : g = prot[p].Protocol
  OBVIOUS
<1>5. g \in Guids /\ p \in Members(Protocols[g])
  BY <1>4, InstalledFacts, ListFacts DEF Entry, IInv
<1>6. /\ notify' = PositionsWithout(p) /\ before' = [r \in Regs |-> before[r] \ {p}]
      /\ Protocols' = [Protocols EXCEPT ![g] = RemoveEntryList(@, p)]
  BY <1>1, <1>3, <1>4 DEF EntryRemoved
<1>7. ASSUME NEW r \in Regs
      PROVE  /\ notify'[r] # Free <=> notify[r] # Free
             /\ Allocated(r) =>
                  /\ notify'[r].Protocol = notify[r].Protocol
                  /\ Unseen(r)' = IF notify[r].Protocol = g THEN RemoveEntryList(Unseen(r), p) ELSE Unseen(r)
  <2>1. notify'[r] # Free <=> notify[r] # Free
    BY <1>6, PositionsFacts
  <2>2. ASSUME Allocated(r)
        PROVE  /\ notify'[r].Protocol = notify[r].Protocol
               /\ Unseen(r)' = IF notify[r].Protocol = g THEN RemoveEntryList(Unseen(r), p) ELSE Unseen(r)
    <3>1. /\ notify'[r].Protocol = notify[r].Protocol
          /\ notify[r].Protocol = g => After(RemoveEntryList(Protocols[g], p), notify'[r].Position)
                                         = RemoveEntryList(Unseen(r), p)
          /\ notify[r].Protocol # g => notify'[r] = notify[r]
      BY <1>4, <1>6, <2>2, RemoveUnseen
    <3>2. Unseen(r)' = After(Protocols'[notify'[r].Protocol], notify'[r].Position)
      BY DEF Unseen, After
    <3>3. /\ notify[r].Protocol \in Guids /\ Protocols \in [Guids -> Seq(Prots)]
          /\ Unseen(r) = After(Protocols[notify[r].Protocol], notify[r].Position)
      BY <1>5, <2>2, QueueFacts, ListFacts
    <3> QED BY <1>5, <1>6, <3>1, <3>2, <3>3
  <2> QED BY <2>1, <2>2
<1> QED BY <1>1, <1>4, <1>5, <1>6, <1>7 DEF Return

\* Reinstall: the interface moves to the end of the queues.
LEMMA ReinstallUnseen ==
  ASSUME IInv, Reinstall
  PROVE  /\ signalled' = signalled /\ Top.pc = "reinstall"
         /\ \E p \in Installed, g \in Guids :
              /\ p \in Members(Protocols[g]) /\ g = prot[p].Protocol
              /\ before' = [r \in Regs |-> before[r] \ {p}]
              /\ stack' = Call(Become("reinstalled", [h |-> arg.h, g |-> g]), "connect", [h |-> arg.h])
              /\ Protocols' = [Protocols EXCEPT ![g] = InsertTailList(RemoveEntryList(@, p), p)]
              /\ \A r \in Regs :
                   /\ notify'[r] # Free <=> notify[r] # Free
                   /\ Allocated(r) =>
                        /\ notify'[r].Protocol = notify[r].Protocol
                        /\ Unseen(r)' = IF notify[r].Protocol = g
                                        THEN InsertTailList(RemoveEntryList(Unseen(r), p), p) ELSE Unseen(r)
<1>1. /\ Top.pc = "reinstall" /\ signalled' = signalled
      /\ notify' = PositionsWithout(Removed(arg))
      /\ Protocols' = [EntryRemoved(Removed(arg)) EXCEPT ![prot[Removed(arg)].Protocol] =
                         InsertTailList(@, Removed(arg))]
      /\ before' = [r \in Regs |-> before[r] \ {Removed(arg)}]
      /\ stack' = Call(Become("reinstalled", [h |-> arg.h, g |-> prot[Removed(arg)].Protocol]),
                       "connect", [h |-> arg.h])
  BY DEF Reinstall, At
<1>2. Removed(arg) \in Installed
  BY <1>1, RemovedFacts
<1>3. PICK p \in Installed : p = Removed(arg)
  BY <1>2
<1>4. PICK g : g = prot[p].Protocol
  OBVIOUS
<1>5. g \in Guids /\ p \in Members(Protocols[g]) /\ p \in Prots
  BY <1>4, InstalledFacts, ListFacts DEF Entry, IInv
<1> DEFINE rest == RemoveEntryList(Protocols[g], p)
<1>6. /\ notify' = PositionsWithout(p) /\ before' = [r \in Regs |-> before[r] \ {p}]
      /\ Protocols' = [Protocols EXCEPT ![g] = InsertTailList(rest, p)]
      /\ stack' = Call(Become("reinstalled", [h |-> arg.h, g |-> g]), "connect", [h |-> arg.h])
  <2>1. Protocols' = [[Protocols EXCEPT ![g] = rest] EXCEPT ![g] = InsertTailList(@, p)]
    BY <1>1, <1>3, <1>4 DEF EntryRemoved
  <2>2. Protocols \in [Guids -> Seq(Prots)]
    BY <1>5, ListFacts
  <2> HIDE DEF rest
  <2>3. Protocols' = [Protocols EXCEPT ![g] = InsertTailList(rest, p)]
    BY <1>5, <2>1, <2>2
  <2> QED BY <1>1, <1>3, <1>4, <2>3
<1>7. rest \in Seq(Prots) /\ NoDuplicates(rest) /\ p \notin Members(rest)
  <2>1. Protocols[g] \in Seq(Prots) /\ NoDuplicates(Protocols[g])
    BY <1>5, ListFacts
  <2> QED BY <2>1, RemovedEntry
<1>8. ASSUME NEW r \in Regs
      PROVE  /\ notify'[r] # Free <=> notify[r] # Free
             /\ Allocated(r) =>
                  /\ notify'[r].Protocol = notify[r].Protocol
                  /\ Unseen(r)' = IF notify[r].Protocol = g
                                  THEN InsertTailList(RemoveEntryList(Unseen(r), p), p) ELSE Unseen(r)
  <2>1. notify'[r] # Free <=> notify[r] # Free
    BY <1>6, PositionsFacts
  <2>2. ASSUME Allocated(r)
        PROVE  /\ notify'[r].Protocol = notify[r].Protocol
               /\ Unseen(r)' = IF notify[r].Protocol = g
                               THEN InsertTailList(RemoveEntryList(Unseen(r), p), p) ELSE Unseen(r)
    <3>1. /\ notify'[r].Protocol = notify[r].Protocol
          /\ notify[r].Protocol = g => /\ notify'[r].Position \in {NULL} \cup Members(rest)
                                       /\ After(rest, notify'[r].Position) = RemoveEntryList(Unseen(r), p)
          /\ notify[r].Protocol # g => notify'[r] = notify[r]
      BY <1>4, <1>6, <2>2, RemoveUnseen
    <3>2. Unseen(r)' = After(Protocols'[notify'[r].Protocol], notify'[r].Position)
      BY DEF Unseen, After
    <3>3. /\ notify[r].Protocol \in Guids /\ Protocols \in [Guids -> Seq(Prots)]
          /\ Unseen(r) = After(Protocols[notify[r].Protocol], notify[r].Position)
      BY <1>5, <2>2, QueueFacts, ListFacts
    <3> HIDE DEF rest
    <3>4. notify[r].Protocol = g =>
            After(InsertTailList(rest, p), notify'[r].Position)
              = InsertTailList(After(rest, notify'[r].Position), p)
      BY <1>5, <1>7, <3>1, AfterInsert
    <3> QED BY <1>5, <1>6, <3>1, <3>2, <3>3, <3>4
  <2> QED BY <2>1, <2>2
<1> QED BY <1>1, <1>4, <1>5, <1>6, <1>8

\* A locate call takes the first of one queue.
LEMMA AdvanceUnseen ==
  ASSUME IInv, NEW r \in Regs, Allocated(r), Advance(r)
  PROVE  /\ UNCHANGED <<stack, Protocols, signalled, before>> /\ Unseen(r) # <<>>
         /\ notify'[r] # Free /\ notify'[r].Protocol = notify[r].Protocol
         /\ Unseen(r)' = Tail(Unseen(r))
         /\ \A q \in Regs : q # r => notify'[q] = notify[q]
<1>1. /\ Unseen(r) # <<>> /\ notify' = [notify EXCEPT ![r].Position = Unseen(r)[1]]
      /\ UNCHANGED <<stack, Protocols, signalled, before>>
  BY DEF Advance, control, entries
<1>2. /\ notify[r].Protocol \in Guids
      /\ notify[r] = [Protocol |-> notify[r].Protocol, Position |-> notify[r].Position]
      /\ notify[r].Position \in {NULL} \cup Members(Protocols[notify[r].Protocol])
      /\ Unseen(r) = After(Protocols[notify[r].Protocol], notify[r].Position)
  BY QueueFacts
<1>3. PICK n : n = Unseen(r)[1]
  OBVIOUS
<1>4. notify'[r] = [Protocol |-> notify[r].Protocol, Position |-> n]
      /\ \A q \in Regs : q # r => notify'[q] = notify[q]
  BY <1>1, <1>2, <1>3, RegsType
<1>5. notify'[r] # Free
  <2>1. Unseen(r) \in Seq(Prots) /\ Unseen(r) # <<>>
    BY <1>1, QueueFacts
  <2>2. n \in Prots
    BY <1>3, <2>1
  <2>3. notify'[r] \in [Protocol : Guids, Position : Prots \cup {NULL}]
    BY <1>2, <1>4, <2>2
  <2> QED BY <2>3, RegsType
<1>6. Unseen(r)' = After(Protocols[notify[r].Protocol], n)
  <2>1. Unseen(r)' = After(Protocols'[notify'[r].Protocol], notify'[r].Position)
    BY DEF Unseen, After
  <2> QED BY <1>1, <1>4, <2>1
<1>7. Protocols[notify[r].Protocol] \in Seq(Prots) /\ NoDuplicates(Protocols[notify[r].Protocol])
  BY <1>2, ListFacts
<1>8. After(Protocols[notify[r].Protocol], n) = Tail(Unseen(r))
  <2> DEFINE list == Protocols[notify[r].Protocol]
             pos == notify[r].Position
  <2>1. list \in Seq(Prots) /\ NoDuplicates(list) /\ pos \in {NULL} \cup Members(list)
        /\ After(list, pos) # <<>> /\ n = After(list, pos)[1] /\ Unseen(r) = After(list, pos)
    BY <1>1, <1>2, <1>3, <1>7
  <2> HIDE DEF list, pos
  <2> QED BY <2>1, AfterNext DEF list
<1> QED BY <1>1, <1>4, <1>5, <1>6, <1>8

\* A new registration has all that is installed to return.
LEMMA RegisterUnseen ==
  ASSUME IInv, NEW r \in Regs, NEW g \in Guids, RegisterProtocolNotify(r, g)
  PROVE  /\ UNCHANGED <<stack, Protocols, signalled>>
         /\ notify[r] = Free /\ notify'[r] # Free /\ notify'[r].Protocol = g
         /\ Unseen(r)' = Protocols[g] /\ before'[r] = Members(Protocols[g])
         /\ \A q \in Regs : q # r => notify'[q] = notify[q] /\ before'[q] = before[q]
<1>1. /\ UNCHANGED <<stack, Protocols, signalled>> /\ ~Allocated(r)
      /\ notify' = [notify EXCEPT ![r] = [Protocol |-> g, Position |-> NULL]]
      /\ before' = [before EXCEPT ![r] = Members(Protocols[g])]
  BY DEF RegisterProtocolNotify, control, entries
<1>2. notify'[r] = [Protocol |-> g, Position |-> NULL] /\ before'[r] = Members(Protocols[g])
      /\ \A q \in Regs : q # r => notify'[q] = notify[q] /\ before'[q] = before[q]
  BY <1>1, RegsType
<1>3. notify'[r] \in [Protocol : Guids, Position : Prots \cup {NULL}]
  BY <1>2
<1>4. Unseen(r)' = After(Protocols[g], NULL)
  <2>1. Unseen(r)' = After(Protocols'[notify'[r].Protocol], notify'[r].Position)
    BY DEF Unseen, After
  <2> QED BY <1>1, <1>2, <2>1
<1>5. After(Protocols[g], NULL) = Protocols[g]
  <2>1. Protocols[g] \in Seq(Prots) /\ NoDuplicates(Protocols[g])
    BY ListFacts
  <2> QED BY <2>1, AfterHead
<1> QED BY <1>1, <1>2, <1>3, <1>4, <1>5, RegsType DEF Allocated

\* Whose Position and list stay has the same queue.
LEMMA SameUnseen ==
  ASSUME NEW r \in Regs, notify'[r] = notify[r], Protocols' = Protocols
  PROVE  Unseen(r)' = Unseen(r)
BY DEF Unseen
-----------------------------------------------------------------------------
(* No install is missed.                                                   *)

\* What NoLostNotification says of one registration.
Heard(r) ==
  Allocated(r) /\ ~(Members(Unseen(r)) \subseteq before[r]) =>
    r \in signalled \/ Listens(stack, r, notify[r].Protocol)

LEMMA AllHeard == NoLostNotification <=> \A r \in Regs : Heard(r)
BY DEF NoLostNotification, Heard, Listens

\* A registration that had all, or was heard, goes on to be.
LEMMA HeardOn ==
  ASSUME NEW r \in Regs, Heard(r), r \in signalled => r \in signalled', KeptCalls(stack, stack'),
         notify'[r] # Free => notify[r] # Free /\ notify'[r].Protocol = notify[r].Protocol,
         notify'[r] # Free /\ Members(Unseen(r)) \subseteq before[r] => Members(Unseen(r)') \subseteq before'[r]
  PROVE  Heard(r)'
<1> SUFFICES ASSUME notify'[r] # Free, ~(Members(Unseen(r)') \subseteq before'[r])
             PROVE  r \in signalled' \/ Listens(stack', r, notify'[r].Protocol)
  BY DEF Heard, Allocated
<1>1. r \in signalled \/ Listens(stack, r, notify[r].Protocol)
  BY DEF Heard, Allocated
<1> QED BY <1>1, KeptListens

LEMMA QuietHeard ==
  ASSUME NEW r \in Regs, Heard(r), Quiet
  PROVE  Heard(r)'
<1>1. KeptCalls(stack, stack') /\ UNCHANGED <<notify, Protocols, signalled, before>>
  BY DEF Quiet, regs, entries
<1>2. Unseen(r)' = Unseen(r)
  BY <1>1, SameUnseen
<1> QED BY <1>1, <1>2, HeardOn

LEMMA RegistersHeard ==
  ASSUME IInv, NEW q \in Regs, NEW r \in Regs, Heard(r), Registers(q)
  PROVE  Heard(r)'
<1>1. CASE \E g \in Guids : RegisterProtocolNotify(q, g)
  <2>1. PICK g \in Guids : RegisterProtocolNotify(q, g)
    BY <1>1
  <2>2. CASE r = q
    <3>1. Unseen(r)' = Protocols[g] /\ before'[r] = Members(Protocols[g])
      BY <2>1, <2>2, RegisterUnseen
    <3> QED BY <3>1 DEF Heard
  <2>3. CASE r # q
    <3>1. UNCHANGED <<stack, Protocols, signalled>> /\ notify'[r] = notify[r] /\ before'[r] = before[r]
      BY <2>1, <2>3, RegisterUnseen
    <3>2. Unseen(r)' = Unseen(r)
      BY <3>1, SameUnseen
    <3>3. KeptCalls(stack, stack')
      BY <3>1 DEF KeptCalls
    <3> QED BY <3>1, <3>2, <3>3, HeardOn
  <2> QED BY <2>2, <2>3
<1>2. CASE UnregisterProtocolNotify(q)
  <2>1. UNCHANGED <<stack, Protocols>> /\ signalled' = signalled \ {q}
        /\ notify' = [notify EXCEPT ![q] = Free] /\ before' = [before EXCEPT ![q] = {}]
    BY <1>2 DEF UnregisterProtocolNotify, control, entries
  <2>2. CASE r = q
    <3>1. notify'[r] = Free
      BY <2>1, <2>2, RegsType
    <3> QED BY <3>1 DEF Heard, Allocated
  <2>3. CASE r # q
    <3>1. notify'[r] = notify[r] /\ before'[r] = before[r]
      BY <2>1, <2>3, RegsType
    <3>2. Unseen(r)' = Unseen(r)
      BY <2>1, <3>1, SameUnseen
    <3>3. KeptCalls(stack, stack') /\ (r \in signalled => r \in signalled')
      BY <2>1, <2>3 DEF KeptCalls
    <3> QED BY <3>1, <3>2, <3>3, HeardOn
  <2> QED BY <2>2, <2>3
<1>3. CASE Notified(q)
  <2>1. /\ stack' = Append(stack, Frame("notify", NotifyTpl[q], [reg |-> q, saved |-> Status]))
        /\ signalled' = signalled \ {q} /\ UNCHANGED <<notify, Protocols, before>>
    BY <1>3 DEF Notified, Interrupt, entries
  <2>2. Unseen(r)' = Unseen(r)
    BY <2>1, SameUnseen
  <2>3. stack \in Seq(Frames)
    BY TopFacts DEF IInv
  <2>4. CASE r = q
    <3> DEFINE f == Frame("notify", NotifyTpl[q], [reg |-> q, saved |-> Status])
    <3>1. f.pc = "notify" /\ f.arg.reg = r
      BY <2>4 DEF Frame
    <3>2. stack' = Append(stack, f)
      BY <2>1
    <3> HIDE DEF f
    <3>3. stack'[Len(stack')] = f /\ Len(stack') \in 1..Len(stack')
      BY <2>3, <3>2
    <3>4. Listens(stack', r, notify'[r].Protocol)
      BY <3>1, <3>3 DEF Listens
    <3> QED BY <3>4 DEF Heard
  <2>5. CASE r # q
    <3>1. KeptCalls(stack, stack')
      BY <2>1, <2>3, KeptPush
    <3> QED BY <2>1, <2>2, <2>5, <3>1, HeardOn
  <2> QED BY <2>4, <2>5
<1>4. CASE Allocated(q) /\ Advance(q)
  <2>1. /\ UNCHANGED <<stack, Protocols, signalled, before>> /\ Unseen(q) # <<>>
        /\ notify'[q].Protocol = notify[q].Protocol /\ Unseen(q)' = Tail(Unseen(q))
        /\ \A p \in Regs : p # q => notify'[p] = notify[p]
    BY <1>4, AdvanceUnseen
  <2>2. KeptCalls(stack, stack')
    BY <2>1 DEF KeptCalls
  <2>3. CASE r = q
    <3>1. Unseen(q) \in Seq(Prots)
      BY <1>4, QueueFacts
    <3>2. Members(Tail(Unseen(q))) \subseteq Members(Unseen(q))
      BY <2>1, <3>1 DEF Members
    <3> QED BY <1>4, <2>1, <2>2, <2>3, <3>2, HeardOn DEF Allocated
  <2>4. CASE r # q
    <3>1. Unseen(r)' = Unseen(r)
      BY <2>1, <2>4, SameUnseen
    <3> QED BY <2>1, <2>2, <2>4, <3>1, HeardOn
  <2> QED BY <2>3, <2>4
<1> QED BY <1>1, <1>2, <1>3, <1>4 DEF Registers

\* A queue holds an interface once.
LEMMA UnseenOnce ==
  ASSUME IInv, NEW r \in Regs, Allocated(r)
  PROVE  NoDuplicates(Unseen(r))
<1> DEFINE list == Protocols[notify[r].Protocol]
           pos == notify[r].Position
           old == After(list, pos)
<1>1. pos \in {NULL} \cup Members(list) /\ Unseen(r) = old /\ list \in Seq(Prots) /\ NoDuplicates(list)
  BY QueueFacts, ListFacts
<1> HIDE DEF list, pos
<1>2. PICK k \in 0..Len(list) : (k = 0 => pos = NULL) /\ (k # 0 => pos = list[k])
  BY <1>1, PlaceOf
<1>3. /\ Len(old) = Len(list) - k
      /\ \A j \in 1..(Len(list) - k) : old[j] = list[k + j]
  BY <1>1, <1>2, AtPlace
<1> HIDE DEF old
<1>4. Len(list) \in Nat /\ k \in Nat
  BY <1>1
<1>5. ASSUME NEW i \in 1..Len(old), NEW j \in 1..Len(old), old[i] = old[j]
      PROVE  i = j
  <2>1. i \in 1..(Len(list) - k) /\ j \in 1..(Len(list) - k) /\ k + i \in 1..Len(list) /\ k + j \in 1..Len(list)
    BY <1>3, <1>4
  <2>2. list[k + i] = list[k + j]
    BY <1>3, <1>5, <2>1
  <2>3. k + i = k + j
    BY <1>1, <2>1, <2>2 DEF NoDuplicates
  <2> QED BY <1>4, <2>1, <2>3
<1> QED BY <1>1, <1>5 DEF NoDuplicates

LEMMA InstallKept ==
  ASSUME CallsSound, Install
  PROVE  KeptCalls(stack, stack')
<1>1. Top.pc = "install" /\ stack[Len(stack)] = Top
  BY DEF Install, At, Top
<1>2. PICK h : ReturnHandle(h)
  BY DEF Install
<1> DEFINE s == Pop(stack)
<1>3. stack \in Seq(Frames) /\ Len(stack) >= 1 /\ Len(s) >= 1 /\ s \in Seq(Frames)
  <2>1. stack \in Seq(Frames) /\ Len(stack) >= 2 /\ Len(s) = Len(stack) - 1
    BY <1>1, TopFacts
  <2> QED BY <2>1, PopSeq
<1>4. KeptCalls(stack, s)
  BY <1>1, <1>3, KeptPop DEF Listening
<1>5. \/ stack' = s
      \/ s[Len(s)].pc = "installMultiple" /\ \E f : stack' = Append(Pop(s), f)
  BY <1>2 DEF ReturnHandle
<1> HIDE DEF s
<1>6. ASSUME s[Len(s)].pc = "installMultiple", NEW f, stack' = Append(Pop(s), f)
      PROVE  KeptCalls(stack, stack')
  <2>1. KeptCalls(s, Pop(s)) /\ Pop(s) \in Seq(Frames)
    BY <1>3, <1>6, KeptPop DEF Listening
  <2>2. KeptCalls(Pop(s), Append(Pop(s), f))
    BY <2>1, KeptPush
  <2>3. KeptCalls(s, stack')
    BY <1>6, <2>1, <2>2, KeptOn
  <2> QED BY <1>4, <2>3, KeptOn
<1> QED BY <1>4, <1>5, <1>6

LEMMA InstallHeard ==
  ASSUME IInv, Install, NEW r \in Regs, Heard(r)
  PROVE  Heard(r)'
<1>1. /\ signalled' = NotifyProtocolEntry(arg.g) /\ UNCHANGED <<notify, before>>
      /\ Allocated(r) /\ notify[r].Protocol # arg.g => Unseen(r)' = Unseen(r)
  BY InstallUnseen
<1>2. CASE Allocated(r) /\ notify[r].Protocol = arg.g
  <2>1. r \in signalled'
    BY <1>1, <1>2 DEF NotifyProtocolEntry
  <2> QED BY <2>1 DEF Heard
<1>3. CASE Allocated(r) /\ notify[r].Protocol # arg.g
  <2>1. KeptCalls(stack, stack')
    BY InstallKept DEF IInv
  <2>2. r \in signalled => r \in signalled'
    BY <1>1 DEF NotifyProtocolEntry
  <2> QED BY <1>1, <1>3, <2>1, <2>2, HeardOn
<1>4. CASE ~Allocated(r)
  BY <1>1, <1>4 DEF Heard, Allocated
<1> QED BY <1>2, <1>3, <1>4

\* An interface that is not on the queue, or leaves it, is not among those it misses.
LEMMA UninstallHeard ==
  ASSUME IInv, Uninstall, NEW r \in Regs, Heard(r)
  PROVE  Heard(r)'
<1>1. signalled' = signalled /\ Top.pc = "uninstall" /\ stack' = Pop(stack)
  BY UninstallUnseen
<1>2. PICK p \in Installed, g \in Guids :
        /\ p \in Members(Protocols[g])
        /\ g = prot[p].Protocol
        /\ before' = [q \in Regs |-> before[q] \ {p}]
        /\ \A q \in Regs :
             /\ notify'[q] # Free <=> notify[q] # Free
             /\ Allocated(q) =>
                  /\ notify'[q].Protocol = notify[q].Protocol
                  /\ Unseen(q)' = IF notify[q].Protocol = g THEN RemoveEntryList(Unseen(q), p) ELSE Unseen(q)
  BY UninstallUnseen
<1>3. KeptCalls(stack, stack')
  BY <1>1, StackKept DEF Listening, IInv
<1>4. ASSUME Allocated(r), Members(Unseen(r)) \subseteq before[r]
      PROVE  Members(Unseen(r)') \subseteq before[r] \ {p}
  <2>1. /\ notify[r].Protocol \in Guids /\ Unseen(r) \in Seq(Prots)
        /\ Members(Unseen(r)) \subseteq Members(Protocols[notify[r].Protocol])
    BY <1>4, QueueFacts
  <2>2. CASE notify[r].Protocol = g
    <3>1. NoDuplicates(Unseen(r))
      BY <1>4, UnseenOnce
    <3>2. Members(RemoveEntryList(Unseen(r), p)) = Members(Unseen(r)) \ {p}
      BY <2>1, <3>1, RemovedEntry
    <3> QED BY <1>2, <1>4, <2>2, <3>2
  <2>3. CASE notify[r].Protocol # g
    <3>1. p \notin Members(Unseen(r))
      BY <1>2, <2>1, <2>3, ListFacts
    <3> QED BY <1>2, <1>4, <2>3, <3>1
  <2> QED BY <2>2, <2>3
<1>5. CASE Allocated(r)
  <2>1. before'[r] = before[r] \ {p} /\ notify'[r].Protocol = notify[r].Protocol
    BY <1>2, <1>5
  <2>2. Members(Unseen(r)) \subseteq before[r] => Members(Unseen(r)') \subseteq before'[r]
    BY <1>4, <1>5, <2>1
  <2> QED BY <1>1, <1>3, <1>5, <2>1, <2>2, HeardOn DEF Allocated
<1>6. CASE ~Allocated(r)
  BY <1>2, <1>6 DEF Heard, Allocated
<1> QED BY <1>5, <1>6

LEMMA ReinstallHeard ==
  ASSUME IInv, Reinstall, NEW r \in Regs, Heard(r)
  PROVE  Heard(r)'
<1>1. signalled' = signalled /\ Top.pc = "reinstall"
  BY ReinstallUnseen
<1>2. PICK p \in Installed, g \in Guids :
        /\ p \in Members(Protocols[g])
        /\ g = prot[p].Protocol
        /\ before' = [q \in Regs |-> before[q] \ {p}]
        /\ stack' = Call(Become("reinstalled", [h |-> arg.h, g |-> g]), "connect", [h |-> arg.h])
        /\ \A q \in Regs :
             /\ notify'[q] # Free <=> notify[q] # Free
             /\ Allocated(q) =>
                  /\ notify'[q].Protocol = notify[q].Protocol
                  /\ notify[q].Protocol # g => Unseen(q)' = Unseen(q)
  BY ReinstallUnseen
<1>3. KeptCalls(stack, stack')
  BY <1>1, <1>2, BecomeKept DEF Listening, IInv
<1>4. CASE Allocated(r) /\ notify[r].Protocol = g
  <2> DEFINE f == Frame("reinstalled", Top.tpl, [h |-> arg.h, g |-> g])
             s == Append(Pop(stack), f)
  <2>1. f.pc = "reinstalled" /\ f.arg.g = g
    BY DEF Frame
  <2>2. Pop(stack) \in Seq(Frames)
    <3>1. stack \in Seq(Frames) /\ Len(stack) >= 1
      BY TopFacts DEF IInv
    <3> QED BY <3>1, PopSeq
  <2>3. \E c : stack' = Append(s, c)
    BY <1>2 DEF Call, Become
  <2> HIDE DEF f
  <2>4. s \in Seq(Frames \cup {f}) /\ Len(s) \in Nat /\ Len(s) >= 1 /\ s[Len(s)] = f
    BY <2>2
  <2> HIDE DEF s
  <2>5. stack'[Len(s)] = f /\ Len(s) \in 1..Len(stack')
    BY <2>3, <2>4
  <2>6. Listens(stack', r, g) /\ notify'[r].Protocol = g
    BY <1>2, <1>4, <2>1, <2>5 DEF Listens
  <2> QED BY <2>6 DEF Heard
<1>5. CASE Allocated(r) /\ notify[r].Protocol # g
  <2>1. /\ notify[r].Protocol \in Guids
        /\ Members(Unseen(r)) \subseteq Members(Protocols[notify[r].Protocol])
    BY <1>5, QueueFacts
  <2>2. p \notin Members(Unseen(r))
    BY <1>2, <1>5, <2>1, ListFacts
  <2>3. before'[r] = before[r] \ {p} /\ Unseen(r)' = Unseen(r) /\ notify'[r].Protocol = notify[r].Protocol
    BY <1>2, <1>5
  <2> QED BY <1>1, <1>3, <1>5, <2>2, <2>3, HeardOn DEF Allocated
<1>6. CASE ~Allocated(r)
  BY <1>2, <1>6 DEF Heard, Allocated
<1> QED BY <1>4, <1>5, <1>6

\* A frame that returns is not the one that another registration waits for.
LEMMA OthersListen ==
  ASSUME IInv, Top.pc # "app", NEW r, NEW g, Listens(stack, r, g),
         ~(Top.pc = "notify" /\ arg.reg = r), ~(Top.pc = "reinstalled" /\ arg.g = g)
  PROVE  Listens(Pop(stack), r, g) /\ \A f : Listens(Append(Pop(stack), f), r, g)
<1>1. /\ Len(Pop(stack)) = Len(stack) - 1 /\ Len(stack) \in Nat /\ Pop(stack) \in Seq(Frames)
      /\ \A k \in 1..(Len(stack) - 1) : Pop(stack)[k] = stack[k]
  <2>1. stack \in Seq(Frames) /\ Len(stack) >= 1 /\ Len(stack) \in Nat
    BY TopFacts DEF IInv
  <2> QED BY <2>1, PopSeq
<1>2. PICK k \in 1..Len(stack) : \/ stack[k].pc = "notify" /\ stack[k].arg.reg = r
                                 \/ stack[k].pc = "reinstalled" /\ stack[k].arg.g = g
  BY DEF Listens
<1>3. k \in 1..(Len(stack) - 1)
  BY <1>1, <1>2 DEF Top, arg
<1>4. Listens(Pop(stack), r, g)
  BY <1>1, <1>2, <1>3 DEF Listens
<1> QED BY <1>1, <1>4, KeptPush, KeptListens

LEMMA ReinstalledHeard ==
  ASSUME IInv, Reinstalled, NEW r \in Regs, Heard(r)
  PROVE  Heard(r)'
<1>1. /\ Top.pc = "reinstalled" /\ signalled' = NotifyProtocolEntry(arg.g) /\ stack' = Pop(stack)
      /\ UNCHANGED <<notify, before, Protocols>>
  BY DEF Reinstalled, Return, At, entries
<1>2. Unseen(r)' = Unseen(r)
  BY <1>1, SameUnseen
<1>3. signalled \subseteq signalled' /\ (Allocated(r) /\ notify[r].Protocol = arg.g => r \in signalled')
  BY <1>1 DEF NotifyProtocolEntry
<1>4. ASSUME Listens(stack, r, notify[r].Protocol), notify[r].Protocol # arg.g
      PROVE  Listens(stack', r, notify[r].Protocol)
  BY <1>1, <1>4, OthersListen
<1> QED BY <1>1, <1>2, <1>3, <1>4 DEF Heard, Allocated

LEMMA NotifyTookAllHeard ==
  ASSUME IInv, NotifyTookAll, NEW r \in Regs, Heard(r)
  PROVE  Heard(r)'
<1>1. /\ Top.pc = "notify" /\ Unseen(arg.reg) = <<>> /\ \E f : stack' = Append(Pop(stack), f)
      /\ UNCHANGED <<notify, before, Protocols, signalled>>
  BY DEF NotifyTookAll, Become, At, entries, regs
<1>2. Unseen(r)' = Unseen(r)
  BY <1>1, SameUnseen
<1>3. CASE r = arg.reg
  <2>1. Members(Unseen(r)) \subseteq before[r]
    BY <1>1, <1>3 DEF Members
  <2> QED BY <1>1, <1>2, <2>1 DEF Heard
<1>4. CASE r # arg.reg
  <2>1. ASSUME Listens(stack, r, notify[r].Protocol)
        PROVE  Listens(stack', r, notify[r].Protocol)
    BY <1>1, <1>4, <2>1, OthersListen
  <2> QED BY <1>1, <1>2, <2>1 DEF Heard, Allocated
<1> QED BY <1>3, <1>4

LEMMA HeardStep ==
  ASSUME IInv, NoLostNotification, [Next]_vars
  PROVE  NoLostNotification'
<1>1. \A r \in Regs : Heard(r)
  BY AllHeard
<1>2. ASSUME NEW r \in Regs PROVE Heard(r)'
  <2>1. CASE Quiet
    BY <1>1, <2>1, QuietHeard
  <2>2. CASE Changes
    BY <1>1, <2>2, InstallHeard, UninstallHeard, ReinstallHeard, ReinstalledHeard, NotifyTookAllHeard,
       RegistersHeard DEF Changes
  <2> QED BY <2>1, <2>2, EveryStep
<1> QED BY <1>2 DEF NoLostNotification, Heard, Listens

\* No install is missed, whatever is installed, removed and registered by notification
\* functions in the middle of a service: while a registration has not returned an
\* interface that came after it, its event is queued, its notification function still
\* looks, or the reinstall that moved the interface has yet to signal it.
THEOREM NoNotificationIsLost ==
  ASSUME NothingRemovedInUse
  PROVE  Spec => []NoLostNotification
<1>1. Init => NoLostNotification
  BY DEF Init, NoLostNotification, Allocated
<1>2. IInv /\ NoLostNotification /\ [Next]_vars => NoLostNotification'
  BY HeardStep
<1> QED BY <1>1, <1>2, CallsInvariant, PTL DEF Spec
-----------------------------------------------------------------------------
(* The Positions implement queues.                                         *)

\* What NotifyQueue calls watched and unseen.
Watched == [r \in Regs |-> IF Allocated(r) THEN notify[r].Protocol ELSE NULL]
Queue   == [r \in Regs |-> IF Allocated(r) THEN Unseen(r) ELSE <<>>]

LEMMA QueueNow ==
  ASSUME NEW r \in Regs
  PROVE  /\ Watched[r] = (IF Allocated(r) THEN notify[r].Protocol ELSE NULL)
         /\ Queue[r] = (IF Allocated(r) THEN Unseen(r) ELSE <<>>)
BY DEF Watched, Queue

LEMMA WatchedFacts ==
  ASSUME IInv, NEW r \in Regs
  PROVE  /\ Watched[r] \in Guids <=> Allocated(r)
         /\ Watched[r] = NULL <=> ~Allocated(r)
         /\ NULL \notin Guids
<1>1. NULL \notin Guids
  BY StructureAssumption DEF Structures
<1> QED BY <1>1, QueueNow, QueueFacts

\* A step that leaves each registration's protocol and queue alone.
LEMMA QueueSame ==
  ASSUME Protocols' = Protocols,
         \A r \in Regs : /\ notify'[r] # Free <=> notify[r] # Free
                         /\ Allocated(r) => notify'[r].Protocol = notify[r].Protocol /\ Unseen(r)' = Unseen(r)
  PROVE  UNCHANGED Queues!qvars
<1>1. Watched' = Watched /\ Queue' = Queue
  BY DEF Watched, Queue, Allocated
<1> QED BY <1>1 DEF Queues!qvars, Watched, Queue

LEMMA SameOperators ==
  /\ \A list : Queues!Members(list) = Members(list)
  /\ \A list, p : Queues!InsertTailList(list, p) = InsertTailList(list, p)
  /\ \A list, p : Queues!RemoveEntryList(list, p) = RemoveEntryList(list, p)
<1>1. \A list : Queues!Members(list) = Members(list)
  BY DEF Queues!Members, Members
<1>2. \A list, k : Queues!RemoveAtIndex(list, k) = RemoveAtIndex(list, k)
  BY DEF Queues!RemoveAtIndex, RemoveAtIndex
<1> QED BY <1>1, <1>2 DEF Queues!InsertTailList, InsertTailList, Queues!RemoveEntryList, RemoveEntryList

LEMMA InstallArrives ==
  ASSUME IInv, Install
  PROVE  \E g \in Guids, p \in Prots : Queues!Arrive(g, p)
<1>1. arg.g \in Guids /\ UNCHANGED notify
  BY InstallUnseen
<1>2. PICK p \in Prots :
        /\ \A g \in Guids : p \notin Members(Protocols[g])
        /\ Protocols' = [Protocols EXCEPT ![arg.g] = InsertTailList(@, p)]
        /\ \A r \in Regs : Allocated(r) =>
             Unseen(r)' = IF notify[r].Protocol = arg.g THEN InsertTailList(Unseen(r), p) ELSE Unseen(r)
  BY InstallUnseen
<1>3. PICK g \in Guids : g = arg.g
  BY <1>1
<1>4. Watched' = Watched
  BY <1>1 DEF Watched, Allocated
<1>5. Queue' = [r \in Regs |-> IF Watched[r] = g THEN InsertTailList(Queue[r], p) ELSE Queue[r]]
  <2>1. ASSUME NEW r \in Regs
        PROVE  (IF notify'[r] # Free THEN Unseen(r)' ELSE <<>>)
                 = IF Watched[r] = g THEN InsertTailList(Queue[r], p) ELSE Queue[r]
    BY <1>1, <1>2, <1>3, QueueNow, WatchedFacts DEF Allocated
  <2> QED BY <2>1 DEF Queue, Allocated
<1>6. Queues!Arrive(g, p)
  BY <1>2, <1>3, <1>4, <1>5, SameOperators DEF Queues!Arrive, Queues!Change, Watched, Queue
<1> QED BY <1>6

LEMMA UninstallLeaves ==
  ASSUME IInv, Uninstall
  PROVE  \E g \in Guids, p \in Prots : Queues!Leave(g, p)
<1>1. PICK p \in Installed, g \in Guids :
        /\ p \in Members(Protocols[g])
        /\ Protocols' = [Protocols EXCEPT ![g] = RemoveEntryList(@, p)]
        /\ \A r \in Regs :
             /\ notify'[r] # Free <=> notify[r] # Free
             /\ Allocated(r) =>
                  /\ notify'[r].Protocol = notify[r].Protocol
                  /\ Unseen(r)' = IF notify[r].Protocol = g THEN RemoveEntryList(Unseen(r), p) ELSE Unseen(r)
  BY UninstallUnseen
<1>2. Watched' = Watched
  BY <1>1 DEF Watched, Allocated
<1>3. Queue' = [r \in Regs |-> IF Watched[r] = g THEN RemoveEntryList(Queue[r], p) ELSE Queue[r]]
  <2>1. ASSUME NEW r \in Regs
        PROVE  (IF notify'[r] # Free THEN Unseen(r)' ELSE <<>>)
                 = IF Watched[r] = g THEN RemoveEntryList(Queue[r], p) ELSE Queue[r]
    BY <1>1, QueueNow, WatchedFacts DEF Allocated
  <2> QED BY <2>1 DEF Queue, Allocated
<1>4. Queues!Leave(g, p)
  BY <1>1, <1>2, <1>3, SameOperators DEF Queues!Leave, Queues!Change, Watched, Queue
<1> QED BY <1>4 DEF Installed

LEMMA ReinstallMoves ==
  ASSUME IInv, Reinstall
  PROVE  \E g \in Guids, p \in Prots : Queues!Move(g, p)
<1>1. PICK p \in Installed, g \in Guids :
        /\ p \in Members(Protocols[g])
        /\ Protocols' = [Protocols EXCEPT ![g] = InsertTailList(RemoveEntryList(@, p), p)]
        /\ \A r \in Regs :
             /\ notify'[r] # Free <=> notify[r] # Free
             /\ Allocated(r) =>
                  /\ notify'[r].Protocol = notify[r].Protocol
                  /\ Unseen(r)' = IF notify[r].Protocol = g
                                  THEN InsertTailList(RemoveEntryList(Unseen(r), p), p) ELSE Unseen(r)
  BY ReinstallUnseen
<1>2. Watched' = Watched
  BY <1>1 DEF Watched, Allocated
<1>3. Queue' = [r \in Regs |-> IF Watched[r] = g THEN InsertTailList(RemoveEntryList(Queue[r], p), p) ELSE Queue[r]]
  <2>1. ASSUME NEW r \in Regs
        PROVE  (IF notify'[r] # Free THEN Unseen(r)' ELSE <<>>)
                 = IF Watched[r] = g THEN InsertTailList(RemoveEntryList(Queue[r], p), p) ELSE Queue[r]
    BY <1>1, QueueNow, WatchedFacts DEF Allocated
  <2> QED BY <2>1 DEF Queue, Allocated
<1>4. Queues!Move(g, p)
  BY <1>1, <1>2, <1>3, SameOperators DEF Queues!Move, Queues!Change, Watched, Queue
<1> QED BY <1>4 DEF Installed

LEMMA RegistersQueues ==
  ASSUME IInv, NEW r \in Regs, Registers(r)
  PROVE  \/ UNCHANGED Queues!qvars
         \/ Queues!Unregister(r) \/ Queues!Return(r) \/ \E g \in Guids : Queues!Register(r, g)
<1>1. CASE \E g \in Guids : RegisterProtocolNotify(r, g)
  <2>1. PICK g \in Guids : RegisterProtocolNotify(r, g)
    BY <1>1
  <2>2. /\ Protocols' = Protocols /\ notify[r] = Free /\ notify'[r] # Free /\ notify'[r].Protocol = g
        /\ Unseen(r)' = Protocols[g] /\ \A q \in Regs : q # r => notify'[q] = notify[q]
    BY <2>1, RegisterUnseen
  <2>3. \A q \in Regs : q # r => Unseen(q)' = Unseen(q)
    BY <2>2, SameUnseen
  <2>4. Watched' = [Watched EXCEPT ![r] = g]
    BY <2>2 DEF Watched, Allocated
  <2>5. Queue' = [Queue EXCEPT ![r] = Protocols[g]]
    BY <2>2, <2>3 DEF Queue, Allocated
  <2>6. Watched[r] = NULL
    BY <2>2, WatchedFacts DEF Allocated
  <2>7. Queues!Register(r, g)
    BY <2>2, <2>4, <2>5, <2>6 DEF Queues!Register, Watched, Queue
  <2> QED BY <2>7
<1>2. CASE UnregisterProtocolNotify(r)
  <2>1. Protocols' = Protocols /\ Allocated(r) /\ notify' = [notify EXCEPT ![r] = Free]
    BY <1>2 DEF UnregisterProtocolNotify, entries
  <2>2. notify'[r] = Free /\ \A q \in Regs : q # r => notify'[q] = notify[q]
    BY <2>1, RegsType
  <2>3. \A q \in Regs : q # r => Unseen(q)' = Unseen(q)
    BY <2>1, <2>2, SameUnseen
  <2>4. Watched' = [Watched EXCEPT ![r] = NULL]
    BY <2>2 DEF Watched, Allocated
  <2>5. Queue' = [Queue EXCEPT ![r] = <<>>]
    BY <2>2, <2>3 DEF Queue, Allocated
  <2>6. Watched[r] # NULL
    BY <2>1, WatchedFacts
  <2>7. Queues!Unregister(r)
    BY <2>1, <2>4, <2>5, <2>6 DEF Queues!Unregister, Watched, Queue
  <2> QED BY <2>7
<1>3. CASE Notified(r)
  <2>1. UNCHANGED <<notify, Protocols>>
    BY <1>3 DEF Notified, entries
  <2>2. \A q \in Regs : Unseen(q)' = Unseen(q)
    BY <2>1, SameUnseen
  <2> QED BY <2>1, <2>2, QueueSame
<1>4. CASE Allocated(r) /\ Advance(r)
  <2>1. /\ Protocols' = Protocols /\ Unseen(r) # <<>>
        /\ notify'[r] # Free /\ notify'[r].Protocol = notify[r].Protocol /\ Unseen(r)' = Tail(Unseen(r))
        /\ \A q \in Regs : q # r => notify'[q] = notify[q]
    BY <1>4, AdvanceUnseen
  <2>2. \A q \in Regs : q # r => Unseen(q)' = Unseen(q)
    BY <2>1, SameUnseen
  <2>3. Watched' = Watched
    BY <1>4, <2>1 DEF Watched, Allocated
  <2>4. Queue' = [Queue EXCEPT ![r] = Tail(@)]
    BY <1>4, <2>1, <2>2 DEF Queue, Allocated
  <2>5. Queue[r] # <<>>
    BY <1>4, <2>1, QueueNow
  <2>6. Queues!Return(r)
    BY <2>1, <2>3, <2>4, <2>5 DEF Queues!Return, Watched, Queue
  <2> QED BY <2>6
<1> QED BY <1>1, <1>2, <1>3, <1>4 DEF Registers

\* LocateHandle by registration and LocateProtocol return what a queue per registration
\* would: whatever was installed, removed or moved, with any registration at any
\* Position, nothing is skipped, repeated or returned out of order.
THEOREM PositionsAreQueues ==
  ASSUME NothingRemovedInUse
  PROVE  Spec => QueueSpec
<1>1. ASSUME Init PROVE Queues!Init
  BY <1>1 DEF Init, Queues!Init, Allocated
<1>2. ASSUME IInv, [Next]_vars PROVE [Queues!Next]_(Queues!qvars)
  <2>1. CASE Quiet
    <3>1. UNCHANGED <<notify, Protocols>>
      BY <2>1 DEF Quiet, regs, entries
    <3>2. \A q \in Regs : Unseen(q)' = Unseen(q)
      BY <3>1, SameUnseen
    <3> QED BY <3>1, <3>2, QueueSame
  <2>2. CASE Reinstalled \/ NotifyTookAll
    <3>1. UNCHANGED <<notify, Protocols>>
      BY <2>2 DEF Reinstalled, NotifyTookAll, regs, entries
    <3>2. \A q \in Regs : Unseen(q)' = Unseen(q)
      BY <3>1, SameUnseen
    <3> QED BY <3>1, <3>2, QueueSame
  <2>3. CASE Install
    BY <1>2, <2>3, InstallArrives DEF Queues!Next
  <2>4. CASE Uninstall
    BY <1>2, <2>4, UninstallLeaves DEF Queues!Next
  <2>5. CASE Reinstall
    BY <1>2, <2>5, ReinstallMoves DEF Queues!Next
  <2>6. CASE \E r \in Regs : Registers(r)
    BY <1>2, <2>6, RegistersQueues DEF Queues!Next
  <2> QED BY <1>2, <2>1, <2>2, <2>3, <2>4, <2>5, <2>6, EveryStep DEF Changes
<1>3. Spec => []IInv
  BY CallsInvariant
<1> QED BY <1>1, <1>2, <1>3, PTL DEF Spec, QueueSpec, Queues!Spec

-----------------------------------------------------------------------------
(* EXCLUSIVE ACCESS.  Exclusive access is exclusive, whatever is opened,   *)
(* closed and stopped in the middle of a request for it, as long as no     *)
(* driver code and no notification function requests it meanwhile.         *)

NobodyNestsExclusive == \A attr \in NestedAttributes : "EXCLUSIVE" \notin attr

\* Nobody shares an interface that is open for exclusive access.
Shares(records) ==
  \A o, q \in records :
    o # q => /\ ~("BY_DRIVER" \in o.attr /\ "BY_DRIVER" \in q.attr)
             /\ ~("EXCLUSIVE" \in o.attr /\ {"EXCLUSIVE", "BY_DRIVER"} \cap q.attr # {})

\* The application requests it, one interface at a time, and while the drivers are
\* stopped nobody else has it.
Requests == Opens \cup {"app"}
RequestsSound(s, records) ==
  /\ \A k \in 1..Len(s) : s[k].pc = "app" => k = 1
  /\ \A k \in 1..Len(s) : s[k].pc \in Opens =>
       k = 2 /\ \A o \in records[s[k].arg.p] : "EXCLUSIVE" \notin o.attr

AccessInv == (\A p \in Prots : Shares(OpenList[p])) /\ RequestsSound(stack, OpenList)
-----------------------------------------------------------------------------
(* What a step does to the requests in progress and to the records.        *)

\* The requests of t are requests of s.
OldRequests(s, t) ==
  \A k \in 1..Len(t) : t[k].pc \in Requests =>
    k <= Len(s) /\ (s[k].pc \in Opens <=> t[k].pc \in Opens) /\ (s[k].pc = "app" <=> t[k].pc = "app")
    /\ (t[k].pc \in Opens => s[k].arg.p = t[k].arg.p)

\* Records were closed, and added that only use the interface or are for a child.
Plainer(old, new) ==
  \A p \in Prots : \A o \in new[p] : o \in old[p] \/ ("BY_DRIVER" \notin o.attr /\ "EXCLUSIVE" \notin o.attr)

LEMMA PlainerShares ==
  ASSUME NEW old, NEW new, Plainer(old, new), NEW p \in Prots, Shares(old[p])
  PROVE  Shares(new[p])
BY DEF Plainer, Shares

LEMMA OldSound ==
  ASSUME NEW s, NEW t, Len(s) \in Nat, NEW old, NEW new, Plainer(old, new), RequestsSound(s, old), OldRequests(s, t),
         \A k \in 1..Len(s) : s[k].pc \in Opens => s[k].arg.p \in Prots
  PROVE  RequestsSound(t, new)
<1>1. ASSUME NEW k \in 1..Len(t), t[k].pc = "app"
      PROVE  k = 1
  <2>1. k \in 1..Len(s) /\ s[k].pc = "app"
    BY <1>1 DEF OldRequests, Requests
  <2> QED BY <2>1 DEF RequestsSound
<1>2. ASSUME NEW k \in 1..Len(t), t[k].pc \in Opens
      PROVE  k = 2 /\ \A o \in new[t[k].arg.p] : "EXCLUSIVE" \notin o.attr
  <2>1. k \in 1..Len(s) /\ s[k].pc \in Opens /\ s[k].arg.p = t[k].arg.p
    BY <1>2 DEF OldRequests, Requests
  <2>2. s[k].arg.p \in Prots /\ k = 2 /\ \A o \in old[s[k].arg.p] : "EXCLUSIVE" \notin o.attr
    BY <2>1 DEF RequestsSound
  <2> QED BY <2>1, <2>2 DEF Plainer
<1> QED BY <1>1, <1>2 DEF RequestsSound

LEMMA OldOn ==
  ASSUME NEW s, NEW t, NEW u, OldRequests(s, t), OldRequests(t, u), Len(s) \in Nat, Len(t) \in Nat
  PROVE  OldRequests(s, u)
<1>1. ASSUME NEW k \in 1..Len(u), u[k].pc \in Requests
      PROVE  /\ k <= Len(s) /\ (s[k].pc \in Opens <=> u[k].pc \in Opens) /\ (s[k].pc = "app" <=> u[k].pc = "app")
             /\ (u[k].pc \in Opens => s[k].arg.p = u[k].arg.p)
  <2>1. k \in 1..Len(t) /\ t[k].pc \in Requests
    BY <1>1 DEF OldRequests, Requests
  <2> QED BY <1>1, <2>1 DEF OldRequests
<1> QED BY <1>1 DEF OldRequests

LEMMA OldPush ==
  ASSUME NEW S, NEW s \in Seq(S), NEW f, f.pc \notin Requests
  PROVE  OldRequests(s, Append(s, f))
<1>1. Len(Append(s, f)) = Len(s) + 1 /\ Append(s, f)[Len(s) + 1] = f /\ Len(s) \in Nat
      /\ \A k \in 1..Len(s) : Append(s, f)[k] = s[k]
  OBVIOUS
<1>2. \A k \in 1..(Len(s) + 1) : k = Len(s) + 1 \/ k \in 1..Len(s)
  BY <1>1
<1> QED BY <1>1, <1>2 DEF OldRequests

LEMMA OldPop ==
  ASSUME NEW S, NEW s \in Seq(S), Len(s) >= 1
  PROVE  OldRequests(s, Pop(s)) /\ Pop(s) \in Seq(S) /\ Len(Pop(s)) = Len(s) - 1
<1>1. Pop(s) \in Seq(S) /\ Len(Pop(s)) = Len(s) - 1 /\ \A k \in 1..(Len(s) - 1) : Pop(s)[k] = s[k]
  BY PopSeq
<1> QED BY <1>1 DEF OldRequests

LEMMA OldSame == ASSUME NEW s, Len(s) \in Nat PROVE OldRequests(s, s)
BY DEF OldRequests

\* What calls, returns and jumps do to them.
LEMMA StackOld ==
  ASSUME CallsSound
  PROVE  /\ OldRequests(stack, stack)
         /\ \A f : f.pc \notin Requests => OldRequests(stack, Append(stack, f))
         /\ \A f, g : f.pc \notin Requests /\ g.pc \notin Requests => OldRequests(stack, Append(Append(stack, f), g))
         /\ OldRequests(stack, Pop(stack))
         /\ \A f : f.pc \notin Requests \/ (f.pc \in Opens /\ Top.pc \in Opens /\ f.arg.p = arg.p) =>
              /\ OldRequests(stack, Append(Pop(stack), f))
              /\ \A g : g.pc \notin Requests => OldRequests(stack, Append(Append(Pop(stack), f), g))
<1>1. stack \in Seq(Frames) /\ Len(stack) >= 1 /\ Len(stack) \in Nat
  BY TopFacts
<1>2. ASSUME NEW f, f.pc \notin Requests
      PROVE  OldRequests(stack, Append(stack, f)) /\ Append(stack, f) \in Seq(Frames \cup {f})
             /\ Len(Append(stack, f)) \in Nat
  BY <1>1, <1>2, OldPush
<1>3. ASSUME NEW f, NEW g, f.pc \notin Requests, g.pc \notin Requests
      PROVE  OldRequests(stack, Append(Append(stack, f), g))
  <2>1. OldRequests(Append(stack, f), Append(Append(stack, f), g))
    BY <1>2, <1>3, OldPush
  <2> QED BY <1>1, <1>2, <1>3, <2>1, OldOn
<1>4. OldRequests(stack, Pop(stack)) /\ Pop(stack) \in Seq(Frames) /\ Len(Pop(stack)) = Len(stack) - 1
      /\ Len(Pop(stack)) \in Nat
  BY <1>1, OldPop
<1>5. ASSUME NEW f, f.pc \notin Requests \/ (f.pc \in Opens /\ Top.pc \in Opens /\ f.arg.p = arg.p)
      PROVE  /\ OldRequests(stack, Append(Pop(stack), f))
             /\ \A g : g.pc \notin Requests => OldRequests(stack, Append(Append(Pop(stack), f), g))
  <2> DEFINE t == Append(Pop(stack), f)
  <2>1. t \in Seq(Frames \cup {f}) /\ Len(t) = Len(stack) /\ t[Len(stack)] = f
        /\ \A k \in 1..(Len(stack) - 1) : t[k] = stack[k]
    <3>1. \A k \in 1..(Len(stack) - 1) : Pop(stack)[k] = stack[k]
      BY <1>1, PopSeq
    <3> QED BY <1>1, <1>4, <3>1
  <2> HIDE DEF t
  <2>2. \A k \in 1..Len(t) : k = Len(stack) \/ k \in 1..(Len(stack) - 1)
    BY <1>1, <2>1
  <2>3. \A pc \in Opens : pc # "app"
    BY DEF Opens
  <2>4. OldRequests(stack, t)
    <3>1. ASSUME NEW k \in 1..Len(t), t[k].pc \in Requests
          PROVE  /\ k <= Len(stack) /\ (stack[k].pc \in Opens <=> t[k].pc \in Opens)
                 /\ (stack[k].pc = "app" <=> t[k].pc = "app")
                 /\ (t[k].pc \in Opens => stack[k].arg.p = t[k].arg.p)
      <4>1. CASE k \in 1..(Len(stack) - 1)
        BY <1>1, <2>1, <4>1
      <4>2. CASE k = Len(stack)
        <5>1. f.pc \in Opens /\ Top.pc \in Opens /\ f.arg.p = arg.p
          BY <1>5, <2>1, <3>1, <4>2
        <5> QED BY <1>1, <2>1, <2>3, <4>2, <5>1 DEF Top, arg
      <4> QED BY <2>2, <4>1, <4>2
    <3> QED BY <3>1 DEF OldRequests
  <2>5. ASSUME NEW g, g.pc \notin Requests PROVE OldRequests(stack, Append(t, g))
    <3>1. OldRequests(t, Append(t, g)) /\ Len(t) \in Nat
      BY <1>1, <2>1, <2>5, OldPush
    <3> QED BY <1>1, <2>4, <3>1, OldOn
  <2> QED BY <2>4, <2>5 DEF t
<1> QED BY <1>1, <1>2, <1>3, <1>4, <1>5, OldSame

Steady == OldRequests(stack, stack') /\ Plainer(OpenList, OpenList')

LEMMA SteadyKept ==
  ASSUME CallsSound, AccessInv, Steady
  PROVE  AccessInv'
<1>1. Len(stack) \in Nat /\ \A k \in 1..Len(stack) : stack[k].pc \in Opens => stack[k].arg.p \in Prots
  <2>1. stack \in Seq(Frames)
    BY TopFacts
  <2>2. \A k \in 1..Len(stack) : stack[k] \in Frames
    BY <2>1
  <2> QED BY <2>1, <2>2, FrameArgs
<1>2. RequestsSound(stack', OpenList')
  BY <1>1, OldSound DEF AccessInv, Steady
<1>3. \A p \in Prots : Shares(OpenList'[p])
  BY PlainerShares DEF AccessInv, Steady
<1> QED BY <1>2, <1>3 DEF AccessInv

LEMMA SameRecords == OpenList' = OpenList => Plainer(OpenList, OpenList')
BY DEF Plainer

LEMMA HandleProtocolPlainer ==
  ASSUME TypeOK, NEW p, HandleProtocol(p)
  PROVE  Plainer(OpenList, OpenList')
<1>1. OpenList' = [OpenList EXCEPT ![p] = @ \cup {[agent |-> gDxeCoreImageHandle, ctrl |-> NULL, attr |-> {"USE"}]}]
  BY DEF HandleProtocol, Record
<1>2. OpenList \in [Prots -> SUBSET OpenData]
  BY DEF TypeOK
<1> QED BY <1>1, <1>2 DEF Plainer

\* A call returns, goes on at another label, and calls.
LEMMA ReturnOld ==
  ASSUME CallsSound, NEW status, Return(status)
  PROVE  OldRequests(stack, stack')
BY StackOld DEF Return

LEMMA BecomeOld ==
  ASSUME CallsSound, NEW pc, NEW a, pc \notin Requests \/ (pc \in Opens /\ Top.pc \in Opens /\ a.p = arg.p)
  PROVE  /\ OldRequests(stack, Become(pc, a))
         /\ \A pc2, b : pc2 \notin Requests => OldRequests(stack, Call(Become(pc, a), pc2, b))
<1> DEFINE f == Frame(pc, Top.tpl, a)
<1>1. f.pc = pc /\ f.arg = a
  BY DEF Frame
<1>2. \A pc2, tpl, b : Frame(pc2, tpl, b).pc = pc2
  BY DEF Frame
<1>3. Become(pc, a) = Append(Pop(stack), f)
  BY DEF Become
<1> HIDE DEF f
<1>4. f.pc \notin Requests \/ (f.pc \in Opens /\ Top.pc \in Opens /\ f.arg.p = arg.p)
  BY <1>1
<1>5. OldRequests(stack, Append(Pop(stack), f)) /\ \A g : g.pc \notin Requests => OldRequests(stack, Append(Append(Pop(stack), f), g))
  BY <1>4, StackOld
<1> QED BY <1>2, <1>3, <1>5 DEF Call

LEMMA CallOld ==
  ASSUME CallsSound, NEW pc, pc \notin Requests, NEW a
  PROVE  /\ OldRequests(stack, Call(stack, pc, a))
         /\ \A pc2, b : pc2 \notin Requests => OldRequests(stack, Call(Call(stack, pc, a), pc2, b))
<1>1. \A pc2, tpl, b : Frame(pc2, tpl, b).pc = pc2
  BY DEF Frame
<1> QED BY <1>1, StackOld DEF Call

LEMMA DisconnectSteady ==
  ASSUME IInv, DisconnectUser \/ DisconnectAgain \/ RemoveRefused
  PROVE  Steady
<1>1. CallsSound /\ OpenList \in [Prots -> SUBSET OpenData]
  BY DEF IInv, TypeOK
<1>2. CASE DisconnectUser
  <2>1. PICK b : stack' = Call(Become(Stopped[Top.pc], arg), "disconnect", b)
    BY <1>2 DEF DisconnectUser
  <2>2. Top.pc \in Locked /\ OpenList' = OpenList
    BY <1>2 DEF DisconnectUser
  <2>3. Stopped[Top.pc] \notin Requests \/ (Stopped[Top.pc] \in Opens /\ Top.pc \in Opens)
    BY <2>2 DEF Locked, Stopped, Requests, Opens
  <2>4. "disconnect" \notin Requests
    BY DEF Requests, Opens
  <2>5. OldRequests(stack, stack')
    BY <1>1, <2>1, <2>3, <2>4, BecomeOld
  <2> QED BY <2>2, <2>5, SameRecords DEF Steady
<1>3. CASE DisconnectAgain
  <2>1. OpenList' = OpenList /\
        \E pc \in Locked : /\ Top.pc = Stopped[pc]
                           /\ \/ stack' = Become(pc, arg)
                              \/ \E b : stack' = Call(Become("refused", arg), "connect", b)
                              \/ Return("ERROR")
    BY <1>3 DEF DisconnectAgain, At
  <2>2. PICK pc \in Locked : /\ Top.pc = Stopped[pc]
                             /\ \/ stack' = Become(pc, arg)
                                \/ \E b : stack' = Call(Become("refused", arg), "connect", b)
                                \/ Return("ERROR")
    BY <2>1
  <2>3. pc \notin Requests \/ (pc \in Opens /\ Top.pc \in Opens)
    BY <2>2 DEF Locked, Stopped, Requests, Opens
  <2>4. "refused" \notin Requests /\ "connect" \notin Requests
    BY DEF Requests, Opens
  <2>5. OldRequests(stack, Become(pc, arg))
    BY <1>1, <2>3, BecomeOld
  <2>6. \A b : OldRequests(stack, Call(Become("refused", arg), "connect", b))
    BY <1>1, <2>4, BecomeOld
  <2>7. OldRequests(stack, stack')
    BY <1>1, <2>2, <2>5, <2>6, ReturnOld
  <2> QED BY <2>1, <2>7, SameRecords DEF Steady
<1>4. CASE RemoveRefused
  <2>1. /\ stack' = Call(Become("refused", arg), "connect", [h |-> arg.h])
        /\ OpenList' = [OpenList EXCEPT ![arg.p] = Kept(arg.p)]
    BY <1>4 DEF RemoveRefused
  <2>2. "refused" \notin Requests /\ "connect" \notin Requests
    BY DEF Requests, Opens
  <2>3. OldRequests(stack, stack')
    BY <1>1, <2>1, <2>2, BecomeOld
  <2>4. Plainer(OpenList, OpenList')
    BY <1>1, <2>1 DEF Plainer, Kept
  <2> QED BY <2>3, <2>4 DEF Steady
<1> QED BY <1>2, <1>3, <1>4

LEMMA CallInstallSteady ==
  ASSUME IInv, NEW s, OldRequests(stack, s),
         \A b : OldRequests(stack, Call(s, "install", b)),
         NEW h, NEW g, NEW i, CallInstall(s, h, g, i)
  PROVE  Steady
BY HandleProtocolPlainer, SameRecords DEF CallInstall, Steady, IInv

LEMMA CallRemoveOld ==
  ASSUME NEW s, NEW pc, OldRequests(stack, s), \A b : OldRequests(stack, Call(s, pc, b)),
         NEW h, NEW g, NEW i, NEW new, CallRemove(s, pc, h, g, i, new)
  PROVE  OldRequests(stack, stack')
BY DEF CallRemove

LEMMA MultipleSteady ==
  ASSUME IInv, \/ CheckDevicePath \/ InstallOne \/ InstallMultipleEnds \/ InstallRollback
               \/ UninstallOne \/ UninstallRollback
  PROVE  Steady
<1>1. CallsSound /\ OpenList \in [Prots -> SUBSET OpenData]
  BY DEF IInv, TypeOK
<1>2. {"installMultiple", "installOne", "installRollback", "uninstallMultiple", "uninstallRollback",
       "install", "uninstall"} \cap Requests = {}
  BY DEF Requests, Opens
<1> DEFINE Loops == {"installMultiple", "installOne", "installRollback", "uninstallMultiple", "uninstallRollback"}
<1>3. \A pc \in Loops : \A a :
                           /\ OldRequests(stack, Become(pc, a))
                           /\ \A b : OldRequests(stack, Call(Become(pc, a), "install", b))
                           /\ \A b : OldRequests(stack, Call(Become(pc, a), "uninstall", b))
  BY <1>1, <1>2, BecomeOld
<1>4. CASE CheckDevicePath
  <2>1. \E a : stack' = Become("installMultiple", a) \/ stack' = Become("installOne", a)
    BY <1>4 DEF CheckDevicePath
  <2>2. OldRequests(stack, stack')
    BY <1>3, <2>1
  <2>3. Plainer(OpenList, OpenList')
    BY <1>4 DEF CheckDevicePath, Plainer, Record
  <2> QED BY <2>2, <2>3 DEF Steady
<1>5. CASE InstallOne
  <2>1. PICK a, h, g, i : CallInstall(Become("installMultiple", a), h, g, i)
    BY <1>5 DEF InstallOne
  <2>2. /\ OldRequests(stack, Become("installMultiple", a))
        /\ \A b : OldRequests(stack, Call(Become("installMultiple", a), "install", b))
    BY <1>3
  <2> QED BY <2>1, <2>2, CallInstallSteady
<1>6. CASE UninstallRollback
  <2>1. CASE arg.m < arg.n
    <3>1. PICK a, h, g, i : CallInstall(Become("uninstallRollback", a), h, g, i)
      BY <1>6, <2>1 DEF UninstallRollback
    <3>2. /\ OldRequests(stack, Become("uninstallRollback", a))
          /\ \A b : OldRequests(stack, Call(Become("uninstallRollback", a), "install", b))
      BY <1>3
    <3> QED BY <3>1, <3>2, CallInstallSteady
  <2>2. CASE ~(arg.m < arg.n)
    <3>1. Return("ERROR") /\ OpenList' = OpenList
      BY <1>6, <2>2 DEF UninstallRollback
    <3> QED BY <1>1, <3>1, ReturnOld, SameRecords DEF Steady
  <2> QED BY <2>1, <2>2
<1>7. CASE InstallMultipleEnds \/ InstallRollback \/ UninstallOne
  <2>1. /\ OpenList' = OpenList
        /\ \/ \E status : Return(status)
           \/ \E pc \in Loops : \E a : stack' = Become(pc, a)
           \/ \E pc \in Loops : \E a, h, g, i, new : CallRemove(Become(pc, a), "uninstall", h, g, i, new)
    <3>1. CASE InstallMultipleEnds
      BY <3>1 DEF InstallMultipleEnds
    <3>2. CASE InstallRollback
      BY <3>2 DEF InstallRollback
    <3>3. CASE UninstallOne
      BY <3>3 DEF UninstallOne
    <3> QED BY <1>7, <3>1, <3>2, <3>3
  <2> HIDE DEF Loops
  <2>2. \A pc \in Loops : \A a, h, g, i, new :
          CallRemove(Become(pc, a), "uninstall", h, g, i, new) => OldRequests(stack, stack')
    BY <1>3, CallRemoveOld
  <2>3. OldRequests(stack, stack')
    BY <1>1, <1>3, <2>1, <2>2, ReturnOld
  <2> QED BY <2>1, <2>3, SameRecords DEF Steady
<1> QED BY <1>4, <1>5, <1>6, <1>7

LEMMA ControllerSteady ==
  ASSUME IInv, DisconnectController \/ ConnectController \/ DriverReturns \/ CallbackReturns
  PROVE  Steady
<1>1. CallsSound
  BY DEF IInv
<1>2. {"stopChildren", "stop", "driver"} \cap Requests = {}
  BY DEF Requests, Opens
<1>3. CASE DisconnectController
  <2>1. OpenList' = OpenList /\ \/ \E status : Return(status)
                                \/ \E pc \in {"stopChildren", "stop"} : \E a : stack' = Call(Become(pc, a), "driver", NULL)
    BY <1>3 DEF DisconnectController, CallDriver
  <2>2. \A pc \in {"stopChildren", "stop"} : \A a : OldRequests(stack, Call(Become(pc, a), "driver", NULL))
    BY <1>1, <1>2, BecomeOld
  <2>3. OldRequests(stack, stack')
    BY <1>1, <2>1, <2>2, ReturnOld
  <2> QED BY <2>1, <2>3, SameRecords DEF Steady
<1>4. CASE ConnectController
  <2>1. OpenList' = OpenList /\ (Return("ERROR") \/ stack' = Become("driver", NULL))
    BY <1>4 DEF ConnectController, Become
  <2>2. OldRequests(stack, Become("driver", NULL))
    BY <1>1, <1>2, BecomeOld
  <2>3. OldRequests(stack, stack')
    BY <1>1, <2>1, <2>2, ReturnOld
  <2> QED BY <2>1, <2>3, SameRecords DEF Steady
<1>5. CASE DriverReturns \/ CallbackReturns
  <2>1. OpenList' = OpenList /\ stack' = Pop(stack)
    BY <1>5 DEF DriverReturns, CallbackReturns, Return
  <2> QED BY <1>1, <2>1, StackOld, SameRecords DEF Steady
<1> QED BY <1>3, <1>4, <1>5

LEMMA OtherSteady ==
  ASSUME IInv, \/ InstallFails \/ Refused \/ Reinstalled \/ LocateAgain \/ ConnectHandlesByKey \/ ConnectNext
               \/ NotifyTookAll
  PROVE  Steady
<1>1. CallsSound
  BY DEF IInv
<1>2. {"connectByKey", "connect", "callback"} \cap Requests = {}
  BY DEF Requests, Opens
<1>3. /\ OpenList' = OpenList
      /\ \/ \E status : Return(status)
         \/ \E pc \in {"connectByKey", "callback"} : \E a : stack' = Become(pc, a)
         \/ \E a, b : stack' = Call(Become("connectByKey", a), "connect", b)
  BY DEF InstallFails, Refused, Reinstalled, LocateAgain, ConnectHandlesByKey, ConnectNext, NotifyTookAll
<1>4. \A pc \in {"connectByKey", "callback"} : \A a : OldRequests(stack, Become(pc, a))
  BY <1>1, <1>2, BecomeOld
<1>5. \A a, b : OldRequests(stack, Call(Become("connectByKey", a), "connect", b))
  BY <1>1, <1>2, BecomeOld
<1>6. OldRequests(stack, stack')
  BY <1>1, <1>3, <1>4, <1>5, ReturnOld
<1> QED BY <1>3, <1>6, SameRecords DEF Steady

LEMMA InstallSteady ==
  ASSUME IInv, Install
  PROVE  Steady
<1>1. Top.pc = "install" /\ OpenList' = OpenList /\ CallsSound
  BY DEF Install, At, IInv
<1>2. PICK h : ReturnHandle(h)
  BY DEF Install
<1> DEFINE s == Pop(stack)
<1>3. OldRequests(stack, s) /\ s \in Seq(Frames) /\ Len(s) >= 1 /\ Len(s) \in Nat /\ Len(stack) \in Nat
  <2>1. stack \in Seq(Frames) /\ Len(stack) >= 2 /\ Len(s) = Len(stack) - 1
    BY <1>1, TopFacts
  <2> QED BY <2>1, OldPop
<1>4. \/ stack' = s
      \/ s[Len(s)].pc = "installMultiple" /\ stack' = Append(Pop(s), [s[Len(s)] EXCEPT !.arg.h = h])
  BY <1>2 DEF ReturnHandle
<1> HIDE DEF s
<1>5. ASSUME s[Len(s)].pc = "installMultiple", stack' = Append(Pop(s), [s[Len(s)] EXCEPT !.arg.h = h])
      PROVE  OldRequests(stack, stack')
  <2>1. PICK f : f = [s[Len(s)] EXCEPT !.arg.h = h]
    OBVIOUS
  <2>2. s[Len(s)] \in Frames
    BY <1>3
  <2>3. f.pc = "installMultiple"
    BY <1>5, <2>1, <2>2, FrameArgs
  <2>4. f.pc \notin Requests
    BY <2>3 DEF Requests, Opens
  <2>5. OldRequests(s, Pop(s)) /\ Pop(s) \in Seq(Frames) /\ Len(Pop(s)) \in Nat
    BY <1>3, OldPop
  <2>6. OldRequests(Pop(s), Append(Pop(s), f))
    BY <2>4, <2>5, OldPush
  <2>7. OldRequests(s, Append(Pop(s), f))
    BY <1>3, <2>5, <2>6, OldOn
  <2> QED BY <1>3, <1>5, <2>1, <2>7, OldOn
<1>6. OldRequests(stack, stack')
  BY <1>3, <1>4, <1>5
<1> QED BY <1>1, <1>6, SameRecords DEF Steady

LEMMA RemoveSteady ==
  ASSUME IInv, Uninstall \/ Reinstall
  PROVE  Steady
<1>1. CallsSound /\ OpenList \in [Prots -> SUBSET OpenData]
  BY DEF IInv, TypeOK
<1>2. CASE Uninstall
  <2>1. stack' = Pop(stack) /\ \E p : OpenList' = [OpenList EXCEPT ![arg.p] = {}, ![p] = {}]
    BY <1>2 DEF Uninstall, Return
  <2>2. Plainer(OpenList, OpenList')
    BY <1>1, <2>1 DEF Plainer
  <2> QED BY <1>1, <2>1, <2>2, StackOld DEF Steady
<1>3. CASE Reinstall
  <2>1. /\ OpenList' = [OpenList EXCEPT ![arg.p] = {}]
        /\ \E a, b : stack' = Call(Become("reinstalled", a), "connect", b)
    BY <1>3 DEF Reinstall
  <2>2. "reinstalled" \notin Requests /\ "connect" \notin Requests
    BY DEF Requests, Opens
  <2>3. \A a, b : OldRequests(stack, Call(Become("reinstalled", a), "connect", b))
    BY <1>1, <2>2, BecomeOld
  <2>4. Plainer(OpenList, OpenList')
    BY <1>1, <2>1 DEF Plainer
  <2> QED BY <2>1, <2>3, <2>4 DEF Steady
<1> QED BY <1>2, <1>3

LEMMA ServiceSteady ==
  ASSUME IInv,
         \/ \E h, g, i : InstallProtocolInterface(h, g, i) \/ UninstallProtocolInterface(h, g, i)
         \/ \E h, g, i, new : ReinstallProtocolInterface(h, g, i, new)
         \/ \E h, g, agent, ctrl : CloseProtocol(h, g, agent, ctrl)
         \/ \E h, list : InstallMultiple(h, list) \/ UninstallMultiple(h, list)
         \/ (\E g : LocateHandleBuffer(g)) \/ StartImage \/ Callback
         \/ \E r \in Regs : Notified(r) \/ UnregisterProtocolNotify(r) \/ Advance(r)
         \/ \E r \in Regs, g \in Guids : RegisterProtocolNotify(r, g)
  PROVE  Steady
<1>1. CallsSound /\ OpenList \in [Prots -> SUBSET OpenData]
  BY DEF IInv, TypeOK
<1> DEFINE Pushed == {"install", "uninstall", "reinstall", "installMultiple", "uninstallMultiple", "locateBuffer",
                         "image", "driver", "callback", "notify"}
<1>2. Pushed \cap Requests = {}
  BY DEF Requests, Opens
<1>3. \A pc \in Pushed : \A a : /\ OldRequests(stack, Call(stack, pc, a))
                               /\ \A pc2 \in Pushed : \A b : OldRequests(stack, Call(Call(stack, pc, a), pc2, b))
  BY <1>1, <1>2, CallOld
<1>4. \A pc \in Pushed : \A tpl, a : OldRequests(stack, Append(stack, Frame(pc, tpl, a)))
  <2>1. \A pc \in Pushed : \A tpl, a : Frame(pc, tpl, a).pc \notin Requests
    BY <1>2 DEF Frame
  <2> QED BY <1>1, <2>1, StackOld
<1>5. OldRequests(stack, stack)
  BY <1>1, StackOld
<1>6. CASE \E h, g, i : InstallProtocolInterface(h, g, i) \/ UninstallProtocolInterface(h, g, i)
  <2>1. PICK h, g, i : InstallProtocolInterface(h, g, i) \/ UninstallProtocolInterface(h, g, i)
    BY <1>6
  <2>2. CASE InstallProtocolInterface(h, g, i)
    <3>1. CallInstall(stack, h, g, i)
      BY <2>2 DEF InstallProtocolInterface
    <3>2. \A b : OldRequests(stack, Call(stack, "install", b))
      BY <1>3
    <3> QED BY <1>5, <3>1, <3>2, CallInstallSteady
  <2>3. CASE UninstallProtocolInterface(h, g, i)
    <3>1. OpenList' = OpenList /\ (stack' = stack \/ \E b : stack' = Call(stack, "uninstall", b))
      BY <2>3 DEF UninstallProtocolInterface, CallRemove
    <3> QED BY <1>3, <1>5, <3>1, SameRecords DEF Steady
  <2> QED BY <2>1, <2>2, <2>3
<1>7. CASE \E h, g, i, new : ReinstallProtocolInterface(h, g, i, new)
  <2>1. OpenList' = OpenList /\ (stack' = stack \/ \E b : stack' = Call(stack, "reinstall", b))
    BY <1>7 DEF ReinstallProtocolInterface, CallRemove
  <2> QED BY <1>3, <1>5, <2>1, SameRecords DEF Steady
<1>8. CASE \E h, g, agent, ctrl : CloseProtocol(h, g, agent, ctrl)
  <2>1. PICK h, g, agent, ctrl : CloseProtocol(h, g, agent, ctrl)
    BY <1>8
  <2>2. PICK p : p = CoreGetProtocolInterface(h, g)
    OBVIOUS
  <2>3. OpenList' = [OpenList EXCEPT ![p] = {o \in @ : ~(o.agent = agent /\ o.ctrl = ctrl)}]
    BY <2>1, <2>2 DEF CloseProtocol
  <2>4. stack' = stack
    BY <2>1 DEF CloseProtocol, control
  <2>5. Plainer(OpenList, OpenList')
    BY <1>1, <2>3 DEF Plainer
  <2> QED BY <1>5, <2>4, <2>5 DEF Steady
<1>9. CASE \E h, list : InstallMultiple(h, list) \/ UninstallMultiple(h, list)
  <2>1. /\ OpenList' = OpenList
        /\ \/ \E tpl, a : stack' = Append(stack, Frame("installMultiple", tpl, a))
           \/ \E b : stack' = Call(stack, "uninstallMultiple", b)
    BY <1>9 DEF InstallMultiple, UninstallMultiple
  <2> QED BY <1>3, <1>4, <2>1, SameRecords DEF Steady
<1>10. CASE (\E g : LocateHandleBuffer(g)) \/ StartImage \/ Callback
  <2>1. /\ OpenList' = OpenList
        /\ \/ \E b : stack' = Call(stack, "locateBuffer", b)
           \/ stack' = Call(Call(stack, "image", NULL), "driver", NULL)
           \/ \E tpl, a : stack' = Append(stack, Frame("callback", tpl, a))
    BY <1>10 DEF LocateHandleBuffer, StartImage, Callback, Interrupt
  <2> QED BY <1>3, <1>4, <2>1, SameRecords DEF Steady
<1>11. CASE \/ \E r \in Regs : Notified(r) \/ UnregisterProtocolNotify(r) \/ Advance(r)
            \/ \E r \in Regs, g \in Guids : RegisterProtocolNotify(r, g)
  <2>1. OpenList' = OpenList /\ (stack' = stack \/ \E tpl, a : stack' = Append(stack, Frame("notify", tpl, a)))
    BY <1>11 DEF Notified, Interrupt, UnregisterProtocolNotify, Advance, RegisterProtocolNotify, control
  <2> QED BY <1>4, <1>5, <2>1, SameRecords DEF Steady
<1> QED BY <1>6, <1>7, <1>8, <1>9, <1>10, <1>11
-----------------------------------------------------------------------------
(* The steps that grant access.                                            *)

LEMMA AppIsOutermost ==
  ASSUME CallsSound, AccessInv, Top.pc = "app"
  PROVE  Len(stack) = 1 /\ \A k \in 1..Len(stack) : stack[k].pc \notin Opens
<1>1. Len(stack) >= 1 /\ Len(stack) \in Nat
  BY TopFacts
<1>2. Len(stack) = 1
  <2>1. Len(stack) \in 1..Len(stack) /\ stack[Len(stack)].pc = "app"
    BY <1>1 DEF Top
  <2> QED BY <2>1 DEF AccessInv, RequestsSound
<1> QED BY <1>2 DEF AccessInv, RequestsSound

\* A record is added that goes with those there are.
LEMMA AddRecordSound ==
  ASSUME TypeOK, AccessInv, NEW p \in Prots, NEW o \in OpenData, AddRecord(p, o),
         {"EXCLUSIVE", "BY_DRIVER"} \cap o.attr # {} => ByDriver(p) = {} /\ Exclusive(p) = {}
  PROVE  \A q \in Prots : Shares(OpenList'[q])
<1>1. OpenList' = [OpenList EXCEPT ![p] = @ \cup {o}] /\ OpenList \in [Prots -> SUBSET OpenData]
  BY DEF AddRecord, TypeOK
<1>2. \A q \in Prots : Shares(OpenList[q])
  BY DEF AccessInv
<1>3. Shares(OpenList[p] \cup {o})
  BY <1>2 DEF Shares, ByDriver, Exclusive
<1> QED BY <1>1, <1>2, <1>3

LEMMA OpenProtocolAccess ==
  ASSUME NobodyNestsExclusive, IInv, AccessInv,
         NEW h \in Handles, NEW g \in Guids, NEW agent \in Agents, NEW ctrl \in Handles,
         NEW attr \in Attributes \cup NestedAttributes, OpenProtocol(h, g, agent, ctrl, attr)
  PROVE  AccessInv'
<1> DEFINE p == CoreGetProtocolInterface(h, g)
           o == Record(agent, ctrl, attr)
<1>1. /\ p # NULL
      /\ attr \in IF Top.pc = "app" THEN Attributes ELSE NestedAttributes
      /\ \/ attr \in {{"USE"}, {"CHILD"}} /\ AddRecord(p, o) /\ stack' = stack
         \/ /\ attr = {"BY_DRIVER"} \/ "EXCLUSIVE" \in attr
            /\ Exclusive(p) = {} /\ ByDriver(p) = {} /\ AddRecord(p, o) /\ stack' = stack
         \/ /\ "EXCLUSIVE" \in attr /\ Exclusive(p) = {} /\ OpenList' = OpenList
            /\ stack' = Call(stack, "exclusive", [h |-> h, p |-> p, o |-> o])
  BY DEF OpenProtocol, At
<1>2. CallsSound /\ TypeOK /\ DatabaseSound /\ OpenList \in [Prots -> SUBSET OpenData]
  BY DEF IInv, LinksSound, TypeOK
<1>3. p \in Prots
  BY <1>1, <1>2, GetFacts DEF Installed
<1>4. attr \in SUBSET {"USE", "CHILD", "BY_DRIVER", "EXCLUSIVE"}
  BY ServiceAssumption
<1>5. o \in OpenData /\ o.attr = attr
  BY <1>4 DEF OpenData, Record
<1> HIDE DEF p, o
<1>6. "EXCLUSIVE" \in attr => Top.pc = "app"
  BY <1>1 DEF NobodyNestsExclusive
<1>7. CASE attr \in {{"USE"}, {"CHILD"}} /\ AddRecord(p, o) /\ stack' = stack
  <2>1. Plainer(OpenList, OpenList')
    BY <1>2, <1>3, <1>5, <1>7 DEF AddRecord, Plainer
  <2>2. Steady
    BY <1>2, <1>7, <2>1, StackOld DEF Steady
  <2> QED BY <1>2, <2>2, SteadyKept
<1>8. CASE /\ attr = {"BY_DRIVER"} \/ "EXCLUSIVE" \in attr
           /\ Exclusive(p) = {} /\ ByDriver(p) = {} /\ AddRecord(p, o) /\ stack' = stack
  <2>1. \A q \in Prots : Shares(OpenList'[q])
    BY <1>2, <1>3, <1>5, <1>8, AddRecordSound
  <2>2. RequestsSound(stack, OpenList')
    <3>1. CASE "EXCLUSIVE" \in attr
      BY <1>2, <1>6, <3>1, AppIsOutermost DEF AccessInv, RequestsSound
    <3>2. CASE "EXCLUSIVE" \notin attr
      <4>1. OpenList' = [OpenList EXCEPT ![p] = @ \cup {o}]
        BY <1>8 DEF AddRecord
      <4>2. \A q : (\A x \in OpenList[q] : "EXCLUSIVE" \notin x.attr) /\ q \in Prots
                     => (\A x \in OpenList'[q] : "EXCLUSIVE" \notin x.attr)
        BY <1>2, <1>5, <3>2, <4>1
      <4>3. \A k \in 1..Len(stack) : stack[k].pc \in Opens => stack[k].arg.p \in Prots
        <5>1. \A k \in 1..Len(stack) : stack[k] \in Frames
          BY <1>2, TopFacts
        <5> QED BY <5>1, FrameArgs
      <4> QED BY <4>2, <4>3 DEF AccessInv, RequestsSound
    <3> QED BY <3>1, <3>2
  <2> QED BY <1>8, <2>1, <2>2 DEF AccessInv
<1>9. CASE /\ "EXCLUSIVE" \in attr /\ Exclusive(p) = {} /\ OpenList' = OpenList
           /\ stack' = Call(stack, "exclusive", [h |-> h, p |-> p, o |-> o])
  <2>1. Len(stack) = 1 /\ stack \in Seq(Frames)
    BY <1>2, <1>6, <1>9, AppIsOutermost, TopFacts
  <2>2. PICK f : f = Frame("exclusive", stack[Len(stack)].tpl, [h |-> h, p |-> p, o |-> o])
    OBVIOUS
  <2>3. f.pc = "exclusive" /\ f.arg.p = p
    BY <2>2 DEF Frame
  <2>4. stack' = Append(stack, f)
    BY <1>9, <2>2 DEF Call
  <2>5. Len(stack') = 2 /\ stack'[1] = stack[1] /\ stack'[2] = f
    <3>1. /\ Len(Append(stack, f)) = Len(stack) + 1
          /\ Append(stack, f)[1] = stack[1]
          /\ Append(stack, f)[Len(stack) + 1] = f
      <4>1. stack \in Seq(Frames \cup {f}) /\ f \in Frames \cup {f} /\ 1 \in 1..Len(stack)
        BY <2>1
      <4> QED BY <4>1
    <3> QED BY <2>1, <2>4, <3>1
  <2>6. stack[1].pc \notin Opens
    BY <1>2, <1>6, <1>9, <2>1, AppIsOutermost
  <2>7. \A k \in 1..Len(stack') : k = 1 \/ k = 2
    BY <2>5
  <2>8. \A x \in OpenList[p] : "EXCLUSIVE" \notin x.attr
    BY <1>9 DEF Exclusive
  <2>9. RequestsSound(stack', OpenList')
    BY <1>9, <2>3, <2>5, <2>6, <2>7, <2>8 DEF RequestsSound
  <2> QED BY <1>9, <2>9 DEF AccessInv
<1> QED BY <1>1, <1>7, <1>8, <1>9

LEMMA OpenExclusiveAccess ==
  ASSUME IInv, AccessInv, OpenExclusive
  PROVE  AccessInv'
<1>1. Top.pc = "exclusive" /\ ByDriver(arg.p) = {} /\ AddRecord(arg.p, arg.o) /\ stack' = Pop(stack)
  BY DEF OpenExclusive, Return, At
<1>2. CallsSound /\ TypeOK
  BY DEF IInv
<1>3. /\ Top \in Frames /\ stack \in Seq(Frames) /\ Len(stack) \in Nat /\ Len(stack) >= 1
      /\ Len(stack') = Len(stack) - 1 /\ \A k \in 1..(Len(stack) - 1) : stack'[k] = stack[k]
  BY <1>1, <1>2, TopFacts, PopSeq
<1>4. arg.p \in Prots /\ arg.o \in OpenData
  <2>1. arg \in [h : Handles, p : Prots, o : OpenData]
    BY <1>1, <1>3, FrameArgs DEF arg, Opens
  <2> QED BY <2>1
<1>5. Top.pc \in Opens /\ Top = stack[Len(stack)] /\ Len(stack) \in 1..Len(stack)
  BY <1>1, <1>3 DEF Opens, Top
<1>6. Len(stack) = 2 /\ \A o \in OpenList[arg.p] : "EXCLUSIVE" \notin o.attr
  BY <1>5 DEF AccessInv, RequestsSound, arg
<1>7. \A q \in Prots : Shares(OpenList'[q])
  <2>1. Exclusive(arg.p) = {}
    BY <1>6 DEF Exclusive
  <2> QED BY <1>1, <1>2, <1>4, <2>1, AddRecordSound
<1>8. RequestsSound(stack', OpenList')
  <2>1. \A k \in 1..Len(stack') : k = 1 /\ stack'[k] = stack[1] /\ k \in 1..Len(stack)
    BY <1>3, <1>6
  <2>2. stack[1].pc \notin Opens
    BY <1>6 DEF AccessInv, RequestsSound
  <2> QED BY <2>1, <2>2 DEF RequestsSound
<1> QED BY <1>7, <1>8 DEF AccessInv

LEMMA AccessStep ==
  ASSUME NobodyNestsExclusive, IInv, AccessInv, [Next]_vars
  PROVE  AccessInv'
<1>1. CallsSound
  BY DEF IInv
<1>2. ASSUME Steady PROVE AccessInv'
  BY <1>1, <1>2, SteadyKept
<1>3. CASE UNCHANGED vars
  <2>1. stack' = stack /\ OpenList' = OpenList
    BY <1>3 DEF vars, control
  <2> QED BY <1>1, <1>2, <2>1, StackOld, SameRecords DEF Steady
<1>4. CASE CoreStep
  <2>1. CASE NotifyTakes
    BY <1>2, <2>1, NotifyFacts, ServiceSteady DEF NotifyTakes
  <2> QED BY <1>2, <1>4, <2>1, DisconnectSteady, MultipleSteady, ControllerSteady, OtherSteady, InstallSteady,
             RemoveSteady, OpenExclusiveAccess DEF CoreStep
<1>5. CASE DriverReturns \/ CallbackReturns
  BY <1>2, <1>5, ControllerSteady
<1>6. CASE Callback \/ \E r \in Regs : Notified(r)
  BY <1>2, <1>6, ServiceSteady
<1>7. CASE ServiceCall
  <2>1. CASE \E h \in Handles, g \in Guids, agent \in Agents, ctrl \in Handles,
                attr \in Attributes \cup NestedAttributes : OpenProtocol(h, g, agent, ctrl, attr)
    BY <2>1, OpenProtocolAccess
  <2>2. CASE \/ \E h, g, i : InstallProtocolInterface(h, g, i) \/ UninstallProtocolInterface(h, g, i)
             \/ \E h, g, i, new : ReinstallProtocolInterface(h, g, i, new)
             \/ \E h, g, agent, ctrl : CloseProtocol(h, g, agent, ctrl)
    BY <1>2, <2>2, ServiceSteady
  <2>3. CASE \/ \E h, list : InstallMultiple(h, list) \/ UninstallMultiple(h, list)
             \/ (\E g : LocateHandleBuffer(g)) \/ StartImage
    BY <1>2, <2>3, ServiceSteady
  <2>4. CASE \E r \in Regs : \/ \E g \in Guids : RegisterProtocolNotify(r, g)
                             \/ UnregisterProtocolNotify(r) \/ LocateProtocol(r)
    BY <1>2, <2>4, ServiceSteady DEF LocateProtocol
  <2> QED BY <1>7, <2>1, <2>2, <2>3, <2>4 DEF ServiceCall
<1> QED BY <1>3, <1>4, <1>5, <1>6, <1>7 DEF Next

\* Opens are granted, closed by drivers that are stopped, and interfaces removed, in the
\* middle of a request for exclusive access and of each other: the lists stay sound, an
\* interface has one driver at most, and who has it EXCLUSIVE shares it with no driver.
\* (NobodyNestsExclusive: driver code and notification functions do not request it.)
THEOREM AccessIsExclusive ==
  ASSUME NothingRemovedInUse, NobodyNestsExclusive
  PROVE  Spec => []OpensSound
<1>1. Init => AccessInv
  <2>1. ASSUME Init PROVE AccessInv
    <3>1. Len(stack) = 1 /\ stack[1].pc = "app" /\ \A p \in Prots : OpenList[p] = {}
      BY <2>1 DEF Init, Frame
    <3> QED BY <3>1 DEF AccessInv, RequestsSound, Shares, Opens
  <2> QED BY <2>1
<1>2. IInv /\ AccessInv /\ [Next]_vars => AccessInv'
  BY AccessStep
<1>3. IInv /\ AccessInv => OpensSound
  <2>1. AccessInv => ExclusiveSound
    BY DEF AccessInv, Shares, ExclusiveSound, Installed
  <2> QED BY <2>1 DEF OpensSound, IInv, LinksSound
<1> QED BY <1>1, <1>2, <1>3, CallsInvariant, PTL DEF Spec

-----------------------------------------------------------------------------
(* INSTALLMULTIPLE.  It runs at NOTIFY, so that whatever it installs is    *)
(* its own until it is done.                                               *)

\* The interfaces of a protocol on a handle.
OfProtocol(pr, h, g) == {p \in Prots : pr[p] # Free /\ pr[p].Handle = h /\ pr[p].Protocol = g}

\* What arguments lo to hi of the call with record a asked for.
Wanted(a, j) == [Handle |-> a.h, Protocol |-> a.list[j][1], Interface |-> a.list[j][2]]
WantedIn(a, lo, hi) == {Wanted(a, j) : j \in lo..hi}

\* They were added to what there was, and to nothing else: each is the only interface
\* of its protocol on the handle, and nobody but the core uses it.
ContentsOf(pr) == {pr[p] : p \in {q \in Prots : pr[q] # Free}}
Alone(pr, ol, h, g) ==
  /\ \A p, q \in OfProtocol(pr, h, g) : p = q
  /\ \A p \in OfProtocol(pr, h, g) : \A o \in ol[p] : o.attr = {"USE"}
Added(a, lo, hi, pr, ol) ==
  /\ ContentsOf(pr) = a.was \cup WantedIn(a, lo, hi)
  /\ \A j \in lo..hi :
       /\ Wanted(a, j) \notin a.was
       /\ \A l \in lo..hi : l # j => a.list[l][1] # a.list[j][1]
       /\ Alone(pr, ol, a.h, a.list[j][1])

\* An InstallMultiple is at the top of the stack, or has called Install, or Uninstall
\* to roll back: it runs at NOTIFY, so nothing else of the database runs meanwhile.
NoMultiple(s) == \A k \in 1..Len(s) : s[k].pc \notin Installs
Last(s) == s[Len(s)]

Working(s, status, pr, ol) ==
  /\ Last(s).pc \in Installs /\ NoMultiple(Pop(s))
  /\ Added(Last(s).arg,
           IF Last(s).pc = "installRollback" THEN Last(s).arg.m ELSE 1,
           IF Last(s).pc = "installRollback" \/ (Last(s).pc = "installMultiple" /\ status = "ERROR")
           THEN Last(s).arg.n - 1 ELSE Last(s).arg.n, pr, ol)

Installing(s, pr, ol) ==
  LET t == Pop(s)
      a == Last(t).arg
  IN  /\ Len(s) >= 2 /\ NoMultiple(Pop(t))
      /\ Last(t).pc = "installMultiple" /\ Last(s).pc = "install" /\ Last(s).tpl = EFI_TPL_NOTIFY
      /\ a.n >= 1 /\ Added(a, 1, a.n - 1, pr, ol)
      /\ Last(s).arg = [h |-> a.h, g |-> a.list[a.n][1], i |-> a.list[a.n][2]]
      /\ OfProtocol(pr, a.h, a.list[a.n][1]) = {}

RollingBack(s, pr, ol) ==
  LET t == Pop(s)
      a == Last(t).arg
  IN  /\ Len(s) >= 2 /\ NoMultiple(Pop(t))
      /\ Last(t).pc = "installRollback" /\ Last(s).pc = "uninstall" /\ Last(s).tpl = EFI_TPL_NOTIFY
      /\ 2 <= a.m /\ a.m <= a.n /\ Added(a, a.m - 1, a.n - 1, pr, ol)
      /\ Last(s).arg.h = a.h /\ pr[Last(s).arg.p] = Wanted(a, a.m - 1)

MultipleInv ==
  \/ NoMultiple(stack)
  \/ Working(stack, Status, prot, OpenList)
  \/ Installing(stack, prot, OpenList)
  \/ RollingBack(stack, prot, OpenList)
-----------------------------------------------------------------------------
(* What is added and taken back.                                           *)

\* The core, and only the core, uses one interface more.
LEMMA AddedUse ==
  ASSUME NEW a, NEW lo, NEW hi, NEW pr, NEW ol, NEW new, Added(a, lo, hi, pr, ol),
         \A p \in Prots : \A o \in new[p] : o \in ol[p] \/ o.attr = {"USE"}
  PROVE  Added(a, lo, hi, pr, new)
BY DEF Added, Alone, OfProtocol

\* The loop goes on with another counter.
LEMMA AddedSame ==
  ASSUME NEW a, NEW b, NEW lo, NEW hi, NEW pr, NEW ol, Added(a, lo, hi, pr, ol),
         b.h = a.h, b.list = a.list, b.was = a.was
  PROVE  Added(b, lo, hi, pr, ol)
BY DEF Added, WantedIn, Wanted

LEMMA AddedNew ==
  ASSUME NEW a, NEW b, NEW n \in Nat, n >= 1, NEW pr, NEW ol, Added(a, 1, n - 1, pr, ol),
         pr \in [Prots -> Entry \cup {Free}], NEW p \in Prots, pr[p] = Free, ol[p] = {},
         b.list = a.list, b.was = a.was, a.h # b.h => a.h \notin Handles,
         OfProtocol(pr, b.h, a.list[n][1]) = {},
         NEW new, new = [pr EXCEPT ![p] = Wanted(b, n)], Wanted(b, n) \in Entry, Free \notin Entry
  PROVE  Added(b, 1, n, new, ol)
<1> DEFINE w == Wanted(b, n)
           g == a.list[n][1]
<1>1. w \in Entry /\ w # Free /\ w.Handle = b.h /\ w.Protocol = g
  BY DEF Wanted
<1>2. new = [pr EXCEPT ![p] = w]
  OBVIOUS
<1> HIDE DEF w, g
<1>3. /\ ContentsOf(new) = ContentsOf(pr) \cup {w}
      /\ \A h, x : x # g => OfProtocol(new, h, x) = OfProtocol(pr, h, x)
      /\ OfProtocol(new, b.h, g) = OfProtocol(pr, b.h, g) \cup {p}
  <2>1. \A q \in Prots : new[q] = IF q = p THEN w ELSE pr[q]
    BY <1>2
  <2> QED BY <1>1, <2>1 DEF ContentsOf, OfProtocol
<1>4. \A j \in 1..(n - 1) : a.h \in Handles /\ b.h = a.h /\ a.list[j][1] # g /\ Wanted(b, j) = Wanted(a, j)
  <2>1. ASSUME NEW j \in 1..(n - 1)
        PROVE  a.h \in Handles /\ b.h = a.h /\ a.list[j][1] # g
    <3>1. Wanted(a, j) \in ContentsOf(pr)
      BY DEF Added, WantedIn
    <3>2. PICK q \in Prots : pr[q] = Wanted(a, j) /\ pr[q] # Free
      BY <3>1 DEF ContentsOf
    <3>3. pr[q].Handle = a.h /\ pr[q].Protocol = a.list[j][1]
      BY <3>2 DEF Wanted
    <3>4. a.h \in Handles
      BY <3>2, <3>3 DEF Entry
    <3>5. q \in OfProtocol(pr, b.h, a.list[j][1])
      BY <3>2, <3>3, <3>4 DEF OfProtocol
    <3> QED BY <3>4, <3>5 DEF g
  <2> QED BY <2>1 DEF Wanted
<1>5. \A j \in 1..n : j = n \/ j \in 1..(n - 1)
  OBVIOUS
<1>6. WantedIn(b, 1, n) = WantedIn(a, 1, n - 1) \cup {w}
  BY <1>4, <1>5 DEF WantedIn, w
<1>7. w \notin a.was
  <2>1. w \notin ContentsOf(pr)
    BY <1>1 DEF ContentsOf, OfProtocol, g
  <2> QED BY <2>1 DEF Added
<1>8. ASSUME NEW j \in 1..n
      PROVE  /\ Wanted(b, j) \notin b.was
             /\ \A l \in 1..n : l # j => b.list[l][1] # b.list[j][1]
             /\ Alone(new, ol, b.h, b.list[j][1])
  <2>1. CASE j = n
    <3>1. OfProtocol(new, b.h, g) = {p}
      BY <1>3 DEF g
    <3>2. Alone(new, ol, b.h, g)
      BY <3>1 DEF Alone
    <3> QED BY <1>4, <1>5, <1>7, <2>1, <3>2 DEF w, g
  <2>2. CASE j \in 1..(n - 1)
    <3>1. OfProtocol(new, b.h, a.list[j][1]) = OfProtocol(pr, a.h, a.list[j][1])
      <4>1. PICK x : x = a.list[j][1]
        OBVIOUS
      <4>2. x # g /\ a.h = b.h
        BY <1>4, <2>2, <4>1
      <4>3. OfProtocol(new, b.h, x) = OfProtocol(pr, b.h, x)
        BY <1>3, <4>2
      <4> QED BY <4>1, <4>2, <4>3
    <3>2. Alone(new, ol, b.h, b.list[j][1])
      BY <2>2, <3>1 DEF Added, Alone
    <3>3. Wanted(b, j) \notin b.was
      BY <1>4, <2>2 DEF Added
    <3>4. \A l \in 1..n : l # j => b.list[l][1] # b.list[j][1]
      BY <1>4, <1>5, <2>2 DEF Added, g
    <3> QED BY <3>2, <3>3, <3>4
  <2> QED BY <1>5, <2>1, <2>2
<1>9. ContentsOf(new) = b.was \cup WantedIn(b, 1, n)
  BY <1>3, <1>6 DEF Added
<1> QED BY <1>8, <1>9 DEF Added

LEMMA AddedLess ==
  ASSUME NEW a, NEW m \in Nat, NEW n \in Nat, 1 <= m, m <= n, NEW pr, NEW ol, Added(a, m, n, pr, ol),
         pr \in [Prots -> Entry \cup {Free}], NEW p \in Prots, pr[p] = Wanted(a, m), pr[p] # Free,
         NEW new, new = [pr EXCEPT ![p] = Free], NEW records,
         \A q \in Prots : records[q] \subseteq ol[q]
  PROVE  Added(a, m + 1, n, new, records)
<1> DEFINE g == a.list[m][1]
<1>1. \A j \in m..n : j = m \/ j \in (m + 1)..n
  OBVIOUS
<1>2. m \in m..n /\ \A j \in (m + 1)..n : j \in m..n /\ j # m
  OBVIOUS
<1>3. p \in OfProtocol(pr, a.h, g)
  BY DEF OfProtocol, Wanted
<1>4. \A q \in OfProtocol(pr, a.h, g) : q = p
  BY <1>2, <1>3 DEF Added, Alone
<1>5. \A q \in Prots : new[q] = IF q = p THEN Free ELSE pr[q]
  OBVIOUS
<1>6. \A q \in Prots : pr[q] # Free /\ pr[q] = Wanted(a, m) => q = p
  BY <1>4 DEF OfProtocol, Wanted
<1>7. ContentsOf(new) = ContentsOf(pr) \ {Wanted(a, m)}
  BY <1>5, <1>6 DEF ContentsOf
<1>8. \A j \in (m + 1)..n : Wanted(a, j) # Wanted(a, m)
  BY <1>2 DEF Added, Wanted
<1>9. WantedIn(a, m, n) = WantedIn(a, m + 1, n) \cup {Wanted(a, m)}
  BY <1>1, <1>2 DEF WantedIn
<1>10. Wanted(a, m) \notin WantedIn(a, m + 1, n)
  BY <1>8 DEF WantedIn
<1>11. ContentsOf(new) = a.was \cup WantedIn(a, m + 1, n)
  BY <1>2, <1>7, <1>9, <1>10 DEF Added
<1>12. \A h, x : OfProtocol(new, h, x) \subseteq OfProtocol(pr, h, x)
  BY <1>5 DEF OfProtocol
<1>13. \A j \in (m + 1)..n : Alone(new, records, a.h, a.list[j][1])
  <2>1. \A h, x : Alone(pr, ol, h, x) => Alone(new, records, h, x)
    <3>1. \A h, x : OfProtocol(pr, h, x) \subseteq Prots
      BY DEF OfProtocol
    <3> QED BY <1>12, <3>1 DEF Alone
  <2> QED BY <1>2, <2>1 DEF Added
<1> QED BY <1>2, <1>11, <1>13 DEF Added

-----------------------------------------------------------------------------
(* The call stack when no InstallMultiple is on it.                        *)

LEMMA NonePush ==
  ASSUME NEW S, NEW s \in Seq(S), NoMultiple(s), NEW f, f.pc \notin Installs
  PROVE  NoMultiple(Append(s, f)) /\ Append(s, f) \in Seq(S \cup {f})
<1>1. /\ Len(Append(s, f)) = Len(s) + 1 /\ Append(s, f)[Len(s) + 1] = f /\ Len(s) \in Nat
      /\ \A k \in 1..Len(s) : Append(s, f)[k] = s[k]
  OBVIOUS
<1>2. \A k \in 1..(Len(s) + 1) : k = Len(s) + 1 \/ k \in 1..Len(s)
  BY <1>1
<1>3. Append(s, f) \in Seq(S \cup {f})
  <2>1. s \in Seq(S \cup {f})
    OBVIOUS
  <2> QED BY <2>1
<1> QED BY <1>1, <1>2, <1>3 DEF NoMultiple

LEMMA NonePop ==
  ASSUME CallsSound, NoMultiple(stack)
  PROVE  NoMultiple(Pop(stack)) /\ Pop(stack) \in Seq(Frames)
<1>1. stack \in Seq(Frames) /\ Len(stack) >= 1
  BY TopFacts
<1>2. Pop(stack) \in Seq(Frames) /\ Len(Pop(stack)) = Len(stack) - 1
      /\ \A k \in 1..(Len(stack) - 1) : Pop(stack)[k] = stack[k]
  BY <1>1, PopSeq
<1> QED BY <1>1, <1>2 DEF NoMultiple

\* A service returns, goes on at another label, calls.
LEMMA NoneBuilt ==
  ASSUME CallsSound, NoMultiple(stack)
  PROVE  /\ \A status : Return(status) => NoMultiple(stack')
         /\ \A pc \in Labels \ Installs : \A a :
              /\ NoMultiple(Become(pc, a)) /\ NoMultiple(Call(stack, pc, a))
              /\ \A pc2 \in Labels \ Installs : \A b :
                   NoMultiple(Call(Become(pc, a), pc2, b)) /\ NoMultiple(Call(Call(stack, pc, a), pc2, b))
         /\ \A pc \in Labels \ Installs : \A tpl, a : NoMultiple(Append(stack, Frame(pc, tpl, a)))
         /\ Top.pc \notin Installs
<1>1. stack \in Seq(Frames) /\ Len(stack) \in 1..Len(stack)
  BY TopFacts
<1>2. NoMultiple(Pop(stack)) /\ Pop(stack) \in Seq(Frames)
  BY NonePop
<1>3. \A pc, tpl, a : Frame(pc, tpl, a).pc = pc
  BY DEF Frame
<1>4. ASSUME NEW s \in Seq(Frames), NoMultiple(s), NEW pc \in Labels \ Installs, NEW tpl, NEW a
      PROVE  /\ NoMultiple(Append(s, Frame(pc, tpl, a)))
             /\ \A pc2 \in Labels \ Installs : \A tpl2, b :
                  NoMultiple(Append(Append(s, Frame(pc, tpl, a)), Frame(pc2, tpl2, b)))
  <2>1. PICK f : f = Frame(pc, tpl, a)
    OBVIOUS
  <2>2. NoMultiple(Append(s, f)) /\ Append(s, f) \in Seq(Frames \cup {f})
    BY <1>3, <1>4, <2>1, NonePush
  <2>3. ASSUME NEW pc2 \in Labels \ Installs, NEW tpl2, NEW b
        PROVE  NoMultiple(Append(Append(s, f), Frame(pc2, tpl2, b)))
    BY <1>3, <2>2, <2>3, NonePush
  <2> QED BY <2>1, <2>2, <2>3
<1>5. \A status : Return(status) => NoMultiple(stack')
  BY <1>2 DEF Return
<1>6. \A pc \in Labels \ Installs : \A a :
              /\ NoMultiple(Become(pc, a)) /\ NoMultiple(Call(stack, pc, a))
              /\ \A pc2 \in Labels \ Installs : \A b :
                   NoMultiple(Call(Become(pc, a), pc2, b)) /\ NoMultiple(Call(Call(stack, pc, a), pc2, b))
  BY <1>1, <1>2, <1>4 DEF Become, Call
<1> QED BY <1>1, <1>4, <1>5, <1>6 DEF NoMultiple, Top

\* Without InstallMultiple no step makes one of its frames.
LEMMA NoneInstall ==
  ASSUME IInv, NoMultiple(stack), Install \/ CallbackReturns
  PROVE  NoMultiple(stack')
<1>1. CallsSound
  BY DEF IInv
<1>2. NoMultiple(Pop(stack)) /\ Pop(stack) \in Seq(Frames)
  BY <1>1, NonePop
<1>3. CASE Install
  <2>1. PICK h : ReturnHandle(h)
    BY <1>3 DEF Install
  <2>2. Len(stack) >= 2 /\ Len(Pop(stack)) = Len(stack) - 1
    BY <1>1, <1>3, TopFacts DEF Install, At
  <2>3. Len(Pop(stack)) \in 1..Len(Pop(stack))
    BY <1>1, <2>2, TopFacts
  <2>4. Pop(stack)[Len(Pop(stack))].pc # "installMultiple"
    BY <1>2, <2>3 DEF NoMultiple, Installs
  <2> QED BY <1>2, <2>1, <2>4 DEF ReturnHandle
<1>4. CASE CallbackReturns
  BY <1>2, <1>4 DEF CallbackReturns
<1> QED BY <1>3, <1>4

LEMMA NoneCore ==
  ASSUME IInv, NoMultiple(stack), CoreStep
  PROVE  NoMultiple(stack')
<1>1. CallsSound
  BY DEF IInv
<1>2. Top.pc \notin Installs
  BY <1>1, NoneBuilt
<1> DEFINE Other == Labels \ Installs
<1>3. {"uninstall", "reinstall", "exclusive", "uninstallStopped", "reinstallStopped", "exclusiveStopped", "refused",
       "disconnect", "connect", "install", "uninstallMultiple", "uninstallRollback", "stopChildren", "stop",
       "driver", "connectByKey", "callback", "reinstalled"} \subseteq Other
  BY DEF Labels, Installs, ClientPc, Locked
<1>4. ~(CheckDevicePath \/ InstallOne \/ InstallMultipleEnds \/ InstallRollback)
  BY <1>2 DEF CheckDevicePath, InstallOne, InstallMultipleEnds, InstallRollback, At, Installs
<1>5. \A pc \in Other : \A a : NoMultiple(Become(pc, a)) /\ \A pc2 \in Other : \A b : NoMultiple(Call(Become(pc, a), pc2, b))
  BY <1>1, NoneBuilt
<1>6. \A status : Return(status) => NoMultiple(stack')
  BY <1>1, NoneBuilt
<1> HIDE DEF Other
<1>7. CASE DisconnectUser \/ DisconnectAgain \/ RemoveRefused
  <2>1. \/ Return("ERROR")
        \/ \E pc \in {"uninstall", "reinstall", "exclusive"} : \E a : stack' = Become(pc, a)
        \/ \E pc \in {"uninstallStopped", "reinstallStopped", "exclusiveStopped", "refused"},
              pc2 \in {"disconnect", "connect"} : \E a, b : stack' = Call(Become(pc, a), pc2, b)
    <3>1. CASE DisconnectUser
      BY <3>1 DEF DisconnectUser, Locked, Stopped
    <3>2. CASE DisconnectAgain
      BY <3>2 DEF DisconnectAgain, Locked
    <3>3. CASE RemoveRefused
      BY <3>3 DEF RemoveRefused
    <3> QED BY <1>7, <3>1, <3>2, <3>3
  <2> QED BY <1>3, <1>5, <1>6, <2>1
<1>8. CASE UninstallOne \/ UninstallRollback
  <2>1. \/ \E status : Return(status)
        \/ \E pc \in {"uninstallMultiple", "uninstallRollback"} : \E a : stack' = Become(pc, a)
        \/ \E pc \in {"uninstallMultiple", "uninstallRollback"}, pc2 \in {"install", "uninstall"} : \E a, b :
              stack' = Call(Become(pc, a), pc2, b)
    <3>1. CASE UninstallOne
      BY <3>1 DEF UninstallOne, CallRemove
    <3>2. CASE UninstallRollback
      BY <3>2 DEF UninstallRollback, CallInstall
    <3> QED BY <1>8, <3>1, <3>2
  <2> QED BY <1>3, <1>5, <1>6, <2>1
<1>9. CASE DisconnectController \/ ConnectController
  <2>1. \/ \E status : Return(status)
        \/ stack' = Become("driver", NULL)
        \/ \E pc \in {"stopChildren", "stop"} : \E a : stack' = Call(Become(pc, a), "driver", NULL)
    <3>1. CASE DisconnectController
      BY <3>1 DEF DisconnectController, CallDriver
    <3>2. CASE ConnectController
      BY <3>2 DEF ConnectController, Become
    <3> QED BY <1>9, <3>1, <3>2
  <2> QED BY <1>3, <1>5, <1>6, <2>1
<1>10. CASE \/ InstallFails \/ Refused \/ Reinstalled \/ OpenExclusive \/ LocateAgain \/ ConnectHandlesByKey
            \/ ConnectNext \/ NotifyTookAll
  <2>1. \/ \E status : Return(status)
        \/ \E pc \in {"connectByKey", "callback"} : \E a : stack' = Become(pc, a)
        \/ \E a, b : stack' = Call(Become("connectByKey", a), "connect", b)
    BY <1>10 DEF InstallFails, Refused, Reinstalled, OpenExclusive, LocateAgain, ConnectHandlesByKey, ConnectNext,
                 NotifyTookAll
  <2> QED BY <1>3, <1>5, <1>6, <2>1
<1>11. CASE Uninstall \/ Reinstall
  <2>1. Return("SUCCESS") \/ \E a, b : stack' = Call(Become("reinstalled", a), "connect", b)
    <3>1. CASE Uninstall
      BY <3>1 DEF Uninstall
    <3>2. CASE Reinstall
      BY <3>2 DEF Reinstall
    <3> QED BY <1>11, <3>1, <3>2
  <2> QED BY <1>3, <1>5, <1>6, <2>1
<1>12. CASE NotifyTakes
  <2>1. stack' = stack
    BY <1>12 DEF NotifyTakes, Advance, control
  <2> QED BY <2>1
<1> QED BY <1>4, <1>7, <1>8, <1>9, <1>10, <1>11, <1>12, NoneInstall DEF CoreStep

LEMMA NoneService ==
  ASSUME IInv, NoMultiple(stack), [Next]_vars, ~CoreStep,
         ~\E list \in Multiple, h \in Handles \cup {NULL} : InstallMultiple(h, list)
  PROVE  NoMultiple(stack')
<1>1. CallsSound
  BY DEF IInv
<1> DEFINE Other == Labels \ Installs
<1>2. {"install", "uninstall", "reinstall", "exclusive", "uninstallMultiple", "locateBuffer", "image", "driver",
       "callback", "notify"} \subseteq Other
  BY DEF Labels, Installs, ClientPc, Locked
<1>3. \A pc \in Other : \A a : NoMultiple(Call(stack, pc, a)) /\ \A pc2 \in Other : \A b : NoMultiple(Call(Call(stack, pc, a), pc2, b))
  BY <1>1, NoneBuilt
<1>4. \A pc \in Other : \A tpl, a : NoMultiple(Append(stack, Frame(pc, tpl, a)))
  BY <1>1, NoneBuilt
<1>5. \A status : Return(status) => NoMultiple(stack')
  BY <1>1, NoneBuilt
<1> HIDE DEF Other
<1>6. CASE \E h, g, i : InstallProtocolInterface(h, g, i) \/ UninstallProtocolInterface(h, g, i)
  <2>1. stack' = stack \/ \E pc \in {"install", "uninstall"} : \E a : stack' = Call(stack, pc, a)
    BY <1>6 DEF InstallProtocolInterface, CallInstall, UninstallProtocolInterface, CallRemove
  <2> QED BY <1>2, <1>3, <2>1
<1>7. CASE \E h, g, i, new : ReinstallProtocolInterface(h, g, i, new)
  <2>1. stack' = stack \/ \E a : stack' = Call(stack, "reinstall", a)
    BY <1>7 DEF ReinstallProtocolInterface, CallRemove
  <2> QED BY <1>2, <1>3, <2>1
<1>8. CASE \E h, g, agent, ctrl, attr : OpenProtocol(h, g, agent, ctrl, attr)
  <2>1. stack' = stack \/ \E a : stack' = Call(stack, "exclusive", a)
    BY <1>8 DEF OpenProtocol
  <2> QED BY <1>2, <1>3, <2>1
<1>9. CASE (\E h, list : UninstallMultiple(h, list)) \/ (\E g : LocateHandleBuffer(g)) \/ StartImage
  <2>1. \/ \E pc \in {"uninstallMultiple", "locateBuffer"} : \E a : stack' = Call(stack, pc, a)
        \/ stack' = Call(Call(stack, "image", NULL), "driver", NULL)
    BY <1>9 DEF UninstallMultiple, LocateHandleBuffer, StartImage
  <2> QED BY <1>2, <1>3, <2>1
<1>10. CASE UNCHANGED vars \/ (\E h, g, agent, ctrl : CloseProtocol(h, g, agent, ctrl))
            \/ \E r \in Regs : \/ \E g \in Guids : RegisterProtocolNotify(r, g)
                               \/ UnregisterProtocolNotify(r) \/ LocateProtocol(r)
  <2>1. UNCHANGED control
    <3>1. CASE UNCHANGED vars
      BY <3>1 DEF vars
    <3>2. CASE \E h, g, agent, ctrl : CloseProtocol(h, g, agent, ctrl)
      BY <3>2 DEF CloseProtocol
    <3>3. CASE \E r \in Regs : \/ \E g \in Guids : RegisterProtocolNotify(r, g)
                               \/ UnregisterProtocolNotify(r) \/ LocateProtocol(r)
      BY <3>3 DEF RegisterProtocolNotify, UnregisterProtocolNotify, LocateProtocol, Advance
    <3> QED BY <1>10, <3>1, <3>2, <3>3
  <2> QED BY <2>1 DEF control
<1>11. CASE DriverReturns
  BY <1>5, <1>11 DEF DriverReturns
<1>12. CASE Callback \/ \E r \in Regs : Notified(r)
  <2>1. \E pc \in {"callback", "notify"} : \E tpl, a : stack' = Append(stack, Frame(pc, tpl, a))
    BY <1>12 DEF Callback, Notified, Interrupt
  <2> QED BY <1>2, <1>4, <2>1
<1>13. CASE ServiceCall
  BY <1>6, <1>7, <1>8, <1>9, <1>10, <1>13 DEF ServiceCall
<1> QED BY <1>10, <1>11, <1>12, <1>13, NoneInstall DEF Next

-----------------------------------------------------------------------------
(* The steps of an InstallMultiple: at NOTIFY nothing else runs.           *)

LEMMA OnlyMultiple ==
  ASSUME IInv, [Next]_vars, Top.tpl = EFI_TPL_NOTIFY, Top.pc \in Installs \cup {"install", "uninstall"}
  PROVE  \/ UNCHANGED vars
         \/ Top.pc \in Installs /\ (CheckDevicePath \/ InstallOne \/ InstallMultipleEnds \/ InstallRollback)
         \/ Top.pc = "install" /\ (Install \/ InstallFails)
         \/ Top.pc = "uninstall" /\ (DisconnectUser \/ RemoveRefused \/ Uninstall)
<1>1. Top.pc \notin ClientPc
  BY DEF ClientPc, Installs
<1>2. ~ServiceCall
  <2>1. \A service : ~May(service)
    BY <1>1 DEF May
  <2>2. /\ \A h, g, i : ~InstallProtocolInterface(h, g, i) /\ ~UninstallProtocolInterface(h, g, i)
        /\ \A h, g, i, new : ~ReinstallProtocolInterface(h, g, i, new)
    BY <2>1 DEF InstallProtocolInterface, UninstallProtocolInterface, ReinstallProtocolInterface
  <2>3. /\ \A h, g, agent, ctrl, attr : ~OpenProtocol(h, g, agent, ctrl, attr)
        /\ \A h, g, agent, ctrl : ~CloseProtocol(h, g, agent, ctrl)
    BY <2>1 DEF OpenProtocol, CloseProtocol
  <2>4. /\ \A h, list : ~InstallMultiple(h, list) /\ ~UninstallMultiple(h, list)
        /\ \A g : ~LocateHandleBuffer(g)
        /\ ~StartImage
    BY <2>1 DEF InstallMultiple, UninstallMultiple, LocateHandleBuffer, StartImage
  <2>5. \A r : /\ \A g : ~RegisterProtocolNotify(r, g)
               /\ ~UnregisterProtocolNotify(r) /\ ~LocateProtocol(r)
    BY <2>1 DEF RegisterProtocolNotify, UnregisterProtocolNotify, LocateProtocol
  <2> QED BY <2>2, <2>3, <2>4, <2>5 DEF ServiceCall
<1>3. ~Callback /\ \A r \in Regs : ~Notified(r)
  BY ServiceAssumption DEF Callback, Notified, Interrupt, EFI_TPL_NOTIFY, EFI_TPL_CALLBACK
<1>4. ~(DriverReturns \/ CallbackReturns)
  BY <1>1 DEF DriverReturns, CallbackReturns, At, ClientPc
<1>5. ASSUME CoreStep
      PROVE  \/ Top.pc \in Installs /\ (CheckDevicePath \/ InstallOne \/ InstallMultipleEnds \/ InstallRollback)
             \/ Top.pc = "install" /\ (Install \/ InstallFails)
             \/ Top.pc = "uninstall" /\ (DisconnectUser \/ RemoveRefused \/ Uninstall)
  <2>1. ~(Refused \/ Reinstalled \/ UninstallOne \/ UninstallRollback \/ OpenExclusive \/ ConnectController
          \/ NotifyTakes \/ NotifyTookAll \/ LocateAgain \/ ConnectHandlesByKey \/ ConnectNext \/ Reinstall)
    BY DEF Refused, Reinstalled, UninstallOne, UninstallRollback, OpenExclusive, ConnectController, NotifyTakes,
           NotifyTookAll, LocateAgain, ConnectHandlesByKey, ConnectNext, Reinstall, At, Installs
  <2>2. ~(DisconnectAgain \/ DisconnectController)
    BY DEF DisconnectAgain, DisconnectController, At, Installs, Locked, Stopped
  <2>3. Install \/ InstallFails => Top.pc = "install"
    BY DEF Install, InstallFails, At
  <2>4. DisconnectUser \/ RemoveRefused \/ Uninstall => Top.pc \in {"uninstall", "reinstall", "exclusive"}
    BY DEF DisconnectUser, RemoveRefused, Uninstall, At, Locked
  <2>5. CheckDevicePath \/ InstallOne \/ InstallMultipleEnds \/ InstallRollback => Top.pc \in Installs
    BY DEF CheckDevicePath, InstallOne, InstallMultipleEnds, InstallRollback, At, Installs
  <2>6. Top.pc \notin {"reinstall", "exclusive"}
    BY DEF Installs
  <2> QED BY <1>5, <2>1, <2>2, <2>3, <2>4, <2>5, <2>6 DEF CoreStep
<1> QED BY <1>2, <1>3, <1>4, <1>5 DEF Next

LEMMA LastPush ==
  ASSUME NEW S, NEW t \in Seq(S), NEW f
  PROVE  /\ Last(Append(t, f)) = f /\ Pop(Append(t, f)) = t
         /\ Len(Append(t, f)) = Len(t) + 1 /\ Append(t, f) \in Seq(S \cup {f})
<1>1. t \in Seq(S \cup {f}) /\ f \in S \cup {f}
  OBVIOUS
<1>2. /\ Append(t, f) \in Seq(S \cup {f}) /\ Len(Append(t, f)) = Len(t) + 1 /\ Append(t, f)[Len(t) + 1] = f
      /\ \A k \in 1..Len(t) : Append(t, f)[k] = t[k]
  BY <1>1
<1>3. Pop(Append(t, f)) \in Seq(S \cup {f}) /\ Len(Pop(Append(t, f))) = Len(t)
      /\ \A k \in 1..Len(t) : Pop(Append(t, f))[k] = t[k]
  <2>1. Len(Append(t, f)) >= 1 /\ Len(Append(t, f)) - 1 = Len(t)
    BY <1>2
  <2> QED BY <1>2, <2>1, PopSeq
<1>4. Pop(Append(t, f)) = t
  BY <1>1, <1>3
<1> QED BY <1>2, <1>4 DEF Last

\* The loop goes on.
LEMMA GoesOn ==
  ASSUME NEW t \in Seq(Frames), NoMultiple(t), NEW pc \in Installs, NEW tpl, NEW a, NEW status, NEW pr, NEW ol,
         Added(a, IF pc = "installRollback" THEN a.m ELSE 1,
               IF pc = "installRollback" \/ (pc = "installMultiple" /\ status = "ERROR") THEN a.n - 1 ELSE a.n, pr, ol)
  PROVE  Working(Append(t, Frame(pc, tpl, a)), status, pr, ol)
<1>1. PICK f : f = Frame(pc, tpl, a)
  OBVIOUS
<1>2. f.pc = pc /\ f.arg = a
  BY <1>1 DEF Frame
<1>3. Last(Append(t, f)) = f /\ Pop(Append(t, f)) = t
  BY LastPush
<1> QED BY <1>1, <1>2, <1>3 DEF Working

\* It calls Install or Uninstall.
LEMMA Calling ==
  ASSUME NEW t \in Seq(Frames), NEW f, NEW pc, NEW a
  PROVE  LET s == Call(Append(t, f), pc, a)
         IN  /\ Pop(s) = Append(t, f) /\ Last(Pop(s)) = f /\ Pop(Pop(s)) = t /\ Len(s) >= 2
             /\ Last(s).pc = pc /\ Last(s).tpl = f.tpl /\ Last(s).arg = a
<1>1. Last(Append(t, f)) = f /\ Pop(Append(t, f)) = t /\ Len(Append(t, f)) = Len(t) + 1
      /\ Append(t, f) \in Seq(Frames \cup {f})
  BY LastPush
<1>2. PICK g : g = Frame(pc, f.tpl, a)
  OBVIOUS
<1>3. g.pc = pc /\ g.tpl = f.tpl /\ g.arg = a
  BY <1>2 DEF Frame
<1>4. Call(Append(t, f), pc, a) = Append(Append(t, f), g)
  BY <1>1, <1>2 DEF Call, Last
<1>5. Last(Append(Append(t, f), g)) = g /\ Pop(Append(Append(t, f), g)) = Append(t, f)
      /\ Len(Append(Append(t, f), g)) = Len(Append(t, f)) + 1
  BY <1>1, LastPush
<1>6. Len(t) \in Nat
  OBVIOUS
<1> QED BY <1>1, <1>3, <1>4, <1>5, <1>6

\* What a call starts from: nothing was added.
LEMMA MultipleStarts ==
  ASSUME IInv, NoMultiple(stack), NEW list \in Multiple, NEW h \in Handles \cup {NULL}, InstallMultiple(h, list)
  PROVE  MultipleInv'
<1> DEFINE a == Multi(h, list)
<1>1. /\ stack' = Append(stack, Frame("installMultiple", EFI_TPL_NOTIFY, a)) /\ Status' = "SUCCESS"
      /\ prot' = prot /\ OpenList' = OpenList
  BY DEF InstallMultiple, entries
<1>2. a.was = Contents /\ a.n = 0
  BY DEF Multi
<1>3. Added(a, 1, 0, prot, OpenList)
  <2>1. 1..0 = {}
    OBVIOUS
  <2>2. WantedIn(a, 1, 0) = {}
    BY <2>1 DEF WantedIn
  <2>3. Contents = ContentsOf(prot)
    BY DEF Contents, ContentsOf, Installed
  <2> QED BY <1>2, <2>1, <2>2, <2>3 DEF Added
<1>4. stack \in Seq(Frames) /\ "installMultiple" \in Installs
  BY TopFacts DEF IInv, Installs
<1> HIDE DEF a
<1>5. Working(stack', Status', prot', OpenList')
  BY <1>1, <1>2, <1>3, <1>4, GoesOn
<1> QED BY <1>5 DEF MultipleInv

LEMMA CheckDevicePathWorks ==
  ASSUME IInv, Working(stack, Status, prot, OpenList), CheckDevicePath
  PROVE  Working(stack', Status', prot', OpenList')
<1>1. Top.pc = "installMultiple" /\ Status = "SUCCESS" /\ prot' = prot /\ Last(stack) = Top
  BY DEF CheckDevicePath, At, entries, Last, Top
<1>2. NoMultiple(Pop(stack)) /\ Added(arg, 1, arg.n, prot, OpenList)
  BY <1>1 DEF Working, arg
<1>3. Pop(stack) \in Seq(Frames) /\ arg \in MultiArgs(Handles \cup {NULL})
  BY <1>1, MultiFacts DEF Installs
<1>4. Added(arg, 1, arg.n, prot, OpenList')
  <2>1. \A p \in Prots : \A o \in OpenList'[p] : o \in OpenList[p] \/ o.attr = {"USE"}
    BY DEF CheckDevicePath, Record
  <2> QED BY <1>2, <2>1, AddedUse
<1> DEFINE b == [arg EXCEPT !.n = @ + 1]
<1>5. b.h = arg.h /\ b.list = arg.list /\ b.was = arg.was /\ b.n = arg.n + 1 /\ arg.n \in Nat
  BY <1>3 DEF MultiArgs
<1>6. Added(b, 1, b.n - 1, prot, OpenList')
  <2>1. b.n - 1 = arg.n
    BY <1>5
  <2> HIDE DEF b
  <2> QED BY <1>4, <1>5, <2>1, AddedSame
<1>7. \/ stack' = Become("installMultiple", b) /\ Status' = "ERROR"
      \/ stack' = Become("installOne", arg)
  BY DEF CheckDevicePath
<1>8. {"installMultiple", "installOne"} \subseteq Installs
  BY DEF Installs
<1> HIDE DEF b
<1>9. CASE stack' = Become("installMultiple", b) /\ Status' = "ERROR"
  BY <1>1, <1>2, <1>3, <1>6, <1>8, <1>9, GoesOn DEF Become
<1>10. CASE stack' = Become("installOne", arg)
  BY <1>1, <1>2, <1>3, <1>4, <1>8, <1>10, GoesOn DEF Become
<1> QED BY <1>7, <1>9, <1>10

LEMMA InstallOneWorks ==
  ASSUME IInv, Working(stack, Status, prot, OpenList), InstallOne
  PROVE  Working(stack', Status', prot', OpenList') \/ Installing(stack', prot', OpenList')
<1>1. /\ Top.pc = "installOne" \/ (Top.pc = "installMultiple" /\ Status = "SUCCESS" /\ arg.n < Len(arg.list))
      /\ prot' = prot /\ Last(stack) = Top
  BY DEF InstallOne, At, entries, Last, Top
<1>2. NoMultiple(Pop(stack)) /\ Added(arg, 1, arg.n, prot, OpenList)
  BY <1>1 DEF Working, arg
<1>3. /\ Pop(stack) \in Seq(Frames) /\ arg \in MultiArgs(Handles \cup {NULL}) /\ Top.tpl = EFI_TPL_NOTIFY
      /\ arg.n \in Nat /\ arg.n + 1 \in 1..Len(arg.list)
      /\ Argument(arg.n + 1) = [g |-> arg.list[arg.n + 1][1], i |-> arg.list[arg.n + 1][2]]
  <2>1. /\ Pop(stack) \in Seq(Frames) /\ arg \in MultiArgs(Handles \cup {NULL}) /\ Top.tpl = EFI_TPL_NOTIFY
        /\ arg.n \in 0..Len(arg.list) /\ Len(arg.list) \in Nat /\ arg.n < Len(arg.list)
    BY <1>1, MultiFacts DEF Installs
  <2> QED BY <1>1, <2>1 DEF Argument
<1> DEFINE b == [arg EXCEPT !.n = @ + 1]
           x == Argument(arg.n + 1)
           f == Frame("installMultiple", Top.tpl, b)
<1>4. b.h = arg.h /\ b.list = arg.list /\ b.was = arg.was /\ b.n = arg.n + 1
  BY <1>3 DEF MultiArgs
<1>5. CallInstall(Append(Pop(stack), f), arg.h, x.g, x.i)
  BY DEF InstallOne, Become
<1>6. f.pc = "installMultiple" /\ f.tpl = EFI_TPL_NOTIFY /\ f.arg = b /\ "installMultiple" \in Installs
  BY <1>3 DEF Frame, Installs
<1>7. x.g = b.list[b.n][1] /\ x.i = b.list[b.n][2]
  BY <1>3, <1>4
<1> HIDE DEF b, x
<1>8. Added(b, 1, b.n - 1, prot, OpenList)
  <2>1. b.n - 1 = arg.n
    BY <1>3, <1>4
  <2> QED BY <1>2, <1>4, <2>1, AddedSame
<1> DEFINE p == CoreGetProtocolInterface(arg.h, x.g)
<1>9. TypeOK /\ DatabaseSound /\ OpenList \in [Prots -> SUBSET OpenData]
  BY DEF IInv, LinksSound, TypeOK
<1>10. CASE p = NULL
  <2>1. stack' = Call(Append(Pop(stack), f), "install", [h |-> arg.h, g |-> x.g, i |-> x.i]) /\ OpenList' = OpenList
    BY <1>5, <1>10 DEF CallInstall
  <2>2. OfProtocol(prot, arg.h, x.g) = {}
    BY <1>9, <1>10, GetFacts DEF OfProtocol, Installed
  <2>3. b.n >= 1
    BY <1>3, <1>4
  <2> HIDE DEF f
  <2>4. /\ Last(Pop(stack')) = f /\ Pop(Pop(stack')) = Pop(stack) /\ Len(stack') >= 2
        /\ Last(stack').pc = "install" /\ Last(stack').tpl = f.tpl
        /\ Last(stack').arg = [h |-> arg.h, g |-> x.g, i |-> x.i]
    BY <1>3, <2>1, Calling
  <2>5. Installing(stack', prot', OpenList')
    BY <1>1, <1>2, <1>4, <1>6, <1>7, <1>8, <2>1, <2>2, <2>3, <2>4 DEF Installing
  <2> QED BY <2>5
<1>11. CASE p # NULL
  <2>1. /\ HandleProtocol(p) /\ stack' = Append(Pop(stack), f)
        /\ Status' = IF Last(Append(Pop(stack), f)).pc \in ClientPc THEN "SUCCESS" ELSE "ERROR"
    BY <1>5, <1>11 DEF CallInstall, Last
  <2>2. Status' = "ERROR"
    <3>1. Last(Append(Pop(stack), f)) = f
      BY <1>3, LastPush
    <3> QED BY <1>6, <2>1, <3>1 DEF ClientPc
  <2>3. \A q \in Prots : \A o \in OpenList'[q] : o \in OpenList[q] \/ o.attr = {"USE"}
    <3>1. OpenList' = [OpenList EXCEPT ![p] = @ \cup {[agent |-> gDxeCoreImageHandle, ctrl |-> NULL, attr |-> {"USE"}]}]
      BY <2>1 DEF HandleProtocol, Record
    <3> QED BY <1>9, <3>1
  <2>4. Added(b, 1, b.n - 1, prot, OpenList')
    BY <1>8, <2>3, AddedUse
  <2>5. Working(stack', Status', prot', OpenList')
    BY <1>1, <1>2, <1>3, <1>6, <2>1, <2>2, <2>4, GoesOn
  <2> QED BY <2>5
<1> QED BY <1>10, <1>11

LEMMA InstallMultipleEndsWorks ==
  ASSUME IInv, Working(stack, Status, prot, OpenList), InstallMultipleEnds
  PROVE  MultipleInv'
<1>1. /\ Top.pc = "installMultiple" /\ Last(stack) = Top /\ prot' = prot /\ OpenList' = OpenList
      /\ \/ Return("SUCCESS")
         \/ Status = "ERROR" /\ stack' = Become("installRollback", [arg EXCEPT !.m = 1]) /\ Status' = Status
  BY DEF InstallMultipleEnds, At, entries, Last, Top
<1>2. NoMultiple(Pop(stack)) /\ (Status = "ERROR" => Added(arg, 1, arg.n - 1, prot, OpenList))
  BY <1>1 DEF Working, arg
<1>3. Pop(stack) \in Seq(Frames) /\ arg \in MultiArgs(Handles \cup {NULL})
  BY <1>1, MultiFacts DEF Installs
<1>4. CASE Return("SUCCESS")
  BY <1>2, <1>4 DEF Return, MultipleInv
<1>5. CASE Status = "ERROR" /\ stack' = Become("installRollback", [arg EXCEPT !.m = 1]) /\ Status' = Status
  <2> DEFINE b == [arg EXCEPT !.m = 1]
  <2>1. b.h = arg.h /\ b.list = arg.list /\ b.was = arg.was /\ b.n = arg.n /\ b.m = 1
    BY <1>3 DEF MultiArgs
  <2>2. stack' = Append(Pop(stack), Frame("installRollback", Top.tpl, b)) /\ "installRollback" \in Installs
    BY <1>5 DEF Become, Installs
  <2> HIDE DEF b
  <2>3. Added(b, b.m, b.n - 1, prot, OpenList)
    BY <1>2, <1>5, <2>1, AddedSame
  <2>4. Working(stack', Status', prot', OpenList')
    BY <1>1, <1>2, <1>3, <2>2, <2>3, GoesOn
  <2> QED BY <2>4 DEF MultipleInv
<1> QED BY <1>1, <1>4, <1>5

LEMMA InstallRollbackWorks ==
  ASSUME IInv, Working(stack, Status, prot, OpenList), InstallRollback
  PROVE  MultipleInv'
<1>1. /\ Top.pc = "installRollback" /\ Last(stack) = Top /\ prot' = prot /\ OpenList' = OpenList
      /\ IF arg.m < arg.n
         THEN CallRemove(Become("installRollback", [arg EXCEPT !.m = @ + 1]), "uninstall",
                         arg.h, Argument(arg.m).g, Argument(arg.m).i, NULL)
         ELSE Return("ERROR")
  BY DEF InstallRollback, At, entries, Last, Top
<1>2. NoMultiple(Pop(stack)) /\ Added(arg, arg.m, arg.n - 1, prot, OpenList)
  BY <1>1 DEF Working, arg
<1>3. /\ Pop(stack) \in Seq(Frames) /\ arg \in MultiArgs(Handles \cup {NULL}) /\ Top.tpl = EFI_TPL_NOTIFY
      /\ arg.m >= 1 /\ arg.m \in Nat /\ arg.n \in Nat
  BY <1>1, MultiFacts DEF Installs, MultiArgs
<1>4. CASE ~(arg.m < arg.n)
  BY <1>1, <1>2, <1>4 DEF Return, MultipleInv
<1>5. CASE arg.m < arg.n
  <2> DEFINE b == [arg EXCEPT !.m = @ + 1]
             f == Frame("installRollback", Top.tpl, b)
             w == Wanted(arg, arg.m)
             p == CoreFindProtocolInterface(arg.h, Argument(arg.m).g, Argument(arg.m).i)
  <2>1. b.h = arg.h /\ b.list = arg.list /\ b.was = arg.was /\ b.n = arg.n /\ b.m = arg.m + 1
    BY <1>3 DEF MultiArgs
  <2>2. CallRemove(Append(Pop(stack), f), "uninstall", arg.h, Argument(arg.m).g, Argument(arg.m).i, NULL)
    BY <1>1, <1>5 DEF Become
  <2>3. f.pc = "installRollback" /\ f.tpl = EFI_TPL_NOTIFY /\ f.arg = b
    BY <1>3 DEF Frame
  <2>4. w.Handle = arg.h /\ w.Protocol = Argument(arg.m).g /\ w.Interface = Argument(arg.m).i
    BY DEF Wanted, Argument
  <2>5. TypeOK /\ DatabaseSound /\ prot \in [Prots -> Entry \cup {Free}]
    BY DEF IInv, LinksSound, TypeOK, Entry
  <2>6. \E q \in Installed : prot[q] = w
    <3>1. arg.m \in arg.m..(arg.n - 1)
      BY <1>3, <1>5
    <3>2. w \in ContentsOf(prot)
      BY <1>2, <3>1 DEF Added, WantedIn
    <3> QED BY <3>2 DEF ContentsOf, Installed
  <2> HIDE DEF b, w
  <2>7. p # NULL /\ prot[p] = w
    <3>1. PICK q \in Installed : prot[q] = w
      BY <2>6
    <3>2. p # NULL
      BY <2>4, <2>5, <3>1, FindFacts
    <3>3. /\ p \in Installed /\ prot[p].Handle = w.Handle /\ prot[p].Protocol = w.Protocol
          /\ prot[p].Interface = w.Interface
      BY <2>4, <2>5, <3>2, FindFacts
    <3> HIDE DEF p
    <3>4. prot[p] \in Entry /\ prot[q] \in Entry
      BY <2>5, <3>1, <3>3, InstalledFacts
    <3>5. prot[p] = w
      BY <3>1, <3>3, <3>4 DEF Entry
    <3> QED BY <3>2, <3>5
  <2>8. stack' = Call(Append(Pop(stack), f), "uninstall", [h |-> arg.h, p |-> p, i |-> NULL])
    BY <2>2, <2>7 DEF CallRemove
  <2> HIDE DEF f, p
  <2>9. /\ Last(Pop(stack')) = f /\ Pop(Pop(stack')) = Pop(stack) /\ Len(stack') >= 2
        /\ Last(stack').pc = "uninstall" /\ Last(stack').tpl = f.tpl
        /\ Last(stack').arg = [h |-> arg.h, p |-> p, i |-> NULL]
    BY <1>3, <2>8, Calling
  <2>10. Added(b, b.m - 1, b.n - 1, prot, OpenList)
    <3>1. b.m - 1 = arg.m
      BY <1>3, <2>1
    <3> QED BY <1>2, <2>1, <3>1, AddedSame
  <2>11. prot[p] = Wanted(b, b.m - 1)
    <3>1. b.m - 1 = arg.m
      BY <1>3, <2>1
    <3> QED BY <2>1, <2>7, <3>1 DEF Wanted, w
  <2>12. 2 <= b.m /\ b.m <= b.n
    BY <1>3, <1>5, <2>1
  <2>13. Last(stack').arg.h = b.h /\ Last(stack').arg.p = p
    BY <2>1, <2>9
  <2>14. RollingBack(stack', prot', OpenList')
    BY <1>1, <1>2, <2>3, <2>9, <2>10, <2>11, <2>12, <2>13 DEF RollingBack
  <2> QED BY <2>14 DEF MultipleInv
<1> QED BY <1>4, <1>5

\* Both calls end where InstallMultiple waits for them.
LEMMA Waiting ==
  ASSUME IInv, Len(stack) >= 2
  PROVE  /\ Pop(stack) \in Seq(Frames) /\ Len(Pop(stack)) = Len(stack) - 1
         /\ Last(Pop(stack)) = stack[Len(stack) - 1] /\ Last(Pop(stack)) \in Frames
         /\ Last(stack) = Top /\ Pop(Pop(stack)) \in Seq(Frames)
<1>1. stack \in Seq(Frames) /\ Len(stack) >= 1 /\ Len(stack) \in Nat
  BY TopFacts DEF IInv
<1>2. /\ Pop(stack) \in Seq(Frames) /\ Len(Pop(stack)) = Len(stack) - 1
      /\ \A k \in 1..(Len(stack) - 1) : Pop(stack)[k] = stack[k]
  BY <1>1, PopSeq
<1>3. Len(Pop(stack)) \in 1..Len(Pop(stack)) /\ Len(Pop(stack)) >= 1
  BY <1>1, <1>2
<1>4. Pop(Pop(stack)) \in Seq(Frames)
  BY <1>2, <1>3, PopSeq
<1>5. Last(Pop(stack)) = stack[Len(stack) - 1] /\ Last(Pop(stack)) \in Frames
  BY <1>2, <1>3 DEF Last
<1> QED BY <1>2, <1>4, <1>5 DEF Last, Top

LEMMA InstallingFails ==
  ASSUME IInv, Installing(stack, prot, OpenList), InstallFails
  PROVE  Working(stack', Status', prot', OpenList')
<1> DEFINE t == Pop(stack)
           a == Last(t).arg
<1>1. /\ Len(stack) >= 2 /\ NoMultiple(Pop(t)) /\ Last(t).pc = "installMultiple"
      /\ Added(a, 1, a.n - 1, prot, OpenList)
  BY DEF Installing
<1>2. Last(t) = stack[Len(stack) - 1]
  BY <1>1, Waiting
<1>3. stack' = t /\ Status' = "ERROR" /\ prot' = prot /\ OpenList' = OpenList
  BY <1>1, <1>2 DEF InstallFails, Return, entries, ClientPc
<1>4. Working(t, "ERROR", prot, OpenList)
  BY <1>1 DEF Working, Installs
<1> QED BY <1>3, <1>4

LEMMA InstallingWorks ==
  ASSUME IInv, Installing(stack, prot, OpenList), Install
  PROVE  Working(stack', Status', prot', OpenList')
<1> DEFINE t == Pop(stack)
           a == Last(t).arg
<1>1. /\ Len(stack) >= 2 /\ NoMultiple(Pop(t)) /\ Last(t).pc = "installMultiple"
      /\ a.n >= 1 /\ Added(a, 1, a.n - 1, prot, OpenList)
      /\ arg = [h |-> a.h, g |-> a.list[a.n][1], i |-> a.list[a.n][2]]
      /\ OfProtocol(prot, a.h, a.list[a.n][1]) = {}
  BY Waiting DEF Installing, arg
<1>2. PICK h \in Handles, p \in Prots \ Installed :
        /\ IF arg.h = NULL THEN ~Valid(h) ELSE h = arg.h /\ Valid(h)
        /\ prot' = [prot EXCEPT ![p] = [Handle |-> h, Protocol |-> arg.g, Interface |-> arg.i]]
        /\ ReturnHandle(h)
  BY DEF Install
<1>3. /\ t \in Seq(Frames) /\ Last(t) \in Frames /\ Pop(t) \in Seq(Frames) /\ Last(stack) = Top
  BY <1>1, Waiting
<1>4. a \in MultiArgs(Handles \cup {NULL}) /\ Last(t) = [pc |-> "installMultiple", tpl |-> Last(t).tpl, arg |-> a]
  BY <1>1, <1>3, FrameArgs DEF Installs
<1>5. TypeOK /\ DatabaseSound /\ prot \in [Prots -> Entry \cup {Free}] /\ OpenList' = OpenList
  BY DEF IInv, LinksSound, TypeOK, Entry, Install
<1>6. arg \in [h : Handles \cup {NULL}, g : Guids, i : Interfaces]
  <2>1. Top \in Frames /\ Top.pc = "install"
    BY TopFacts DEF IInv, Install, At
  <2> QED BY <2>1, FrameArgs DEF arg
<1> DEFINE b == [a EXCEPT !.h = h]
<1>7. b.h = h /\ b.list = a.list /\ b.was = a.was /\ b.n = a.n /\ a.n \in Nat
  BY <1>4 DEF MultiArgs
<1>8. stack' = Append(Pop(t), Frame("installMultiple", Last(t).tpl, b)) /\ Status' = "SUCCESS"
  <2>1. stack' = Append(Pop(t), [Last(t) EXCEPT !.arg.h = h]) /\ Status' = "SUCCESS"
    BY <1>1, <1>2 DEF ReturnHandle, Last
  <2>2. [Last(t) EXCEPT !.arg.h = h] = Frame("installMultiple", Last(t).tpl, b)
    BY <1>4 DEF Frame
  <2> QED BY <2>1, <2>2
<1>9. Added(b, 1, b.n, prot', OpenList)
  <2>1. arg.h = a.h /\ arg.g = b.list[b.n][1] /\ arg.i = b.list[b.n][2]
    BY <1>1, <1>7
  <2>2. [Handle |-> h, Protocol |-> arg.g, Interface |-> arg.i] = Wanted(b, b.n)
    BY <1>7, <2>1 DEF Wanted
  <2>3. Wanted(b, b.n) \in Entry /\ Free \notin Entry
    BY <1>6, <2>2, StructureAssumption DEF Entry
  <2>4. a.h # b.h => a.h \notin Handles
    BY <1>2, <1>7, <2>1, StructureAssumption DEF Structures
  <2>5. OfProtocol(prot, b.h, a.list[b.n][1]) = {}
    <3>1. CASE arg.h = NULL
      <4>1. ~Valid(h)
        BY <1>2, <3>1
      <4>2. \A q \in Installed : prot[q].Handle # h
        BY <1>5, <4>1 DEF DatabaseSound
      <4> QED BY <1>7, <4>2 DEF OfProtocol, Installed
    <3>2. CASE arg.h # NULL
      BY <1>1, <1>2, <1>7, <2>1, <3>2
    <3> QED BY <3>1, <3>2
  <2>6. p \in Prots /\ prot[p] = Free /\ OpenList[p] = {}
    BY <1>2, <1>5 DEF DatabaseSound, Installed
  <2>7. prot' = [prot EXCEPT ![p] = Wanted(b, b.n)]
    BY <1>2, <2>2
  <2>8. b.n \in Nat /\ b.n >= 1 /\ Added(a, 1, b.n - 1, prot, OpenList)
    BY <1>1, <1>7
  <2> HIDE DEF a, b
  <2> QED BY <1>5, <1>7, <2>3, <2>4, <2>5, <2>6, <2>7, <2>8, AddedNew
<1> HIDE DEF b, t, a
<1>10. "installMultiple" \in Installs
  BY DEF Installs
<1> QED BY <1>1, <1>3, <1>5, <1>8, <1>9, <1>10, GoesOn

LEMMA RollingBackWorks ==
  ASSUME IInv, RollingBack(stack, prot, OpenList), DisconnectUser \/ RemoveRefused \/ Uninstall
  PROVE  Working(stack', Status', prot', OpenList')
<1> DEFINE t == Pop(stack)
           a == Last(t).arg
<1>1. /\ Len(stack) >= 2 /\ NoMultiple(Pop(t)) /\ Last(t).pc = "installRollback" /\ Top.pc = "uninstall"
      /\ 2 <= a.m /\ a.m <= a.n /\ Added(a, a.m - 1, a.n - 1, prot, OpenList)
      /\ arg.h = a.h /\ prot[arg.p] = Wanted(a, a.m - 1)
  BY Waiting DEF RollingBack, arg
<1>2. t \in Seq(Frames) /\ Last(t) \in Frames /\ Last(t) = stack[Len(stack) - 1]
  BY <1>1, Waiting
<1>3. a.m \in Nat /\ a.n \in Nat
  <2>1. a \in MultiArgs(Handles \cup {NULL})
    BY <1>1, <1>2, FrameArgs DEF Installs
  <2> QED BY <2>1 DEF MultiArgs
<1>4. /\ Removed(arg) \in Installed /\ arg.p \in Installed
      /\ prot[Removed(arg)].Handle = arg.h /\ prot[Removed(arg)].Protocol = prot[arg.p].Protocol
  BY <1>1, RemovedFacts
<1>5. prot \in [Prots -> Entry \cup {Free}] /\ OpenList \in [Prots -> SUBSET OpenData]
  BY DEF IInv, TypeOK, Entry
<1> HIDE DEF a, t
<1> DEFINE p == arg.p
           x == a.list[a.m - 1][1]
<1>6. Alone(prot, OpenList, a.h, x) /\ p \in OfProtocol(prot, a.h, x) /\ Removed(arg) \in OfProtocol(prot, a.h, x)
  <2>1. a.m - 1 \in (a.m - 1)..(a.n - 1)
    BY <1>1, <1>3
  <2>2. Alone(prot, OpenList, a.h, x)
    BY <1>1, <2>1 DEF Added
  <2>3. prot[p].Handle = a.h /\ prot[p].Protocol = x
    BY <1>1 DEF Wanted
  <2> QED BY <1>1, <1>4, <2>2, <2>3 DEF OfProtocol, Installed
<1>7. Removed(arg) = p /\ \A o \in OpenList[p] : o.attr = {"USE"}
  BY <1>6 DEF Alone
<1>8. ByDriver(p) = {} /\ Kept(p) = {}
  BY <1>7 DEF ByDriver, Kept
<1>9. Uninstall
  BY <1>8 DEF DisconnectUser, RemoveRefused
<1>10. /\ prot' = [prot EXCEPT ![p] = Free] /\ OpenList' = [OpenList EXCEPT ![p] = {}, ![p] = {}]
       /\ stack' = t
  BY <1>7, <1>9 DEF Uninstall, Return, t
<1>11. Added(a, a.m, a.n - 1, prot', OpenList')
  <2>1. PICK m \in Nat : m = a.m - 1
    BY <1>1, <1>3
  <2>2. PICK n \in Nat : n = a.n - 1
    BY <1>1, <1>3
  <2>3. 1 <= m /\ m <= n /\ m + 1 = a.m
    BY <1>1, <1>3, <2>1, <2>2
  <2>4. p \in Prots /\ prot[p] # Free /\ prot[p] = Wanted(a, m) /\ Added(a, m, n, prot, OpenList)
    BY <1>1, <1>4, <2>1, <2>2 DEF Installed
  <2>5. \A q \in Prots : OpenList'[q] \subseteq OpenList[q]
    BY <1>5, <1>10
  <2> HIDE DEF p
  <2>6. Added(a, m + 1, n, prot', OpenList')
    BY <1>5, <1>10, <2>3, <2>4, <2>5, AddedLess
  <2> QED BY <2>2, <2>3, <2>6
<1>12. Working(t, Status', prot', OpenList')
  BY <1>1, <1>11 DEF Working, Installs, a
<1> QED BY <1>10, <1>12
-----------------------------------------------------------------------------
(* The steps together.                                                     *)

LEMMA MultipleStep ==
  ASSUME IInv, MultipleInv, [Next]_vars
  PROVE  MultipleInv'
<1>1. CASE NoMultiple(stack)
  <2>1. CASE \E list \in Multiple, h \in Handles \cup {NULL} : InstallMultiple(h, list)
    BY <1>1, <2>1, MultipleStarts
  <2>2. CASE CoreStep
    BY <1>1, <2>2, NoneCore DEF MultipleInv
  <2>3. CASE ~CoreStep /\ ~\E list \in Multiple, h \in Handles \cup {NULL} : InstallMultiple(h, list)
    BY <1>1, <2>3, NoneService DEF MultipleInv
  <2> QED BY <2>1, <2>2, <2>3
<1>2. CASE UNCHANGED vars
  <2>1. stack' = stack /\ Status' = Status /\ prot' = prot /\ OpenList' = OpenList
    BY <1>2 DEF vars, control, entries
  <2> QED BY <2>1 DEF MultipleInv
<1>3. Last(stack) = Top
  BY DEF Last, Top
<1>4. CASE Working(stack, Status, prot, OpenList) /\ ~UNCHANGED vars
  <2>1. Top.pc \in Installs
    BY <1>3, <1>4 DEF Working
  <2>2. Top.tpl = EFI_TPL_NOTIFY
    BY <2>1, MultiFacts
  <2>3. Top.pc \notin {"install", "uninstall"}
    BY <2>1 DEF Installs
  <2>4. CheckDevicePath \/ InstallOne \/ InstallMultipleEnds \/ InstallRollback
    BY <1>4, <2>1, <2>2, <2>3, OnlyMultiple
  <2>5. CheckDevicePath \/ InstallOne => MultipleInv'
    BY <1>4, CheckDevicePathWorks, InstallOneWorks DEF MultipleInv
  <2>6. InstallMultipleEnds \/ InstallRollback => MultipleInv'
    BY <1>4, InstallMultipleEndsWorks, InstallRollbackWorks
  <2> QED BY <2>4, <2>5, <2>6
<1>5. CASE Installing(stack, prot, OpenList) /\ ~UNCHANGED vars
  <2>1. Top.pc = "install" /\ Top.tpl = EFI_TPL_NOTIFY
    BY <1>3, <1>5 DEF Installing
  <2>2. Install \/ InstallFails
    BY <1>5, <2>1, OnlyMultiple DEF Installs
  <2> QED BY <1>5, <2>2, InstallingWorks, InstallingFails DEF MultipleInv
<1>6. CASE RollingBack(stack, prot, OpenList) /\ ~UNCHANGED vars
  <2>1. Top.pc = "uninstall" /\ Top.tpl = EFI_TPL_NOTIFY
    BY <1>3, <1>6 DEF RollingBack
  <2>2. DisconnectUser \/ RemoveRefused \/ Uninstall
    BY <1>6, <2>1, OnlyMultiple DEF Installs
  <2> QED BY <1>6, <2>2, RollingBackWorks DEF MultipleInv
<1> QED BY <1>1, <1>2, <1>4, <1>5, <1>6 DEF MultipleInv

LEMMA RolledBack ==
  ASSUME IInv, MultipleInv
  PROVE  InstallAllOrNothing
<1> SUFFICES ASSUME Top.pc = "installRollback", arg.m = arg.n PROVE Contents = arg.was
  BY DEF InstallAllOrNothing, At
<1>1. Last(stack) = Top /\ "installRollback" \in Installs
  BY DEF Last, Top, Installs
<1>2. ~NoMultiple(stack)
  BY <1>1, NoneBuilt DEF IInv
<1>3. Working(stack, Status, prot, OpenList)
  BY <1>1, <1>2 DEF MultipleInv, Installing, RollingBack
<1>4. Added(arg, arg.m, arg.n - 1, prot, OpenList)
  BY <1>1, <1>3 DEF Working, arg
<1>5. arg.m \in Nat
  BY <1>1, MultiFacts DEF MultiArgs
<1>6. arg.m..(arg.n - 1) = {}
  BY <1>5
<1>7. WantedIn(arg, arg.m, arg.n - 1) = {}
  BY <1>6 DEF WantedIn
<1> QED BY <1>4, <1>7 DEF Added, ContentsOf, Contents, Installed

\* An InstallMultipleProtocolInterfaces that fails at any argument, in the device path
\* check or in an install, has uninstalled everything it installed and nothing else
\* before it returns, whatever was installed, opened and connected before.
THEOREM MultipleRollsBack ==
  ASSUME NothingRemovedInUse
  PROVE  Spec => []MultipleSound
<1>1. Init => MultipleInv
  <2>1. ASSUME Init PROVE NoMultiple(stack)
    <3>1. stack = <<Frame("app", EFI_TPL_APPLICATION, NULL)>>
      BY <2>1 DEF Init
    <3>2. Len(stack) = 1 /\ stack[1].pc = "app"
      BY <3>1 DEF Frame
    <3> QED BY <3>2 DEF NoMultiple, Installs
  <2> QED BY <2>1 DEF MultipleInv
<1>2. IInv /\ MultipleInv /\ [Next]_vars => MultipleInv'
  BY MultipleStep
<1>3. IInv /\ MultipleInv => MultipleSound
  BY RolledBack DEF IInv, LinksSound, MultipleSound
<1> QED BY <1>1, <1>2, <1>3, CallsInvariant, PTL DEF Spec
=============================================================================
