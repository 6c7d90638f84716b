---------------------------- MODULE MCDispatcher ----------------------------
EXTENDS Dispatcher, TLC

CONSTANTS x, pre, post, a, n, v1, v2, g1, g2, ext

Op(name)      == [op |-> name, guid |-> g1]
On(name, arg) == [op |-> name, guid |-> arg]

Name == [d \in Drivers |-> ToString(d)]

\* x is scheduled on request and needs g1; pre goes before x and post after it; a is listed
\* a priori and has no expression.
Sections ==
  [d \in Drivers |->
     CASE d = x -> <<Op("SOR"), On("PUSH", g1), Op("END")>>
       [] d = pre -> <<On("BEFORE", Name[x]), Op("END")>>
       [] d = post -> <<On("AFTER", Name[x]), Op("END")>>
       [] OTHER -> <<>>]
TwoVolumes   == [v \in Volumes |-> IF v = v1 THEN <<x, post>> ELSE <<pre, a, n>>]
AprioriOfTwo == [v \in Volumes |-> IF v = v1 THEN <<>> ELSE <<Name[a]>>]

\* A guided driver in an a priori list.
OneVolume    == [v \in Volumes |-> <<a>>]
AprioriOfOne == [v \in Volumes |-> <<Name[a]>>]
\* A driver in an a priori list that is also scheduled on request.
OnRequest    == [d \in Drivers |-> <<Op("SOR"), Op("TRUE"), Op("END")>>]

-----------------------------------------------------------------------------
\* The machine agrees with the meaning of expressions, for every expression of at
\* most two levels and every set of protocols, patched or not.
Leaves == {<<On("PUSH", g)>> : g \in {g1, g2}} \cup {<<Op("TRUE")>>, <<Op("FALSE")>>}
Holds(leaf, have) == IF leaf[1].op = "PUSH" THEN leaf[1].guid \in have ELSE leaf[1].op = "TRUE"

ASSUME MachineIsCorrect ==
  \A p, q, r \in Leaves, have, later \in SUBSET {g1, g2} :
    LET both  == p \o q \o <<Op("AND")>> \o r \o <<Op("NOT"), Op("OR"), Op("END")>>
        value == (Holds(p, have) /\ Holds(q, have)) \/ ~Holds(r, have)
        Old(leaf, set) == Holds(leaf, have \cup set)
    IN  /\ Evaluate(both, have) = value
        /\ Evaluate(<<Op("SOR")>> \o both, have) = value
        /\ Evaluate(Patched(both, have), later) =
             ((Old(p, later) /\ Old(q, later)) \/ ~Old(r, later))
        /\ ~Evaluate(p \o <<Op("AND"), Op("END")>>, have)
        /\ ~Evaluate(p, have) /\ ~Evaluate(p \o <<Op("SOR"), Op("END")>>, have)
=============================================================================
