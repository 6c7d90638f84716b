------------------------------ MODULE MCPeiCore ------------------------------
(* Two volumes with three PEIMs; of each kind of descriptor those that meet. *)
EXTENDS PeiCore

PpiSet     == {"p1", "p2", "p3", "p4", "s", "bad", "findFv", "memory"}
NotifySet  == {"security", "c1", "c2", "d1", "d2", "badNotify", "dm"}
GuidOf     == [d \in PpiSet \cup NotifySet |->
                CASE d \in {"p1", "p3", "p4", "c1", "d1"} -> "g1"
                  [] d \in {"p2", "c2", "d2"}       -> "g2"
                  [] d \in {"s", "security"}         -> "s"
                  [] d = "dm"                       -> "memory"
                  [] OTHER                          -> d]
LevelOf    == [n \in NotifySet |-> IF n \in {"c1", "c2", "badNotify"} THEN "CALLBACK" ELSE "DISPATCH"]
Installs   == {<<"p1">>, <<"p2", "findFv", "s">>, <<"p4", "bad">>}
Registrations == {<<"d1", "c2">>, <<"c1">>, <<"d2">>, <<"d2", "badNotify">>}
Listeners  == {<<"dm">>}
Replaces   == {<<"p2", "p3">>}
FilesOf    == [v \in {"boot", "fv"} |-> IF v = "boot" THEN <<"m1", "m2">> ELSE <<"m3">>]
Volumes    == <<"fv", "boot">>
Push(g)    == [op |-> "PUSH", guid |-> g]
Op(o)      == [op |-> o]
Depexes    == [m \in {"m1", "m2", "m3"} |->
                CASE m = "m1" -> NULL
                  [] m = "m2" -> <<Push("g1"), Push("memory"), Op("AND"), Op("END")>>
                  [] m = "m3" -> <<Push("g1"), Op("NOT"), Push("g2"), Op("OR"), Op("END")>>]
CallbacksOnly == [l \in Levels |-> IF l = "CALLBACK" THEN {"CALLBACK"} ELSE Levels]
AnyLevel      == [l \in Levels |-> Levels]
NoTable       == <<>>
=============================================================================
