------------------------------ MODULE MCPageMap ------------------------------
(* Small memories for TLC: two tested regions that adjoin but differ in    *)
(* their attributes, and an untested one that continues the second.        *)
EXTENDS PageMap

Region(start, end, attribute) == [Start |-> start, End |-> end, Attribute |-> attribute]

TestedRegions   == {Region(0, 3, "WB"), Region(4, 5, "UC")}
UntestedRegions == {Region(6, 7, "UC")}

\* Four pieces of untested memory that do not merge.
ManyUntested == {Region(7, 7, "WB"), Region(9, 9, "WB"), Region(11, 11, "WB"), Region(13, 14, "WB")}
=============================================================================
