----------------------------- MODULE MCVariable -----------------------------
EXTENDS Variable

CONSTANTS boot, os, temp, d1, d2

NvRt == {"NV", "BS", "RT"}
\* A variable of the boot manager, one that the operating system may set as well, and a
\* volatile one.
OneStoreEach == [n \in Names |-> CASE n = boot -> {{"NV", "BS"}}
                                   [] n = os   -> {NvRt}
                                   [] n = temp -> {{"BS"}}]
\* The boot manager sets its variable with and without the non-volatile attribute.
BothStores == [OneStoreEach EXCEPT ![boot] = {{"NV", "BS"}, {"BS"}}]
\* The boot manager sets its variable with and without runtime access.
WithAndWithoutRuntime == [OneStoreEach EXCEPT ![boot] = {{"NV", "BS"}, NvRt}]
\* A copy of d2 is larger than one of d1.
TwoSizes == [d \in Data |-> IF d = d1 THEN 2 ELSE 3]
\* Room for three copies in flash and for two in memory.
Room == [v \in Bases |-> IF v = "Volatile" THEN 6 ELSE 8]
=============================================================================
