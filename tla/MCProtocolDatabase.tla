------------------------- MODULE MCProtocolDatabase -------------------------
EXTENDS ProtocolDatabase, TLC

CONSTANTS h1, h2, g1, g2, i1, r1, r2

AtCallback == [r \in Regs |-> EFI_TPL_CALLBACK]
AtNotify   == [r \in Regs |-> EFI_TPL_NOTIFY]
BothTpls   == [r \in Regs |-> IF r = r1 THEN EFI_TPL_CALLBACK ELSE EFI_TPL_NOTIFY]

\* A device path last and first, and one that the call has just installed itself.
PathLists   == {<< <<g1, i1>>, <<DevicePathGuid, i1>> >>, << <<DevicePathGuid, i1>>, <<g1, i1>> >>,
                << <<g1, i1>>, <<DevicePathGuid, i1>>, <<DevicePathGuid, i1>> >>}
DoubleLists == {<< <<g1, i1>>, <<g2, i1>> >>}

OpenAttributes    == {{"CHILD"}, {"BY_DRIVER"}, {"EXCLUSIVE"}, {"BY_DRIVER", "EXCLUSIVE"}}
DriverOnly        == {{"BY_DRIVER"}}
NoExclusive       == {{"CHILD"}, {"BY_DRIVER"}}
ExclusiveOnly     == {{"EXCLUSIVE"}}

Symmetry == Permutations(Prots) \cup Permutations(Handles) \cup Permutations(Agents)
=============================================================================
