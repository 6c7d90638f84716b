----------------------------- MODULE MCDxeEvent -----------------------------
EXTENDS DxeEvent, TLC

CONSTANTS e1, e2, g1

Signal(tpl)      == [type |-> {"SIGNAL"}, tpl |-> tpl, group |-> NoGroup]
GroupSignal(tpl) == [type |-> {"SIGNAL"}, tpl |-> tpl, group |-> g1]
Wait(tpl)        == [type |-> {"WAIT"}, tpl |-> tpl, group |-> NoGroup]
TimerSignal(tpl) == [type |-> {"TIMER", "SIGNAL"}, tpl |-> tpl, group |-> NoGroup]
PlainTimer       == [type |-> {"TIMER"}, tpl |-> 0, group |-> NoGroup]

SignalClasses   == {Signal(EFI_TPL_CALLBACK), GroupSignal(EFI_TPL_CALLBACK),
                    GroupSignal(EFI_TPL_NOTIFY), Wait(EFI_TPL_CALLBACK)}
TimerClasses    == {TimerSignal(EFI_TPL_CALLBACK), PlainTimer}
MixedClasses    == {Signal(EFI_TPL_CALLBACK), TimerSignal(EFI_TPL_NOTIFY)}

Symmetry == Permutations(UserEvents)

NoWait  == <<>>
WaitOne == <<e1>>
=============================================================================
