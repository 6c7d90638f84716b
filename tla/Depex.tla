-------------------------------- MODULE Depex --------------------------------
(***************************************************************************)
(* Dependency expressions (src/Foundation/Core/Dxe/Dispatcher/Dependency.c):*)
(* a sequence of instructions for a machine with a stack of Booleans.  An  *)
(* instruction is [op, guid]; BEFORE and AFTER name a file, PUSH a         *)
(* protocol, and REPLACE_TRUE is what a PUSH that succeeded once becomes.  *)
(***************************************************************************)
EXTENDS Integers, Sequences

Operations == {"BEFORE", "AFTER", "SOR", "PUSH", "REPLACE_TRUE", "AND", "OR", "NOT",
               "TRUE", "FALSE", "END"}

\* The first instruction decides how CorePreProcessDepex files the driver.
StartsWith(depex, op) == depex # <<>> /\ depex[1].op = op

-----------------------------------------------------------------------------
(* The machine of CoreIsSchedulable: value is "none" until it returns.     *)

Machine(stack, value) == [stack |-> stack, value |-> value]
Returns(value) == Machine(<<>>, value)

PushBool(stack, b) == Machine(Append(stack, b), "none")
Down(stack, n) == SubSeq(stack, 1, Len(stack) - n)
TopOf(stack)   == stack[Len(stack)]
\* An operator on the n topmost values; PopBool fails on an empty stack.
PopBool(stack, n, after) == IF Len(stack) < n THEN Returns("FALSE") ELSE after

Execute(m, ins, first, have) ==
  LET s == m.stack
      b == TopOf(s)
      c == s[Len(s) - 1]
  IN  CASE ins.op = "SOR"          -> IF first THEN m ELSE Returns("FALSE")
        [] ins.op = "PUSH"         -> PushBool(s, ins.guid \in have)
        [] ins.op = "REPLACE_TRUE" -> PushBool(s, TRUE)
        [] ins.op \in {"TRUE", "FALSE"} -> PushBool(s, ins.op = "TRUE")
        [] ins.op = "AND" -> PopBool(s, 2, PushBool(Down(s, 2), b /\ c))
        [] ins.op = "OR"  -> PopBool(s, 2, PushBool(Down(s, 2), b \/ c))
        [] ins.op = "NOT" -> PopBool(s, 1, PushBool(Down(s, 1), ~b))
        [] ins.op = "END" -> PopBool(s, 1, Returns(IF b THEN "TRUE" ELSE "FALSE"))
        [] OTHER          -> Returns("FALSE")

\* The machine after k instructions.
Run(depex, have) ==
  LET m[k \in 0..Len(depex)] ==
        IF k = 0 THEN Machine(<<>>, "none")
        ELSE LET before == m[k - 1]
             IN  IF before.value # "none" THEN before
                 ELSE Execute(before, depex[k], k = 1, have)
  IN  m

\* An expression that does not end returns FALSE when DepexSize is reached.
Evaluate(depex, have) == Run(depex, have)[Len(depex)].value = "TRUE"

\* Each PUSH that was executed and found its protocol is patched.
Patched(depex, have) ==
  [k \in 1..Len(depex) |->
     IF /\ depex[k].op = "PUSH" /\ depex[k].guid \in have
        /\ Run(depex, have)[k - 1].value = "none"
     THEN [depex[k] EXCEPT !.op = "REPLACE_TRUE"] ELSE depex[k]]
=============================================================================
