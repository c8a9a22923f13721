------------------------ MODULE MCInstructionGraph ------------------------
(* Small instances of InstructionGraph. *)
EXTENDS InstructionGraph, TLC

CONSTANTS jmp, swi, tryEnd, hnd, baseJmp, baseRet, ins, insJmp

\* A branch over a switch, a try range of two instructions, and a handler.
MCOriginal == <<jmp, swi, tryEnd, hnd>>
MCBaseline == <<baseJmp, baseRet>>
MCNew == {ins, insJmp}
MCBranches == {jmp, insJmp, baseJmp}
MCSwitches == {swi}
MCTargets == jmp :> <<tryEnd>> @@ insJmp :> <<Null>> @@ baseJmp :> <<baseRet>> @@ swi :> <<tryEnd, hnd>>

MCSizes == [i \in {jmp, swi, tryEnd, hnd, baseJmp, baseRet, ins, insJmp} |-> IF i = ins THEN 9 ELSE 1]
MCClauses == <<[f \in Fields |-> CASE f = "tryFirst" -> swi [] f = "tryLast" -> tryEnd [] f = "filterFirst" -> Null [] OTHER -> hnd]>>
=============================================================================
