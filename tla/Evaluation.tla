----------------------------- MODULE Evaluation -----------------------------
(* What the CLR does with the IL of a method, as far as the engine relies on  *)
(* it: the evaluation stack, jumps, the local the engine adds, exceptions and *)
(* returns. The method is fixed once it runs. A value is named by the         *)
(* instruction that has pushed it.                                            *)
EXTENDS Integers, Sequences

CONSTANT Null   \* no instruction and no value

VARIABLES
    protected,  \* the instructions of the try range
    handler,    \* the first instruction of its handler
    method,     \* the instructions in their order: records of an id, an opcode and the targets
    running,
    at,         \* the id of the instruction to execute
    stack, slot,
    outcome     \* "none", "thrown", "invalid", "returned", "tailcalled"; the last two with a value

vars == <<protected, handler, method, running, at, stack, slot, outcome>>

Pending == [how |-> "none", value |-> Null]
Ended(how, value) == outcome' = [how |-> how, value |-> value] /\ at' = Null /\ stack' = <<>> /\ UNCHANGED slot

Position(id) == CHOOSE i \in DOMAIN method : method[i].id = id
Following(id) == IF Position(id) < Len(method) THEN method[Position(id) + 1].id ELSE Null
OpAt(i) == IF i \in DOMAIN method THEN method[i].op ELSE "none"

Top == stack[Len(stack)]
Popped == SubSeq(stack, 1, Len(stack) - 1)

Init ==
    /\ running = FALSE
    /\ at = Null
    /\ stack = <<>>
    /\ slot = Null
    /\ outcome = Pending

\* Until it runs, the method may be edited.
Edited == ~running /\ UNCHANGED <<running, at, stack, slot, outcome>>

Start ==
    /\ ~running
    /\ running' = TRUE
    /\ at' = method[1].id
    /\ UNCHANGED <<protected, handler, method, stack, slot, outcome>>

Continue(next, newStack) == at' = next /\ stack' = newStack /\ UNCHANGED <<slot, outcome>>

\* A tail call is left for good, and has to be followed by a return, with at most
\* a pop in between.
TailCall(i) ==
    IF OpAt(i + 1) = "ret" \/ (OpAt(i + 1) = "pop" /\ OpAt(i + 2) = "ret")
    THEN Ended("tailcalled", IF OpAt(i + 1) = "ret" THEN method[i].id ELSE Null)
    ELSE Ended("invalid", Null)

Execute(i) ==
    LET ins == method[i]
        next == Following(ins.id)
    IN
    CASE ins.op \in {"ld", "ldloc"} ->
            Continue(next, Append(stack, IF ins.op = "ld" THEN ins.id ELSE slot))
      [] ins.op = "call" ->
            IF OpAt(i - 1) = "tail" THEN TailCall(i) ELSE Continue(next, Append(stack, ins.id))
      [] ins.op = "stloc" -> at' = next /\ stack' = Popped /\ slot' = Top /\ UNCHANGED outcome
      [] ins.op = "pop" -> Continue(next, Popped)
      [] ins.op = "br" -> \E t \in ins.to : Continue(t, stack)
      [] ins.op \in {"brtrue", "switch"} -> \E t \in ins.to \cup {next} : Continue(t, Popped)
      [] ins.op = "leave" -> \E t \in ins.to : Continue(t, <<>>)
      [] ins.op = "throw" ->
            IF ins.id \in protected THEN Continue(handler, <<Top>>) ELSE Ended("thrown", Null)
      [] ins.op = "ret" -> Ended("returned", IF stack = <<>> THEN Null ELSE Top)
      [] ins.op \in {"tail", "probe"} -> Continue(next, stack)

\* One instruction is executed.
Step ==
    /\ running
    /\ at # Null
    /\ Execute(Position(at))
    /\ UNCHANGED <<protected, handler, method, running>>

Next == Edited \/ Start \/ Step

Spec == Init /\ [][Next]_vars
=============================================================================
