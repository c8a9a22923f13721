---------------------------- MODULE SingleReturn ----------------------------
(* The code the engine itself makes: CSingleRetDefaultInstrumentation, which  *)
(* leads all returns of a method through one, and CalculateMaxStack, which    *)
(* fills in the stack size of the rendered method. Instrumentation methods    *)
(* apply the former and put a probe where all returns come by; the method is  *)
(* then rendered and runs, as Evaluation says. The value that is returned is  *)
(* kept in a local of LocalVariables. Any valid method body that fits one of  *)
(* the given shapes is instrumented.                                          *)
EXTENDS Integers, Sequences, FiniteSets, FiniteSetsExt

CONSTANTS
    Shapes,     \* which method bodies there are: records of Shape
    MaxDepth,   \* bound on the stack of the original method
    MaxApplied, \* bound on the calls of ApplySingleRetDefaultInstrumentation
    Types,      \* the types of locals, "value" among them
    MaxLocals, Garbled,
    Null

Ops == {"ld", "call", "tail", "pop", "br", "brtrue", "switch", "leave", "throw", "ret"}
NewOps == {"stloc", "ldloc", "probe"}

\* The length, the opcodes it may consist of, where jumps may lead, what it returns,
\* the ends of its try range and of the handler that follows, 0 without one, and
\* whether instrumentation methods use its locals as well.
Shape == [len : Nat, ops : SUBSET Ops, targets : SUBSET Nat,
          returns : {"void", "value", "byref"}, tryEnd : Nat, handlerEnd : Nat, locals : BOOLEAN]

\* A method has instructions, jumps lead to those, and a handler of some follows a try range.
ASSUME ShapesAssumption ==
    /\ Shapes \subseteq Shape
    /\ \A s \in Shapes :
         /\ s.len > 0
         /\ s.targets \subseteq 1 .. s.len
         /\ s.tryEnd > 0 => s.tryEnd < s.handlerEnd /\ s.handlerEnd <= s.len
ASSUME BoundsAssumption == MaxDepth \in Nat /\ MaxApplied \in Nat
\* What stands for no signature and for one that cannot be parsed is not a signature.
ASSUME TypesAssumption ==
    "value" \in Types /\ Null \notin Seq(Types) /\ Garbled \notin Seq(Types) /\ Null # Garbled
\* What stands for no instruction is not the name of one.
ASSUME NullAssumption == Null \notin {"il", "br", "stloc", "probe", "ret", "ldloc"} \X Nat

VARIABLES
    shape,
    code,       \* the original instructions
    depths,     \* the stack depth before each of them
    graph,      \* the instructions as they are now
    applied,    \* how often the single return was applied
    target,     \* the last result of GetBranchTargetInstruction
    maxStack,   \* the MaxStack of the rendered header
    running, at, stack, slot, outcome,
    sigToken, initialized, originalLocalsCount, typesToAdd, replacementSig, given, overwritten,
    seen        \* history: how often a probe has been executed

genVars == <<shape, code, depths>>
runVars == <<running, at, stack, slot, outcome>>
localVars == <<sigToken, initialized, originalLocalsCount, typesToAdd, replacementSig, given, overwritten>>
vars == <<genVars, graph, applied, target, maxStack, runVars, localVars, seen>>

\* Instructions are named by what they are and the original they belong to.
Il(i) == <<"il", i>>
Instruction(id, op, to) == [id |-> id, op |-> op, to |-> to]
NewRet == <<"ret", 0>>
NewLdloc == <<"ldloc", 0>>
Stloc(id) == <<"stloc", id[2]>>
Br(id) == <<"br", id[2]>>
Probe(id) == <<"probe", id[2]>>
IsNew(id) == id[2] = 0

\* The exception clause; instructions the engine adds are outside of it.
RegionAt(i) ==
    IF i <= shape.tryEnd THEN "try" ELSE IF i <= shape.handlerEnd THEN "handler" ELSE "body"
Protected == {Il(i) : i \in 1 .. shape.tryEnd}
HandlerFirst == IF shape.tryEnd > 0 THEN Il(shape.tryEnd + 1) ELSE Null

Run == INSTANCE Evaluation WITH method <- graph, protected <- Protected, handler <- HandlerFirst
Locals == INSTANCE LocalVariables

-----------------------------------------------------------------------------
(* Stack depths.                                                             *)

RetImpact == IF shape.returns = "void" THEN 0 ELSE -1

\* CInstruction::GetStackImpact. Calls return a value and have no parameters here.
GetStackImpact(op, depth) ==
    CASE op = "leave" -> -depth
      [] op \in {"ld", "ldloc", "call"} -> 1
      [] op \in {"pop", "brtrue", "switch", "throw", "stloc"} -> -1
      [] op = "ret" -> RetImpact
      [] op \in {"br", "tail", "probe"} -> 0

FallsThrough(op) == op \notin {"br", "leave", "throw", "ret"}

\* A DWORD that goes below zero wraps. Like 2 ^ 32, which is past TLC's integers,
\* Dword is a multiple of Width and far above any depth that did not wrap.
Dword == 2 ^ 30
Added(depth, impact) == (depth + impact) % Dword

\* The MaxStack of the header has 16 bits: the rendering truncates the result.
Width == 2 ^ 16
MaxStackField(depth) == depth % Width

\* IsFirstInstructionInCatchOrFilter: the stack there is the exception object.
HandlerDepth(id, depth) == IF id = HandlerFirst THEN 1 ELSE depth

\* Mutant: the depth on a jump is forgotten.
ForgottenAt(id, depth, atTargets) == depth

\* A jump that came before may have brought more.
DepthAt(id, depth, atTargets) ==
    IF id \in DOMAIN atTargets THEN Max({depth, atTargets[id]}) ELSE depth

\* insertOrUpdateStackDepthMap for the targets of an instruction.
Noted(atTargets, to, depth) ==
    [t \in DOMAIN atTargets \cup to |->
        IF t \notin to THEN atTargets[t]
        ELSE IF t \in DOMAIN atTargets THEN Max({atTargets[t], depth}) ELSE depth]

\* CInstructionGraph::CalculateMaxStack: one pass over the instructions g.
CalculateMaxStack(g) ==
    LET Walk[i \in 0 .. Len(g)] ==
            IF i = 0 THEN [depth |-> 0, max |-> 0, atTargets |-> <<>>]
            ELSE LET w == Walk[i - 1]
                     ins == g[i]
                     before == HandlerDepth(ins.id, DepthAt(ins.id, w.depth, w.atTargets))
                     first == IF ins.id = HandlerFirst THEN Max({w.max, 1}) ELSE w.max
                     after == Added(before, GetStackImpact(ins.op, before))
                 IN  [depth |-> after,
                      max |-> Max({first, after}),
                      atTargets |-> IF ins.to = {} THEN w.atTargets ELSE Noted(w.atTargets, ins.to, after)]
    IN  Walk[Len(g)].max

-----------------------------------------------------------------------------
(* Single return.                                                            *)

OpOf(g, i) == IF i \in DOMAIN g THEN g[i].op ELSE "none"

\* Mutant: every return is replaceable.
EveryRet(g) == SelectSeq(g, LAMBDA ins : ins.op = "ret")

\* GetReplaceableRets: all returns but those after a tail call, with at most a pop between.
GetReplaceableRets(g) ==
    LET AfterTailCall(i) ==
            LET call == IF OpOf(g, i - 1) = "pop" THEN i - 2 ELSE i - 1
            IN  OpOf(g, call) = "call" /\ OpOf(g, call - 1) = "tail"
        Replaceable == {i \in DOMAIN g : g[i].op = "ret" /\ ~AfterTailCall(i)}
        Nth[n \in 0 .. Len(g)] ==
            IF n = 0 THEN <<>> ELSE IF n \in Replaceable THEN Append(Nth[n - 1], g[n]) ELSE Nth[n - 1]
    IN  Nth[Len(g)]

Index(g, id) == CHOOSE i \in DOMAIN g : g[i].id = id

Retargeted(g, old, new) == [i \in DOMAIN g |-> [g[i] EXCEPT !.to = {IF t = old THEN new ELSE t : t \in @}]]

\* CInstructionGraph::InsertBeforeAndRetargetOffsets and Replace, with the jumps.
InsertBeforeAndRetargetOffsets(g, id, ins) ==
    LET r == Retargeted(g, id, ins.id)
        i == Index(g, id)
    IN  SubSeq(r, 1, i - 1) \o <<ins>> \o SubSeq(r, i, Len(r))
Replace(g, id, ins) == [Retargeted(g, id, ins.id) EXCEPT ![Index(g, id)] = ins]

\* The value is kept in a local, unless there is none or it cannot be stored.
StoresRetVal == shape.returns = "value"
BranchTarget == IF StoresRetVal THEN NewLdloc ELSE NewRet

\* An old return becomes a branch, after a store of the value.
ReplaceRet(g, id) ==
    LET b == Replace(g, id, Instruction(Br(id), "br", {BranchTarget}))
    IN  IF StoresRetVal
        THEN InsertBeforeAndRetargetOffsets(b, Br(id), Instruction(Stloc(id), "stloc", {}))
        ELSE b

\* The new return, after a load of the local.
WithNewRet(g) == Append(g, Instruction(NewRet, "ret", {}))
WithNewLdloc(g) ==
    IF StoresRetVal
    THEN InsertBeforeAndRetargetOffsets(g, NewRet, Instruction(NewLdloc, "ldloc", {}))
    ELSE g

\* Mutant: the loop over the returns ends one too early.
WithSingleRetButLast(g, rets) ==
    LET After[n \in 0 .. Len(rets) - 1] ==
            IF n = 0 THEN WithNewLdloc(WithNewRet(g)) ELSE ReplaceRet(After[n - 1], rets[n].id)
    IN  After[Len(rets) - 1]

WithSingleRet(g, rets) ==
    LET After[n \in 0 .. Len(rets)] ==
            IF n = 0 THEN WithNewLdloc(WithNewRet(g)) ELSE ReplaceRet(After[n - 1], rets[n].id)
    IN  After[Len(rets)]

HasNewRet(g) == \E i \in DOMAIN g : g[i].id = NewRet

\* No local could be added after the new return was.
HalfApplied == HasNewRet(graph) /\ Len(GetReplaceableRets(graph)) > 1

\* ApplySingleRetDefaultInstrumentation of a new object, which has no target before.
\* Whoever got an error does not call again.
ApplySingleRetDefaultInstrumentation ==
    LET rets == GetReplaceableRets(graph) IN
    /\ Len(code) = shape.len /\ ~running
    /\ ~HalfApplied
    /\ applied < MaxApplied
    /\ applied' = applied + 1
    /\ \/ /\ Len(rets) <= 1
          /\ target' = Null
          /\ UNCHANGED <<graph, localVars>>
       \/ /\ Len(rets) > 1
          /\ target' = BranchTarget
          /\ graph' = WithSingleRet(graph, rets)
          /\ IF StoresRetVal THEN Locals!AddLocal("value") ELSE UNCHANGED localVars
       \/ /\ Len(rets) > 1 /\ StoresRetVal /\ ~Locals!CanInitialize
          /\ target' = Null
          /\ graph' = WithNewRet(graph)
          /\ UNCHANGED localVars
    /\ UNCHANGED <<genVars, maxStack, runVars, seen>>

-----------------------------------------------------------------------------
(* The method bodies that compilers make.                                    *)

\* The depth a jump or the instruction before brings to position i.
Arriving(i) ==
    LET After(j) == depths[j] + GetStackImpact(code[j].op, depths[j]) IN
    {After(j) : j \in {j \in DOMAIN code :
        Il(i) \in code[j].to \/ (j = i - 1 /\ FallsThrough(code[j].op))}}

Start(i) == i = 1 \/ i = shape.tryEnd + 1 \/ i = shape.handlerEnd + 1

\* The depth before position i, if the instructions before agree on one. Where only
\* a later jump can lead, the stack is empty.
EntryDepths(i) ==
    IF Il(i) = HandlerFirst THEN IF Arriving(i) = {} THEN {1} ELSE {}
    ELSE IF Arriving(i) = {} THEN {0}
    ELSE IF Cardinality(Arriving(i)) = 1 THEN Arriving(i) ELSE {}

Jumps == {"br", "brtrue", "switch", "leave"}

\* Jumps stay in their range, except that leave leads out of the ranges; jumps back
\* agree with the depth there, and none leads between a prefix and its call.
JumpFits(i, op, t, depth, after) ==
    /\ IF op = "leave" THEN RegionAt(i) # "body" /\ RegionAt(t) = "body"
                        ELSE RegionAt(t) = RegionAt(i)
    /\ op # "leave" => Il(t) # HandlerFirst
    /\ t <= i => after = Append(depths, depth)[t]
    /\ t > 1 /\ t - 1 < i => code[t - 1].op # "tail"

InstructionFits(i, op, to, depth) ==
    LET after == depth + GetStackImpact(op, depth) IN
    /\ after \in 0 .. MaxDepth
    /\ (op \in Jumps) = (to # {})
    /\ op # "switch" => Cardinality(to) <= 1
    /\ \A t \in to : JumpFits(i, op, t, depth, after)
    /\ op = "ret" => after = 0 /\ RegionAt(i) = "body"
    /\ i > 1 /\ Start(i) => ~FallsThrough(code[i - 1].op)
    /\ i = shape.len => ~FallsThrough(op)
    /\ op = "tail" => depth = 0 /\ RegionAt(i) = "body"
    /\ OpOf(code, i - 1) = "tail" => op = "call"
    /\ OpOf(code, i - 2) = "tail" => op = (IF shape.returns = "void" THEN "pop" ELSE "ret")

\* The next instruction of the original method.
Decode(op, to) ==
    LET i == Len(code) + 1
        ins == Instruction(Il(i), op, {Il(t) : t \in to})
    IN
    /\ i <= shape.len
    /\ \E depth \in EntryDepths(i) :
          /\ InstructionFits(i, op, to, depth)
          /\ depths' = Append(depths, depth)
    /\ code' = Append(code, ins)
    /\ graph' = code'
    /\ UNCHANGED <<shape, applied, target, maxStack, runVars, localVars, seen>>

\* An instrumentation method puts a probe where all returns come by: at the
\* branch target, or at the return if the target is null because there is one only.
InsertProbe ==
    LET rets == GetReplaceableRets(graph)
        id == IF target # Null THEN target ELSE rets[1].id
    IN
    /\ applied > 0 /\ ~running
    /\ \A i \in DOMAIN graph : graph[i].op # "probe"
    /\ target # Null \/ Len(rets) = 1
    /\ graph' = InsertBeforeAndRetargetOffsets(graph, id, Instruction(Probe(id), "probe", {}))
    /\ UNCHANGED <<genVars, applied, target, maxStack, runVars, localVars, seen>>

\* Instrumentation methods use the locals.
UseLocals ==
    /\ shape.locals /\ Len(code) = shape.len /\ ~running
    /\ Locals!Next
    /\ UNCHANGED <<genVars, graph, applied, target, maxStack, runVars, seen>>

\* ApplyIntermediateMethodInstrumentation: the method is rendered, and runs.
Render ==
    /\ UNCHANGED <<genVars, graph, applied, target, seen>>
    /\ Len(code) = shape.len
    /\ Run!Start
    /\ Locals!CommitSignature
    /\ maxStack' = MaxStackField(CalculateMaxStack(graph))

Execute ==
    /\ UNCHANGED <<genVars, graph, applied, target, maxStack, localVars>>
    /\ Run!Step
    /\ seen' = IF graph[Index(graph, at)].op = "probe" THEN seen + 1 ELSE seen

Init ==
    /\ shape \in Shapes
    /\ code = <<>> /\ depths = <<>> /\ graph = <<>>
    /\ applied = 0
    /\ target = Null
    /\ maxStack = 0
    /\ Run!Init
    /\ Locals!Init /\ (shape.locals \/ sigToken = <<>>)
    /\ seen = 0

Next ==
    \/ \E op \in shape.ops, to \in {S \in SUBSET shape.targets : Cardinality(S) <= 2} : Decode(op, to)
    \/ ApplySingleRetDefaultInstrumentation
    \/ InsertProbe
    \/ UseLocals
    \/ Render
    \/ Execute

Spec == Init /\ [][Next]_vars

-----------------------------------------------------------------------------
(* Properties.                                                               *)

Probed == \E i \in DOMAIN graph : graph[i].op = "probe"

\* The engine's instructions and the state of the method that runs keep their types;
\* the CLR never meets a tail call without its return.
TypeOK ==
    /\ shape \in Shapes
    /\ Len(code) = Len(depths) /\ Len(code) <= shape.len
    /\ \A i \in DOMAIN graph : graph[i].op \in Ops \cup NewOps
    /\ applied \in 0 .. MaxApplied
    /\ target \in {Null, NewRet, NewLdloc}
    /\ maxStack \in 0 .. Width - 1
    /\ running \in BOOLEAN
    /\ at \in {graph[i].id : i \in DOMAIN graph} \cup {Null}
    /\ outcome.how \in {"none", "thrown", "invalid", "returned", "tailcalled"}
    /\ Locals!TypeOK
    /\ seen \in Nat

\* The original is over where the new method only has to return.
Returning == at # Null /\ IsNew(at)
RetVal ==
    CASE at = NewRet -> IF stack = <<>> THEN Null ELSE stack[Len(stack)]
      [] OTHER -> IF StoresRetVal THEN slot ELSE IF stack = <<>> THEN Null ELSE stack[Len(stack)]

OriginalAt == IF at = Null \/ Returning THEN Null ELSE Il(at[2])
OriginalStack ==
    IF Returning THEN <<>>
    ELSE IF at # Null /\ at[1] = "br" /\ StoresRetVal THEN Append(stack, slot) ELSE stack
OriginalOutcome == IF Returning THEN [how |-> "returned", value |-> RetVal] ELSE outcome

Original == INSTANCE Evaluation WITH
    protected <- Protected,
    handler <- HandlerFirst,
    method <- code,
    at <- OriginalAt,
    stack <- OriginalStack,
    slot <- Null,
    outcome <- OriginalOutcome

\* However a method returns, throws and loops, and whatever it leaves on the stack,
\* the method with the single return does the same and returns the same value.
ImplementsOriginal == Original!Spec

\* The stack never outgrows the MaxStack of the header, which the CLR relies on, and
\* CalculateMaxStack does not guess wildly: a method cannot need more than it has
\* instructions that push. (Where the single return was left half-way, the depth of
\* the instruction without a value goes below zero.)
StackFits ==
    running =>
        /\ Len(stack) <= maxStack
        /\ ~HalfApplied => maxStack <= 1 + Cardinality({i \in DOMAIN graph : graph[i].op \in {"ld", "ldloc", "call"}})

\* A jump leads to the return of a tail call, as ECMA-335 allows.
TailRetIsTarget ==
    \E i, j \in DOMAIN code :
        /\ Il(i) \in code[j].to
        /\ OpOf(code, i - 1) = "call" \/ (OpOf(code, i - 1) = "pop" /\ code[i].op = "ret")
        /\ OpOf(code, i - 2) = "tail" \/ OpOf(code, i - 3) = "tail"

\* The purpose of the single return: what is put before the branch target sees every
\* return of the method once, except where a tail call replaces the frame.
EveryReturnSeen ==
    Probed /\ ~TailRetIsTarget =>
        /\ outcome.how = "returned" => seen = 1
        /\ outcome.how \in {"tailcalled", "thrown"} => seen = 0

\* The local of the single return, and those of the instrumentation methods, are
\* where the instructions say: see LocalVariables.
IndexesNameLocals == Locals!IndexesNameLocals
=============================================================================
