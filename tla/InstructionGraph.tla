------------------------- MODULE InstructionGraph -------------------------
(* CInstructionGraph: the IL of a method as a doubly linked list of            *)
(* instructions that instrumentation methods edit one call at a time, with the *)
(* branch targets (CBranchTargetInfo), the exception clauses                   *)
(* (CExceptionSection) and the offsets that the edits have to keep up to date, *)
(* and the IL map that EncodeIL makes of the result.                           *)
(*                                                                            *)
(* An instruction is a model value with a size; a branch has one target and a  *)
(* switch several. Every call runs under m_cs, so a call is one step. Callers   *)
(* insert instructions that are in no list, next to instructions that are in   *)
(* this one: see Insertable. The code does not check either.                   *)
EXTENDS Integers, Sequences, FiniteSets

CONSTANTS
    Original,       \* the instructions of the method
    BaselineCode,   \* the instructions of a baseline
    New,            \* what the instruction factory makes
    Null,
    Branches,       \* the branch instructions among them
    Switches,       \* the switch instructions
    DecodedTargets, \* the targets in the code of Original and BaselineCode, and how many targets a new jump has
    PlainSize,      \* the sizes of the other instructions
    DecodedClauses, \* the exception clauses of the method
    MaxClauses,     \* bound on the exception clauses
    MaxEdits        \* bound on the calls

Range(s) == {s[i] : i \in 1 .. Len(s)}
Instrs == Range(Original) \cup Range(BaselineCode) \cup New
Pointers == Instrs \cup {Null}
Jumps == Branches \cup Switches
Injective(s) == \A i, j \in 1 .. Len(s) : s[i] = s[j] => i = j

\* The instruction pointers of a clause; the first ones begin a range, the others end one.
FirstFields == {"tryFirst", "handlerFirst", "filterFirst"}
Fields == FirstFields \cup {"tryLast", "handlerLast"}
Clauses == {c \in [Fields -> Pointers] : \A f \in Fields \ {"filterFirst"} : c[f] # Null}

ASSUME CodeAssumption ==
    /\ Original \in Seq(Instrs) /\ BaselineCode \in Seq(Instrs)
    /\ Len(Original) > 0 /\ Len(BaselineCode) > 0
    /\ Injective(Original) /\ Injective(BaselineCode)
    /\ Range(Original) \cap Range(BaselineCode) = {}
    /\ New \cap (Range(Original) \cup Range(BaselineCode)) = {}
    /\ Null \notin Instrs
ASSUME JumpsAssumption ==
    /\ Branches \subseteq Instrs /\ Switches \subseteq Instrs /\ Branches \cap Switches = {}
    /\ DecodedTargets \in [Jumps -> Seq(Pointers)]
    /\ \A b \in Branches : Len(DecodedTargets[b]) = 1
    /\ \A j \in Jumps \ New : Range(DecodedTargets[j]) \subseteq
            IF j \in Range(Original) THEN Range(Original) ELSE Range(BaselineCode)
ASSUME SizesAssumption == PlainSize \in [Instrs -> Nat \ {0}]

\* Where the instruction f of the decoded clause k is in the method.
DecodedAt(k, f) == CHOOSE i \in 1 .. Len(Original) : Original[i] = DecodedClauses[k][f]

\* The methods are valid: the instructions of a clause are found and no range ends before it begins.
ASSUME ClausesAssumption ==
    /\ DecodedClauses \in Seq(Clauses)
    /\ \A k \in 1 .. Len(DecodedClauses) :
        /\ \A f \in Fields : DecodedClauses[k][f] \in Range(Original) \cup ({Null} \cap {DecodedClauses[k]["filterFirst"]})
        /\ DecodedAt(k, "tryFirst") <= DecodedAt(k, "tryLast")
        /\ DecodedAt(k, "handlerFirst") <= DecodedAt(k, "handlerLast")
\* Their try ranges are nested or apart, and the smaller of two comes first.
ASSUME NestingAssumption ==
    \A k, l \in 1 .. Len(DecodedClauses) :
        LET a == DecodedAt(k, "tryFirst")
            z == DecodedAt(k, "tryLast")
            b == DecodedAt(l, "tryFirst")
            y == DecodedAt(l, "tryLast")
        IN  /\ z < b \/ y < a \/ (b <= a /\ z <= y) \/ (a <= b /\ y <= z)
            /\ k < l /\ a <= b /\ y <= z => a = b /\ y = z
ASSUME BoundsAssumption == {MaxClauses, MaxEdits} \subseteq Nat

VARIABLES
    first, last,    \* m_pFirstInstruction, m_pLastInstruction
    next, prev,     \* m_pNextInstruction, m_pPreviousInstruction of each instruction
    graph,          \* the instructions whose m_pGraph is this graph
    removed,        \* m_bIsRemoved
    expanded,       \* the branches in their long form
    targets,        \* m_pBranchTarget, m_branchTargets
    branchesOf,     \* m_branches of the CBranchTargetInfo of each instruction; {} where there is none
    clauses,        \* m_exceptionClauses
    offset,         \* m_offset
    stale,          \* m_bAreInstructionsStale
    baseline,       \* "allowed", "set" (m_bHasBaselineBeenSet) or "over" (IsCreateBaselineEnabled is false)
    half,           \* history: CreateBaseline has failed in decoding, after it had removed the instructions
    il,             \* history: the instructions the method should consist of after the calls so far
    invalid,        \* history: Remove has reported an invalid program
    displaced,      \* history: Remove has moved the end of a range, or a clause was placed by a caller, by offsets that were out of date, or beside a range that ends with a switch
    resized,        \* history: an instruction has changed its size since the offsets were calculated, and the graph was not told
    edits           \* counts towards MaxEdits

links == <<first, last, next, prev, graph, removed, il>>
jumps == <<targets, branchesOf>>
ranges == <<clauses, invalid, displaced>>
offsets == <<offset, stale, resized>>
vars == <<links, expanded, jumps, ranges, offsets, baseline, half, edits>>

----------------------------------------------------------------------------
(* Sizes and offsets. *)

\* GetInstructionSize, in the form (long or short) and with the targets of the code at hand: a long branch has an operand of four bytes, a short one of one, a switch four per target.
SizeIn(x, long, tgts) ==
    IF x \in Branches THEN IF x \in long THEN 5 ELSE 2
    ELSE IF x \in Switches THEN 5 + 4 * Len(tgts[x])
    ELSE PlainSize[x]

\* The offsets of the instructions of s, one after the other.
OffsetsOf(s, long, tgts) ==
    LET off[i \in 1 .. Len(s)] == IF i = 1 THEN 0 ELSE off[i - 1] + SizeIn(s[i - 1], long, tgts)
    IN  off

\* The position of an instruction in the list.
Pos(x) == CHOOSE i \in 1 .. Len(il) : il[i] = x

\* CalculateInstructionOffsets: what m_offset becomes for every instruction.
Calculated ==
    LET off == OffsetsOf(il, expanded, targets)
    IN  [x \in Instrs |-> IF x \in Range(il) THEN off[Pos(x)] ELSE offset[x]]

\* What GetOffset returns: the offsets are recalculated first if the graph was marked stale.
GetOffset == IF stale THEN Calculated ELSE offset
Refreshed == offset' = GetOffset /\ stale' = FALSE /\ resized' = (resized /\ ~stale)

\* m_origOffset: where an instruction was when its code was decoded.
DecodedOffset(x) ==
    LET s == IF x \in Range(Original) THEN Original ELSE BaselineCode
    IN  OffsetsOf(s, {}, DecodedTargets)[CHOOSE i \in 1 .. Len(s) : s[i] = x]

\* Mutant of MarkInstructionsStale: it is forgotten.
NotStale == UNCHANGED offsets

\* MarkInstructionsStale.
MarkInstructionsStale == stale' = TRUE /\ UNCHANGED <<offset, resized>>

----------------------------------------------------------------------------
(* Branch targets. *)

\* Mutant of Tracked: the branches of the old target are not told.
TrackedAtNewOnly(j, old, t) ==
    [x \in Instrs |-> IF x = t THEN branchesOf[x] \cup {j} ELSE branchesOf[x]]

\* CBranchTargetInfo::SetBranchTarget: the jump leaves the info of its old target and enters that of the new one.
Tracked(j, old, t) ==
    [x \in Instrs |-> IF x = t THEN branchesOf[x] \cup {j}
                      ELSE IF x = old THEN branchesOf[x] \ {j} ELSE branchesOf[x]]

\* CBranchTargetInfo::Retarget: the jumps known to lead to o now lead to n, but for a branch n that itself leads to o.
Moved(o, n) == branchesOf[o] \ ({n} \cap Branches)
RetargetBranches(o, n) ==
    /\ targets' = [j \in Jumps |-> IF j \in Moved(o, n)
                        THEN [i \in 1 .. Len(targets[j]) |->
                                IF j \in Branches \/ targets[j][i] = o THEN n ELSE targets[j][i]]
                        ELSE targets[j]]
    /\ branchesOf' = [x \in Instrs |->
            IF x = o THEN branchesOf[o] \ Moved(o, n)
            ELSE IF x = n THEN branchesOf[n] \cup
                    {j \in Moved(o, n) : j \in Branches \/ o \in Range(targets[j])}
            ELSE branchesOf[x]]

\* The second pass of DecodeInstructions of s has found the first found[j] targets of each jump j: these are set, whatever was known before.
DecodedJumps(s, found) ==
    /\ targets' = [j \in Jumps |-> IF j \in Range(s)
                        THEN [i \in 1 .. Len(DecodedTargets[j]) |-> IF i <= found[j] THEN DecodedTargets[j][i] ELSE Null]
                        ELSE targets[j]]
    /\ branchesOf' = [x \in Instrs |-> branchesOf[x] \cup
            {j \in Jumps \cap Range(s) : \E i \in 1 .. found[j] : DecodedTargets[j][i] = x}]

----------------------------------------------------------------------------
(* Exception clauses. *)

\* Mutant of UpdateInstruction: the ends of ranges never move.
UpdateFirstOnly(c, old, new, gone) ==
    [f \in Fields |-> IF c[f] = old /\ f \in FirstFields THEN new ELSE c[f]]

\* CExceptionClause::UpdateInstruction: the ends of ranges stay with an instruction that is still there.
UpdateInstruction(c, old, new, gone) ==
    [f \in Fields |-> IF c[f] = old /\ (f \in FirstFields \/ old \in gone) THEN new ELSE c[f]]

\* CExceptionSection::UpdateInstruction.
UpdateClauses(old, new, gone) ==
    clauses' = [i \in 1 .. Len(clauses) |-> UpdateInstruction(clauses[i], old, new, gone)]

\* GetInstructionLength: the table of the opcodes gives the operand of a switch the length -1, with which the sum is 0.
Length(x) == IF x \in Switches THEN 0 ELSE SizeIn(x, expanded, targets)

\* IsExistingTryContainedWithinNewTry, by the offsets off.
Contained(e, n, off) ==
    LET End(c) == off[c["tryLast"]] + Length(c["tryLast"])
    IN  off[n["tryFirst"]] <= off[e["tryFirst"]] /\ End(e) <= End(n)

\* Mutant of InsertionPoint: the first contained clause is taken.
FirstInsertionPoint(c, off) ==
    LET inner == {i \in 1 .. Len(clauses) : Contained(clauses[i], c, off)}
    IN  IF inner = {} THEN 0 ELSE CHOOSE i \in inner : \A j \in inner : i <= j

\* FindExceptionClauseInsertionPoint: after the last clause whose try range is contained in the new one.
InsertionPoint(c, off) ==
    LET inner == {i \in 1 .. Len(clauses) : Contained(clauses[i], c, off)}
    IN  IF inner = {} THEN 0 ELSE CHOOSE i \in inner : \A j \in inner : j <= i

----------------------------------------------------------------------------
(* The list. The helpers on sequences are written as functions for the proofs. *)

InsertAt(s, i, x) == [j \in 1 .. Len(s) + 1 |-> IF j < i THEN s[j] ELSE IF j = i THEN x ELSE s[j - 1]]
Prefix(s, k) == [j \in 1 .. k |-> s[j]]
DeleteAt(s, i) == [j \in 1 .. Len(s) - 1 |-> IF j < i THEN s[j] ELSE s[j + 1]]

\* The instruction at position i of s; Null beyond its ends.
At(s, i) == IF i \in 1 .. Len(s) THEN s[i] ELSE Null

\* The links of code s, of which nothing was linked before.
NextIn(s) == [x \in Instrs |-> IF \E i \in 1 .. Len(s) - 1 : s[i] = x
                               THEN s[1 + CHOOSE i \in 1 .. Len(s) - 1 : s[i] = x] ELSE Null]
PrevIn(s) == [x \in Instrs |-> IF \E i \in 2 .. Len(s) : s[i] = x
                               THEN s[(CHOOSE i \in 2 .. Len(s) : s[i] = x) - 1] ELSE Null]

\* What callers insert: an instruction of the factory, or a removed one whose links are gone.
Insertable(n) == n \in (New \cup removed) \ graph /\ next[n] = Null /\ prev[n] = Null

\* The links when n is put before the instruction o of the list.
LinkBefore(o, n) ==
    /\ graph' = graph \cup {n}
    /\ prev' = [prev EXCEPT ![o] = n, ![n] = IF prev[o] = Null THEN @ ELSE prev[o]]
    /\ next' = [x \in Instrs |-> IF x = n THEN o ELSE IF x = prev[o] THEN n ELSE next[x]]
    /\ first' = IF prev[o] = Null THEN n ELSE first
    /\ il' = InsertAt(il, Pos(o), n)
    /\ UNCHANGED <<last, removed>>

\* Mutant of InsertBefore: m_pFirstInstruction is left alone.
InsertBeforeKeepsFirst(o, n) ==
    /\ graph' = graph \cup {n}
    /\ prev' = [prev EXCEPT ![o] = n, ![n] = IF prev[o] = Null THEN @ ELSE prev[o]]
    /\ next' = [x \in Instrs |-> IF x = n THEN o ELSE IF x = prev[o] THEN n ELSE next[x]]
    /\ il' = InsertAt(il, Pos(o), n)
    /\ MarkInstructionsStale
    /\ UNCHANGED <<first, last, removed, expanded, jumps, ranges, baseline, half>>

\* InsertBefore: jumps and exception ranges stay with o.
InsertBefore(o, n) ==
    /\ LinkBefore(o, n)
    /\ MarkInstructionsStale
    /\ UNCHANGED <<expanded, jumps, ranges, baseline, half>>

\* InsertAfter an instruction o of the list.
InsertAfter(o, n) ==
    /\ graph' = graph \cup {n}
    /\ next' = [next EXCEPT ![o] = n, ![n] = IF next[o] = Null THEN @ ELSE next[o]]
    /\ prev' = [x \in Instrs |-> IF x = n THEN o ELSE IF x = next[o] THEN n ELSE prev[x]]
    /\ last' = IF next[o] = Null THEN n ELSE last
    /\ il' = InsertAt(il, Pos(o) + 1, n)
    /\ MarkInstructionsStale
    /\ UNCHANGED <<first, removed, expanded, jumps, ranges, baseline, half>>

\* InsertAfter with no position, which callers use to begin an empty list.
InsertFirst(n) ==
    /\ il = <<>>
    /\ graph' = graph \cup {n}
    /\ prev' = [prev EXCEPT ![n] = Null]
    /\ first' = n /\ last' = n /\ il' = <<n>>
    /\ MarkInstructionsStale
    /\ UNCHANGED <<next, removed, expanded, jumps, ranges, baseline, half>>

\* InsertAfter an instruction o of no graph: n is claimed and linked back before the position is refused.
InsertAfterRefused(o, n) ==
    /\ o \notin graph /\ o # n
    /\ graph' = graph \cup {n}
    /\ prev' = [prev EXCEPT ![n] = o]
    /\ UNCHANGED <<first, last, next, removed, il, expanded, jumps, ranges, offsets, baseline, half>>

\* InsertBeforeAndRetargetOffsets.
InsertBeforeAndRetargetOffsets(o, n) ==
    /\ LinkBefore(o, n)
    /\ MarkInstructionsStale
    /\ RetargetBranches(o, n)
    /\ UpdateClauses(o, n, removed)
    /\ UNCHANGED <<expanded, invalid, displaced, baseline, half>>

\* Replace: o keeps its own links.
Replace(o, n) ==
    /\ removed' = removed \cup {o}
    /\ graph' = (graph \cup {n}) \ {o}
    /\ next' = [x \in Instrs |-> IF x = prev[o] THEN n ELSE IF x = n /\ next[o] # Null THEN next[o] ELSE next[x]]
    /\ prev' = [x \in Instrs |-> IF x = next[o] THEN n ELSE IF x = n /\ prev[o] # Null THEN prev[o] ELSE prev[x]]
    /\ first' = IF prev[o] = Null THEN n ELSE first
    /\ last' = IF next[o] = Null THEN n ELSE last
    /\ il' = [il EXCEPT ![Pos(o)] = n]
    /\ MarkInstructionsStale
    /\ RetargetBranches(o, n)
    /\ UpdateClauses(o, n, removed')
    /\ UNCHANGED <<expanded, invalid, displaced, baseline, half>>

\* Remove: who inherits the exception ranges that begin or end at o.
HeirOf(o) == IF next[o] # Null THEN next[o] ELSE prev[o]

\* Remove: jumps to o are left; a method without instructions is refused when the list is already empty.
Remove(o) ==
    LET only == next[o] = Null /\ prev[o] = Null
    IN  /\ removed' = removed \cup {o}
        /\ graph' = graph \ {o}
        /\ next' = [x \in Instrs |-> IF x = prev[o] THEN next[o] ELSE next[x]]
        /\ prev' = [x \in Instrs |-> IF x = next[o] THEN prev[o] ELSE prev[x]]
        /\ first' = IF prev[o] = Null THEN next[o] ELSE first
        /\ last' = IF next[o] = Null THEN prev[o] ELSE last
        /\ il' = DeleteAt(il, Pos(o))
        /\ MarkInstructionsStale
        /\ IF only THEN UNCHANGED clauses ELSE UpdateClauses(o, HeirOf(o), removed')
        /\ invalid' = (invalid \/ only)
        /\ displaced' = (displaced \/ \E i \in 1 .. Len(clauses) : o \in {clauses[i]["tryLast"], clauses[i]["handlerLast"]})
        /\ UNCHANGED <<expanded, jumps, baseline, half>>

\* RemoveAll: the offsets are not marked stale. The history forgets: there is no range left.
RemoveAll ==
    /\ removed' = removed \cup Range(il)
    /\ graph' = graph \ Range(il)
    /\ next' = [x \in Instrs |-> IF x \in Range(il) THEN Null ELSE next[x]]
    /\ prev' = [x \in Instrs |-> IF x \in Range(il) THEN Null ELSE prev[x]]
    /\ first' = Null /\ last' = Null /\ il' = <<>>
    /\ clauses' = <<>> /\ invalid' = FALSE /\ displaced' = FALSE
    /\ UNCHANGED <<expanded, jumps, offsets, baseline, half>>

\* CreateBaseline as far as its decoding comes: RemoveAll, then the first pass of DecodeInstructions makes the
\* instructions s, whose short branches stay short, and the second finds targets of jumps.
Decode(s, found) ==
    /\ baseline = "allowed" /\ baseline' = "set"
    /\ removed' = removed \cup Range(il)
    /\ graph' = (graph \ Range(il)) \cup Range(s)
    /\ next' = [x \in Instrs |-> IF x \in Range(s) THEN NextIn(s)[x] ELSE IF x \in Range(il) THEN Null ELSE next[x]]
    /\ prev' = [x \in Instrs |-> IF x \in Range(s) THEN PrevIn(s)[x] ELSE IF x \in Range(il) THEN Null ELSE prev[x]]
    /\ first' = At(s, 1) /\ il' = s
    /\ clauses' = <<>> /\ invalid' = FALSE /\ displaced' = FALSE
    /\ DecodedJumps(s, found)
    /\ offset' = [x \in Instrs |-> IF x \in Range(s) THEN DecodedOffset(x) ELSE offset[x]]
    /\ resized' = FALSE
    /\ UNCHANGED expanded

\* CreateBaseline. The decoding asks a jump for its offset, which brings stale offsets up to date.
CreateBaseline ==
    /\ Decode(BaselineCode, [j \in Jumps |-> Len(DecodedTargets[j])])
    /\ last' = BaselineCode[Len(BaselineCode)]
    /\ stale' = (stale /\ Jumps \cap Range(BaselineCode) = {})
    /\ UNCHANGED half

\* CreateBaseline of code with an instruction that cannot be decoded after the first k, or that ends with a switch:
\* the instructions made before are left in the list, and the end of the list is not set.
FirstPassFails(k) ==
    /\ Decode(Prefix(BaselineCode, k), [j \in Jumps |-> 0])
    /\ last' = Null /\ half' = TRUE
    /\ UNCHANGED stale

\* CreateBaseline of code in which target n + 1 of the jump at k does not exist: the jumps from the end down to it are done.
SecondPassFails(k, n) ==
    /\ Decode(BaselineCode, [j \in Jumps |-> IF j = BaselineCode[k] THEN n
                                             ELSE IF j \in Range(Prefix(BaselineCode, k)) THEN 0 ELSE Len(DecodedTargets[j])])
    /\ last' = Null /\ half' = TRUE
    /\ stale' = FALSE

\* DisableCreateBaseline, when the BeforeInstrumentMethod calls are over.
DisableCreateBaseline ==
    /\ baseline # "over" /\ baseline' = "over"
    /\ UNCHANGED <<links, expanded, jumps, ranges, offsets, half>>

----------------------------------------------------------------------------
(* Jumps. *)

\* ExpandBranches of the graph: the branches of the list become long.
ExpandBranches ==
    /\ expanded' = expanded \cup (Branches \cap Range(il))
    /\ MarkInstructionsStale
    /\ UNCHANGED <<links, jumps, ranges, baseline, half>>

\* ExpandBranch of one branch, which does not tell the graph.
ExpandBranch(b) ==
    /\ b \notin expanded
    /\ expanded' = expanded \cup {b}
    /\ resized' = TRUE
    /\ UNCHANGED <<links, jumps, ranges, offset, stale, baseline, half>>

\* SetBranchTarget of a branch, or of target i of a switch.
SetBranchTarget(j, i, t) ==
    /\ targets' = [targets EXCEPT ![j][i] = t]
    /\ branchesOf' = Tracked(j, targets[j][i], t)
    /\ UNCHANGED <<links, expanded, ranges, offsets, baseline, half>>

\* ReplaceBranchTarget of a switch: every target o becomes t.
ReplaceBranchTarget(s, o, t) ==
    /\ targets' = [targets EXCEPT ![s] = [i \in 1 .. Len(targets[s]) |-> IF targets[s][i] = o THEN t ELSE targets[s][i]]]
    /\ branchesOf' = IF o \in Range(targets[s]) THEN Tracked(s, o, t) ELSE branchesOf
    /\ UNCHANGED <<links, expanded, ranges, offsets, baseline, half>>

\* RemoveBranchTargetAt: neither the graph nor the target's info is told.
RemoveBranchTargetAt(s, i) ==
    /\ targets' = [targets EXCEPT ![s] = DeleteAt(@, i)]
    /\ resized' = TRUE
    /\ UNCHANGED <<links, expanded, branchesOf, ranges, offset, stale, baseline, half>>

----------------------------------------------------------------------------
(* The exception section. *)

\* AddNewExceptionClause: the search for its place asks for offsets when there are other clauses.
AddNewExceptionClause(c) ==
    /\ Len(clauses) < MaxClauses
    /\ clauses' = InsertAt(clauses, 1 + InsertionPoint(c, GetOffset), c)
    /\ IF clauses = <<>> THEN UNCHANGED offsets ELSE Refreshed
    /\ displaced' = (displaced \/ (resized /\ ~stale) \/ \E i \in 1 .. Len(clauses) : clauses[i]["tryLast"] \in Switches)
    /\ UNCHANGED <<links, expanded, jumps, invalid, baseline, half>>

\* RemoveExceptionClause.
RemoveExceptionClause(i) ==
    /\ clauses' = DeleteAt(clauses, i)
    /\ UNCHANGED <<links, expanded, jumps, invalid, displaced, offsets, baseline, half>>

\* RemoveAllExceptionClauses.
RemoveAllExceptionClauses ==
    /\ clauses' = <<>>
    /\ UNCHANGED <<links, expanded, jumps, invalid, displaced, offsets, baseline, half>>

\* By the list: the try range of c lies inside that of d and is another one.
Inside(c, d) ==
    /\ Pos(d["tryFirst"]) <= Pos(c["tryFirst"]) /\ Pos(c["tryLast"]) <= Pos(d["tryLast"])
    /\ <<c["tryFirst"], c["tryLast"]>> # <<d["tryFirst"], d["tryLast"]>>

\* AddExceptionClause of a clause the caller has: it goes to the end, wherever it belongs.
AddExceptionClause(c) ==
    /\ Len(clauses) < MaxClauses
    /\ clauses' = Append(clauses, c)
    /\ displaced' = (displaced \/ \E i \in 1 .. Len(clauses) : Inside(c, clauses[i]))
    /\ UNCHANGED <<links, expanded, jumps, invalid, offsets, baseline, half>>

\* SetTryFirstInstruction and the other setters of a clause; the order of the clauses stays.
SetInstruction(i, f, x) ==
    /\ clauses' = [clauses EXCEPT ![i][f] = x]
    /\ displaced' = TRUE
    /\ UNCHANGED <<links, expanded, jumps, invalid, offsets, baseline, half>>

----------------------------------------------------------------------------
(* Reading the graph. *)

\* RefreshInstructions, which GetOffset and GetOriginalOffset of an instruction of the graph call.
RefreshInstructions ==
    /\ Refreshed
    /\ UNCHANGED <<links, expanded, jumps, ranges, baseline, half>>

\* EncodeIL: the offsets are calculated in any case; they stop being stale when an offset is asked for on the way.
EncodeIL ==
    /\ \A j \in Jumps \cap Range(il) : Null \notin Range(targets[j])
    /\ offset' = Calculated
    /\ resized' = FALSE
    /\ stale' = (stale /\ Len(il) < 2 /\ Range(il) \subseteq New
                       /\ \A j \in Jumps \cap Range(il) : Range(targets[j]) \cap graph = {})
    /\ UNCHANGED <<links, expanded, jumps, ranges, baseline, half>>

\* Mutant of MapStart: an entry begins at the original instruction itself.
MapStartAtOriginal(i) == i

\* EncodeIL: the entry of the original instruction at i begins at the first new instruction after the original one before.
MapStart(i) ==
    CHOOSE k \in 1 .. i : (\A m \in k .. i - 1 : il[m] \in New) /\ (k = 1 \/ il[k - 1] \notin New)

\* EncodeIL: the IL map.
EncodedMap ==
    LET off == OffsetsOf(il, expanded, targets)
    IN  {[oldOffset |-> DecodedOffset(il[i]), newOffset |-> off[MapStart(i)]] :
            i \in {i \in 1 .. Len(il) : il[i] \notin New}}

----------------------------------------------------------------------------
\* InitializeInstructionsAndExceptions, which ends with ExpandBranches. The factory makes branches in either form, without targets.
Init ==
    /\ il = Original /\ graph = Range(Original) /\ removed = {}
    /\ first = Original[1] /\ last = Original[Len(Original)]
    /\ next = NextIn(Original) /\ prev = PrevIn(Original)
    /\ \E long \in SUBSET (Branches \cap New) : expanded = (Branches \cap Range(Original)) \cup long
    /\ targets = [j \in Jumps |-> IF j \in Range(Original) THEN DecodedTargets[j]
                                  ELSE [i \in 1 .. Len(DecodedTargets[j]) |-> Null]]
    /\ branchesOf = [x \in Instrs |-> {j \in Jumps \cap Range(Original) : x \in Range(DecodedTargets[j])}]
    /\ clauses = DecodedClauses /\ invalid = FALSE /\ displaced = FALSE
    /\ offset = [x \in Instrs |-> IF x \in Range(Original) THEN DecodedOffset(x) ELSE 0]
    /\ stale = TRUE /\ resized = FALSE
    /\ baseline = "allowed" /\ half = FALSE /\ edits = 0

\* The instructions that there are: those of the baseline are made by CreateBaseline.
Made == Range(Original) \cup New \cup graph \cup removed

\* A clause a caller may add: a try range that contains, is contained in or misses every other one, and then a handler.
NestedClause(tf, tl, h) ==
    /\ tf <= tl /\ tl < h
    /\ \A i \in 1 .. Len(clauses) :
        LET a == Pos(clauses[i]["tryFirst"])
            z == Pos(clauses[i]["tryLast"])
        IN  z < tf \/ tl < a \/ (a <= tf /\ tl <= z) \/ (tf <= a /\ z <= tl)

\* The clause with the try range from tf to tl and the handler at h, positions of the list.
ClauseAt(tf, tl, h) ==
    [f \in Fields |-> CASE f = "tryFirst" -> il[tf] [] f = "tryLast" -> il[tl]
                        [] f \in {"handlerFirst", "handlerLast"} -> il[h] [] OTHER -> Null]

\* What a caller may change in a clause: no range ends before it begins.
KeepsRanges(c, f, x) ==
    CASE f = "tryFirst" -> Pos(x) <= Pos(c["tryLast"])
      [] f = "tryLast" -> Pos(c["tryFirst"]) <= Pos(x)
      [] f = "handlerFirst" -> Pos(x) <= Pos(c["handlerLast"])
      [] f = "handlerLast" -> Pos(c["handlerFirst"]) <= Pos(x)
      [] f = "filterFirst" -> c[f] # Null

\* The calls that change the instructions, at an instruction of the list.
EditLinks ==
    \/ \E n \in Instrs : Insertable(n) /\ (\/ InsertFirst(n)
                                           \/ \E o \in New \cup removed : InsertAfterRefused(o, n))
    \/ \E o \in Range(il), n \in Instrs :
        /\ Insertable(n)
        /\ \/ InsertBefore(o, n) \/ InsertAfter(o, n)
           \/ InsertBeforeAndRetargetOffsets(o, n) \/ Replace(o, n)
    \/ \E o \in Range(il) : Remove(o)
    \/ RemoveAll
    \/ CreateBaseline
    \/ \E k \in 0 .. Len(BaselineCode) : FirstPassFails(k)
    \/ \E k \in {k \in 1 .. Len(BaselineCode) : BaselineCode[k] \in Jumps} :
        \E n \in 0 .. Len(DecodedTargets[BaselineCode[k]]) - 1 : SecondPassFails(k, n)
    \/ DisableCreateBaseline

\* The calls that change jumps and exception clauses. A switch keeps a target.
EditJumpsAndClauses ==
    \/ ExpandBranches
    \/ \E b \in Branches \cap Made : ExpandBranch(b)
    \/ \E j \in Jumps \cap Made, t \in Range(il) : \E i \in 1 .. Len(targets[j]) : SetBranchTarget(j, i, t)
    \/ \E s \in Switches \cap Made : \E i \in 1 .. Len(targets[s]) : Len(targets[s]) > 1 /\ RemoveBranchTargetAt(s, i)
    \/ \E s \in Switches \cap Made, o \in Range(il), t \in Range(il) : ReplaceBranchTarget(s, o, t)
    \/ ~invalid /\ \E tf, tl, h \in 1 .. Len(il) : NestedClause(tf, tl, h) /\
        (AddNewExceptionClause(ClauseAt(tf, tl, h)) \/ AddExceptionClause(ClauseAt(tf, tl, h)))
    \/ \E i \in 1 .. Len(clauses) : RemoveExceptionClause(i)
    \/ RemoveAllExceptionClauses
    \/ ~invalid /\ \E i \in 1 .. Len(clauses), f \in Fields, x \in Range(il) : KeepsRanges(clauses[i], f, x) /\ SetInstruction(i, f, x)

Next ==
    \/ edits < MaxEdits /\ edits' = edits + 1 /\ (EditLinks \/ EditJumpsAndClauses)
    \/ UNCHANGED edits /\ (RefreshInstructions \/ EncodeIL)

Spec == Init /\ [][Next]_vars

----------------------------------------------------------------------------
(* Properties. *)

\* The type invariant. A branch always has its one target, and no clause loses an instruction pointer.
TypeOK ==
    /\ {first, last} \subseteq Pointers
    /\ next \in [Instrs -> Pointers] /\ prev \in [Instrs -> Pointers]
    /\ graph \subseteq Instrs /\ removed \subseteq Instrs /\ expanded \subseteq Branches
    /\ targets \in [Jumps -> Seq(Pointers)] /\ \A b \in Branches : Len(targets[b]) = 1
    /\ branchesOf \in [Instrs -> SUBSET Jumps]
    /\ clauses \in Seq(Clauses) /\ Len(clauses) <= MaxClauses
    /\ offset \in [Instrs -> Nat]
    /\ {stale, resized, invalid, displaced, half} \subseteq BOOLEAN
    /\ baseline \in {"allowed", "set", "over"}
    /\ il \in Seq(Instrs) /\ edits \in 0 .. MaxEdits

\* Whatever the calls, the links of the graph read forwards and backwards give the instructions that the calls
\* left in the method, in their order and each once, and all of them know the graph they are in. Only the pointer to
\* the last instruction may be missing, once CreateBaseline has failed in decoding.
WellLinked ==
    /\ Injective(il)
    /\ Range(il) \subseteq graph
    /\ first = At(il, 1)
    /\ last = At(il, Len(il)) \/ (half /\ last = Null)
    /\ \A i \in 1 .. Len(il) : next[il[i]] = At(il, i + 1) /\ prev[il[i]] = At(il, i - 1)

\* CBranchTargetInfo knows of a branch exactly at the instruction the branch leads to, so that a retargeting call
\* finds every branch, however often the branch was retargeted before.
BranchesTracked ==
    \A b \in Branches, x \in Instrs : b \in branchesOf[x] <=> targets[b][1] = x

\* After any edits short of the removal of the last instruction, the exception clauses only refer to instructions of
\* the method, and their ranges do not end before they begin.
ClausesInGraph ==
    ~invalid => \A i \in 1 .. Len(clauses) :
        LET c == clauses[i] IN
        /\ \A f \in Fields : c[f] \in Range(il) \cup ({Null} \cap {c["filterFirst"]})
        /\ Pos(c["tryFirst"]) <= Pos(c["tryLast"])
        /\ Pos(c["handlerFirst"]) <= Pos(c["handlerLast"])

\* "If an exception range contains another exception range, the smaller range must come first": no edit and no
\* addition puts a clause before one whose try range lies inside its own, unless Remove moved the end of a range,
\* the addition went by the offsets from before an instruction changed its size or by the length of a switch that ends
\* another try range, or a caller chose the place.
ClauseOrder ==
    ~invalid /\ ~displaced => \A i, j \in 1 .. Len(clauses) :
        LET c == clauses[i]
            d == clauses[j]
        IN  i < j => ~Inside(d, c)

\* Offsets that are not marked stale are right, so GetOffset always answers with the current offset, unless a
\* branch was expanded or a switch shrunk on its own.
OffsetsFresh ==
    ~stale /\ ~resized => \A x \in Range(il) : offset[x] = Calculated[x]

\* In the IL map that EncodeIL makes, the entry that covers an inserted instruction is that of the next original
\* instruction (of the last one where no other follows), and the entry that covers an original one is its own.
InsertedGoesWithNext ==
    LET off == OffsetsOf(il, expanded, targets)
        old == {i \in 1 .. Len(il) : il[i] \notin New}
    IN  \A i \in 1 .. Len(il) : old # {} =>
            LET after == {k \in old : k >= i}
                owner == IF after # {} THEN CHOOSE k \in after : \A m \in after : k <= m
                                       ELSE CHOOSE k \in old : \A m \in old : m <= k
                covering == {e \in EncodedMap : e.newOffset <= off[i]}
                final == {e \in covering : \A e2 \in covering : e2.newOffset <= e.newOffset}
            IN  final = {[oldOffset |-> DecodedOffset(il[owner]), newOffset |-> off[MapStart(owner)]]}
=============================================================================
