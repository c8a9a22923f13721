------------------- MODULE MethodInstrumentation_proofs -------------------
(* Proofs about the instrumentation of methods: the CMethodInfo objects are    *)
(* tracked, a method's IL is always the result of one pass over the original,  *)
(* a pass is all or nothing, and its IL map is the composition of the maps     *)
(* merged into it.                                                             *)
EXTENDS MethodInstrumentation, NaturalsLemmas

PassSteps == {"should", "before", "instrument", "intermediate", "raw", "final", "cleanup"}

----------------------------------------------------------------------------
(* The inductive invariant. *)

\* A record with the fields of a CMethodInfo; nothing is said of the values but that one is a Boolean.
IsInfo(i) ==
    i \in [graph : {i.graph}, instrumented : BOOLEAN, intermediate : {i.intermediate},
           final : {i.final}, user : {i.user}, map : {i.map}]

ThreadTypes ==
    /\ csForJIT \in Threads \cup {NoThread}
    /\ pc \in [Threads -> Steps]
    /\ job \in [Threads -> Jobs]
    /\ inlinee \in [Threads -> Functions \cup {NoFunction}]
PassTypes ==
    /\ asked \in [Threads -> Seq(ImSet)]
    /\ done \in [Threads -> Nat]
    /\ read = [t \in Threads |-> read[t]]
    /\ info = [t \in Threads |-> info[t]]
    /\ infosByToken = [k \in Tokens |-> infosByToken[k]]
AreInfos == \A t \in Threads : IsInfo(info[t])
MethodTypes ==
    /\ clr = [k \in Tokens |-> clr[k]]
    /\ rejitIl = [k \in Tokens |-> rejitIl[k]]
    /\ cachedIl = [k \in Tokens |-> cachedIl[k]]
    /\ origin = [k \in Tokens |-> origin[k]]
    /\ markers \in [Tokens -> Seq(Nat)]
    /\ rejitCount \in [Tokens -> Nat]
Types == ThreadTypes /\ PassTypes /\ MethodTypes /\ AreInfos

\* m_csForJIT is held by the one thread that is in a pass or in JITInlining.
LockHeld == \A t \in Threads : csForJIT = t <=> pc[t] \in LockedSteps

\* The method a thread works on: a pass of a rejit has no function id, everything else has one.
JobFits(t) ==
    /\ pc[t] \in {"started", "compile", "compiling", "inlining"} \/ (pc[t] \in PassSteps /\ ~job[t].rejit)
            => job[t].fn \in Functions /\ job[t].tok = TokenOf[job[t].fn]
    /\ pc[t] = "started" => ~job[t].rejit
    /\ pc[t] \in PassSteps /\ job[t].rejit => job[t].fn = NoFunction
    /\ pc[t] = "inlining" => inlinee[t] \in Functions
JobsFit == \A t \in Threads : JobFits(t)

\* The functions and methods the holder of m_csForJIT has put objects in the maps for.
Holds(f) ==
    /\ csForJIT \in Threads
    /\ f = job[csForJIT].fn \/ (pc[csForJIT] = "inlining" /\ f = inlinee[csForJIT])
HoldsToken(k) ==
    /\ csForJIT \in Threads
    /\ k = Tok(csForJIT) \/ (pc[csForJIT] = "inlining" /\ k = TokenOf[inlinee[csForJIT]])

\* The three maps hold exactly those objects.
MapsHold ==
    /\ managerInfos = methodInfos
    /\ \A f \in Functions : methodInfos[f] = IF Holds(f) THEN <<csForJIT, f>> ELSE NoInfo
    /\ \A k \in Tokens : HoldsToken(k) => \E f \in Functions \cup {NoFunction} :
            /\ infosByToken[k] = <<csForJIT, f>>
            /\ f \in Functions => Holds(f)
    /\ \A k \in Tokens : ~HoldsToken(k) => infosByToken[k] = NoInfo

\* The results of the methods' edits alone, with or without a baseline; of the raw profiler on top; of both.
Edited(original, a) == {PassIl(original, a, b, FALSE) : b \in BOOLEAN}
RawEdited(original, a) == {PassIl(original, a, b, TRUE) : b \in BOOLEAN}
Complete(original, a) == {PassIl(original, a, b, r) : b, r \in BOOLEAN}

\* What the method of a thread was before the engine first read it.
Orig(t) == origin[Tok(t)]

\* Nothing of a pass exists, or nothing but the graph.
Fresh(t) == asked[t] = <<>> /\ done[t] = 0 /\ info[t] = NewInfo /\ read[t] = NoBody
OnlyGraph(t) ==
    /\ asked[t] \in Asks
    /\ ~info[t].instrumented /\ info[t].intermediate = NoBody
    /\ info[t].final = NoBody /\ info[t].user = NoBody /\ read[t] = NoBody

\* The graph has the edits of the methods called so far.
Edits(t) ==
    /\ OnlyGraph(t) /\ done[t] < Len(asked[t])
    /\ \/ done[t] = 0 /\ info[t].graph = NoBody
       \/ info[t].graph \in Edited(Orig(t), SubSeq(asked[t], 1, done[t]))

\* The graph has the edits of all methods that asked.
EditsDone(t) == OnlyGraph(t) /\ asked[t] # <<>> /\ info[t].graph \in Edited(Orig(t), asked[t])

\* The bodies of the CMethodInfo are complete, and so is what the raw profiler has read.
Rendered(t) ==
    /\ asked[t] \in Asks
    /\ asked[t] # <<>> => info[t].instrumented
    /\ info[t].instrumented => info[t].intermediate # NoBody \/ info[t].final # NoBody \/ info[t].user # NoBody
    /\ info[t].intermediate # NoBody => info[t].intermediate \in Edited(Orig(t), asked[t])
    /\ info[t].final # NoBody => info[t].final \in RawEdited(Orig(t), asked[t])
    /\ info[t].user # NoBody => info[t].user \in RawEdited(Orig(t), asked[t])
    /\ read[t] # NoBody => read[t] \in Edited(Orig(t), asked[t])

\* What a pass has built at each of its steps.
Built(t) ==
    /\ pc[t] \notin PassSteps \/ pc[t] = "should" => Fresh(t)
    /\ pc[t] = "before" => OnlyGraph(t) /\ done[t] = 0 /\ info[t].graph = NoBody
    /\ pc[t] = "instrument" => Edits(t)
    /\ pc[t] = "intermediate" => EditsDone(t)
    /\ pc[t] \in {"raw", "final"} => Rendered(t)
    /\ pc[t] = "final" => info[t].instrumented
AllBuilt == \A t \in Threads : Built(t)

\* A pass that has made or read some IL has left the original in the cache.
ReadCached(t) ==
    /\ pc[t] \in {"instrument", "intermediate"} /\ info[t].graph # NoBody => cachedIl[Tok(t)] = Orig(t)
    /\ pc[t] \in {"raw", "final"} /\ (info[t].instrumented \/ read[t] # NoBody) => cachedIl[Tok(t)] = Orig(t)
AllCached == \A t \in Threads : ReadCached(t)

\* The counts given to the CLR are at most the method's, and less while a rejit has yet to give its own.
MarkersBounded ==
    /\ \A k \in Tokens : \A i \in 1 .. Len(markers[k]) : markers[k][i] <= rejitCount[k]
    /\ \A t \in Threads : pc[t] \in PassSteps \ {"cleanup"} /\ job[t].rejit =>
            \A i \in 1 .. Len(markers[Tok(t)]) : markers[Tok(t)][i] < rejitCount[Tok(t)]

IInv == Types /\ LockHeld /\ JobsFit /\ MapsHold /\ AllBuilt /\ AllCached /\ OriginalKept /\ OnePass /\ MarkersBounded /\ MarkersGrow

----------------------------------------------------------------------------
(* The IL of a pass. *)

\* toInstrument is a list of methods, and may be empty.
LEMMA AsksType == Asks \subseteq Seq(ImSet) /\ <<>> \in Asks
<1>1. Len(Methods) \in Nat /\ \A i \in 1 .. Len(Methods) : Methods[i] \in ImSet
    BY MethodsAssumption DEF ImSet
<1>2. ASSUME NEW p \in Positions
      PROVE  [i \in 1 .. Len(p) |-> Methods[p[i]]] \in Seq(ImSet)
    <2>1. PICK n \in 0 .. Len(Methods) : p \in [1 .. n -> 1 .. Len(Methods)]
        BY <1>2 DEF Positions
    <2>2. n \in Nat
        BY <1>1, <2>1
    <2>3. Len(p) = n
        BY <2>1, <2>2
    <2>4. \A i \in 1 .. n : Methods[p[i]] \in ImSet
        BY <1>1, <2>1
    <2> QED BY <2>2, <2>3, <2>4
<1>3. <<>> \in Positions
    <2>1. <<>> \in [1 .. 0 -> 1 .. Len(Methods)]
        OBVIOUS
    <2>2. 0 \in 0 .. Len(Methods)
        BY <1>1
    <2> QED BY <2>1, <2>2 DEF Positions
<1>4. [i \in 1 .. Len(<<>>) |-> Methods[<<>>[i]]] = <<>>
    OBVIOUS
<1> QED BY <1>2, <1>3, <1>4 DEF Asks

\* The original is the result of no edits, a baseline that of no method's edits.
LEMMA NoEdits ==
    ASSUME NEW o \in Bodies
    PROVE  o \in Edited(o, <<>>) /\ <<Baseline>> \in Edited(o, <<>>)
<1>1. o \in Seq(ImSet \cup {Baseline, Raw})
    BY DEF Bodies
<1>2. PassIl(o, <<>>, FALSE, FALSE) = o
    BY <1>1 DEF PassIl
<1>3. PassIl(o, <<>>, TRUE, FALSE) = <<Baseline>>
    BY DEF PassIl
<1> QED BY <1>2, <1>3 DEF Edited

\* A fact about sequences.
LEMMA ConcatAppend ==
    ASSUME NEW S, NEW p \in Seq(S), NEW q \in Seq(S), NEW e \in S
    PROVE  Append(p \o q, e) = p \o Append(q, e)
<1> DEFINE l == Append(p \o q, e)
           r == p \o Append(q, e)
<1>1. l \in Seq(S) /\ r \in Seq(S) /\ Len(l) = Len(p) + Len(q) + 1 /\ Len(r) = Len(l)
    OBVIOUS
<1>2. ASSUME NEW i \in 1 .. Len(p) + Len(q) + 1 PROVE l[i] = r[i]
    <2>1. CASE i <= Len(p)
        BY <2>1
    <2>2. CASE i > Len(p) /\ i <= Len(p) + Len(q)
        BY <2>2
    <2>3. CASE i = Len(p) + Len(q) + 1
        BY <2>3
    <2> QED BY <2>1, <2>2, <2>3
<1> HIDE DEF l, r
<1>3. l = r
    BY <1>1, <1>2
<1> QED BY <1>3 DEF l, r

\* What may stand before and after the methods' edits.
LEMMA EndsAreBodies ==
    ASSUME NEW b, NEW o \in Bodies
    PROVE  /\ (IF b THEN <<Baseline>> ELSE o) \in Bodies
           /\ (IF b THEN <<Raw>> ELSE <<>>) \in Bodies
<1>1. <<Baseline>> \in Bodies /\ <<Raw>> \in Bodies /\ <<>> \in Bodies
    BY DEF Bodies
<1> QED BY <1>1, Zenon

\* One more method's edit of the graph.
LEMMA EditNext ==
    ASSUME NEW o \in Bodies, NEW a \in Seq(ImSet), NEW n \in Nat, n < Len(a),
           NEW il \in Edited(o, SubSeq(a, 1, n))
    PROVE  Append(il, a[n + 1]) \in Edited(o, SubSeq(a, 1, n + 1))
<1>1. PICK b \in BOOLEAN : il = PassIl(o, SubSeq(a, 1, n), b, FALSE)
    BY DEF Edited
<1>2. SubSeq(a, 1, n + 1) = Append(SubSeq(a, 1, n), a[n + 1])
    OBVIOUS
<1>3. SubSeq(a, 1, n) \in Seq(ImSet) /\ a[n + 1] \in ImSet
    OBVIOUS
<1>4. Append(il, a[n + 1]) = PassIl(o, SubSeq(a, 1, n + 1), b, FALSE)
    <2> DEFINE s == SubSeq(a, 1, n)
               x == a[n + 1]
               pre == IF b THEN <<Baseline>> ELSE o
               E == ImSet \cup {Baseline, Raw}
    <2>a. pre \in Bodies
        BY EndsAreBodies
    <2>1. s \in Seq(E) /\ x \in E /\ pre \in Seq(E)
        <3> HIDE DEF pre
        <3> QED BY <1>3, <2>a DEF Bodies
    <2>2. SubSeq(a, 1, n + 1) = Append(s, x)
        BY <1>2
    <2>3. il = pre \o s \o <<>>
        BY <1>1 DEF PassIl
    <2>4. PassIl(o, SubSeq(a, 1, n + 1), b, FALSE) = pre \o Append(s, x) \o <<>>
        BY <2>2 DEF PassIl
    <2> HIDE DEF s, x, pre, E
    <2>5. pre \o s \o <<>> = pre \o s /\ pre \o Append(s, x) \o <<>> = pre \o Append(s, x)
        BY <2>1
    <2>6. Append(pre \o s, x) = pre \o Append(s, x)
        BY <2>1, ConcatAppend
    <2> QED BY <2>3, <2>4, <2>5, <2>6 DEF x
<1> QED BY <1>4 DEF Edited

\* The raw profiler's edit of what the methods have made.
LEMMA RawEdit ==
    ASSUME NEW o \in Bodies, NEW a \in Seq(ImSet), NEW il \in Edited(o, a)
    PROVE  Append(il, Raw) \in RawEdited(o, a)
<1>1. PICK b \in BOOLEAN : il = PassIl(o, a, b, FALSE)
    BY DEF Edited
<1>2. Append(il, Raw) = PassIl(o, a, b, TRUE)
    <2> DEFINE pre == IF b THEN <<Baseline>> ELSE o
    <2>a. pre \in Bodies
        BY EndsAreBodies
    <2>1. a \in Seq(ImSet \cup {Baseline, Raw}) /\ pre \in Seq(ImSet \cup {Baseline, Raw})
        <3> HIDE DEF pre
        <3> QED BY <2>a DEF Bodies
    <2>2. il = pre \o a \o <<>> /\ PassIl(o, a, b, TRUE) = pre \o a \o <<Raw>>
        BY <1>1 DEF PassIl
    <2> HIDE DEF pre
    <2>3. Append(pre \o a \o <<>>, Raw) = pre \o a \o <<Raw>>
        BY <2>1
    <2> QED BY <2>2, <2>3
<1> QED BY <1>2 DEF RawEdited

\* Every result of a pass is a sequence of edits, so none is the absence of a body.
LEMMA ResultsAreBodies ==
    ASSUME NEW o \in Bodies, NEW a \in Seq(ImSet), NEW il \in Complete(o, a)
    PROVE  il # NoBody
<1>1. PICK b \in BOOLEAN, r \in BOOLEAN : il = PassIl(o, a, b, r)
    BY DEF Complete
<1>2. il \in Seq(ImSet \cup {Baseline, Raw})
    <2> HIDE <1>1
    <2>a. a \in Seq(ImSet \cup {Baseline, Raw})
        OBVIOUS
    <2>b. (IF b THEN <<Baseline>> ELSE o) \in Bodies /\ (IF r THEN <<Raw>> ELSE <<>>) \in Bodies
        BY EndsAreBodies
    <2>1. /\ a \in Seq(ImSet \cup {Baseline, Raw})
          /\ (IF b THEN <<Baseline>> ELSE o) \in Seq(ImSet \cup {Baseline, Raw})
          /\ (IF r THEN <<Raw>> ELSE <<>>) \in Seq(ImSet \cup {Baseline, Raw})
        BY <2>a, <2>b, Zenon DEF Bodies
    <2>2. ASSUME NEW x \in Seq(ImSet \cup {Baseline, Raw}), NEW z \in Seq(ImSet \cup {Baseline, Raw})
          PROVE  x \o a \o z \in Seq(ImSet \cup {Baseline, Raw})
        BY <2>1
    <2>3. PassIl(o, a, b, r) \in Seq(ImSet \cup {Baseline, Raw})
        BY <2>1, <2>2, Zenon DEF PassIl
    <2> QED BY <1>1, <2>3
<1> QED BY <1>2, MethodsAssumption DEF Bodies

\* How the sets of results are related.
LEMMA ResultSets ==
    ASSUME NEW o, NEW a
    PROVE  /\ Edited(o, a) \subseteq Complete(o, a) /\ RawEdited(o, a) \subseteq Complete(o, a)
           /\ a \in Asks => Complete(o, a) \subseteq OnePassIl(o)
<1>1. TRUE \in BOOLEAN /\ FALSE \in BOOLEAN
    OBVIOUS
<1>2. Edited(o, a) \subseteq Complete(o, a)
    <2> SUFFICES ASSUME NEW il \in Edited(o, a) PROVE il \in Complete(o, a)
        OBVIOUS
    <2>1. PICK b \in BOOLEAN : il = PassIl(o, a, b, FALSE)
        BY DEF Edited
    <2>2. \E c, r \in BOOLEAN : il = PassIl(o, a, c, r)
        BY <2>1, Zenon
    <2> QED BY <2>2 DEF Complete
<1>3. RawEdited(o, a) \subseteq Complete(o, a)
    <2> SUFFICES ASSUME NEW il \in RawEdited(o, a) PROVE il \in Complete(o, a)
        OBVIOUS
    <2>1. PICK b \in BOOLEAN : il = PassIl(o, a, b, TRUE)
        BY DEF RawEdited
    <2>2. \E c, r \in BOOLEAN : il = PassIl(o, a, c, r)
        BY <2>1, Zenon
    <2> QED BY <2>2 DEF Complete
<1>4. a \in Asks => Complete(o, a) \subseteq OnePassIl(o)
    BY DEF Complete, OnePassIl
<1> QED BY <1>2, <1>3, <1>4

----------------------------------------------------------------------------
(* A step of one thread. *)

\* A step of a thread changes nothing of what the other threads are doing.
Apart(t) ==
    \A u \in Threads \ {t} :
        /\ pc'[u] = pc[u] /\ job'[u] = job[u] /\ inlinee'[u] = inlinee[u]
        /\ asked'[u] = asked[u] /\ done'[u] = done[u] /\ info'[u] = info[u] /\ read'[u] = read[u]
LEMMA StepApart ==
    ASSUME Types, NEW t \in Threads, Continue(t) \/ Choose(t)
    PROVE  Apart(t)
<1> USE DEF Types, ThreadTypes, PassTypes, Apart, passVars
<1>1. CASE CreateMethodInfo(t)
    BY <1>1 DEF CreateMethodInfo, StartPass, Goto, CanEnter, AddInfos
<1>2. CASE ShouldInstrument(t)
    BY <1>2 DEF ShouldInstrument, Goto
<1>3. CASE BeforeInstrument(t)
    BY <1>3 DEF BeforeInstrument, Goto, CacheIl, SaveMap
<1>4. CASE InstrumentMethod(t)
    BY <1>4 DEF InstrumentMethod, Goto, InstrumentFails, CacheIl
<1>5. CASE ApplyIntermediateMethodInstrumentation(t)
    BY <1>5 DEF ApplyIntermediateMethodInstrumentation, Goto, SaveMap
<1>6. CASE RawReturns(t)
    BY <1>6 DEF RawReturns, Goto
<1>7. CASE ApplyFinalInstrumentation(t)
    BY <1>7 DEF ApplyFinalInstrumentation, Goto
<1>8. CASE ApplyFinalRejit(t)
    BY <1>8 DEF ApplyFinalRejit, Goto
<1>9. CASE Cleanup(t)
    BY <1>9 DEF Cleanup, Goto, ReleaseInfos, EndPass
<1>10. CASE RemoveMethodInfoAfterRejit(t)
    BY <1>10 DEF RemoveMethodInfoAfterRejit, Goto, EndPass
<1>11. CASE TakeIl(t)
    BY <1>11 DEF TakeIl, Goto
<1>12. CASE JITInliningDecided(t)
    BY <1>12 DEF JITInliningDecided, Goto, ReleaseInfos
<1>13. CASE JITCompilationFinished(t)
    BY <1>13 DEF JITCompilationFinished, EndCompilation, Goto
<1>14. ASSUME NEW f \in Functions, JITCompilationStarted(t, f) PROVE Apart(t)
    BY <1>14 DEF JITCompilationStarted, Goto
<1>15. ASSUME NEW f \in Functions, ReJITCompilationStarted(t, f) PROVE Apart(t)
    BY <1>15 DEF ReJITCompilationStarted, Goto
<1>16. ASSUME NEW f \in Functions, JITInlining(t, f) PROVE Apart(t)
    BY <1>16 DEF JITInlining, Goto, CanEnter, StartPass, AddInfos
<1>17. ASSUME NEW k \in Tokens, CreateMethodInfoForRejit(t, k) PROVE Apart(t)
    BY <1>17 DEF CreateMethodInfoForRejit, StartPass, Goto, CanEnter, IncrementMethodRejitCount
<1>18. ASSUME NEW k \in Tokens, RequestRejit(t, k) PROVE Apart(t)
    BY <1>18 DEF RequestRejit
<1>19. ASSUME NEW k \in Tokens, GetILFunctionBody(t, k) PROVE Apart(t)
    BY <1>19 DEF GetILFunctionBody, CacheIl
<1>20. ASSUME NEW k \in Tokens, SetOtherFunctionBody(t, k) PROVE Apart(t)
    BY <1>20 DEF SetOtherFunctionBody
<1>21. CASE SetILFunctionBody(t)
    BY <1>21 DEF SetILFunctionBody
<1>22. CASE SetILInstrumentedCodeMap(t)
    BY <1>22 DEF SetILInstrumentedCodeMap, SaveMap
<1>23. CASE ReJITCompilationFinished(t)
    BY <1>23 DEF ReJITCompilationFinished, EndCompilation, Goto
<1>24. ASSUME NEW k \in Tokens, ModuleAttachedToAssembly(t, k) PROVE Apart(t)
    BY <1>24 DEF ModuleAttachedToAssembly
<1> QED BY <1>1, <1>2, <1>3, <1>4, <1>5, <1>6, <1>7, <1>8, <1>9, <1>10, <1>11,
          <1>12, <1>13, <1>14, <1>15, <1>16, <1>17, <1>18, <1>19, <1>20, <1>21, <1>22,
          <1>23, <1>24 DEF Continue, Choose

\* The lock is held by the thread that is in a pass or in JITInlining.
LEMMA LockStep ==
    ASSUME Types, LockHeld, NEW t \in Threads, Continue(t) \/ Choose(t)
    PROVE  LockHeld'
<1> USE ThreadsAssumption DEF Types, ThreadTypes, LockHeld, LockedSteps, Steps
<1>1. CASE CreateMethodInfo(t)
    <2>1. CASE Tok(t) \notin known
        BY <1>1, <2>1 DEF CreateMethodInfo, Goto
    <2>2. CASE Tok(t) \in known
        <3>1. csForJIT = NoThread /\ csForJIT' = t
            BY <1>1, <2>2 DEF CreateMethodInfo, CanEnter, StartPass
        <3>2. \E l \in {"cleanup", "should"} : pc' = [pc EXCEPT ![t] = l]
            BY <1>1, <2>2 DEF CreateMethodInfo, StartPass, Goto
        <3> QED BY <3>1, <3>2
    <2> QED BY <2>1, <2>2
<1>2. CASE ShouldInstrument(t)
    BY <1>2 DEF ShouldInstrument, Goto
<1>3. CASE BeforeInstrument(t)
    <2>1. csForJIT' = csForJIT /\ pc[t] = "before"
        BY <1>3 DEF BeforeInstrument
    <2>2. \E l \in {"raw", "instrument", "cleanup"} : pc' = [pc EXCEPT ![t] = l]
        BY <1>3 DEF BeforeInstrument, Goto
    <2> QED BY <2>1, <2>2
<1>4. CASE InstrumentMethod(t)
    BY <1>4 DEF InstrumentMethod, Goto, InstrumentFails, CacheIl
<1>5. CASE ApplyIntermediateMethodInstrumentation(t)
    BY <1>5 DEF ApplyIntermediateMethodInstrumentation, Goto, SaveMap
<1>6. CASE RawReturns(t)
    BY <1>6 DEF RawReturns, Goto
<1>7. CASE ApplyFinalInstrumentation(t)
    BY <1>7 DEF ApplyFinalInstrumentation, Goto
<1>8. CASE ApplyFinalRejit(t)
    BY <1>8 DEF ApplyFinalRejit, Goto
<1>9. CASE Cleanup(t)
    BY <1>9 DEF Cleanup, Goto, ReleaseInfos, EndPass
<1>10. CASE RemoveMethodInfoAfterRejit(t)
    BY <1>10 DEF RemoveMethodInfoAfterRejit, Goto, EndPass
<1>11. CASE TakeIl(t)
    BY <1>11 DEF TakeIl, Goto
<1>12. CASE JITInliningDecided(t)
    BY <1>12 DEF JITInliningDecided, Goto, ReleaseInfos
<1>13. CASE JITCompilationFinished(t)
    BY <1>13 DEF JITCompilationFinished, EndCompilation, Goto
<1>14. ASSUME NEW f \in Functions, JITCompilationStarted(t, f) PROVE LockHeld'
    BY <1>14 DEF JITCompilationStarted, Goto
<1>15. ASSUME NEW f \in Functions, ReJITCompilationStarted(t, f) PROVE LockHeld'
    BY <1>15 DEF ReJITCompilationStarted, Goto
<1>16. ASSUME NEW f \in Functions, JITInlining(t, f) PROVE LockHeld'
    BY <1>16 DEF JITInlining, Goto, CanEnter, StartPass, AddInfos
<1>17. ASSUME NEW k \in Tokens, CreateMethodInfoForRejit(t, k) PROVE LockHeld'
    BY <1>17 DEF CreateMethodInfoForRejit, StartPass, Goto, CanEnter, IncrementMethodRejitCount
<1>18. ASSUME NEW k \in Tokens, RequestRejit(t, k) PROVE LockHeld'
    BY <1>18 DEF RequestRejit
<1>19. ASSUME NEW k \in Tokens, GetILFunctionBody(t, k) PROVE LockHeld'
    BY <1>19 DEF GetILFunctionBody, CacheIl
<1>20. ASSUME NEW k \in Tokens, SetOtherFunctionBody(t, k) PROVE LockHeld'
    BY <1>20 DEF SetOtherFunctionBody
<1>21. CASE SetILFunctionBody(t)
    BY <1>21 DEF SetILFunctionBody
<1>22. CASE SetILInstrumentedCodeMap(t)
    BY <1>22 DEF SetILInstrumentedCodeMap, SaveMap
<1>23. CASE ReJITCompilationFinished(t)
    BY <1>23 DEF ReJITCompilationFinished, EndCompilation, Goto
<1>24. ASSUME NEW k \in Tokens, ModuleAttachedToAssembly(t, k) PROVE LockHeld'
    BY <1>24 DEF ModuleAttachedToAssembly
<1> QED BY <1>1, <1>2, <1>3, <1>4, <1>5, <1>6, <1>7, <1>8, <1>9, <1>10, <1>11,
          <1>12, <1>13, <1>14, <1>15, <1>16, <1>17, <1>18, <1>19, <1>20, <1>21, <1>22,
          <1>23, <1>24 DEF Continue, Choose

\* The job of a thread fits what it is doing.
LEMMA JobsStep ==
    ASSUME Types, JobsFit, NEW t \in Threads, Continue(t) \/ Choose(t)
    PROVE  JobsFit'
<1> SUFFICES JobFits(t)'
    <2> SUFFICES ASSUME NEW u \in Threads, u # t PROVE JobFits(u)'
        BY DEF JobsFit
    <2> QED BY StepApart DEF Apart, JobFits, JobsFit
<1> USE FunctionsAssumption DEF Types, ThreadTypes, Jobs, JobsFit, JobFits, PassSteps, Steps, Tok
<1>1. CASE CreateMethodInfo(t)
    BY <1>1 DEF CreateMethodInfo, StartPass, Goto, CanEnter, AddInfos
<1>2. CASE ShouldInstrument(t)
    BY <1>2 DEF ShouldInstrument, Goto
<1>3. CASE BeforeInstrument(t)
    BY <1>3 DEF BeforeInstrument, Goto, CacheIl, SaveMap
<1>4. CASE InstrumentMethod(t)
    BY <1>4 DEF InstrumentMethod, Goto, InstrumentFails, CacheIl
<1>5. CASE ApplyIntermediateMethodInstrumentation(t)
    BY <1>5 DEF ApplyIntermediateMethodInstrumentation, Goto, SaveMap
<1>6. CASE RawReturns(t)
    BY <1>6 DEF RawReturns, Goto
<1>7. CASE ApplyFinalInstrumentation(t)
    BY <1>7 DEF ApplyFinalInstrumentation, Goto
<1>8. CASE ApplyFinalRejit(t)
    BY <1>8 DEF ApplyFinalRejit, Goto
<1>9. CASE Cleanup(t)
    BY <1>9 DEF Cleanup, Goto, ReleaseInfos, EndPass
<1>10. CASE RemoveMethodInfoAfterRejit(t)
    BY <1>10 DEF RemoveMethodInfoAfterRejit, Goto, EndPass
<1>11. CASE TakeIl(t)
    BY <1>11 DEF TakeIl, Goto
<1>12. CASE JITInliningDecided(t)
    BY <1>12 DEF JITInliningDecided, Goto, ReleaseInfos
<1>13. CASE JITCompilationFinished(t)
    BY <1>13 DEF JITCompilationFinished, EndCompilation, Goto
<1>14. ASSUME NEW f \in Functions, JITCompilationStarted(t, f) PROVE JobFits(t)'
    BY <1>14 DEF JITCompilationStarted, Goto
<1>15. ASSUME NEW f \in Functions, ReJITCompilationStarted(t, f) PROVE JobFits(t)'
    BY <1>15 DEF ReJITCompilationStarted, Goto
<1>16. ASSUME NEW f \in Functions, JITInlining(t, f) PROVE JobFits(t)'
    BY <1>16 DEF JITInlining, Goto, CanEnter, StartPass, AddInfos
<1>17. ASSUME NEW k \in Tokens, CreateMethodInfoForRejit(t, k) PROVE JobFits(t)'
    BY <1>17 DEF CreateMethodInfoForRejit, StartPass, Goto, CanEnter, IncrementMethodRejitCount
<1>18. ASSUME NEW k \in Tokens, RequestRejit(t, k) PROVE JobFits(t)'
    BY <1>18 DEF RequestRejit
<1>19. ASSUME NEW k \in Tokens, GetILFunctionBody(t, k) PROVE JobFits(t)'
    BY <1>19 DEF GetILFunctionBody, CacheIl
<1>20. ASSUME NEW k \in Tokens, SetOtherFunctionBody(t, k) PROVE JobFits(t)'
    BY <1>20 DEF SetOtherFunctionBody
<1>21. CASE SetILFunctionBody(t)
    BY <1>21 DEF SetILFunctionBody
<1>22. CASE SetILInstrumentedCodeMap(t)
    BY <1>22 DEF SetILInstrumentedCodeMap, SaveMap
<1>23. CASE ReJITCompilationFinished(t)
    BY <1>23 DEF ReJITCompilationFinished, EndCompilation, Goto
<1>24. ASSUME NEW k \in Tokens, ModuleAttachedToAssembly(t, k) PROVE JobFits(t)'
    BY <1>24 DEF ModuleAttachedToAssembly
<1> QED BY <1>1, <1>2, <1>3, <1>4, <1>5, <1>6, <1>7, <1>8, <1>9, <1>10, <1>11,
          <1>12, <1>13, <1>14, <1>15, <1>16, <1>17, <1>18, <1>19, <1>20, <1>21, <1>22,
          <1>23, <1>24 DEF Continue, Choose

\* A thread in no callback has the job of no thread in particular.
LEMMA NoJobType == NoJob \in Jobs
<1>1. (CHOOSE k \in Tokens : TRUE) \in Tokens
    BY FunctionsAssumption
<1> QED BY <1>1 DEF NoJob, Jobs

\* Each step keeps the types of what the threads are doing.
LEMMA ThreadTypesStep ==
    ASSUME Types, JobsFit, NEW t \in Threads, Continue(t) \/ Choose(t)
    PROVE  ThreadTypes'
<1> USE FunctionsAssumption DEF Types, ThreadTypes, Steps
<1>1. CASE CreateMethodInfo(t)
    BY <1>1 DEF CreateMethodInfo, StartPass, Goto, CanEnter, AddInfos
<1>2. CASE ShouldInstrument(t)
    BY <1>2 DEF ShouldInstrument, Goto
<1>3. CASE BeforeInstrument(t)
    BY <1>3 DEF BeforeInstrument, Goto, CacheIl, SaveMap
<1>4. CASE InstrumentMethod(t)
    BY <1>4 DEF InstrumentMethod, Goto, InstrumentFails, CacheIl
<1>5. CASE ApplyIntermediateMethodInstrumentation(t)
    BY <1>5 DEF ApplyIntermediateMethodInstrumentation, Goto, SaveMap
<1>6. CASE RawReturns(t)
    BY <1>6 DEF RawReturns, Goto
<1>7. CASE ApplyFinalInstrumentation(t)
    BY <1>7 DEF ApplyFinalInstrumentation, Goto
<1>8. CASE ApplyFinalRejit(t)
    BY <1>8 DEF ApplyFinalRejit, Goto
<1>9. CASE Cleanup(t)
    BY <1>9 DEF Cleanup, Goto, ReleaseInfos, EndPass
<1>10. CASE RemoveMethodInfoAfterRejit(t)
    BY <1>10, NoJobType DEF RemoveMethodInfoAfterRejit, Goto, EndPass
<1>11. CASE TakeIl(t)
    BY <1>11 DEF TakeIl, Goto
<1>12. CASE JITInliningDecided(t)
    BY <1>12 DEF JITInliningDecided, Goto, ReleaseInfos
<1>13. CASE JITCompilationFinished(t)
    BY <1>13, NoJobType DEF JITCompilationFinished, EndCompilation, Goto
<1>14. ASSUME NEW f \in Functions, JITCompilationStarted(t, f) PROVE ThreadTypes'
    <2>1. [fn |-> f, tok |-> TokenOf[f], rejit |-> FALSE] \in Jobs
        BY DEF Jobs
    <2> QED BY <1>14, <2>1 DEF JITCompilationStarted, Goto
<1>15. ASSUME NEW f \in Functions, ReJITCompilationStarted(t, f) PROVE ThreadTypes'
    <2>1. [fn |-> f, tok |-> TokenOf[f], rejit |-> TRUE] \in Jobs
        BY DEF Jobs
    <2> QED BY <1>15, <2>1 DEF ReJITCompilationStarted, Goto
<1>16. ASSUME NEW f \in Functions, JITInlining(t, f) PROVE ThreadTypes'
    BY <1>16 DEF JITInlining, Goto, CanEnter, StartPass, AddInfos
<1>17. ASSUME NEW k \in Tokens, CreateMethodInfoForRejit(t, k) PROVE ThreadTypes'
    <2>1. inlinee' = inlinee /\ csForJIT' \in Threads \cup {NoThread}
        BY <1>17 DEF CreateMethodInfoForRejit, StartPass
    <2>2. [fn |-> NoFunction, tok |-> k, rejit |-> TRUE] \in Jobs
        BY DEF Jobs
    <2>3. job' \in [Threads -> Jobs]
        BY <1>17, <2>2 DEF CreateMethodInfoForRejit
    <2>4. pc' \in [Threads -> Steps]
        BY <1>17 DEF CreateMethodInfoForRejit, StartPass, Goto
    <2> QED BY <2>1, <2>3, <2>4
<1>18. ASSUME NEW k \in Tokens, RequestRejit(t, k) PROVE ThreadTypes'
    BY <1>18 DEF RequestRejit
<1>19. ASSUME NEW k \in Tokens, GetILFunctionBody(t, k) PROVE ThreadTypes'
    BY <1>19 DEF GetILFunctionBody, CacheIl
<1>20. ASSUME NEW k \in Tokens, SetOtherFunctionBody(t, k) PROVE ThreadTypes'
    BY <1>20 DEF SetOtherFunctionBody
<1>21. CASE SetILFunctionBody(t)
    BY <1>21 DEF SetILFunctionBody
<1>22. CASE SetILInstrumentedCodeMap(t)
    BY <1>22 DEF SetILInstrumentedCodeMap, SaveMap
<1>23. CASE ReJITCompilationFinished(t)
    BY <1>23, NoJobType DEF ReJITCompilationFinished, EndCompilation, Goto
<1>24. ASSUME NEW k \in Tokens, ModuleAttachedToAssembly(t, k) PROVE ThreadTypes'
    BY <1>24 DEF ModuleAttachedToAssembly
<1> QED BY <1>1, <1>2, <1>3, <1>4, <1>5, <1>6, <1>7, <1>8, <1>9, <1>10, <1>11,
          <1>12, <1>13, <1>14, <1>15, <1>16, <1>17, <1>18, <1>19, <1>20, <1>21, <1>22,
          <1>23, <1>24 DEF Continue, Choose

\* Each step keeps the types of what the passes build.
LEMMA PassTypesStep ==
    ASSUME Types, NEW t \in Threads, Continue(t) \/ Choose(t)
    PROVE  PassTypes'
<1> USE DEF Types, PassTypes, passVars, infoVars
<1>1. CASE CreateMethodInfo(t)
    BY <1>1 DEF CreateMethodInfo, StartPass, Goto, CanEnter, AddInfos
<1>2. CASE ShouldInstrument(t)
    BY <1>2, AsksType DEF ShouldInstrument
<1>3. CASE BeforeInstrument(t)
    BY <1>3 DEF BeforeInstrument, Goto, CacheIl, SaveMap
<1>4. CASE InstrumentMethod(t)
    BY <1>4 DEF InstrumentMethod, Goto, InstrumentFails, CacheIl
<1>5. CASE ApplyIntermediateMethodInstrumentation(t)
    BY <1>5 DEF ApplyIntermediateMethodInstrumentation, Goto, SaveMap
<1>6. CASE RawReturns(t)
    BY <1>6 DEF RawReturns, Goto
<1>7. CASE ApplyFinalInstrumentation(t)
    BY <1>7 DEF ApplyFinalInstrumentation, Goto
<1>8. CASE ApplyFinalRejit(t)
    BY <1>8 DEF ApplyFinalRejit, Goto
<1>9. CASE Cleanup(t)
    <2>1. asked' = [asked EXCEPT ![t] = <<>>] /\ done' = [done EXCEPT ![t] = 0]
        BY <1>9 DEF Cleanup, EndPass
    <2>2. asked' \in [Threads -> Seq(ImSet)]
        <3>1. <<>> \in Seq(ImSet)
            OBVIOUS
        <3> QED BY <2>1, <3>1
    <2>3. done' \in [Threads -> Nat]
        BY <2>1
    <2>4. read' = [u \in Threads |-> read'[u]] /\ info' = [u \in Threads |-> info'[u]]
        BY <1>9 DEF Cleanup, EndPass
    <2>5. infosByToken' = [k \in Tokens |-> infosByToken'[k]]
        BY <1>9 DEF Cleanup, ReleaseInfos
    <2> QED BY <2>2, <2>3, <2>4, <2>5
<1>10. CASE RemoveMethodInfoAfterRejit(t)
    <2>1. asked' = [asked EXCEPT ![t] = <<>>] /\ done' = [done EXCEPT ![t] = 0]
        BY <1>10 DEF RemoveMethodInfoAfterRejit, EndPass
    <2>2. asked' \in [Threads -> Seq(ImSet)]
        <3>1. <<>> \in Seq(ImSet)
            OBVIOUS
        <3> QED BY <2>1, <3>1
    <2>3. done' \in [Threads -> Nat]
        BY <2>1
    <2>4. read' = [u \in Threads |-> read'[u]] /\ info' = [u \in Threads |-> info'[u]]
        BY <1>10 DEF RemoveMethodInfoAfterRejit, EndPass
    <2>5. infosByToken' = [k \in Tokens |-> infosByToken'[k]]
        BY <1>10 DEF RemoveMethodInfoAfterRejit
    <2> QED BY <2>2, <2>3, <2>4, <2>5
<1>11. CASE TakeIl(t)
    BY <1>11 DEF TakeIl, Goto
<1>12. CASE JITInliningDecided(t)
    BY <1>12 DEF JITInliningDecided, Goto, ReleaseInfos
<1>13. CASE JITCompilationFinished(t)
    BY <1>13 DEF JITCompilationFinished, EndCompilation, Goto
<1>14. ASSUME NEW f \in Functions, JITCompilationStarted(t, f) PROVE PassTypes'
    BY <1>14 DEF JITCompilationStarted, Goto
<1>15. ASSUME NEW f \in Functions, ReJITCompilationStarted(t, f) PROVE PassTypes'
    BY <1>15 DEF ReJITCompilationStarted, Goto
<1>16. ASSUME NEW f \in Functions, JITInlining(t, f) PROVE PassTypes'
    BY <1>16 DEF JITInlining, Goto, CanEnter, StartPass, AddInfos
<1>17. ASSUME NEW k \in Tokens, CreateMethodInfoForRejit(t, k) PROVE PassTypes'
    BY <1>17 DEF CreateMethodInfoForRejit, StartPass, Goto, CanEnter, IncrementMethodRejitCount
<1>18. ASSUME NEW k \in Tokens, RequestRejit(t, k) PROVE PassTypes'
    BY <1>18 DEF RequestRejit
<1>19. ASSUME NEW k \in Tokens, GetILFunctionBody(t, k) PROVE PassTypes'
    BY <1>19 DEF GetILFunctionBody, CacheIl
<1>20. ASSUME NEW k \in Tokens, SetOtherFunctionBody(t, k) PROVE PassTypes'
    BY <1>20 DEF SetOtherFunctionBody
<1>21. CASE SetILFunctionBody(t)
    BY <1>21 DEF SetILFunctionBody
<1>22. CASE SetILInstrumentedCodeMap(t)
    BY <1>22 DEF SetILInstrumentedCodeMap, SaveMap
<1>23. CASE ReJITCompilationFinished(t)
    BY <1>23 DEF ReJITCompilationFinished, EndCompilation, Goto
<1>24. ASSUME NEW k \in Tokens, ModuleAttachedToAssembly(t, k) PROVE PassTypes'
    BY <1>24 DEF ModuleAttachedToAssembly
<1> QED BY <1>1, <1>2, <1>3, <1>4, <1>5, <1>6, <1>7, <1>8, <1>9, <1>10, <1>11,
          <1>12, <1>13, <1>14, <1>15, <1>16, <1>17, <1>18, <1>19, <1>20, <1>21, <1>22,
          <1>23, <1>24 DEF Continue, Choose

\* Each step keeps the types of what the CLR and the modules know of the methods.
LEMMA MethodTypesStep ==
    ASSUME Types, NEW t \in Threads, Continue(t) \/ Choose(t)
    PROVE  MethodTypes'
<1> USE DEF Types, MethodTypes, clrVars, loadVars, moduleVars
<1>1. CASE CreateMethodInfo(t)
    BY <1>1 DEF CreateMethodInfo, StartPass, Goto, CanEnter, AddInfos
<1>2. CASE ShouldInstrument(t)
    BY <1>2 DEF ShouldInstrument, Goto
<1>3. CASE BeforeInstrument(t)
    BY <1>3 DEF BeforeInstrument, Goto, CacheIl, SaveMap
<1>4. CASE InstrumentMethod(t)
    BY <1>4 DEF InstrumentMethod, Goto, InstrumentFails, CacheIl
<1>5. CASE ApplyIntermediateMethodInstrumentation(t)
    BY <1>5 DEF ApplyIntermediateMethodInstrumentation, Goto, SaveMap
<1>6. CASE RawReturns(t)
    BY <1>6 DEF RawReturns, Goto
<1>7. CASE ApplyFinalInstrumentation(t)
    BY <1>7 DEF ApplyFinalInstrumentation, Goto
<1>8. CASE ApplyFinalRejit(t)
    <2>1. markers' \in [Tokens -> Seq(Nat)]
        <3>1. Tok(t) \in Tokens
            BY DEF ThreadTypes, Jobs, Tok
        <3>2. CASE markers' = markers
            BY <3>2
        <3>3. CASE markers' = [markers EXCEPT ![Tok(t)] = Append(@, rejitCount[Tok(t)])]
            <4>1. Append(markers[Tok(t)], rejitCount[Tok(t)]) \in Seq(Nat)
                BY <3>1
            <4> QED BY <3>3, <4>1
        <3> QED BY <1>8, <3>2, <3>3 DEF ApplyFinalRejit
    <2>2. rejitIl' = [k \in Tokens |-> rejitIl'[k]]
        BY <1>8 DEF ApplyFinalRejit
    <2> QED BY <1>8, <2>1, <2>2 DEF ApplyFinalRejit
<1>9. CASE Cleanup(t)
    BY <1>9 DEF Cleanup, Goto, ReleaseInfos, EndPass
<1>10. CASE RemoveMethodInfoAfterRejit(t)
    BY <1>10 DEF RemoveMethodInfoAfterRejit, Goto, EndPass
<1>11. CASE TakeIl(t)
    BY <1>11 DEF TakeIl, Goto
<1>12. CASE JITInliningDecided(t)
    BY <1>12 DEF JITInliningDecided, Goto, ReleaseInfos
<1>13. CASE JITCompilationFinished(t)
    BY <1>13 DEF JITCompilationFinished, EndCompilation, Goto
<1>14. ASSUME NEW f \in Functions, JITCompilationStarted(t, f) PROVE MethodTypes'
    BY <1>14 DEF JITCompilationStarted, Goto
<1>15. ASSUME NEW f \in Functions, ReJITCompilationStarted(t, f) PROVE MethodTypes'
    BY <1>15 DEF ReJITCompilationStarted, Goto
<1>16. ASSUME NEW f \in Functions, JITInlining(t, f) PROVE MethodTypes'
    BY <1>16 DEF JITInlining, Goto, CanEnter, StartPass, AddInfos
<1>17. ASSUME NEW k \in Tokens, CreateMethodInfoForRejit(t, k) PROVE MethodTypes'
    <2>a. rejitCount' = rejitCount \/ rejitCount' = [rejitCount EXCEPT ![k] = @ + 1]
        BY <1>17 DEF CreateMethodInfoForRejit, IncrementMethodRejitCount
    <2>1. rejitCount' \in [Tokens -> Nat]
        BY <2>a
    <2>2. rejitIl' = [x \in Tokens |-> rejitIl'[x]]
        BY <1>17 DEF CreateMethodInfoForRejit
    <2> QED BY <1>17, <2>1, <2>2 DEF CreateMethodInfoForRejit
<1>18. ASSUME NEW k \in Tokens, RequestRejit(t, k) PROVE MethodTypes'
    BY <1>18 DEF RequestRejit
<1>19. ASSUME NEW k \in Tokens, GetILFunctionBody(t, k) PROVE MethodTypes'
    BY <1>19 DEF GetILFunctionBody, CacheIl
<1>20. ASSUME NEW k \in Tokens, SetOtherFunctionBody(t, k) PROVE MethodTypes'
    BY <1>20 DEF SetOtherFunctionBody
<1>21. CASE SetILFunctionBody(t)
    BY <1>21 DEF SetILFunctionBody
<1>22. CASE SetILInstrumentedCodeMap(t)
    BY <1>22 DEF SetILInstrumentedCodeMap, SaveMap
<1>23. CASE ReJITCompilationFinished(t)
    BY <1>23 DEF ReJITCompilationFinished, EndCompilation, Goto
<1>24. ASSUME NEW k \in Tokens, ModuleAttachedToAssembly(t, k) PROVE MethodTypes'
    BY <1>24 DEF ModuleAttachedToAssembly
<1> QED BY <1>1, <1>2, <1>3, <1>4, <1>5, <1>6, <1>7, <1>8, <1>9, <1>10, <1>11,
          <1>12, <1>13, <1>14, <1>15, <1>16, <1>17, <1>18, <1>19, <1>20, <1>21, <1>22,
          <1>23, <1>24 DEF Continue, Choose

\* Each step keeps the records of the passes records.
LEMMA InfosStep ==
    ASSUME Types, NEW t \in Threads, Continue(t) \/ Choose(t)
    PROVE  AreInfos'
<1> SUFFICES IsInfo(info[t])'
    BY StepApart DEF Apart, AreInfos, Types
<1>0. info = [u \in Threads |-> info[u]] /\ IsInfo(info[t])
    BY DEF Types, PassTypes, AreInfos
<1>a. IsInfo(NewInfo)
    BY DEF IsInfo, NewInfo
<1> USE <1>0 DEF passVars
<1>1. CASE CreateMethodInfo(t)
    BY <1>1 DEF CreateMethodInfo, StartPass, Goto, CanEnter, AddInfos
<1>2. CASE ShouldInstrument(t)
    BY <1>2 DEF ShouldInstrument, Goto
<1>3. CASE BeforeInstrument(t)
    <2>1. CASE info' = info
        BY <2>1
    <2>2. ASSUME NEW map, info' = [info EXCEPT ![t].graph = <<Baseline>>, ![t].map = Merged(t, map)]
          PROVE  IsInfo(info[t])'
        <3>1. info'[t] = [info[t] EXCEPT !.graph = <<Baseline>>, !.map = Merged(t, map)]
            BY <2>2
        <3> QED BY <3>1 DEF IsInfo
    <2> QED BY <1>3, <2>1, <2>2 DEF BeforeInstrument
<1>4. CASE InstrumentMethod(t)
    <2>1. CASE info' = info
        BY <2>1
    <2>2. ASSUME NEW il, info' = [info EXCEPT ![t].graph = il]
          PROVE  IsInfo(info[t])'
        <3>1. info'[t] = [info[t] EXCEPT !.graph = il]
            BY <2>2
        <3> QED BY <3>1 DEF IsInfo
    <2> QED BY <1>4, <2>1, <2>2 DEF InstrumentMethod, InstrumentFails
<1>5. CASE ApplyIntermediateMethodInstrumentation(t)
    <2>1. CASE info' = info
        BY <2>1
    <2>2. ASSUME NEW map, NEW ok \in BOOLEAN, NEW il,
                 info' = [info EXCEPT ![t].map = Merged(t, map), ![t].instrumented = ok, ![t].intermediate = il]
          PROVE  IsInfo(info[t])'
        <3>1. info'[t] = [info[t] EXCEPT !.map = Merged(t, map), !.instrumented = ok, !.intermediate = il]
            BY <2>2
        <3> QED BY <3>1 DEF IsInfo
    <2>3. CASE info' # info
        <3>1. PICK map \in EncodeMaps, ok \in BOOLEAN :
                    info' = [info EXCEPT ![t].map = Merged(t, map), ![t].instrumented = ok,
                                         ![t].intermediate = IF ok THEN info[t].graph ELSE info[t].intermediate]
            BY <1>5, <2>3 DEF ApplyIntermediateMethodInstrumentation
        <3> QED BY <3>1, <2>2
    <2> QED BY <2>1, <2>3
<1>6. CASE RawReturns(t)
    BY <1>6 DEF RawReturns, Goto
<1>7. CASE ApplyFinalInstrumentation(t)
    BY <1>7 DEF ApplyFinalInstrumentation, Goto
<1>8. CASE ApplyFinalRejit(t)
    BY <1>8 DEF ApplyFinalRejit, Goto
<1>9. CASE Cleanup(t)
    BY <1>9, <1>a DEF Cleanup, EndPass
<1>10. CASE RemoveMethodInfoAfterRejit(t)
    BY <1>10, <1>a DEF RemoveMethodInfoAfterRejit, EndPass
<1>11. CASE TakeIl(t)
    BY <1>11 DEF TakeIl, Goto
<1>12. CASE JITInliningDecided(t)
    BY <1>12 DEF JITInliningDecided, Goto, ReleaseInfos
<1>13. CASE JITCompilationFinished(t)
    BY <1>13 DEF JITCompilationFinished, EndCompilation, Goto
<1>14. ASSUME NEW f \in Functions, JITCompilationStarted(t, f) PROVE IsInfo(info[t])'
    BY <1>14 DEF JITCompilationStarted, Goto
<1>15. ASSUME NEW f \in Functions, ReJITCompilationStarted(t, f) PROVE IsInfo(info[t])'
    BY <1>15 DEF ReJITCompilationStarted, Goto
<1>16. ASSUME NEW f \in Functions, JITInlining(t, f) PROVE IsInfo(info[t])'
    BY <1>16 DEF JITInlining, Goto, CanEnter, StartPass, AddInfos
<1>17. ASSUME NEW k \in Tokens, CreateMethodInfoForRejit(t, k) PROVE IsInfo(info[t])'
    BY <1>17 DEF CreateMethodInfoForRejit, StartPass, Goto, CanEnter, IncrementMethodRejitCount
<1>18. ASSUME NEW k \in Tokens, RequestRejit(t, k) PROVE IsInfo(info[t])'
    BY <1>18 DEF RequestRejit
<1>19. ASSUME NEW k \in Tokens, GetILFunctionBody(t, k) PROVE IsInfo(info[t])'
    BY <1>19 DEF GetILFunctionBody, CacheIl
<1>20. ASSUME NEW k \in Tokens, SetOtherFunctionBody(t, k) PROVE IsInfo(info[t])'
    BY <1>20 DEF SetOtherFunctionBody
<1>21. CASE SetILFunctionBody(t)
    <2>1. ASSUME NEW il, info' = [info EXCEPT ![t].instrumented = TRUE, ![t].final = il]
          PROVE  IsInfo(info[t])'
        <3>1. info'[t] = [info[t] EXCEPT !.instrumented = TRUE, !.final = il]
            BY <2>1
        <3> QED BY <3>1 DEF IsInfo
    <2>2. ASSUME NEW il, info' = [info EXCEPT ![t].instrumented = TRUE, ![t].user = il]
          PROVE  IsInfo(info[t])'
        <3>1. info'[t] = [info[t] EXCEPT !.instrumented = TRUE, !.user = il]
            BY <2>2
        <3> QED BY <3>1 DEF IsInfo
    <2> QED BY <1>21, <2>1, <2>2 DEF SetILFunctionBody
<1>22. CASE SetILInstrumentedCodeMap(t)
    <2>1. PICK map \in RawMaps : info' = [info EXCEPT ![t].map = Merged(t, map)]
        BY <1>22 DEF SetILInstrumentedCodeMap
    <2>2. info'[t] = [info[t] EXCEPT !.map = Merged(t, map)]
        BY <2>1
    <2> QED BY <2>2 DEF IsInfo
<1>23. CASE ReJITCompilationFinished(t)
    BY <1>23 DEF ReJITCompilationFinished, EndCompilation, Goto
<1>24. ASSUME NEW k \in Tokens, ModuleAttachedToAssembly(t, k) PROVE IsInfo(info[t])'
    BY <1>24 DEF ModuleAttachedToAssembly
<1> QED BY <1>1, <1>2, <1>3, <1>4, <1>5, <1>6, <1>7, <1>8, <1>9, <1>10, <1>11,
          <1>12, <1>13, <1>14, <1>15, <1>16, <1>17, <1>18, <1>19, <1>20, <1>21, <1>22,
          <1>23, <1>24 DEF Continue, Choose

----------------------------------------------------------------------------
(* The maps of method infos. *)

\* The maps hold what they should as long as neither they nor the holder's work changes.
Undisturbed ==
    /\ csForJIT' = csForJIT /\ UNCHANGED infoVars
    /\ csForJIT \in Threads =>
            /\ job'[csForJIT] = job[csForJIT] /\ inlinee'[csForJIT] = inlinee[csForJIT]
            /\ pc'[csForJIT] = "inlining" <=> pc[csForJIT] = "inlining"
LEMMA MapsUndisturbed ==
    ASSUME MapsHold, Undisturbed
    PROVE  MapsHold'
<1>1. \A f : Holds(f)' <=> Holds(f)
    BY DEF Undisturbed, Holds
<1>2. \A k : HoldsToken(k)' <=> HoldsToken(k)
    BY DEF Undisturbed, HoldsToken, Tok
<1>3. csForJIT' = csForJIT /\ UNCHANGED infoVars
    BY DEF Undisturbed
<1> QED BY <1>1, <1>2, <1>3 DEF MapsHold, infoVars

\* Each step leaves the maps with the objects of the lock's holder and no other.
LEMMA MapsStep ==
    ASSUME Types, LockHeld, JobsFit, MapsHold, NEW t \in Threads, Continue(t) \/ Choose(t)
    PROVE  MapsHold'
<1>0. Apart(t)
    BY StepApart
<1>a. pc[t] \notin LockedSteps => csForJIT # t
    BY DEF LockHeld
<1>b. csForJIT = NoThread =>
            /\ managerInfos = methodInfos
            /\ \A f \in Functions : methodInfos[f] = NoInfo
            /\ \A k \in Tokens : infosByToken[k] = NoInfo
    BY ThreadsAssumption DEF MapsHold, Holds, HoldsToken
<1>c. Tok(t) \in Tokens /\ TokenOf \in [Functions -> Tokens] /\ NoFunction \notin Functions
    BY FunctionsAssumption DEF Types, ThreadTypes, Jobs, Tok
<1>1. CASE CreateMethodInfo(t)
    <2>1. CASE Tok(t) \notin known
        <3>1. Undisturbed
            BY <1>1, <1>0, <1>a, <2>1 DEF CreateMethodInfo, Goto, Undisturbed, Apart, LockedSteps, Steps
        <3> QED BY <3>1, MapsUndisturbed
    <2>2. CASE Tok(t) \in known
        <3>1. /\ csForJIT = NoThread /\ csForJIT' = t /\ job' = job /\ inlinee' = inlinee
              /\ managerInfos' = [f \in Functions |->
                    IF f = job[t].fn /\ managerInfos[f] = NoInfo THEN <<t, f>> ELSE managerInfos[f]]
              /\ methodInfos' = [f \in Functions |-> IF f = job[t].fn THEN <<t, f>> ELSE methodInfos[f]]
              /\ infosByToken' = [infosByToken EXCEPT ![Tok(t)] = <<t, job[t].fn>>]
            BY <1>1, <2>2 DEF CreateMethodInfo, CanEnter, StartPass, AddInfos
        <3>2. pc'[t] # "inlining"
            BY <1>1, <2>2 DEF CreateMethodInfo, StartPass, Goto, Types, ThreadTypes
        <3>3. \A f : Holds(f)' <=> f = job[t].fn
            BY <3>1, <3>2 DEF Holds
        <3>4. \A k : HoldsToken(k)' <=> k = Tok(t)
            BY <3>1, <3>2 DEF HoldsToken, Tok
        <3>5. job[t].fn \in Functions
            BY <1>1 DEF CreateMethodInfo, JobsFit, JobFits
        <3>6. managerInfos' = methodInfos'
            BY <1>b, <3>1
        <3>7. \A f \in Functions : methodInfos'[f] = IF Holds(f)' THEN <<csForJIT', f>> ELSE NoInfo
            BY <1>b, <3>1, <3>3
        <3>8. \A k \in Tokens : infosByToken'[k] = IF k = Tok(t) THEN <<t, job[t].fn>> ELSE NoInfo
            BY <1>b, <3>1 DEF Types, PassTypes
        <3> QED BY <3>1, <3>3, <3>4, <3>5, <3>6, <3>7, <3>8 DEF MapsHold
    <2> QED BY <2>1, <2>2
<1>2. CASE ShouldInstrument(t)
    <2>1. Undisturbed
        BY <1>2, <1>0 DEF ShouldInstrument, Goto, Undisturbed, Apart, Types, ThreadTypes, infoVars
    <2> QED BY <2>1, MapsUndisturbed
<1>3. CASE BeforeInstrument(t)
    <2>1. Undisturbed
        BY <1>3, <1>0 DEF BeforeInstrument, Goto, Undisturbed, Apart, Types, ThreadTypes, infoVars
    <2> QED BY <2>1, MapsUndisturbed
<1>4. CASE InstrumentMethod(t)
    <2>1. Undisturbed
        BY <1>4, <1>0 DEF InstrumentMethod, Goto, InstrumentFails, Undisturbed, Apart, Types, ThreadTypes, infoVars
    <2> QED BY <2>1, MapsUndisturbed
<1>5. CASE ApplyIntermediateMethodInstrumentation(t)
    <2>1. Undisturbed
        BY <1>5, <1>0 DEF ApplyIntermediateMethodInstrumentation, Goto, Undisturbed, Apart, Types, ThreadTypes, infoVars
    <2> QED BY <2>1, MapsUndisturbed
<1>6. CASE RawReturns(t)
    <2>1. Undisturbed
        BY <1>6, <1>0 DEF RawReturns, Goto, Undisturbed, Apart, Types, ThreadTypes, infoVars
    <2> QED BY <2>1, MapsUndisturbed
<1>7. CASE ApplyFinalInstrumentation(t)
    <2>1. Undisturbed
        BY <1>7, <1>0 DEF ApplyFinalInstrumentation, Goto, Undisturbed, Apart, Types, ThreadTypes, infoVars
    <2> QED BY <2>1, MapsUndisturbed
<1>8. CASE ApplyFinalRejit(t)
    <2>1. Undisturbed
        BY <1>8, <1>0 DEF ApplyFinalRejit, Goto, Undisturbed, Apart, Types, ThreadTypes, infoVars
    <2> QED BY <2>1, MapsUndisturbed
<1>9. CASE Cleanup(t)
    <2>1. pc[t] = "cleanup" /\ ~job[t].rejit /\ csForJIT = t
        BY <1>9 DEF Cleanup, LockHeld, LockedSteps, Steps
    <2>2. job[t].fn \in Functions /\ Tok(t) = TokenOf[job[t].fn]
        BY <2>1 DEF JobsFit, JobFits, PassSteps, Tok
    <2>3. \A f : Holds(f) => f = job[t].fn
        BY <2>1 DEF Holds
    <2>4. \A k : HoldsToken(k) => k = Tok(t)
        BY <2>1 DEF HoldsToken
    <2>5. /\ csForJIT' = NoThread
          /\ managerInfos' = [f \in Functions |-> IF f = job[t].fn THEN NoInfo ELSE managerInfos[f]]
          /\ methodInfos' = [f \in Functions |-> IF f = job[t].fn THEN NoInfo ELSE methodInfos[f]]
          /\ infosByToken' = [k \in Tokens |-> IF k = TokenOf[job[t].fn] THEN NoInfo ELSE infosByToken[k]]
        BY <1>9 DEF Cleanup, ReleaseInfos, EndPass
    <2>6. \A f \in Functions : managerInfos'[f] = NoInfo /\ methodInfos'[f] = NoInfo
        BY <2>3, <2>5 DEF MapsHold
    <2>7. \A k \in Tokens : infosByToken'[k] = NoInfo
        BY <2>2, <2>4, <2>5 DEF MapsHold
    <2>8. managerInfos' = methodInfos'
        BY <2>5, <2>6
    <2> QED BY <2>5, <2>6, <2>7, <2>8, ThreadsAssumption DEF MapsHold, Holds, HoldsToken
<1>10. CASE RemoveMethodInfoAfterRejit(t)
    <2>1. pc[t] = "cleanup" /\ job[t].rejit /\ csForJIT = t
        BY <1>10 DEF RemoveMethodInfoAfterRejit, LockHeld, LockedSteps, Steps
    <2>2. job[t].fn = NoFunction
        BY <2>1 DEF JobsFit, JobFits, PassSteps
    <2>3. \A f \in Functions : ~Holds(f)
        BY <1>c, <2>1, <2>2 DEF Holds
    <2>4. \A k : HoldsToken(k) => k = Tok(t)
        BY <2>1 DEF HoldsToken
    <2>5. /\ csForJIT' = NoThread /\ managerInfos' = managerInfos /\ methodInfos' = methodInfos
          /\ infosByToken' = [infosByToken EXCEPT ![Tok(t)] = NoInfo]
        BY <1>10 DEF RemoveMethodInfoAfterRejit, EndPass
    <2>6. \A f \in Functions : methodInfos'[f] = NoInfo
        BY <2>3, <2>5 DEF MapsHold
    <2>7. \A k \in Tokens : infosByToken'[k] = NoInfo
        BY <2>4, <2>5 DEF MapsHold, Types, PassTypes
    <2>8. managerInfos' = methodInfos'
        BY <2>5 DEF MapsHold
    <2> QED BY <2>5, <2>6, <2>7, <2>8, ThreadsAssumption DEF MapsHold, Holds, HoldsToken
<1>11. CASE TakeIl(t)
    <2>1. Undisturbed
        BY <1>11, <1>0, <1>a DEF TakeIl, Goto, Undisturbed, Apart, Types, ThreadTypes, infoVars, LockedSteps, Steps
    <2> QED BY <2>1, MapsUndisturbed
<1>12. CASE JITInliningDecided(t)
    <2>1. pc[t] = "inlining" /\ csForJIT = t
        BY <1>12 DEF JITInliningDecided, LockHeld, LockedSteps, Steps
    <2> DEFINE F == job[t].fn
               G == inlinee[t]
    <2>2. F \in Functions /\ Tok(t) = TokenOf[F]
        BY <2>1 DEF JobsFit, JobFits, PassSteps, Tok
    <2>3. \A f : Holds(f) => f \in {G, F}
        BY <2>1 DEF Holds
    <2>4. \A k : HoldsToken(k) => k \in {TokenOf[G], Tok(t)}
        BY <2>1 DEF HoldsToken
    <2>5. /\ csForJIT' = NoThread
          /\ managerInfos' = [f \in Functions |-> IF f \in {G, F} THEN NoInfo ELSE managerInfos[f]]
          /\ methodInfos' = [f \in Functions |-> IF f \in {G, F} THEN NoInfo ELSE methodInfos[f]]
          /\ infosByToken' = [k \in Tokens |-> IF \E f \in {G, F} : TokenOf[f] = k THEN NoInfo ELSE infosByToken[k]]
        BY <1>12 DEF JITInliningDecided, ReleaseInfos
    <2> HIDE DEF F, G
    <2>6. \A f \in Functions : managerInfos'[f] = NoInfo /\ methodInfos'[f] = NoInfo
        BY <2>3, <2>5 DEF MapsHold
    <2>7. \A k \in Tokens : infosByToken'[k] = NoInfo
        BY <2>2, <2>4, <2>5 DEF MapsHold
    <2>8. managerInfos' = methodInfos'
        BY <2>5, <2>6
    <2> QED BY <2>5, <2>6, <2>7, <2>8, ThreadsAssumption DEF MapsHold, Holds, HoldsToken
<1>13. CASE JITCompilationFinished(t)
    <2>1. Undisturbed
        BY <1>13, <1>0, <1>a DEF JITCompilationFinished, EndCompilation, Goto, Undisturbed, Apart, Types, ThreadTypes, infoVars, LockedSteps, Steps
    <2> QED BY <2>1, MapsUndisturbed
<1>14. ASSUME NEW f \in Functions, JITCompilationStarted(t, f) PROVE MapsHold'
    <2>1. Undisturbed
        BY <1>14, <1>0, <1>a DEF JITCompilationStarted, Goto, Undisturbed, Apart, Types, ThreadTypes, infoVars, LockedSteps, Steps
    <2> QED BY <2>1, MapsUndisturbed
<1>15. ASSUME NEW f \in Functions, ReJITCompilationStarted(t, f) PROVE MapsHold'
    <2>1. Undisturbed
        BY <1>15, <1>0, <1>a DEF ReJITCompilationStarted, Goto, Undisturbed, Apart, Types, ThreadTypes, infoVars, LockedSteps, Steps
    <2> QED BY <2>1, MapsUndisturbed
<1>16. ASSUME NEW f \in Functions, JITInlining(t, f) PROVE MapsHold'
    <2>1. CASE ~({TokenOf[f], Tok(t)} \subseteq known)
        <3>1. Undisturbed
            BY <1>16, <2>1 DEF JITInlining, Undisturbed, infoVars
        <3> QED BY <3>1, MapsUndisturbed
    <2>2. CASE {TokenOf[f], Tok(t)} \subseteq known
        <3> DEFINE F == job[t].fn
        <3>1. /\ csForJIT = NoThread /\ csForJIT' = t /\ job' = job
              /\ inlinee' = [inlinee EXCEPT ![t] = f] /\ pc' = [pc EXCEPT ![t] = "inlining"]
              /\ managerInfos' = [g \in Functions |->
                    IF g \in {f, F} /\ managerInfos[g] = NoInfo THEN <<t, g>> ELSE managerInfos[g]]
              /\ methodInfos' = [g \in Functions |-> IF g \in {f, F} THEN <<t, g>> ELSE methodInfos[g]]
              /\ infosByToken' = [infosByToken EXCEPT ![TokenOf[f]] = <<t, f>>, ![Tok(t)] = <<t, F>>]
            BY <1>16, <2>2 DEF JITInlining, CanEnter, StartPass, Goto, AddInfos
        <3>2. inlinee'[t] = f /\ pc'[t] = "inlining"
            BY <3>1 DEF Types, ThreadTypes
        <3>3. F \in Functions
            BY <1>16 DEF JITInlining, JobsFit, JobFits
        <3> HIDE DEF F
        <3>4. \A g : Holds(g)' <=> g = f \/ g = F
            BY <3>1, <3>2 DEF Holds, F
        <3>5. \A k : HoldsToken(k)' <=> k = TokenOf[f] \/ k = Tok(t)
            BY <3>1, <3>2 DEF HoldsToken, Tok
        <3>6. managerInfos' = methodInfos'
            BY <1>b, <3>1
        <3>7. \A g \in Functions : methodInfos'[g] = IF Holds(g)' THEN <<csForJIT', g>> ELSE NoInfo
            BY <1>b, <3>1, <3>4
        <3>8. \A k \in Tokens : infosByToken'[k] =
                    IF k = Tok(t) THEN <<t, F>> ELSE IF k = TokenOf[f] THEN <<t, f>> ELSE NoInfo
            BY <1>b, <1>c, <3>1 DEF Types, PassTypes
        <3>9. \A k \in Tokens : HoldsToken(k)' => \E g \in Functions \cup {NoFunction} :
                    infosByToken'[k] = <<csForJIT', g>> /\ (g \in Functions => Holds(g)')
            <4> TAKE k \in Tokens
            <4>1. CASE k = Tok(t)
                BY <3>1, <3>3, <3>4, <3>8, <4>1
            <4>2. CASE k # Tok(t)
                BY <3>1, <3>4, <3>5, <3>8, <4>2
            <4> QED BY <4>1, <4>2
        <3>10. \A k \in Tokens : ~HoldsToken(k)' => infosByToken'[k] = NoInfo
            BY <3>5, <3>8
        <3> QED BY <3>6, <3>7, <3>9, <3>10 DEF MapsHold
    <2> QED BY <2>1, <2>2
<1>17. ASSUME NEW k \in Tokens, CreateMethodInfoForRejit(t, k) PROVE MapsHold'
    <2>1. CASE k \notin known
        <3>1. Undisturbed
            BY <1>17, <2>1 DEF CreateMethodInfoForRejit, Undisturbed, infoVars
        <3> QED BY <3>1, MapsUndisturbed
    <2>2. CASE k \in known
        <3>1. /\ csForJIT = NoThread /\ csForJIT' = t /\ inlinee' = inlinee
              /\ managerInfos' = managerInfos /\ methodInfos' = methodInfos
              /\ infosByToken' = [infosByToken EXCEPT ![k] = <<t, NoFunction>>]
            BY <1>17, <2>2 DEF CreateMethodInfoForRejit, CanEnter, StartPass
        <3>2. job'[t].fn = NoFunction /\ job'[t].tok = k
            BY <1>17, <2>2 DEF CreateMethodInfoForRejit, Types, ThreadTypes
        <3>3. pc'[t] # "inlining"
            BY <1>17, <2>2 DEF CreateMethodInfoForRejit, StartPass, Goto, Types, ThreadTypes
        <3>4. \A f \in Functions : ~Holds(f)'
            BY <1>c, <3>1, <3>2, <3>3 DEF Holds
        <3>5. \A x : HoldsToken(x)' <=> x = k
            BY <3>1, <3>2, <3>3 DEF HoldsToken, Tok
        <3>6. managerInfos' = methodInfos'
            BY <1>b, <3>1
        <3>7. \A f \in Functions : methodInfos'[f] = IF Holds(f)' THEN <<csForJIT', f>> ELSE NoInfo
            BY <1>b, <3>1, <3>4
        <3>8. \A x \in Tokens : infosByToken'[x] = IF x = k THEN <<t, NoFunction>> ELSE NoInfo
            BY <1>b, <3>1 DEF Types, PassTypes
        <3> QED BY <1>c, <3>1, <3>5, <3>6, <3>7, <3>8 DEF MapsHold
    <2> QED BY <2>1, <2>2
<1>18. ASSUME NEW k \in Tokens, RequestRejit(t, k) PROVE MapsHold'
    <2>1. Undisturbed
        BY <1>18, <1>0, <1>a DEF RequestRejit, Undisturbed, Apart, Types, ThreadTypes, infoVars, LockedSteps, Steps
    <2> QED BY <2>1, MapsUndisturbed
<1>19. ASSUME NEW k \in Tokens, GetILFunctionBody(t, k) PROVE MapsHold'
    <2>1. Undisturbed
        BY <1>19, <1>0, <1>a DEF GetILFunctionBody, Undisturbed, Apart, Types, ThreadTypes, infoVars, LockedSteps, Steps
    <2> QED BY <2>1, MapsUndisturbed
<1>20. ASSUME NEW k \in Tokens, SetOtherFunctionBody(t, k) PROVE MapsHold'
    <2>1. Undisturbed
        BY <1>20, <1>0, <1>a DEF SetOtherFunctionBody, Undisturbed, Apart, Types, ThreadTypes, infoVars, LockedSteps, Steps
    <2> QED BY <2>1, MapsUndisturbed
<1>21. CASE SetILFunctionBody(t)
    <2>1. Undisturbed
        BY <1>21, <1>0, <1>a DEF SetILFunctionBody, Undisturbed, Apart, Types, ThreadTypes, infoVars, LockedSteps, Steps
    <2> QED BY <2>1, MapsUndisturbed
<1>22. CASE SetILInstrumentedCodeMap(t)
    <2>1. Undisturbed
        BY <1>22, <1>0, <1>a DEF SetILInstrumentedCodeMap, Undisturbed, Apart, Types, ThreadTypes, infoVars, LockedSteps, Steps
    <2> QED BY <2>1, MapsUndisturbed
<1>23. CASE ReJITCompilationFinished(t)
    <2>1. Undisturbed
        BY <1>23, <1>0, <1>a DEF ReJITCompilationFinished, EndCompilation, Goto, Undisturbed, Apart, Types, ThreadTypes, infoVars, LockedSteps, Steps
    <2> QED BY <2>1, MapsUndisturbed
<1>24. ASSUME NEW k \in Tokens, ModuleAttachedToAssembly(t, k) PROVE MapsHold'
    <2>1. Undisturbed
        BY <1>24, <1>0, <1>a DEF ModuleAttachedToAssembly, Undisturbed, Apart, Types, ThreadTypes, infoVars, LockedSteps, Steps
    <2> QED BY <2>1, MapsUndisturbed
<1> QED BY <1>1, <1>2, <1>3, <1>4, <1>5, <1>6, <1>7, <1>8, <1>9, <1>10, <1>11,
          <1>12, <1>13, <1>14, <1>15, <1>16, <1>17, <1>18, <1>19, <1>20, <1>21, <1>22,
          <1>23, <1>24 DEF Continue, Choose

\* Under the invariant no CMethodInfo leaks.
LEMMA MapsTracked ==
    ASSUME Types, LockHeld, JobsFit, MapsHold
    PROVE  InfosTracked
<1>0. NoFunction \notin Functions /\ NoThread \notin Threads /\ TokenOf \in [Functions -> Tokens]
    BY FunctionsAssumption, ThreadsAssumption
<1>1. methodInfos = managerInfos
    BY DEF MapsHold
<1>2. ASSUME NEW f \in Functions, methodInfos[f] # NoInfo
      PROVE  /\ csForJIT # NoThread /\ methodInfos[f] = <<csForJIT, f>>
             /\ infosByToken[TokenOf[f]] # NoInfo
    <2>1. Holds(f) /\ methodInfos[f] = <<csForJIT, f>>
        BY <1>2 DEF MapsHold
    <2>2. csForJIT \in Threads /\ pc[csForJIT] \in LockedSteps
        BY <2>1 DEF Holds, LockHeld
    <2>3. HoldsToken(TokenOf[f])
        <3>1. CASE f = job[csForJIT].fn
            <4>1. pc[csForJIT] \in PassSteps \/ pc[csForJIT] = "inlining"
                BY <2>2 DEF LockedSteps, Steps, PassSteps
            <4>2. job[csForJIT].rejit \in BOOLEAN
                BY <2>2 DEF Types, ThreadTypes, Jobs
            <4>3. job[csForJIT].tok = TokenOf[f]
                BY <1>0, <2>2, <3>1, <4>1, <4>2 DEF JobsFit, JobFits
            <4> QED BY <2>2, <4>3 DEF HoldsToken, Tok
        <3>2. CASE f # job[csForJIT].fn
            BY <2>1, <2>2, <3>2 DEF Holds, HoldsToken
        <3> QED BY <3>1, <3>2
    <2>4. TokenOf[f] \in Tokens
        BY <1>0
    <2> QED BY <1>0, <2>1, <2>2, <2>3, <2>4 DEF MapsHold, NoInfo
<1>3. ASSUME NEW k \in Tokens, infosByToken[k] # NoInfo
      PROVE  /\ csForJIT # NoThread /\ infosByToken[k][1] = csForJIT
             /\ infosByToken[k][2] = NoFunction \/ methodInfos[infosByToken[k][2]] = infosByToken[k]
    <2>1. HoldsToken(k)
        BY <1>3 DEF MapsHold
    <2>2. PICK f \in Functions \cup {NoFunction} : infosByToken[k] = <<csForJIT, f>> /\ (f \in Functions => Holds(f))
        BY <2>1 DEF MapsHold
    <2>3. f \in Functions => methodInfos[f] = <<csForJIT, f>>
        BY <2>2 DEF MapsHold
    <2> QED BY <1>0, <2>1, <2>2, <2>3 DEF HoldsToken
<1> QED BY <1>1, <1>2, <1>3 DEF InfosTracked

----------------------------------------------------------------------------
(* The IL a method has, and the IL it had before the engine. *)

\* What a step may do to the IL of a method: nothing; forget that of a rejit; give the CLR the result of a pass; or let
\* the raw profiler write the body of a method that no pass is working on, before the engine has read it or after.
Given(t, k) ==
    \/ origin'[k] = origin[k] /\ clr'[k].il = clr[k].il /\ rejitIl'[k] = rejitIl[k]
    \/ /\ origin'[k] = origin[k] /\ clr'[k].il = clr[k].il
       /\ csForJIT = NoThread /\ rejitIl'[k] = NoCode
    \/ /\ pc[t] = "final" /\ k = Tok(t) /\ origin'[k] = origin[k]
       /\ clr'[k].il = clr[k].il \/ clr'[k].il = GetFinalInstrumentation(info[t])
       /\ rejitIl'[k] = rejitIl[k] \/ rejitIl'[k].il = GetFinalInstrumentation(info[t])
    \/ /\ infosByToken[k] = NoInfo /\ cachedIl'[k] = cachedIl[k] /\ rejitIl'[k] = rejitIl[k]
       /\ clr'[k].il = Append(GetMethodIl(k), Raw)
       /\ origin'[k] = IF cachedIl[k] = NoBody THEN Append(GetMethodIl(k), Raw) ELSE origin[k]
GivenBy(t) == \A k \in Tokens : Given(t, k)
LEMMA GivenStep ==
    ASSUME Types, NEW t \in Threads, Continue(t) \/ Choose(t)
    PROVE  GivenBy(t)
<1>a. /\ Tok(t) \in Tokens /\ clr = [k \in Tokens |-> clr[k]]
      /\ rejitIl = [k \in Tokens |-> rejitIl[k]] /\ origin = [k \in Tokens |-> origin[k]]
    BY DEF Types, ThreadTypes, MethodTypes, Jobs, Tok
<1>b. ASSUME UNCHANGED <<clr, rejitIl, origin>> PROVE GivenBy(t)
    BY <1>b DEF GivenBy, Given
<1> USE DEF clrVars, loadVars
<1>1. CASE CreateMethodInfo(t)
    BY <1>1, <1>b DEF CreateMethodInfo
<1>2. CASE ShouldInstrument(t)
    BY <1>2, <1>b DEF ShouldInstrument
<1>3. CASE BeforeInstrument(t)
    BY <1>3, <1>b DEF BeforeInstrument
<1>4. CASE InstrumentMethod(t)
    BY <1>4, <1>b DEF InstrumentMethod
<1>5. CASE ApplyIntermediateMethodInstrumentation(t)
    BY <1>5, <1>b DEF ApplyIntermediateMethodInstrumentation
<1>6. CASE RawReturns(t)
    BY <1>6, <1>b DEF RawReturns
<1>7. CASE ApplyFinalInstrumentation(t)
    <2> DEFINE final == GetFinalInstrumentation(info[t])
    <2>1. pc[t] = "final" /\ UNCHANGED <<rejitIl, origin>>
        BY <1>7 DEF ApplyFinalInstrumentation, loadVars
    <2>2. clr' = clr \/ \E map : clr' = [clr EXCEPT ![Tok(t)] = Code(final, map)]
        BY <1>7 DEF ApplyFinalInstrumentation
    <2> HIDE DEF final
    <2>3. \A k \in Tokens : clr'[k] = clr[k] \/ (k = Tok(t) /\ clr'[k].il = final)
        BY <1>a, <2>2 DEF Code
    <2> QED BY <2>1, <2>3 DEF GivenBy, Given, final
<1>8. CASE ApplyFinalRejit(t)
    <2> DEFINE final == GetFinalInstrumentation(info[t])
    <2>1. pc[t] = "final" /\ UNCHANGED <<clr, origin>>
        BY <1>8 DEF ApplyFinalRejit, loadVars
    <2>2. rejitIl' = rejitIl \/ \E map : rejitIl' = [rejitIl EXCEPT ![Tok(t)] = Code(final, map)]
        BY <1>8 DEF ApplyFinalRejit
    <2> HIDE DEF final
    <2>3. \A k \in Tokens : rejitIl'[k] = rejitIl[k] \/ (k = Tok(t) /\ rejitIl'[k].il = final)
        BY <1>a, <2>2 DEF Code
    <2> QED BY <2>1, <2>3 DEF GivenBy, Given, final
<1>9. CASE Cleanup(t)
    BY <1>9, <1>b DEF Cleanup
<1>10. CASE RemoveMethodInfoAfterRejit(t)
    BY <1>10, <1>b DEF RemoveMethodInfoAfterRejit
<1>11. CASE TakeIl(t)
    BY <1>11, <1>b DEF TakeIl
<1>12. CASE JITInliningDecided(t)
    BY <1>12, <1>b DEF JITInliningDecided
<1>13. CASE JITCompilationFinished(t)
    BY <1>13, <1>b DEF JITCompilationFinished, EndCompilation
<1>14. ASSUME NEW f \in Functions, JITCompilationStarted(t, f) PROVE GivenBy(t)
    BY <1>14, <1>b DEF JITCompilationStarted
<1>15. ASSUME NEW f \in Functions, ReJITCompilationStarted(t, f) PROVE GivenBy(t)
    BY <1>15, <1>b DEF ReJITCompilationStarted
<1>16. ASSUME NEW f \in Functions, JITInlining(t, f) PROVE GivenBy(t)
    BY <1>16, <1>b DEF JITInlining
<1>17. ASSUME NEW k \in Tokens, CreateMethodInfoForRejit(t, k) PROVE GivenBy(t)
    <2>1. csForJIT = NoThread /\ UNCHANGED <<clr, origin>> /\ rejitIl' = [rejitIl EXCEPT ![k] = NoCode]
        BY <1>17 DEF CreateMethodInfoForRejit, CanEnter, loadVars
    <2> QED BY <1>a, <2>1 DEF GivenBy, Given
<1>18. ASSUME NEW k \in Tokens, RequestRejit(t, k) PROVE GivenBy(t)
    BY <1>18, <1>b DEF RequestRejit
<1>19. ASSUME NEW k \in Tokens, GetILFunctionBody(t, k) PROVE GivenBy(t)
    BY <1>19, <1>b DEF GetILFunctionBody
<1>20. ASSUME NEW k \in Tokens, SetOtherFunctionBody(t, k) PROVE GivenBy(t)
    <2> DEFINE il == Append(GetMethodIl(k), Raw)
    <2>1. infosByToken[k] = NoInfo /\ UNCHANGED <<rejitIl, cachedIl>>
        BY <1>20 DEF SetOtherFunctionBody, moduleVars
    <2>2. /\ clr' = [clr EXCEPT ![k] = Code(il, clr[k].map)]
          /\ origin' = IF cachedIl[k] = NoBody THEN [origin EXCEPT ![k] = il] ELSE origin
        BY <1>20 DEF SetOtherFunctionBody
    <2> HIDE DEF il
    <2>3. clr'[k].il = il /\ \A x \in Tokens \ {k} : clr'[x] = clr[x]
        BY <1>a, <2>2 DEF Code
    <2>4. origin'[k] = IF cachedIl[k] = NoBody THEN il ELSE origin[k]
        BY <1>a, <2>2
    <2>5. \A x \in Tokens \ {k} : origin'[x] = origin[x]
        BY <1>a, <2>2
    <2>6. Given(t, k)
        BY <2>1, <2>3, <2>4 DEF Given, il
    <2>7. \A x \in Tokens \ {k} : Given(t, x)
        BY <2>1, <2>3, <2>5 DEF Given
    <2> QED BY <2>6, <2>7 DEF GivenBy
<1>21. CASE SetILFunctionBody(t)
    BY <1>21, <1>b DEF SetILFunctionBody
<1>22. CASE SetILInstrumentedCodeMap(t)
    BY <1>22, <1>b DEF SetILInstrumentedCodeMap
<1>23. CASE ReJITCompilationFinished(t)
    <2>1. UNCHANGED <<rejitIl, origin>>
        BY <1>23 DEF ReJITCompilationFinished, EndCompilation, loadVars
    <2>2. clr' = clr \/ clr' = [clr EXCEPT ![Tok(t)] = Code(clr[Tok(t)].il, ilMaps[<<Tok(t), NoFunction>>])]
        BY <1>23 DEF ReJITCompilationFinished
    <2>3. \A k \in Tokens : clr'[k].il = clr[k].il
        BY <1>a, <2>2 DEF Code
    <2> QED BY <2>1, <2>3 DEF GivenBy, Given
<1>24. ASSUME NEW k \in Tokens, ModuleAttachedToAssembly(t, k) PROVE GivenBy(t)
    BY <1>24, <1>b DEF ModuleAttachedToAssembly
<1> QED BY <1>1, <1>2, <1>3, <1>4, <1>5, <1>6, <1>7, <1>8, <1>9, <1>10, <1>11,
          <1>12, <1>13, <1>14, <1>15, <1>16, <1>17, <1>18, <1>19, <1>20, <1>21, <1>22,
          <1>23, <1>24 DEF Continue, Choose

\* The original and the results that a pass makes of it are bodies.
LEMMA OriginIsBody ==
    ASSUME OriginalKept, NEW k \in Tokens
    PROVE  origin[k] \in Bodies /\ origin[k] # NoBody
<1>1. origin[k] \in Seq({Raw})
    BY DEF OriginalKept
<1>2. origin[k] \in Bodies
    BY <1>1 DEF Bodies
<1> QED BY <1>2, MethodsAssumption

\* A method that a pass is working on keeps its original.
LEMMA OriginInPass ==
    ASSUME Types, LockHeld, MapsHold, NEW t \in Threads, Continue(t) \/ Choose(t),
           NEW u \in Threads, pc[u] \in PassSteps, job'[u] = job[u]
    PROVE  Orig(u)' = Orig(u)
<1>1. csForJIT = u /\ Tok(u) \in Tokens
    BY DEF LockHeld, LockedSteps, Steps, PassSteps, Types, ThreadTypes, Jobs, Tok
<1>2. HoldsToken(Tok(u))
    BY <1>1 DEF HoldsToken
<1>3. infosByToken[Tok(u)] # NoInfo
    BY <1>1, <1>2, ThreadsAssumption DEF MapsHold, NoInfo
<1>4. Given(t, Tok(u))
    BY <1>1, GivenStep DEF GivenBy
<1>5. origin'[Tok(u)] = origin[Tok(u)]
    BY <1>3, <1>4 DEF Given
<1> QED BY <1>5 DEF Orig, Tok

----------------------------------------------------------------------------
(* What a pass builds. *)

\* GetMethodIl gets the original IL, from the CLR or from the cache.
LEMMA OriginalRead ==
    ASSUME OriginalKept, NEW k \in Tokens
    PROVE  GetMethodIl(k) = origin[k]
<1>1. NoBody # origin[k]
    BY OriginIsBody
<1> QED BY <1>1 DEF OriginalKept, GetMethodIl

\* Each step leaves its thread with what a pass has built by then.
LEMMA BuiltStep ==
    ASSUME Types, LockHeld, JobsFit, MapsHold, AllBuilt, OriginalKept, NEW t \in Threads, Continue(t) \/ Choose(t)
    PROVE  AllBuilt'
<1> SUFFICES Built(t)'
    <2> SUFFICES ASSUME NEW u \in Threads, u # t PROVE Built(u)'
        BY DEF AllBuilt
    <2>1. /\ pc'[u] = pc[u] /\ asked'[u] = asked[u] /\ done'[u] = done[u]
          /\ info'[u] = info[u] /\ read'[u] = read[u] /\ job'[u] = job[u]
        BY StepApart DEF Apart
    <2>2. Built(u)
        BY DEF AllBuilt
    <2>3. CASE pc[u] \in PassSteps
        <3>1. Orig(u)' = Orig(u)
            BY <2>1, <2>3, OriginInPass
        <3> QED BY <2>1, <2>2, <3>1 DEF Built, Fresh, OnlyGraph, Edits, EditsDone, Rendered
    <2>4. CASE pc[u] \notin PassSteps
        BY <2>1, <2>2, <2>4 DEF Built, Fresh, PassSteps
    <2> QED BY <2>3, <2>4
<1>0. Built(t)
    BY DEF AllBuilt
<1>a. /\ pc \in [Threads -> Steps] /\ Tok(t) \in Tokens
      /\ asked \in [Threads -> Seq(ImSet)] /\ done \in [Threads -> Nat]
      /\ info = [u \in Threads |-> info[u]] /\ read = [u \in Threads |-> read[u]]
    BY DEF Types, ThreadTypes, PassTypes, Jobs, Tok
<1>b. IsInfo(info[t]) /\ info[t].instrumented \in BOOLEAN
    BY DEF Types, AreInfos, IsInfo
<1>c. pc[t] \in PassSteps /\ job' = job => Orig(t)' = Orig(t)
    BY OriginInPass
<1>f. Orig(t) \in Bodies
    BY <1>a, OriginIsBody DEF Orig
<1>d. ASSUME UNCHANGED passVars, Fresh(t), pc'[t] \notin PassSteps \/ pc'[t] = "should" \/ pc'[t] = "cleanup"
      PROVE  Built(t)'
    <2>1. Fresh(t)'
        BY <1>d DEF passVars, Fresh
    <2> QED BY <1>d, <2>1 DEF Built, PassSteps
<1>g. ASSUME UNCHANGED <<pc, job, asked, done, info, read>> PROVE Built(t)'
    <2>1. CASE pc[t] \in PassSteps
        <3>1. Orig(t)' = Orig(t)
            BY <1>c, <1>g, <2>1
        <3> QED BY <1>0, <1>g, <3>1 DEF Built, Fresh, OnlyGraph, Edits, EditsDone, Rendered
    <2>2. CASE pc[t] \notin PassSteps
        BY <1>0, <1>g, <2>2 DEF Built, Fresh, PassSteps
    <2> QED BY <2>1, <2>2
<1>e. ASSUME pc'[t] = "cleanup"
      PROVE  Built(t)'
    BY <1>e DEF Built, PassSteps
<1>1. CASE CreateMethodInfo(t)
    <2>1. UNCHANGED passVars /\ Fresh(t)
        BY <1>1, <1>0 DEF CreateMethodInfo, Built, PassSteps, passVars
    <2>2. pc'[t] \notin PassSteps \/ pc'[t] = "should" \/ pc'[t] = "cleanup"
        BY <1>1, <1>a DEF CreateMethodInfo, Goto, StartPass, PassSteps
    <2> QED BY <1>d, <2>1, <2>2
<1>2. CASE ShouldInstrument(t)
    <2>1. PICK a \in Asks : asked' = [asked EXCEPT ![t] = a]
        BY <1>2 DEF ShouldInstrument
    <2>2. asked'[t] \in Asks /\ pc'[t] = "before" /\ UNCHANGED <<done, info, read>>
        BY <1>2, <1>a, <2>1 DEF ShouldInstrument, Goto
    <2>3. Fresh(t)
        BY <1>2, <1>0 DEF ShouldInstrument, Built
    <2> QED BY <2>2, <2>3 DEF Built, Fresh, OnlyGraph, NewInfo, PassSteps
<1>3. CASE BeforeInstrument(t)
    <2>1. OnlyGraph(t) /\ done[t] = 0 /\ info[t].graph = NoBody
        BY <1>3, <1>0 DEF BeforeInstrument, Built
    <2>2. UNCHANGED <<asked, done, read>> /\ Orig(t)' = Orig(t)
        BY <1>3, <1>c DEF BeforeInstrument, PassSteps
    <2>3. CASE pc'[t] = "cleanup"
        BY <1>e, <2>3
    <2>4. CASE info' = info /\ pc'[t] = "raw" /\ asked[t] = <<>>
        <3>1. Rendered(t)'
            BY <2>1, <2>2, <2>4 DEF OnlyGraph, Rendered
        <3> QED BY <2>4, <3>1 DEF Built, PassSteps
    <2>5. CASE info' = info /\ pc'[t] = "instrument" /\ asked[t] # <<>>
        <3>1. done[t] < Len(asked[t])
            BY <1>a, <2>1, <2>5
        <3>2. Edits(t)'
            BY <2>1, <2>2, <2>5, <3>1 DEF OnlyGraph, Edits
        <3> QED BY <2>5, <3>2 DEF Built, PassSteps
    <2>6. ASSUME NEW map, info' = [info EXCEPT ![t].graph = <<Baseline>>, ![t].map = Merged(t, map)],
                 pc'[t] = "instrument", asked[t] # <<>>
          PROVE  Built(t)'
        <3>1. done[t] < Len(asked[t])
            BY <1>a, <2>1, <2>6
        <3>2. /\ info'[t].graph = <<Baseline>> /\ info'[t].instrumented = info[t].instrumented
              /\ info'[t].intermediate = info[t].intermediate
              /\ info'[t].final = info[t].final /\ info'[t].user = info[t].user
            BY <1>a, <1>b, <2>6 DEF IsInfo
        <3>3. OnlyGraph(t)'
            BY <2>1, <2>2, <3>2 DEF OnlyGraph
        <3>4. SubSeq(asked[t], 1, 0) = <<>>
            BY <1>a
        <3>5. Edits(t)'
            BY <1>f, <2>1, <2>2, <3>1, <3>2, <3>3, <3>4, NoEdits DEF Edits
        <3> QED BY <2>6, <3>5 DEF Built, PassSteps
    <2> QED BY <1>3, <1>a, <2>3, <2>4, <2>5, <2>6 DEF BeforeInstrument, Goto
<1>4. CASE InstrumentMethod(t)
    <2>1. Edits(t)
        BY <1>4, <1>0 DEF InstrumentMethod, Built
    <2>2. UNCHANGED <<asked, read>> /\ Orig(t)' = Orig(t)
        BY <1>4, <1>c DEF InstrumentMethod, PassSteps
    <2>3. CASE InstrumentFails(t)
        BY <1>a, <1>e, <2>3 DEF InstrumentFails, Goto
    <2>4. CASE ~InstrumentFails(t)
        <3> DEFINE graph == IF info[t].graph = NoBody THEN GetMethodIl(Tok(t)) ELSE info[t].graph
                   next == Append(graph, asked[t][done[t] + 1])
        <3>1. /\ info' = [info EXCEPT ![t].graph = next]
              /\ done' = [done EXCEPT ![t] = @ + 1]
              /\ pc' = [pc EXCEPT ![t] = IF done[t] + 1 = Len(asked[t]) THEN "intermediate" ELSE "instrument"]
            BY <1>4, <2>4 DEF InstrumentMethod, Goto
        <3>2. asked[t] \in Seq(ImSet) /\ done[t] \in Nat /\ done[t] < Len(asked[t])
            BY <1>a, <2>1 DEF Edits
        <3>3. graph \in Edited(Orig(t), SubSeq(asked[t], 1, done[t]))
            <4>1. CASE info[t].graph = NoBody
                <5>1. graph = Orig(t)
                    BY <1>a, <4>1, OriginalRead DEF Orig
                <5>2. SubSeq(asked[t], 1, done[t]) \in Seq(ImSet)
                    BY <3>2
                <5>3. done[t] = 0
                    <6>1. NoBody \notin Edited(Orig(t), SubSeq(asked[t], 1, done[t]))
                        BY <1>f, <5>2, ResultsAreBodies, ResultSets
                    <6> QED BY <2>1, <4>1, <6>1 DEF Edits
                <5>4. SubSeq(asked[t], 1, 0) = <<>>
                    BY <3>2
                <5> QED BY <1>f, <5>1, <5>3, <5>4, NoEdits
            <4>2. CASE info[t].graph # NoBody
                BY <2>1, <4>2 DEF Edits
            <4> QED BY <4>1, <4>2
        <3> HIDE DEF graph
        <3>4. next \in Edited(Orig(t), SubSeq(asked[t], 1, done[t] + 1))
            BY <1>f, <3>2, <3>3, EditNext
        <3> HIDE DEF next
        <3>5. /\ info'[t].graph = next /\ info'[t].instrumented = info[t].instrumented
              /\ info'[t].intermediate = info[t].intermediate
              /\ info'[t].final = info[t].final /\ info'[t].user = info[t].user
            BY <1>a, <1>b, <3>1 DEF IsInfo
        <3>6. OnlyGraph(t)'
            BY <2>1, <2>2, <3>5 DEF Edits, OnlyGraph
        <3>7. done'[t] = done[t] + 1
            BY <1>a, <3>1
        <3>8. CASE done[t] + 1 = Len(asked[t])
            <4>1. pc'[t] = "intermediate"
                BY <1>a, <3>1, <3>8
            <4>2. SubSeq(asked[t], 1, done[t] + 1) = asked[t] /\ asked[t] # <<>>
                BY <3>2, <3>8
            <4>3. EditsDone(t)'
                BY <2>2, <3>4, <3>5, <3>6, <4>2 DEF EditsDone
            <4> QED BY <4>1, <4>3 DEF Built, PassSteps
        <3>9. CASE done[t] + 1 # Len(asked[t])
            <4>1. pc'[t] = "instrument"
                BY <1>a, <3>1, <3>9
            <4>2. done[t] + 1 < Len(asked[t])
                BY <3>2, <3>9
            <4>3. Edits(t)'
                BY <2>2, <3>4, <3>5, <3>6, <3>7, <4>2 DEF Edits
            <4> QED BY <4>1, <4>3 DEF Built, PassSteps
        <3> QED BY <3>8, <3>9
    <2> QED BY <2>3, <2>4
<1>5. CASE ApplyIntermediateMethodInstrumentation(t)
    <2>1. EditsDone(t)
        BY <1>5, <1>0 DEF ApplyIntermediateMethodInstrumentation, Built
    <2>2. UNCHANGED <<asked, read>> /\ Orig(t)' = Orig(t)
        BY <1>5, <1>c DEF ApplyIntermediateMethodInstrumentation, PassSteps
    <2>3. CASE pc'[t] = "cleanup"
        BY <1>e, <2>3
    <2>4. CASE pc'[t] # "cleanup"
        <3>1. PICK map \in EncodeMaps :
                /\ pc'[t] = "raw"
                /\ info' = [info EXCEPT ![t].map = Merged(t, map), ![t].instrumented = TRUE,
                                        ![t].intermediate = info[t].graph]
            <4>1. PICK map \in EncodeMaps, ok \in BOOLEAN :
                    /\ pc'[t] = IF ok THEN "raw" ELSE "cleanup"
                    /\ info' = [info EXCEPT ![t].map = Merged(t, map), ![t].instrumented = ok,
                                    ![t].intermediate = IF ok THEN info[t].graph ELSE info[t].intermediate]
                BY <1>5, <1>a, <2>4 DEF ApplyIntermediateMethodInstrumentation, Goto
            <4>2. ok = TRUE
                BY <2>4, <4>1, Zenon
            <4> QED BY <4>1, <4>2
        <3>2. /\ info'[t].instrumented = TRUE /\ info'[t].intermediate = info[t].graph
              /\ info'[t].final = info[t].final /\ info'[t].user = info[t].user
            BY <1>a, <1>b, <3>1 DEF IsInfo
        <3>3. info[t].graph # NoBody
            BY <1>a, <1>f, <2>1, ResultsAreBodies, ResultSets DEF EditsDone
        <3>4. Rendered(t)'
            BY <2>1, <2>2, <3>2, <3>3 DEF EditsDone, OnlyGraph, Rendered
        <3> QED BY <3>1, <3>4 DEF Built, PassSteps
    <2> QED BY <2>3, <2>4
<1>6. CASE RawReturns(t)
    <2>1. Rendered(t) /\ UNCHANGED passVars /\ Orig(t)' = Orig(t)
        BY <1>6, <1>0, <1>c DEF RawReturns, Built, PassSteps
    <2>2. pc'[t] = "cleanup" \/ (pc'[t] = "final" /\ info[t].instrumented)
        BY <1>6, <1>a DEF RawReturns, Goto
    <2>3. Rendered(t)'
        BY <2>1 DEF passVars, Rendered
    <2> QED BY <1>e, <2>1, <2>2, <2>3 DEF Built, PassSteps, passVars
<1>7. CASE ApplyFinalInstrumentation(t)
    BY <1>7, <1>a, <1>e DEF ApplyFinalInstrumentation, Goto
<1>8. CASE ApplyFinalRejit(t)
    BY <1>8, <1>a, <1>e DEF ApplyFinalRejit, Goto
<1>9. CASE Cleanup(t)
    <2>1. pc'[t] = "compile"
        BY <1>9, <1>a DEF Cleanup, Goto
    <2>2. Fresh(t)'
        BY <1>9, <1>a DEF Cleanup, EndPass, Fresh
    <2> QED BY <2>1, <2>2 DEF Built, PassSteps
<1>10. CASE RemoveMethodInfoAfterRejit(t)
    <2>1. pc'[t] = "idle"
        BY <1>10, <1>a DEF RemoveMethodInfoAfterRejit, Goto
    <2>2. Fresh(t)'
        BY <1>10, <1>a DEF RemoveMethodInfoAfterRejit, EndPass, Fresh
    <2> QED BY <2>1, <2>2 DEF Built, PassSteps
<1>11. CASE TakeIl(t)
    <2>1. UNCHANGED passVars /\ Fresh(t)
        BY <1>11, <1>0 DEF TakeIl, Built, PassSteps, passVars
    <2>2. pc'[t] \notin PassSteps \/ pc'[t] = "should" \/ pc'[t] = "cleanup"
        BY <1>11, <1>a DEF TakeIl, Goto, StartPass, PassSteps
    <2> QED BY <1>d, <2>1, <2>2
<1>12. CASE JITInliningDecided(t)
    <2>1. UNCHANGED passVars /\ Fresh(t)
        BY <1>12, <1>0 DEF JITInliningDecided, Built, PassSteps, passVars
    <2>2. pc'[t] \notin PassSteps \/ pc'[t] = "should" \/ pc'[t] = "cleanup"
        BY <1>12, <1>a DEF JITInliningDecided, Goto, StartPass, PassSteps
    <2> QED BY <1>d, <2>1, <2>2
<1>13. CASE JITCompilationFinished(t)
    <2>1. UNCHANGED passVars /\ Fresh(t)
        BY <1>13, <1>0 DEF JITCompilationFinished, EndCompilation, Built, PassSteps, passVars
    <2>2. pc'[t] \notin PassSteps \/ pc'[t] = "should" \/ pc'[t] = "cleanup"
        BY <1>13, <1>a DEF JITCompilationFinished, EndCompilation, Goto, StartPass, PassSteps
    <2> QED BY <1>d, <2>1, <2>2
<1>14. ASSUME NEW f \in Functions, JITCompilationStarted(t, f) PROVE Built(t)'
    <2>1. UNCHANGED passVars /\ Fresh(t)
        BY <1>14, <1>0 DEF JITCompilationStarted, Built, PassSteps, passVars
    <2>2. pc'[t] \notin PassSteps \/ pc'[t] = "should" \/ pc'[t] = "cleanup"
        BY <1>14, <1>a DEF JITCompilationStarted, Goto, StartPass, PassSteps
    <2> QED BY <1>d, <2>1, <2>2
<1>15. ASSUME NEW f \in Functions, ReJITCompilationStarted(t, f) PROVE Built(t)'
    <2>1. UNCHANGED passVars /\ Fresh(t)
        BY <1>15, <1>0 DEF ReJITCompilationStarted, Built, PassSteps, passVars
    <2>2. pc'[t] \notin PassSteps \/ pc'[t] = "should" \/ pc'[t] = "cleanup"
        BY <1>15, <1>a DEF ReJITCompilationStarted, Goto, StartPass, PassSteps
    <2> QED BY <1>d, <2>1, <2>2
<1>16. ASSUME NEW f \in Functions, JITInlining(t, f) PROVE Built(t)'
    <2>1. UNCHANGED passVars /\ Fresh(t)
        BY <1>16, <1>0 DEF JITInlining, Built, PassSteps, passVars
    <2>2. pc'[t] \notin PassSteps \/ pc'[t] = "should" \/ pc'[t] = "cleanup"
        BY <1>16, <1>a DEF JITInlining, Goto, StartPass, PassSteps
    <2> QED BY <1>d, <2>1, <2>2
<1>17. ASSUME NEW k \in Tokens, CreateMethodInfoForRejit(t, k) PROVE Built(t)'
    <2>1. UNCHANGED passVars /\ Fresh(t)
        BY <1>17, <1>0 DEF CreateMethodInfoForRejit, Built, PassSteps, passVars
    <2>2. pc'[t] \notin PassSteps \/ pc'[t] = "should" \/ pc'[t] = "cleanup"
        BY <1>17, <1>a DEF CreateMethodInfoForRejit, Goto, StartPass, PassSteps
    <2> QED BY <1>d, <2>1, <2>2
<1>18. ASSUME NEW k \in Tokens, RequestRejit(t, k) PROVE Built(t)'
    <2>1. UNCHANGED passVars /\ Fresh(t)
        BY <1>18, <1>0 DEF RequestRejit, Built, PassSteps, passVars
    <2>2. pc'[t] \notin PassSteps \/ pc'[t] = "should" \/ pc'[t] = "cleanup"
        BY <1>18, <1>a DEF RequestRejit, Goto, StartPass, PassSteps
    <2> QED BY <1>d, <2>1, <2>2
<1>19. ASSUME NEW k \in Tokens, GetILFunctionBody(t, k) PROVE Built(t)'
    <2>1. UNCHANGED <<pc, job, asked, done, info>>
        BY <1>19 DEF GetILFunctionBody
    <2>2. CASE read' = read
        BY <1>0, <1>g, <2>1, <2>2
    <2>3. CASE read' # read
        <3> DEFINE i == info[infosByToken[k][1]]
                   il == IF infosByToken[k] # NoInfo /\ i.instrumented THEN i.intermediate ELSE GetMethodIl(k)
        <3>1. pc[t] = "raw" /\ k = Tok(t) /\ il # NoBody /\ read' = [read EXCEPT ![t] = il]
            BY <1>19, <2>3 DEF GetILFunctionBody
        <3>2. Rendered(t)
            BY <1>0, <3>1 DEF Built
        <3>3. i = info[t] /\ infosByToken[k] # NoInfo
            <4>1. csForJIT = t
                BY <3>1 DEF LockHeld, LockedSteps, Steps
            <4>2. HoldsToken(k)
                BY <3>1, <4>1 DEF HoldsToken
            <4>3. PICK f \in Functions \cup {NoFunction} : infosByToken[k] = <<t, f>>
                BY <4>1, <4>2 DEF MapsHold
            <4> QED BY <4>3, ThreadsAssumption DEF NoInfo
        <3>4. il \in Edited(Orig(t), asked[t])
            <4>1. CASE info[t].instrumented
                BY <3>1, <3>2, <3>3, <4>1 DEF Rendered
            <4>2. CASE ~info[t].instrumented
                <5>1. asked[t] = <<>>
                    BY <3>2, <4>2 DEF Rendered
                <5>2. il = Orig(t)
                    BY <3>1, <3>3, <4>2, OriginalRead DEF Orig
                <5> QED BY <1>f, <5>1, <5>2, NoEdits
            <4> QED BY <4>1, <4>2
        <3> HIDE DEF il, i
        <3>5. read'[t] = il
            BY <1>a, <3>1
        <3>6. Orig(t)' = Orig(t)
            BY <1>c, <2>1, <3>1 DEF PassSteps
        <3>7. Rendered(t)'
            BY <2>1, <3>2, <3>4, <3>5, <3>6 DEF Rendered
        <3> QED BY <2>1, <3>1, <3>7 DEF Built, PassSteps
    <2> QED BY <2>2, <2>3
<1>20. ASSUME NEW k \in Tokens, SetOtherFunctionBody(t, k) PROVE Built(t)'
    BY <1>20, <1>g DEF SetOtherFunctionBody, passVars
<1>21. CASE SetILFunctionBody(t)
    <2> DEFINE il == Append(read[t], Raw)
    <2>1. pc[t] = "raw" /\ read[t] # NoBody /\ UNCHANGED <<pc, asked, done, read>> /\ Orig(t)' = Orig(t)
        BY <1>21, <1>c DEF SetILFunctionBody, PassSteps
    <2>2. Rendered(t)
        BY <1>0, <2>1 DEF Built
    <2>3. il \in RawEdited(Orig(t), asked[t])
        BY <1>a, <1>f, <2>1, <2>2, RawEdit DEF Rendered
    <2>4. il # NoBody
        BY <1>a, <1>f, <2>3, ResultsAreBodies, ResultSets
    <2>5. \/ info' = [info EXCEPT ![t].instrumented = TRUE, ![t].final = il]
          \/ info' = [info EXCEPT ![t].instrumented = TRUE, ![t].user = il]
        BY <1>21 DEF SetILFunctionBody
    <2> HIDE DEF il
    <2>6. /\ info'[t].instrumented = TRUE /\ info'[t].intermediate = info[t].intermediate
          /\ \/ info'[t].final = il /\ info'[t].user = info[t].user
             \/ info'[t].final = info[t].final /\ info'[t].user = il
        <3>1. CASE info' = [info EXCEPT ![t].instrumented = TRUE, ![t].final = il]
            <4>1. /\ info'[t].instrumented = TRUE /\ info'[t].intermediate = info[t].intermediate
                  /\ info'[t].final = il /\ info'[t].user = info[t].user
                BY <1>a, <1>b, <3>1 DEF IsInfo
            <4> QED BY <4>1
        <3>2. CASE info' = [info EXCEPT ![t].instrumented = TRUE, ![t].user = il]
            <4>1. /\ info'[t].instrumented = TRUE /\ info'[t].intermediate = info[t].intermediate
                  /\ info'[t].final = info[t].final /\ info'[t].user = il
                BY <1>a, <1>b, <3>2 DEF IsInfo
            <4> QED BY <4>1
        <3> QED BY <2>5, <3>1, <3>2
    <2>7. Rendered(t)'
        BY <2>1, <2>2, <2>3, <2>4, <2>6 DEF Rendered
    <2> QED BY <2>1, <2>7 DEF Built, PassSteps
<1>22. CASE SetILInstrumentedCodeMap(t)
    <2>1. pc[t] = "raw" /\ UNCHANGED <<pc, asked, done, read>> /\ Orig(t)' = Orig(t)
        BY <1>22, <1>c DEF SetILInstrumentedCodeMap, PassSteps
    <2>2. PICK map \in RawMaps : info' = [info EXCEPT ![t].map = Merged(t, map)]
        BY <1>22 DEF SetILInstrumentedCodeMap
    <2>3. /\ info'[t].instrumented = info[t].instrumented /\ info'[t].intermediate = info[t].intermediate
          /\ info'[t].final = info[t].final /\ info'[t].user = info[t].user
        BY <1>a, <1>b, <2>2 DEF IsInfo
    <2>4. Rendered(t)'
        BY <1>0, <2>1, <2>3 DEF Built, Rendered
    <2> QED BY <2>1, <2>4 DEF Built, PassSteps
<1>23. CASE ReJITCompilationFinished(t)
    <2>1. UNCHANGED passVars /\ Fresh(t)
        BY <1>23, <1>0 DEF ReJITCompilationFinished, EndCompilation, Built, PassSteps, passVars
    <2>2. pc'[t] \notin PassSteps \/ pc'[t] = "should" \/ pc'[t] = "cleanup"
        BY <1>23, <1>a DEF ReJITCompilationFinished, EndCompilation, Goto, StartPass, PassSteps
    <2> QED BY <1>d, <2>1, <2>2
<1>24. ASSUME NEW k \in Tokens, ModuleAttachedToAssembly(t, k) PROVE Built(t)'
    <2>1. UNCHANGED passVars /\ Fresh(t)
        BY <1>24, <1>0 DEF ModuleAttachedToAssembly, Built, PassSteps, passVars
    <2>2. pc'[t] \notin PassSteps \/ pc'[t] = "should" \/ pc'[t] = "cleanup"
        BY <1>24, <1>a DEF ModuleAttachedToAssembly, Goto, StartPass, PassSteps
    <2> QED BY <1>d, <2>1, <2>2
<1> QED BY <1>1, <1>2, <1>3, <1>4, <1>5, <1>6, <1>7, <1>8, <1>9, <1>10, <1>11,
          <1>12, <1>13, <1>14, <1>15, <1>16, <1>17, <1>18, <1>19, <1>20, <1>21, <1>22,
          <1>23, <1>24 DEF Continue, Choose

----------------------------------------------------------------------------
(* The cache of original IL. *)

\* Reading the IL of a method leaves the original in the cache.
LEMMA ReadCaches ==
    ASSUME Types, OriginalKept, NEW k \in Tokens, CacheIl(k)
    PROVE  cachedIl'[k] = origin[k] /\ \A x \in Tokens \ {k} : cachedIl'[x] = cachedIl[x]
<1>1. GetMethodIl(k) = origin[k]
    BY OriginalRead
<1> QED BY <1>1 DEF CacheIl, Types, MethodTypes

\* An entry of the cache never changes, and a new one is the original IL.
CacheGrows == \A k \in Tokens : cachedIl'[k] = cachedIl[k] \/ cachedIl'[k] = origin[k]
LEMMA CacheStep ==
    ASSUME Types, OriginalKept, NEW t \in Threads, Continue(t) \/ Choose(t)
    PROVE  CacheGrows
<1>0. Tok(t) \in Tokens
    BY DEF Types, ThreadTypes, Jobs, Tok
<1>a. ASSUME NEW k \in Tokens, CacheIl(k) PROVE CacheGrows
    BY <1>a, ReadCaches DEF CacheGrows
<1>b. ASSUME cachedIl' = cachedIl PROVE CacheGrows
    BY <1>b DEF CacheGrows
<1>1. CASE CreateMethodInfo(t)
    BY <1>1, <1>b DEF CreateMethodInfo, moduleVars
<1>2. CASE ShouldInstrument(t)
    BY <1>2, <1>b DEF ShouldInstrument, moduleVars
<1>3. CASE BeforeInstrument(t)
    BY <1>3, <1>0, <1>a, <1>b DEF BeforeInstrument
<1>4. CASE InstrumentMethod(t)
    BY <1>4, <1>0, <1>a, <1>b DEF InstrumentMethod, InstrumentFails
<1>5. CASE ApplyIntermediateMethodInstrumentation(t)
    BY <1>5, <1>b DEF ApplyIntermediateMethodInstrumentation, moduleVars
<1>6. CASE RawReturns(t)
    BY <1>6, <1>b DEF RawReturns, moduleVars
<1>7. CASE ApplyFinalInstrumentation(t)
    BY <1>7, <1>b DEF ApplyFinalInstrumentation, moduleVars
<1>8. CASE ApplyFinalRejit(t)
    BY <1>8, <1>b DEF ApplyFinalRejit, moduleVars
<1>9. CASE Cleanup(t)
    BY <1>9, <1>b DEF Cleanup, moduleVars
<1>10. CASE RemoveMethodInfoAfterRejit(t)
    BY <1>10, <1>b DEF RemoveMethodInfoAfterRejit, moduleVars
<1>11. CASE TakeIl(t)
    BY <1>11, <1>b DEF TakeIl, moduleVars
<1>12. CASE JITInliningDecided(t)
    BY <1>12, <1>b DEF JITInliningDecided, moduleVars
<1>13. CASE JITCompilationFinished(t)
    BY <1>13, <1>b DEF JITCompilationFinished, EndCompilation, moduleVars
<1>14. ASSUME NEW f \in Functions, JITCompilationStarted(t, f) PROVE CacheGrows
    BY <1>14, <1>b DEF JITCompilationStarted, moduleVars
<1>15. ASSUME NEW f \in Functions, ReJITCompilationStarted(t, f) PROVE CacheGrows
    BY <1>15, <1>b DEF ReJITCompilationStarted, moduleVars
<1>16. ASSUME NEW f \in Functions, JITInlining(t, f) PROVE CacheGrows
    BY <1>16, <1>b DEF JITInlining, moduleVars
<1>17. ASSUME NEW k \in Tokens, CreateMethodInfoForRejit(t, k) PROVE CacheGrows
    BY <1>17, <1>b DEF CreateMethodInfoForRejit, moduleVars
<1>18. ASSUME NEW k \in Tokens, RequestRejit(t, k) PROVE CacheGrows
    BY <1>18, <1>b DEF RequestRejit, moduleVars
<1>19. ASSUME NEW k \in Tokens, GetILFunctionBody(t, k) PROVE CacheGrows
    BY <1>19, <1>a, <1>b DEF GetILFunctionBody
<1>20. ASSUME NEW k \in Tokens, SetOtherFunctionBody(t, k) PROVE CacheGrows
    BY <1>20, <1>b DEF SetOtherFunctionBody, moduleVars
<1>21. CASE SetILFunctionBody(t)
    BY <1>21, <1>b DEF SetILFunctionBody, moduleVars
<1>22. CASE SetILInstrumentedCodeMap(t)
    BY <1>22, <1>b DEF SetILInstrumentedCodeMap, moduleVars
<1>23. CASE ReJITCompilationFinished(t)
    BY <1>23, <1>b DEF ReJITCompilationFinished, EndCompilation, moduleVars
<1>24. ASSUME NEW k \in Tokens, ModuleAttachedToAssembly(t, k) PROVE CacheGrows
    BY <1>24, <1>b DEF ModuleAttachedToAssembly, moduleVars
<1> QED BY <1>1, <1>2, <1>3, <1>4, <1>5, <1>6, <1>7, <1>8, <1>9, <1>10, <1>11,
          <1>12, <1>13, <1>14, <1>15, <1>16, <1>17, <1>18, <1>19, <1>20, <1>21, <1>22,
          <1>23, <1>24 DEF Continue, Choose

\* A method whose original is in the cache keeps both.
LEMMA CacheKeeps ==
    ASSUME Types, OriginalKept, NEW t \in Threads, Continue(t) \/ Choose(t),
           NEW k \in Tokens, cachedIl[k] = origin[k]
    PROVE  cachedIl'[k] = origin[k] /\ origin'[k] = origin[k]
<1>1. cachedIl[k] # NoBody
    BY OriginIsBody
<1>2. Given(t, k)
    BY GivenStep DEF GivenBy
<1>3. CacheGrows
    BY CacheStep
<1> QED BY <1>1, <1>2, <1>3 DEF Given, CacheGrows

\* What a pass has read is in the cache, whatever step is taken.
LEMMA CachedStep ==
    ASSUME Types, LockHeld, JobsFit, MapsHold, AllBuilt, OriginalKept, AllCached,
           NEW t \in Threads, Continue(t) \/ Choose(t)
    PROVE  AllCached'
<1>0. CacheGrows
    BY CacheStep
<1>e. \A u \in Threads : Tok(u) \in Tokens
    BY DEF Types, ThreadTypes, Jobs, Tok
<1> SUFFICES ReadCached(t)'
    <2> SUFFICES ASSUME NEW u \in Threads, u # t PROVE ReadCached(u)'
        BY DEF AllCached
    <2>1. pc'[u] = pc[u] /\ info'[u] = info[u] /\ read'[u] = read[u] /\ job'[u] = job[u]
        BY StepApart DEF Apart
    <2>2. ReadCached(u)
        BY DEF AllCached
    <2>3. cachedIl[Tok(u)] = Orig(u) => cachedIl'[Tok(u)] = Orig(u)'
        BY <1>e, <2>1, CacheKeeps DEF Orig, Tok
    <2> QED BY <2>1, <2>2, <2>3 DEF ReadCached, Tok
<1>f. ReadCached(t) /\ Built(t)
    BY DEF AllCached, AllBuilt
<1>a. /\ pc \in [Threads -> Steps] /\ Tok(t) \in Tokens
      /\ info = [u \in Threads |-> info[u]] /\ read = [u \in Threads |-> read[u]]
    BY <1>e DEF Types, ThreadTypes, PassTypes
<1>b. IsInfo(info[t])
    BY DEF Types, AreInfos
<1>c. ASSUME pc'[t] \notin {"instrument", "intermediate", "raw", "final"} PROVE ReadCached(t)'
    BY <1>c DEF ReadCached
<1>d. ASSUME job' = job, cachedIl[Tok(t)] = Orig(t) \/ (CacheIl(Tok(t)) /\ UNCHANGED loadVars) PROVE ReadCached(t)'
    <2>1. cachedIl'[Tok(t)] = origin'[Tok(t)]
        <3>1. CASE cachedIl[Tok(t)] = Orig(t)
            BY <1>a, <3>1, CacheKeeps DEF Orig
        <3>2. CASE CacheIl(Tok(t)) /\ origin' = origin
            BY <1>a, <3>2, ReadCaches
        <3> QED BY <1>d, <3>1, <3>2 DEF loadVars
    <2>2. cachedIl'[Tok(t)'] = Orig(t)' /\ Tok(t)' = Tok(t)
        BY <1>d, <2>1 DEF Orig, Tok
    <2> QED BY <2>2 DEF ReadCached
<1>g. ASSUME UNCHANGED <<pc, job, info, read>> PROVE ReadCached(t)'
    <2>1. cachedIl[Tok(t)] = Orig(t) => cachedIl'[Tok(t)] = Orig(t)'
        BY <1>a, <1>g, CacheKeeps DEF Orig, Tok
    <2> QED BY <1>f, <1>g, <2>1 DEF ReadCached, Tok
<1>1. CASE CreateMethodInfo(t)
    BY <1>1, <1>a, <1>c DEF CreateMethodInfo, Goto, StartPass
<1>2. CASE ShouldInstrument(t)
    BY <1>2, <1>a, <1>c DEF ShouldInstrument, Goto
<1>3. CASE BeforeInstrument(t)
    <2>1. job' = job /\ read' = read /\ OnlyGraph(t) /\ info[t].graph = NoBody
        BY <1>3, <1>f DEF BeforeInstrument, Built
    <2>2. CASE info' = info
        BY <2>1, <2>2 DEF ReadCached, OnlyGraph
    <2>3. CASE info' # info
        <3>1. CacheIl(Tok(t)) /\ UNCHANGED loadVars
            BY <1>3, <2>3 DEF BeforeInstrument
        <3> QED BY <1>d, <2>1, <3>1
    <2> QED BY <2>2, <2>3
<1>4. CASE InstrumentMethod(t)
    <2>1. CASE InstrumentFails(t)
        BY <1>a, <1>c, <2>1 DEF InstrumentFails, Goto
    <2>2. CASE ~InstrumentFails(t)
        BY <1>4, <1>d, <2>2 DEF InstrumentMethod
    <2> QED BY <2>1, <2>2
<1>5. CASE ApplyIntermediateMethodInstrumentation(t)
    <2>1. EditsDone(t) /\ asked[t] \in Seq(ImSet) /\ Orig(t) \in Bodies
        BY <1>5, <1>a, <1>f, OriginIsBody DEF ApplyIntermediateMethodInstrumentation, Built, Types, PassTypes, Orig
    <2>2. info[t].graph # NoBody
        BY <2>1, ResultsAreBodies, ResultSets DEF EditsDone
    <2>3. cachedIl[Tok(t)] = Orig(t)
        BY <1>5, <1>f, <2>2 DEF ApplyIntermediateMethodInstrumentation, ReadCached
    <2> QED BY <1>5, <1>d, <2>3 DEF ApplyIntermediateMethodInstrumentation
<1>6. CASE RawReturns(t)
    BY <1>6, <1>a, <1>f DEF RawReturns, Goto, ReadCached, passVars, moduleVars, loadVars, Orig, Tok
<1>7. CASE ApplyFinalInstrumentation(t)
    BY <1>7, <1>a, <1>c DEF ApplyFinalInstrumentation, Goto
<1>8. CASE ApplyFinalRejit(t)
    BY <1>8, <1>a, <1>c DEF ApplyFinalRejit, Goto
<1>9. CASE Cleanup(t)
    BY <1>9, <1>a, <1>c DEF Cleanup, Goto
<1>10. CASE RemoveMethodInfoAfterRejit(t)
    BY <1>10, <1>a, <1>c DEF RemoveMethodInfoAfterRejit, Goto
<1>11. CASE TakeIl(t)
    BY <1>11, <1>a, <1>c DEF TakeIl, Goto
<1>12. CASE JITInliningDecided(t)
    BY <1>12, <1>a, <1>c DEF JITInliningDecided, Goto
<1>13. CASE JITCompilationFinished(t)
    BY <1>13, <1>a, <1>c DEF JITCompilationFinished, EndCompilation, Goto
<1>14. ASSUME NEW f \in Functions, JITCompilationStarted(t, f) PROVE ReadCached(t)'
    BY <1>14, <1>a, <1>c DEF JITCompilationStarted, Goto
<1>15. ASSUME NEW f \in Functions, ReJITCompilationStarted(t, f) PROVE ReadCached(t)'
    BY <1>15, <1>a, <1>c DEF ReJITCompilationStarted, Goto
<1>16. ASSUME NEW f \in Functions, JITInlining(t, f) PROVE ReadCached(t)'
    BY <1>16, <1>a, <1>c DEF JITInlining, Goto, StartPass
<1>17. ASSUME NEW k \in Tokens, CreateMethodInfoForRejit(t, k) PROVE ReadCached(t)'
    BY <1>17, <1>a, <1>c DEF CreateMethodInfoForRejit, Goto, StartPass
<1>18. ASSUME NEW k \in Tokens, RequestRejit(t, k) PROVE ReadCached(t)'
    BY <1>18, <1>c DEF RequestRejit
<1>19. ASSUME NEW k \in Tokens, GetILFunctionBody(t, k) PROVE ReadCached(t)'
    <2>1. UNCHANGED <<pc, job, info>>
        BY <1>19 DEF GetILFunctionBody
    <2>2. CASE read' = read
        BY <1>g, <2>1, <2>2
    <2>3. CASE read' # read
        <3> DEFINE i == info[infosByToken[k][1]]
        <3>1. pc[t] = "raw" /\ k = Tok(t) /\ UNCHANGED loadVars
            BY <1>19, <2>3 DEF GetILFunctionBody
        <3>2. CacheIl(k) \/ (infosByToken[k] # NoInfo /\ i.instrumented)
            BY <1>19, <2>3 DEF GetILFunctionBody
        <3>3. i = info[t]
            <4>1. csForJIT = t
                BY <3>1 DEF LockHeld, LockedSteps, Steps
            <4>2. HoldsToken(k)
                BY <3>1, <4>1 DEF HoldsToken
            <4>3. PICK f \in Functions \cup {NoFunction} : infosByToken[k] = <<t, f>>
                BY <4>1, <4>2 DEF MapsHold
            <4> QED BY <4>3
        <3> QED BY <1>f, <1>d, <2>1, <3>1, <3>2, <3>3 DEF ReadCached
    <2> QED BY <2>2, <2>3
<1>20. ASSUME NEW k \in Tokens, SetOtherFunctionBody(t, k) PROVE ReadCached(t)'
    BY <1>20, <1>g DEF SetOtherFunctionBody, passVars
<1>21. CASE SetILFunctionBody(t)
    <2>1. cachedIl[Tok(t)] = Orig(t)
        BY <1>21, <1>f DEF SetILFunctionBody, ReadCached
    <2> QED BY <1>21, <1>d, <2>1 DEF SetILFunctionBody
<1>22. CASE SetILInstrumentedCodeMap(t)
    <2>1. pc[t] = "raw" /\ UNCHANGED <<pc, job, read, cachedIl, origin>>
        BY <1>22 DEF SetILInstrumentedCodeMap, loadVars
    <2>2. PICK map \in RawMaps : info' = [info EXCEPT ![t].map = Merged(t, map)]
        BY <1>22 DEF SetILInstrumentedCodeMap
    <2>3. info'[t].instrumented = info[t].instrumented
        BY <1>a, <1>b, <2>2 DEF IsInfo
    <2> QED BY <1>f, <2>1, <2>3 DEF ReadCached, Orig, Tok
<1>23. CASE ReJITCompilationFinished(t)
    BY <1>23, <1>a, <1>c DEF ReJITCompilationFinished, EndCompilation, Goto
<1>24. ASSUME NEW k \in Tokens, ModuleAttachedToAssembly(t, k) PROVE ReadCached(t)'
    BY <1>24, <1>c DEF ModuleAttachedToAssembly
<1> QED BY <1>1, <1>2, <1>3, <1>4, <1>5, <1>6, <1>7, <1>8, <1>9, <1>10, <1>11,
          <1>12, <1>13, <1>14, <1>15, <1>16, <1>17, <1>18, <1>19, <1>20, <1>21, <1>22,
          <1>23, <1>24 DEF Continue, Choose

\* The cache keeps the original IL, whatever step is taken.
LEMMA OriginalStep ==
    ASSUME Types, AllBuilt, AllCached, OriginalKept, NEW t \in Threads, Continue(t) \/ Choose(t)
    PROVE  OriginalKept'
<1>0. CacheGrows /\ GivenBy(t)
    BY CacheStep, GivenStep
<1> SUFFICES ASSUME NEW k \in Tokens
             PROVE  /\ origin'[k] \in Seq({Raw})
                    /\ cachedIl'[k] = origin'[k] \/ cachedIl'[k] = NoBody
                    /\ clr'[k].il # origin'[k] \/ rejitIl'[k].il # NoBody => cachedIl'[k] = origin'[k]
    BY DEF OriginalKept
<1>1. CASE cachedIl[k] = origin[k]
    <2>1. cachedIl'[k] = origin[k] /\ origin'[k] = origin[k]
        BY <1>1, CacheKeeps
    <2> QED BY <2>1 DEF OriginalKept
<1>2. CASE cachedIl[k] # origin[k]
    <2>1. cachedIl[k] = NoBody /\ clr[k].il = origin[k] /\ rejitIl[k].il = NoBody /\ origin[k] \in Seq({Raw})
        BY <1>2 DEF OriginalKept
    <2>2. ~(pc[t] = "final" /\ k = Tok(t))
        BY <1>2 DEF AllBuilt, Built, AllCached, ReadCached, Orig
    <2>3. Given(t, k) /\ (cachedIl'[k] = NoBody \/ cachedIl'[k] = origin[k])
        BY <1>0, <2>1 DEF GivenBy, CacheGrows
    <2>4. CASE origin'[k] = origin[k] /\ clr'[k].il = clr[k].il
        <3>1. rejitIl'[k].il = NoBody \/ cachedIl'[k] = origin'[k]
            BY <2>1, <2>2, <2>3, <2>4 DEF Given, NoCode, Code
        <3> QED BY <2>1, <2>3, <2>4, <3>1
    <2>5. CASE ~(origin'[k] = origin[k] /\ clr'[k].il = clr[k].il)
        <3>1. /\ cachedIl'[k] = NoBody /\ rejitIl'[k].il = NoBody
              /\ clr'[k].il = origin'[k] /\ origin'[k] = Append(GetMethodIl(k), Raw)
            BY <2>1, <2>2, <2>3, <2>5 DEF Given
        <3>2. GetMethodIl(k) = origin[k]
            BY OriginalRead
        <3>3. Append(origin[k], Raw) \in Seq({Raw})
            BY <2>1
        <3> QED BY <3>1, <3>2, <3>3
    <2> QED BY <2>4, <2>5
<1> QED BY <1>1, <1>2

----------------------------------------------------------------------------
(* The IL the CLR is given. *)

\* GetFinalInstrumentation returns the result of the whole pass.
LEMMA FinalIsComplete ==
    ASSUME Types, NEW t \in Threads, Built(t), pc[t] = "final"
    PROVE  /\ asked[t] \in Asks
           /\ GetFinalInstrumentation(info[t]) \in Complete(Orig(t), asked[t])
<1>1. Rendered(t) /\ info[t].instrumented
    BY DEF Built
<1>2. /\ Edited(Orig(t), asked[t]) \subseteq Complete(Orig(t), asked[t])
      /\ RawEdited(Orig(t), asked[t]) \subseteq Complete(Orig(t), asked[t])
    BY ResultSets
<1> QED BY <1>1, <1>2 DEF Rendered, GetFinalInstrumentation

\* The original, and the raw profiler's edit of it, are results of one pass.
LEMMA RawIsOnePass ==
    ASSUME NEW o \in Bodies
    PROVE  o \in OnePassIl(o) /\ Append(o, Raw) \in OnePassIl(o)
<1>1. <<>> \in Asks /\ <<>> \in Seq(ImSet)
    BY AsksType
<1>2. o \in Edited(o, <<>>)
    BY NoEdits
<1>3. Append(o, Raw) \in RawEdited(o, <<>>)
    BY <1>1, <1>2, RawEdit
<1> QED BY <1>1, <1>2, <1>3, ResultSets

\* The IL the CLR has is that of one pass, whatever step is taken.
LEMMA OnePassStep ==
    ASSUME Types, AllBuilt, OriginalKept, OriginalKept', OnePass, NEW t \in Threads, Continue(t) \/ Choose(t)
    PROVE  OnePass'
<1> SUFFICES ASSUME NEW k \in Tokens
             PROVE  /\ clr'[k].il \in OnePassIl(origin'[k])
                    /\ rejitIl'[k].il \in OnePassIl(origin'[k]) \/ rejitIl'[k].il = NoBody
    BY DEF OnePass
<1>0. Given(t, k)
    BY GivenStep DEF GivenBy
<1>a. clr[k].il \in OnePassIl(origin[k]) /\ (rejitIl[k].il \in OnePassIl(origin[k]) \/ rejitIl[k].il = NoBody)
    BY DEF OnePass
<1>b. origin[k] \in Bodies /\ origin'[k] \in Bodies
    <2>1. \A o : o \in Seq({Raw}) => o \in Bodies
        BY DEF Bodies
    <2> QED BY <2>1 DEF OriginalKept
<1>1. CASE origin'[k] = origin[k] /\ clr'[k].il = clr[k].il /\ rejitIl'[k] = rejitIl[k]
    BY <1>1, <1>a
<1>2. CASE origin'[k] = origin[k] /\ clr'[k].il = clr[k].il /\ rejitIl'[k] = NoCode
    BY <1>2, <1>a DEF NoCode, Code
<1>3. CASE /\ pc[t] = "final" /\ k = Tok(t) /\ origin'[k] = origin[k]
           /\ clr'[k].il = clr[k].il \/ clr'[k].il = GetFinalInstrumentation(info[t])
           /\ rejitIl'[k] = rejitIl[k] \/ rejitIl'[k].il = GetFinalInstrumentation(info[t])
    <2>1. asked[t] \in Asks /\ GetFinalInstrumentation(info[t]) \in Complete(origin[k], asked[t])
        BY <1>3, FinalIsComplete DEF AllBuilt, Orig
    <2>2. GetFinalInstrumentation(info[t]) \in OnePassIl(origin[k])
        BY <2>1, ResultSets
    <2> QED BY <1>3, <1>a, <2>2
<1>4. CASE /\ rejitIl'[k] = rejitIl[k]
           /\ clr'[k].il = Append(GetMethodIl(k), Raw)
           /\ origin'[k] = IF cachedIl[k] = NoBody THEN Append(GetMethodIl(k), Raw) ELSE origin[k]
    <2>1. GetMethodIl(k) = origin[k]
        BY OriginalRead
    <2>2. CASE cachedIl[k] = NoBody
        <3>1. clr'[k].il = origin'[k]
            BY <1>4, <2>2
        <3>2. clr'[k].il \in OnePassIl(origin'[k])
            BY <1>b, <3>1, RawIsOnePass
        <3>3. rejitIl[k].il = NoBody
            BY <2>2, OriginIsBody DEF OriginalKept
        <3> QED BY <1>4, <3>2, <3>3
    <2>3. CASE cachedIl[k] # NoBody
        <3>1. clr'[k].il = Append(origin[k], Raw) /\ origin'[k] = origin[k]
            BY <1>4, <2>1, <2>3
        <3>2. Append(origin[k], Raw) \in OnePassIl(origin[k])
            BY <1>b, RawIsOnePass
        <3> QED BY <1>4, <1>a, <3>1, <3>2
    <2> QED BY <2>2, <2>3
<1> QED BY <1>0, <1>1, <1>2, <1>3, <1>4 DEF Given

\* A step gives the CLR the result of a whole pass or nothing.
LEMMA GivesAllStep ==
    ASSUME Types, LockHeld, MapsHold, AllBuilt, NEW t \in Threads, Continue(t) \/ Choose(t)
    PROVE  GivesAll
<1> SUFFICES ASSUME NEW u \in Threads, csForJIT = u
             PROVE  /\ clr'[Tok(u)].il # clr[Tok(u)].il => clr'[Tok(u)].il \in Complete(Orig(u), asked[u])
                    /\ rejitIl'[Tok(u)] # rejitIl[Tok(u)] => rejitIl'[Tok(u)].il \in Complete(Orig(u), asked[u])
    BY DEF GivesAll, Complete, Orig
<1>1. Tok(u) \in Tokens /\ csForJIT # NoThread
    BY ThreadsAssumption DEF Types, ThreadTypes, Jobs, Tok
<1>2. infosByToken[Tok(u)] # NoInfo
    <2>1. HoldsToken(Tok(u))
        BY DEF HoldsToken
    <2> QED BY <1>1, <2>1 DEF MapsHold, NoInfo
<1>3. Given(t, Tok(u))
    BY <1>1, GivenStep DEF GivenBy
<1>4. pc[t] = "final" => u = t
    BY DEF LockHeld, LockedSteps, Steps
<1>5. pc[t] = "final" => GetFinalInstrumentation(info[t]) \in Complete(Orig(t), asked[t])
    BY FinalIsComplete DEF AllBuilt
<1> QED BY <1>1, <1>2, <1>3, <1>4, <1>5 DEF Given

----------------------------------------------------------------------------
(* The rejit counts. *)

\* A step appends the count of the rejit that gives its map, or starts a rejit and counts it, or does neither.
CountedBy(t) ==
    \/ /\ markers' = markers /\ rejitCount' = rejitCount
       /\ \A u \in Threads : pc'[u] \in PassSteps \ {"cleanup"} /\ job'[u].rejit =>
                pc[u] \in PassSteps \ {"cleanup"} /\ job'[u] = job[u]
    \/ /\ pc[t] = "final" /\ job[t].rejit /\ job' = job /\ rejitCount' = rejitCount
       /\ pc' = [pc EXCEPT ![t] = "cleanup"]
       /\ markers' = [markers EXCEPT ![Tok(t)] = Append(@, rejitCount[Tok(t)])]
    \/ /\ csForJIT = NoThread /\ markers' = markers
       /\ \E k \in Tokens : /\ rejitCount' = [rejitCount EXCEPT ![k] = @ + 1]
                            /\ job'[t].tok = k
LEMMA CountedStep ==
    ASSUME Types, LockHeld, JobsFit, NEW t \in Threads, Continue(t) \/ Choose(t)
    PROVE  CountedBy(t)
<1>0. Apart(t)
    BY StepApart
<1>a. pc \in [Threads -> Steps] /\ job \in [Threads -> Jobs]
    BY DEF Types, ThreadTypes
<1>b. ASSUME markers' = markers, rejitCount' = rejitCount,
             pc'[t] \in PassSteps \ {"cleanup"} /\ job'[t].rejit =>
                    pc[t] \in PassSteps \ {"cleanup"} /\ job'[t] = job[t]
      PROVE  CountedBy(t)
    BY <1>0, <1>b DEF CountedBy, Apart
<1>1. CASE CreateMethodInfo(t)
    <2>1. ~job[t].rejit /\ job' = job /\ markers' = markers /\ rejitCount' = rejitCount
        BY <1>1 DEF CreateMethodInfo, JobsFit, JobFits, clrVars
    <2> QED BY <1>b, <2>1
<1>2. CASE ShouldInstrument(t)
    BY <1>2, <1>a, <1>b DEF ShouldInstrument, Goto, clrVars, moduleVars, PassSteps
<1>3. CASE BeforeInstrument(t)
    BY <1>3, <1>a, <1>b DEF BeforeInstrument, Goto, clrVars, moduleVars, PassSteps
<1>4. CASE InstrumentMethod(t)
    BY <1>4, <1>a, <1>b DEF InstrumentMethod, Goto, InstrumentFails, clrVars, moduleVars, PassSteps
<1>5. CASE ApplyIntermediateMethodInstrumentation(t)
    BY <1>5, <1>a, <1>b DEF ApplyIntermediateMethodInstrumentation, Goto, clrVars, moduleVars, PassSteps
<1>6. CASE RawReturns(t)
    BY <1>6, <1>a, <1>b DEF RawReturns, Goto, clrVars, moduleVars, PassSteps
<1>7. CASE ApplyFinalInstrumentation(t)
    BY <1>7, <1>a, <1>b DEF ApplyFinalInstrumentation, Goto, clrVars, moduleVars, PassSteps
<1>8. CASE ApplyFinalRejit(t)
    <2>1. CASE markers' = markers
        BY <1>8, <1>a, <1>b, <2>1 DEF ApplyFinalRejit, Goto, PassSteps
    <2>2. CASE markers' # markers
        BY <1>8, <2>2 DEF ApplyFinalRejit, Goto, CountedBy
    <2> QED BY <2>1, <2>2
<1>9. CASE Cleanup(t)
    BY <1>9, <1>a, <1>b DEF Cleanup, Goto, clrVars, moduleVars, PassSteps
<1>10. CASE RemoveMethodInfoAfterRejit(t)
    BY <1>10, <1>a, <1>b DEF RemoveMethodInfoAfterRejit, Goto, clrVars, moduleVars, PassSteps
<1>11. CASE TakeIl(t)
    BY <1>11, <1>a, <1>b DEF TakeIl, Goto, clrVars, moduleVars, PassSteps
<1>12. CASE JITInliningDecided(t)
    BY <1>12, <1>a, <1>b DEF JITInliningDecided, Goto, clrVars, moduleVars, PassSteps
<1>13. CASE JITCompilationFinished(t)
    BY <1>13, <1>a, <1>b DEF JITCompilationFinished, EndCompilation, Goto, clrVars, moduleVars, PassSteps
<1>14. ASSUME NEW f \in Functions, JITCompilationStarted(t, f) PROVE CountedBy(t)
    BY <1>14, <1>a, <1>b DEF JITCompilationStarted, Goto, clrVars, moduleVars, PassSteps
<1>15. ASSUME NEW f \in Functions, ReJITCompilationStarted(t, f) PROVE CountedBy(t)
    BY <1>15, <1>a, <1>b DEF ReJITCompilationStarted, Goto, clrVars, moduleVars, PassSteps
<1>16. ASSUME NEW f \in Functions, JITInlining(t, f) PROVE CountedBy(t)
    BY <1>16, <1>a, <1>b DEF JITInlining, Goto, StartPass, clrVars, moduleVars, PassSteps
<1>17. ASSUME NEW k \in Tokens, CreateMethodInfoForRejit(t, k) PROVE CountedBy(t)
    <2>1. CASE k \notin known
        <3>1. UNCHANGED <<markers, rejitCount, pc, job>> /\ pc[t] = "idle"
            BY <1>17, <2>1 DEF CreateMethodInfoForRejit
        <3> QED BY <1>b, <3>1 DEF PassSteps
    <2>2. CASE k \in known
        BY <1>17, <1>a, <2>2 DEF CreateMethodInfoForRejit, CanEnter, IncrementMethodRejitCount, CountedBy
    <2> QED BY <2>1, <2>2
<1>18. ASSUME NEW k \in Tokens, RequestRejit(t, k) PROVE CountedBy(t)
    BY <1>18, <1>a, <1>b DEF RequestRejit, clrVars, moduleVars, PassSteps
<1>19. ASSUME NEW k \in Tokens, GetILFunctionBody(t, k) PROVE CountedBy(t)
    BY <1>19, <1>a, <1>b DEF GetILFunctionBody, clrVars, moduleVars, PassSteps
<1>20. ASSUME NEW k \in Tokens, SetOtherFunctionBody(t, k) PROVE CountedBy(t)
    BY <1>20, <1>a, <1>b DEF SetOtherFunctionBody, clrVars, moduleVars, PassSteps
<1>21. CASE SetILFunctionBody(t)
    BY <1>21, <1>a, <1>b DEF SetILFunctionBody, clrVars, moduleVars, PassSteps
<1>22. CASE SetILInstrumentedCodeMap(t)
    BY <1>22, <1>a, <1>b DEF SetILInstrumentedCodeMap, clrVars, moduleVars, PassSteps
<1>23. CASE ReJITCompilationFinished(t)
    BY <1>23, <1>a, <1>b DEF ReJITCompilationFinished, EndCompilation, Goto, clrVars, moduleVars, PassSteps
<1>24. ASSUME NEW k \in Tokens, ModuleAttachedToAssembly(t, k) PROVE CountedBy(t)
    BY <1>24, <1>a, <1>b DEF ModuleAttachedToAssembly, clrVars, moduleVars, PassSteps
<1> QED BY <1>1, <1>2, <1>3, <1>4, <1>5, <1>6, <1>7, <1>8, <1>9, <1>10, <1>11,
          <1>12, <1>13, <1>14, <1>15, <1>16, <1>17, <1>18, <1>19, <1>20, <1>21, <1>22,
          <1>23, <1>24 DEF Continue, Choose

\* The counts given to the CLR stay bounded and growing.
LEMMA MarkersStep ==
    ASSUME Types, LockHeld, MarkersBounded, MarkersGrow, JobsFit, NEW t \in Threads, Continue(t) \/ Choose(t)
    PROVE  MarkersBounded' /\ MarkersGrow'
<1>0. CountedBy(t) /\ Apart(t)
    BY CountedStep, StepApart
<1>a. \A u \in Threads : Tok(u) \in Tokens
    BY DEF Types, ThreadTypes, Jobs, Tok
<1>b. markers \in [Tokens -> Seq(Nat)] /\ rejitCount \in [Tokens -> Nat]
    BY DEF Types, MethodTypes
<1>1. ASSUME markers' = markers, rejitCount' = rejitCount,
             \A u \in Threads : pc'[u] \in PassSteps \ {"cleanup"} /\ job'[u].rejit =>
                    pc[u] \in PassSteps \ {"cleanup"} /\ job'[u] = job[u]
      PROVE  MarkersBounded' /\ MarkersGrow'
    BY <1>1 DEF MarkersBounded, MarkersGrow, Tok
<1>2. ASSUME pc[t] = "final", job[t].rejit, job' = job, rejitCount' = rejitCount,
             pc' = [pc EXCEPT ![t] = "cleanup"],
             markers' = [markers EXCEPT ![Tok(t)] = Append(@, rejitCount[Tok(t)])]
      PROVE  MarkersBounded' /\ MarkersGrow'
    <2> DEFINE k == Tok(t)
               m == markers[k]
               c == rejitCount[k]
    <2>1. k \in Tokens /\ m \in Seq(Nat) /\ c \in Nat
        BY <1>a, <1>b
    <2>2. \A i \in 1 .. Len(m) : m[i] < c
        BY <1>2 DEF MarkersBounded, PassSteps
    <2>3. markers'[k] = Append(m, c) /\ \A x \in Tokens \ {k} : markers'[x] = markers[x]
        BY <1>2, <1>b, <2>1
    <2>4. \A j \in 1 .. Len(m) : \A i \in 1 .. j - 1 : m[i] < m[j]
        BY <2>1 DEF MarkersGrow
    <2>5. \A x \in Tokens : \A i \in 1 .. Len(markers[x]) : markers[x][i] <= rejitCount[x]
        BY DEF MarkersBounded
    <2>6. \A u \in Threads : pc'[u] \notin PassSteps \ {"cleanup"}
        <3> SUFFICES ASSUME NEW u \in Threads PROVE pc'[u] \notin PassSteps \ {"cleanup"}
            OBVIOUS
        <3>1. CASE u = t
            BY <1>2, <3>1 DEF Types, ThreadTypes
        <3>2. CASE u # t
            <4>1. csForJIT = t
                BY <1>2 DEF LockHeld, LockedSteps, Steps
            <4>2. pc[u] \notin LockedSteps
                BY <3>2, <4>1 DEF LockHeld
            <4> QED BY <1>2, <3>2, <4>2 DEF Types, ThreadTypes, LockedSteps, Steps, PassSteps
        <3> QED BY <3>1, <3>2
    <2> HIDE DEF k, m, c
    <2>7. Len(Append(m, c)) = Len(m) + 1 /\ Len(m) \in Nat
        BY <2>1
    <2>8. \A i \in 1 .. Len(m) : Append(m, c)[i] = m[i]
        BY <2>1
    <2>9. Append(m, c)[Len(m) + 1] = c
        BY <2>1
    <2>10. \A i \in 1 .. Len(Append(m, c)) : Append(m, c)[i] <= c
        <3> SUFFICES ASSUME NEW i \in 1 .. Len(m) + 1 PROVE Append(m, c)[i] <= c
            BY <2>7
        <3>1. CASE i = Len(m) + 1
            BY <2>1, <2>9, <3>1
        <3>2. CASE i # Len(m) + 1
            <4>1. i \in 1 .. Len(m)
                BY <2>7, <3>2
            <4>2. m[i] \in Nat
                BY <2>1, <4>1
            <4> QED BY <2>1, <2>2, <2>8, <4>1, <4>2
        <3> QED BY <3>1, <3>2
    <2>11. \A j \in 1 .. Len(Append(m, c)) : \A i \in 1 .. j - 1 : Append(m, c)[i] < Append(m, c)[j]
        <3> SUFFICES ASSUME NEW j \in 1 .. Len(m) + 1, NEW i \in 1 .. j - 1 PROVE Append(m, c)[i] < Append(m, c)[j]
            BY <2>7
        <3>1. i \in 1 .. Len(m)
            BY <2>7
        <3>2. CASE j = Len(m) + 1
            BY <2>2, <2>8, <2>9, <3>1, <3>2
        <3>3. CASE j # Len(m) + 1
            <4>1. j \in 1 .. Len(m)
                BY <2>7, <3>3
            <4> QED BY <2>4, <2>8, <3>1, <4>1
        <3> QED BY <3>2, <3>3
    <2>12. c = rejitCount[k]
        BY DEF c
    <2>13. MarkersBounded'
        <3>1. ASSUME NEW x \in Tokens PROVE \A i \in 1 .. Len(markers'[x]) : markers'[x][i] <= rejitCount'[x]
            <4>1. CASE x = k
                BY <1>2, <2>3, <2>10, <2>12, <4>1
            <4>2. CASE x # k
                BY <1>2, <2>3, <2>5, <4>2
            <4> QED BY <4>1, <4>2
        <3> QED BY <2>6, <3>1 DEF MarkersBounded
    <2>14. MarkersGrow'
        <3>1. ASSUME NEW x \in Tokens
              PROVE  \A j \in 1 .. Len(markers'[x]) : \A i \in 1 .. j - 1 : markers'[x][i] < markers'[x][j]
            <4>1. CASE x = k
                BY <2>3, <2>11, <4>1
            <4>2. CASE x # k
                BY <2>3, <4>2 DEF MarkersGrow
            <4> QED BY <4>1, <4>2
        <3> QED BY <3>1 DEF MarkersGrow
    <2> QED BY <2>13, <2>14
<1>3. ASSUME csForJIT = NoThread, markers' = markers, NEW k \in Tokens,
             rejitCount' = [rejitCount EXCEPT ![k] = @ + 1], job'[t].tok = k
      PROVE  MarkersBounded' /\ MarkersGrow'
    <2>1. MarkersGrow'
        BY <1>3 DEF MarkersGrow
    <2>2. \A x \in Tokens : \A i \in 1 .. Len(markers[x]) : markers[x][i] \in Nat /\ markers[x][i] <= rejitCount[x]
        BY <1>b DEF MarkersBounded
    <2>3. \A x \in Tokens : rejitCount[x] \in Nat /\ rejitCount'[x] = IF x = k THEN rejitCount[x] + 1 ELSE rejitCount[x]
        BY <1>3, <1>b
    <2>4. \A x \in Tokens : \A i \in 1 .. Len(markers'[x]) : markers'[x][i] <= rejitCount'[x]
        BY <1>3, <2>2, <2>3
    <2>5. \A i \in 1 .. Len(markers'[k]) : markers'[k][i] < rejitCount'[k]
        BY <1>3, <2>2, <2>3
    <2>6. ASSUME NEW u \in Threads, pc'[u] \in PassSteps \ {"cleanup"} PROVE u = t
        <3>1. pc[u] \notin LockedSteps
            BY <1>3, ThreadsAssumption DEF LockHeld
        <3> QED BY <1>0, <2>6, <3>1 DEF Apart, LockedSteps, Steps, PassSteps, Types, ThreadTypes
    <2>7. ASSUME NEW u \in Threads, pc'[u] \in PassSteps \ {"cleanup"}
          PROVE  \A i \in 1 .. Len(markers'[Tok(u)']) : markers'[Tok(u)'][i] < rejitCount'[Tok(u)']
        BY <1>3, <2>5, <2>6, <2>7 DEF Tok
    <2> QED BY <2>1, <2>4, <2>7 DEF MarkersBounded
<1> QED BY <1>0, <1>1, <1>2, <1>3 DEF CountedBy

----------------------------------------------------------------------------
(* The theorems. *)

\* The invariant holds before the first callback.
LEMMA InitInv == Init => IInv
<1> SUFFICES ASSUME Init PROVE IInv
    OBVIOUS
<1>1. Types
    <2>1. ThreadTypes
        BY NoJobType DEF Init, ThreadTypes, Steps
    <2>2. PassTypes
        <3>1. <<>> \in Seq(ImSet)
            OBVIOUS
        <3> QED BY <3>1 DEF Init, PassTypes
    <2>3. MethodTypes
        <3>1. <<>> \in Seq(Nat)
            OBVIOUS
        <3> QED BY <3>1 DEF Init, MethodTypes
    <2>4. AreInfos
        BY DEF Init, AreInfos, IsInfo, NewInfo
    <2> QED BY <2>1, <2>2, <2>3, <2>4 DEF Types
<1>2. LockHeld
    BY ThreadsAssumption DEF Init, LockHeld, LockedSteps
<1>3. JobsFit
    BY DEF Init, JobsFit, JobFits, PassSteps
<1>4. MapsHold
    BY ThreadsAssumption DEF Init, MapsHold, Holds, HoldsToken
<1>5. AllBuilt
    BY DEF Init, AllBuilt, Built, Fresh, PassSteps
<1>6. AllCached
    BY DEF Init, AllCached, ReadCached
<1>7. OriginalKept
    BY DEF Init, OriginalKept, OriginalCode, NoCode, Code
<1>8. OnePass
    <2>1. <<>> \in Bodies
        BY DEF Bodies
    <2>2. <<>> \in OnePassIl(<<>>)
        BY <2>1, RawIsOnePass
    <2> QED BY <2>2 DEF Init, OnePass, OriginalCode, NoCode, Code
<1>9. MarkersBounded /\ MarkersGrow
    BY DEF Init, MarkersBounded, MarkersGrow, PassSteps
<1> QED BY <1>1, <1>2, <1>3, <1>4, <1>5, <1>6, <1>7, <1>8, <1>9 DEF IInv

\* Every step of every thread keeps the invariant.
LEMMA NextInv == IInv /\ [Next]_vars => IInv'
<1> SUFFICES ASSUME IInv, [Next]_vars PROVE IInv'
    OBVIOUS
<1>1. CASE UNCHANGED vars
    <2>1. UNCHANGED <<clr, rejitIl, origin, markers, csForJIT, pc, job, asked, done, info, read, inlinee, methodInfos,
                      infosByToken, managerInfos, cachedIl, rejitCount>>
        BY <1>1 DEF vars, clrVars, loadVars, passVars, infoVars, moduleVars
    <2>2. Types'
        BY <2>1 DEF IInv, Types, ThreadTypes, PassTypes, MethodTypes, AreInfos
    <2>3. LockHeld' /\ JobsFit'
        BY <2>1 DEF IInv, LockHeld, JobsFit, JobFits
    <2>4. MapsHold'
        BY <2>1 DEF IInv, MapsHold, Holds, HoldsToken, Tok
    <2>5. AllBuilt' /\ AllCached'
        BY <2>1 DEF IInv, AllBuilt, Built, Fresh, OnlyGraph, Edits, EditsDone, Rendered, AllCached, ReadCached, Orig, Tok
    <2>6. OriginalKept' /\ OnePass'
        BY <2>1 DEF IInv, OriginalKept, OnePass
    <2>7. MarkersBounded' /\ MarkersGrow'
        BY <2>1 DEF IInv, MarkersBounded, MarkersGrow, Tok
    <2> QED BY <2>2, <2>3, <2>4, <2>5, <2>6, <2>7 DEF IInv
<1>2. ASSUME NEW t \in Threads, Continue(t) \/ Choose(t)
      PROVE  IInv'
    <2> USE <1>2 DEF IInv
    <2>1. Types'
        BY ThreadTypesStep, PassTypesStep, MethodTypesStep, InfosStep DEF Types
    <2>2. LockHeld' /\ JobsFit'
        BY LockStep, JobsStep
    <2>3. MapsHold'
        BY MapsStep
    <2>4. AllBuilt' /\ AllCached'
        BY BuiltStep, CachedStep
    <2>a. OriginalKept'
        BY OriginalStep
    <2>5. OriginalKept' /\ OnePass'
        BY <2>a, OnePassStep
    <2>6. MarkersBounded' /\ MarkersGrow'
        BY MarkersStep
    <2> QED BY <2>1, <2>2, <2>3, <2>4, <2>5, <2>6
<1> QED BY <1>1, <1>2 DEF Next

\* The invariant holds in every state.
LEMMA InvHolds == Spec => []IInv
<1> QED BY InitInv, NextInv, PTL DEF Spec

----------------------------------------------------------------------------
(* The IL maps: a merge composes, entry by entry. *)

\* The entries of a map are pairs of offsets.
LEMMA EntriesArePairs ==
    ASSUME NEW map \in ILMaps
    PROVE  /\ Len(map) \in Nat
           /\ \A i \in 1 .. Len(map) : map[i] \in Nat \X Nat
<1>1. map \in Seq(Nat \X Nat)
  BY DEF ILMaps
<1> QED BY <1>1

\* The last entry that leads to an offset is one that does.
LEMMA EntryAtFacts ==
    ASSUME NEW map \in ILMaps, NEW offset, \E i \in 1 .. Len(map) : map[i][2] = offset
    PROVE  EntryAt(map, offset) \in 1 .. Len(map) /\ map[EntryAt(map, offset)][2] = offset
<1> DEFINE hits == {i \in 1 .. Len(map) : map[i][2] = offset}
<1>1. Len(map) \in Nat /\ hits # {}
  BY EntriesArePairs
<1>2. hits \subseteq 0 .. Len(map)
  BY <1>1
<1>3. \E i \in hits : \A j \in hits : j <= i
  <2> HIDE DEF hits
  <2> QED BY <1>1, <1>2, GreatestNatural
<1>4. EntryAt(map, offset) = CHOOSE i \in hits : \A j \in hits : j <= i
  BY DEF EntryAt
<1>5. EntryAt(map, offset) \in hits
  <2> HIDE DEF hits
  <2> QED BY <1>3, <1>4
<1> QED BY <1>5

\* The loop over the entries of the new map.
LEMMA MergeLoop ==
    ASSUME NEW old \in ILMaps, NEW new \in ILMaps, old # <<>>
    PROVE  \E u \in [0 .. Len(new) -> ILMaps] :
              /\ MergeILInstrumentedCodeMap(old, new) = u[Len(new)]
              /\ u[0] = <<>>
              /\ \A k \in 1 .. Len(new) : u[k] =
                    IF \E i \in 1 .. Len(old) : old[i][2] = new[k][1]
                    THEN Append(u[k - 1], <<old[EntryAt(old, new[k][1])][1], new[k][2]>>) ELSE u[k - 1]
<1> DEFINE N == Len(new)
           Known(k) == \E i \in 1 .. Len(old) : old[i][2] = new[k][1]
           entry(k) == <<old[EntryAt(old, new[k][1])][1], new[k][2]>>
           step == [k \in 1 .. N |-> [m \in ILMaps |-> IF Known(k) THEN Append(m, entry(k)) ELSE m]]
           updated == CHOOSE u : u = [k \in 0 .. N |-> IF k = 0 THEN <<>>
                            ELSE IF Known(k) THEN Append(u[k - 1], entry(k)) ELSE u[k - 1]]
<1>1. N \in Nat /\ <<>> \in ILMaps
  BY EntriesArePairs DEF ILMaps
<1>2. \A k \in 1 .. N : Known(k) => entry(k) \in Nat \X Nat
  <2> SUFFICES ASSUME NEW k \in 1 .. Len(new), Known(k) PROVE entry(k) \in Nat \X Nat
    OBVIOUS
  <2>1. EntryAt(old, new[k][1]) \in 1 .. Len(old)
    BY EntryAtFacts
  <2>2. new[k] \in Nat \X Nat
    BY EntriesArePairs
  <2>3. old[EntryAt(old, new[k][1])] \in Nat \X Nat
    BY <2>1, EntriesArePairs
  <2> QED BY <2>2, <2>3
<1>3. \A k \in 1 .. N, m \in ILMaps : (IF Known(k) THEN Append(m, entry(k)) ELSE m) \in ILMaps
  <2> HIDE DEF Known, entry
  <2> QED BY <1>2 DEF ILMaps
<1>4. step \in [1 .. N -> [ILMaps -> ILMaps]]
  <2> HIDE DEF Known, entry, N
  <2> QED BY <1>3
<1>5. PICK g \in [0 .. N -> ILMaps] : g[0] = <<>> /\ \A k \in 1 .. N : g[k] = step[k][g[k - 1]]
  <2> DEFINE none == <<>>
  <2> HIDE DEF step, N, none
  <2>1. N \in Nat /\ none \in ILMaps
    BY <1>1 DEF none
  <2>2. PICK g : Rounds(g, N, ILMaps, none, step)
    BY <2>1, <1>4, RecursionExists
  <2> QED BY <2>2 DEF none, Rounds
<1>6. \A k \in 1 .. N : g[k - 1] \in ILMaps /\ step[k][g[k - 1]] = IF Known(k) THEN Append(g[k - 1], entry(k)) ELSE g[k - 1]
  <2> HIDE DEF Known, entry, N
  <2> SUFFICES ASSUME NEW k \in 1 .. N
               PROVE  g[k - 1] \in ILMaps /\ step[k][g[k - 1]] = IF Known(k) THEN Append(g[k - 1], entry(k)) ELSE g[k - 1]
    OBVIOUS
  <2>1. g[k - 1] \in ILMaps
    <3>1. k - 1 \in 0 .. N
      BY <1>1
    <3>2. g \in [0 .. N -> ILMaps]
      OBVIOUS
    <3> QED BY <3>1, <3>2
  <2>2. step[k] = [m \in ILMaps |-> IF Known(k) THEN Append(m, entry(k)) ELSE m]
    OBVIOUS
  <2> HIDE DEF step
  <2> QED BY <2>1, <2>2
<1> HIDE DEF step, Known, entry, N
<1> DEFINE F(u) == [k \in 0 .. N |-> IF k = 0 THEN <<>> ELSE IF Known(k) THEN Append(u[k - 1], entry(k)) ELSE u[k - 1]]
<1>7. g = F(g)
  <2>1. \A k \in 0 .. N : F(g)[k] = g[k]
    <3> SUFFICES ASSUME NEW k \in 0 .. N PROVE F(g)[k] = g[k]
      OBVIOUS
    <3>1. CASE k = 0
      BY <1>5, <3>1
    <3>2. CASE k # 0
      <4>1. k \in 1 .. N
        BY <1>1, <3>2
      <4>2. g[k] = IF Known(k) THEN Append(g[k - 1], entry(k)) ELSE g[k - 1]
        BY <1>5, <1>6, <4>1
      <4> QED BY <3>2, <4>2
    <3> QED BY <3>1, <3>2
  <2>2. F(g) = [k \in 0 .. N |-> F(g)[k]] /\ g = [k \in 0 .. N |-> g[k]]
    OBVIOUS
  <2> HIDE DEF F
  <2> QED BY <2>1, <2>2
<1>8. updated = F(updated)
  BY <1>7
<1>9. DOMAIN updated = 0 .. N /\ updated[0] = <<>>
      /\ \A k \in 1 .. N : updated[k] = IF Known(k) THEN Append(updated[k - 1], entry(k)) ELSE updated[k - 1]
  <2> DEFINE G == F(updated)
  <2>1. DOMAIN G = 0 .. N /\ G[0] = <<>>
        /\ \A k \in 1 .. N : G[k] = IF Known(k) THEN Append(updated[k - 1], entry(k)) ELSE updated[k - 1]
    BY <1>1
  <2>2. updated = G
    BY <1>8
  <2> HIDE DEF G, updated
  <2> QED BY <2>1, <2>2
<1>10. updated = [k \in 0 .. N |-> updated[k]]
  <2> DEFINE G == F(updated)
  <2>1. G = [k \in 0 .. N |-> G[k]]
    OBVIOUS
  <2>2. updated = G
    BY <1>8
  <2> HIDE DEF G, updated
  <2> QED BY <2>1, <2>2
<1>11. MergeILInstrumentedCodeMap(old, new) = updated[N]
  BY DEF MergeILInstrumentedCodeMap, N, Known, entry
<1> HIDE DEF updated, F
<1>12. \A k \in 0 .. N : updated[k] \in ILMaps
  <2> DEFINE T == {k \in 0 .. N : updated[k] \notin ILMaps}
  <2>1. SUFFICES ASSUME T # {} PROVE FALSE
    OBVIOUS
  <2>2. PICK k \in T : \A m \in T : k <= m
    <3>1. T \subseteq Nat
      BY <1>1
    <3> HIDE DEF T
    <3> QED BY <2>1, <3>1, LeastNatural
  <2>3. k \in 1 .. N /\ k - 1 \in 0 .. N /\ k - 1 \notin T
    BY <1>1, <1>9, <2>2
  <2>4. updated[k - 1] \in ILMaps
    BY <2>3
  <2>5. updated[k] \in ILMaps
    BY <1>3, <1>9, <2>3, <2>4
  <2> QED BY <2>2, <2>5
<1>13. updated \in [0 .. N -> ILMaps]
  BY <1>10, <1>12
<1> QED BY <1>9, <1>11, <1>13 DEF N, Known, entry

\* The entries of a map with one more.
LEMMA PairsOfAppend ==
    ASSUME NEW map \in ILMaps, NEW e \in Nat \X Nat
    PROVE  MapPairs(Append(map, e)) = MapPairs(map) \cup {e}
<1> DEFINE m == Append(map, e)
<1>1. map \in Seq(Nat \X Nat)
  BY DEF ILMaps
<1>2. Len(m) = Len(map) + 1 /\ Len(map) \in Nat /\ m[Len(map) + 1] = e /\ \A i \in 1 .. Len(map) : m[i] = map[i]
  BY <1>1
<1> HIDE DEF m
<1>3. \A p : (\E i \in 1 .. Len(m) : p = m[i]) <=> (\E i \in 1 .. Len(map) : p = map[i]) \/ p = e
  BY <1>2
<1> QED BY <1>3 DEF MapPairs, m

\* A merge is the composition of the two maps, as far as the last of several entries for an offset goes.
LEMMA MergeFacts ==
    ASSUME NEW old \in ILMaps, NEW new \in ILMaps, old # <<>>
    PROVE  /\ MergeILInstrumentedCodeMap(old, new) \in ILMaps
           /\ MapPairs(MergeILInstrumentedCodeMap(old, new)) \subseteq Through(MapPairs(old), new)
           /\ NewOffsets(MapPairs(MergeILInstrumentedCodeMap(old, new))) = NewOffsets(Through(MapPairs(old), new))
<1> DEFINE N == Len(new)
           Known(k) == \E i \in 1 .. Len(old) : old[i][2] = new[k][1]
           entry(k) == <<old[EntryAt(old, new[k][1])][1], new[k][2]>>
           made(k) == {entry(i) : i \in {i \in 1 .. k : Known(i)}}
<1>1. N \in Nat
  BY EntriesArePairs
<1>2. PICK u \in [0 .. N -> ILMaps] :
          /\ MergeILInstrumentedCodeMap(old, new) = u[N]
          /\ u[0] = <<>>
          /\ \A k \in 1 .. N : u[k] = IF Known(k) THEN Append(u[k - 1], entry(k)) ELSE u[k - 1]
  BY MergeLoop
<1>3. \A k \in 1 .. N : Known(k) => entry(k) \in Nat \X Nat
  <2> SUFFICES ASSUME NEW k \in 1 .. Len(new), Known(k) PROVE entry(k) \in Nat \X Nat
    OBVIOUS
  <2>1. EntryAt(old, new[k][1]) \in 1 .. Len(old)
    BY EntryAtFacts
  <2>2. new[k] \in Nat \X Nat
    BY EntriesArePairs
  <2>3. old[EntryAt(old, new[k][1])] \in Nat \X Nat
    BY <2>1, EntriesArePairs
  <2> QED BY <2>2, <2>3
<1>4. \A k \in 0 .. N : MapPairs(u[k]) = made(k)
  <2> DEFINE T == {k \in 0 .. N : MapPairs(u[k]) # made(k)}
  <2>1. SUFFICES ASSUME T # {} PROVE FALSE
    OBVIOUS
  <2>2. PICK k \in T : \A m \in T : k <= m
    <3>1. T \subseteq Nat
      BY <1>1
    <3> HIDE DEF T
    <3> QED BY <2>1, <3>1, LeastNatural
  <2> HIDE DEF Known, entry, N
  <2>3. MapPairs(u[0]) = made(0)
    BY <1>2 DEF MapPairs
  <2>4. k \in 1 .. N /\ k - 1 \in 0 .. N /\ k - 1 \notin T
    <3> HIDE DEF made
    <3> QED BY <1>1, <2>2, <2>3
  <2>5. MapPairs(u[k - 1]) = made(k - 1)
    BY <2>4
  <2>6. u[k - 1] \in ILMaps
    BY <1>2, <2>4
  <2>7. \A i : i \in 1 .. k <=> i \in 1 .. k - 1 \/ i = k
    BY <1>1, <2>4
  <2>8. CASE Known(k)
    <3>1. u[k] = Append(u[k - 1], entry(k)) /\ entry(k) \in Nat \X Nat
      BY <1>2, <1>3, <2>4, <2>8
    <3>2. MapPairs(u[k]) = MapPairs(u[k - 1]) \cup {entry(k)}
      BY <2>6, <3>1, PairsOfAppend
    <3>3. made(k) = made(k - 1) \cup {entry(k)}
      BY <2>7, <2>8
    <3> QED BY <2>2, <2>5, <3>2, <3>3
  <2>9. CASE ~Known(k)
    <3>1. u[k] = u[k - 1]
      BY <1>2, <2>4, <2>9
    <3>2. made(k) = made(k - 1)
      BY <2>7, <2>9
    <3> QED BY <2>2, <2>5, <3>1, <3>2
  <2> QED BY <2>8, <2>9
<1> DEFINE pairs == MapPairs(MergeILInstrumentedCodeMap(old, new))
<1>5. pairs = made(N)
  <2> HIDE DEF made
  <2> QED BY <1>1, <1>2, <1>4
<1>6. \A i \in 1 .. N : Known(i) =>
          /\ old[EntryAt(old, new[i][1])] \in MapPairs(old)
          /\ old[EntryAt(old, new[i][1])][2] = new[i][1]
          /\ new[i] \in MapPairs(new)
  BY EntryAtFacts DEF MapPairs
<1>7. \A i \in 1 .. N : Known(i) => entry(i) \in Through(MapPairs(old), new)
  <2> SUFFICES ASSUME NEW i \in 1 .. N, Known(i) PROVE entry(i) \in Through(MapPairs(old), new)
    OBVIOUS
  <2> DEFINE c == <<old[EntryAt(old, new[i][1])], new[i]>>
  <2>1. c \in MapPairs(old) \X MapPairs(new) /\ c[1][2] = c[2][1] /\ entry(i) = <<c[1][1], c[2][2]>>
    BY <1>6
  <2> HIDE DEF c, entry, N, Known
  <2> QED BY <2>1 DEF Through
<1>8. pairs \subseteq Through(MapPairs(old), new)
  <2> HIDE DEF Known, entry, N, pairs
  <2> QED BY <1>5, <1>7
<1>9. \A o \in NewOffsets(Through(MapPairs(old), new)) : o \in NewOffsets(pairs)
  <2> SUFFICES ASSUME NEW o \in NewOffsets(Through(MapPairs(old), new)) PROVE o \in NewOffsets(pairs)
    OBVIOUS
  <2>1. PICK p \in Through(MapPairs(old), new) : o = p[2]
    BY DEF NewOffsets
  <2>2. PICK c \in MapPairs(old) \X MapPairs(new) : c[1][2] = c[2][1] /\ p = <<c[1][1], c[2][2]>>
    BY <2>1 DEF Through
  <2>3. PICK i \in 1 .. Len(old) : c[1] = old[i]
    BY <2>2 DEF MapPairs
  <2>4. PICK k \in 1 .. Len(new) : c[2] = new[k]
    BY <2>2 DEF MapPairs
  <2>5. Known(k) /\ o = entry(k)[2]
    BY <2>1, <2>2, <2>3, <2>4
  <2>6. entry(k) \in made(N)
    <3> HIDE DEF entry, Known
    <3> QED BY <1>1, <2>4, <2>5
  <2>7. entry(k) \in pairs
    <3> HIDE DEF entry, Known, made, N, pairs
    <3> QED BY <1>5, <2>6
  <2> HIDE DEF pairs, entry
  <2> QED BY <2>5, <2>7 DEF NewOffsets
<1>10. NewOffsets(pairs) = NewOffsets(Through(MapPairs(old), new))
  <2> HIDE DEF pairs
  <2>1. NewOffsets(pairs) \subseteq NewOffsets(Through(MapPairs(old), new))
    BY <1>8 DEF NewOffsets
  <2> QED BY <2>1, <1>9
<1>11. MergeILInstrumentedCodeMap(old, new) \in ILMaps
  <2> HIDE DEF N, made, Known, entry
  <2> QED BY <1>1, <1>2
<1> HIDE DEF pairs
<1> QED BY <1>8, <1>10, <1>11 DEF pairs

\* What several maps make one after the other: the first alone, then through each of the others.
LEMMA ChainFacts ==
    ASSUME NEW s \in Seq(ILMaps)
    PROVE  /\ Chains(s)[0] = {}
           /\ \A n \in 1 .. Len(s) : Chains(s)[n] = IF n = 1 THEN MapPairs(s[1]) ELSE Through(Chains(s)[n - 1], s[n])
<1> DEFINE N == Len(s)
           P == SUBSET (Nat \X Nat)
           step == [n \in 1 .. N |-> [r \in P |-> IF n = 1 THEN MapPairs(s[1]) ELSE Through(r, s[n])]]
           F(r) == [n \in 0 .. N |-> IF n = 0 THEN {} ELSE IF n = 1 THEN MapPairs(s[1]) ELSE Through(r[n - 1], s[n])]
           reach == CHOOSE r : r = F(r)
<1>1. N \in Nat /\ \A n \in 1 .. N : s[n] \in ILMaps
  OBVIOUS
<1>2. \A map \in ILMaps : MapPairs(map) \in P
  BY EntriesArePairs DEF MapPairs
<1>3. \A map \in ILMaps, r \in P : Through(r, map) \in P
  <2> SUFFICES ASSUME NEW map \in ILMaps, NEW r \in P, NEW p \in Through(r, map) PROVE p \in Nat \X Nat
    OBVIOUS
  <2>1. PICK c \in r \X MapPairs(map) : p = <<c[1][1], c[2][2]>>
    BY DEF Through
  <2>2. c[1] \in Nat \X Nat /\ c[2] \in Nat \X Nat
    BY <1>2, <2>1
  <2> QED BY <2>1, <2>2
<1>4. step \in [1 .. N -> [P -> P]]
  <2> HIDE DEF P, N
  <2>1. \A n \in 1 .. N, r \in P : (IF n = 1 THEN MapPairs(s[1]) ELSE Through(r, s[n])) \in P
    BY <1>1, <1>2, <1>3
  <2> QED BY <2>1
<1>5. PICK g \in [0 .. N -> P] : g[0] = {} /\ \A n \in 1 .. N : g[n] = step[n][g[n - 1]]
  <2> DEFINE none == {}
  <2>1. none \in P
    OBVIOUS
  <2> HIDE DEF step, N, none, P
  <2>2. PICK g : Rounds(g, N, P, none, step)
    BY <1>1, <2>1, <1>4, RecursionExists
  <2> QED BY <2>2 DEF none, Rounds
<1>6. \A n \in 1 .. N : g[n] = IF n = 1 THEN MapPairs(s[1]) ELSE Through(g[n - 1], s[n])
  <2> HIDE DEF N, P
  <2> SUFFICES ASSUME NEW n \in 1 .. N
               PROVE  g[n] = IF n = 1 THEN MapPairs(s[1]) ELSE Through(g[n - 1], s[n])
    OBVIOUS
  <2>1. g[n - 1] \in P
    <3>1. n - 1 \in 0 .. N
      BY <1>1
    <3>2. g \in [0 .. N -> P]
      OBVIOUS
    <3> QED BY <3>1, <3>2
  <2>2. step[n] = [r \in P |-> IF n = 1 THEN MapPairs(s[1]) ELSE Through(r, s[n])]
    OBVIOUS
  <2>3. g[n] = step[n][g[n - 1]]
    BY <1>5
  <2> HIDE DEF step
  <2> QED BY <2>1, <2>2, <2>3
<1> HIDE DEF step, N, P
<1>7. g = F(g)
  <2>1. \A n \in 0 .. N : F(g)[n] = g[n]
    <3> SUFFICES ASSUME NEW n \in 0 .. N PROVE F(g)[n] = g[n]
      OBVIOUS
    <3>1. CASE n = 0
      BY <1>5, <3>1
    <3>2. CASE n # 0
      <4>1. n \in 1 .. N
        BY <1>1, <3>2
      <4> QED BY <1>6, <3>2, <4>1
    <3> QED BY <3>1, <3>2
  <2>2. F(g) = [n \in 0 .. N |-> F(g)[n]] /\ g = [n \in 0 .. N |-> g[n]]
    OBVIOUS
  <2> HIDE DEF F
  <2> QED BY <2>1, <2>2
<1>8. reach = F(reach)
  <2> HIDE DEF F
  <2> QED BY <1>7
<1>9. reach[0] = {} /\ \A n \in 1 .. N : reach[n] = IF n = 1 THEN MapPairs(s[1]) ELSE Through(reach[n - 1], s[n])
  <2> DEFINE G == F(reach)
  <2> HIDE DEF reach
  <2>1. G[0] = {} /\ \A n \in 1 .. N : G[n] = IF n = 1 THEN MapPairs(s[1]) ELSE Through(reach[n - 1], s[n])
    BY <1>1
  <2>2. reach = G
    BY <1>8
  <2> HIDE DEF G
  <2> QED BY <2>1, <2>2
<1>10. Chains(s) = reach
  BY DEF Chains, N
<1> HIDE DEF reach
<1> QED BY <1>9, <1>10 DEF N

\* One map more lengthens the chain.
LEMMA ChainAppend ==
    ASSUME NEW s \in Seq(ILMaps), NEW map \in ILMaps
    PROVE  /\ \A n \in 0 .. Len(s) : Chains(Append(s, map))[n] = Chains(s)[n]
           /\ Chains(Append(s, map))[Len(s) + 1] =
                IF Len(s) = 0 THEN MapPairs(map) ELSE Through(Chains(s)[Len(s)], map)
<1> DEFINE r == Append(s, map)
<1>1. r \in Seq(ILMaps) /\ Len(s) \in Nat /\ Len(r) = Len(s) + 1 /\ r[Len(s) + 1] = map
      /\ \A n \in 1 .. Len(s) : r[n] = s[n]
  OBVIOUS
<1> HIDE DEF r
<1>2. /\ Chains(r)[0] = {}
      /\ \A n \in 1 .. Len(r) : Chains(r)[n] = IF n = 1 THEN MapPairs(r[1]) ELSE Through(Chains(r)[n - 1], r[n])
  BY <1>1, ChainFacts
<1>3. /\ Chains(s)[0] = {}
      /\ \A n \in 1 .. Len(s) : Chains(s)[n] = IF n = 1 THEN MapPairs(s[1]) ELSE Through(Chains(s)[n - 1], s[n])
  BY ChainFacts
<1>4. \A n \in 0 .. Len(s) : Chains(r)[n] = Chains(s)[n]
  <2> DEFINE T == {n \in 0 .. Len(s) : Chains(r)[n] # Chains(s)[n]}
  <2>1. SUFFICES ASSUME T # {} PROVE FALSE
    OBVIOUS
  <2>2. PICK n \in T : \A m \in T : n <= m
    <3>1. T \subseteq Nat
      BY <1>1
    <3> HIDE DEF T
    <3> QED BY <2>1, <3>1, LeastNatural
  <2>3. n \in 1 .. Len(s) /\ n - 1 \in 0 .. Len(s) /\ n - 1 \notin T
    <3>1. Chains(r)[0] = Chains(s)[0]
      BY <1>2, <1>3
    <3>2. n \in 0 .. Len(s) /\ n # 0
      BY <2>2, <3>1
    <3> HIDE DEF T
    <3> QED BY <1>1, <2>2, <3>2
  <2>4. Chains(r)[n - 1] = Chains(s)[n - 1] /\ r[n] = s[n] /\ r[1] = s[1] /\ n \in 1 .. Len(r)
    BY <1>1, <2>3
  <2>5. Chains(r)[n] = Chains(s)[n]
    BY <1>2, <1>3, <2>3, <2>4
  <2> QED BY <2>2, <2>5
<1>5. Chains(r)[Len(s) + 1] = IF Len(s) = 0 THEN MapPairs(map) ELSE Through(Chains(s)[Len(s)], map)
  <2>1. Chains(r)[Len(s) + 1] = IF Len(s) + 1 = 1 THEN MapPairs(r[1]) ELSE Through(Chains(r)[Len(s) + 1 - 1], r[Len(s) + 1])
    BY <1>1, <1>2
  <2>2. Len(s) + 1 - 1 = Len(s) /\ Chains(r)[Len(s)] = Chains(s)[Len(s)]
    BY <1>1, <1>4
  <2>3. CASE Len(s) = 0
    BY <1>1, <2>1, <2>3
  <2>4. CASE Len(s) # 0
    <3>1. Len(s) + 1 # 1
      BY <1>1, <2>4
    <3> QED BY <1>1, <2>1, <2>2, <2>4, <3>1
  <2> QED BY <2>3, <2>4
<1> QED BY <1>4, <1>5 DEF r

\* MapComposes for one pass.
Composes(map, s) ==
    (\A n \in 1 .. Len(s) : Chains(s)[n] # {}) =>
        /\ MapPairs(map) \subseteq Chains(s)[Len(s)]
        /\ NewOffsets(MapPairs(map)) = NewOffsets(Chains(s)[Len(s)])

\* What goes through a map depends on the offsets it starts from.
LEMMA ThroughFacts ==
    ASSUME NEW pairs, NEW whole, NEW map, pairs \subseteq whole, NewOffsets(pairs) = NewOffsets(whole)
    PROVE  /\ Through(pairs, map) \subseteq Through(whole, map)
           /\ NewOffsets(Through(pairs, map)) = NewOffsets(Through(whole, map))
<1>1. Through(pairs, map) \subseteq Through(whole, map)
  BY DEF Through
<1>2. NewOffsets(Through(pairs, map)) \subseteq NewOffsets(Through(whole, map))
  BY <1>1 DEF NewOffsets
<1>3. \A o \in NewOffsets(Through(whole, map)) : o \in NewOffsets(Through(pairs, map))
  <2> SUFFICES ASSUME NEW o \in NewOffsets(Through(whole, map)) PROVE o \in NewOffsets(Through(pairs, map))
    OBVIOUS
  <2>1. PICK p \in Through(whole, map) : o = p[2]
    BY DEF NewOffsets
  <2>2. PICK c \in whole \X MapPairs(map) : c[1][2] = c[2][1] /\ p = <<c[1][1], c[2][2]>>
    BY <2>1 DEF Through
  <2>3. c[1][2] \in NewOffsets(whole) /\ c[2] \in MapPairs(map)
    BY <2>2 DEF NewOffsets
  <2>4. PICK q \in pairs : q[2] = c[1][2]
    BY <2>3 DEF NewOffsets
  <2> DEFINE d == <<q, c[2]>>
  <2>5. d \in pairs \X MapPairs(map) /\ d[1][2] = d[2][1] /\ d[2] = c[2]
    BY <2>2, <2>3, <2>4
  <2> HIDE DEF d
  <2>6. <<d[1][1], d[2][2]>> \in Through(pairs, map)
    BY <2>5 DEF Through
  <2>7. o = <<d[1][1], d[2][2]>>[2]
    BY <2>1, <2>2, <2>5
  <2> QED BY <2>6, <2>7 DEF NewOffsets
<1> QED BY <1>1, <1>2, <1>3

\* A merge keeps the map composed, and nothing but its result matters.
LEMMA MergeComposes ==
    ASSUME NEW map \in ILMaps, NEW s \in Seq(ILMaps), NEW new \in ILMaps,
           Composes(map, s), s = <<>> => map = <<>>
    PROVE  /\ MergeILInstrumentedCodeMap(map, new) \in ILMaps
           /\ Composes(MergeILInstrumentedCodeMap(map, new), Append(s, new))
<1> DEFINE merged == MergeILInstrumentedCodeMap(map, new)
           r == Append(s, new)
<1>0. Len(s) \in Nat /\ Len(r) = Len(s) + 1 /\ r \in Seq(ILMaps)
  OBVIOUS
<1>1. merged \in ILMaps
  <2>1. CASE map = <<>>
    BY <2>1 DEF MergeILInstrumentedCodeMap
  <2>2. CASE map # <<>>
    BY <2>2, MergeFacts
  <2> QED BY <2>1, <2>2
<1>2. /\ \A n \in 0 .. Len(s) : Chains(r)[n] = Chains(s)[n]
      /\ Chains(r)[Len(s) + 1] = IF Len(s) = 0 THEN MapPairs(new) ELSE Through(Chains(s)[Len(s)], new)
  BY ChainAppend
<1>3. CASE Len(s) = 0
  <2>1. s = <<>>
    BY <1>3
  <2>2. merged = new
    BY <2>1 DEF MergeILInstrumentedCodeMap
  <2> HIDE DEF r, merged
  <2>3. Chains(r)[Len(r)] = MapPairs(new)
    BY <1>0, <1>2, <1>3
  <2>4. Composes(merged, r)
    BY <2>2, <2>3 DEF Composes
  <2> QED BY <1>1, <2>4 DEF r, merged
<1>4. CASE Len(s) # 0
  <2> DEFINE whole == Chains(s)[Len(s)]
  <2> HIDE DEF r, merged, whole
  <2>1. SUFFICES ASSUME \A n \in 1 .. Len(r) : Chains(r)[n] # {}
                 PROVE  /\ MapPairs(merged) \subseteq Chains(r)[Len(r)]
                        /\ NewOffsets(MapPairs(merged)) = NewOffsets(Chains(r)[Len(r)])
    BY <1>1 DEF Composes, r, merged
  <2>2. \A n \in 1 .. Len(s) : Chains(s)[n] # {}
    BY <1>0, <1>2, <2>1
  <2>3. MapPairs(map) \subseteq whole /\ NewOffsets(MapPairs(map)) = NewOffsets(whole)
    BY <2>2 DEF Composes, whole
  <2>4. whole # {}
    BY <1>0, <1>4, <2>2 DEF whole
  <2>5. map # <<>>
    <3>1. NewOffsets(whole) # {}
      BY <2>4 DEF NewOffsets
    <3>2. MapPairs(<<>>) = {}
      BY DEF MapPairs
    <3>3. NewOffsets({}) = {}
      BY DEF NewOffsets
    <3> QED BY <2>3, <3>1, <3>2, <3>3
  <2>6. /\ MapPairs(merged) \subseteq Through(MapPairs(map), new)
        /\ NewOffsets(MapPairs(merged)) = NewOffsets(Through(MapPairs(map), new))
    BY <2>5, MergeFacts DEF merged
  <2>7. /\ Through(MapPairs(map), new) \subseteq Through(whole, new)
        /\ NewOffsets(Through(MapPairs(map), new)) = NewOffsets(Through(whole, new))
    BY <2>3, ThroughFacts
  <2>8. Chains(r)[Len(r)] = Through(whole, new)
    BY <1>0, <1>2, <1>4 DEF whole
  <2> QED BY <2>6, <2>7, <2>8
<1> QED BY <1>0, <1>3, <1>4

----------------------------------------------------------------------------
(* The map of a pass. *)

\* The map of a pass is what its stages compose to, and there is none before the first of them.
MapFits(t) ==
    /\ stages[t] \in Seq(ILMaps) /\ info[t].map \in ILMaps
    /\ stages[t] = <<>> \/ pc[t] = "before" => info[t].map = <<>>
    /\ Composes(info[t].map, stages[t])
MapInv ==
    /\ stages = [t \in Threads |-> stages[t]]
    /\ \A t \in Threads : MapFits(t)

\* What a step does with the map of its pass: nothing, a merge, or the end of it.
KeepsMap(t) ==
    /\ stages' = stages /\ info'[t].map = info[t].map
    /\ pc'[t] = "before" => info[t].map = <<>>
MergesMap(t) ==
    \E map \in ILMaps :
        /\ stages' = [stages EXCEPT ![t] = Append(@, map)]
        /\ info'[t].map = Merged(t, map)
        /\ pc'[t] # "before"
EndsMap(t) ==
    /\ stages' = [stages EXCEPT ![t] = <<>>]
    /\ info'[t].map = <<>>
LEMMA MapSteps ==
    ASSUME IInv, MapInv, NEW t \in Threads, Continue(t) \/ Choose(t)
    PROVE  KeepsMap(t) \/ MergesMap(t) \/ EndsMap(t)
<1>0. /\ info = [u \in Threads |-> info[u]] /\ IsInfo(info[t]) /\ pc \in [Threads -> Steps]
      /\ pc[t] = "before" => info[t].map = <<>>
      /\ pc[t] = "should" => info[t].map = <<>>
  BY DEF IInv, Types, PassTypes, ThreadTypes, AreInfos, MapInv, MapFits, AllBuilt, Built, Fresh, NewInfo
<1>a. ASSUME info' = info, stages' = stages, pc'[t] = pc[t] \/ pc'[t] # "before" PROVE KeepsMap(t)
  BY <1>0, <1>a DEF KeepsMap
<1>b. ASSUME EndPass(t) PROVE EndsMap(t)
  BY <1>0, <1>b DEF EndPass, EndsMap, NewInfo
<1> USE <1>0
<1>1. CASE CreateMethodInfo(t)
    BY <1>1, <1>a DEF CreateMethodInfo, StartPass, Goto, passVars
<1>2. CASE ShouldInstrument(t)
    BY <1>2 DEF ShouldInstrument, Goto, KeepsMap
<1>3. CASE BeforeInstrument(t)
    <2>1. CASE info' = info /\ stages' = stages
        BY <1>3, <2>1 DEF BeforeInstrument, KeepsMap
    <2>2. ASSUME NEW map \in BaselineMaps, NEW l \in {"instrument", "cleanup"}, Goto(t, l),
                 info' = [info EXCEPT ![t].graph = <<Baseline>>, ![t].map = Merged(t, map)],
                 IF map = <<>> THEN UNCHANGED <<ilMaps, stages>> ELSE SaveMap(t, map)
          PROVE  KeepsMap(t) \/ MergesMap(t)
        <3>1. info'[t].map = Merged(t, map) /\ pc'[t] # "before"
            <4>1. info'[t] = [info[t] EXCEPT !.graph = <<Baseline>>, !.map = Merged(t, map)]
                BY <2>2
            <4>2. info'[t].map = Merged(t, map)
                BY <4>1 DEF IsInfo
            <4> QED BY <2>2, <4>2 DEF Goto
        <3>2. info[t].map = <<>>
            BY <1>3 DEF BeforeInstrument
        <3>3. CASE map = <<>>
            <4>1. Merged(t, map) = <<>>
                BY <3>2, <3>3 DEF Merged, MergeILInstrumentedCodeMap
            <4> QED BY <2>2, <3>1, <3>2, <3>3, <4>1 DEF KeepsMap
        <3>4. CASE map # <<>>
            <4>1. stages' = [stages EXCEPT ![t] = Append(@, map)] /\ map \in ILMaps
                BY <2>2, <3>4, MapsAssumption DEF SaveMap
            <4> QED BY <3>1, <4>1 DEF MergesMap
        <3> QED BY <3>3, <3>4
    <2> QED BY <1>3, <2>1, <2>2 DEF BeforeInstrument
<1>4. CASE InstrumentMethod(t)
    <2>1. pc'[t] # "before" /\ stages' = stages
        BY <1>4 DEF InstrumentMethod, InstrumentFails, Goto
    <2>2. CASE info' = info
        BY <2>1, <2>2, <1>a
    <2>3. ASSUME NEW il, info' = [info EXCEPT ![t].graph = il]
          PROVE  KeepsMap(t)
        <3>1. info'[t] = [info[t] EXCEPT !.graph = il]
            BY <2>3
        <3>2. info'[t].map = info[t].map
            BY <3>1 DEF IsInfo
        <3> QED BY <2>1, <3>2 DEF KeepsMap
    <2> QED BY <1>4, <2>2, <2>3 DEF InstrumentMethod, InstrumentFails
<1>5. CASE ApplyIntermediateMethodInstrumentation(t)
    <2>1. CASE info' = info /\ stages' = stages
        BY <1>5, <2>1, <1>a DEF ApplyIntermediateMethodInstrumentation, Goto
    <2>2. ASSUME NEW map \in EncodeMaps, NEW ok \in BOOLEAN, NEW il, SaveMap(t, map),
                 info' = [info EXCEPT ![t].map = Merged(t, map), ![t].instrumented = ok, ![t].intermediate = il],
                 pc'[t] # "before"
          PROVE  MergesMap(t)
        <3>1. info'[t] = [info[t] EXCEPT !.map = Merged(t, map), !.instrumented = ok, !.intermediate = il]
            BY <2>2
        <3>2. info'[t].map = Merged(t, map)
            BY <3>1 DEF IsInfo
        <3>3. stages' = [stages EXCEPT ![t] = Append(@, map)] /\ map \in ILMaps
            BY <2>2, MapsAssumption DEF SaveMap
        <3> QED BY <2>2, <3>2, <3>3 DEF MergesMap
    <2>3. CASE \E map \in EncodeMaps, ok \in BOOLEAN :
            /\ SaveMap(t, map)
            /\ Goto(t, IF ok THEN "raw" ELSE "cleanup")
            /\ info' = [info EXCEPT ![t].map = Merged(t, map), ![t].instrumented = ok,
                                    ![t].intermediate = IF ok THEN info[t].graph ELSE info[t].intermediate]
        <3>1. PICK map \in EncodeMaps, ok \in BOOLEAN :
                    /\ SaveMap(t, map)
                    /\ Goto(t, IF ok THEN "raw" ELSE "cleanup")
                    /\ info' = [info EXCEPT ![t].map = Merged(t, map), ![t].instrumented = ok,
                                            ![t].intermediate = IF ok THEN info[t].graph ELSE info[t].intermediate]
            BY <2>3
        <3>2. pc'[t] # "before"
            BY <3>1 DEF Goto
        <3> QED BY <3>1, <3>2, <2>2
    <2> QED BY <1>5, <2>1, <2>3 DEF ApplyIntermediateMethodInstrumentation
<1>6. CASE RawReturns(t)
    BY <1>6, <1>a DEF RawReturns, Goto, passVars
<1>7. CASE ApplyFinalInstrumentation(t)
    BY <1>7, <1>a DEF ApplyFinalInstrumentation, Goto, passVars
<1>8. CASE ApplyFinalRejit(t)
    BY <1>8, <1>a DEF ApplyFinalRejit, Goto, passVars
<1>9. CASE Cleanup(t)
    BY <1>9, <1>b DEF Cleanup
<1>10. CASE RemoveMethodInfoAfterRejit(t)
    BY <1>10, <1>b DEF RemoveMethodInfoAfterRejit
<1>11. CASE TakeIl(t)
    BY <1>11, <1>a DEF TakeIl, Goto, passVars
<1>12. CASE JITInliningDecided(t)
    BY <1>12, <1>a DEF JITInliningDecided, Goto, passVars
<1>13. CASE JITCompilationFinished(t)
    BY <1>13, <1>a DEF JITCompilationFinished, EndCompilation, Goto, passVars
<1>14. ASSUME NEW f \in Functions, JITCompilationStarted(t, f) PROVE KeepsMap(t)
    BY <1>14, <1>a DEF JITCompilationStarted, Goto, passVars
<1>15. ASSUME NEW f \in Functions, ReJITCompilationStarted(t, f) PROVE KeepsMap(t)
    BY <1>15, <1>a DEF ReJITCompilationStarted, Goto, passVars
<1>16. ASSUME NEW f \in Functions, JITInlining(t, f) PROVE KeepsMap(t)
    BY <1>16, <1>a DEF JITInlining, Goto, StartPass, passVars
<1>17. ASSUME NEW k \in Tokens, CreateMethodInfoForRejit(t, k) PROVE KeepsMap(t)
    BY <1>17, <1>a DEF CreateMethodInfoForRejit, StartPass, Goto, passVars
<1>18. ASSUME NEW k \in Tokens, RequestRejit(t, k) PROVE KeepsMap(t)
    BY <1>18, <1>a DEF RequestRejit, passVars
<1>19. ASSUME NEW k \in Tokens, GetILFunctionBody(t, k) PROVE KeepsMap(t)
    BY <1>19, <1>a DEF GetILFunctionBody
<1>20. ASSUME NEW k \in Tokens, SetOtherFunctionBody(t, k) PROVE KeepsMap(t)
    BY <1>20, <1>a DEF SetOtherFunctionBody, passVars
<1>21. CASE SetILFunctionBody(t)
    <2>1. pc' = pc /\ stages' = stages
        BY <1>21 DEF SetILFunctionBody
    <2>2. ASSUME NEW il, info' = [info EXCEPT ![t].instrumented = TRUE, ![t].final = il]
          PROVE  KeepsMap(t)
        <3>1. info'[t] = [info[t] EXCEPT !.instrumented = TRUE, !.final = il]
            BY <2>2
        <3>2. info'[t].map = info[t].map
            BY <3>1 DEF IsInfo
        <3> QED BY <2>1, <3>2 DEF KeepsMap
    <2>3. ASSUME NEW il, info' = [info EXCEPT ![t].instrumented = TRUE, ![t].user = il]
          PROVE  KeepsMap(t)
        <3>1. info'[t] = [info[t] EXCEPT !.instrumented = TRUE, !.user = il]
            BY <2>3
        <3>2. info'[t].map = info[t].map
            BY <3>1 DEF IsInfo
        <3> QED BY <2>1, <3>2 DEF KeepsMap
    <2> QED BY <1>21, <2>2, <2>3 DEF SetILFunctionBody
<1>22. CASE SetILInstrumentedCodeMap(t)
    <2>1. PICK map \in RawMaps : SaveMap(t, map) /\ info' = [info EXCEPT ![t].map = Merged(t, map)]
        BY <1>22 DEF SetILInstrumentedCodeMap
    <2>2. info'[t] = [info[t] EXCEPT !.map = Merged(t, map)]
        BY <2>1
    <2>3. info'[t].map = Merged(t, map)
        BY <2>2 DEF IsInfo
    <2>4. stages' = [stages EXCEPT ![t] = Append(@, map)] /\ map \in ILMaps
        BY <2>1, MapsAssumption DEF SaveMap
    <2>5. pc'[t] # "before"
        BY <1>22 DEF SetILInstrumentedCodeMap
    <2> QED BY <2>3, <2>4, <2>5 DEF MergesMap
<1>23. CASE ReJITCompilationFinished(t)
    BY <1>23, <1>a DEF ReJITCompilationFinished, EndCompilation, Goto, passVars
<1>24. ASSUME NEW k \in Tokens, ModuleAttachedToAssembly(t, k) PROVE KeepsMap(t)
    BY <1>24, <1>a DEF ModuleAttachedToAssembly, passVars
<1> QED BY <1>1, <1>2, <1>3, <1>4, <1>5, <1>6, <1>7, <1>8, <1>9, <1>10, <1>11,
          <1>12, <1>13, <1>14, <1>15, <1>16, <1>17, <1>18, <1>19, <1>20, <1>21, <1>22,
          <1>23, <1>24 DEF Continue, Choose

\* Without stages there is nothing to compose.
LEMMA NothingComposes == <<>> \in ILMaps /\ <<>> \in Seq(ILMaps) /\ Composes(<<>>, <<>>)
<1>1. <<>> \in ILMaps /\ <<>> \in Seq(ILMaps) /\ Len(<<>>) = 0
  BY DEF ILMaps
<1>2. Chains(<<>>)[0] = {}
  BY <1>1, ChainFacts
<1>3. MapPairs(<<>>) = {}
  BY DEF MapPairs
<1> QED BY <1>1, <1>2, <1>3 DEF Composes

\* Each step keeps the map of every pass.
LEMMA MapInvStep ==
    ASSUME IInv, MapInv, NEW t \in Threads, Continue(t) \/ Choose(t)
    PROVE  MapInv'
<1>0. stages = [u \in Threads |-> stages[u]] /\ MapFits(t)
  BY DEF MapInv
<1>1. \A u \in Threads \ {t} : info'[u] = info[u] /\ pc'[u] = pc[u]
  BY StepApart DEF IInv, Apart
<1>2. KeepsMap(t) \/ MergesMap(t) \/ EndsMap(t)
  BY MapSteps
<1>3. stages' = [u \in Threads |-> stages'[u]] /\ \A u \in Threads \ {t} : stages'[u] = stages[u]
  BY <1>0, <1>2 DEF KeepsMap, MergesMap, EndsMap
<1>4. \A u \in Threads \ {t} : MapFits(u)'
  BY <1>1, <1>3 DEF MapInv, MapFits
<1>5. MapFits(t)'
  <2>1. CASE KeepsMap(t)
    BY <1>0, <2>1 DEF KeepsMap, MapFits
  <2>2. CASE MergesMap(t)
    <3>1. PICK map \in ILMaps :
              /\ stages' = [stages EXCEPT ![t] = Append(@, map)]
              /\ info'[t].map = Merged(t, map)
              /\ pc'[t] # "before"
      BY <2>2 DEF MergesMap
    <3>2. stages'[t] = Append(stages[t], map)
      BY <1>0, <3>1
    <3>3. stages[t] \in Seq(ILMaps) /\ info[t].map \in ILMaps /\ Composes(info[t].map, stages[t])
          /\ (stages[t] = <<>> => info[t].map = <<>>)
      BY <1>0 DEF MapFits
    <3>4. info'[t].map \in ILMaps /\ Composes(info'[t].map, stages'[t])
      <4> DEFINE old == info[t].map
                 s == stages[t]
      <4>1. old \in ILMaps /\ s \in Seq(ILMaps) /\ Composes(old, s) /\ (s = <<>> => old = <<>>)
        BY <3>3
      <4>2. info'[t].map = MergeILInstrumentedCodeMap(old, map) /\ stages'[t] = Append(s, map)
        BY <3>1, <3>2 DEF Merged
      <4> HIDE DEF old, s
      <4>3. /\ MergeILInstrumentedCodeMap(old, map) \in ILMaps
            /\ Composes(MergeILInstrumentedCodeMap(old, map), Append(s, map))
        BY <4>1, MergeComposes
      <4> QED BY <4>2, <4>3
    <3>5. stages'[t] \in Seq(ILMaps) /\ stages'[t] # <<>>
      BY <3>2, <3>3
    <3> QED BY <3>1, <3>4, <3>5 DEF MapFits
  <2>3. CASE EndsMap(t)
    <3>1. stages'[t] = <<>> /\ info'[t].map = <<>>
      BY <1>0, <2>3 DEF EndsMap
    <3> QED BY <3>1, NothingComposes DEF MapFits
  <2> QED BY <1>2, <2>1, <2>2, <2>3
<1> QED BY <1>3, <1>4, <1>5 DEF MapInv

----------------------------------------------------------------------------
(* What holds of every execution. *)

\* No CMethodInfo leaks, on any way out of a callback: every object in a map of the manager or of a module is one of
\* the thread that is inside m_csForJIT.
THEOREM NoInfoLeaks == Spec => []InfosTracked
<1>1. IInv => InfosTracked
    BY MapsTracked DEF IInv
<1> QED BY <1>1, InvHolds, PTL

\* The cache of GetMethodIl holds what a method was before the engine first read it and never the engine's own results,
\* whatever the engine and the raw profiler give the CLR before and after, and is filled before the engine gives any.
THEOREM CacheKeepsOriginal == Spec => []OriginalKept
<1>1. IInv => OriginalKept
    BY DEF IInv
<1> QED BY <1>1, InvHolds, PTL

\* The IL the CLR has for a method, compiled or rejitted any number of times, is the result of a single pass over what it
\* was before the engine first read it.
THEOREM IlOfOnePass == Spec => []OnePass
<1>1. IInv => OnePass
    BY DEF IInv
<1> QED BY <1>1, InvHolds, PTL

\* The rejit counts the CLR is given for a method grow.
THEOREM RejitCountsGrow == Spec => []MarkersGrow
<1>1. IInv => MarkersGrow
    BY DEF IInv
<1> QED BY <1>1, InvHolds, PTL

\* A pass gives the CLR the edits of all the methods that asked or leaves the method's IL alone.
THEOREM PassIsAllOrNothing == Spec => AllOrNothing
<1>1. IInv /\ [Next]_vars => [GivesAll]_vars
    <2> SUFFICES ASSUME IInv, NEW t \in Threads, Continue(t) \/ Choose(t) PROVE GivesAll
        BY DEF Next
    <2> QED BY GivesAllStep DEF IInv
<1> QED BY <1>1, InvHolds, PTL DEF Spec, AllOrNothing

\* The map that the CLR is given with the IL of a pass leads from the original to the final IL through all the maps that
\* were merged into it, and misses no offset they connect.
THEOREM MapsCompose == Spec => []MapComposes
<1>1. Init => MapInv
  BY NothingComposes DEF Init, MapInv, MapFits, NewInfo
<1>2. IInv /\ MapInv /\ [Next]_vars => MapInv'
  <2> SUFFICES ASSUME IInv, MapInv, [Next]_vars PROVE MapInv'
    OBVIOUS
  <2>1. CASE UNCHANGED vars
    BY <2>1 DEF vars, passVars, MapInv, MapFits
  <2>2. ASSUME NEW t \in Threads, Continue(t) \/ Choose(t) PROVE MapInv'
    BY <2>2, MapInvStep
  <2> QED BY <2>1, <2>2 DEF Next
<1>3. MapInv => MapComposes
  BY DEF MapInv, MapFits, Composes, MapComposes
<1> QED BY <1>1, <1>2, <1>3, InvHolds, PTL DEF Spec
=============================================================================
