----------------------- MODULE MethodInstrumentation -----------------------
(* How a method's IL is rewritten while the CLR compiles it: the callbacks    *)
(* JITCompilationStarted, JITInlining, GetReJITParameters and the two          *)
(* Finished callbacks of CProfilerManager, the CMethodInfo they create, what   *)
(* CModuleInfo remembers of each method, and the wrapped profiler info through *)
(* which the raw profiler reads and writes method bodies.                      *)
(*                                                                            *)
(* The IL of a method is abstracted to the sequence of edits made to it: <<>>  *)
(* is the original. An IL map is a sequence of pairs <<old offset, new offset>>.*)
(* m_csForJIT covers a whole instrumentation pass; the steps of a pass are     *)
(* separate because the Finished callbacks, RequestRejit and a raw profiler    *)
(* that reads IL do not take it.                                               *)
EXTENDS Integers, Sequences, FiniteSets

CONSTANTS
    Threads, NoThread,      \* CLR threads that run callbacks
    Functions, NoFunction,  \* FunctionID; NoFunction is the id 0 of a rejit
    Tokens,                 \* methods of modules; the instances of a generic method share one
    TokenOf,
    Dynamic,                \* methods of modules without an image
    Methods,                \* the instrumentation methods, by priority
    Baseline, Raw,          \* the edits that are not by an instrumentation method
    NoBody,
    EncodeMaps,             \* maps EncodeIL may produce
    BaselineMaps,           \* identity maps over the sequence points of a baseline
    RawMaps,                \* maps the raw profiler may set
    UserBufferEnabled,      \* InstrumentationEngineFeatures
    MaxWork,                \* bound on the compilations, inlinings and rejit requests
    MaxRawMaps,             \* bound on the maps the raw profiler sets in a pass
    MaxRawBodies            \* bound on the bodies it gives each method before the engine has read it

ASSUME FunctionsAssumption ==
    /\ NoFunction \notin Functions
    /\ Tokens # {} /\ TokenOf \in [Functions -> Tokens]
    /\ Dynamic \subseteq Tokens
ASSUME ThreadsAssumption == NoThread \notin Threads

ImSet == {Methods[i] : i \in 1 .. Len(Methods)}
Bodies == Seq(ImSet \cup {Baseline, Raw})
ILMaps == Seq(Nat \X Nat)

ASSUME MethodsAssumption ==
    /\ Methods \in Seq(ImSet)
    /\ \A i, j \in 1 .. Len(Methods) : Methods[i] = Methods[j] => i = j
    /\ Raw \notin ImSet /\ Baseline \notin ImSet /\ Raw # Baseline
    /\ NoBody \notin Bodies
ASSUME MapsAssumption ==
    /\ EncodeMaps \subseteq ILMaps /\ BaselineMaps \subseteq ILMaps /\ RawMaps \subseteq ILMaps
    /\ UserBufferEnabled \in BOOLEAN
ASSUME BoundsAssumption == MaxWork \in Nat /\ MaxRawMaps \in Nat /\ MaxRawBodies \in [Tokens -> Nat]

VARIABLES
    clr,            \* the IL and map the CLR has for a method, from SetILFunctionBody
    rejitIl,        \* the IL and map of its latest rejit, from the function control
    rejitState,     \* "none", "requested", "configured": the CLR's state of the rejit
    markers,        \* the rejit counts in the maps the CLR was given through the function control
    known,          \* methods of modules that have their CModuleInfo
    origin,         \* history: the IL of a method from outside the engine, before its first read through the engine
    csForJIT,       \* the holder of m_csForJIT
    pc,             \* where each thread is in its callback
    job,            \* the function, token and kind of compilation of each thread
    asked,          \* toInstrument
    done,           \* how many of them have instrumented
    info,           \* the CMethodInfo of the pass
    read,           \* the IL the raw profiler got from GetILFunctionBody
    compiled,       \* the code the CLR took for the compilation of each thread
    inlinee,        \* the function to inline
    methodInfos,    \* CModuleInfo::m_methodInfos
    infosByToken,   \* CModuleInfo::m_methodInfosByToken
    managerInfos,   \* CProfilerManager::m_methodInfos
    cachedIl,       \* m_methodTokenToCachedILMap
    transformed,    \* m_instrumentedMethods
    ilMaps,         \* m_ilMaps; the empty map where there is no entry
    rejitCount,     \* m_methodTokenToRejitCountMap
    sites,          \* m_inlineSiteMap: pairs <<inlinee, inline site>>
    stages,         \* history: the maps merged in a pass
    work            \* counts towards MaxWork

clrVars == <<clr, rejitIl, rejitState, markers>>
loadVars == <<known, origin>>
passVars == <<asked, done, info, read, stages>>
infoVars == <<methodInfos, infosByToken, managerInfos>>
moduleVars == <<cachedIl, transformed, ilMaps, rejitCount, sites>>
vars == <<clrVars, loadVars, csForJIT, pc, job, passVars, compiled, inlinee, infoVars, moduleVars, work>>

\* What the CLR compiles: IL and the map that goes with it.
Code(il, map) == [il |-> il, map |-> map]
OriginalCode == Code(<<>>, <<>>)
NoCode == Code(NoBody, <<>>)

\* A thread outside callbacks works on no method in particular.
NoJob == [fn |-> NoFunction, tok |-> CHOOSE k \in Tokens : TRUE, rejit |-> FALSE]

\* A CMethodInfo on construction.
NewInfo == [graph |-> NoBody, instrumented |-> FALSE, intermediate |-> NoBody,
            final |-> NoBody, user |-> NoBody, map |-> <<>>]

\* An object in the maps: who created it, and for which function.
NoInfo == <<NoThread, NoFunction>>

Init ==
    /\ clr = [k \in Tokens |-> OriginalCode]
    /\ rejitIl = [k \in Tokens |-> NoCode]
    /\ rejitState = [k \in Tokens |-> "none"]
    /\ markers = [k \in Tokens |-> <<>>]
    /\ known = {}
    /\ origin = [k \in Tokens |-> <<>>]
    /\ csForJIT = NoThread
    /\ pc = [t \in Threads |-> "idle"]
    /\ job = [t \in Threads |-> NoJob]
    /\ asked = [t \in Threads |-> <<>>]
    /\ done = [t \in Threads |-> 0]
    /\ info = [t \in Threads |-> NewInfo]
    /\ read = [t \in Threads |-> NoBody]
    /\ stages = [t \in Threads |-> <<>>]
    /\ compiled = [t \in Threads |-> OriginalCode]
    /\ inlinee = [t \in Threads |-> NoFunction]
    /\ methodInfos = [f \in Functions |-> NoInfo]
    /\ infosByToken = [k \in Tokens |-> NoInfo]
    /\ managerInfos = [f \in Functions |-> NoInfo]
    /\ cachedIl = [k \in Tokens |-> NoBody]
    /\ transformed = {}
    /\ ilMaps = [x \in Tokens \X (Functions \cup {NoFunction}) |-> <<>>]
    /\ rejitCount = [k \in Tokens |-> 0]
    /\ sites = {}
    /\ work = 0

----------------------------------------------------------------------------
(* Helpers. *)

Tok(t) == job[t].tok
Goto(t, l) == pc' = [pc EXCEPT ![t] = l]

\* Mutant of GetMethodIl: the CLR is always asked.
GetMethodIlUncached(k) == clr[k].il

\* GetMethodIl: the first read of a method's IL is cached, later ones get the cache.
GetMethodIl(k) == IF cachedIl[k] = NoBody THEN clr[k].il ELSE cachedIl[k]

\* Mutant of CacheIl: the cache is refreshed on every read.
CacheIlAgain(k) == cachedIl' = [cachedIl EXCEPT ![k] = clr[k].il]

\* A read of a method's IL leaves it in the cache.
CacheIl(k) == cachedIl' = [cachedIl EXCEPT ![k] = GetMethodIl(k)]

\* The last entry of a map that leads to a new offset.
EntryAt(map, offset) ==
    LET hits == {i \in 1 .. Len(map) : map[i][2] = offset}
    IN  CHOOSE i \in hits : \A j \in hits : j <= i

\* Mutant of MergeILInstrumentedCodeMap: the old offsets are not translated.
MergeKeepsOffsets(old, new) ==
    IF old = <<>> THEN new
    ELSE LET updated[k \in 0 .. Len(new)] ==
                IF k = 0 THEN <<>>
                ELSE IF \E i \in 1 .. Len(old) : old[i][2] = new[k][1]
                THEN Append(updated[k - 1], new[k]) ELSE updated[k - 1]
         IN  updated[Len(new)]

\* MergeILInstrumentedCodeMap: a map over IL that has a map already is composed with it, entry by entry; an empty map counts as none.
MergeILInstrumentedCodeMap(old, new) ==
    IF old = <<>> THEN new
    ELSE LET updated[k \in 0 .. Len(new)] ==
                IF k = 0 THEN <<>>
                ELSE IF \E i \in 1 .. Len(old) : old[i][2] = new[k][1]
                THEN Append(updated[k - 1], <<old[EntryAt(old, new[k][1])][1], new[k][2]>>) ELSE updated[k - 1]
         IN  updated[Len(new)]

\* The key of a method's map in CModuleInfo: rejits have no function id.
MapKey(t) == <<Tok(t), IF job[t].rejit THEN NoFunction ELSE job[t].fn>>

\* A merge into the CMethodInfo also replaces the map the module keeps.
Merged(t, map) == MergeILInstrumentedCodeMap(info[t].map, map)
SaveMap(t, map) ==
    /\ ilMaps' = [ilMaps EXCEPT ![MapKey(t)] = Merged(t, map)]
    /\ stages' = [stages EXCEPT ![t] = Append(@, map)]

\* GetFinalInstrumentation: the raw profiler's body before the intermediate one.
GetFinalInstrumentation(i) ==
    IF i.final # NoBody THEN i.final
    ELSE IF i.user # NoBody THEN i.user ELSE i.intermediate

\* The CMethodInfo and the local variables of a pass die with it.
EndPass(t) ==
    /\ csForJIT' = NoThread
    /\ asked' = [asked EXCEPT ![t] = <<>>]
    /\ done' = [done EXCEPT ![t] = 0]
    /\ info' = [info EXCEPT ![t] = NewInfo]
    /\ read' = [read EXCEPT ![t] = NoBody]
    /\ stages' = [stages EXCEPT ![t] = <<>>]

\* m_csForJIT is free.
CanEnter == csForJIT = NoThread
StartPass(t, next) == csForJIT' = t /\ Goto(t, next)

\* CreateMethodInfo adds the object to the maps of the manager (where insert keeps an existing entry) and the module.
AddInfos(t, fs) ==
    /\ managerInfos' = [f \in Functions |->
            IF f \in fs /\ managerInfos[f] = NoInfo THEN <<t, f>> ELSE managerInfos[f]]
    /\ methodInfos' = [f \in Functions |-> IF f \in fs THEN <<t, f>> ELSE methodInfos[f]]

\* Mutant of ReleaseInfos: RemoveMethodInfoFromMap is forgotten.
ReleaseModuleInfos(fs) ==
    /\ methodInfos' = [f \in Functions |-> IF f \in fs THEN NoInfo ELSE methodInfos[f]]
    /\ infosByToken' = [k \in Tokens |-> IF \E f \in fs : TokenOf[f] = k THEN NoInfo ELSE infosByToken[k]]
    /\ UNCHANGED managerInfos

\* CMethodInfo::Cleanup: the objects leave both maps of the module and the manager's.
ReleaseInfos(fs) ==
    /\ methodInfos' = [f \in Functions |-> IF f \in fs THEN NoInfo ELSE methodInfos[f]]
    /\ infosByToken' = [k \in Tokens |-> IF \E f \in fs : TokenOf[f] = k THEN NoInfo ELSE infosByToken[k]]
    /\ managerInfos' = [f \in Functions |-> IF f \in fs THEN NoInfo ELSE managerInfos[f]]

\* Mutant of IncrementMethodRejitCount: a count that exists is set again.
CountRejitOnce(k) == rejitCount' = [rejitCount EXCEPT ![k] = 1]

\* IncrementMethodRejitCount.
IncrementMethodRejitCount(k) == rejitCount' = [rejitCount EXCEPT ![k] = @ + 1]

----------------------------------------------------------------------------
(* Loading of a module, compilation of a function. *)

\* ModuleAttachedToAssembly constructs the CModuleInfo; methods of one module are not told apart from those of others.
ModuleAttachedToAssembly(t, k) ==
    /\ pc[t] = "idle" /\ k \notin known
    /\ known' = known \cup {k}
    /\ UNCHANGED <<origin, clrVars, csForJIT, pc, job, passVars, compiled, inlinee, infoVars, moduleVars, work>>

\* JITCompilationStarted before the lock: the JitStarted event. The last method's error ends the callback.
JITCompilationStarted(t, f) ==
    /\ pc[t] = "idle" /\ work < MaxWork
    /\ work' = work + 1
    /\ job' = [job EXCEPT ![t] = [fn |-> f, tok |-> TokenOf[f], rejit |-> FALSE]]
    /\ \E l \in {"started", "compile"} : Goto(t, l)
    /\ UNCHANGED <<loadVars, clrVars, csForJIT, passVars, compiled, inlinee, infoVars, moduleVars>>

\* Under m_csForJIT: CreateMethodInfo and ClearILTransformationStatus. Without a module both fail and nothing else happens; without an image only the cleanup does.
CreateMethodInfo(t) ==
    /\ pc[t] = "started" /\ CanEnter
    /\ IF Tok(t) \notin known
       THEN /\ Goto(t, "compile")
            /\ UNCHANGED <<csForJIT, infoVars, transformed>>
       ELSE /\ StartPass(t, IF Tok(t) \in Dynamic THEN "cleanup" ELSE "should")
            /\ AddInfos(t, {job[t].fn})
            /\ infosByToken' = [infosByToken EXCEPT ![Tok(t)] = <<t, job[t].fn>>]
            /\ transformed' = transformed \ {Tok(t)}
    /\ UNCHANGED <<loadVars, clrVars, job, passVars, compiled, inlinee, cachedIl, ilMaps, rejitCount, sites, work>>

\* GetReJITParameters: CreateMethodInfoForRejit counts the rejit and puts a new object under the token only.
CreateMethodInfoForRejit(t, k) ==
    /\ pc[t] = "idle" /\ CanEnter /\ rejitState[k] = "requested"
    /\ rejitState' = [rejitState EXCEPT ![k] = "none"]
    /\ rejitIl' = [rejitIl EXCEPT ![k] = NoCode]
    /\ IF k \notin known
       THEN UNCHANGED <<csForJIT, pc, job, rejitCount, infosByToken, transformed>>
       ELSE /\ job' = [job EXCEPT ![t] = [fn |-> NoFunction, tok |-> k, rejit |-> TRUE]]
            /\ StartPass(t, IF k \in Dynamic THEN "cleanup" ELSE "should")
            /\ IncrementMethodRejitCount(k)
            /\ infosByToken' = [infosByToken EXCEPT ![k] = <<t, NoFunction>>]
            /\ transformed' = transformed \ {k}
    /\ UNCHANGED <<loadVars, clr, markers, passVars, compiled, inlinee, methodInfos, managerInfos, cachedIl, ilMaps, sites, work>>

\* What toInstrument may be: the methods at some positions, in order of priority.
Positions == {p \in UNION {[1 .. n -> 1 .. Len(Methods)] : n \in 0 .. Len(Methods)} :
                \A i, j \in DOMAIN p : i < j => p[i] < p[j]}
Asks == {[i \in 1 .. Len(p) |-> Methods[p[i]]] : p \in Positions}

\* ShouldInstrumentMethod on each method; errors are ignored.
ShouldInstrument(t) ==
    /\ pc[t] = "should"
    /\ \E a \in Asks : asked' = [asked EXCEPT ![t] = a]
    /\ Goto(t, "before")
    /\ UNCHANGED <<loadVars, clrVars, csForJIT, job, done, info, read, stages, compiled, inlinee, infoVars, moduleVars, work>>

\* BeforeInstrumentMethod on each method that asked: one of them may replace the graph by a baseline, whose sequence points become the first map. An error ends the pass.
BeforeInstrument(t) ==
    /\ pc[t] = "before"
    /\ \/ /\ Goto(t, IF asked[t] = <<>> THEN "raw" ELSE "instrument")
          /\ UNCHANGED <<info, cachedIl, ilMaps, stages>>
       \/ /\ asked[t] # <<>>
          /\ \E l \in {"instrument", "cleanup"} : Goto(t, l)
          /\ CacheIl(Tok(t))
          /\ \E map \in BaselineMaps :
                /\ info' = [info EXCEPT ![t].graph = <<Baseline>>, ![t].map = Merged(t, map)]
                /\ IF map = <<>> THEN UNCHANGED <<ilMaps, stages>> ELSE SaveMap(t, map)
       \/ /\ asked[t] # <<>>
          /\ Goto(t, "cleanup")
          /\ UNCHANGED <<info, cachedIl, ilMaps, stages>>
    /\ UNCHANGED <<loadVars, clrVars, csForJIT, job, asked, done, read, compiled, inlinee, infoVars, transformed, rejitCount, sites, work>>

\* Mutant of InstrumentFails: the error of a method does not end the pass.
InstrumentGoesOn(t) ==
    /\ done[t] + 1 < Len(asked[t])
    /\ done' = [done EXCEPT ![t] = @ + 1]
    /\ UNCHANGED <<info, cachedIl, pc>>

\* If any instrumentation method fails, the pass ends and the unchanged IL is used.
InstrumentFails(t) == Goto(t, "cleanup") /\ UNCHANGED <<info, cachedIl, done>>

\* InstrumentMethod on the next method. The graph is decoded from the original IL when it is first used.
InstrumentMethod(t) ==
    /\ pc[t] = "instrument"
    /\ \/ LET graph == IF info[t].graph = NoBody THEN GetMethodIl(Tok(t)) ELSE info[t].graph
          IN  /\ info' = [info EXCEPT ![t].graph = Append(graph, asked[t][done[t] + 1])]
              /\ CacheIl(Tok(t))
              /\ done' = [done EXCEPT ![t] = @ + 1]
              /\ Goto(t, IF done[t] + 1 = Len(asked[t]) THEN "intermediate" ELSE "instrument")
       \/ InstrumentFails(t)
    /\ UNCHANGED <<loadVars, clrVars, csForJIT, job, asked, read, stages, compiled, inlinee, infoVars, transformed, ilMaps, rejitCount, sites, work>>

\* ApplyIntermediateMethodInstrumentation: encode the graph, merge the map, render the body. Errors before or after the merge end the pass.
ApplyIntermediateMethodInstrumentation(t) ==
    /\ pc[t] = "intermediate"
    /\ \/ \E map \in EncodeMaps, ok \in BOOLEAN :
            /\ SaveMap(t, map)
            /\ Goto(t, IF ok THEN "raw" ELSE "cleanup")
            /\ info' = [info EXCEPT ![t].map = Merged(t, map), ![t].instrumented = ok,
                                    ![t].intermediate = IF ok THEN info[t].graph ELSE info[t].intermediate]
       \/ /\ Goto(t, "cleanup")
          /\ UNCHANGED <<info, ilMaps, stages>>
    /\ UNCHANGED <<loadVars, clrVars, csForJIT, job, asked, done, read, compiled, inlinee, infoVars, cachedIl, transformed, rejitCount, sites, work>>

----------------------------------------------------------------------------
(* The raw profiler: what it may do in its JITCompilationStarted or           *)
(* GetReJITParameters. It edits what it has read.                              *)

\* CCorProfilerInfoWrapper::GetILFunctionBody, also from threads that are in no callback: the intermediate body of a pass in progress, the original otherwise.
\* For a module without a CModuleInfo the CLR is asked, and nothing is cached.
GetILFunctionBody(t, k) ==
    /\ pc[t] \in {"raw", "idle"}
    /\ LET i == info[infosByToken[k][1]]
           busy == infosByToken[k] # NoInfo /\ i.instrumented
           il == IF busy THEN i.intermediate ELSE GetMethodIl(k)
       IN  IF k \in known
           THEN /\ IF busy THEN UNCHANGED cachedIl ELSE CacheIl(k)
                /\ IF pc[t] = "raw" /\ k = Tok(t) /\ il # NoBody
                   THEN read' = [read EXCEPT ![t] = il] ELSE UNCHANGED read
           ELSE UNCHANGED <<cachedIl, read>>
    /\ UNCHANGED <<loadVars, clrVars, csForJIT, pc, job, asked, done, info, stages, compiled, inlinee, infoVars, transformed, ilMaps, rejitCount, sites, work>>

\* SetILFunctionBody of the profiler info or function control wrapper. A second body in a buffer of the allocator is refused; one in a buffer of the raw profiler's own replaces another such.
SetILFunctionBody(t) ==
    /\ pc[t] = "raw" /\ read[t] # NoBody
    /\ LET il == Append(read[t], Raw)
       IN  \/ /\ info[t].final = NoBody
              /\ info' = [info EXCEPT ![t].instrumented = TRUE, ![t].final = il]
           \/ /\ UserBufferEnabled /\ ~job[t].rejit
              /\ info' = [info EXCEPT ![t].instrumented = TRUE, ![t].user = il]
    /\ transformed' = transformed \cup {Tok(t)}
    /\ UNCHANGED <<loadVars, clrVars, csForJIT, pc, job, asked, done, read, stages, compiled, inlinee, infoVars, cachedIl, ilMaps, rejitCount, sites, work>>

\* SetILFunctionBody for a method that is not being compiled, or of a module without a CModuleInfo, goes to the CLR directly: during a compilation, or in
\* the ModuleLoadFinished of a module that is not known yet.
SetOtherFunctionBody(t, k) ==
    /\ pc[t] = "raw" \/ (pc[t] = "idle" /\ k \notin known)
    /\ UserBufferEnabled /\ infosByToken[k] = NoInfo
    /\ cachedIl[k] = NoBody => Len(origin[k]) < MaxRawBodies[k]
    /\ LET il == Append(GetMethodIl(k), Raw)
       IN  /\ clr' = [clr EXCEPT ![k] = Code(il, clr[k].map)]
           /\ origin' = IF cachedIl[k] = NoBody THEN [origin EXCEPT ![k] = il] ELSE origin
    /\ UNCHANGED <<known, rejitIl, rejitState, markers, csForJIT, pc, job, passVars, compiled, inlinee, infoVars, moduleVars, work>>

\* SetILInstrumentedCodeMap of the wrappers: the method info is found by function id in a JIT and held by the function control in a rejit.
SetILInstrumentedCodeMap(t) ==
    /\ pc[t] = "raw" /\ Cardinality({i \in 1 .. Len(stages[t]) : stages[t][i] \in RawMaps}) < MaxRawMaps
    /\ ~job[t].rejit => managerInfos[job[t].fn] = <<t, job[t].fn>>
    /\ \E map \in RawMaps :
        /\ SaveMap(t, map)
        /\ info' = [info EXCEPT ![t].map = Merged(t, map)]
    /\ UNCHANGED <<loadVars, clrVars, csForJIT, pc, job, asked, done, read, compiled, inlinee, infoVars, cachedIl, transformed, rejitCount, sites, work>>

\* The raw callback returns; its result is not looked at.
RawReturns(t) ==
    /\ pc[t] = "raw"
    /\ Goto(t, IF info[t].instrumented THEN "final" ELSE "cleanup")
    /\ UNCHANGED <<loadVars, clrVars, csForJIT, job, passVars, compiled, inlinee, infoVars, moduleVars, work>>

----------------------------------------------------------------------------
(* The end of a pass. *)

\* ApplyFinalInstrumentation in a JIT: the body for the CLR, then the map unless it is empty. The CLR may refuse either.
ApplyFinalInstrumentation(t) ==
    /\ pc[t] = "final" /\ ~job[t].rejit
    /\ \/ /\ \E map \in {clr[Tok(t)].map} \cup ({info[t].map} \ {<<>>}) :
                clr' = [clr EXCEPT ![Tok(t)] = Code(GetFinalInstrumentation(info[t]), map)]
          /\ transformed' = transformed \cup {Tok(t)}
       \/ UNCHANGED <<clr, transformed>>
    /\ Goto(t, "cleanup")
    /\ UNCHANGED <<loadVars, rejitIl, rejitState, markers, csForJIT, job, passVars, compiled, inlinee, infoVars, cachedIl, ilMaps, rejitCount, sites, work>>

\* ApplyFinalInstrumentation in a rejit: the body, the flags, and the map with the rejit count appended. The CLR may refuse the body, or the flags and with them the map.
ApplyFinalRejit(t) ==
    /\ pc[t] = "final" /\ job[t].rejit
    /\ LET il == GetFinalInstrumentation(info[t])
       IN  \/ /\ \/ /\ rejitIl' = [rejitIl EXCEPT ![Tok(t)] = Code(il, info[t].map)]
                    /\ markers' = [markers EXCEPT ![Tok(t)] = Append(@, rejitCount[Tok(t)])]
                 \/ /\ rejitIl' = [rejitIl EXCEPT ![Tok(t)] = Code(il, <<>>)]
                    /\ UNCHANGED markers
              /\ transformed' = transformed \cup {Tok(t)}
           \/ UNCHANGED <<rejitIl, markers, transformed>>
    /\ Goto(t, "cleanup")
    /\ UNCHANGED <<loadVars, clr, rejitState, csForJIT, job, passVars, compiled, inlinee, infoVars, cachedIl, ilMaps, rejitCount, sites, work>>

\* CCleanupMethodInfo, whatever the outcome of the pass: the object leaves all maps and the lock is released.
Cleanup(t) ==
    /\ pc[t] = "cleanup" /\ ~job[t].rejit
    /\ ReleaseInfos({job[t].fn})
    /\ EndPass(t)
    /\ Goto(t, "compile")
    /\ UNCHANGED <<loadVars, clrVars, job, compiled, inlinee, moduleVars, work>>

\* CRemoveMethodInfoAfterRejit: only the token's entry is erased.
RemoveMethodInfoAfterRejit(t) ==
    /\ pc[t] = "cleanup" /\ job[t].rejit
    /\ infosByToken' = [infosByToken EXCEPT ![Tok(t)] = NoInfo]
    /\ EndPass(t)
    /\ Goto(t, "idle")
    /\ job' = [job EXCEPT ![t] = NoJob]
    /\ rejitState' = [rejitState EXCEPT ![Tok(t)] = IF @ = "none" THEN "configured" ELSE @]
    /\ UNCHANGED <<loadVars, clr, rejitIl, markers, compiled, inlinee, methodInfos, managerInfos, moduleVars, work>>

----------------------------------------------------------------------------
(* While the CLR compiles. *)

\* The CLR starts to compile a function of a method whose rejit has its parameters.
ReJITCompilationStarted(t, f) ==
    /\ pc[t] = "idle" /\ work < MaxWork /\ rejitState[TokenOf[f]] = "configured"
    /\ work' = work + 1
    /\ job' = [job EXCEPT ![t] = [fn |-> f, tok |-> TokenOf[f], rejit |-> TRUE]]
    /\ Goto(t, "compile")
    /\ UNCHANGED <<loadVars, clrVars, csForJIT, passVars, compiled, inlinee, infoVars, moduleVars>>

\* The CLR takes the IL of the method, or of its rejit if that was given any.
TakeIl(t) ==
    /\ pc[t] = "compile"
    /\ compiled' = [compiled EXCEPT ![t] =
            IF job[t].rejit /\ rejitIl[Tok(t)] # NoCode THEN rejitIl[Tok(t)] ELSE clr[Tok(t)]]
    /\ Goto(t, "compiling")
    /\ UNCHANGED <<loadVars, clrVars, csForJIT, job, passVars, inlinee, infoVars, moduleVars, work>>

\* JITInlining of g into the function being compiled: method infos for both, one if they are the same. Without a module info for one of them inlining is allowed and nothing recorded.
JITInlining(t, g) ==
    /\ pc[t] = "compiling" /\ CanEnter /\ work < MaxWork
    /\ work' = work + 1
    /\ IF ~({TokenOf[g], Tok(t)} \subseteq known)
       THEN UNCHANGED <<csForJIT, pc, inlinee, infoVars>>
       ELSE /\ StartPass(t, "inlining")
            /\ inlinee' = [inlinee EXCEPT ![t] = g]
            /\ AddInfos(t, {g, job[t].fn})
            /\ infosByToken' = [infosByToken EXCEPT ![TokenOf[g]] = <<t, g>>, ![Tok(t)] = <<t, job[t].fn>>]
    /\ UNCHANGED <<loadVars, clrVars, job, passVars, compiled, moduleVars>>

\* The methods and the raw profiler have allowed the inlining or not. The inline site is recorded, the method infos are cleaned up.
JITInliningDecided(t) ==
    /\ pc[t] = "inlining"
    /\ \E allow \in BOOLEAN :
            sites' = IF allow THEN sites \cup {<<TokenOf[inlinee[t]], Tok(t)>>} ELSE sites
    /\ ReleaseInfos({inlinee[t], job[t].fn})
    /\ csForJIT' = NoThread
    /\ Goto(t, "compiling")
    /\ inlinee' = [inlinee EXCEPT ![t] = NoFunction]
    /\ UNCHANGED <<loadVars, clrVars, job, passVars, compiled, cachedIl, transformed, ilMaps, rejitCount, work>>

\* The CLR is done with the function.
EndCompilation(t) ==
    /\ Goto(t, "idle")
    /\ job' = [job EXCEPT ![t] = NoJob]
    /\ compiled' = [compiled EXCEPT ![t] = OriginalCode]
    /\ UNCHANGED <<loadVars, rejitIl, rejitState, markers, csForJIT, passVars, inlinee, infoVars, moduleVars, work>>

\* JITCompilationFinished sends the JitComplete event, which changes nothing of the engine.
JITCompilationFinished(t) ==
    /\ pc[t] = "compiling" /\ ~job[t].rejit
    /\ EndCompilation(t)
    /\ UNCHANGED clr

\* ReJITCompilationFinished first gives the CLR the map of the method's latest rejit again, under the function id. The CLR may refuse it.
ReJITCompilationFinished(t) ==
    /\ pc[t] = "compiling" /\ job[t].rejit
    /\ EndCompilation(t)
    /\ \/ /\ Tok(t) \in known
          /\ clr' = [clr EXCEPT ![Tok(t)] = Code(@.il, ilMaps[<<Tok(t), NoFunction>>])]
       \/ UNCHANGED clr

\* CModuleInfo::RequestRejit by an instrumentation method: the method and the sites it was inlined at.
RequestRejit(t, k) ==
    /\ pc[t] = "idle" /\ work < MaxWork /\ k \in known
    /\ work' = work + 1
    /\ rejitState' = [x \in Tokens |-> IF x = k \/ <<k, x>> \in sites THEN "requested" ELSE rejitState[x]]
    /\ UNCHANGED <<loadVars, clr, rejitIl, markers, csForJIT, pc, job, passVars, compiled, inlinee, infoVars, moduleVars>>

----------------------------------------------------------------------------

\* The steps of a pass or of a callback that has begun.
Continue(t) ==
    \/ CreateMethodInfo(t)
    \/ ShouldInstrument(t)
    \/ BeforeInstrument(t)
    \/ InstrumentMethod(t)
    \/ ApplyIntermediateMethodInstrumentation(t)
    \/ RawReturns(t)
    \/ ApplyFinalInstrumentation(t)
    \/ ApplyFinalRejit(t)
    \/ Cleanup(t)
    \/ RemoveMethodInfoAfterRejit(t)
    \/ TakeIl(t)
    \/ JITInliningDecided(t)
    \/ JITCompilationFinished(t)
    \/ ReJITCompilationFinished(t)

\* What the CLR, the methods and the raw profiler may choose to do.
Choose(t) ==
    \/ \E f \in Functions :
            JITCompilationStarted(t, f) \/ ReJITCompilationStarted(t, f) \/ JITInlining(t, f)
    \/ \E k \in Tokens :
            \/ CreateMethodInfoForRejit(t, k) \/ RequestRejit(t, k)
            \/ ModuleAttachedToAssembly(t, k) \/ GetILFunctionBody(t, k) \/ SetOtherFunctionBody(t, k)
    \/ SetILFunctionBody(t)
    \/ SetILInstrumentedCodeMap(t)

Next == \E t \in Threads : Continue(t) \/ Choose(t)

Spec == Init /\ [][Next]_vars

----------------------------------------------------------------------------
(* Properties. *)

Steps == {"idle", "started", "should", "before", "instrument", "intermediate", "raw",
          "final", "cleanup", "compile", "compiling", "inlining"}
LockedSteps == Steps \ {"idle", "started", "compile", "compiling"}
Codes == [il : Bodies \cup {NoBody}, map : ILMaps]
Infos == [graph : Bodies \cup {NoBody}, instrumented : BOOLEAN, intermediate : Bodies \cup {NoBody},
          final : Bodies \cup {NoBody}, user : Bodies \cup {NoBody}, map : ILMaps]
Jobs == [fn : Functions \cup {NoFunction}, tok : Tokens, rejit : BOOLEAN]
InfoIds == (Threads \cup {NoThread}) \X (Functions \cup {NoFunction})

\* The types of the CLR's state, of the threads' and of the engine's.
TypeOK ==
    /\ clr \in [Tokens -> [il : Bodies, map : ILMaps]] /\ rejitIl \in [Tokens -> Codes]
    /\ rejitState \in [Tokens -> {"none", "requested", "configured"}]
    /\ markers \in [Tokens -> Seq(Nat)] /\ rejitCount \in [Tokens -> Nat]
    /\ csForJIT \in Threads \cup {NoThread}
    /\ pc \in [Threads -> Steps] /\ job \in [Threads -> Jobs]
    /\ asked \in [Threads -> Seq(ImSet)] /\ done \in [Threads -> Nat]
    /\ info \in [Threads -> Infos]
    /\ read \in [Threads -> Bodies \cup {NoBody}]
    /\ stages \in [Threads -> Seq(ILMaps)]
    /\ compiled \in [Threads -> Codes]
    /\ inlinee \in [Threads -> Functions \cup {NoFunction}]
    /\ methodInfos \in [Functions -> InfoIds] /\ managerInfos \in [Functions -> InfoIds]
    /\ infosByToken \in [Tokens -> InfoIds]
    /\ cachedIl \in [Tokens -> Bodies \cup {NoBody}]
    /\ known \subseteq Tokens /\ origin \in [Tokens -> Bodies]
    /\ transformed \subseteq Tokens
    /\ ilMaps \in [Tokens \X (Functions \cup {NoFunction}) -> ILMaps]
    /\ sites \subseteq Tokens \X Tokens
    /\ work \in Nat

\* No CMethodInfo leaks: whatever way a callback ends, an object in one of the three maps belongs to the thread
\* that holds m_csForJIT, the two maps by function id agree, and the one by token leads to the same object.
InfosTracked ==
    /\ methodInfos = managerInfos
    /\ \A f \in Functions : methodInfos[f] # NoInfo =>
            /\ csForJIT # NoThread /\ methodInfos[f] = <<csForJIT, f>>
            /\ infosByToken[TokenOf[f]] # NoInfo
    /\ \A k \in Tokens : infosByToken[k] # NoInfo =>
            /\ csForJIT # NoThread /\ infosByToken[k][1] = csForJIT
            /\ infosByToken[k][2] = NoFunction \/ methodInfos[infosByToken[k][2]] = infosByToken[k]

\* The IL that one pass makes of the original: a baseline if one was set, the edits of the methods that asked, in
\* order of priority, and the raw profiler's last.
PassIl(original, methods, baseline, raw) ==
    (IF baseline THEN <<Baseline>> ELSE original) \o methods \o (IF raw THEN <<Raw>> ELSE <<>>)
OnePassIl(original) == {PassIl(original, a, b, r) : a \in Asks, b \in BOOLEAN, r \in BOOLEAN}

\* However often a method is compiled, rejitted or instantiated, the IL the CLR has for it is the result of one pass
\* over what the method was before the engine first read it: edits are never applied twice, out of order or on top of
\* another pass. (A raw profiler may have written that IL, straight to the CLR, before the module was known.)
OnePass ==
    \A k \in Tokens : /\ clr[k].il \in OnePassIl(origin[k])
                      /\ rejitIl[k].il # NoBody => rejitIl[k].il \in OnePassIl(origin[k])

\* The cache of GetMethodIl is the IL that the method had before the engine first read it, which no instrumentation
\* method has edited: the engine never caches its own results, nor what the raw profiler makes of a method that it was
\* given from the cache, and when the CLR is given other IL for a method the cache has been filled before.
OriginalKept ==
    \A k \in Tokens : /\ origin[k] \in Seq({Raw})
                      /\ cachedIl[k] \in {origin[k], NoBody}
                      /\ clr[k].il # origin[k] \/ rejitIl[k].il # NoBody => cachedIl[k] = origin[k]

\* What a step gives the CLR for the method of the pass in progress has the edits of exactly the methods that asked.
GivesAll ==
    \A t \in Threads : csForJIT = t =>
        LET complete == {PassIl(origin[Tok(t)], asked[t], b, r) : b, r \in BOOLEAN}
        IN  /\ clr'[Tok(t)].il # clr[Tok(t)].il => clr'[Tok(t)].il \in complete
            /\ rejitIl'[Tok(t)] # rejitIl[Tok(t)] => rejitIl'[Tok(t)].il \in complete

\* All or nothing: when a pass gives the CLR a body, exactly the methods that asked to instrument have edited it; if
\* one failed, the CLR keeps the IL it had.
AllOrNothing == [][GivesAll]_vars

\* The pairs of offsets that a map makes of those before it, and what the maps of s make one after the other.
MapPairs(map) == {map[i] : i \in 1 .. Len(map)}
Through(pairs, map) == {<<c[1][1], c[2][2]>> : c \in {c \in pairs \X MapPairs(map) : c[1][2] = c[2][1]}}
Chains(s) ==
    LET reach[n \in 0 .. Len(s)] ==
            IF n = 0 THEN {} ELSE IF n = 1 THEN MapPairs(s[1]) ELSE Through(reach[n - 1], s[n])
    IN  reach
NewOffsets(pairs) == {p[2] : p \in pairs}

\* The map that goes with the IL leads from offsets of the original to offsets of the final IL, through the baseline,
\* the methods' edits and the raw profiler's, and misses no offset that these connect to the original, as long as none
\* of these maps leaves nothing of the original. (Where several entries lead to one offset the merge keeps one.)
MapComposes ==
    \A t \in Threads :
        LET chain == Chains(stages[t])
            whole == chain[Len(stages[t])]
            pairs == MapPairs(info[t].map)
        IN  (\A n \in 1 .. Len(stages[t]) : chain[n] # {}) =>
                pairs \subseteq whole /\ NewOffsets(pairs) = NewOffsets(whole)

\* The count by which a debugger tells the versions of a rejitted method apart grows from one version the CLR is given
\* to the next, although passes that fail or give no map count too.
MarkersGrow ==
    \A k \in Tokens : \A j \in 1 .. Len(markers[k]) : \A i \in 1 .. j - 1 : markers[k][i] < markers[k][j]
====
