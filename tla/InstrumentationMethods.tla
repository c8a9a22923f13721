----------------------- MODULE InstrumentationMethods -----------------------
(* The registry of instrumentation methods kept by CProfilerManager          *)
(* (m_instrumentationMethods, m_instrumentationMethodGuids), the event mask   *)
(* it negotiates with the CLR on their behalf, the raw profiler hook, and the *)
(* start-up of the engine: the CLR calls Initialize, a thread of the engine's *)
(* own loads the configured methods, Initialize waits for it or times out.    *)
(*                                                                            *)
(* m_cs is recursive and is held during the whole of a method's Initialize,   *)
(* so the holder may come back with further calls; `frames' is the stack of   *)
(* AddInstrumentationMethod calls that the holder is inside of. What takes    *)
(* m_cs and calls nobody back is one step, except for SetEventMask, which     *)
(* reads m_bIsInInitialize; that flag is written without m_cs.                *)
(*                                                                            *)
(* What the flags are for is kept beside them: `asked' and `granted' are what *)
(* each caller of SetEventMask asked for and had an S_OK for.                 *)
EXTENDS Integers, Sequences, FiniteSets

CONSTANTS
    Methods,        \* instances of CInstrumentationMethod
    Guids,          \* class ids
    ClassId,        \* the class id of each instance
    Priority,       \* dwPriority of each instance
    Config,         \* the methods of m_configSources, in the order they are read
    Threads,        \* threads that call the engine
    Loader,         \* the one that runs InstrumentationMethodThreadProc
    NoThread,
    Flags,          \* bits of the low event mask
    Immutable,      \* COR_PRF_MONITOR_IMMUTABLE
    DefaultMask,    \* GetDefaultEventMask()
    HighFlags,      \* bits of the high event mask
    HighImmutable,  \* COR_PRF_HIGH_MONITOR_IMMUTABLE
    HasInfo5,       \* the CLR implements ICorProfilerInfo5
    Hooks,          \* raw profilers
    NoHook,
    Host            \* who calls SetEventMask outside of any Initialize of a method

ASSUME MethodsAssumption ==
    /\ ClassId \in [Methods -> Guids]
    /\ Priority \in [Methods -> Nat]
    /\ Config \in Seq(Methods)
    /\ \A i, j \in DOMAIN Config : Config[i] = Config[j] => i = j
    /\ Host \notin Methods
ASSUME ThreadsAssumption == Loader \in Threads /\ NoThread \notin Threads
ASSUME FlagsAssumption ==
    /\ Immutable \subseteq Flags
    /\ DefaultMask \subseteq Flags
    /\ HighImmutable \subseteq HighFlags
    /\ HasInfo5 \in BOOLEAN
ASSUME HooksAssumption == NoHook \notin Hooks

VARIABLES
    phase,          \* where the engine is in its life: m_bIsInInitialize is set in "initialize", and in
                    \* "returning" the CLR has not yet seen Initialize return
    disabled,       \* m_bProfilingDisabled
    loaderPc,       \* InstrumentationMethodThreadProc: "wait", "loop", "adding", "record", "done"
    toLoad,         \* configured methods not yet looked at
    owner,          \* the holder of m_cs between steps
    frames,         \* the methods the owner is initializing, outermost first
    fresh,          \* instances not yet handed to AddInstrumentationMethod
    methods,        \* m_instrumentationMethods: instance and dwFlags, in call order
    guids,          \* m_instrumentationMethodGuids
    initializing,   \* m_bIsInitializingInstrumentationMethod
    initFlags,      \* m_dwInstrumentationMethodFlags
    eventMask,      \* m_dwEventMask
    eventMaskHigh,  \* m_dwEventMaskHigh
    clrMask,        \* the low mask the CLR has accepted
    clrHigh,        \* the high mask the CLR has accepted
    asked,          \* history: the mask a method's Initialize last asked for, and all that the host did
    granted,        \* history: the same, for the calls of SetEventMask that returned S_OK
    disturbed,      \* history: methods in whose Initialize another one was added, or one with flags removed
    pc, arg,        \* calls of a thread that are not one step, and their arguments
    hook            \* m_profilerCallbackHolder

loadVars == <<phase, disabled, loaderPc, toLoad>>
listVars == <<fresh, methods, guids>>
lockVars == <<owner, frames>>
maskVars == <<initializing, initFlags, eventMask, clrMask, clrHigh>>
askVars == <<asked, granted, disturbed>>
callVars == <<pc, arg>>
vars == <<loadVars, listVars, lockVars, maskVars, askVars, eventMaskHigh, callVars, hook>>

Entry == [im : Methods, flags : SUBSET Flags]
Call == [low : SUBSET Flags, high : SUBSET HighFlags, hook : Hooks \cup {NoHook}]
Askers == Methods \cup {Host}
NoCall == [low |-> {}, high |-> {}, hook |-> NoHook]

Init ==
    /\ phase = "created"
    /\ disabled = FALSE
    /\ loaderPc = "wait"
    /\ toLoad = Config
    /\ owner = NoThread
    /\ frames = <<>>
    /\ fresh = Methods
    /\ methods = <<>>
    /\ guids = {}
    /\ initializing = FALSE
    /\ initFlags = {}
    /\ eventMask = DefaultMask
    /\ eventMaskHigh = {}
    /\ clrMask = {}
    /\ clrHigh = {}
    /\ asked = [x \in Askers |-> {}]
    /\ granted = [x \in Askers |-> {}]
    /\ disturbed = {}
    /\ pc = [t \in Threads |-> "idle"]
    /\ arg = [t \in Threads |-> NoCall]
    /\ hook = NoHook

-----------------------------------------------------------------------------
(* Who may take a step.                                                      *)

\* Instrumentation methods, the host and the raw profiler call the engine while
\* Initialize runs and afterwards; what runs on the loader's thread is the
\* Initialize of the methods it is adding.
CanCall(t) ==
    /\ pc[t] = "idle"
    /\ IF t = Loader THEN owner = Loader ELSE phase \in {"initialize", "returning", "running"}

CanLockOnce(t) == owner = NoThread

\* CCriticalSectionHolder lock(&m_cs) succeeds; the section is recursive.
CanLock(t) == owner \in {NoThread, t}

\* The method whose Initialize makes the call, or the host.
Asker == IF frames = <<>> THEN Host ELSE frames[Len(frames)]

\* An outermost call gives m_cs back.
OwnerAfterCall(t) == IF frames = <<>> THEN NoThread ELSE t

-----------------------------------------------------------------------------
(* The event mask.                                                           *)

CalculateEventMask(mask, list, additional) ==
    mask \cup additional \cup UNION {list[i].flags : i \in DOMAIN list}

\* The CLR keeps the immutable bits it has once it has seen Initialize return.
ClrAccepts(low, high) ==
    \/ phase \in {"initialize", "returning"}
    \/ /\ low \cap Immutable = clrMask \cap Immutable
       /\ HasInfo5 => high \cap HighImmutable = clrHigh \cap HighImmutable

\* The call of the real ICorProfilerInfo that ends SetEventMask.
PushToClr(low, high) ==
    IF ClrAccepts(low, high)
    THEN /\ clrMask' = low
         /\ clrHigh' = IF HasInfo5 THEN high ELSE clrHigh
    ELSE UNCHANGED <<clrMask, clrHigh>>

\* After Initialize a mask may not change the immutable bits of m_dwEventMask.
MayChangeMask(mask) ==
    phase = "initialize" \/ mask \cap Immutable = eventMask \cap Immutable

\* SetIsInitializingInstrumentationMethod, called by the constructor and by the
\* destructor of CInitializeInstrumentationMethodHolder.
SetInitializingKeepFlags(val) == initializing' = val /\ UNCHANGED initFlags

SetInitializing(val) == initializing' = val /\ initFlags' = {}

\* The mask of the host and of every method, with what the caller has just asked for.
MaskOfCaller(t) == eventMask \cup arg[t].low

MaskOfAll(t) == CalculateEventMask(eventMask, methods, arg[t].low)

\* What a caller has asked for: the host adds to its mask, a method replaces it.
AskedBy(x, mask) == IF x = Host THEN asked[x] \cup mask ELSE mask

\* SetEventMask under m_cs, up to the call of the CLR. In the Initialize of a
\* method the mask is the method's, otherwise it is everybody's.
SetEventMaskBegins(t, mask) ==
    /\ CanLock(t)
    /\ \/ /\ initializing
          /\ initFlags' = mask
          /\ arg' = [arg EXCEPT ![t] = [NoCall EXCEPT !.low = mask]]
          /\ UNCHANGED eventMask
       \/ /\ ~initializing
          /\ MayChangeMask(mask)
          /\ eventMask' = eventMask \cup mask
          /\ arg' = [arg EXCEPT ![t] = NoCall]
          /\ UNCHANGED initFlags
    /\ owner' = t
    /\ pc' = [pc EXCEPT ![t] = "push"]
    /\ asked' = [asked EXCEPT ![Asker] = AskedBy(Asker, mask)]
    /\ granted' = [granted EXCEPT ![Asker] = IF Asker = Host THEN @ ELSE {}]
    /\ UNCHANGED <<loadVars, listVars, frames, initializing, clrMask, clrHigh, disturbed, eventMaskHigh, hook>>

\* It may change nothing of the engine's and return E_FAIL.
SetEventMaskFails(t, mask) ==
    /\ CanLock(t)
    /\ ~initializing /\ ~MayChangeMask(mask)
    /\ pc' = [pc EXCEPT ![t] = "idle"]
    /\ arg' = [arg EXCEPT ![t] = NoCall]
    /\ UNCHANGED <<loadVars, listVars, lockVars, maskVars, askVars, eventMaskHigh, hook>>

SetEventMask(t, mask) ==
    /\ CanCall(t)
    /\ SetEventMaskBegins(t, mask) \/ SetEventMaskFails(t, mask)

\* The CLR is told, still under m_cs.
PushMask(t) ==
    /\ pc[t] = "push"
    /\ PushToClr(MaskOfAll(t), eventMaskHigh)
    /\ granted' = IF ClrAccepts(MaskOfAll(t), eventMaskHigh)
                  THEN [granted EXCEPT ![Asker] = asked[Asker]]
                  ELSE granted
    /\ owner' = OwnerAfterCall(t)
    /\ pc' = [pc EXCEPT ![t] = "idle"]
    /\ arg' = [arg EXCEPT ![t] = NoCall]
    /\ UNCHANGED <<loadVars, listVars, frames, initializing, initFlags, eventMask, asked, disturbed, eventMaskHigh, hook>>

\* SetEventMask2 takes no lock for the high word: it tests and reads it ...
SetEventMask2(t, low, high) ==
    /\ CanCall(t)
    /\ phase = "initialize" \/ high \cap HighImmutable = eventMaskHigh \cap HighImmutable
    /\ pc' = [pc EXCEPT ![t] = "high"]
    /\ arg' = [arg EXCEPT ![t] = [NoCall EXCEPT !.low = low, !.high = eventMaskHigh \cup high]]
    /\ UNCHANGED <<loadVars, listVars, lockVars, maskVars, askVars, eventMaskHigh, hook>>

\* ... writes back what it read with the new bits ...
SetEventMask2Write(t) ==
    /\ pc[t] = "high"
    /\ eventMaskHigh' = arg[t].high
    /\ pc' = [pc EXCEPT ![t] = "low"]
    /\ UNCHANGED <<loadVars, listVars, lockVars, maskVars, askVars, arg, hook>>

\* ... and calls SetEventMask with the low word.
SetEventMask2Low(t) ==
    /\ pc[t] = "low"
    /\ SetEventMaskBegins(t, arg[t].low) \/ SetEventMaskFails(t, arg[t].low)

-----------------------------------------------------------------------------
(* Adding and removing instrumentation methods.                              *)

\* The methods in whose Initialize the flags were reset, with the one that runs now.
DisturbedNow == disturbed \cup ({Asker} \ {Host})

\* AddInstrumentationMethod up to the call of the method's Initialize; the
\* constructor of CInitializeInstrumentationMethodHolder.
BeginAdd(t, m) ==
    /\ m \in fresh
    /\ CanLock(t)
    /\ owner' = t
    /\ frames' = Append(frames, m)
    /\ fresh' = fresh \ {m}
    /\ SetInitializing(TRUE)
    /\ disturbed' = DisturbedNow
    /\ UNCHANGED <<phase, disabled, methods, guids, eventMask, clrMask, clrHigh,
                   asked, granted, eventMaskHigh, callVars, hook>>

\* IProfilerManager::AddInstrumentationMethod called by the host or by a method,
\* for an instance that it has just created.
AddInstrumentationMethod(t, m) ==
    /\ CanCall(t)
    /\ \A i \in DOMAIN Config : Config[i] # m
    /\ BeginAdd(t, m)
    /\ UNCHANGED <<loaderPc, toLoad>>

LastPosition(list, m) == Len(list) + 1

\* A new method goes before the first one with a greater priority number.
InsertPosition(list, m) ==
    CHOOSE p \in 1..(Len(list) + 1) :
        /\ p <= Len(list) => Priority[list[p].im] > Priority[m]
        /\ \A q \in 1..(p - 1) : Priority[list[q].im] <= Priority[m]

InsertByPriority(list, m, flags) ==
    [i \in 1..(Len(list) + 1) |->
        IF i < InsertPosition(list, m) THEN list[i]
        ELSE IF i = InsertPosition(list, m) THEN [im |-> m, flags |-> flags]
        ELSE list[i - 1]]

ReleasedByAny(t) == NoThread

\* The outermost AddInstrumentationMethod gives m_cs back.
OwnerAfterEnd(t) == IF Len(frames) = 1 THEN NoThread ELSE t

\* The method's Initialize returns; ok is SUCCEEDED(hr). The holder's
\* destructor lowers the flag and forgets the flags in either case.
EndAdd(t, ok) ==
    /\ owner = t
    /\ pc[t] = "idle"
    /\ methods' = IF ok THEN InsertByPriority(methods, frames[Len(frames)], initFlags)
                        ELSE methods
    /\ SetInitializing(FALSE)
    /\ frames' = SubSeq(frames, 1, Len(frames) - 1)
    /\ owner' = OwnerAfterEnd(t)
    /\ loaderPc' = IF t = Loader /\ Len(frames) = 1
                   THEN IF ok THEN "record" ELSE "loop"
                   ELSE loaderPc
    /\ toLoad' = IF t = Loader /\ Len(frames) = 1 /\ ~ok THEN Tail(toLoad) ELSE toLoad
    /\ UNCHANGED <<phase, disabled, fresh, guids, eventMask, clrMask, clrHigh,
                   askVars, eventMaskHigh, callVars, hook>>

Listed(m) == \E i \in DOMAIN methods : methods[i].im = m
IndexOf(m) == CHOOSE i \in DOMAIN methods : methods[i].im = m
Without(list, k) == [i \in 1..(Len(list) - 1) |-> IF i < k THEN list[i] ELSE list[i + 1]]

\* The flags of a removed method are taken back by SetEventMask(0) under a
\* CInitializeInstrumentationMethodHolder of its own.
RemoveInstrumentationMethod(t, m) ==
    /\ CanCall(t)
    /\ CanLock(t)
    /\ Listed(m)
    /\ methods' = Without(methods, IndexOf(m))
    /\ IF methods[IndexOf(m)].flags # {}
       THEN /\ PushToClr(CalculateEventMask(eventMask, methods', {}), eventMaskHigh)
            /\ SetInitializing(FALSE)
            /\ disturbed' = DisturbedNow
            /\ UNCHANGED eventMask
       ELSE UNCHANGED <<maskVars, disturbed>>
    /\ UNCHANGED <<loadVars, fresh, guids, lockVars, asked, granted, eventMaskHigh, callVars, hook>>

-----------------------------------------------------------------------------
(* The raw profiler hook.                                                    *)

\* AddRawProfilerHook tests the hook and m_bIsInInitialize before it locks.
AddRawProfilerHook(t, h) ==
    /\ CanCall(t)
    /\ hook = NoHook
    /\ phase = "initialize"
    /\ pc' = [pc EXCEPT ![t] = "hook"]
    /\ arg' = [arg EXCEPT ![t] = [NoCall EXCEPT !.hook = h]]
    /\ UNCHANGED <<loadVars, listVars, lockVars, maskVars, askVars, eventMaskHigh, hook>>

InstallHook(t) ==
    /\ pc[t] = "hook"
    /\ CanLock(t)
    /\ hook' = arg[t].hook
    /\ pc' = [pc EXCEPT ![t] = "idle"]
    /\ arg' = [arg EXCEPT ![t] = NoCall]
    /\ UNCHANGED <<loadVars, listVars, lockVars, maskVars, askVars, eventMaskHigh>>

RemoveRawProfilerHook(t) ==
    /\ CanCall(t)
    /\ hook' = NoHook
    /\ UNCHANGED <<loadVars, listVars, lockVars, maskVars, askVars, eventMaskHigh, callVars>>

-----------------------------------------------------------------------------
(* Start-up and shutdown.                                                    *)

\* InitializeCore gives the CLR the default mask.
SetDefaultMask ==
    /\ clrMask' = CalculateEventMask(eventMask, methods, {})
    /\ clrHigh' = IF HasInfo5 THEN eventMaskHigh ELSE clrHigh

\* Initialize and InitializeForAttach up to the wait in InvokeThreadRoutine.
Initialize ==
    /\ phase = "created"
    /\ phase' = "initialize"
    /\ SetDefaultMask
    /\ loaderPc' = IF Config = <<>> THEN "done" ELSE "loop"
    /\ UNCHANGED <<disabled, toLoad, listVars, lockVars, initializing, initFlags,
                   eventMask, askVars, eventMaskHigh, callVars, hook>>

\* The configuration is not found or not understood, and nothing is set up; or
\* the CLR has no interface for the engine, or its thread cannot be created.
InitializeFails ==
    /\ phase = "created"
    /\ phase' = "cancelled"
    /\ SetDefaultMask \/ UNCHANGED <<clrMask, clrHigh>>
    /\ UNCHANGED <<disabled, loaderPc, toLoad, listVars, lockVars, initializing, initFlags, eventMask,
                   askVars, eventMaskHigh, callVars, hook>>

\* LoadInstrumentationMethods skips a class id it has loaded before ...
SkipDuplicate ==
    /\ loaderPc = "loop"
    /\ toLoad # <<>>
    /\ ClassId[Head(toLoad)] \in guids
    /\ toLoad' = Tail(toLoad)
    /\ UNCHANGED <<phase, disabled, loaderPc, listVars, lockVars, maskVars,
                   askVars, eventMaskHigh, callVars, hook>>

\* ... and adds any other method.
LoadNext ==
    /\ loaderPc = "loop"
    /\ toLoad # <<>>
    /\ ClassId[Head(toLoad)] \notin guids
    /\ BeginAdd(Loader, Head(toLoad))
    /\ toLoad' = toLoad
    /\ loaderPc' = "adding"

GuidsRecorded == guids \cup {ClassId[Head(toLoad)]}

\* The class id of a method that was added with S_OK is remembered, without m_cs.
RecordGuid ==
    /\ loaderPc = "record"
    /\ guids' = GuidsRecorded
    /\ toLoad' = Tail(toLoad)
    /\ loaderPc' = "loop"
    /\ UNCHANGED <<phase, disabled, fresh, methods, lockVars, maskVars, askVars,
                   eventMaskHigh, callVars, hook>>

\* The thread routine ends at the end of the list ...
LoaderExits ==
    /\ loaderPc = "loop"
    /\ toLoad = <<>>
    /\ loaderPc' = "done"
    /\ UNCHANGED <<phase, disabled, toLoad, listVars, lockVars, maskVars, askVars,
                   eventMaskHigh, callVars, hook>>

\* ... or at a source that fails, which leaves out the sources after it.
LoaderFails ==
    /\ loaderPc = "loop"
    /\ toLoad # <<>>
    /\ loaderPc' = "done"
    /\ UNCHANGED <<phase, disabled, toLoad, listVars, lockVars, maskVars, askVars,
                   eventMaskHigh, callVars, hook>>

\* WaitForSingleObject sees the thread end; SetupRawProfiler may fail. Initialize
\* calls the raw profiler's Initialize, drops the hook if that fails, and returns;
\* InitializeForAttach returns the failure. The flag goes down in any case.
InitializeReturns ==
    /\ phase = "initialize"
    /\ loaderPc = "done"
    /\ \/ phase' = "cancelled" /\ UNCHANGED hook
       \/ ~disabled /\ phase' = "returning" /\ hook' \in {hook, NoHook}
    /\ UNCHANGED <<disabled, loaderPc, toLoad, listVars, lockVars, maskVars, askVars,
                   eventMaskHigh, callVars>>

\* The CLR sees it return.
ClrResumes ==
    /\ phase = "returning"
    /\ phase' = "running"
    /\ UNCHANGED <<disabled, loaderPc, toLoad, listVars, lockVars, maskVars, askVars,
                   eventMaskHigh, callVars, hook>>

\* The minute of WaitForSingleObject passes; Initialize cancels the activation.
LoadTimesOut ==
    /\ phase = "initialize"
    /\ loaderPc \notin {"wait", "done"}
    /\ phase' = "cancelled"
    /\ UNCHANGED <<disabled, loaderPc, toLoad, listVars, lockVars, maskVars, askVars,
                   eventMaskHigh, callVars, hook>>

DisableProfiling(t) ==
    /\ CanCall(t)
    /\ disabled' = TRUE
    /\ UNCHANGED <<phase, loaderPc, toLoad, listVars, lockVars, maskVars, askVars,
                   eventMaskHigh, callVars, hook>>

Shutdown ==
    /\ phase = "running"
    /\ owner = NoThread
    /\ phase' = "shutdown"
    /\ methods' = <<>>
    /\ UNCHANGED <<disabled, loaderPc, toLoad, fresh, guids, lockVars, maskVars,
                   askVars, eventMaskHigh, callVars, hook>>

-----------------------------------------------------------------------------
Calls(t) ==
    \/ \E mask \in SUBSET Flags : SetEventMask(t, mask)
    \/ \E low \in SUBSET Flags, high \in SUBSET HighFlags : SetEventMask2(t, low, high)
    \/ SetEventMask2Write(t)
    \/ SetEventMask2Low(t)
    \/ PushMask(t)
    \/ \E m \in Methods : AddInstrumentationMethod(t, m)
    \/ \E ok \in BOOLEAN : EndAdd(t, ok)
    \/ \E m \in Methods : RemoveInstrumentationMethod(t, m)
    \/ \E h \in Hooks : AddRawProfilerHook(t, h)
    \/ InstallHook(t)
    \/ RemoveRawProfilerHook(t)
    \/ DisableProfiling(t)

Load == SkipDuplicate \/ LoadNext \/ RecordGuid \/ LoaderExits \/ LoaderFails

Engine == Initialize \/ InitializeFails \/ InitializeReturns \/ ClrResumes \/ LoadTimesOut \/ Shutdown

Next == (\E t \in Threads : Calls(t)) \/ Load \/ Engine

Spec == Init /\ [][Next]_vars

\* The loader's thread runs, and gets m_cs if it is free again and again; a
\* thread that has begun a call of the engine goes on with it; the Initialize of
\* an instrumentation method returns, after finitely many calls of the engine.
\* Nothing makes a source fail.
Fairness ==
    /\ WF_vars(SkipDuplicate \/ RecordGuid \/ LoaderExits)
    /\ SF_vars(LoadNext)
    /\ \A t \in Threads : WF_vars(SetEventMask2Write(t) \/ SetEventMask2Low(t) \/ PushMask(t) \/ InstallHook(t))
    /\ \A t \in Threads : SF_vars(\E ok \in BOOLEAN : EndAdd(t, ok))

FairSpec == Spec /\ Fairness

-----------------------------------------------------------------------------
(* Properties.                                                               *)

\* Every field of the registry has its type, and a thread holds m_cs between
\* steps exactly while it is in the Initialize of a method or gives the CLR a mask.
TypeOK ==
    /\ phase \in {"created", "initialize", "returning", "running", "cancelled", "shutdown"}
    /\ disabled \in BOOLEAN
    /\ loaderPc \in {"wait", "loop", "adding", "record", "done"}
    /\ toLoad \in Seq(Methods)
    /\ owner \in Threads \cup {NoThread}
    /\ frames \in Seq(Methods)
    /\ owner = NoThread <=> frames = <<>> /\ \A t \in Threads : pc[t] # "push"
    /\ fresh \subseteq Methods
    /\ methods \in Seq(Entry)
    /\ guids \subseteq Guids
    /\ initializing \in BOOLEAN
    /\ initFlags \subseteq Flags
    /\ eventMask \subseteq Flags
    /\ eventMaskHigh \subseteq HighFlags
    /\ clrMask \subseteq Flags
    /\ clrHigh \subseteq HighFlags
    /\ asked \in [Askers -> SUBSET Flags]
    /\ granted \in [Askers -> SUBSET Flags]
    /\ disturbed \subseteq Methods
    /\ pc \in [Threads -> {"idle", "high", "low", "push", "hook"}]
    /\ arg \in [Threads -> Call]
    /\ hook \in Hooks \cup {NoHook}

\* Events reach the methods in the order of their priorities, whatever the
\* interleaving of configured, nested and late AddInstrumentationMethod calls
\* and of removals (the insertion loop of AddInstrumentationMethod).
PriorityOrder ==
    \A i, j \in DOMAIN methods : i < j => Priority[methods[i].im] <= Priority[methods[j].im]

\* "InstrumentationMethod can only set flags associated with it", as long as no
\* other method is added, and none with flags removed, in its Initialize: the
\* entry of a method has the flags that its own Initialize asked for last,
\* whichever methods failed to initialize before it and on whichever threads, and
\* m_dwEventMask has none of them.
OwnFlags ==
    /\ \A i \in DOMAIN methods :
          methods[i].im \notin disturbed => methods[i].flags = asked[methods[i].im]
    /\ disturbed = {} => eventMask = DefaultMask \cup asked[Host]

\* What the CLR has granted it keeps on granting: the events of the host and of
\* every registered method, except for a method in whose Initialize the flags were
\* reset, stay in the CLR's mask through adds, failing adds, removals and masks
\* that the CLR refuses (CalculateEventMask).
SubscriptionsKept ==
    /\ granted[Host] \subseteq clrMask
    /\ \A i \in DOMAIN methods :
          methods[i].im \notin disturbed => granted[methods[i].im] \subseteq clrMask

\* The loading thread comes to its end: no stack of nested Initialize calls and
\* no other thread keeps m_cs from it for good, and it needs m_cs for every method
\* that it does not skip (InstrumentationMethodThreadProc).
LoaderFinishes == loaderPc \in {"loop", "adding", "record"} ~> loaderPc = "done"

-----------------------------------------------------------------------------
(* What the repository says of this code and the code does not do.           *)

\* "Allow SetEventMask post initialization if not affecting immutable flags":
\* between calls, the mask to be pushed agrees with the CLR on the immutable
\* bits, so that a change of mutable bits alone is accepted.
MutableSettable ==
    phase = "running" /\ owner = NoThread =>
        CalculateEventMask(eventMask, methods, {}) \cap Immutable = clrMask \cap Immutable

\* "Initialize method of InstrumentationMethod can set additional flags that will
\* be associated with this InstrumentationMethod": the entry of every method has
\* the flags that its Initialize asked for last, with no exception for a method
\* in whose Initialize another one is added or removed.
FlagsAssociated ==
    \A i \in DOMAIN methods : methods[i].flags = asked[methods[i].im]
=============================================================================
