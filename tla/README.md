# CLR Instrumentation Engine: TLA+ models, checks and proofs

The CLR Instrumentation Engine is a CLR profiler that lets several
*instrumentation methods* (and one *raw profiler*) share the one profiler slot
of a process. It loads the methods, negotiates one event mask with the CLR for
all of them, keeps its own picture of what the CLR has loaded, and rewrites the
IL of methods as the CLR compiles them. This directory holds TLA+ models of that
core, the TLC configurations that check them, and proofs for TLAPS.

Paths below are relative to `src/src/InstrumentationEngine/` unless they begin
with `src/`; the logging service is in `src/src/InstrumentationEngine.Lib/`, the
interface `InstrumentationEngine.idl` in `src/src/InstrumentationEngine.Api/`. `PROJECT.json` maps every definition to the lines it stands for.

| module | models | checked by | proofs |
|---|---|---|---|
| `InstrumentationMethods` | the registry of methods and the event mask | `MCInstrumentationMethods` | `InstrumentationMethods_proofs` |
| `AppDomains` | appdomain, assembly and module collections | `MCAppDomains` | `AppDomains_proofs` |
| `MethodInstrumentation` | JIT and ReJIT passes over a method | `MCMethodInstrumentation` | `MethodInstrumentation_proofs` |
| `InstructionGraph` | the edits of a method's instruction graph | `MCInstructionGraph` | `InstructionGraph_proofs` |
| `SingleReturn` | the single return, the stack size and the rendered method | `MCSingleReturn` | `SingleReturn_proofs` |
| `LocalVariables` | the local variable collection, part of `SingleReturn` | `MCSingleReturn` | `SingleReturn_proofs` |
| `Evaluation` | abstract: the CLR executes a method | implemented by `SingleReturn` | `SingleReturn_proofs` |
| `Logging` | the logging service, its users and its sinks | `MCLogging` | `Logging_proofs` |
| `EventLogging` | the queue and the thread of an event logger | `MCEventLogging` | `EventLogging_proofs` |
| `EventLog` | abstract: a log | implemented by `EventLogging` | - |
| `ProfilerProxy` | the choice of an engine by the profiler proxy | `MCProfilerProxy` | - |

`NaturalsLemmas` has the facts about natural numbers and loops that the proofs share.

## 1. Inventory

**Method registry and event mask** (`ProfilerManager.cpp`, partly).
State: the list `m_instrumentationMethods` in call order with the flags of each
entry, the class ids already loaded, the masks `m_dwEventMask` and
`m_dwEventMaskHigh`, the flag `m_bIsInitializingInstrumentationMethod` with the
flags collected under it, the raw profiler hook, the phase of the engine.
Operations: `Initialize`, the loading thread (`InstrumentationMethodThreadProc`),
`AddInstrumentationMethod`, `RemoveInstrumentationMethod`, `SetEventMask`,
`SetEventMask2`, `AddRawProfilerHook`, `DisableProfiling`, `Shutdown`.
Hard: `m_cs` is recursive and is held across the `Initialize` of a method, which
may call back; the loading thread may outlive the wait for it; a method may fail
after it has set its mask; one flag and one set of collected flags serve all
`Initialize` calls that are nested in one another; `m_bIsInInitialize` is written
without the lock. Correct when the call order follows the priorities, flags belong
to their method, and no subscription gets lost. Left out: `SetupProfilingEnvironment`
(`:129` to `:147`), with which a host sets the configuration sources and runs the
loading thread itself.

**Appdomain, assembly and module collections** (`AppDomainCollection.cpp`,
`AppDomainInfo.cpp`, `AssemblyInfo.cpp`, `ModuleInfo.cpp`, callbacks of
`ProfilerManager.cpp`; modelled). State: nested maps from ids to objects that
point back. Operations: the load, unload and shutdown callbacks of the CLR on
any thread, and `ProfilerAttachComplete`. Hard: loads take only the lock of one
map at a time, so lookup and insertion are separate; the shutdown of an
appdomain fabricates the unload events of everything in it, and the CLR's own
arrive before, during or after. Correct when each unload is reported once, in
order, and what is loaded can be found.

**Method instrumentation** (`ProfilerManager.cpp`, `MethodInfo.cpp`,
`MethodInfoCleanup.h`, `ModuleInfo.cpp`, `InlineSiteMap.cpp`,
`CorProfilerInfoWrapper.cpp`; partly). State: `CMethodInfo` objects in three
maps, the cache of original IL, the IL maps, rejit counts and inline sites.
Operations: `JITCompilationStarted`, `JITInlining`, `GetReJITParameters`, the
Finished callbacks, `RequestRejit`, and the raw profiler's reads and writes
through the wrapped profiler info. Hard: several edits by several parties on one
method, generic instances with one token, passes that fail half-way. Correct
when the CLR gets the result of exactly one whole pass over the original, with
the map that belongs to it. Not yet: dynamic methods, deferred transformations,
the pause made by a rejit of a method that is being compiled.

**Instruction graph, branch targets, exception section** (`InstructionGraph.cpp`,
`Instruction.cpp`, `BranchTargetInfo.cpp`, `ExceptionSection.cpp`,
`ExceptionClause.cpp`; partly). State: a doubly linked list, targets of jumps
with an index from targets to jumps, exception ranges, lazily calculated
offsets. Operations: insertions (with and without retargeting), `Replace`,
`Remove`, `RemoveAll`, `CreateBaseline`, `ExpandBranches`, the setters of
targets, exception clauses with their setters, `EncodeIL`. Hard: every edit has
to keep four redundant structures in step, and `CreateBaseline` removes the
instructions before it knows whether the new ones can be decoded. Left out:
`RemoveBranchTarget` of a switch, which increments an iterator that `erase` returned
and is undefined when the last target matches, and the operands that `EncodeIL`
writes for jumps.

**Single return, stack size and local variables**
(`SingleRetDefaultInstrumentation.cpp`, `CalculateMaxStack` and
`GetStackImpact`, `LocalVariableCollection.cpp`; modelled). State: the
instructions, the branch target, the locals that were added before a signature
exists. Operations: `ApplySingleRetDefaultInstrumentation`,
`CalculateMaxStack`, and everything that adds, replaces or commits locals. Hard:
returns that are jump targets or belong to tail calls, a stack size from one
pass over code with jumps, indexes that are used long before they are real.
Correct when the rewritten method computes what the original does.

**Logging service** (`Logging.cpp`, `LoggerService.cpp`, the sinks,
`CProfilerManagerForInstrumentationMethod` and `CLoggingWrapper`; modelled).
State: one service per process, shared by all engines of it, with a count of
users, lists of sinks per level, and three copies of the flags. Operations:
initialization, shutdown, the setters with `RecalculateLoggingFlags`, the levels
of methods, logging. Hard: tests before the lock, setters without it, users with lifetimes of their
own, the raw profiler's host that goes away, an event source that cannot be
opened. Correct when an entry goes to the sinks that want it and to nothing that
was given up.

**Event log queue** (`src/src/Common.Lib/EventLoggingBase.cpp`; modelled). State: a
queue with a length, an auto-reset event, a thread. Operations: queueing, the
thread's loop, termination with a timeout. Hard: wake-ups, a full queue, the
end, and calls of the system that fail on the way. Correct when it is a log.

**Profiler proxy** (`src/src/InstrumentationEngine.ProfilerProxy*`; modelled).
State: the folders of the installed engines, the loaded one. Operations: search,
load, forward, unload, while installers change the folders. Hard: the order of
versions, a folder that goes away. Correct when the newest engine is loaded.

**Left out**: see "Not modelled" below.

How they interact: the CLR loads the proxy, which forwards to an engine, and
calls `CProfilerManager`; it hands every event first to the instrumentation
methods in the order of the registry and then to the raw profiler.
`JITCompilationStarted` looks the module up in the collections, makes a
`CMethodInfo`, and lets each method edit the `CInstructionGraph` of it, apply
the single return and add locals. Methods call back into all of these parts, and
all log. There are three locks in the manager: `m_cs` (registry, mask),
`m_csForAppDomains` (unloading) and `m_csForJIT` (a pass); the maps, each graph,
the logging service and the event queue have their own.

`PROJECT.json` lists the hazards at their lines with the properties that watch
them, and says for the others why no property covers them.

## 2. The models

### InstrumentationMethods

A step is what happens under `m_cs` between two calls out of the engine.
`BeginAdd` and `EndAdd` bracket the `Initialize` of a method; `owner` and `frames`
are the holder of the recursive lock and the stack of adds it is in, so nested
adds, removals and mask changes are reached by further steps of the holder.
`SetEventMask` is two steps, the test of `m_bIsInInitialize` and the call of the CLR,
both with `m_cs` held: `Initialize` takes the flag back without the lock, so it may
do so in between. `SetEventMask2` has two more before these, because it reads and
writes the high word outside the lock, and `AddRawProfilerHook` is two, because it
tests before it waits for the lock. `phase` is `returning` between the moment the
flag is down and the one at which the CLR sees `Initialize` return. Sources that fail
to load (`LoaderFails`) and a `SetupRawProfiler` that fails (`InitializeFails`) are
actions of their own. The CLR is the pair of accepted masks and the rule that
immutable bits may not change after `Initialize`; a call is refused as a whole.

The histories are `fresh` (instances not yet used, so that instances are distinct),
`asked` and `granted` (the flags that the host and each method asked for last, and
those the CLR accepted), and `disturbed`: the methods in whose `Initialize` another
one was added, or one with flags removed. Of these the engine forgets the flags (see
`flags_associated`), so the two properties about flags except them.

### AppDomains

The objects are kept in sequences by order of construction and referred to by
index, so that an object that was replaced in a map is still there to be
reasoned about. A thread is in at most one callback; `pc` and `call` are its
position and local pointers. `life` is the CLR's side: it decides which callbacks
may come next for an id. `Processes` are the histories a run begins with: what
was loaded before the engine came, which `ProfilerAttachComplete` enumerates,
and what is loaded later. `CanFail` lets instrumentation methods, metadata
interfaces and `CModuleInfo::Initialize` return errors; `FinishInitialization` of an
appdomain may also return `S_OK` without having initialized it. The histories `announced`, `withdrawn`, `raced`,
`failed` and `attachTold` record what the methods were told. `raced` is the set of ids
that two threads constructed at the same time: `Tracked` and `UnloadsBeforeShutdown`
except these, and `duplicate_addition` shows why.

### MethodInstrumentation

IL is the sequence of edits made to it (`<<>>` is the original; an edit is named
by its author), an IL map is a sequence of offset pairs, taken from small sets
for each author. A pass goes through the steps `should`, `before`, `instrument`
(once per method that asked), `intermediate`, `raw`, `final`, `cleanup`; each can
fail, and every failure goes to `cleanup` as the destructor of
`CMethodInfoCleanup` does. Steps are separate because the Finished callbacks,
`RequestRejit` and the raw profiler's reads do not take `m_csForJIT`. The end of a
rejit gives the CLR the map again.

A module may become `known` (have its `CModuleInfo`) at any time. Before that, and for a
method that is not being compiled, the wrapped profiler info passes the raw
profiler's reads and writes straight on to the CLR (`GetILFunctionBody`,
`SetOtherFunctionBody`), so that the IL the engine reads first may already be the raw
profiler's. `origin` is that IL, as of the engine's first read: `OnePass` and
`OriginalKept` are about it and not about the IL on disk.

Assumed of the environment: a raw profiler edits the IL it has read, and writes in a
callback of a compilation, or outside one while the module is not known yet.

### InstructionGraph

Each call of the interface is one step, as it runs under the graph's lock.
Instructions are model values; a branch has a short and a long form, a switch a
size by its targets, others a constant size. `il` is the history variable the
links are compared with: what the method should consist of after the calls.
`CreateBaseline` succeeds, or its decoding fails in the first or in the second pass over
the bytes (`FirstPassFails`, `SecondPassFails`), when the old instructions are gone and
the last of the list is not yet set; the history `half` marks such a list, of which
`WellLinked` says that the links are right from its first instruction on and that
`m_pLastInstruction` may be null. `EncodedMap` stands for `EncodeIL`, whose map is modelled
and whose bytes are not. `Length` of a switch is 0 where the code compares offsets, as
its operand length is -1 in `ILOpcodes.h`; its size in the layout is the real one.

Assumed of callers, because the code does not check it: what they insert is in no list
and has null links (a removed instruction keeps its links, so it is not inserted again),
where they insert is in this list, `InsertAfter(NULL)` only fills an empty list, a
switch keeps a target, added clauses are nested properly. The histories `displaced` and
`resized` mark the calls after which `ClauseOrder` and `OffsetsFresh` are known not to
hold: a `Remove` at the end of a range, a clause placed by offsets that are out of date,
or beside a range that ends with a switch (see the hazards at `Instruction.cpp:1043`
and `InstructionGraph.cpp:982`).

### SingleReturn, LocalVariables and Evaluation

`Evaluation` is external: what the CLR does with IL as far as the engine relies
on it. A value is named by the instruction that pushed it, a condition is a free
choice. `SingleReturn` first generates a method instruction by instruction
(`Decode`), any that is valid IL and fits one of the given shapes; then
instrumentation methods may apply the single return (more than once), insert a
probe at its branch target and use the locals; `Render` is
`ApplyIntermediateMethodInstrumentation` with `CalculateMaxStack` and
`CommitSignature`; then the method runs as `Evaluation` says. The locals are the
variables of `LocalVariables`, included by `INSTANCE`. The graph is the sequence
that `InstructionGraph` shows its links to represent. The estimate of
`CalculateMaxStack` is a `DWORD`, the field of the header 16 bits of it: the model takes
the sum modulo `Dword` (2^30 in place of 2^32, which TLC's integers do not hold) and
cuts it to 16 bits where the header is written. Assumed of callers
(`LocalVariables!Extensions`): a signature that replaces another begins with the locals
that are there, as code already in the graph refers to these by index.

The mapping to the original method, an `INSTANCE` of `Evaluation` over `code`, is
the argument why the rewriting is right: a store or branch that stands for a
return is at that return, with the stored value put back on the stack; the new
instructions at the end are where the original is over.

### Logging

A set of logging flags is a set of levels. The lock covers a whole setter, so a
setter is one step after its tests (`Call`, then `CallLocked`); logging takes a
step per sink with the lock held (`csHolder`). `SetLogFilePath` and
`SetLogFileLevel` take no lock: they are a step per sink they reset, between which
any step of another user may come, also of an engine that does the same. For the host
sink they are two, because `GetLoggingHost` nulls the sink's pointer before it waits
for the lock (`AskHost`, `HostAnswers`; `LoggerService.cpp:40` and `:44`).
`Construct` is `CLogging::Initialize` up to the count. The life of an engine ends
with two calls of `CLogging::Shutdown` as in the code; the shutdown of the event sink
resets its init-once also when it fails.

The interleavings of the unlocked setters are data races on vectors. The model has
the outcomes that are no crash: a loop over a list that is cleared and refilled goes on
with what is in it (`ListChanges`), and resetting the sinks of a service that was shut down
meanwhile resets none. The history `torn` says that a change came between the steps
of an unlocked one and that no recalculation has set all right since; `Settled` that
nobody is in an unlocked setter.

`Unprefixed` are the methods with `DisableLogMethodPrefix`: their entries go through
`CLogging::LogMessage`, which tests `s_cachedFlags` again. `MethodHeard` is about the
level of a method and the sinks that would take its entries, which is what the other
methods' entries depend on.

### EventLogging and EventLog

A step of `EventLogging` is what happens under the lock of the queue or between
two waits. The thread is at one of `starting`, `waiting`, `woken`, `draining`,
`done`, `failed`. The calls of the system in `MayFail` fail or not: `CoInitialize` and
a wait end the thread, `SetEvent` leaves it asleep (`missed`, until the next that
succeeds) and makes a termination return early, `ReportEvent` drops the entry ("if
this fails, we're out of luck"), `DeregisterEventSource` leaves the source open. `outcomes`
records what became of each entry that was taken from the queue: `written`, `refused` by
the event log, or `closed`, given to a source that is no longer there.

`EventLog` is the promise: what is accepted is given to the event log in order, once,
to an open one as long as the logger works, and then eventually. It works while its
thread has not failed, the source is not closed and no wake-up was missed. What the event
log does with an entry is not promised. The mapping takes the thread's batch followed
by the queue as what is pending.

### ProfilerProxy

A version has its string as in the code: numerals without leading zeros,
characters in the order of their codes (`Numeral`, `VersionString`), because
`Compare` goes by these. Folders come in any order, and may come and go during the
search. The engine counts its objects itself: external.

## 3. Runs

All runs allow the system to stop: callers and the CLR may stop calling, and the
number of calls is bounded.

| run | instance | shows |
|---|---|---|
| `registry` | two configured methods with one class id, a third at run time; two threads, one of them the loader; an immutable flag; a raw profiler | `PriorityOrder`, `OwnFlags`, `SubscriptionsKept` and `TypeOK` under nested, failing and concurrent adds and removals, and `LoaderFinishes`: the loading thread comes to its end |
| `appdomains` | one appdomain, two assemblies, three modules, one of them resource-only; two threads; failures; the engine is there first or attaches | `UnloadedOnce`, `Released`, `SilentAfterShutdown`, `UnloadsBeforeShutdown`, `BackReferences`, `Tracked`, `DomainReleased` |
| `jit` | two threads; two instances of a generic method and a method of a dynamic module, each module known from any time on; two instrumentation methods and a raw profiler, also before the module is known | `OnePass`, `OriginalKept`, `AllOrNothing`, `MapComposes`, `MarkersGrow`, `InfosTracked` |
| `graph` | a branch, a switch and a try range with a handler; a baseline with a branch, which may fail to decode; two new instructions, one of them a branch | `WellLinked`, `BranchesTracked`, `ClausesInGraph`, `ClauseOrder`, `OffsetsFresh`, `InsertedGoesWithNext` |
| `single_ret` | every valid body of five families of methods (branches, switches, tail calls, a try range, users of the locals), returning nothing, a value or a byref | `ImplementsOriginal`, `EveryReturnSeen`, `StackFits`, `IndexesNameLocals` |
| `logging` | two engines, both of which may change the log file without the lock, a wrapper, two methods, one of them without prefix, two levels, four sinks, an event source that may fail | `ListsFresh`, `MethodHeard`, `HostSilent`, `ReleasedForGood` |
| `event_log` | four entries, one of them empty; every call of the system may fail; a close that may time out | `ImplementsEventLog`, `NothingLost`, `NoLostWakeup`, `DrainedAtClose`, `LengthTracked` |

Every module has a `TypeOK`; `registry` checks its own, which a theorem states as
well, and the other runs spend their time on properties.

Five runs check a statement of the repository that the code does not keep. Each
is expected to end with a violation, and `PROJECT.json` quotes the statement:

- `mutable_settable`: a method that set an immutable flag and then failed its
  `Initialize` leaves the flag with the CLR alone, so later masks are refused
  even if they change mutable flags only (`ProfilerManager.cpp:794`).
- `flags_associated`: a method whose `Initialize` adds another one is registered
  without its flags. The end of the inner `Initialize` takes the one flag
  `m_bIsInitializingInstrumentationMethod` and the collected flags back
  (`ProfilerManager.cpp:1048` to `1052`): what the outer method set before is
  forgotten at the next change of the mask, and what it sets afterwards becomes the
  host's. The comment at `:763` says flags set in `Initialize` "will be associated with
  this InstrumentationMethod".
- `duplicate_addition`: two threads that construct one appdomain; the second
  insertion drops what the first had collected (`AppDomainCollection.cpp:35`).
- `wrapper_logs`: an engine gives the logging service back twice, in `Shutdown` and
  in its destructor, and takes a wrapper's count with it
  (`ProfilerManager.cpp:1315` and `:101`).
- `proxy_latest`: versions are compared as strings, so that 1.0.9 is loaded where
  1.0.10 is installed (`InstrumentationEngineVersion.cpp:77`).

### Bounds and why they are enough

- Registry: two threads suffice for every conflict over one lock; two configured
  methods with one class id meet the duplicate check, the third meets nesting
  and equal priorities. Instances are used once, which bounds the run without a
  counter. One flag is enough for a subscription to be lost, and an immutable one for
  a mask to be refused; the high word takes the same steps and needs no bits of its
  own (`HighFlags` is empty). The two violation runs have a mutable flag as well.
  0.34 million states.
- AppDomains: one appdomain and assembly are what two loads race for; two
  modules let one be loaded while the other is unloaded, and let a fabricated
  loop stop in its middle; the second assembly has the resource-only module that
  ends an enumeration. No counter is needed: an id is loaded once. 1.65 million
  states.
- MethodInstrumentation: `MaxWork` = 2 compilations, inlinings or rejit requests
  is the least that lets passes of one token overlap or follow one another;
  `MaxRawMaps` = 1 lets the raw profiler's map come after a baseline's and the
  methods', `MaxRawBodies` gives the generic method one body before the engine has
  read it.
  1.6 million states.
- InstructionGraph: `MaxEdits` = 3 is an edit, an edit of what it left, and one
  more that relies on both; the proofs have no bound. `MaxClauses` = 3 allows two
  additions next to the decoded clause. 0.85 million states.
- SingleReturn: four to eight instructions are the least in which each family has
  several returns of which some are jump targets, lie behind one another or follow
  a tail call. `MaxDepth` = 2 lets a value lie under another. `MaxApplied` = 2 is
  a second application to the result of the first. `MaxLocals` = 3 leaves room for
  the original's local, the returned value and one more. 1.46 million states.
- Logging: two engines are what two CLRs in a process make; `MaxCalls` = 3 is a
  change, a change over it, and an entry; `CountModulus` = 8 is more than there
  are users on either side of zero. 0.9 million states up to symmetry.
- EventLogging: lengths 0 to 3 against `MaxQueueLength` = 3 have entries that fill
  the queue, exceed it and are refused. 25,000 states.
- ProfilerProxy: releases on both sides of a further digit, and a preview of one.

Symmetry is used in `jit` (threads, generic instances) and `logging` (engines), where these are only
compared for equality and no liveness is checked.

### Fairness

- `LoaderFinishes`: weak fairness of the loading thread where it needs no lock and of
  a thread that has begun a call of the engine (threads are scheduled); strong
  fairness of `LoadNext`, the step with which the loading thread takes `m_cs` (a thread
  that waits for a critical section that is free again and again gets it); and
  strong fairness of the end of a method's `Initialize` (it returns after finitely
  many calls of the engine; the engine has no timeout on a single method and can do
  nothing against one that does not return). The loading thread ends only where its
  list is empty; nothing makes a source fail.
- `DomainReleased`: weak fairness of the steps of a callback that has begun. No
  callback has to begin.
- `ImplementsEventLog`: weak fairness of the logger's thread. Callers may stop,
  nobody has to close, and nothing makes a call of the system fail.

### Known divergences without a run

Met while the code was modelled. Where a property would be broken by one of
these, the model has the behaviour, and the property names the exception.

Registry and manager:

- `m_dwEventMaskHigh` is read, modified and written without `m_cs`
  (`ProfilerManager.cpp:1224`), and `AddRawProfilerHook` tests before it waits for
  the lock, so that a second hook can replace the first (`:203`).
- The loading thread is abandoned after a minute and goes on changing the registry
  (`:168`); `ProfilerManager.h:270` says the wait "blocks until this is complete".
- `m_bIsInInitialize` is written without `m_cs` (`:1038` to `:1046`), so that a mask that
  was allowed because of it may reach the CLR after `Initialize` (`:1183`).
- A resource-only module in the enumeration ends `ProfilerAttachComplete` before
  the methods are told (`:3087`); `InstrumentationEngine.idl:1664` promises it.
- An appdomain whose creation fails stays in the collection (`:1364`).
- A module whose manifest cannot be read is reported unloaded and never loaded
  (`AssemblyInfo.cpp:70`).

Method instrumentation:

- A rejit requests the direct inline sites of a method, not recursively as the
  comment at `ModuleInfo.cpp:479` says (`:485`).
- The map that a failing pass has merged is what the `JitComplete` event of the
  uninstrumented code shows (`ModuleInfo.cpp:965`, `InstrumentationEngine.idl:1553`).
- `ClearILTransformationStatus` of a second compilation of a token can come before
  the `JitComplete` of the first (`ProfilerManager.cpp:1882`).

Instruction graph:

- One entry of a switch set elsewhere hides the other entries that lead to the same
  instruction from retargeting (`BranchTargetInfo.cpp:67`).
- `ExpandBranch` and `RemoveBranchTargetAt` do not mark offsets stale
  (`Instruction.cpp:1043`); `CreateBaseline` does not expand short branches, nor does
  anything check the one byte of a short operand (`InstructionGraph.cpp:157`,
  `Instruction.cpp:358`), and a baseline that cannot be decoded leaves a list without
  its last instruction (`:231`, `:308`); `Remove` moves the end of a range to an instruction
  that may be outside (`:982`); `InsertAfter(NULL)` on a list that is not empty,
  and inserting an instruction twice, break the links (`:830`);
  `RemoveBranchTarget` skips or overruns (`Instruction.cpp:1216`).

Single return and locals:

- A jump to the return of a tail call does not come by the new return
  (`SingleRetDefaultInstrumentation.cpp:155` takes it for impossible), and the
  iterator of the search is decremented at the first element (`:200`).
- `SetLocalVarSigToken` changes the header under a collection that has already
  counted (`MethodInfo.cpp:919`); `GetOriginalLocalVariables` reads the new header
  (`InstrumentationEngine.idl:891`).

Logging:

- `SetLogFilePath` and `SetLogFileLevel` do not take `m_cs`
  (`LoggerService.cpp:456` to `485`), "Used to protect all fields"
  (`LoggerService.h:50`), while side-by-side CLRs share the service
  (`src/docs/logging.md:12`). Lists that two changes filled at a time stay wrong until the next
  recalculation (`torn`, excepted in `ListsFresh`); an entry on its way to the host
  sink may meet a null pointer (`LoggerService.cpp:40`, excepted in `HostSilent`: without
  `HostAsked` TLC finds it violated). The crashes the races can end in are not modelled.
- An event source that cannot be opened leaves the lists incomplete and the flags
  as they were: the sinks behind it get nothing (`LoggerService.cpp:361`).
- `s_initialize` is not reset: a service that was shut down is not used again.
- After the 15 seconds of `TerminateEventSource` the thread uses an object that is
  destroyed (`EventLoggingBase.cpp:144`).

Proxy and base extension:

- `UseSpecificVersion` is read into a buffer that is said to have one character
  (`dllmain.cpp:266` of the proxy); debug previews compare above their releases
  (`InstrumentationEngineVersion.cpp:67`).
- The second method of an appdomain goes into a copy of the list
  (`HostExtensionBase.cpp:295`).

## 4. Proofs

**Registry** (`InstrumentationMethods_proofs`): `TypeCorrect`, `PriorityOrdered`,
`FlagsAreOwn` (`OwnFlags`) and `SubscriptionsAreKept`, for any methods, priorities,
threads, flags and hooks that satisfy the module's named assumptions. One inductive
invariant serves all,

    IInv == TypeOK /\ PriorityOrder /\ LoaderInv /\ CallInv /\ FlagsInv

`OwnFlags` and `SubscriptionsKept` are not inductive, because the flags a method
collects during its `Initialize` are in no entry until it returns, and because what
the CLR was granted must still be in what the next mask is made of. `FlagsInv` says
both, in four parts: `EntryInv` of an entry and `HostInv` of the host, that what was
granted is in the CLR's mask and in their own flags; `TopInv`, that the flags being
collected are those the innermost `Initialize` asked for, unless it is disturbed; and
`StackInv`, that all the enclosing ones are, which is why no more need be known of
them. `CallInv` carries this over the two steps of `SetEventMask`: a thread that is
about to give the CLR a mask holds `m_cs` and carries the collected flags. `LoaderInv`
ties the position of the loading thread to its hold on `m_cs`: it can add the head of
its list only where there is one. Removal at a position and insertion by priority are
lemmas on sequences; the frame lemmas say what each group of calls leaves alone.

**Appdomains** (`AppDomains_proofs`): `MapsReferBack`, `UnloadsOnce`,
`UnloadReleases` and `ShutdownSilences` (and `TypesHold`), for any appdomains,
assemblies, modules, callback threads and histories of the process, from

    IInv == TypeOK /\ AttachAlone /\ CallsFit
            /\ DomainRefs /\ AssemblyRefs /\ ModuleRefs /\ CollectionRefs /\ OneObject
            /\ DomainUnloads /\ AssemblyUnloads /\ ModuleUnloads

None of the four properties is inductive. An unload is reported once because the
module is not found a second time, and that is a statement about all objects, also
those another thread has replaced in a map: `ModuleUnloads` says of a module whose
unload was accepted that nobody loads it, that the CLR has it or its appdomain
gone, and that its object is out of every map, or in the hands of the one thread
that is about to clean it up under `m_csForAppDomains`. `OneObject` (a module id
has one object, from the end of its load on) makes that enough, and
`AttachAlone` keeps it true when `ProfilerAttachComplete` enumerates modules that
the CLR reports as well. `DomainUnloads` (an appdomain whose shutdown was accepted
is out of the collection, and nothing loads into it) gives
`SilentAfterShutdown`. The three `...Refs` and `CollectionRefs` say which objects
the maps hold; `DomainRefs` contains `BackReferences`. `CallsFit` says what the local
pointers of a callback are at each of its steps, across the gaps between the locks.
The proof first shows of every action what it does to objects, maps, lives, loads
and unloads, in one predicate each (gathered in `StepOf`), and then each part of
the invariant from these, so that no part is proved action by action.

`LoadedIsTracked` (`Tracked`) and `UnloadsComeFirst` (`UnloadsBeforeShutdown`) speak of
executions in which no two loads raced to construct one object, and need `TrackInv`
on top of it. `KnownListed` is the property for the modules the methods know of and
for those an attach has enumerated already, which it will announce only later.
`LoadsCurrent` says that the appdomain a load has looked up is still the one in the
collection (replacing it is the race), and that the module is in the appdomain's map
before it is in the assembly's. `ShutsCurrent` says that a shutdown no method has
hindered still has before it whatever its map holds, so that nothing is left when
the methods are told.

**Method instrumentation** (`MethodInstrumentation_proofs`): `NoInfoLeaks`,
`CacheKeepsOriginal`, `IlOfOnePass`, `RejitCountsGrow`, `PassIsAllOrNothing` and
`MapsCompose`, for any threads, functions, generic instances, modules, methods and
maps, from

    IInv == Types /\ LockHeld /\ JobsFit /\ MapsHold /\ AllBuilt /\ AllCached
            /\ OriginalKept /\ OnePass /\ MarkersBounded /\ MarkersGrow

`AllBuilt` is the core: it says for each step of a pass what its graph, its
`CMethodInfo` and the raw profiler's copy hold by then, namely the edits of the
methods called so far, of all that asked, or those with the raw profiler's on top.
`AllCached` says that a pass that has read IL has left the original (`origin`) in the
cache, which is why a second pass of the same token does not start from the result
of the first, and a raw write that goes straight to the CLR from then on is an edit
of the original. `MapsHold` lists the objects the holder of `m_csForJIT` has in the
three maps at each step; no step of another thread adds one. `MarkersBounded`
bounds the counts that were given to the CLR by the method's own, strictly while a
rejit has yet to give its. `AllOrNothing` is stated of the step that gives the CLR
a body: the body has the edits of exactly the methods that asked.

`MapsCompose` (`MapComposes`) has an invariant of its own, `MapInv`: the map of a pass is
what its stages compose to, and empty before the first. `MergeLoop` unfolds the loop
of `MergeILInstrumentedCodeMap`, `MergeFacts` shows by induction on its rounds that it
is composition up to the choice of the last of several entries for an offset, and
`ThroughFacts` that this choice does not matter to the next merge: what goes through
a map depends on the offsets it starts from. The condition that no stage loses all
of the original is needed: an empty map counts as none, and the next merge starts
afresh.

**Logging** (`Logging_proofs`): `ListsAreFresh`, `MethodsAreHeard`, `HostIsSilent` and
`ShutdownReleases`, for any engines, wrappers, methods, levels, platforms and
environment variables, and with every engine free to change the log file at any time,
from

    IInv == TypeOK /\ CallsFit /\ LockHeld /\ ServiceFits /\ MethodsFit
            /\ HostsFit /\ AttachAlone /\ ListsFollow

`ServiceFits` says that a service
that was shut down has no sinks, so that a late call recalculates nothing.
`HostsFit` ties three things that change at different moments, the host of the
service, the host the sink took over at its last reset, and the sinks an entry on
its way has left: the host sink is in a list, or ahead of an entry, only when both
hosts are the same and their engine is still up, or an engine has just nulled the
sink's and is about to set it (`HostThere`, `HostAsked`). `MethodsFit` says who wants a
level, because `MethodHeard` speaks of the union only, from which one cannot see
that another method's update leaves it. `ListsFollow` is `ListsFresh` inside the
loop of `SetLogFilePath` too: the lists are right for the sinks that were reset so
far (`Done`); `AttachAlone` says that two engines are in the loop only when something is
torn. What one reset does to one
sink is a lemma by cases on the sink (`TakesWhatItWants`), a whole recalculation
four of them in a row.

**Graph** (`InstructionGraph_proofs`): `LinksRepresentTheMethod`, that is
`Spec => []WellLinked`, for any method, baseline and supply of instructions and
any number of calls. The invariant is `LinkTypes /\ WellLinked`. Insertion,
replacement and deletion in an injective sequence are lemmas about sequences
first (`InsertLinks`, `ReplaceLinks`, `DeleteLinks`, and `DecodedLinks` for a
list made at once, also by a baseline that fails), stated through `At`, which gives `Null` beyond the ends so
that the ends need no cases; each call of the interface is then one of them.

`BranchesAreTracked` (`Spec => []BranchesTracked`) is proved on top of it. Two
things have to be known besides: that an inserted instruction is not the one it
is put before (`WellLinked` gives that), and that a branch of the baseline leads
nowhere before the baseline is decoded, as decoding adds to the infos and takes
nothing out. The latter is `BaselineUnmade`, part of `JumpInv`. Switches are
excepted: see the divergence at `BranchTargetInfo.cpp:67`.

`OffsetsAreFresh` (`OffsetsFresh`) is about offsets, sums over the sizes of the
instructions before. `OffsetInv` adds that the branches of a baseline are in their short
form until it is decoded (`FormInv`), as decoding lays them out so. Running sums are unfolded once
(`RunningSumExists`), and that they depend only on what comes before is shown by the
least place where they differ.

`ClausesStayInGraph` (`ClausesInGraph`) and `ClausesStayOrdered` (`ClauseOrder`) rest on
`ClauseInv` and `OrderInv`, for any valid method: the instructions of the decoded clauses
are found in it, no range ends before it begins, try ranges are nested or apart and
inner ones come first (`ClausesAssumption`, `NestingAssumption`; `InitInstructions`
ignores what the lookups return, at `ExceptionClause.cpp:31` and `:61`, so an invalid
method is not refused). `ClauseOrder` is not inductive: that a new clause goes before
the ranges around it says nothing of two that overlap, so `NestedTries` keeps all try
ranges nested or apart. Insertions, replacements and removals are treated alike: each
carries the ends of ranges from place to place by a map that keeps their order
(`Carried`), and whatever is stated by comparing places is kept by such a map.

`MapCoversInserted` (`InsertedGoesWithNext`) follows from the same facts about places: the
entries of the IL map begin at places that grow strictly with the original
instruction, so the last entry at or before an instruction is that of its owner.

**Event log** (`EventLogging_proofs`): `NothingIsLost`, `NoWakeupIsLost`,
`CloseDrains`, for any entries, lengths and limit, from

    IInv == TypeOK /\ Phases /\ LastBatch /\ Wake /\ NothingLost

`Wake` is `NoLostWakeup` at every place from which the thread gets to its wait, not
only at the wait: an entry that comes while the thread drains must leave the event
set. `LastBatch` says that a batch taken together with the shutdown request is the
last, because nothing is queued after the request; `Phases` ties source, thread
and close, so that the source is open under a thread that nobody gave up. Both hold
whichever calls of the system fail.
`StepsImplementEventLog` shows on top of it that the initial states and every step
map to the abstract log; its liveness is left to TLC. `LengthIsTracked` (`LengthTracked`)
has the sum over the queue as a recursive function, and `LengthOfAppend` and the empty
queue are all the steps need of it.

**Local variables** (`SingleReturn_proofs`): `IndexesStayRight`, that is
`IndexesNameLocals` for any types, methods and number of calls. It is composed of two
parts. `ImplementsLocals` shows that `SingleReturn` implements `LocalVariables`: the single
return and the rendering do to the collection what one of its operations does, and
nothing else touches it. In `LocalVariables` itself the property speaks of the signature
that would be committed, the invariant (`Counted`, `GivenNamed`) of the locals that
everybody counts on, which is the header's signature as long as the collection has not
counted, and the counted one with the added types afterwards. `CorSignatureIsCurrent`
shows that both are the same.

**Single return** (`SingleReturn_proofs`): `ReturnsAreSeen` (`EveryReturnSeen`), for methods
of any length. The property speaks of one run of the method, the difficulty is in the edits
before it, so the argument has three layers. `Kept` is what every edit of the graph keeps of
the original method: distinct ids, jumps that stay in the graph, the prefix of a tail call,
and that only a tail call leads to what comes after it (`Skipped`); `InsertKeeps`,
`ReplaceKeeps` and `AppendKeeps` show it for the three kinds of edits. `Going` is the loop
over the returns, with those that wait and those that are done; after the last round
(`SingleIsMade`) the only return outside of tail calls is the new one, and where the value is
stored only the load leads to it. `Watched` is the graph with the probe: `A` is the set of
instructions behind it, every return that can be executed is in `A`, and nothing but the
probe leads into `A`. While the method runs the invariant is then short (`Sees`): it has
been seen once if it is in `A`, and never otherwise. `MethodInv` says which of the phases
(`Plain`, `Half`, `Single`, `UnderWatch`) the method is in; that a second application finds
nothing left to replace, and that nobody puts a probe into a method left half-way, are
part of its proof.

**The original method** (`SingleReturn_proofs`): `ImplementsTheOriginal`, that is
`ImplementsOriginal` for method bodies of any length. The rendered method, executed as
`Evaluation` says, implements the original one under the mapping that the run checks: a
replaced return is still the original return until its branch is taken, with the stored value
put back on the stack, and from there on the original has returned. The edits again come
first. `Mirrors` says of every position of the graph which original instruction it stands
for: the same opcode, jumps and next instruction up to what stands for those, a store that
is followed by its branch, a branch that leads to the exit. It is carried through every
round of the loop (`RoundMirrors`) and past the probe, and gives `Follows` for the graph in
each of the phases (`PlainFollows`, `SingleFollows`, `ProbedFollows`). The run then needs
two invariants. `DepthsOK` says that the depths the compiler saw to agree along every jump
and fall-through: without it the store of a return could take from an empty stack, or leave
values behind that the original does not have. `RunOK` says where the method is: at what
stands for an original instruction with the depth of that one, at a branch with the value in
the slot, or on the way out with the value in the slot or on top of the stack. Each
instruction is then a step of the original (`OriginalSteps`, `BranchSteps`: the return) or
none (`ProbeStays`, `StoreStays`, `LoadStays`, `PassStays`, `ReturnStays`). A tail call has
its own lemmas (`TailBefore`, `TailAfter`): the CLR looks at the instructions around the
call, so these have to be where the original has them.

**Assumptions.** The proofs rest on the named `ASSUME`s of the modules, which TLC
evaluates on every run: the ids of different kinds are distinct, stand-ins such as
`NoThread`, `NoHost` or `Null` are none of the things they stand in for, functions
given as constants have their domains and ranges, bounds are natural numbers.
The methods of `InstructionGraph` have valid exception clauses, and the stand-ins for no
signature and for an unreadable one are not signatures (`TypesAssumption`); the jumps of a
method, which has some, lead to its instructions, a try range is followed by a handler
(`ShapesAssumption`), and the stand-in for no instruction is not the name of one
(`NullAssumption`). Nothing else is assumed of the constants, and no theorem has a
hypothesis of its own.

**Loops.** A loop of the code is a recursive function over the rounds (`RecursionExists`
and `RunningSumExists` of `NaturalsLemmas` show that it is defined, so that it can be
unfolded), and what it computes is shown by taking the least round for which it would
fail (`LeastNatural`), which does the work of induction without an induction rule.

**Only model-checked**:

- liveness: `LoaderFinishes`, `DomainReleased`, and the liveness in
  `ImplementsEventLog`;
- `StackFits` of `SingleReturn`: for every method it is false. The estimate of
  `CalculateMaxStack` carries the depth over instructions that do not fall through, so
  it can grow with every block that ends in a jump with a value on the stack, and wrap at
  2^16 in a method of more than 65,535 such blocks; a bound on the length would have to be
  assumed that the code does not check;
- what `ProfilerProxy` promises is violated (see the runs), so there is nothing to prove.

## 5. Not modelled

- `SetupProfilingEnvironment`: a host gives the engine other configuration sources and
  runs the loading thread on them. The model loads one list, once.
- The operands of jumps that `EncodeIL` writes. For the long forms they are differences of
  the offsets that `OffsetsFresh` is about; a short one is cut to a byte (see the
  hazard at `Instruction.cpp:358`).
- Dynamic methods, deferred transformations and the pause that a rejit of a method
  being compiled makes: variations of the pass in `MethodInstrumentation` whose
  order is decided by the CLR's own state.
- Data containers and reference counts: a map of two keys behind one lock per
  call, and counts that one interlocked operation changes.
- Signature parsing and building: bytes, with no state beyond a cursor.
- Configuration search, attach handler and hook loader: file, registry and process
  I/O. `InstrumentationMethods` takes what they find as constants.
- Assembly injection and type creation: sequential copying of metadata whose state
  is the CLR's.
- The base extension: a client of the engine.
- The Unix platform layer (ported ATL, Windows headers), installers, packages,
  generated interfaces and test drivers. These, with generated headers, are most
  of the repository's lines.

## 6. Plan

Models: an abstract specification of what instrumentation promises (a method has
its original IL until one whole pass replaces it), with `MethodInstrumentation`
shown to implement it; dynamic methods and deferred transformations.
