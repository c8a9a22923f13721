----------------------------- MODULE AppDomains -----------------------------
(* The engine's picture of what the CLR has loaded: CAppDomainCollection, the *)
(* CAppDomainInfo objects in it, and the CAssemblyInfo and CModuleInfo objects *)
(* hanging off those, as the CLR's callbacks build it up and take it down.    *)
(*                                                                            *)
(* Each map has a critical section of its own that covers one operation, so   *)
(* a step is one operation on one map. The callbacks that load something take *)
(* no other lock: a lookup and the insertion that follows are separate steps. *)
(* The callbacks that unload something hold m_csForAppDomains throughout.     *)
(* Objects are referred to by their index in the order of construction; 0 is  *)
(* the null pointer, and a map is a function that gives 0 where it has no key. *)
EXTENDS Integers, Sequences, FiniteSets

CONSTANTS
    Domains, Assemblies, Modules,   \* AppDomainID, AssemblyID, ModuleID
    DomainOf,       \* the appdomain of each assembly, from GetAssemblyInfo
    AssemblyOf,     \* the assembly of each module, from GetModuleInfo
    Manifest,       \* the modules that hold the manifest of their assembly
    ResourceOnly,   \* the modules without metadata
    Processes,      \* the processes the engine may be in: what was loaded before the engine attached
                    \* (nothing, if it started with the process) and what may be loaded later
    Threads, NoThread,
    CanFail         \* instrumentation methods and the metadata interfaces may return errors

Ids == Domains \cup Assemblies \cup Modules

ASSUME IdsAssumption ==
    /\ Domains \cap Assemblies = {}
    /\ Domains \cap Modules = {}
    /\ Assemblies \cap Modules = {}
    /\ DomainOf \in [Assemblies -> Domains]
    /\ AssemblyOf \in [Modules -> Assemblies]
    /\ Manifest \subseteq Modules
    /\ ResourceOnly \subseteq Modules
    /\ Processes \subseteq [before : SUBSET Ids, later : SUBSET Ids]
ASSUME ThreadsAssumption == NoThread \notin Threads
ASSUME CanFailAssumption == CanFail \in BOOLEAN

VARIABLES
    atAttach,       \* what was loaded before the engine attached
    life,           \* the CLR's view of each id
    phase,          \* of the engine: "attaching", "running", "shutdown"
    owner,          \* the holder of m_csForAppDomains between steps
    pc, call,       \* the callback each thread is in, and its local variables
    appDomains,     \* m_appDomains of the collection
    domains,        \* the CAppDomainInfo objects
    assemblies,     \* the CAssemblyInfo objects
    modules,        \* the CModuleInfo objects
    announced,      \* history: ids whose created or loaded event was sent
    withdrawn,      \* history: how often the unload event of an id was sent and accepted
    raced,          \* history: an insertion into a map replaced an object
    failed,         \* history: an instrumentation method or metadata call has failed
    attachTold      \* history: AttachComplete was sent

clrVars == <<life, phase>>
objVars == <<appDomains, domains, assemblies, modules>>
histVars == <<announced, withdrawn, raced, failed, atAttach, attachTold>>
vars == <<clrVars, owner, pc, call, objVars, histVars>>

\* The appdomain an assembly or a module lives in.
HomeOf(x) == IF x \in Modules THEN DomainOf[AssemblyOf[x]]
             ELSE IF x \in Assemblies THEN DomainOf[x] ELSE x

AsmMap == [Assemblies -> Nat]
ModMap == [Modules -> Nat]
DomainInfo == [id : Domains, initialized : BOOLEAN, asms : AsmMap, mods : ModMap]
AssemblyInfo == [id : Assemblies, dom : Nat, mods : ModMap, manifest : Nat]
ModuleInfo == [id : Modules, dom : Nat, asm : Nat, disposed : BOOLEAN]

\* The local variables of a callback: what it is about and the pointers it holds.
Callback == {"none", "domain", "assembly", "module", "attach", "unload", "shutdown"}
Call == [cb : Callback, id : Ids \cup {NoThread}, dom : Nat, asm : Nat, mod : Nat, todo : SUBSET Ids]
NoCall == [cb |-> "none", id |-> NoThread, dom |-> 0, asm |-> 0, mod |-> 0, todo |-> {}]

NoMods == [m \in Modules |-> 0]
CAppDomainInfo(d) == [id |-> d, initialized |-> FALSE, asms |-> [a \in Assemblies |-> 0], mods |-> NoMods]
CAssemblyInfo(a, dom) == [id |-> a, dom |-> dom, mods |-> NoMods, manifest |-> 0]
CModuleInfo(m, dom, asm) == [id |-> m, dom |-> dom, asm |-> asm, disposed |-> FALSE]

Init ==
    /\ \E p \in Processes :
          /\ atAttach = p.before
          /\ life = [x \in Ids |-> CASE x \in p.before -> "present"
                                     [] x \in p.later \ p.before -> "absent"
                                     [] OTHER -> "unused"]
    /\ phase = IF atAttach = {} THEN "running" ELSE "attaching"
    /\ owner = NoThread
    /\ pc = [t \in Threads |-> "idle"]
    /\ call = [t \in Threads |-> NoCall]
    /\ appDomains = [d \in Domains |-> 0]
    /\ domains = <<>>
    /\ assemblies = <<>>
    /\ modules = <<>>
    /\ announced = {}
    /\ withdrawn = [x \in Ids |-> 0]
    /\ raced = FALSE
    /\ failed = FALSE
    /\ attachTold = FALSE

-----------------------------------------------------------------------------
(* Lookups and the control of a callback.                                    *)

\* CAppDomainCollection::GetAssemblyInfoById and GetModuleInfoById ask every
\* appdomain in the collection, in no particular order.
AssemblyInfosById(a) == {domains[appDomains[d]].asms[a] : d \in {e \in Domains : appDomains[e] # 0}} \ {0}
ModuleInfosById(m) == {domains[appDomains[d]].mods[m] : d \in {e \in Domains : appDomains[e] # 0}} \ {0}

Goto(t, label) == pc' = [pc EXCEPT ![t] = label]
Begin(t, label, c) == Goto(t, label) /\ call' = [call EXCEPT ![t] = c]
Return(t) == Begin(t, "idle", NoCall)

\* The CLR calls back on any thread that is not inside a callback already.
CanBegin(t) == phase = "running" /\ pc[t] = "idle"

\* Outcome of a call that can return an error.
Outcome == IF CanFail THEN BOOLEAN ELSE {TRUE}
Note(ok) == failed' = (failed \/ ~ok)

\* The assembly that a load callback is about, and its appdomain.
TheAssembly(t) == IF call[t].id \in Modules THEN AssemblyOf[call[t].id] ELSE call[t].id
TheDomain(t) == HomeOf(call[t].id)

\* A load callback ends; for the attach thread one module of the enumeration
\* ends, and ProfilerAttachComplete returns at once if it failed.
EndLoad(t, ok) ==
    LET c == call[t] IN
    /\ IF c.cb = "attach"
       THEN IF ok THEN Begin(t, "attach", [NoCall EXCEPT !.cb = "attach", !.todo = c.todo]) ELSE Return(t)
       ELSE Return(t)
    /\ phase' = IF c.cb = "attach" /\ ~ok /\ phase = "attaching" THEN "running" ELSE phase
    /\ life' = IF c.cb \in {"assembly", "module"} THEN [life EXCEPT ![c.id] = "present"] ELSE life
    /\ announced' = IF ok /\ c.cb \in {"assembly", "module"} THEN announced \cup {c.id} ELSE announced

-----------------------------------------------------------------------------
(* Loading.                                                                  *)

AppDomainCreationStarted(t, d) ==
    /\ CanBegin(t)
    /\ life[d] = "absent"
    /\ life' = [life EXCEPT ![d] = "loading"]
    /\ Begin(t, "domain", [NoCall EXCEPT !.cb = "domain", !.id = d])
    /\ UNCHANGED <<phase, owner, objVars, histVars>>

\* hrStatus is a failure: nothing is done. Otherwise FinishInitialization reads
\* the name, which may fail, and the methods are told; when it is the second of
\* its two queries that fails, it returns S_OK without having initialized anything.
AppDomainCreationFinished(t, d, hrStatus, ok) ==
    LET r == appDomains[d]
        finished == hrStatus /\ r # 0 /\ ok
    IN
    /\ CanBegin(t)
    /\ life[d] = "loading"
    /\ \A u \in Threads : call[u].id # d
    /\ life' = [life EXCEPT ![d] = IF hrStatus THEN "present" ELSE "gone"]
    /\ \E named \in Outcome :
          domains' = IF finished /\ named THEN [domains EXCEPT ![r].initialized = TRUE] ELSE domains
    /\ announced' = IF finished THEN announced \cup {d} ELSE announced
    /\ Note(ok)
    /\ UNCHANGED <<phase, owner, pc, call, appDomains, assemblies, modules, withdrawn, raced, atAttach, attachTold>>

AssemblyLoadFinished(t, a) ==
    /\ CanBegin(t)
    /\ life[a] = "absent"
    /\ life[HomeOf(a)] # "gone"
    /\ life' = [life EXCEPT ![a] = "loading"]
    /\ Begin(t, "assembly", [NoCall EXCEPT !.cb = "assembly", !.id = a])
    /\ UNCHANGED <<phase, owner, objVars, histVars>>

\* For a module that has no metadata ConstructModuleInfo fails, as expected, and
\* only the raw profiler hears of it.
ModuleAttachedToAssembly(t, m) ==
    /\ CanBegin(t)
    /\ life[m] = "absent"
    /\ life[HomeOf(m)] # "gone"
    /\ life[AssemblyOf[m]] # "gone"
    /\ IF m \in ResourceOnly
       THEN /\ life' = [life EXCEPT ![m] = "present"]
            /\ UNCHANGED <<pc, call>>
       ELSE /\ life' = [life EXCEPT ![m] = "loading"]
            /\ Begin(t, "domain", [NoCall EXCEPT !.cb = "module", !.id = m])
    /\ UNCHANGED <<phase, owner, objVars, histVars>>

\* What follows once the appdomain is known.
AfterDomain(t, dom) ==
    IF call[t].cb = "domain" THEN Return(t) ELSE Begin(t, "assembly", [call[t] EXCEPT !.dom = dom])

\* GetAppDomainById in AppDomainCreationStarted and in ConstructModuleInfo.
FindAppDomain(t) ==
    LET r == appDomains[TheDomain(t)] IN
    /\ pc[t] = "domain"
    /\ IF r = 0 THEN Goto(t, "newDomain") /\ UNCHANGED call ELSE AfterDomain(t, r)
    /\ UNCHANGED <<clrVars, owner, objVars, histVars>>

ConstructAppDomainInfo(t) ==
    LET d == TheDomain(t)
        r == Len(domains) + 1
    IN
    /\ pc[t] = "newDomain"
    /\ domains' = Append(domains, CAppDomainInfo(d))
    /\ appDomains' = [appDomains EXCEPT ![d] = r]
    /\ raced' = (raced \/ appDomains[d] # 0)
    /\ AfterDomain(t, r)
    /\ UNCHANGED <<clrVars, owner, assemblies, modules, announced, withdrawn, failed, atAttach, attachTold>>

\* What follows once the assembly is known.
AfterAssembly(t, asm) ==
    IF call[t].cb = "assembly" THEN EndLoad(t, TRUE)
    ELSE Begin(t, "addModule", [call[t] EXCEPT !.asm = asm]) /\ UNCHANGED <<clrVars, announced>>

\* GetAssemblyInfoById in AssemblyLoadFinished and in ConstructModuleInfo.
FindAssembly(t) ==
    LET found == AssemblyInfosById(TheAssembly(t)) IN
    /\ pc[t] = "assembly"
    /\ \/ found = {} /\ Goto(t, "newAssembly") /\ UNCHANGED <<clrVars, call, announced>>
       \/ \E r \in found : AfterAssembly(t, r)
    /\ UNCHANGED <<owner, objVars, withdrawn, raced, failed, atAttach, attachTold>>

ConstructAssemblyInfoUnlinked(t) ==
    LET a == TheAssembly(t)
        dom == appDomains[DomainOf[a]]
        r == Len(assemblies) + 1
    IN
    /\ pc[t] = "newAssembly"
    /\ IF dom = 0
       THEN /\ EndLoad(t, FALSE)
            /\ UNCHANGED <<assemblies, domains, raced>>
       ELSE /\ assemblies' = Append(assemblies, CAssemblyInfo(a, call[t].dom))
            /\ domains' = [domains EXCEPT ![dom].asms[a] = r]
            /\ raced' = (raced \/ domains[dom].asms[a] # 0)
            /\ AfterAssembly(t, r)
    /\ UNCHANGED <<owner, appDomains, modules, withdrawn, failed, atAttach, attachTold>>

\* ConstructAssemblyInfo looks the appdomain up again and fails without one.
ConstructAssemblyInfo(t) ==
    LET a == TheAssembly(t)
        dom == appDomains[DomainOf[a]]
        r == Len(assemblies) + 1
    IN
    /\ pc[t] = "newAssembly"
    /\ IF dom = 0
       THEN /\ EndLoad(t, FALSE)
            /\ UNCHANGED <<assemblies, domains, raced>>
       ELSE /\ assemblies' = Append(assemblies, CAssemblyInfo(a, dom))
            /\ domains' = [domains EXCEPT ![dom].asms[a] = r]
            /\ raced' = (raced \/ domains[dom].asms[a] # 0)
            /\ AfterAssembly(t, r)
    /\ UNCHANGED <<owner, appDomains, modules, withdrawn, failed, atAttach, attachTold>>

\* ConstructModuleInfo, after the lookups: CModuleInfo::Initialize, which may
\* fail and leaves nothing behind ...
ModuleInitializeFails(t) ==
    /\ pc[t] = "addModule"
    /\ CanFail
    /\ EndLoad(t, FALSE)
    /\ Note(FALSE)
    /\ UNCHANGED <<owner, objVars, withdrawn, raced, atAttach, attachTold>>

\* ... or is followed by CAppDomainInfo::AddModuleInfo ...
ConstructModuleInfo(t) ==
    LET c == call[t]
        r == Len(modules) + 1
    IN
    /\ pc[t] = "addModule"
    /\ modules' = Append(modules, CModuleInfo(c.id, c.dom, c.asm))
    /\ domains' = [domains EXCEPT ![c.dom].mods[c.id] = r]
    /\ Begin(t, "addToAssembly", [c EXCEPT !.mod = r])
    /\ UNCHANGED <<clrVars, owner, appDomains, assemblies, histVars>>

\* ... then CAssemblyInfo::AddModuleInfo, which for the manifest module goes on
\* to read the assembly's properties and may fail there.
AddModuleInfo(t, ok) ==
    LET c == call[t]
        isManifest == c.id \in Manifest
    IN
    /\ pc[t] = "addToAssembly"
    /\ ok \/ isManifest
    /\ assemblies' = [assemblies EXCEPT ![c.asm].mods[c.id] = c.mod,
                                        ![c.asm].manifest = IF isManifest THEN c.mod ELSE @]
    /\ EndLoad(t, ok)
    /\ Note(ok)
    /\ UNCHANGED <<owner, appDomains, domains, modules, withdrawn, raced, atAttach, attachTold>>

-----------------------------------------------------------------------------
(* Attaching to a running process: the CLR is suspended meanwhile.           *)

ProfilerAttachComplete(t) ==
    /\ phase = "attaching"
    /\ \A u \in Threads : pc[u] = "idle"
    /\ Begin(t, "attach", [NoCall EXCEPT !.cb = "attach", !.todo = atAttach \cap Modules])
    /\ UNCHANGED <<clrVars, owner, objVars, histVars>>

\* The next module of the enumeration; the first ConstructModuleInfo to fail
\* ends the callback.
AttachNext(t, m) ==
    LET c == call[t] IN
    /\ pc[t] = "attach"
    /\ m \in c.todo
    /\ IF m \in ResourceOnly
       THEN Return(t) /\ phase' = "running"
       ELSE Begin(t, "domain", [c EXCEPT !.id = m, !.todo = @ \ {m}]) /\ UNCHANGED phase
    /\ UNCHANGED <<life, owner, objVars, histVars>>

AttachDoneEarly(t) ==
    /\ pc[t] = "attach"
    /\ attachTold' = TRUE
    /\ phase' = "running"
    /\ Return(t)
    /\ UNCHANGED <<life, owner, objVars, announced, withdrawn, raced, failed, atAttach>>

\* The enumeration is over: AttachComplete is sent to the methods.
AttachDone(t) ==
    /\ pc[t] = "attach"
    /\ call[t].todo = {}
    /\ attachTold' = TRUE
    /\ phase' = "running"
    /\ Return(t)
    /\ UNCHANGED <<life, owner, objVars, announced, withdrawn, raced, failed, atAttach>>

-----------------------------------------------------------------------------
(* Unloading, under m_csForAppDomains.                                       *)

CanLockAlways(t) == TRUE

CanLock(t) == owner \in {NoThread, t}

\* The unload event of x was sent; only an accepted one counts.
Withdraw(x, ok) ==
    /\ withdrawn' = IF ok THEN [withdrawn EXCEPT ![x] = @ + 1] ELSE withdrawn
    /\ Note(ok)

\* The loads of an id are over before the CLR unloads it.
Loading(x) == life[x] = "loading"

\* ModuleUnloadFinishedImpl up to its cleanup, for a module that was found and
\* whose unload event the methods accepted.
SendModuleUnloaded(t, m, r, c) ==
    /\ Withdraw(m, TRUE)
    /\ Begin(t, "cleanup", [c EXCEPT !.mod = r])
    /\ owner' = t

\* An unload callback for a module the collection does not have returns S_OK; an
\* error of the methods ends it before the module is cleaned up.
ModuleUnloadFinished(t, m, ok) ==
    LET found == ModuleInfosById(m)
        c == [NoCall EXCEPT !.cb = "unload", !.id = m]
    IN
    /\ CanBegin(t)
    /\ life[m] = "present"
    /\ CanLock(t)
    /\ life' = [life EXCEPT ![m] = "gone"]
    /\ \/ found = {} /\ UNCHANGED <<owner, pc, call, withdrawn, failed>>
       \/ ok /\ \E r \in found : SendModuleUnloaded(t, m, r, c)
       \/ ~ok /\ found # {} /\ Withdraw(m, FALSE) /\ UNCHANGED <<owner, pc, call>>
    /\ UNCHANGED <<phase, objVars, announced, raced, atAttach, attachTold>>

NotErased(obj, m) == IF "manifest" \in DOMAIN obj THEN obj ELSE [obj EXCEPT !.mods[m] = 0]

AllErased(obj, m) == [obj EXCEPT !.mods = NoMods]

\* ModuleInfoUnloaded of an assembly or of an appdomain.
Erased(obj, m) == [obj EXCEPT !.mods[m] = 0]

\* CAssemblyInfo::ModuleInfoUnloaded, CAppDomainInfo::ModuleInfoUnloaded, Dispose.
CleanupModule(t) ==
    LET c == call[t]
        x == modules[c.mod]
    IN
    /\ pc[t] = "cleanup"
    /\ assemblies' = [assemblies EXCEPT ![x.asm] = Erased(@, x.id)]
    /\ domains' = [domains EXCEPT ![x.dom] = Erased(@, x.id)]
    /\ modules' = [modules EXCEPT ![c.mod].disposed = TRUE]
    /\ IF c.cb = "shutdown"
       THEN Begin(t, "shutModules", [c EXCEPT !.mod = 0]) /\ UNCHANGED owner
       ELSE Return(t) /\ owner' = NoThread
    /\ UNCHANGED <<clrVars, appDomains, histVars>>

\* AssemblyUnloadFinishedImpl for an assembly that was found: it is taken out of
\* its appdomain first, then the methods are told.
SendAssemblyUnloaded(a, r, ok) ==
    /\ domains' = [domains EXCEPT ![assemblies[r].dom].asms[a] = 0]
    /\ Withdraw(a, ok)

AssemblyUnloadFinished(t, a, ok) ==
    LET found == AssemblyInfosById(a) IN
    /\ CanBegin(t)
    /\ life[a] = "present"
    /\ \A m \in Modules : AssemblyOf[m] = a => ~Loading(m)
    /\ CanLock(t)
    /\ life' = [life EXCEPT ![a] = "gone"]
    /\ \/ found = {} /\ UNCHANGED <<domains, withdrawn, failed>>
       \/ \E r \in found : SendAssemblyUnloaded(a, r, ok)
    /\ UNCHANGED <<phase, owner, pc, call, appDomains, assemblies, modules, announced, raced, atAttach, attachTold>>

-----------------------------------------------------------------------------
(* The shutdown of an appdomain fabricates the unloads of what is left in it. *)

ShutdownSkipsModules(t, d) ==
    LET r == appDomains[d] IN
    /\ CanBegin(t)
    /\ life[d] = "present"
    /\ \A x \in Ids : HomeOf(x) = d => ~Loading(x)
    /\ CanLock(t)
    /\ life' = [life EXCEPT ![d] = "gone"]
    /\ IF r = 0 THEN UNCHANGED <<owner, pc, call>>
       ELSE /\ owner' = t
            /\ Begin(t, "shutAssemblies", [NoCall EXCEPT !.cb = "shutdown", !.id = d, !.dom = r])
    /\ UNCHANGED <<phase, objVars, histVars>>

\* SendFabricatedModuleUnloads starts from a copy of the list of modules.
AppDomainShutdownFinished(t, d) ==
    LET r == appDomains[d] IN
    /\ CanBegin(t)
    /\ life[d] = "present"
    /\ \A x \in Ids : HomeOf(x) = d => ~Loading(x)
    /\ CanLock(t)
    /\ life' = [life EXCEPT ![d] = "gone"]
    /\ IF r = 0 THEN UNCHANGED <<owner, pc, call>>
       ELSE /\ owner' = t
            /\ Begin(t, "shutModules", [NoCall EXCEPT !.cb = "shutdown", !.id = d, !.dom = r,
                                           !.todo = {m \in Modules : domains[r].mods[m] # 0}])
    /\ UNCHANGED <<phase, objVars, histVars>>

\* SendFabricatedAssemblyUnloads, likewise.
BeginAssemblies(t, c) ==
    Begin(t, "shutAssemblies", [c EXCEPT !.todo = {a \in Assemblies : domains[c.dom].asms[a] # 0}])

FabricateModuleUnload(t, m, ok) ==
    LET c == call[t]
        rest == [c EXCEPT !.todo = @ \ {m}]
        found == ModuleInfosById(m)
    IN
    /\ pc[t] = "shutModules"
    /\ m \in c.todo
    /\ \/ /\ found = {}
          /\ Begin(t, "shutModules", rest)
          /\ UNCHANGED <<owner, withdrawn, failed>>
       \/ ok /\ \E r \in found : SendModuleUnloaded(t, m, r, rest)
       \/ ~ok /\ found # {} /\ Withdraw(m, FALSE) /\ BeginAssemblies(t, c) /\ UNCHANGED owner
    /\ UNCHANGED <<clrVars, objVars, announced, raced, atAttach, attachTold>>

ModulesDone(t) ==
    /\ pc[t] = "shutModules"
    /\ call[t].todo = {}
    /\ BeginAssemblies(t, call[t])
    /\ UNCHANGED <<clrVars, owner, objVars, histVars>>

FabricateAssemblyUnload(t, a, ok) ==
    LET c == call[t]
        rest == [c EXCEPT !.todo = @ \ {a}]
        found == AssemblyInfosById(a)
    IN
    /\ pc[t] = "shutAssemblies"
    /\ a \in c.todo
    /\ \/ /\ found = {}
          /\ Begin(t, "shutAssemblies", rest)
          /\ UNCHANGED <<domains, withdrawn, failed>>
       \/ \E r \in found :
             /\ SendAssemblyUnloaded(a, r, ok)
             /\ IF ok THEN Begin(t, "shutAssemblies", rest) ELSE Begin(t, "shutDomain", [c EXCEPT !.todo = {}])
    /\ UNCHANGED <<clrVars, owner, appDomains, assemblies, modules, announced, raced, atAttach, attachTold>>

AssembliesDone(t) ==
    /\ pc[t] = "shutAssemblies"
    /\ call[t].todo = {}
    /\ Begin(t, "shutDomain", call[t])
    /\ UNCHANGED <<clrVars, owner, objVars, histVars>>

KeepAppDomain(t, ok) ==
    LET d == call[t].id IN
    /\ pc[t] = "shutDomain"
    /\ Withdraw(d, ok)
    /\ owner' = NoThread
    /\ Return(t)
    /\ UNCHANGED <<clrVars, objVars, announced, raced, atAttach, attachTold>>

\* OnAppDomainShutdown; unless it fails the appdomain leaves the collection.
RemoveAppDomain(t, ok) ==
    LET d == call[t].id IN
    /\ pc[t] = "shutDomain"
    /\ Withdraw(d, ok)
    /\ appDomains' = IF ok THEN [appDomains EXCEPT ![d] = 0] ELSE appDomains
    /\ owner' = NoThread
    /\ Return(t)
    /\ UNCHANGED <<clrVars, domains, assemblies, modules, announced, raced, atAttach, attachTold>>

\* Shutdown drops the collection, whatever other threads are doing.
Shutdown(t) ==
    /\ CanBegin(t)
    /\ phase' = "shutdown"
    /\ appDomains' = [d \in Domains |-> 0]
    /\ UNCHANGED <<life, owner, pc, call, domains, assemblies, modules, histVars>>

-----------------------------------------------------------------------------
\* A thread takes the next step of the callback it is in.
Continue(t) ==
    \/ FindAppDomain(t) \/ ConstructAppDomainInfo(t)
    \/ FindAssembly(t) \/ ConstructAssemblyInfo(t)
    \/ ModuleInitializeFails(t) \/ ConstructModuleInfo(t)
    \/ \E ok \in Outcome : AddModuleInfo(t, ok) \/ RemoveAppDomain(t, ok)
    \/ AttachDone(t)
    \/ \E m \in Modules : AttachNext(t, m)
    \/ CleanupModule(t) \/ ModulesDone(t) \/ AssembliesDone(t)
    \/ \E m \in Modules, ok \in Outcome : FabricateModuleUnload(t, m, ok)
    \/ \E a \in Assemblies, ok \in Outcome : FabricateAssemblyUnload(t, a, ok)

\* The CLR calls back.
CallBack(t) ==
    \/ ProfilerAttachComplete(t)
    \/ \E d \in Domains : AppDomainCreationStarted(t, d) \/ AppDomainShutdownFinished(t, d)
    \/ \E d \in Domains, hrStatus \in BOOLEAN, ok \in Outcome : AppDomainCreationFinished(t, d, hrStatus, ok)
    \/ \E a \in Assemblies : AssemblyLoadFinished(t, a)
    \/ \E a \in Assemblies, ok \in Outcome : AssemblyUnloadFinished(t, a, ok)
    \/ \E m \in Modules : ModuleAttachedToAssembly(t, m)
    \/ \E m \in Modules, ok \in Outcome : ModuleUnloadFinished(t, m, ok)
    \/ Shutdown(t)

Next == \E t \in Threads : Continue(t) \/ CallBack(t)

Spec == Init /\ [][Next]_vars

\* A callback that has begun is given time to go on.
FairSpec == Spec /\ \A t \in Threads : WF_vars(Continue(t))

-----------------------------------------------------------------------------
(* Properties.                                                               *)

\* The objects and the maps keep their types, and m_csForAppDomains is held from
\* step to step exactly by the thread that is taking something down.
TypeOK ==
    /\ atAttach \subseteq Ids
    /\ life \in [Ids -> {"unused", "absent", "loading", "present", "gone"}]
    /\ phase \in {"attaching", "running", "shutdown"}
    /\ owner \in Threads \cup {NoThread}
    /\ \A t \in Threads : owner = t <=> pc[t] \in {"cleanup", "shutModules", "shutAssemblies", "shutDomain"}
    /\ pc \in [Threads -> {"idle", "domain", "newDomain", "assembly", "newAssembly", "addModule",
                           "addToAssembly", "attach", "cleanup", "shutModules", "shutAssemblies",
                           "shutDomain"}]
    /\ call \in [Threads -> Call]
    /\ appDomains \in [Domains -> 0 .. Len(domains)]
    /\ domains \in Seq(DomainInfo)
    /\ assemblies \in Seq(AssemblyInfo)
    /\ modules \in Seq(ModuleInfo)
    /\ announced \subseteq Ids
    /\ withdrawn \in [Ids -> Nat]
    /\ <<raced, failed, attachTold>> \in BOOLEAN \X BOOLEAN \X BOOLEAN

\* Whatever callbacks interleave, what a map holds under a key has that key and
\* points back to the object that holds it, so the cleanup that starts from a
\* module found by a lookup empties the very maps the lookup went through.
BackReferences ==
    \A i \in DOMAIN domains :
        /\ \A m \in Modules : domains[i].mods[m] # 0 =>
              LET x == modules[domains[i].mods[m]] IN x.id = m /\ x.dom = i /\ ~x.disposed
        /\ \A a \in Assemblies : domains[i].asms[a] # 0 =>
              LET x == assemblies[domains[i].asms[a]] IN x.id = a /\ x.dom = i

\* The instrumentation methods accept the unload of a module, an assembly or an
\* appdomain at most once, although both the CLR and the shutdown of the
\* appdomain report it.
UnloadedOnce == \A x \in Ids : withdrawn[x] <= 1

\* What a step withdraws is of an appdomain that was not withdrawn before.
StaysSilent ==
    \A x \in Assemblies \cup Modules : withdrawn'[x] # withdrawn[x] => withdrawn[HomeOf(x)] = 0

\* Once the methods have accepted OnAppDomainShutdown they hear no more of the
\* modules and assemblies of that appdomain, however late the CLR's own unloads.
SilentAfterShutdown == [][StaysSilent]_vars

\* A module whose unload was accepted is, when the callback is over, in no map of
\* any appdomain or assembly, replaced ones included, and is disposed: the
\* circular references are broken.
Released ==
    \A m \in Modules :
        withdrawn[m] > 0 /\ (\A t \in Threads : pc[t] # "cleanup") =>
            /\ \A i \in DOMAIN domains : domains[i].mods[m] = 0
            /\ \A i \in DOMAIN assemblies : assemblies[i].mods[m] = 0
            /\ \A i \in DOMAIN modules : modules[i].id = m => modules[i].disposed

\* The methods know of a module: they were told, or it was there when they attached.
Known(m) == m \in announced \/ (attachTold /\ m \in atAttach)

LookupSucceeds(m) ==
    \E r \in ModuleInfosById(m) :
        /\ ModuleInfosById(m) = {r}
        /\ assemblies[modules[r].asm].mods[m] = r

\* From the event that announces a module to the one that withdraws it, the
\* lookup by id finds one object for it, listed in its assembly too.
TrackedWhileLoaded ==
    \A m \in Modules \ ResourceOnly :
        phase = "running" /\ Known(m) /\ withdrawn[m] = 0 /\ life[m] = "present"
            /\ withdrawn[HomeOf(m)] = 0 => LookupSucceeds(m)

\* The same, as long as no two loads have raced to construct one object: an
\* insertion that replaces an object takes what hangs off it out of the lookups.
Tracked == ~raced => TrackedWhileLoaded

\* When the methods accept OnAppDomainShutdown they have accepted the unload of
\* every module of the appdomain they knew of, unless one of them has failed or
\* an object was replaced by that of a racing load, whose modules are then not
\* found any more and are not withdrawn.
UnloadsBeforeShutdown ==
    \A m \in Modules \ ResourceOnly :
        ~raced /\ ~failed /\ phase = "running" /\ Known(m) /\ withdrawn[HomeOf(m)] > 0
            => withdrawn[m] = 1

\* An appdomain whose creation was reported, or that was there at attach, leaves
\* the collection after its shutdown, unless a method refuses an event.
DomainReleased ==
    \A d \in Domains :
        (life[d] = "gone" /\ d \in announced \cup atAttach) ~> (appDomains[d] = 0 \/ failed)

=============================================================================
