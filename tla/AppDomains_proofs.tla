-------------------------- MODULE AppDomains_proofs --------------------------
(* Proofs about the collections of appdomains, assemblies and modules: the     *)
(* objects refer back to the maps that hold them, an unload is accepted once   *)
(* and releases what it should, a shut down appdomain stays silent, and what   *)
(* the methods know of is found until they are told that it is gone.           *)
EXTENDS AppDomains, TLAPS

LoadSteps == {"domain", "newDomain", "assembly", "newAssembly", "addModule", "addToAssembly"}
HeldSteps == {"cleanup", "shutModules", "shutAssemblies", "shutDomain"}

\* A thread is loading x; it is loading something into d; it needs the object of assembly a.
Loads(t, x) == pc[t] \in LoadSteps /\ call[t].id = x
LoadsInto(t, d) == pc[t] \in LoadSteps /\ TheDomain(t) = d
LoadsOf(t, a) == pc[t] \in LoadSteps /\ call[t].cb # "domain" /\ TheAssembly(t) = a

-----------------------------------------------------------------------------
(* The inductive invariant.                                                  *)

\* The threads, while the engine attaches and afterwards.
AttachAlone ==
    /\ \A t \in Threads : call[t].cb = "attach" =>
            phase = "attaching" /\ \A u \in Threads \ {t} : pc[u] = "idle"
    /\ phase = "attaching" =>
            /\ \A t \in Threads : pc[t] = "idle" \/ call[t].cb = "attach"
            /\ \A x \in Ids : withdrawn[x] = 0
            /\ (\A t \in Threads : pc[t] = "idle") => modules = <<>>
    /\ \A x \in atAttach : life[x] # "absent"

\* What a callback that loads is about.
LoadFits(t) ==
    LET c == call[t] IN
    /\ pc[t] = "idle" => c = NoCall
    /\ pc[t] = "attach" => c.cb = "attach" /\ c.id = NoThread
    /\ c.cb = "attach" => c.todo \subseteq atAttach \cap Modules /\ pc[t] \in LoadSteps \cup {"attach"}
    /\ pc[t] \in LoadSteps =>
            /\ c.cb = "attach" => c.id \in atAttach \ c.todo
            /\ c.cb \in {"domain", "assembly", "module", "attach"}
            /\ c.cb = "domain" => c.id \in Domains /\ pc[t] \in {"domain", "newDomain"}
            /\ c.cb = "assembly" => c.id \in Assemblies /\ pc[t] \in {"assembly", "newAssembly"}
            /\ c.cb \in {"module", "attach"} => c.id \in Modules
            /\ c.cb # "attach" => life[c.id] = "loading"
            /\ \A u \in Threads : Loads(u, c.id) => u = t

\* The pointers it holds.
LoadPoints(t) ==
    LET c == call[t] IN
    pc[t] \in LoadSteps \ {"domain", "newDomain"} /\ c.cb # "assembly" =>
        /\ c.dom \in DOMAIN domains /\ domains[c.dom].id = TheDomain(t)
        /\ pc[t] \in {"addModule", "addToAssembly"} => c.asm \in DOMAIN assemblies
        /\ pc[t] = "addToAssembly" =>
                c.mod \in DOMAIN modules /\ modules[c.mod].id = c.id /\ modules[c.mod].asm = c.asm

\* What a callback that takes something down is about.
UnloadFits(t) ==
    LET c == call[t] IN
    pc[t] \in HeldSteps =>
        /\ c.cb = "shutdown" \/ (c.cb = "unload" /\ pc[t] = "cleanup")
        /\ c.cb = "shutdown" =>
                /\ c.id \in Domains /\ life[c.id] = "gone" /\ withdrawn[c.id] = 0
                /\ \A u \in Threads : ~LoadsInto(u, c.id)
                /\ c.dom \in DOMAIN domains /\ domains[c.dom].id = c.id
                /\ c.todo \subseteq IF pc[t] \in {"cleanup", "shutModules"} THEN Modules ELSE Assemblies
                /\ \A x \in c.todo : HomeOf(x) = c.id
        /\ pc[t] = "cleanup" => c.mod \in DOMAIN modules /\ withdrawn[modules[c.mod].id] > 0

CallsFit == \A t \in Threads : LoadFits(t) /\ LoadPoints(t) /\ UnloadFits(t)

\* What the maps of an appdomain and of an assembly hold, and what an object points to.
DomainRefs ==
    \A i \in DOMAIN domains :
        /\ \A m \in Modules : domains[i].mods[m] # 0 =>
              /\ domains[i].mods[m] \in DOMAIN modules
              /\ modules[domains[i].mods[m]].id = m /\ modules[domains[i].mods[m]].dom = i
              /\ ~modules[domains[i].mods[m]].disposed
              /\ HomeOf(m) = domains[i].id
        /\ \A a \in Assemblies : domains[i].asms[a] # 0 =>
              /\ domains[i].asms[a] \in DOMAIN assemblies
              /\ assemblies[domains[i].asms[a]].id = a /\ assemblies[domains[i].asms[a]].dom = i
              /\ DomainOf[a] = domains[i].id
AssemblyRefs ==
    \A i \in DOMAIN assemblies :
        /\ assemblies[i].dom \in DOMAIN domains
        /\ \A m \in Modules : assemblies[i].mods[m] # 0 =>
              /\ assemblies[i].mods[m] \in DOMAIN modules
              /\ modules[assemblies[i].mods[m]].id = m /\ modules[assemblies[i].mods[m]].asm = i
ModuleRefs ==
    \A i \in DOMAIN modules :
        modules[i].dom \in DOMAIN domains /\ modules[i].asm \in DOMAIN assemblies
CollectionRefs == \A d \in Domains : appDomains[d] # 0 => domains[appDomains[d]].id = d

\* A module has one object at most, from the end of its load on.
OneObject ==
    /\ \A i, j \in DOMAIN modules : modules[i].id = modules[j].id => i = j
    /\ \A i \in DOMAIN modules :
            /\ life[modules[i].id] # "absent"
            /\ \A t \in Threads :
                    /\ Loads(t, modules[i].id) => pc[t] = "addToAssembly"
                    /\ call[t].cb = "attach" => modules[i].id \notin call[t].todo

\* Once an unload has been accepted the id is not loaded again, not found again, and its objects are let go.
DomainUnloads ==
    \A d \in Domains : withdrawn[d] > 0 =>
        /\ withdrawn[d] = 1 /\ life[d] = "gone" /\ appDomains[d] = 0
        /\ \A t \in Threads : ~LoadsInto(t, d)
AssemblyUnloads ==
    \A a \in Assemblies : withdrawn[a] > 0 =>
        /\ withdrawn[a] = 1 /\ "gone" \in {life[a], life[DomainOf[a]]}
        /\ \A t \in Threads : ~LoadsOf(t, a)
        /\ \A d \in Domains : appDomains[d] # 0 => domains[appDomains[d]].asms[a] = 0
ModuleUnloads ==
    \A m \in Modules : withdrawn[m] > 0 =>
        /\ withdrawn[m] = 1 /\ "gone" \in {life[m], life[HomeOf(m)]}
        /\ \A t \in Threads : ~Loads(t, m)
        /\ \A i \in DOMAIN modules : modules[i].id = m =>
              \/ /\ modules[i].disposed /\ domains[modules[i].dom].mods[m] = 0
                 /\ assemblies[modules[i].asm].mods[m] = 0
              \/ \E t \in Threads : pc[t] = "cleanup" /\ call[t].mod = i

IInv ==
    /\ TypeOK /\ AttachAlone /\ CallsFit
    /\ DomainRefs /\ AssemblyRefs /\ ModuleRefs /\ CollectionRefs /\ OneObject
    /\ DomainUnloads /\ AssemblyUnloads /\ ModuleUnloads

-----------------------------------------------------------------------------
(* Updates of sequences and records.                                         *)

\* What an update of one object in a list of objects does.
LEMMA UpdateAt ==
    ASSUME NEW S, NEW s \in Seq(S), NEW i \in DOMAIN s, NEW x \in S
    PROVE  /\ [s EXCEPT ![i] = x] \in Seq(S) /\ DOMAIN [s EXCEPT ![i] = x] = DOMAIN s
           /\ Len([s EXCEPT ![i] = x]) = Len(s)
           /\ \A j \in DOMAIN s : [s EXCEPT ![i] = x][j] = IF j = i THEN x ELSE s[j]
    OBVIOUS

\* What the construction of an object does to the list of objects.
LEMMA AppendAt ==
    ASSUME NEW S, NEW s \in Seq(S), NEW x \in S
    PROVE  /\ Append(s, x) \in Seq(S) /\ Len(s) \in Nat /\ Len(Append(s, x)) = Len(s) + 1
           /\ DOMAIN s = 1 .. Len(s) /\ DOMAIN Append(s, x) = 1 .. Len(s) + 1
           /\ \A j \in DOMAIN s : Append(s, x)[j] = s[j]
           /\ Append(s, x)[Len(s) + 1] = x
    OBVIOUS

\* An entry of a map of an appdomain or of an assembly is set or erased.
WithAsm(o, a, r) == [o EXCEPT !.asms[a] = r]
WithMod(o, m, r) == [o EXCEPT !.mods[m] = r]
LEMMA DomainWithAsm ==
    ASSUME NEW o \in DomainInfo, NEW a \in Assemblies, NEW r \in Nat
    PROVE  /\ WithAsm(o, a, r) \in DomainInfo
           /\ WithAsm(o, a, r).id = o.id /\ WithAsm(o, a, r).mods = o.mods
           /\ \A b \in Assemblies : WithAsm(o, a, r).asms[b] = IF b = a THEN r ELSE o.asms[b]
    BY DEF WithAsm, DomainInfo, AsmMap, ModMap
LEMMA DomainWithMod ==
    ASSUME NEW o \in DomainInfo, NEW m \in Modules, NEW r \in Nat
    PROVE  /\ WithMod(o, m, r) \in DomainInfo
           /\ WithMod(o, m, r).id = o.id /\ WithMod(o, m, r).asms = o.asms
           /\ \A n \in Modules : WithMod(o, m, r).mods[n] = IF n = m THEN r ELSE o.mods[n]
    BY DEF WithMod, DomainInfo, AsmMap, ModMap
LEMMA AssemblyWithMod ==
    ASSUME NEW o \in AssemblyInfo, NEW m \in Modules, NEW r \in Nat
    PROVE  /\ WithMod(o, m, r) \in AssemblyInfo
           /\ WithMod(o, m, r).id = o.id /\ WithMod(o, m, r).dom = o.dom
           /\ \A n \in Modules : WithMod(o, m, r).mods[n] = IF n = m THEN r ELSE o.mods[n]
    BY DEF WithMod, AssemblyInfo, ModMap

\* The objects on construction.
LEMMA NewObjects ==
    /\ \A d \in Domains :
          /\ CAppDomainInfo(d) \in DomainInfo /\ CAppDomainInfo(d).id = d
          /\ \A a \in Assemblies : CAppDomainInfo(d).asms[a] = 0
          /\ \A m \in Modules : CAppDomainInfo(d).mods[m] = 0
    /\ \A a \in Assemblies, i \in Nat :
          /\ CAssemblyInfo(a, i) \in AssemblyInfo /\ CAssemblyInfo(a, i).id = a /\ CAssemblyInfo(a, i).dom = i
          /\ \A m \in Modules : CAssemblyInfo(a, i).mods[m] = 0
    /\ \A m \in Modules, i, j \in Nat :
          /\ CModuleInfo(m, i, j) \in ModuleInfo /\ CModuleInfo(m, i, j).id = m
          /\ CModuleInfo(m, i, j).dom = i /\ CModuleInfo(m, i, j).asm = j /\ ~CModuleInfo(m, i, j).disposed
<1>1. ASSUME NEW d \in Domains
      PROVE  /\ CAppDomainInfo(d) \in DomainInfo /\ CAppDomainInfo(d).id = d
             /\ \A a \in Assemblies : CAppDomainInfo(d).asms[a] = 0
             /\ \A m \in Modules : CAppDomainInfo(d).mods[m] = 0
    BY DEF CAppDomainInfo, DomainInfo, AsmMap, ModMap, NoMods
<1>2. ASSUME NEW a \in Assemblies, NEW i \in Nat
      PROVE  /\ CAssemblyInfo(a, i) \in AssemblyInfo /\ CAssemblyInfo(a, i).id = a /\ CAssemblyInfo(a, i).dom = i
             /\ \A m \in Modules : CAssemblyInfo(a, i).mods[m] = 0
    BY DEF CAssemblyInfo, AssemblyInfo, ModMap, NoMods
<1>3. ASSUME NEW m \in Modules, NEW i \in Nat, NEW j \in Nat
      PROVE  /\ CModuleInfo(m, i, j) \in ModuleInfo /\ CModuleInfo(m, i, j).id = m
             /\ CModuleInfo(m, i, j).dom = i /\ CModuleInfo(m, i, j).asm = j /\ ~CModuleInfo(m, i, j).disposed
    BY DEF CModuleInfo, ModuleInfo
<1> QED BY <1>1, <1>2, <1>3

-----------------------------------------------------------------------------
(* What the steps do to the objects, map entry by map entry.                 *)

ObjectTypes ==
    /\ domains \in Seq(DomainInfo) /\ assemblies \in Seq(AssemblyInfo) /\ modules \in Seq(ModuleInfo)

\* All appdomains stay as they are but for one entry.
SetAsm(i, a, r) ==
    /\ domains' \in Seq(DomainInfo) /\ DOMAIN domains' = DOMAIN domains /\ Len(domains') = Len(domains)
    /\ \A j \in DOMAIN domains :
          /\ domains'[j].id = domains[j].id
          /\ \A m \in Modules : domains'[j].mods[m] = domains[j].mods[m]
          /\ \A b \in Assemblies : domains'[j].asms[b] = IF j = i /\ b = a THEN r ELSE domains[j].asms[b]
SetMod(i, m, r) ==
    /\ domains' \in Seq(DomainInfo) /\ DOMAIN domains' = DOMAIN domains /\ Len(domains') = Len(domains)
    /\ \A j \in DOMAIN domains :
          /\ domains'[j].id = domains[j].id
          /\ \A n \in Modules : domains'[j].mods[n] = IF j = i /\ n = m THEN r ELSE domains[j].mods[n]
          /\ \A b \in Assemblies : domains'[j].asms[b] = domains[j].asms[b]

\* All assemblies stay as they are but for one entry.
SetAssemblyMod(i, m, r) ==
    /\ assemblies' \in Seq(AssemblyInfo) /\ DOMAIN assemblies' = DOMAIN assemblies
    /\ \A j \in DOMAIN assemblies :
          /\ assemblies'[j].id = assemblies[j].id /\ assemblies'[j].dom = assemblies[j].dom
          /\ \A n \in Modules : assemblies'[j].mods[n] = IF j = i /\ n = m THEN r ELSE assemblies[j].mods[n]

\* All modules stay as they are but for one that is disposed.
Disposed(i) ==
    /\ modules' \in Seq(ModuleInfo) /\ DOMAIN modules' = DOMAIN modules /\ Len(modules') = Len(modules)
    /\ \A j \in DOMAIN modules :
          /\ modules'[j].id = modules[j].id /\ modules'[j].dom = modules[j].dom /\ modules'[j].asm = modules[j].asm
          /\ j # i => modules'[j].disposed = modules[j].disposed
    /\ modules'[i].disposed

\* An object is constructed.
NewDomain(d) ==
    /\ domains' \in Seq(DomainInfo) /\ Len(domains) \in Nat /\ Len(domains') = Len(domains) + 1
    /\ DOMAIN domains = 1 .. Len(domains) /\ DOMAIN domains' = 1 .. Len(domains) + 1
    /\ \A j \in DOMAIN domains : domains'[j] = domains[j]
    /\ domains'[Len(domains) + 1].id = d
    /\ \A m \in Modules : domains'[Len(domains) + 1].mods[m] = 0
    /\ \A a \in Assemblies : domains'[Len(domains) + 1].asms[a] = 0
NewAssembly(a, i) ==
    /\ assemblies' \in Seq(AssemblyInfo) /\ Len(assemblies) \in Nat
    /\ DOMAIN assemblies = 1 .. Len(assemblies) /\ DOMAIN assemblies' = 1 .. Len(assemblies) + 1
    /\ \A j \in DOMAIN assemblies : assemblies'[j] = assemblies[j]
    /\ assemblies'[Len(assemblies) + 1].id = a /\ assemblies'[Len(assemblies) + 1].dom = i
    /\ \A m \in Modules : assemblies'[Len(assemblies) + 1].mods[m] = 0
NewModule(m, i, k) ==
    /\ modules' \in Seq(ModuleInfo) /\ Len(modules) \in Nat
    /\ DOMAIN modules = 1 .. Len(modules) /\ DOMAIN modules' = 1 .. Len(modules) + 1
    /\ \A j \in DOMAIN modules : modules'[j] = modules[j]
    /\ modules'[Len(modules) + 1].id = m /\ modules'[Len(modules) + 1].dom = i
    /\ modules'[Len(modules) + 1].asm = k /\ ~modules'[Len(modules) + 1].disposed

LEMMA DomainUpdates ==
    ASSUME ObjectTypes, NEW i \in DOMAIN domains, NEW r \in Nat
    PROVE  /\ \A a \in Assemblies : domains' = [domains EXCEPT ![i].asms[a] = r] => SetAsm(i, a, r)
           /\ \A m \in Modules : domains' = [domains EXCEPT ![i].mods[m] = r] => SetMod(i, m, r)
           /\ \A m \in Modules : domains' = [domains EXCEPT ![i] = Erased(@, m)] => SetMod(i, m, 0)
<1>0. domains \in Seq(DomainInfo) /\ domains[i] \in DomainInfo
    BY DEF ObjectTypes
<1>1. ASSUME NEW a \in Assemblies, domains' = [domains EXCEPT ![i].asms[a] = r] PROVE SetAsm(i, a, r)
    <2> DEFINE o == WithAsm(domains[i], a, r)
    <2>1. domains' = [domains EXCEPT ![i] = o]
        BY <1>1 DEF WithAsm
    <2>2. /\ o \in DomainInfo /\ o.id = domains[i].id /\ o.mods = domains[i].mods
          /\ \A b \in Assemblies : o.asms[b] = IF b = a THEN r ELSE domains[i].asms[b]
        BY <1>0, DomainWithAsm
    <2> HIDE DEF o
    <2>3. /\ domains' \in Seq(DomainInfo) /\ DOMAIN domains' = DOMAIN domains /\ Len(domains') = Len(domains)
          /\ \A j \in DOMAIN domains : domains'[j] = IF j = i THEN o ELSE domains[j]
        BY <1>0, <2>1, <2>2, UpdateAt
    <2> QED BY <2>2, <2>3 DEF SetAsm
<1>2. ASSUME NEW m \in Modules, NEW q \in Nat, domains' = [domains EXCEPT ![i] = WithMod(domains[i], m, q)]
      PROVE  SetMod(i, m, q)
    <2> DEFINE o == WithMod(domains[i], m, q)
    <2>2. /\ o \in DomainInfo /\ o.id = domains[i].id /\ o.asms = domains[i].asms
          /\ \A n \in Modules : o.mods[n] = IF n = m THEN q ELSE domains[i].mods[n]
        BY <1>0, DomainWithMod
    <2> HIDE DEF o
    <2>3. /\ domains' \in Seq(DomainInfo) /\ DOMAIN domains' = DOMAIN domains /\ Len(domains') = Len(domains)
          /\ \A j \in DOMAIN domains : domains'[j] = IF j = i THEN o ELSE domains[j]
        BY <1>0, <1>2, <2>2, UpdateAt DEF o
    <2> QED BY <2>2, <2>3 DEF SetMod
<1>3. ASSUME NEW m \in Modules, domains' = [domains EXCEPT ![i].mods[m] = r] PROVE SetMod(i, m, r)
    <2>1. domains' = [domains EXCEPT ![i] = WithMod(domains[i], m, r)]
        BY <1>3 DEF WithMod
    <2> QED BY <1>2, <2>1
<1>4. ASSUME NEW m \in Modules, domains' = [domains EXCEPT ![i] = Erased(@, m)] PROVE SetMod(i, m, 0)
    <2>1. domains' = [domains EXCEPT ![i] = WithMod(domains[i], m, 0)]
        BY <1>4 DEF WithMod, Erased
    <2> QED BY <1>2, <2>1
<1> QED BY <1>1, <1>3, <1>4

LEMMA AssemblyUpdates ==
    ASSUME ObjectTypes, NEW i \in DOMAIN assemblies, NEW m \in Modules
    PROVE  /\ \A r \in Nat, k \in Nat :
                assemblies' = [assemblies EXCEPT ![i].mods[m] = r, ![i].manifest = k] => SetAssemblyMod(i, m, r)
           /\ assemblies' = [assemblies EXCEPT ![i] = Erased(@, m)] => SetAssemblyMod(i, m, 0)
<1>0. assemblies \in Seq(AssemblyInfo) /\ assemblies[i] \in AssemblyInfo
    BY DEF ObjectTypes
<1>1. ASSUME NEW r \in Nat, NEW k \in Nat,
             assemblies' = [assemblies EXCEPT ![i].mods[m] = r, ![i].manifest = k]
      PROVE  SetAssemblyMod(i, m, r)
    <2> DEFINE o == [assemblies[i] EXCEPT !.mods[m] = r, !.manifest = k]
    <2>1. assemblies' = [assemblies EXCEPT ![i] = o]
        BY <1>1
    <2>2. /\ o \in AssemblyInfo /\ o.id = assemblies[i].id /\ o.dom = assemblies[i].dom
          /\ \A n \in Modules : o.mods[n] = IF n = m THEN r ELSE assemblies[i].mods[n]
        BY <1>0 DEF AssemblyInfo, ModMap
    <2> HIDE DEF o
    <2>3. /\ assemblies' \in Seq(AssemblyInfo) /\ DOMAIN assemblies' = DOMAIN assemblies
          /\ \A j \in DOMAIN assemblies : assemblies'[j] = IF j = i THEN o ELSE assemblies[j]
        BY <1>0, <2>1, <2>2, UpdateAt
    <2> QED BY <2>2, <2>3 DEF SetAssemblyMod
<1>2. ASSUME assemblies' = [assemblies EXCEPT ![i] = Erased(@, m)] PROVE SetAssemblyMod(i, m, 0)
    <2> DEFINE o == WithMod(assemblies[i], m, 0)
    <2>1. assemblies' = [assemblies EXCEPT ![i] = o]
        BY <1>2 DEF WithMod, Erased
    <2>2. /\ o \in AssemblyInfo /\ o.id = assemblies[i].id /\ o.dom = assemblies[i].dom
          /\ \A n \in Modules : o.mods[n] = IF n = m THEN 0 ELSE assemblies[i].mods[n]
        BY <1>0, AssemblyWithMod
    <2> HIDE DEF o
    <2>3. /\ assemblies' \in Seq(AssemblyInfo) /\ DOMAIN assemblies' = DOMAIN assemblies
          /\ \A j \in DOMAIN assemblies : assemblies'[j] = IF j = i THEN o ELSE assemblies[j]
        BY <1>0, <2>1, <2>2, UpdateAt
    <2> QED BY <2>2, <2>3 DEF SetAssemblyMod
<1> QED BY <1>1, <1>2

LEMMA ModuleUpdates ==
    ASSUME ObjectTypes, NEW i \in DOMAIN modules
    PROVE  modules' = [modules EXCEPT ![i].disposed = TRUE] => Disposed(i)
<1>0. modules \in Seq(ModuleInfo) /\ modules[i] \in ModuleInfo
    BY DEF ObjectTypes
<1> DEFINE o == [modules[i] EXCEPT !.disposed = TRUE]
<1>1. ASSUME modules' = [modules EXCEPT ![i].disposed = TRUE] PROVE modules' = [modules EXCEPT ![i] = o]
    BY <1>1
<1>2. o \in ModuleInfo /\ o.id = modules[i].id /\ o.dom = modules[i].dom /\ o.asm = modules[i].asm
    BY <1>0 DEF ModuleInfo
<1>3. o.disposed
    BY <1>0 DEF ModuleInfo
<1> HIDE DEF o
<1> DEFINE n == [modules EXCEPT ![i] = o]
<1>4. /\ n \in Seq(ModuleInfo) /\ DOMAIN n = DOMAIN modules /\ Len(n) = Len(modules)
      /\ \A j \in DOMAIN modules : n[j] = IF j = i THEN o ELSE modules[j]
    BY <1>0, <1>2, UpdateAt
<1> HIDE DEF n
<1>5. n[i] = o /\ \A j \in DOMAIN modules : j # i => n[j] = modules[j]
    BY <1>4
<1>6. ASSUME modules' = n PROVE Disposed(i)
    BY <1>2, <1>3, <1>4, <1>5, <1>6 DEF Disposed
<1> QED BY <1>1, <1>6 DEF n

LEMMA Constructions ==
    ASSUME ObjectTypes
    PROVE  /\ \A d \in Domains : domains' = Append(domains, CAppDomainInfo(d)) => NewDomain(d)
           /\ \A a \in Assemblies, i \in Nat :
                assemblies' = Append(assemblies, CAssemblyInfo(a, i)) => NewAssembly(a, i)
           /\ \A m \in Modules, i, k \in Nat :
                modules' = Append(modules, CModuleInfo(m, i, k)) => NewModule(m, i, k)
<1>0. domains \in Seq(DomainInfo) /\ assemblies \in Seq(AssemblyInfo) /\ modules \in Seq(ModuleInfo)
    BY DEF ObjectTypes
<1>1. ASSUME NEW d \in Domains, domains' = Append(domains, CAppDomainInfo(d)) PROVE NewDomain(d)
    BY <1>0, <1>1, AppendAt, NewObjects DEF NewDomain
<1>2. ASSUME NEW a \in Assemblies, NEW i \in Nat, assemblies' = Append(assemblies, CAssemblyInfo(a, i))
      PROVE  NewAssembly(a, i)
    BY <1>0, <1>2, AppendAt, NewObjects DEF NewAssembly
<1>3. ASSUME NEW m \in Modules, NEW i \in Nat, NEW k \in Nat, modules' = Append(modules, CModuleInfo(m, i, k))
      PROVE  NewModule(m, i, k)
    BY <1>0, <1>3, AppendAt, NewObjects DEF NewModule
<1> QED BY <1>1, <1>2, <1>3

-----------------------------------------------------------------------------
(* What a step does to the threads.                                          *)

Labels == LoadSteps \cup HeldSteps \cup {"idle", "attach"}

\* The pointers in a callback and in the collection are numbers.
ThreadTypes == pc \in [Threads -> Labels] /\ call \in [Threads -> Call]
PointerTypes ==
    /\ \A d \in Domains : appDomains[d] \in Nat
    /\ \A a \in Assemblies : AssemblyInfosById(a) \subseteq Nat
    /\ \A m \in Modules : ModuleInfosById(m) \subseteq Nat
    /\ Len(domains) \in Nat /\ Len(assemblies) \in Nat /\ Len(modules) \in Nat

LEMMA TypesOfPointers == TypeOK => ThreadTypes /\ PointerTypes /\ ObjectTypes
<1> SUFFICES ASSUME TypeOK PROVE ThreadTypes /\ PointerTypes /\ ObjectTypes
    OBVIOUS
<1>1. ObjectTypes
    BY DEF TypeOK, ObjectTypes
<1>2. ThreadTypes
    BY DEF TypeOK, ThreadTypes, Labels, LoadSteps, HeldSteps
<1>3. Len(domains) \in Nat /\ Len(assemblies) \in Nat /\ Len(modules) \in Nat
    BY <1>1 DEF ObjectTypes
<1>4. ASSUME NEW d \in Domains
      PROVE  appDomains[d] \in Nat /\ (appDomains[d] # 0 => appDomains[d] \in DOMAIN domains)
    BY <1>1, <1>3 DEF TypeOK, ObjectTypes
<1>5. \A i \in DOMAIN domains : domains[i] \in DomainInfo
    BY <1>1 DEF ObjectTypes
<1>6. \A i \in DOMAIN domains :
          /\ \A a \in Assemblies : domains[i].asms[a] \in Nat
          /\ \A m \in Modules : domains[i].mods[m] \in Nat
    BY <1>5 DEF DomainInfo, AsmMap, ModMap
<1>7. \A a \in Assemblies : AssemblyInfosById(a) \subseteq Nat
    BY <1>4, <1>6 DEF AssemblyInfosById
<1>8. \A m \in Modules : ModuleInfosById(m) \subseteq Nat
    BY <1>4, <1>6 DEF ModuleInfosById
<1> QED BY <1>1, <1>2, <1>3, <1>4, <1>7, <1>8 DEF PointerTypes

\* Only the thread that takes the step moves.
Apart(t) ==
    /\ pc' \in [Threads -> Labels] /\ call' \in [Threads -> Call]
    /\ \A u \in Threads \ {t} : pc'[u] = pc[u] /\ call'[u] = call[u]

LEMMA BeginApart ==
    ASSUME ThreadTypes, NEW t \in Threads, NEW label \in Labels, NEW c \in Call, Begin(t, label, c)
    PROVE  Apart(t) /\ pc'[t] = label /\ call'[t] = c
BY DEF Begin, Goto, Apart, ThreadTypes

LEMMA IdsTypes ==
    /\ NoCall \in Call
    /\ \A x \in Domains : x \in Ids /\ HomeOf(x) = x /\ x \notin Assemblies \cup Modules
    /\ \A x \in Assemblies : x \in Ids /\ HomeOf(x) = DomainOf[x] /\ DomainOf[x] \in Domains
                               /\ x \notin Domains \cup Modules
    /\ \A x \in Modules : x \in Ids /\ HomeOf(x) = DomainOf[AssemblyOf[x]] /\ AssemblyOf[x] \in Assemblies
                            /\ HomeOf(x) \in Domains /\ x \notin Domains \cup Assemblies
    /\ \A x \in Ids : HomeOf(x) \in Domains
<1>1. NoCall \in Call
    BY DEF NoCall, Call, Callback
<1> QED BY <1>1, IdsAssumption DEF Ids, HomeOf

\* The pointers and names that a callback takes on are of their types.
LEMMA CallUpdates ==
    ASSUME NEW c \in Call
    PROVE  /\ \A n \in Nat : /\ [c EXCEPT !.dom = n] \in Call /\ [c EXCEPT !.asm = n] \in Call
                              /\ [c EXCEPT !.mod = n] \in Call
           /\ \A s \in SUBSET Ids : [c EXCEPT !.todo = s] \in Call
           /\ \A x \in Ids, s \in SUBSET Ids : [c EXCEPT !.id = x, !.todo = s] \in Call
           /\ \A s \in SUBSET Ids, n \in Nat : [[c EXCEPT !.todo = s] EXCEPT !.mod = n] \in Call
BY DEF Call
LEMMA NewCalls ==
    /\ \A s \in SUBSET Ids : [NoCall EXCEPT !.cb = "attach", !.todo = s] \in Call
    /\ \A b \in Callback, x \in Ids : [NoCall EXCEPT !.cb = b, !.id = x] \in Call
    /\ \A x \in Ids, n \in Nat : [[NoCall EXCEPT !.cb = "unload", !.id = x] EXCEPT !.mod = n] \in Call
    /\ \A x \in Ids, n \in Nat, s \in SUBSET Ids :
          [NoCall EXCEPT !.cb = "shutdown", !.id = x, !.dom = n, !.todo = s] \in Call
BY DEF NoCall, Call, Callback

LEMMA EndLoadApart ==
    ASSUME ThreadTypes, NEW t \in Threads, NEW ok, EndLoad(t, ok)
    PROVE  Apart(t)
<1>1. call[t].todo \in SUBSET Ids
    BY DEF ThreadTypes, Call
<1>2. "idle" \in Labels /\ "attach" \in Labels
    BY DEF Labels
<1>3. CASE Return(t)
    BY <1>2, <1>3, BeginApart, IdsTypes DEF Return
<1>4. CASE Begin(t, "attach", [NoCall EXCEPT !.cb = "attach", !.todo = call[t].todo])
    BY <1>1, <1>2, <1>4, BeginApart, NewCalls
<1> QED BY <1>3, <1>4 DEF EndLoad

\* A callback that loads is about an appdomain, an assembly or a module, and knows its assembly and its appdomain.
LEMMA LoadNames ==
    ASSUME CallsFit, NEW t \in Threads, pc[t] \in LoadSteps
    PROVE  /\ call[t].id \in Ids /\ TheDomain(t) \in Domains
           /\ call[t].cb = "domain" <=> call[t].id \in Domains
           /\ call[t].cb # "domain" => /\ TheAssembly(t) \in Assemblies
                                      /\ DomainOf[TheAssembly(t)] = TheDomain(t)
           /\ pc[t] \in {"assembly", "newAssembly", "addModule", "addToAssembly"} =>
                    call[t].cb # "domain" /\ TheAssembly(t) \in Assemblies
           /\ pc[t] \in {"addModule", "addToAssembly"} => call[t].id \in Modules
<1>1. LoadFits(t)
    BY DEF CallsFit
<1>2. CASE call[t].cb = "domain"
    BY <1>1, <1>2, IdsTypes DEF LoadFits, TheDomain
<1>3. CASE call[t].cb = "assembly"
    BY <1>1, <1>3, IdsTypes DEF LoadFits, TheDomain, TheAssembly
<1>4. CASE call[t].cb \in {"module", "attach"}
    BY <1>1, <1>4, IdsTypes DEF LoadFits, TheDomain, TheAssembly
<1> QED BY <1>1, <1>2, <1>3, <1>4 DEF LoadFits

LEMMA ApartStep ==
    ASSUME ThreadTypes, PointerTypes, CallsFit, NEW t \in Threads, Continue(t) \/ CallBack(t)
    PROVE  Apart(t)
<1>a. /\ call[t] \in Call /\ call[t].todo \in SUBSET Ids
      /\ \A x \in Ids : call[t].todo \ {x} \in SUBSET Ids
    BY DEF ThreadTypes, Call
<1>b. pc[t] \in LoadSteps => TheDomain(t) \in Domains
    BY LoadNames
<1>l. pc[t] \in {"assembly", "newAssembly"} => TheAssembly(t) \in Assemblies
    BY LoadNames DEF LoadSteps
<1>c. ASSUME NEW label \in Labels, NEW c \in Call, Begin(t, label, c) PROVE Apart(t)
    BY <1>c, BeginApart
<1>d. LoadSteps \subseteq Labels /\ HeldSteps \subseteq Labels /\ "idle" \in Labels /\ "attach" \in Labels
    BY DEF Labels
<1>e. Return(t) => Apart(t)
    BY <1>c, <1>d, IdsTypes, CallUpdates, NewCalls DEF Return
<1>f. ASSUME NEW label \in Labels, Goto(t, label), UNCHANGED call PROVE Apart(t)
    BY <1>f DEF Goto, Apart, ThreadTypes
<1>g. ASSUME UNCHANGED <<pc, call>> PROVE Apart(t)
    BY <1>g DEF Apart, ThreadTypes
<1>h. ASSUME NEW ok, EndLoad(t, ok) PROVE Apart(t)
    BY <1>h, EndLoadApart
<1>i. Outcome \subseteq BOOLEAN
    BY CanFailAssumption DEF Outcome
<1>k. Len(domains) + 1 \in Nat /\ Len(assemblies) + 1 \in Nat /\ Len(modules) + 1 \in Nat
    BY DEF PointerTypes
<1>j. Callback = {"none", "domain", "assembly", "module", "attach", "unload", "shutdown"}
    BY DEF Callback
<1>1. CASE FindAppDomain(t)
    <2>1. ASSUME AfterDomain(t, appDomains[TheDomain(t)]) PROVE Apart(t)
        BY <1>1, <2>1, <1>a, <1>b, <1>c, <1>d, IdsTypes, CallUpdates, NewCalls, <1>e DEF AfterDomain, FindAppDomain, PointerTypes, LoadSteps
    <2> QED BY <1>1, <2>1, <1>d, <1>f DEF FindAppDomain, LoadSteps
<1>2. CASE ConstructAppDomainInfo(t)
    BY <1>2, <1>a, <1>c, <1>d, IdsTypes, CallUpdates, NewCalls, <1>e, <1>k DEF AfterDomain, ConstructAppDomainInfo, LoadSteps
<1>3. CASE FindAssembly(t)
    <2>1. ASSUME NEW r \in Nat, AfterAssembly(t, r) PROVE Apart(t)
        BY <2>1, <1>a, <1>c, <1>d, IdsTypes, CallUpdates, NewCalls, <1>h DEF AfterAssembly, LoadSteps
    <2> QED BY <1>3, <2>1, <1>l, <1>d, <1>f DEF FindAssembly, LoadSteps, PointerTypes
<1>4. CASE ConstructAssemblyInfo(t)
    <2>1. ASSUME NEW r \in Nat, AfterAssembly(t, r) PROVE Apart(t)
        BY <2>1, <1>a, <1>c, <1>d, IdsTypes, CallUpdates, NewCalls, <1>h DEF AfterAssembly, LoadSteps
    <2> QED BY <1>4, <2>1, <1>h, <1>k DEF ConstructAssemblyInfo
<1>5. CASE ConstructModuleInfo(t)
    BY <1>5, <1>a, <1>c, <1>d, IdsTypes, CallUpdates, NewCalls, <1>k DEF ConstructModuleInfo, LoadSteps
<1>6. ASSUME NEW ok \in Outcome, AddModuleInfo(t, ok) PROVE Apart(t)
    BY <1>6, <1>h, <1>i DEF AddModuleInfo
<1>7. ASSUME NEW ok \in Outcome, RemoveAppDomain(t, ok) PROVE Apart(t)
    BY <1>7, <1>e DEF RemoveAppDomain
<1>8. CASE AttachDone(t)
    BY <1>8, <1>e DEF AttachDone
<1>9. ASSUME NEW m \in Modules, AttachNext(t, m) PROVE Apart(t)
    <2>1. CASE Begin(t, "domain", [call[t] EXCEPT !.id = m, !.todo = @ \ {m}])
        BY <2>1, <1>a, <1>c, <1>d, IdsTypes, CallUpdates, NewCalls DEF LoadSteps
    <2> QED BY <1>9, <2>1, <1>e DEF AttachNext
<1>10. CASE CleanupModule(t)
    <2>1. CASE Begin(t, "shutModules", [call[t] EXCEPT !.mod = 0])
        BY <2>1, <1>a, <1>c, <1>d, IdsTypes, CallUpdates, NewCalls DEF HeldSteps
    <2> QED BY <1>10, <2>1, <1>e DEF CleanupModule
<1>11. CASE ModulesDone(t)
    <2>1. CASE BeginAssemblies(t, call[t])
        BY <2>1, <1>a, <1>c, <1>d, IdsTypes, CallUpdates, NewCalls DEF BeginAssemblies, HeldSteps, Ids
    <2> QED BY <1>11, <2>1 DEF ModulesDone
<1>12. CASE AssembliesDone(t)
    BY <1>12, <1>a, <1>c, <1>d, IdsTypes, CallUpdates, NewCalls DEF AssembliesDone, HeldSteps
<1>13. ASSUME NEW m \in Modules, NEW ok \in Outcome, FabricateModuleUnload(t, m, ok) PROVE Apart(t)
    <2>1. CASE BeginAssemblies(t, call[t])
        BY <2>1, <1>a, <1>c, <1>d, IdsTypes, CallUpdates, NewCalls DEF BeginAssemblies, HeldSteps, Ids
    <2>2. CASE Begin(t, "shutModules", [call[t] EXCEPT !.todo = @ \ {m}])
        BY <2>2, <1>a, <1>c, <1>d, IdsTypes, CallUpdates, NewCalls DEF HeldSteps
    <2>3. ASSUME NEW r \in Nat, Begin(t, "cleanup", [[call[t] EXCEPT !.todo = @ \ {m}] EXCEPT !.mod = r]) PROVE Apart(t)
        BY <2>3, <1>a, <1>c, <1>d, IdsTypes, CallUpdates, NewCalls DEF HeldSteps
    <2> QED BY <1>13, <2>1, <2>2, <2>3 DEF FabricateModuleUnload, SendModuleUnloaded, PointerTypes
<1>14. ASSUME NEW a \in Assemblies, NEW ok \in Outcome, FabricateAssemblyUnload(t, a, ok) PROVE Apart(t)
    <2>1. CASE Begin(t, "shutAssemblies", [call[t] EXCEPT !.todo = @ \ {a}])
        BY <2>1, <1>a, <1>c, <1>d, IdsTypes, CallUpdates, NewCalls DEF HeldSteps
    <2>2. CASE Begin(t, "shutDomain", [call[t] EXCEPT !.todo = {}])
        BY <2>2, <1>a, <1>c, <1>d, IdsTypes, CallUpdates, NewCalls DEF HeldSteps
    <2> QED BY <1>14, <2>1, <2>2 DEF FabricateAssemblyUnload
<1>15. CASE ProfilerAttachComplete(t)
    <2>1. atAttach \cap Modules \in SUBSET Ids
        BY DEF Ids
    <2> QED BY <1>15, <2>1, <1>c, <1>d, IdsTypes, CallUpdates, NewCalls DEF ProfilerAttachComplete
<1>16. ASSUME NEW d \in Domains, AppDomainCreationStarted(t, d) PROVE Apart(t)
    BY <1>16, <1>c, <1>d, IdsTypes, CallUpdates, NewCalls, <1>j DEF AppDomainCreationStarted, LoadSteps
<1>17. ASSUME NEW d \in Domains, AppDomainShutdownFinished(t, d) PROVE Apart(t)
    <2>1. {m \in Modules : domains[appDomains[d]].mods[m] # 0} \in SUBSET Ids
        BY DEF Ids
    <2>2. CASE appDomains[d] # 0
        BY <1>17, <2>1, <2>2, <1>c, <1>d, IdsTypes, CallUpdates, NewCalls DEF AppDomainShutdownFinished, HeldSteps, PointerTypes
    <2> QED BY <1>17, <2>2, <1>g DEF AppDomainShutdownFinished
<1>18. ASSUME NEW d \in Domains, NEW hrStatus \in BOOLEAN, NEW ok \in Outcome, AppDomainCreationFinished(t, d, hrStatus, ok) PROVE Apart(t)
    BY <1>18, <1>g DEF AppDomainCreationFinished
<1>19. ASSUME NEW a \in Assemblies, AssemblyLoadFinished(t, a) PROVE Apart(t)
    BY <1>19, <1>c, <1>d, IdsTypes, CallUpdates, NewCalls, <1>j DEF AssemblyLoadFinished, LoadSteps
<1>20. ASSUME NEW a \in Assemblies, NEW ok \in Outcome, AssemblyUnloadFinished(t, a, ok) PROVE Apart(t)
    BY <1>20, <1>g DEF AssemblyUnloadFinished
<1>21. ASSUME NEW m \in Modules, ModuleAttachedToAssembly(t, m) PROVE Apart(t)
    BY <1>21, <1>c, <1>d, IdsTypes, CallUpdates, NewCalls, <1>g, <1>j DEF ModuleAttachedToAssembly, LoadSteps
<1>22. ASSUME NEW m \in Modules, NEW ok \in Outcome, ModuleUnloadFinished(t, m, ok) PROVE Apart(t)
    BY <1>22, <1>c, <1>d, IdsTypes, CallUpdates, NewCalls, <1>g DEF ModuleUnloadFinished, SendModuleUnloaded, HeldSteps, PointerTypes
<1>23. CASE Shutdown(t)
    BY <1>23, <1>g DEF Shutdown
<1>24. CASE ModuleInitializeFails(t)
    BY <1>24, <1>h DEF ModuleInitializeFails
<1> QED BY <1>1, <1>2, <1>3, <1>4, <1>5, <1>6, <1>7, <1>8, <1>9, <1>10, <1>11, <1>12, <1>13, <1>14, <1>15, <1>16, <1>17, <1>18, <1>19, <1>20, <1>21, <1>22, <1>23, <1>24 DEF Continue, CallBack

-----------------------------------------------------------------------------
(* What a step does to the objects.                                          *)

Refs == DomainRefs /\ AssemblyRefs /\ ModuleRefs /\ CollectionRefs

\* The appdomains that are in the collection.
LEMMA Collected ==
    ASSUME TypeOK, NEW d \in Domains, appDomains[d] # 0
    PROVE  appDomains[d] \in DOMAIN domains /\ appDomains[d] \in Nat
<1>1. DOMAIN domains = 1 .. Len(domains) /\ Len(domains) \in Nat
    BY DEF TypeOK
<1>2. appDomains[d] \in 0 .. Len(domains)
    BY DEF TypeOK
<1> QED BY <1>1, <1>2

\* What a lookup by id finds.
LEMMA FoundAssembly ==
    ASSUME TypeOK, Refs, NEW a \in Assemblies, NEW r \in AssemblyInfosById(a)
    PROVE  /\ r \in DOMAIN assemblies /\ assemblies[r].id = a
           /\ appDomains[DomainOf[a]] # 0 /\ assemblies[r].dom = appDomains[DomainOf[a]]
           /\ assemblies[r].dom \in DOMAIN domains /\ domains[assemblies[r].dom].asms[a] = r /\ r # 0
<1>1. PICK d \in Domains : appDomains[d] # 0 /\ r = domains[appDomains[d]].asms[a] /\ r # 0
    BY DEF AssemblyInfosById
<1>2. appDomains[d] \in DOMAIN domains /\ domains[appDomains[d]].id = d
    BY <1>1, Collected DEF Refs, CollectionRefs
<1>3. /\ r \in DOMAIN assemblies /\ assemblies[r].id = a /\ assemblies[r].dom = appDomains[d]
      /\ DomainOf[a] = d
    BY <1>1, <1>2 DEF Refs, DomainRefs
<1> QED BY <1>1, <1>2, <1>3
LEMMA FoundModule ==
    ASSUME TypeOK, Refs, NEW m \in Modules, NEW r \in ModuleInfosById(m)
    PROVE  /\ r \in DOMAIN modules /\ modules[r].id = m /\ ~modules[r].disposed
           /\ appDomains[HomeOf(m)] # 0 /\ modules[r].dom = appDomains[HomeOf(m)]
           /\ modules[r].dom \in DOMAIN domains /\ domains[modules[r].dom].mods[m] = r /\ r # 0
<1>1. PICK d \in Domains : appDomains[d] # 0 /\ r = domains[appDomains[d]].mods[m] /\ r # 0
    BY DEF ModuleInfosById
<1>2. appDomains[d] \in DOMAIN domains /\ domains[appDomains[d]].id = d
    BY <1>1, Collected DEF Refs, CollectionRefs
<1>3. /\ r \in DOMAIN modules /\ modules[r].id = m /\ modules[r].dom = appDomains[d]
      /\ HomeOf(m) = d
    BY <1>1, <1>2 DEF Refs, DomainRefs
<1>4. ~modules[r].disposed
    BY <1>1, <1>2 DEF Refs, DomainRefs
<1> QED BY <1>1, <1>2, <1>3, <1>4

\* The appdomains keep their maps.
DomainsKept ==
    /\ domains' \in Seq(DomainInfo) /\ DOMAIN domains' = DOMAIN domains /\ Len(domains') = Len(domains)
    /\ \A j \in DOMAIN domains :
          /\ domains'[j].id = domains[j].id
          /\ \A m \in Modules : domains'[j].mods[m] = domains[j].mods[m]
          /\ \A a \in Assemblies : domains'[j].asms[a] = domains[j].asms[a]

\* The ways in which a step may change the collection and the objects.
Keeps == DomainsKept /\ UNCHANGED <<appDomains, assemblies, modules>>
AddsDomain(t) ==
    /\ pc[t] = "newDomain" /\ NewDomain(TheDomain(t))
    /\ appDomains' = [appDomains EXCEPT ![TheDomain(t)] = Len(domains) + 1]
    /\ UNCHANGED <<assemblies, modules>>
AddsAssembly(t) ==
    /\ pc[t] = "newAssembly" /\ appDomains[DomainOf[TheAssembly(t)]] # 0
    /\ NewAssembly(TheAssembly(t), appDomains[DomainOf[TheAssembly(t)]])
    /\ SetAsm(appDomains[DomainOf[TheAssembly(t)]], TheAssembly(t), Len(assemblies) + 1)
    /\ UNCHANGED <<appDomains, modules>>
AddsModule(t) ==
    /\ pc[t] = "addModule" /\ pc'[t] = "addToAssembly"
    /\ NewModule(call[t].id, call[t].dom, call[t].asm)
    /\ SetMod(call[t].dom, call[t].id, Len(modules) + 1)
    /\ UNCHANGED <<appDomains, assemblies>>
ListsModule(t) ==
    /\ pc[t] = "addToAssembly"
    /\ SetAssemblyMod(call[t].asm, call[t].id, call[t].mod)
    /\ UNCHANGED <<appDomains, domains, modules>>
CleansUp(t) ==
    /\ pc[t] = "cleanup" /\ pc'[t] # "cleanup"
    /\ SetAssemblyMod(modules[call[t].mod].asm, modules[call[t].mod].id, 0)
    /\ SetMod(modules[call[t].mod].dom, modules[call[t].mod].id, 0)
    /\ Disposed(call[t].mod)
    /\ UNCHANGED appDomains
TakesAssembly ==
    /\ \E a \in Assemblies : \E r \in AssemblyInfosById(a) : SetAsm(assemblies[r].dom, a, 0)
    /\ UNCHANGED <<appDomains, assemblies, modules>>
DropsDomains ==
    /\ appDomains' = [d \in Domains |-> appDomains'[d]]
    /\ \A d \in Domains : appDomains'[d] \in {0, appDomains[d]}
    /\ UNCHANGED <<domains, assemblies, modules>>

ObjectStep(t) ==
    \/ Keeps \/ AddsDomain(t) \/ AddsAssembly(t) \/ AddsModule(t) \/ ListsModule(t)
    \/ CleansUp(t) \/ TakesAssembly \/ DropsDomains

LEMMA CleanupCleans ==
    ASSUME TypeOK, CallsFit, Refs, NEW t \in Threads, CleanupModule(t)
    PROVE  CleansUp(t)
<1>a. ThreadTypes /\ ObjectTypes
    BY TypesOfPointers
<1> DEFINE x == modules[call[t].mod]
<1>1. call[t].mod \in DOMAIN modules
    BY DEF CallsFit, UnloadFits, HeldSteps, CleanupModule
<1>2. x.asm \in DOMAIN assemblies /\ x.dom \in DOMAIN domains
    BY <1>1 DEF Refs, ModuleRefs
<1>3. x.id \in Modules
    <2>1. x \in ModuleInfo
        BY <1>a, <1>1 DEF ObjectTypes
    <2> QED BY <2>1 DEF ModuleInfo
<1>4. Disposed(call[t].mod)
    BY <1>a, <1>1, ModuleUpdates DEF CleanupModule
<1>5. SetAssemblyMod(x.asm, x.id, 0)
    BY <1>a, <1>2, <1>3, AssemblyUpdates DEF CleanupModule
<1>6. SetMod(x.dom, x.id, 0)
    BY <1>a, <1>2, <1>3, DomainUpdates DEF CleanupModule
<1>7. pc'[t] # "cleanup"
    BY <1>a DEF CleanupModule, Begin, Goto, Return, ThreadTypes
<1> QED BY <1>4, <1>5, <1>6, <1>7 DEF CleanupModule, CleansUp

LEMMA AddingAdds ==
    ASSUME TypeOK, CallsFit, NEW t \in Threads, ConstructAppDomainInfo(t)
    PROVE  AddsDomain(t)
<1>1. TheDomain(t) \in Domains
    BY LoadNames DEF ConstructAppDomainInfo, LoadSteps
<1>2. NewDomain(TheDomain(t))
    BY <1>1, TypesOfPointers, Constructions DEF ConstructAppDomainInfo
<1> QED BY <1>2 DEF ConstructAppDomainInfo, AddsDomain

LEMMA ListingLists ==
    ASSUME TypeOK, CallsFit, NEW t \in Threads, NEW ok, AddModuleInfo(t, ok)
    PROVE  ListsModule(t)
<1>a. ThreadTypes /\ ObjectTypes
    BY TypesOfPointers
<1>b. call[t] \in Call /\ call[t].mod \in Nat
    BY <1>a DEF ThreadTypes, Call
<1>1. call[t].id \in Modules
    BY LoadNames DEF AddModuleInfo, LoadSteps
<1>2. call[t].asm \in DOMAIN assemblies
    BY <1>1, IdsTypes DEF CallsFit, LoadFits, LoadPoints, LoadSteps, AddModuleInfo
<1> DEFINE k == IF call[t].id \in Manifest THEN call[t].mod ELSE assemblies[call[t].asm].manifest
<1>3. k \in Nat
    <2>1. assemblies[call[t].asm] \in AssemblyInfo
        BY <1>a, <1>2 DEF ObjectTypes
    <2> QED BY <1>b, <2>1 DEF AssemblyInfo
<1>4. assemblies' = [assemblies EXCEPT ![call[t].asm].mods[call[t].id] = call[t].mod, ![call[t].asm].manifest = k]
    BY <1>a, <1>2 DEF AddModuleInfo, ObjectTypes, AssemblyInfo
<1> HIDE DEF k
<1>5. SetAssemblyMod(call[t].asm, call[t].id, call[t].mod)
    BY <1>a, <1>b, <1>1, <1>2, <1>3, <1>4, AssemblyUpdates
<1> QED BY <1>5 DEF AddModuleInfo, ListsModule

LEMMA ObjectSteps ==
    ASSUME TypeOK, CallsFit, Refs, NEW t \in Threads, Continue(t) \/ CallBack(t)
    PROVE  ObjectStep(t)
<1>a. ThreadTypes /\ PointerTypes /\ ObjectTypes
    BY TypesOfPointers
<1>b. Apart(t)
    BY <1>a, ApartStep
<1>c. ASSUME UNCHANGED objVars PROVE Keeps
    BY <1>a, <1>c DEF Keeps, DomainsKept, objVars, ObjectTypes
<1>d. call[t] \in Call /\ call[t].dom \in Nat /\ call[t].asm \in Nat /\ call[t].mod \in Nat
    BY <1>a DEF ThreadTypes, Call
<1>e. ASSUME NEW a \in Assemblies, NEW r \in AssemblyInfosById(a), NEW ok, SendAssemblyUnloaded(a, r, ok),
             UNCHANGED <<appDomains, assemblies, modules>>
      PROVE  TakesAssembly
    <2>1. assemblies[r].dom \in DOMAIN domains
        BY FoundAssembly
    <2>2. SetAsm(assemblies[r].dom, a, 0)
        BY <1>a, <1>e, <2>1, DomainUpdates DEF SendAssemblyUnloaded
    <2> QED BY <1>e, <2>2 DEF TakesAssembly
<1>1. CASE FindAppDomain(t)
    BY <1>1, <1>c DEF FindAppDomain, ObjectStep
<1>2. CASE ConstructAppDomainInfo(t)
    BY <1>2, AddingAdds DEF ObjectStep
<1>3. CASE FindAssembly(t)
    BY <1>3, <1>c DEF FindAssembly, ObjectStep
<1>4. CASE ConstructAssemblyInfo(t)
    <2> DEFINE a == TheAssembly(t)
               i == appDomains[DomainOf[a]]
    <2>1. a \in Assemblies /\ DomainOf[a] \in Domains
        BY <1>4, LoadNames, IdsTypes DEF ConstructAssemblyInfo, LoadSteps
    <2> HIDE DEF a
    <2>2. CASE i = 0
        <3>1. UNCHANGED objVars
            BY <1>4, <2>2 DEF ConstructAssemblyInfo, objVars, a
        <3> QED BY <3>1, <1>c DEF ObjectStep
    <2>3. CASE i # 0
        <3>1. i \in DOMAIN domains /\ i \in Nat
            BY <2>1, <2>3, Collected
        <3>2. Len(assemblies) + 1 \in Nat
            BY <1>a DEF PointerTypes
        <3>3. /\ assemblies' = Append(assemblies, CAssemblyInfo(a, i))
              /\ domains' = [domains EXCEPT ![i].asms[a] = Len(assemblies) + 1]
              /\ pc[t] = "newAssembly" /\ UNCHANGED <<appDomains, modules>>
            BY <1>4, <2>3 DEF ConstructAssemblyInfo, a
        <3>4. NewAssembly(a, i)
            BY <1>a, <2>1, <3>1, <3>3, Constructions
        <3>5. SetAsm(i, a, Len(assemblies) + 1)
            BY <1>a, <2>1, <3>1, <3>2, <3>3, DomainUpdates
        <3> QED BY <2>3, <3>3, <3>4, <3>5 DEF AddsAssembly, ObjectStep, a
    <2> QED BY <2>2, <2>3
<1>5. CASE ConstructModuleInfo(t)
    <2>1. call[t].id \in Modules
        BY <1>5, LoadNames DEF ConstructModuleInfo, LoadSteps
    <2>2. call[t].dom \in DOMAIN domains
        BY <1>5, <2>1, IdsTypes DEF CallsFit, LoadFits, LoadPoints, LoadSteps, ConstructModuleInfo
    <2>3. Len(modules) + 1 \in Nat
        BY <1>a DEF PointerTypes
    <2>4. NewModule(call[t].id, call[t].dom, call[t].asm)
        BY <1>5, <1>a, <1>d, <2>1, Constructions DEF ConstructModuleInfo
    <2>5. SetMod(call[t].dom, call[t].id, Len(modules) + 1)
        BY <1>5, <1>a, <2>1, <2>2, <2>3, DomainUpdates DEF ConstructModuleInfo
    <2>6. pc'[t] = "addToAssembly"
        BY <1>5, <1>a DEF ConstructModuleInfo, Begin, Goto, ThreadTypes
    <2> QED BY <1>5, <2>4, <2>5, <2>6 DEF ConstructModuleInfo, AddsModule, ObjectStep
<1>6. ASSUME NEW ok \in Outcome, AddModuleInfo(t, ok) PROVE ObjectStep(t)
    BY <1>6, ListingLists DEF ObjectStep
<1>7. ASSUME NEW ok \in Outcome, RemoveAppDomain(t, ok) PROVE ObjectStep(t)
    <2>1. DropsDomains
        BY <1>7 DEF RemoveAppDomain, DropsDomains, TypeOK
    <2> QED BY <2>1 DEF ObjectStep
<1>8. CASE AttachDone(t)
    BY <1>8, <1>c DEF AttachDone, ObjectStep
<1>9. ASSUME NEW m \in Modules, AttachNext(t, m) PROVE ObjectStep(t)
    BY <1>9, <1>c DEF AttachNext, ObjectStep
<1>10. CASE CleanupModule(t)
    BY <1>10, CleanupCleans DEF ObjectStep
<1>11. CASE ModulesDone(t)
    BY <1>11, <1>c DEF ModulesDone, ObjectStep
<1>12. CASE AssembliesDone(t)
    BY <1>12, <1>c DEF AssembliesDone, ObjectStep
<1>13. ASSUME NEW m \in Modules, NEW ok \in Outcome, FabricateModuleUnload(t, m, ok) PROVE ObjectStep(t)
    BY <1>13, <1>c DEF FabricateModuleUnload, ObjectStep
<1>14. ASSUME NEW a \in Assemblies, NEW ok \in Outcome, FabricateAssemblyUnload(t, a, ok) PROVE ObjectStep(t)
    <2>1. CASE \E r \in AssemblyInfosById(a) : SendAssemblyUnloaded(a, r, ok)
        BY <1>14, <2>1, <1>e DEF FabricateAssemblyUnload, ObjectStep
    <2>2. CASE UNCHANGED domains
        BY <1>14, <2>2, <1>c DEF FabricateAssemblyUnload, ObjectStep, objVars
    <2> QED BY <1>14, <2>1, <2>2 DEF FabricateAssemblyUnload
<1>15. CASE ProfilerAttachComplete(t)
    BY <1>15, <1>c DEF ProfilerAttachComplete, ObjectStep
<1>16. ASSUME NEW d \in Domains, AppDomainCreationStarted(t, d) PROVE ObjectStep(t)
    BY <1>16, <1>c DEF AppDomainCreationStarted, ObjectStep
<1>17. ASSUME NEW d \in Domains, AppDomainShutdownFinished(t, d) PROVE ObjectStep(t)
    BY <1>17, <1>c DEF AppDomainShutdownFinished, ObjectStep
<1>18. ASSUME NEW d \in Domains, NEW hrStatus \in BOOLEAN, NEW ok \in Outcome, AppDomainCreationFinished(t, d, hrStatus, ok) PROVE ObjectStep(t)
    <2>1. DomainsKept
        <3> DEFINE r == appDomains[d]
        <3>1. CASE domains' = domains
            BY <1>a, <3>1 DEF DomainsKept, ObjectTypes
        <3>2. CASE r # 0 /\ domains' = [domains EXCEPT ![r].initialized = TRUE]
            <4>1. r \in DOMAIN domains /\ domains[r] \in DomainInfo /\ domains \in Seq(DomainInfo)
                BY <1>a, <3>2, Collected DEF ObjectTypes
            <4> DEFINE o == [domains[r] EXCEPT !.initialized = TRUE]
            <4>2. o \in DomainInfo /\ o.id = domains[r].id /\ o.mods = domains[r].mods /\ o.asms = domains[r].asms
                BY <4>1 DEF DomainInfo
            <4>3. domains' = [domains EXCEPT ![r] = o]
                BY <3>2
            <4> HIDE DEF r, o
            <4>4. /\ domains' \in Seq(DomainInfo) /\ DOMAIN domains' = DOMAIN domains /\ Len(domains') = Len(domains)
                  /\ \A j \in DOMAIN domains : domains'[j] = IF j = r THEN o ELSE domains[j]
                BY <4>1, <4>2, <4>3, UpdateAt
            <4> QED BY <4>2, <4>4 DEF DomainsKept
        <3> QED BY <1>18, <3>1, <3>2 DEF AppDomainCreationFinished
    <2> QED BY <1>18, <2>1 DEF AppDomainCreationFinished, Keeps, ObjectStep
<1>19. ASSUME NEW a \in Assemblies, AssemblyLoadFinished(t, a) PROVE ObjectStep(t)
    BY <1>19, <1>c DEF AssemblyLoadFinished, ObjectStep
<1>20. ASSUME NEW a \in Assemblies, NEW ok \in Outcome, AssemblyUnloadFinished(t, a, ok) PROVE ObjectStep(t)
    <2>1. CASE \E r \in AssemblyInfosById(a) : SendAssemblyUnloaded(a, r, ok)
        BY <1>20, <2>1, <1>e DEF AssemblyUnloadFinished, ObjectStep
    <2>2. CASE UNCHANGED domains
        BY <1>20, <2>2, <1>c DEF AssemblyUnloadFinished, ObjectStep, objVars
    <2> QED BY <1>20, <2>1, <2>2 DEF AssemblyUnloadFinished
<1>21. ASSUME NEW m \in Modules, ModuleAttachedToAssembly(t, m) PROVE ObjectStep(t)
    BY <1>21, <1>c DEF ModuleAttachedToAssembly, ObjectStep
<1>22. ASSUME NEW m \in Modules, NEW ok \in Outcome, ModuleUnloadFinished(t, m, ok) PROVE ObjectStep(t)
    BY <1>22, <1>c DEF ModuleUnloadFinished, ObjectStep
<1>23. CASE Shutdown(t)
    <2>1. DropsDomains
        BY <1>23 DEF Shutdown, DropsDomains
    <2> QED BY <2>1 DEF ObjectStep
<1>24. CASE ModuleInitializeFails(t)
    BY <1>24, <1>c DEF ModuleInitializeFails, ObjectStep
<1> QED BY <1>1, <1>2, <1>3, <1>4, <1>5, <1>6, <1>7, <1>8, <1>9, <1>10, <1>11, <1>12, <1>13, <1>14, <1>15, <1>16, <1>17, <1>18, <1>19, <1>20, <1>21, <1>22, <1>23, <1>24 DEF Continue, CallBack

-----------------------------------------------------------------------------
(* The objects keep their types and refer to each other.                     *)

\* What the loading steps know of their pointers.
LEMMA Pointers ==
    ASSUME CallsFit, NEW t \in Threads
    PROVE  /\ pc[t] \in {"addModule", "addToAssembly"} =>
                /\ call[t].id \in Modules /\ call[t].dom \in DOMAIN domains
                /\ domains[call[t].dom].id = HomeOf(call[t].id) /\ call[t].asm \in DOMAIN assemblies
           /\ pc[t] = "addToAssembly" =>
                /\ call[t].mod \in DOMAIN modules /\ modules[call[t].mod].id = call[t].id
                /\ modules[call[t].mod].asm = call[t].asm
           /\ pc[t] = "cleanup" => call[t].mod \in DOMAIN modules /\ withdrawn[modules[call[t].mod].id] > 0
<1>1. LoadFits(t) /\ LoadPoints(t) /\ UnloadFits(t)
    BY DEF CallsFit
<1>2. pc[t] \in {"addModule", "addToAssembly"} => call[t].id \in Modules /\ call[t].cb # "assembly"
    BY <1>1, IdsTypes DEF LoadFits, LoadSteps
<1> QED BY <1>1, <1>2 DEF LoadPoints, UnloadFits, LoadSteps, HeldSteps, TheDomain

LEMMA ObjectTypesStep ==
    ASSUME TypeOK, CallsFit, Refs, NEW t \in Threads, ObjectStep(t)
    PROVE  ObjectTypes' /\ appDomains' \in [Domains -> 0 .. Len(domains')]
<1>a. ObjectTypes /\ appDomains \in [Domains -> 0 .. Len(domains)] /\ Len(domains) \in Nat
    BY TypesOfPointers DEF TypeOK, PointerTypes
<1>1. CASE Keeps
    BY <1>1, <1>a DEF Keeps, DomainsKept, ObjectTypes
<1>2. CASE AddsDomain(t)
    <2>1. TheDomain(t) \in Domains
        BY <1>2, LoadNames DEF AddsDomain, LoadSteps
    <2> QED BY <1>2, <1>a, <2>1 DEF AddsDomain, NewDomain, ObjectTypes
<1>3. CASE AddsAssembly(t)
    BY <1>3, <1>a DEF AddsAssembly, NewAssembly, SetAsm, ObjectTypes
<1>4. CASE AddsModule(t)
    BY <1>4, <1>a DEF AddsModule, NewModule, SetMod, ObjectTypes
<1>5. CASE ListsModule(t)
    BY <1>5, <1>a DEF ListsModule, SetAssemblyMod, ObjectTypes
<1>6. CASE CleansUp(t)
    BY <1>6, <1>a DEF CleansUp, SetAssemblyMod, SetMod, Disposed, ObjectTypes
<1>7. CASE TakesAssembly
    BY <1>7, <1>a DEF TakesAssembly, SetAsm, ObjectTypes
<1>8. CASE DropsDomains
    BY <1>8, <1>a DEF DropsDomains, ObjectTypes
<1> QED BY <1>1, <1>2, <1>3, <1>4, <1>5, <1>6, <1>7, <1>8 DEF ObjectStep

\* Objects are never taken off their lists, and keep their names and their owners.
ObjectsStay ==
    /\ DOMAIN domains \subseteq DOMAIN domains' /\ \A i \in DOMAIN domains : domains'[i].id = domains[i].id
    /\ DOMAIN assemblies \subseteq DOMAIN assemblies'
    /\ \A i \in DOMAIN assemblies :
          assemblies'[i].id = assemblies[i].id /\ assemblies'[i].dom = assemblies[i].dom
    /\ DOMAIN modules \subseteq DOMAIN modules'
    /\ \A i \in DOMAIN modules :
          /\ modules'[i].id = modules[i].id /\ modules'[i].dom = modules[i].dom
          /\ modules'[i].asm = modules[i].asm
LEMMA ObjectsStayStep ==
    ASSUME NEW t \in Threads, ObjectStep(t) PROVE ObjectsStay
<1>1. CASE Keeps
    BY <1>1 DEF Keeps, DomainsKept, ObjectsStay
<1>2. CASE AddsDomain(t)
    BY <1>2 DEF AddsDomain, NewDomain, ObjectsStay
<1>3. CASE AddsAssembly(t)
    BY <1>3 DEF AddsAssembly, NewAssembly, SetAsm, ObjectsStay
<1>4. CASE AddsModule(t)
    BY <1>4 DEF AddsModule, NewModule, SetMod, ObjectsStay
<1>5. CASE ListsModule(t)
    BY <1>5 DEF ListsModule, SetAssemblyMod, ObjectsStay
<1>6. CASE CleansUp(t)
    BY <1>6 DEF CleansUp, SetAssemblyMod, SetMod, Disposed, ObjectsStay
<1>7. CASE TakesAssembly
    BY <1>7 DEF TakesAssembly, SetAsm, ObjectsStay
<1>8. CASE DropsDomains
    BY <1>8 DEF DropsDomains, ObjectsStay
<1> QED BY <1>1, <1>2, <1>3, <1>4, <1>5, <1>6, <1>7, <1>8 DEF ObjectStep

\* One entry of a map of an appdomain, as DomainRefs has it.
ModuleEntry(i, m) ==
    domains[i].mods[m] # 0 =>
        /\ domains[i].mods[m] \in DOMAIN modules
        /\ modules[domains[i].mods[m]].id = m /\ modules[domains[i].mods[m]].dom = i
        /\ ~modules[domains[i].mods[m]].disposed
        /\ HomeOf(m) = domains[i].id
AssemblyEntry(i, a) ==
    domains[i].asms[a] # 0 =>
        /\ domains[i].asms[a] \in DOMAIN assemblies
        /\ assemblies[domains[i].asms[a]].id = a /\ assemblies[domains[i].asms[a]].dom = i
        /\ DomainOf[a] = domains[i].id

LEMMA DomainRefsStep ==
    ASSUME TypeOK, CallsFit, Refs, NEW t \in Threads, ObjectStep(t)
    PROVE  DomainRefs'
<1>a. ObjectsStay
    BY ObjectsStayStep
<1>b. \A i \in DOMAIN domains : /\ \A m \in Modules : ModuleEntry(i, m)
                               /\ \A a \in Assemblies : AssemblyEntry(i, a)
    BY DEF Refs, DomainRefs, ModuleEntry, AssemblyEntry
\* An entry that stays as it is, of a module that is not disposed now.
<1>c. ASSUME NEW i \in DOMAIN domains, NEW m \in Modules, domains'[i].mods[m] = domains[i].mods[m],
             domains[i].mods[m] # 0 =>
                (modules'[domains[i].mods[m]].disposed => modules[domains[i].mods[m]].disposed)
      PROVE  ModuleEntry(i, m)'
    BY <1>a, <1>b, <1>c DEF ModuleEntry, ObjectsStay
<1>d. ASSUME NEW i \in DOMAIN domains, NEW a \in Assemblies, domains'[i].asms[a] = domains[i].asms[a]
      PROVE  AssemblyEntry(i, a)'
    BY <1>a, <1>b, <1>d DEF AssemblyEntry, ObjectsStay
<1>e. ASSUME \A i \in DOMAIN domains' : /\ \A m \in Modules : ModuleEntry(i, m)'
                                       /\ \A a \in Assemblies : AssemblyEntry(i, a)'
      PROVE  DomainRefs'
    BY <1>e DEF DomainRefs, ModuleEntry, AssemblyEntry
<1>1. CASE Keeps
    <2>1. DOMAIN domains' = DOMAIN domains /\ modules' = modules
        BY <1>1 DEF Keeps, DomainsKept
    <2>2. ASSUME NEW i \in DOMAIN domains, NEW m \in Modules PROVE ModuleEntry(i, m)'
        BY <1>1, <1>c, <2>1 DEF Keeps, DomainsKept
    <2>3. ASSUME NEW i \in DOMAIN domains, NEW a \in Assemblies PROVE AssemblyEntry(i, a)'
        BY <1>1, <1>d DEF Keeps, DomainsKept
    <2> QED BY <1>e, <2>1, <2>2, <2>3
<1>2. CASE AddsDomain(t)
    <2>1. /\ DOMAIN domains' = DOMAIN domains \cup {Len(domains) + 1} /\ modules' = modules
          /\ \A j \in DOMAIN domains : domains'[j] = domains[j]
          /\ \A m \in Modules : domains'[Len(domains) + 1].mods[m] = 0
          /\ \A a \in Assemblies : domains'[Len(domains) + 1].asms[a] = 0
        BY <1>2 DEF AddsDomain, NewDomain
    <2>2. ASSUME NEW i \in DOMAIN domains', NEW m \in Modules PROVE ModuleEntry(i, m)'
        <3>1. CASE i \in DOMAIN domains
            BY <1>c, <2>1, <3>1
        <3>2. CASE i = Len(domains) + 1
            BY <2>1, <3>2 DEF ModuleEntry
        <3> QED BY <2>1, <3>1, <3>2
    <2>3. ASSUME NEW i \in DOMAIN domains', NEW a \in Assemblies PROVE AssemblyEntry(i, a)'
        <3>1. CASE i \in DOMAIN domains
            BY <1>d, <2>1, <3>1
        <3>2. CASE i = Len(domains) + 1
            BY <2>1, <3>2 DEF AssemblyEntry
        <3> QED BY <2>1, <3>1, <3>2
    <2> QED BY <1>e, <2>2, <2>3
<1>3. CASE AddsAssembly(t)
    <2> DEFINE a0 == TheAssembly(t)
               i0 == appDomains[DomainOf[a0]]
    <2>1. a0 \in Assemblies /\ DomainOf[a0] \in Domains
        BY <1>3, LoadNames, IdsTypes DEF AddsAssembly, LoadSteps
    <2>2. i0 \in DOMAIN domains /\ domains[i0].id = DomainOf[a0]
        BY <1>3, <2>1, Collected DEF AddsAssembly, Refs, CollectionRefs
    <2>3. NewAssembly(a0, i0) /\ SetAsm(i0, a0, Len(assemblies) + 1) /\ modules' = modules
        BY <1>3 DEF AddsAssembly
    <2> HIDE DEF a0, i0
    <2>4. ASSUME NEW i \in DOMAIN domains, NEW m \in Modules PROVE ModuleEntry(i, m)'
        BY <1>c, <2>3 DEF SetAsm
    <2>5. ASSUME NEW i \in DOMAIN domains, NEW a \in Assemblies PROVE AssemblyEntry(i, a)'
        <3>1. CASE i = i0 /\ a = a0
            BY <2>2, <2>3, <3>1 DEF SetAsm, NewAssembly, AssemblyEntry
        <3>2. CASE ~(i = i0 /\ a = a0)
            BY <1>d, <2>3, <3>2 DEF SetAsm
        <3> QED BY <3>1, <3>2
    <2> QED BY <1>e, <2>3, <2>4, <2>5 DEF SetAsm
<1>4. CASE AddsModule(t)
    <2> DEFINE m0 == call[t].id
               i0 == call[t].dom
    <2>1. m0 \in Modules /\ i0 \in DOMAIN domains /\ domains[i0].id = HomeOf(m0)
        BY <1>4, Pointers DEF AddsModule
    <2>2. NewModule(m0, i0, call[t].asm) /\ SetMod(i0, m0, Len(modules) + 1)
        BY <1>4 DEF AddsModule
    <2> HIDE DEF m0, i0
    <2>3. ASSUME NEW i \in DOMAIN domains, NEW m \in Modules PROVE ModuleEntry(i, m)'
        <3>1. CASE i = i0 /\ m = m0
            BY <2>1, <2>2, <3>1 DEF SetMod, NewModule, ModuleEntry
        <3>2. CASE ~(i = i0 /\ m = m0)
            <4>1. domains'[i].mods[m] = domains[i].mods[m]
                BY <2>2, <3>2 DEF SetMod
            <4>2. domains[i].mods[m] # 0 => modules'[domains[i].mods[m]] = modules[domains[i].mods[m]]
                BY <1>b, <2>2 DEF NewModule, ModuleEntry
            <4> QED BY <1>c, <4>1, <4>2
        <3> QED BY <3>1, <3>2
    <2>4. ASSUME NEW i \in DOMAIN domains, NEW a \in Assemblies PROVE AssemblyEntry(i, a)'
        BY <1>d, <2>2 DEF SetMod
    <2> QED BY <1>e, <2>2, <2>3, <2>4 DEF SetMod
<1>5. CASE ListsModule(t)
    <2>1. domains' = domains /\ modules' = modules
        BY <1>5 DEF ListsModule
    <2>2. ASSUME NEW i \in DOMAIN domains, NEW m \in Modules PROVE ModuleEntry(i, m)'
        BY <1>c, <2>1
    <2>3. ASSUME NEW i \in DOMAIN domains, NEW a \in Assemblies PROVE AssemblyEntry(i, a)'
        BY <1>d, <2>1
    <2> QED BY <1>e, <2>1, <2>2, <2>3
<1>6. CASE CleansUp(t)
    <2> DEFINE i0 == modules[call[t].mod].dom
               m0 == modules[call[t].mod].id
    <2>1. SetMod(i0, m0, 0) /\ Disposed(call[t].mod)
        BY <1>6 DEF CleansUp
    <2>2. ASSUME NEW i \in DOMAIN domains, NEW m \in Modules PROVE ModuleEntry(i, m)'
        <3>1. CASE i = i0 /\ m = m0
            BY <2>1, <3>1 DEF SetMod, ModuleEntry
        <3>2. CASE ~(i = i0 /\ m = m0)
            <4>1. domains'[i].mods[m] = domains[i].mods[m]
                BY <2>1, <3>2 DEF SetMod
            <4>2. domains[i].mods[m] # 0 => domains[i].mods[m] # call[t].mod /\ domains[i].mods[m] \in DOMAIN modules
                BY <1>b, <3>2 DEF ModuleEntry
            <4>3. domains[i].mods[m] # 0 =>
                    modules'[domains[i].mods[m]].disposed = modules[domains[i].mods[m]].disposed
                BY <2>1, <4>2 DEF Disposed
            <4> QED BY <1>c, <4>1, <4>3
        <3> QED BY <3>1, <3>2
    <2> HIDE DEF i0, m0
    <2>3. ASSUME NEW i \in DOMAIN domains, NEW a \in Assemblies PROVE AssemblyEntry(i, a)'
        BY <1>d, <2>1 DEF SetMod
    <2> QED BY <1>e, <2>1, <2>2, <2>3 DEF SetMod
<1>7. CASE TakesAssembly
    <2>1. PICK a0 \in Assemblies : \E r \in AssemblyInfosById(a0) : SetAsm(assemblies[r].dom, a0, 0)
        BY <1>7 DEF TakesAssembly
    <2>2. PICK r \in AssemblyInfosById(a0) : SetAsm(assemblies[r].dom, a0, 0)
        BY <2>1
    <2> DEFINE i0 == assemblies[r].dom
    <2>3. SetAsm(i0, a0, 0) /\ modules' = modules
        BY <1>7, <2>2 DEF TakesAssembly
    <2> HIDE DEF i0
    <2>4. ASSUME NEW i \in DOMAIN domains, NEW m \in Modules PROVE ModuleEntry(i, m)'
        BY <1>c, <2>3 DEF SetAsm
    <2>5. ASSUME NEW i \in DOMAIN domains, NEW a \in Assemblies PROVE AssemblyEntry(i, a)'
        <3>1. CASE i = i0 /\ a = a0
            BY <2>3, <3>1 DEF SetAsm, AssemblyEntry
        <3>2. CASE ~(i = i0 /\ a = a0)
            BY <1>d, <2>3, <3>2 DEF SetAsm
        <3> QED BY <3>1, <3>2
    <2> QED BY <1>e, <2>3, <2>4, <2>5 DEF SetAsm
<1>8. CASE DropsDomains
    <2>1. domains' = domains /\ modules' = modules
        BY <1>8 DEF DropsDomains
    <2>2. ASSUME NEW i \in DOMAIN domains, NEW m \in Modules PROVE ModuleEntry(i, m)'
        BY <1>c, <2>1
    <2>3. ASSUME NEW i \in DOMAIN domains, NEW a \in Assemblies PROVE AssemblyEntry(i, a)'
        BY <1>d, <2>1
    <2> QED BY <1>e, <2>1, <2>2, <2>3
<1> QED BY <1>1, <1>2, <1>3, <1>4, <1>5, <1>6, <1>7, <1>8 DEF ObjectStep

\* An assembly, as AssemblyRefs has it.
AssemblyHolds(i, m) ==
    assemblies[i].mods[m] # 0 =>
        /\ assemblies[i].mods[m] \in DOMAIN modules
        /\ modules[assemblies[i].mods[m]].id = m /\ modules[assemblies[i].mods[m]].asm = i

LEMMA AssemblyRefsStep ==
    ASSUME TypeOK, CallsFit, Refs, NEW t \in Threads, ObjectStep(t)
    PROVE  AssemblyRefs'
<1>a. ObjectsStay
    BY ObjectsStayStep
<1>b. \A i \in DOMAIN assemblies : /\ assemblies[i].dom \in DOMAIN domains
                                  /\ \A m \in Modules : AssemblyHolds(i, m)
    BY DEF Refs, AssemblyRefs, AssemblyHolds
<1>c. ASSUME NEW i \in DOMAIN assemblies, NEW m \in Modules, assemblies'[i].mods[m] = assemblies[i].mods[m]
      PROVE  AssemblyHolds(i, m)'
    BY <1>a, <1>b, <1>c DEF AssemblyHolds, ObjectsStay
<1>d. ASSUME NEW i \in DOMAIN assemblies PROVE assemblies'[i].dom \in DOMAIN domains'
    BY <1>a, <1>b DEF ObjectsStay
<1>e. ASSUME \A i \in DOMAIN assemblies' : /\ assemblies'[i].dom \in DOMAIN domains'
                                          /\ \A m \in Modules : AssemblyHolds(i, m)'
      PROVE  AssemblyRefs'
    BY <1>e DEF AssemblyRefs, AssemblyHolds
<1>1. ASSUME assemblies' = assemblies PROVE AssemblyRefs'
    <2>1. ASSUME NEW i \in DOMAIN assemblies, NEW m \in Modules PROVE AssemblyHolds(i, m)'
        BY <1>1, <1>c
    <2> QED BY <1>1, <1>d, <1>e, <2>1
<1>2. ASSUME NEW i0, NEW m0, NEW r, SetAssemblyMod(i0, m0, r),
             r # 0 => /\ r \in DOMAIN modules /\ modules[r].id = m0 /\ modules[r].asm = i0
      PROVE  AssemblyRefs'
    <2>1. ASSUME NEW i \in DOMAIN assemblies, NEW m \in Modules PROVE AssemblyHolds(i, m)'
        <3>1. CASE i = i0 /\ m = m0
            BY <1>2, <1>a, <3>1 DEF SetAssemblyMod, AssemblyHolds, ObjectsStay
        <3>2. CASE ~(i = i0 /\ m = m0)
            BY <1>2, <1>c, <3>2 DEF SetAssemblyMod
        <3> QED BY <3>1, <3>2
    <2> QED BY <1>2, <1>d, <1>e, <2>1 DEF SetAssemblyMod
<1>3. CASE Keeps
    BY <1>1, <1>3 DEF Keeps
<1>4. CASE AddsDomain(t)
    BY <1>1, <1>4 DEF AddsDomain
<1>5. CASE AddsAssembly(t)
    <2> DEFINE a0 == TheAssembly(t)
               i0 == appDomains[DomainOf[a0]]
    <2>1. a0 \in Assemblies /\ DomainOf[a0] \in Domains
        BY <1>5, LoadNames, IdsTypes DEF AddsAssembly, LoadSteps
    <2>2. i0 \in DOMAIN domains'
        BY <1>5, <1>a, <2>1, Collected DEF AddsAssembly, ObjectsStay
    <2>3. NewAssembly(a0, i0)
        BY <1>5 DEF AddsAssembly
    <2> HIDE DEF a0, i0
    <2>4. /\ DOMAIN assemblies' = DOMAIN assemblies \cup {Len(assemblies) + 1}
          /\ \A j \in DOMAIN assemblies : assemblies'[j] = assemblies[j]
          /\ assemblies'[Len(assemblies) + 1].dom = i0
          /\ \A m \in Modules : assemblies'[Len(assemblies) + 1].mods[m] = 0
        BY <2>3 DEF NewAssembly
    <2>5. ASSUME NEW i \in DOMAIN assemblies', NEW m \in Modules PROVE AssemblyHolds(i, m)'
        <3>1. CASE i \in DOMAIN assemblies
            BY <1>c, <2>4, <3>1
        <3>2. CASE i = Len(assemblies) + 1
            BY <2>4, <3>2 DEF AssemblyHolds
        <3> QED BY <2>4, <3>1, <3>2
    <2> QED BY <1>d, <1>e, <2>2, <2>4, <2>5
<1>6. CASE AddsModule(t)
    BY <1>1, <1>6 DEF AddsModule
<1>7. CASE ListsModule(t)
    BY <1>2, <1>7, Pointers DEF ListsModule
<1>8. CASE CleansUp(t)
    BY <1>2, <1>8 DEF CleansUp
<1>9. CASE TakesAssembly
    BY <1>1, <1>9 DEF TakesAssembly
<1>10. CASE DropsDomains
    BY <1>1, <1>10 DEF DropsDomains
<1> QED BY <1>3, <1>4, <1>5, <1>6, <1>7, <1>8, <1>9, <1>10 DEF ObjectStep

LEMMA ModuleRefsStep ==
    ASSUME TypeOK, CallsFit, Refs, NEW t \in Threads, ObjectStep(t)
    PROVE  ModuleRefs'
<1>a. ObjectsStay
    BY ObjectsStayStep
<1>b. \A i \in DOMAIN modules : modules'[i].dom \in DOMAIN domains' /\ modules'[i].asm \in DOMAIN assemblies'
    BY <1>a DEF Refs, ModuleRefs, ObjectsStay
<1>1. CASE AddsModule(t)
    <2>1. call[t].dom \in DOMAIN domains' /\ call[t].asm \in DOMAIN assemblies'
        BY <1>1, <1>a, Pointers DEF AddsModule, ObjectsStay
    <2>2. /\ DOMAIN modules' = DOMAIN modules \cup {Len(modules) + 1}
          /\ modules'[Len(modules) + 1].dom = call[t].dom /\ modules'[Len(modules) + 1].asm = call[t].asm
        BY <1>1 DEF AddsModule, NewModule
    <2> QED BY <1>b, <2>1, <2>2 DEF ModuleRefs
<1>2. CASE DOMAIN modules' = DOMAIN modules
    BY <1>2, <1>b DEF ModuleRefs
<1>3. DOMAIN modules' = DOMAIN modules \/ AddsModule(t)
    BY DEF ObjectStep, Keeps, AddsDomain, AddsAssembly, ListsModule, CleansUp, Disposed, TakesAssembly, DropsDomains
<1> QED BY <1>1, <1>2, <1>3

LEMMA CollectionRefsStep ==
    ASSUME TypeOK, CallsFit, Refs, NEW t \in Threads, ObjectStep(t)
    PROVE  CollectionRefs'
<1>a. ObjectsStay
    BY ObjectsStayStep
<1>b. ASSUME NEW d \in Domains, appDomains'[d] \in {0, appDomains[d]}
      PROVE  appDomains'[d] # 0 => domains'[appDomains'[d]].id = d
    BY <1>a, <1>b, Collected DEF Refs, CollectionRefs, ObjectsStay
<1>1. CASE AddsDomain(t)
    <2>1. TheDomain(t) \in Domains
        BY <1>1, LoadNames DEF AddsDomain, LoadSteps
    <2>2. ASSUME NEW d \in Domains PROVE appDomains'[d] # 0 => domains'[appDomains'[d]].id = d
        <3>1. CASE d = TheDomain(t)
            BY <1>1, <3>1 DEF AddsDomain, NewDomain, TypeOK
        <3>2. CASE d # TheDomain(t)
            <4>1. appDomains'[d] = appDomains[d]
                BY <1>1, <3>2 DEF AddsDomain, TypeOK
            <4> QED BY <4>1, <1>b
        <3> QED BY <3>1, <3>2
    <2> QED BY <2>2 DEF CollectionRefs
<1>2. CASE \A d \in Domains : appDomains'[d] \in {0, appDomains[d]}
    BY <1>2, <1>b DEF CollectionRefs
<1>3. (\A d \in Domains : appDomains'[d] \in {0, appDomains[d]}) \/ AddsDomain(t)
    BY DEF ObjectStep, Keeps, AddsModule, AddsAssembly, ListsModule, CleansUp, TakesAssembly, DropsDomains
<1> QED BY <1>1, <1>2, <1>3

LEMMA RefsStep ==
    ASSUME TypeOK, CallsFit, Refs, NEW t \in Threads, ObjectStep(t)
    PROVE  Refs'
BY DomainRefsStep, AssemblyRefsStep, ModuleRefsStep, CollectionRefsStep DEF Refs

-----------------------------------------------------------------------------
(* The CLR's view of an id moves on, and what begins to load was not there.  *)

Lives == {"unused", "absent", "loading", "present", "gone"}

\* What is gone stays gone, and nobody ends the load of another thread.
LifeStep(t) ==
    /\ life' \in [Ids -> Lives]
    /\ \A x \in Ids : life'[x] # life[x] =>
            /\ life[x] # "gone" /\ life'[x] # "absent"
            /\ life[x] = "loading" => \A u \in Threads \ {t} : ~Loads(u, x)

LEMMA EndLoadLife ==
    ASSUME TypeOK, CallsFit, NEW t \in Threads, NEW ok, EndLoad(t, ok), pc[t] \in LoadSteps
    PROVE  LifeStep(t)
<1>a. life \in [Ids -> Lives]
    BY DEF TypeOK, Lives
<1>1. CASE call[t].cb \in {"assembly", "module"}
    <2>1. life' = [life EXCEPT ![call[t].id] = "present"]
        BY <1>1 DEF EndLoad
    <2>2. /\ call[t].id \in Ids /\ life[call[t].id] = "loading"
          /\ \A u \in Threads : Loads(u, call[t].id) => u = t
        BY <1>1, LoadNames DEF CallsFit, LoadFits
    <2> QED BY <1>a, <2>1, <2>2 DEF LifeStep, Lives
<1>2. CASE call[t].cb \notin {"assembly", "module"}
    BY <1>2, <1>a DEF EndLoad, LifeStep
<1> QED BY <1>1, <1>2

LEMMA LifeSteps ==
    ASSUME TypeOK, CallsFit, NEW t \in Threads, Continue(t) \/ CallBack(t)
    PROVE  LifeStep(t)
<1>a. life \in [Ids -> Lives]
    BY DEF TypeOK, Lives
<1>b. ASSUME UNCHANGED life PROVE LifeStep(t)
    BY <1>a, <1>b DEF LifeStep
<1>c. ASSUME NEW x \in Ids, NEW l \in Lives \ {"absent"}, life[x] \in {"absent", "present"},
             life' = [life EXCEPT ![x] = l]
      PROVE  LifeStep(t)
    BY <1>a, <1>c DEF LifeStep, Lives
<1>d. \A l \in {"loading", "present", "gone"} : l \in Lives \ {"absent"}
    BY DEF Lives
<1>1. CASE FindAppDomain(t)
    BY <1>1, <1>b DEF FindAppDomain, clrVars
<1>2. CASE ConstructAppDomainInfo(t)
    BY <1>2, <1>b DEF ConstructAppDomainInfo, clrVars
<1>3. CASE FindAssembly(t)
    BY <1>3, <1>b, EndLoadLife DEF FindAssembly, AfterAssembly, clrVars, LoadSteps
<1>4. CASE ConstructAssemblyInfo(t)
    BY <1>4, <1>b, EndLoadLife DEF ConstructAssemblyInfo, AfterAssembly, clrVars, LoadSteps
<1>5. CASE ConstructModuleInfo(t)
    BY <1>5, <1>b DEF ConstructModuleInfo, clrVars
<1>6. ASSUME NEW ok \in Outcome, AddModuleInfo(t, ok) PROVE LifeStep(t)
    BY <1>6, EndLoadLife DEF AddModuleInfo, LoadSteps
<1>7. ASSUME NEW ok \in Outcome, RemoveAppDomain(t, ok) PROVE LifeStep(t)
    BY <1>7, <1>b DEF RemoveAppDomain, clrVars
<1>8. CASE AttachDone(t)
    BY <1>8, <1>b DEF AttachDone
<1>9. ASSUME NEW m \in Modules, AttachNext(t, m) PROVE LifeStep(t)
    BY <1>9, <1>b DEF AttachNext
<1>10. CASE CleanupModule(t)
    BY <1>10, <1>b DEF CleanupModule, clrVars
<1>11. CASE ModulesDone(t)
    BY <1>11, <1>b DEF ModulesDone, clrVars
<1>12. CASE AssembliesDone(t)
    BY <1>12, <1>b DEF AssembliesDone, clrVars
<1>13. ASSUME NEW m \in Modules, NEW ok \in Outcome, FabricateModuleUnload(t, m, ok) PROVE LifeStep(t)
    BY <1>13, <1>b DEF FabricateModuleUnload, clrVars
<1>14. ASSUME NEW a \in Assemblies, NEW ok \in Outcome, FabricateAssemblyUnload(t, a, ok) PROVE LifeStep(t)
    BY <1>14, <1>b DEF FabricateAssemblyUnload, clrVars
<1>15. CASE ProfilerAttachComplete(t)
    BY <1>15, <1>b DEF ProfilerAttachComplete, clrVars
<1>16. ASSUME NEW d \in Domains, AppDomainCreationStarted(t, d) PROVE LifeStep(t)
    BY <1>16, <1>c, <1>d, IdsTypes DEF AppDomainCreationStarted
<1>17. ASSUME NEW d \in Domains, AppDomainShutdownFinished(t, d) PROVE LifeStep(t)
    BY <1>17, <1>c, <1>d, IdsTypes DEF AppDomainShutdownFinished
<1>18. ASSUME NEW d \in Domains, NEW hrStatus \in BOOLEAN, NEW ok \in Outcome, AppDomainCreationFinished(t, d, hrStatus, ok) PROVE LifeStep(t)
    <2>1. d \in Ids /\ life[d] = "loading" /\ \A u \in Threads : ~Loads(u, d)
        BY <1>18, IdsTypes DEF AppDomainCreationFinished, Loads
    <2>2. PICK l \in {"present", "gone"} : life' = [life EXCEPT ![d] = l]
        BY <1>18 DEF AppDomainCreationFinished
    <2> QED BY <1>a, <2>1, <2>2 DEF LifeStep, Lives
<1>19. ASSUME NEW a \in Assemblies, AssemblyLoadFinished(t, a) PROVE LifeStep(t)
    BY <1>19, <1>c, <1>d, IdsTypes DEF AssemblyLoadFinished
<1>20. ASSUME NEW a \in Assemblies, NEW ok \in Outcome, AssemblyUnloadFinished(t, a, ok) PROVE LifeStep(t)
    BY <1>20, <1>c, <1>d, IdsTypes DEF AssemblyUnloadFinished
<1>21. ASSUME NEW m \in Modules, ModuleAttachedToAssembly(t, m) PROVE LifeStep(t)
    BY <1>21, <1>c, <1>d, IdsTypes DEF ModuleAttachedToAssembly
<1>22. ASSUME NEW m \in Modules, NEW ok \in Outcome, ModuleUnloadFinished(t, m, ok) PROVE LifeStep(t)
    BY <1>22, <1>c, <1>d, IdsTypes DEF ModuleUnloadFinished
<1>23. CASE Shutdown(t)
    BY <1>23, <1>b DEF Shutdown
<1>24. CASE ModuleInitializeFails(t)
    BY <1>24, EndLoadLife DEF ModuleInitializeFails, LoadSteps
<1> QED BY <1>1, <1>2, <1>3, <1>4, <1>5, <1>6, <1>7, <1>8, <1>9, <1>10, <1>11, <1>12, <1>13, <1>14, <1>15, <1>16, <1>17, <1>18, <1>19, <1>20, <1>21, <1>22, <1>23, <1>24 DEF Continue, CallBack

\* What a thread loads now it loaded before, or the load begins: of something that was
\* absent, or of the next module of the attach.
GoesOn(t) ==
    /\ pc[t] \in LoadSteps \ {"addToAssembly"} /\ call'[t].id = call[t].id /\ call'[t].cb = call[t].cb
    /\ call'[t].todo = call[t].todo /\ UNCHANGED life
    /\ call[t].cb = "domain" => pc'[t] = "newDomain"
    /\ call[t].cb = "assembly" => pc'[t] = "newAssembly"
BeginsFor(cb, x, label) ==
    \/ cb = "domain" /\ x \in Domains /\ label = "domain"
    \/ cb = "assembly" /\ x \in Assemblies /\ label = "assembly"
    \/ cb = "module" /\ x \in Modules /\ label = "domain"
Begins(t, x) ==
    /\ call'[t].id = x /\ x \in Ids
    /\ \/ /\ phase = "running" /\ pc[t] = "idle" /\ BeginsFor(call'[t].cb, x, pc'[t])
          /\ life[x] = "absent" /\ life'[x] = "loading"
          /\ life[HomeOf(x)] # "gone" /\ (x \in Modules => life[AssemblyOf[x]] # "gone")
       \/ /\ pc[t] = "attach" /\ call[t].cb = "attach" /\ x \in call[t].todo /\ x \in Modules
          /\ pc'[t] = "domain" /\ call'[t].cb = "attach" /\ call'[t].todo = call[t].todo \ {x}
LoadsStep(t) == pc'[t] \in LoadSteps => GoesOn(t) \/ Begins(t, call'[t].id)

LEMMA LoadsSteps ==
    ASSUME TypeOK, CallsFit, NEW t \in Threads, Continue(t) \/ CallBack(t)
    PROVE  LoadsStep(t)
<1>a. pc \in [Threads -> Labels] /\ call \in [Threads -> Call] /\ call[t] \in Call
    BY TypesOfPointers DEF ThreadTypes
<1>b. ASSUME NEW label, NEW c, Begin(t, label, c) PROVE pc'[t] = label /\ call'[t] = c
    BY <1>a, <1>b DEF Begin, Goto
<1>c. ASSUME NEW label \in Labels \ LoadSteps, pc'[t] = label PROVE LoadsStep(t)
    BY <1>c DEF LoadsStep
<1>d. ASSUME GoesOn(t) PROVE LoadsStep(t)
    BY <1>d DEF LoadsStep
<1>e. ASSUME UNCHANGED <<pc, call>>, CanBegin(t) PROVE LoadsStep(t)
    BY <1>e DEF LoadsStep, CanBegin, LoadSteps
<1>f. HeldSteps \cup {"idle", "attach"} = Labels \ LoadSteps
    BY DEF Labels, LoadSteps, HeldSteps
<1>g. Return(t) => LoadsStep(t)
    BY <1>b, <1>c, <1>f DEF Return
<1>h. \A ok : EndLoad(t, ok) => LoadsStep(t)
    BY <1>b, <1>c, <1>f, <1>g DEF EndLoad
<1>i. ASSUME NEW label \in HeldSteps, NEW c, Begin(t, label, c) PROVE LoadsStep(t)
    BY <1>b, <1>c, <1>f, <1>i
<1>j. ASSUME NEW label, NEW n,
             \/ Begin(t, label, [call[t] EXCEPT !.dom = n]) \/ Begin(t, label, [call[t] EXCEPT !.asm = n])
             \/ Begin(t, label, [call[t] EXCEPT !.mod = n])
      PROVE  /\ call'[t].id = call[t].id /\ call'[t].cb = call[t].cb /\ call'[t].todo = call[t].todo
             /\ pc'[t] = label
    BY <1>a, <1>j DEF Begin, Goto, Call
<1>l. /\ call[t].cb = "domain" => pc[t] \notin {"assembly", "newAssembly", "addModule", "addToAssembly"}
      /\ call[t].cb = "assembly" => pc[t] \notin {"domain", "newDomain", "addModule", "addToAssembly"}
    BY DEF CallsFit, LoadFits, LoadSteps
<1>k. life \in [Ids -> Lives]
    BY DEF TypeOK, Lives
<1>1. CASE FindAppDomain(t)
    <2>1. pc[t] \in {"domain", "newDomain"} /\ pc[t] \in LoadSteps /\ UNCHANGED life
        BY <1>1 DEF FindAppDomain, LoadSteps, clrVars
    <2>2. ASSUME NEW r, AfterDomain(t, r) PROVE LoadsStep(t)
        <3>1. CASE call[t].cb = "domain"
            BY <2>2, <3>1, <1>g DEF AfterDomain
        <3>2. CASE call[t].cb # "domain"
            BY <2>1, <2>2, <3>2, <1>d, <1>j, <1>l DEF AfterDomain, GoesOn
        <3> QED BY <3>1, <3>2
    <2>3. CASE UNCHANGED call /\ Goto(t, "newDomain")
        BY <1>a, <2>1, <2>3, <1>d, <1>l DEF GoesOn, Goto
    <2> QED BY <1>1, <2>2, <2>3 DEF FindAppDomain
<1>2. CASE ConstructAppDomainInfo(t)
    <2>1. pc[t] \in {"domain", "newDomain"} /\ pc[t] \in LoadSteps /\ UNCHANGED life
        BY <1>2 DEF ConstructAppDomainInfo, LoadSteps, clrVars
    <2>2. ASSUME NEW r, AfterDomain(t, r) PROVE LoadsStep(t)
        <3>1. CASE call[t].cb = "domain"
            BY <2>2, <3>1, <1>g DEF AfterDomain
        <3>2. CASE call[t].cb # "domain"
            BY <2>1, <2>2, <3>2, <1>d, <1>j, <1>l DEF AfterDomain, GoesOn
        <3> QED BY <3>1, <3>2
    <2> QED BY <1>2, <2>2 DEF ConstructAppDomainInfo
<1>3. CASE FindAssembly(t)
    <2>1. pc[t] \in {"assembly", "newAssembly"} /\ pc[t] \in LoadSteps
        BY <1>3 DEF FindAssembly, LoadSteps
    <2>2. ASSUME NEW r, AfterAssembly(t, r) PROVE LoadsStep(t)
        <3>1. CASE call[t].cb = "assembly"
            BY <2>2, <3>1, <1>h DEF AfterAssembly
        <3>2. CASE call[t].cb # "assembly"
            BY <2>1, <2>2, <3>2, <1>d, <1>j, <1>l DEF AfterAssembly, GoesOn, clrVars
        <3> QED BY <3>1, <3>2
    <2>3. CASE UNCHANGED <<clrVars, call>> /\ Goto(t, "newAssembly")
        BY <1>a, <2>1, <2>3, <1>d, <1>l DEF GoesOn, Goto, clrVars
    <2> QED BY <1>3, <2>2, <2>3 DEF FindAssembly
<1>4. CASE ConstructAssemblyInfo(t)
    <2>1. pc[t] \in {"assembly", "newAssembly"} /\ pc[t] \in LoadSteps
        BY <1>4 DEF ConstructAssemblyInfo, LoadSteps
    <2>2. ASSUME NEW r, AfterAssembly(t, r) PROVE LoadsStep(t)
        <3>1. CASE call[t].cb = "assembly"
            BY <2>2, <3>1, <1>h DEF AfterAssembly
        <3>2. CASE call[t].cb # "assembly"
            BY <2>1, <2>2, <3>2, <1>d, <1>j, <1>l DEF AfterAssembly, GoesOn, clrVars
        <3> QED BY <3>1, <3>2
    <2> QED BY <1>4, <2>2, <1>h DEF ConstructAssemblyInfo
<1>5. CASE ConstructModuleInfo(t)
    BY <1>5, <1>d, <1>j, <1>l DEF ConstructModuleInfo, LoadSteps, GoesOn, clrVars
<1>6. ASSUME NEW ok \in Outcome, AddModuleInfo(t, ok) PROVE LoadsStep(t)
    BY <1>6, <1>h DEF AddModuleInfo
<1>7. ASSUME NEW ok \in Outcome, RemoveAppDomain(t, ok) PROVE LoadsStep(t)
    BY <1>7, <1>g DEF RemoveAppDomain
<1>8. CASE AttachDone(t)
    BY <1>8, <1>g DEF AttachDone
<1>9. ASSUME NEW m \in Modules, AttachNext(t, m) PROVE LoadsStep(t)
    <2>1. CASE Begin(t, "domain", [call[t] EXCEPT !.id = m, !.todo = @ \ {m}])
        <3>1. /\ call'[t].id = m /\ pc'[t] = "domain" /\ call'[t].cb = call[t].cb
              /\ call'[t].todo = call[t].todo \ {m}
            BY <1>a, <2>1 DEF Call, Begin, Goto
        <3>2. pc[t] = "attach" /\ call[t].cb = "attach" /\ m \in call[t].todo
            BY <1>9 DEF AttachNext, CallsFit, LoadFits
        <3> QED BY <3>1, <3>2, IdsTypes DEF LoadsStep, Begins
    <2> QED BY <1>9, <2>1, <1>g DEF AttachNext
<1>10. CASE CleanupModule(t)
    BY <1>10, <1>g, <1>i DEF CleanupModule, HeldSteps
<1>11. CASE ModulesDone(t)
    BY <1>11, <1>i DEF ModulesDone, BeginAssemblies, HeldSteps
<1>12. CASE AssembliesDone(t)
    BY <1>12, <1>i DEF AssembliesDone, HeldSteps
<1>13. ASSUME NEW m \in Modules, NEW ok \in Outcome, FabricateModuleUnload(t, m, ok) PROVE LoadsStep(t)
    BY <1>13, <1>i DEF FabricateModuleUnload, SendModuleUnloaded, BeginAssemblies, HeldSteps
<1>14. ASSUME NEW a \in Assemblies, NEW ok \in Outcome, FabricateAssemblyUnload(t, a, ok) PROVE LoadsStep(t)
    BY <1>14, <1>i DEF FabricateAssemblyUnload, HeldSteps
<1>15. CASE ProfilerAttachComplete(t)
    BY <1>15, <1>b, <1>c, <1>f DEF ProfilerAttachComplete
<1>16. ASSUME NEW d \in Domains, AppDomainCreationStarted(t, d) PROVE LoadsStep(t)
    <2>0. life[HomeOf(d)] # "gone" /\ d \notin Modules
        BY <1>16, IdsTypes DEF AppDomainCreationStarted
    <2>1. call'[t].id = d /\ call'[t].cb = "domain" /\ pc'[t] = "domain"
        BY <1>16, <1>a DEF AppDomainCreationStarted, NoCall, Begin, Goto
    <2>2. BeginsFor(call'[t].cb, d, pc'[t])
        BY <2>1 DEF BeginsFor
    <2>3. Begins(t, d)
        BY <1>16, <2>1, <2>0, <2>2, <1>k, IdsTypes DEF AppDomainCreationStarted, CanBegin, Begins
    <2> QED BY <2>1, <2>3 DEF LoadsStep
<1>17. ASSUME NEW d \in Domains, AppDomainShutdownFinished(t, d) PROVE LoadsStep(t)
    BY <1>17, <1>e, <1>i DEF AppDomainShutdownFinished, HeldSteps
<1>18. ASSUME NEW d \in Domains, NEW hrStatus \in BOOLEAN, NEW ok \in Outcome, AppDomainCreationFinished(t, d, hrStatus, ok) PROVE LoadsStep(t)
    BY <1>18, <1>e DEF AppDomainCreationFinished
<1>19. ASSUME NEW a \in Assemblies, AssemblyLoadFinished(t, a) PROVE LoadsStep(t)
    <2>1. call'[t].id = a /\ call'[t].cb = "assembly" /\ pc'[t] = "assembly"
        BY <1>19, <1>a DEF AssemblyLoadFinished, NoCall, Begin, Goto
    <2>2. BeginsFor(call'[t].cb, a, pc'[t])
        BY <2>1 DEF BeginsFor
    <2>3. Begins(t, a)
        BY <1>19, <2>1, <2>2, <1>k, IdsTypes DEF AssemblyLoadFinished, CanBegin, Begins
    <2> QED BY <2>1, <2>3 DEF LoadsStep
<1>20. ASSUME NEW a \in Assemblies, NEW ok \in Outcome, AssemblyUnloadFinished(t, a, ok) PROVE LoadsStep(t)
    BY <1>20, <1>e DEF AssemblyUnloadFinished
<1>21. ASSUME NEW m \in Modules, ModuleAttachedToAssembly(t, m) PROVE LoadsStep(t)
    <2>1. CASE m \notin ResourceOnly
        <3>1. call'[t].id = m /\ call'[t].cb = "module" /\ pc'[t] = "domain"
            BY <1>21, <2>1, <1>a DEF ModuleAttachedToAssembly, NoCall, Begin, Goto
        <3>2. BeginsFor(call'[t].cb, m, pc'[t])
            BY <3>1 DEF BeginsFor
        <3>3. Begins(t, m)
            BY <1>21, <2>1, <3>1, <3>2, <1>k, IdsTypes DEF ModuleAttachedToAssembly, CanBegin, Begins
        <3> QED BY <3>1, <3>3 DEF LoadsStep
    <2> QED BY <1>21, <2>1, <1>e DEF ModuleAttachedToAssembly
<1>22. ASSUME NEW m \in Modules, NEW ok \in Outcome, ModuleUnloadFinished(t, m, ok) PROVE LoadsStep(t)
    BY <1>22, <1>e, <1>i DEF ModuleUnloadFinished, SendModuleUnloaded, HeldSteps
<1>23. CASE Shutdown(t)
    BY <1>23, <1>e DEF Shutdown
<1>24. CASE ModuleInitializeFails(t)
    BY <1>24, <1>h DEF ModuleInitializeFails
<1> QED BY <1>1, <1>2, <1>3, <1>4, <1>5, <1>6, <1>7, <1>8, <1>9, <1>10, <1>11, <1>12, <1>13, <1>14, <1>15, <1>16, <1>17, <1>18, <1>19, <1>20, <1>21, <1>22, <1>23, <1>24 DEF Continue, CallBack

-----------------------------------------------------------------------------
(* One thread at a time takes things down, and what it does then.            *)

\* m_csForAppDomains, as TypeOK has it.
OwnerHolds == \A u \in Threads : owner = u <=> pc[u] \in HeldSteps
Holds(t) == \A u \in Threads \ {t} : pc[u] \notin HeldSteps

LEMMA LockHolds ==
    ASSUME OwnerHolds, NEW t \in Threads, CanLock(t) \/ pc[t] \in HeldSteps PROVE Holds(t)
BY ThreadsAssumption DEF OwnerHolds, CanLock, Holds

LEMMA OwnerStep ==
    ASSUME TypeOK, CallsFit, NEW t \in Threads, Continue(t) \/ CallBack(t)
    PROVE  OwnerHolds' /\ owner' \in Threads \cup {NoThread}
<1>a. ThreadTypes /\ PointerTypes /\ OwnerHolds /\ owner \in Threads \cup {NoThread}
    BY TypesOfPointers DEF TypeOK, OwnerHolds, HeldSteps
<1>b. Apart(t)
    BY <1>a, ApartStep
<1> DEFINE Goal == OwnerHolds' /\ owner' \in Threads \cup {NoThread}
\* The lock stays where it is, is taken, or is let go.
<1>c. ASSUME UNCHANGED owner, pc'[t] \in HeldSteps <=> pc[t] \in HeldSteps PROVE Goal
    BY <1>a, <1>b, <1>c DEF OwnerHolds, Apart
<1>d. ASSUME owner' = t, pc'[t] \in HeldSteps, CanLock(t) \/ pc[t] \in HeldSteps PROVE Goal
    <2>1. Holds(t)
        BY <1>a, <1>d, LockHolds
    <2> QED BY <1>b, <1>d, <2>1 DEF OwnerHolds, Apart, Holds
<1>e. ASSUME owner' = NoThread, pc'[t] \notin HeldSteps, pc[t] \in HeldSteps PROVE Goal
    <2>1. Holds(t)
        BY <1>a, <1>e, LockHolds
    <2> QED BY <1>b, <1>e, <2>1, ThreadsAssumption DEF OwnerHolds, Apart, Holds
<1>f. \A label, c : Begin(t, label, c) => pc'[t] = label
    BY <1>a DEF Begin, Goto, ThreadTypes
<1>g. Return(t) => pc'[t] \notin HeldSteps
    BY <1>f DEF Return, HeldSteps
<1>h. \A ok : EndLoad(t, ok) => pc'[t] \notin HeldSteps
    BY <1>f, <1>g DEF EndLoad, HeldSteps
<1>i. \A label : Goto(t, label) => pc'[t] = label
    BY <1>a DEF Goto, ThreadTypes
<1> SUFFICES Goal
    OBVIOUS
<1> HIDE DEF Goal
<1>1. CASE FindAppDomain(t)
    BY <1>1, <1>c, <1>f, <1>g, <1>i DEF FindAppDomain, HeldSteps, AfterDomain
<1>2. CASE ConstructAppDomainInfo(t)
    BY <1>2, <1>c, <1>f, <1>g DEF ConstructAppDomainInfo, HeldSteps, AfterDomain
<1>3. CASE FindAssembly(t)
    BY <1>3, <1>c, <1>f, <1>h, <1>i DEF FindAssembly, HeldSteps, AfterAssembly
<1>4. CASE ConstructAssemblyInfo(t)
    BY <1>4, <1>c, <1>f, <1>h DEF ConstructAssemblyInfo, HeldSteps, AfterAssembly
<1>5. CASE ConstructModuleInfo(t)
    BY <1>5, <1>c, <1>f, <1>g DEF ConstructModuleInfo, HeldSteps
<1>6. ASSUME NEW ok \in Outcome, AddModuleInfo(t, ok) PROVE Goal
    BY <1>6, <1>c, <1>h DEF AddModuleInfo, HeldSteps
<1>7. ASSUME NEW ok \in Outcome, RemoveAppDomain(t, ok) PROVE Goal
    BY <1>7, <1>e, <1>g DEF RemoveAppDomain, HeldSteps
<1>8. CASE AttachDone(t)
    BY <1>8, <1>c, <1>f, <1>g DEF AttachDone, HeldSteps
<1>9. ASSUME NEW m \in Modules, AttachNext(t, m) PROVE Goal
    BY <1>9, <1>c, <1>f, <1>g DEF AttachNext, HeldSteps
<1>10. CASE CleanupModule(t)
    BY <1>10, <1>c, <1>e, <1>f, <1>g DEF CleanupModule, HeldSteps
<1>11. CASE ModulesDone(t)
    BY <1>11, <1>c, <1>f, <1>g DEF ModulesDone, HeldSteps, BeginAssemblies
<1>12. CASE AssembliesDone(t)
    BY <1>12, <1>c, <1>f, <1>g DEF AssembliesDone, HeldSteps
<1>13. ASSUME NEW m \in Modules, NEW ok \in Outcome, FabricateModuleUnload(t, m, ok) PROVE Goal
    BY <1>13, <1>c, <1>d, <1>f DEF FabricateModuleUnload, HeldSteps, BeginAssemblies, SendModuleUnloaded
<1>14. ASSUME NEW a \in Assemblies, NEW ok \in Outcome, FabricateAssemblyUnload(t, a, ok) PROVE Goal
    BY <1>14, <1>c, <1>f, <1>g DEF FabricateAssemblyUnload, HeldSteps
<1>15. CASE ProfilerAttachComplete(t)
    BY <1>15, <1>c, <1>f DEF ProfilerAttachComplete, HeldSteps
<1>16. ASSUME NEW d \in Domains, AppDomainCreationStarted(t, d) PROVE Goal
    BY <1>16, <1>c, <1>f, <1>g DEF AppDomainCreationStarted, HeldSteps, CanBegin
<1>17. ASSUME NEW d \in Domains, AppDomainShutdownFinished(t, d) PROVE Goal
    BY <1>17, <1>c, <1>d, <1>f DEF AppDomainShutdownFinished, HeldSteps
<1>18. ASSUME NEW d \in Domains, NEW hrStatus \in BOOLEAN, NEW ok \in Outcome, AppDomainCreationFinished(t, d, hrStatus, ok) PROVE Goal
    BY <1>18, <1>c DEF AppDomainCreationFinished
<1>19. ASSUME NEW a \in Assemblies, AssemblyLoadFinished(t, a) PROVE Goal
    BY <1>19, <1>c, <1>f, <1>g DEF AssemblyLoadFinished, HeldSteps, CanBegin
<1>20. ASSUME NEW a \in Assemblies, NEW ok \in Outcome, AssemblyUnloadFinished(t, a, ok) PROVE Goal
    BY <1>20, <1>c DEF AssemblyUnloadFinished
<1>21. ASSUME NEW m \in Modules, ModuleAttachedToAssembly(t, m) PROVE Goal
    BY <1>21, <1>c, <1>f, <1>g DEF ModuleAttachedToAssembly, HeldSteps, CanBegin
<1>22. ASSUME NEW m \in Modules, NEW ok \in Outcome, ModuleUnloadFinished(t, m, ok) PROVE Goal
    BY <1>22, <1>c, <1>d, <1>f DEF ModuleUnloadFinished, HeldSteps, SendModuleUnloaded
<1>23. CASE Shutdown(t)
    BY <1>23, <1>c DEF Shutdown
<1>24. CASE ModuleInitializeFails(t)
    BY <1>24, <1>c, <1>h DEF ModuleInitializeFails, HeldSteps
<1> QED BY <1>1, <1>2, <1>3, <1>4, <1>5, <1>6, <1>7, <1>8, <1>9, <1>10, <1>11, <1>12, <1>13, <1>14, <1>15, <1>16, <1>17, <1>18, <1>19, <1>20, <1>21, <1>22, <1>23, <1>24 DEF Continue, CallBack

\* x is taken down: by the CLR's own callback, or with its appdomain.
Leaves(t, x) ==
    /\ x \in Ids /\ Holds(t)
    /\ \/ phase = "running" /\ pc[t] = "idle" /\ life[x] = "present" /\ life'[x] = "gone"
       \/ pc[t] \in HeldSteps /\ call[t].cb = "shutdown" /\ HomeOf(x) = call[t].id

WithdrawsModule(t, m, r) ==
    /\ Leaves(t, m) /\ withdrawn' = [withdrawn EXCEPT ![m] = @ + 1]
    /\ pc[t] # "cleanup" /\ pc'[t] = "cleanup" /\ call'[t].mod = r /\ UNCHANGED objVars
WithdrawsAssembly(t, a, r) ==
    /\ Leaves(t, a) /\ pc'[t] \notin LoadSteps /\ (pc[t] = "idle" => \A m \in Modules : AssemblyOf[m] = a => life[m] # "loading")
    /\ withdrawn' = [withdrawn EXCEPT ![a] = @ + 1]
    /\ SetAsm(assemblies[r].dom, a, 0) /\ UNCHANGED <<appDomains, assemblies, modules>>
WithdrawsDomain(t) ==
    /\ pc[t] = "shutDomain" /\ withdrawn' = [withdrawn EXCEPT ![call[t].id] = @ + 1]
    /\ appDomains' = [appDomains EXCEPT ![call[t].id] = 0] /\ UNCHANGED <<domains, assemblies, modules>>

WithdrawStep(t) ==
    \/ UNCHANGED withdrawn
    \/ \E m \in Modules : \E r \in ModuleInfosById(m) : WithdrawsModule(t, m, r)
    \/ \E a \in Assemblies : \E r \in AssemblyInfosById(a) : WithdrawsAssembly(t, a, r)
    \/ WithdrawsDomain(t)

LEMMA WithdrawSteps ==
    ASSUME TypeOK, CallsFit, Refs, NEW t \in Threads, Continue(t) \/ CallBack(t)
    PROVE  WithdrawStep(t)
<1>a. ThreadTypes /\ ObjectTypes /\ PointerTypes /\ OwnerHolds /\ call[t] \in Call /\ life \in [Ids -> Lives]
    BY TypesOfPointers DEF TypeOK, OwnerHolds, HeldSteps, ThreadTypes, Lives
<1>b. CASE UNCHANGED withdrawn
    BY <1>b DEF WithdrawStep
<1>c. ASSUME NEW a \in Assemblies, NEW r \in AssemblyInfosById(a), NEW ok \in BOOLEAN, SendAssemblyUnloaded(a, r, ok)
      PROVE  SetAsm(assemblies[r].dom, a, 0) /\ (UNCHANGED withdrawn \/ withdrawn' = [withdrawn EXCEPT ![a] = @ + 1])
    <2>1. assemblies[r].dom \in DOMAIN domains
        BY FoundAssembly
    <2>2. SetAsm(assemblies[r].dom, a, 0)
        BY <1>a, <1>c, <2>1, DomainUpdates DEF SendAssemblyUnloaded
    <2> QED BY <1>c, <2>2 DEF SendAssemblyUnloaded, Withdraw
<1>d. Outcome \subseteq BOOLEAN
    BY CanFailAssumption DEF Outcome
<1>1. ASSUME NEW ok \in Outcome, RemoveAppDomain(t, ok) PROVE WithdrawStep(t)
    BY <1>1, <1>b, <1>d DEF RemoveAppDomain, Withdraw, WithdrawsDomain, WithdrawStep
<1>2. ASSUME NEW m \in Modules, NEW ok \in Outcome, FabricateModuleUnload(t, m, ok) PROVE WithdrawStep(t)
    <2>1. CASE \E r \in ModuleInfosById(m) : SendModuleUnloaded(t, m, r, [call[t] EXCEPT !.todo = @ \ {m}])
        <3>1. PICK r \in ModuleInfosById(m) : SendModuleUnloaded(t, m, r, [call[t] EXCEPT !.todo = @ \ {m}])
            BY <2>1
        <3>2. pc[t] = "shutModules" /\ pc[t] \in HeldSteps
            BY <1>2 DEF FabricateModuleUnload, HeldSteps
        <3>3. call[t].cb = "shutdown" /\ HomeOf(m) = call[t].id
            BY <1>2, <3>2 DEF FabricateModuleUnload, CallsFit, UnloadFits
        <3>4. Leaves(t, m)
            BY <1>a, <3>2, <3>3, LockHolds, IdsTypes DEF Leaves
        <3>5. pc'[t] = "cleanup" /\ call'[t].mod = r
            BY <1>a, <3>1 DEF SendModuleUnloaded, Begin, Goto, ThreadTypes, Call
        <3>6. WithdrawsModule(t, m, r)
            BY <1>2, <3>1, <3>2, <3>4, <3>5 DEF SendModuleUnloaded, Withdraw, WithdrawsModule, FabricateModuleUnload
        <3> QED BY <3>6 DEF WithdrawStep
    <2> QED BY <1>2, <1>b, <2>1 DEF FabricateModuleUnload, Withdraw
<1>3. ASSUME NEW a \in Assemblies, NEW ok \in Outcome, FabricateAssemblyUnload(t, a, ok) PROVE WithdrawStep(t)
    <2>1. CASE \E r \in AssemblyInfosById(a) : SendAssemblyUnloaded(a, r, ok)
        <3>1. PICK r \in AssemblyInfosById(a) : SendAssemblyUnloaded(a, r, ok)
            BY <2>1
        <3>2. pc[t] = "shutAssemblies" /\ pc[t] \in HeldSteps
            BY <1>3 DEF FabricateAssemblyUnload, HeldSteps
        <3>3. call[t].cb = "shutdown" /\ HomeOf(a) = call[t].id
            BY <1>3, <3>2 DEF FabricateAssemblyUnload, CallsFit, UnloadFits
        <3>4. Leaves(t, a)
            BY <1>a, <3>2, <3>3, LockHolds, IdsTypes DEF Leaves
        <3>5. pc'[t] \notin LoadSteps
            BY <1>3, <1>a, <3>2 DEF FabricateAssemblyUnload, Begin, Goto, ThreadTypes, LoadSteps
        <3>6. UNCHANGED withdrawn \/ WithdrawsAssembly(t, a, r)
            BY <1>3, <1>c, <1>d, <3>1, <3>2, <3>4, <3>5 DEF WithdrawsAssembly, FabricateAssemblyUnload
        <3> QED BY <1>b, <3>6 DEF WithdrawStep
    <2> QED BY <1>3, <1>b, <2>1 DEF FabricateAssemblyUnload
<1>4. ASSUME NEW a \in Assemblies, NEW ok \in Outcome, AssemblyUnloadFinished(t, a, ok) PROVE WithdrawStep(t)
    <2>1. CASE \E r \in AssemblyInfosById(a) : SendAssemblyUnloaded(a, r, ok)
        <3>1. PICK r \in AssemblyInfosById(a) : SendAssemblyUnloaded(a, r, ok)
            BY <2>1
        <3>2. Leaves(t, a)
            BY <1>a, <1>4, LockHolds, IdsTypes DEF Leaves, AssemblyUnloadFinished, CanBegin
        <3>3. \A m \in Modules : AssemblyOf[m] = a => life[m] # "loading"
            BY <1>4 DEF AssemblyUnloadFinished, Loading
        <3>4. pc'[t] \notin LoadSteps
            BY <1>4 DEF AssemblyUnloadFinished, CanBegin, LoadSteps
        <3>5. UNCHANGED withdrawn \/ WithdrawsAssembly(t, a, r)
            BY <1>4, <1>c, <1>d, <3>1, <3>2, <3>3, <3>4 DEF WithdrawsAssembly, AssemblyUnloadFinished
        <3> QED BY <1>b, <3>5 DEF WithdrawStep
    <2> QED BY <1>4, <1>b, <2>1 DEF AssemblyUnloadFinished
<1>5. ASSUME NEW m \in Modules, NEW ok \in Outcome, ModuleUnloadFinished(t, m, ok) PROVE WithdrawStep(t)
    <2>1. CASE \E r \in ModuleInfosById(m) : SendModuleUnloaded(t, m, r, [NoCall EXCEPT !.cb = "unload", !.id = m])
        <3>1. PICK r \in ModuleInfosById(m) : SendModuleUnloaded(t, m, r, [NoCall EXCEPT !.cb = "unload", !.id = m])
            BY <2>1
        <3>2. pc[t] # "cleanup"
            BY <1>5 DEF ModuleUnloadFinished, CanBegin
        <3>3. Leaves(t, m)
            BY <1>a, <1>5, LockHolds, IdsTypes DEF Leaves, ModuleUnloadFinished, CanBegin
        <3>4. pc'[t] = "cleanup" /\ call'[t].mod = r
            BY <1>a, <3>1 DEF SendModuleUnloaded, Begin, Goto, ThreadTypes, NoCall
        <3>5. WithdrawsModule(t, m, r)
            BY <1>5, <3>1, <3>2, <3>3, <3>4 DEF SendModuleUnloaded, Withdraw, WithdrawsModule, ModuleUnloadFinished
        <3> QED BY <3>5 DEF WithdrawStep
    <2> QED BY <1>5, <1>b, <2>1 DEF ModuleUnloadFinished, Withdraw
<1>6. \/ UNCHANGED withdrawn \/ \E ok \in Outcome : RemoveAppDomain(t, ok)
      \/ \E m \in Modules, ok \in Outcome : FabricateModuleUnload(t, m, ok) \/ ModuleUnloadFinished(t, m, ok)
      \/ \E a \in Assemblies, ok \in Outcome : FabricateAssemblyUnload(t, a, ok) \/ AssemblyUnloadFinished(t, a, ok)
    BY DEF Continue, CallBack, histVars, FindAppDomain, ConstructAppDomainInfo, FindAssembly, ConstructAssemblyInfo,
           ModuleInitializeFails, ConstructModuleInfo, AddModuleInfo, AttachDone, AttachNext, CleanupModule, ModulesDone, AssembliesDone,
           ProfilerAttachComplete, AppDomainCreationStarted, AppDomainShutdownFinished, AppDomainCreationFinished,
           AssemblyLoadFinished, ModuleAttachedToAssembly, Shutdown
<1> QED BY <1>1, <1>2, <1>3, <1>4, <1>5, <1>6, <1>b

-----------------------------------------------------------------------------
(* The attach, and the callbacks at rest.                                    *)

\* A thread outside a callback holds nothing, and the attach stays with its modules.
RestStep(t) ==
    /\ pc'[t] = "idle" => call'[t] = NoCall
    /\ pc'[t] = "attach" => call'[t].cb = "attach" /\ call'[t].id = NoThread
    /\ call'[t].cb = "attach" =>
            /\ pc'[t] \in LoadSteps \cup {"attach"}
            /\ call'[t].todo \subseteq atAttach \cap Modules
            /\ (call[t].cb = "attach" /\ call'[t].todo \subseteq call[t].todo) \/ \A u \in Threads : pc[u] = "idle"

LEMMA EndLoadRests ==
    ASSUME TypeOK, CallsFit, NEW t \in Threads, NEW ok, EndLoad(t, ok), pc[t] \in LoadSteps PROVE RestStep(t)
<1>a. pc \in [Threads -> Labels] /\ call \in [Threads -> Call]
    BY TypesOfPointers DEF ThreadTypes
<1>1. CASE Return(t)
    BY <1>a, <1>1 DEF Return, Begin, Goto, RestStep, NoCall
<1>2. CASE call[t].cb = "attach" /\ Begin(t, "attach", [NoCall EXCEPT !.cb = "attach", !.todo = call[t].todo])
    <2>1. pc'[t] = "attach" /\ call'[t].cb = "attach" /\ call'[t].id = NoThread /\ call'[t].todo = call[t].todo
        BY <1>a, <1>2 DEF Begin, Goto, NoCall
    <2>2. call[t].todo \subseteq atAttach \cap Modules
        BY <1>2 DEF CallsFit, LoadFits
    <2> QED BY <1>2, <2>1, <2>2 DEF RestStep
<1> QED BY <1>1, <1>2 DEF EndLoad

LEMMA RestSteps ==
    ASSUME TypeOK, CallsFit, NEW t \in Threads, Continue(t) \/ CallBack(t)
    PROVE  RestStep(t)
<1>a. pc \in [Threads -> Labels] /\ call \in [Threads -> Call] /\ call[t] \in Call
    BY TypesOfPointers DEF ThreadTypes
<1>b. LoadFits(t) /\ UnloadFits(t)
    BY DEF CallsFit
<1>c. Return(t) => RestStep(t)
    BY <1>a DEF Return, Begin, Goto, RestStep, NoCall
<1>d. ASSUME UNCHANGED <<pc, call>>, CanBegin(t) PROVE RestStep(t)
    BY <1>b, <1>d DEF RestStep, CanBegin, LoadFits, NoCall
<1>e. ASSUME pc'[t] \notin {"idle", "attach"}, call'[t].cb # "attach" PROVE RestStep(t)
    BY <1>e DEF RestStep
<1>f. ASSUME GoesOn(t), pc'[t] \in LoadSteps PROVE RestStep(t)
    BY <1>b, <1>f DEF RestStep, LoadFits, GoesOn, LoadSteps
<1>g. LoadsStep(t)
    BY LoadsSteps
<1>h. CASE pc'[t] \in LoadSteps
    <2>1. CASE Begins(t, call'[t].id)
        <3>1. CASE call'[t].cb = "attach"
            BY <1>b, <1>h, <2>1, <3>1 DEF Begins, BeginsFor, RestStep, LoadFits, LoadSteps
        <3>2. CASE call'[t].cb # "attach"
            BY <1>e, <1>h, <3>2 DEF LoadSteps
        <3> QED BY <3>1, <3>2
    <2> QED BY <1>f, <1>g, <1>h, <2>1 DEF LoadsStep
<1>i. SUFFICES ASSUME pc'[t] \notin LoadSteps PROVE RestStep(t)
    BY <1>h
\* The steps of a callback that takes something down.
<1>j. pc[t] \in HeldSteps => call[t].cb # "attach"
    BY <1>b DEF UnloadFits
<1>k. ASSUME NEW label \in HeldSteps, NEW c, Begin(t, label, c), c.cb # "attach" PROVE RestStep(t)
    BY <1>a, <1>e, <1>k DEF Begin, Goto, HeldSteps
<1>1. CASE FindAppDomain(t)
    BY <1>1, <1>a, <1>c, <1>i DEF FindAppDomain, AfterDomain, Begin, Goto, LoadSteps
<1>2. CASE ConstructAppDomainInfo(t)
    BY <1>2, <1>a, <1>c, <1>i DEF ConstructAppDomainInfo, AfterDomain, Begin, Goto, LoadSteps
<1>3. CASE FindAssembly(t)
    BY <1>3, <1>a, <1>i, EndLoadRests DEF FindAssembly, AfterAssembly, Begin, Goto, LoadSteps
<1>4. CASE ConstructAssemblyInfo(t)
    BY <1>4, <1>a, <1>i, EndLoadRests DEF ConstructAssemblyInfo, AfterAssembly, Begin, Goto, LoadSteps
<1>5. CASE ConstructModuleInfo(t)
    BY <1>5, <1>a, <1>i DEF ConstructModuleInfo, Begin, Goto, LoadSteps
<1>6. ASSUME NEW ok \in Outcome, AddModuleInfo(t, ok) PROVE RestStep(t)
    BY <1>6, EndLoadRests DEF AddModuleInfo, LoadSteps
<1>7. ASSUME NEW ok \in Outcome, RemoveAppDomain(t, ok) PROVE RestStep(t)
    BY <1>7, <1>c DEF RemoveAppDomain
<1>8. CASE AttachDone(t)
    BY <1>8, <1>c DEF AttachDone
<1>9. ASSUME NEW m \in Modules, AttachNext(t, m) PROVE RestStep(t)
    BY <1>9, <1>a, <1>c, <1>i DEF AttachNext, Begin, Goto, LoadSteps
<1>10. CASE CleanupModule(t)
    <2>1. pc[t] \in HeldSteps /\ call[t].cb # "attach"
        BY <1>10, <1>j DEF CleanupModule, HeldSteps
    <2>2. [call[t] EXCEPT !.mod = 0].cb # "attach"
        BY <1>a, <2>1 DEF Call
    <2> QED BY <1>10, <1>c, <1>k, <2>2 DEF CleanupModule, HeldSteps
<1>11. CASE ModulesDone(t)
    <2>1. pc[t] \in HeldSteps /\ call[t].cb # "attach"
        BY <1>11, <1>j DEF ModulesDone, HeldSteps
    <2>2. \A s : [call[t] EXCEPT !.todo = s].cb # "attach"
        BY <1>a, <2>1 DEF Call
    <2>3. BeginAssemblies(t, call[t]) => RestStep(t)
        BY <1>k, <2>2 DEF BeginAssemblies, HeldSteps
    <2> QED BY <1>11, <2>3 DEF ModulesDone
<1>12. CASE AssembliesDone(t)
    <2>1. pc[t] \in HeldSteps /\ call[t].cb # "attach"
        BY <1>12, <1>j DEF AssembliesDone, HeldSteps
    <2> QED BY <1>12, <2>1, <1>k DEF AssembliesDone, HeldSteps
<1>13. ASSUME NEW m \in Modules, NEW ok \in Outcome, FabricateModuleUnload(t, m, ok) PROVE RestStep(t)
    <2>1. pc[t] \in HeldSteps /\ call[t].cb # "attach"
        BY <1>13, <1>j DEF FabricateModuleUnload, HeldSteps
    <2>2. \A s : [call[t] EXCEPT !.todo = s].cb # "attach"
        BY <1>a, <2>1 DEF Call
    <2>3. BeginAssemblies(t, call[t]) => RestStep(t)
        BY <1>k, <2>2 DEF BeginAssemblies, HeldSteps
    <2>4. \A s, r : [[call[t] EXCEPT !.todo = s] EXCEPT !.mod = r].cb # "attach"
        BY <1>a, <2>1 DEF Call
    <2> QED BY <1>13, <1>k, <2>2, <2>3, <2>4 DEF FabricateModuleUnload, SendModuleUnloaded, HeldSteps
<1>14. ASSUME NEW a \in Assemblies, NEW ok \in Outcome, FabricateAssemblyUnload(t, a, ok) PROVE RestStep(t)
    <2>1. pc[t] \in HeldSteps /\ call[t].cb # "attach"
        BY <1>14, <1>j DEF FabricateAssemblyUnload, HeldSteps
    <2>2. \A s : [call[t] EXCEPT !.todo = s].cb # "attach"
        BY <1>a, <2>1 DEF Call
    <2> QED BY <1>14, <1>k, <2>2 DEF FabricateAssemblyUnload, HeldSteps
<1>15. CASE ProfilerAttachComplete(t)
    BY <1>15, <1>a DEF ProfilerAttachComplete, Begin, Goto, NoCall, RestStep
<1>16. ASSUME NEW d \in Domains, AppDomainCreationStarted(t, d) PROVE RestStep(t)
    BY <1>16, <1>a, <1>d, <1>i DEF AppDomainCreationStarted, Begin, Goto, LoadSteps
<1>17. ASSUME NEW d \in Domains, AppDomainShutdownFinished(t, d) PROVE RestStep(t)
    <2>1. \A s, r : [NoCall EXCEPT !.cb = "shutdown", !.id = d, !.dom = r, !.todo = s].cb # "attach"
        BY DEF NoCall
    <2> QED BY <1>17, <1>d, <1>k, <2>1 DEF AppDomainShutdownFinished, HeldSteps
<1>18. ASSUME NEW d \in Domains, NEW hrStatus \in BOOLEAN, NEW ok \in Outcome, AppDomainCreationFinished(t, d, hrStatus, ok) PROVE RestStep(t)
    BY <1>18, <1>d DEF AppDomainCreationFinished
<1>19. ASSUME NEW a \in Assemblies, AssemblyLoadFinished(t, a) PROVE RestStep(t)
    BY <1>19, <1>a, <1>d, <1>i DEF AssemblyLoadFinished, Begin, Goto, LoadSteps
<1>20. ASSUME NEW a \in Assemblies, NEW ok \in Outcome, AssemblyUnloadFinished(t, a, ok) PROVE RestStep(t)
    BY <1>20, <1>d DEF AssemblyUnloadFinished
<1>21. ASSUME NEW m \in Modules, ModuleAttachedToAssembly(t, m) PROVE RestStep(t)
    BY <1>21, <1>a, <1>d, <1>i DEF ModuleAttachedToAssembly, Begin, Goto, LoadSteps
<1>22. ASSUME NEW m \in Modules, NEW ok \in Outcome, ModuleUnloadFinished(t, m, ok) PROVE RestStep(t)
    <2>1. \A r : [[NoCall EXCEPT !.cb = "unload", !.id = m] EXCEPT !.mod = r].cb # "attach"
        BY DEF NoCall
    <2> QED BY <1>22, <1>d, <1>k, <2>1 DEF ModuleUnloadFinished, SendModuleUnloaded, HeldSteps
<1>23. CASE Shutdown(t)
    BY <1>23, <1>d DEF Shutdown
<1>24. CASE ModuleInitializeFails(t)
    BY <1>24, EndLoadRests DEF ModuleInitializeFails, LoadSteps
<1> QED BY <1>1, <1>2, <1>3, <1>4, <1>5, <1>6, <1>7, <1>8, <1>9, <1>10, <1>11, <1>12, <1>13, <1>14, <1>15, <1>16, <1>17, <1>18, <1>19, <1>20, <1>21, <1>22, <1>23, <1>24 DEF Continue, CallBack

\* The engine goes from attaching to running with the end of the attach, and from running to
\* shutdown; while it attaches only the attach moves.
PhaseStep(t) ==
    /\ phase' \in {"attaching", "running", "shutdown"} /\ UNCHANGED atAttach
    /\ call'[t].cb = "attach" => phase = "attaching" /\ phase' = "attaching"
    /\ phase' # phase => phase' # "attaching" /\ call'[t].cb # "attach" /\ (phase = "running" \/ call[t].cb = "attach")
    /\ phase = "attaching" => phase' # "attaching" \/ call'[t].cb = "attach"
    /\ phase = "attaching" /\ pc[t] = "idle" => \A u \in Threads : pc[u] = "idle"

LEMMA EndLoadPhase ==
    ASSUME TypeOK, CallsFit, AttachAlone, NEW t \in Threads, NEW ok \in BOOLEAN, EndLoad(t, ok), pc[t] \in LoadSteps,
           UNCHANGED atAttach
    PROVE  PhaseStep(t)
<1>a. pc \in [Threads -> Labels] /\ call \in [Threads -> Call] /\ pc[t] # "idle"
    BY TypesOfPointers DEF ThreadTypes, LoadSteps
<1>b. /\ call[t].cb = "attach" => phase = "attaching"
      /\ phase = "attaching" => call[t].cb = "attach"
      /\ phase \in {"attaching", "running", "shutdown"}
    BY <1>a DEF AttachAlone, TypeOK
<1>1. CASE call[t].cb = "attach" /\ ok
    <2>1. call'[t].cb = "attach" /\ phase' = phase
        BY <1>a, <1>1 DEF EndLoad, Begin, Goto, NoCall
    <2> QED BY <1>a, <1>b, <1>1, <2>1 DEF PhaseStep
<1>2. CASE call[t].cb = "attach" /\ ~ok
    <2>1. call'[t].cb # "attach" /\ phase' = "running"
        BY <1>a, <1>b, <1>2 DEF EndLoad, Return, Begin, Goto, NoCall
    <2> QED BY <1>a, <1>b, <1>2, <2>1 DEF PhaseStep
<1>3. CASE call[t].cb # "attach"
    <2>1. call'[t].cb # "attach" /\ phase' = phase
        BY <1>a, <1>b, <1>3 DEF EndLoad, Return, Begin, Goto, NoCall
    <2> QED BY <1>a, <1>b, <1>3, <2>1 DEF PhaseStep
<1> QED BY <1>1, <1>2, <1>3

LEMMA PhaseSteps ==
    ASSUME TypeOK, CallsFit, AttachAlone, NEW t \in Threads, Continue(t) \/ CallBack(t)
    PROVE  PhaseStep(t)
<1>a. pc \in [Threads -> Labels] /\ call \in [Threads -> Call] /\ call[t] \in Call
    BY TypesOfPointers DEF ThreadTypes
<1>b. LoadFits(t) /\ UnloadFits(t)
    BY DEF CallsFit
<1>c. /\ call[t].cb = "attach" => phase = "attaching"
      /\ phase = "attaching" => pc[t] = "idle" \/ call[t].cb = "attach"
      /\ phase \in {"attaching", "running", "shutdown"}
    BY DEF AttachAlone, TypeOK
\* The phase stays, and so does what the callback is.
<1>d. ASSUME UNCHANGED <<phase, atAttach>>, pc[t] # "idle", call'[t].cb = call[t].cb PROVE PhaseStep(t)
    BY <1>c, <1>d DEF PhaseStep
\* A callback of a running engine begins, or a callback that does not attach ends.
<1>e. ASSUME UNCHANGED <<phase, atAttach>>, phase # "attaching", call'[t].cb # "attach" PROVE PhaseStep(t)
    BY <1>c, <1>e DEF PhaseStep
<1>f. ASSUME UNCHANGED <<phase, atAttach>>, CanBegin(t), UNCHANGED call PROVE PhaseStep(t)
    BY <1>b, <1>e, <1>f DEF CanBegin, LoadFits, NoCall
<1>g. pc[t] \in HeldSteps => phase # "attaching" /\ pc[t] # "idle"
    BY <1>b, <1>c DEF UnloadFits, HeldSteps
<1>h. Return(t) => call'[t].cb # "attach"
    BY <1>a DEF Return, Begin, NoCall
<1>i. ASSUME NEW label, NEW n,
             \/ Begin(t, label, [call[t] EXCEPT !.dom = n]) \/ Begin(t, label, [call[t] EXCEPT !.asm = n])
             \/ Begin(t, label, [call[t] EXCEPT !.mod = n]) \/ Begin(t, label, [call[t] EXCEPT !.todo = n])
             \/ Begin(t, label, call[t])
      PROVE  call'[t].cb = call[t].cb
    BY <1>a, <1>i DEF Begin, Goto, Call
<1>j. Outcome \subseteq BOOLEAN
    BY CanFailAssumption DEF Outcome
<1>k. call[t].cb = "domain" => phase # "attaching" \/ pc[t] = "idle"
    BY <1>c
<1>1. CASE FindAppDomain(t)
    BY <1>1, <1>d, <1>e, <1>h, <1>i, <1>k DEF FindAppDomain, AfterDomain, clrVars, histVars
<1>2. CASE ConstructAppDomainInfo(t)
    BY <1>2, <1>d, <1>e, <1>h, <1>i, <1>k DEF ConstructAppDomainInfo, AfterDomain, clrVars, histVars
<1>3. CASE FindAssembly(t)
    BY <1>3, <1>d, <1>i, EndLoadPhase DEF FindAssembly, AfterAssembly, clrVars, LoadSteps
<1>4. CASE ConstructAssemblyInfo(t)
    BY <1>4, <1>d, <1>i, EndLoadPhase DEF ConstructAssemblyInfo, AfterAssembly, clrVars, LoadSteps
<1>5. CASE ConstructModuleInfo(t)
    BY <1>5, <1>d, <1>i DEF ConstructModuleInfo, clrVars, histVars
<1>6. ASSUME NEW ok \in Outcome, AddModuleInfo(t, ok) PROVE PhaseStep(t)
    BY <1>6, <1>j, EndLoadPhase DEF AddModuleInfo, LoadSteps
<1>7. ASSUME NEW ok \in Outcome, RemoveAppDomain(t, ok) PROVE PhaseStep(t)
    <2>1. phase # "attaching" /\ pc[t] # "idle"
        BY <1>7, <1>g DEF RemoveAppDomain, HeldSteps
    <2> QED BY <1>7, <1>d, <1>e, <2>1, <1>h DEF RemoveAppDomain, clrVars, histVars
<1>8. CASE AttachDone(t)
    <2>1. call[t].cb = "attach" /\ pc[t] # "idle"
        BY <1>8, <1>b DEF AttachDone, LoadFits
    <2> QED BY <1>8, <2>1, <1>c, <1>h DEF AttachDone, PhaseStep
<1>9. ASSUME NEW m \in Modules, AttachNext(t, m) PROVE PhaseStep(t)
    <2>1. call[t].cb = "attach" /\ pc[t] # "idle"
        BY <1>9, <1>b DEF AttachNext, LoadFits
    <2>2. CASE Return(t) /\ phase' = "running"
        BY <1>9, <2>1, <2>2, <1>c, <1>h DEF AttachNext, PhaseStep, histVars
    <2>3. CASE Begin(t, "domain", [call[t] EXCEPT !.id = m, !.todo = @ \ {m}]) /\ UNCHANGED phase
        <3>1. call'[t].cb = call[t].cb
            BY <1>a, <2>3 DEF Begin, Call
        <3> QED BY <1>9, <2>1, <2>3, <3>1, <1>d DEF AttachNext, histVars
    <2> QED BY <1>9, <2>2, <2>3 DEF AttachNext
<1>10. CASE CleanupModule(t)
    <2>1. phase # "attaching" /\ pc[t] # "idle"
        BY <1>10, <1>g DEF CleanupModule, HeldSteps
    <2> QED BY <1>10, <1>d, <1>e, <2>1, <1>h, <1>i DEF CleanupModule, clrVars, histVars
<1>11. CASE ModulesDone(t)
    <2>1. phase # "attaching" /\ pc[t] # "idle"
        BY <1>11, <1>g DEF ModulesDone, HeldSteps
    <2> QED BY <1>11, <1>d, <1>e, <2>1, <1>i DEF ModulesDone, clrVars, histVars, BeginAssemblies
<1>12. CASE AssembliesDone(t)
    <2>1. phase # "attaching" /\ pc[t] # "idle"
        BY <1>12, <1>g DEF AssembliesDone, HeldSteps
    <2> QED BY <1>12, <1>d, <1>e, <2>1, <1>i DEF AssembliesDone, clrVars, histVars
<1>13. ASSUME NEW m \in Modules, NEW ok \in Outcome, FabricateModuleUnload(t, m, ok) PROVE PhaseStep(t)
    <2>1. phase # "attaching" /\ pc[t] # "idle"
        BY <1>13, <1>g DEF FabricateModuleUnload, HeldSteps
    <2>2. \A r : Begin(t, "cleanup", [[call[t] EXCEPT !.todo = @ \ {m}] EXCEPT !.mod = r]) => call'[t].cb = call[t].cb
        BY <1>a DEF Begin, Call
    <2> QED BY <1>13, <1>d, <1>i, <2>1, <2>2 DEF FabricateModuleUnload, SendModuleUnloaded, BeginAssemblies, clrVars
<1>14. ASSUME NEW a \in Assemblies, NEW ok \in Outcome, FabricateAssemblyUnload(t, a, ok) PROVE PhaseStep(t)
    <2>1. phase # "attaching" /\ pc[t] # "idle"
        BY <1>14, <1>g DEF FabricateAssemblyUnload, HeldSteps
    <2> QED BY <1>14, <1>d, <1>e, <2>1, <1>i DEF FabricateAssemblyUnload, clrVars, histVars
<1>15. CASE ProfilerAttachComplete(t)
    BY <1>15, <1>a DEF ProfilerAttachComplete, Begin, Goto, NoCall, PhaseStep, clrVars, histVars
<1>16. ASSUME NEW d \in Domains, AppDomainCreationStarted(t, d) PROVE PhaseStep(t)
    <2>1. CASE UNCHANGED call
        BY <1>16, <1>f, <2>1 DEF AppDomainCreationStarted, histVars
    <2>2. CASE ~UNCHANGED call
        <3>1. call'[t].cb # "attach"
            BY <1>16, <1>a, <2>2 DEF AppDomainCreationStarted, Begin, NoCall
        <3> QED BY <1>16, <1>e, <3>1 DEF AppDomainCreationStarted, CanBegin, histVars
    <2> QED BY <2>1, <2>2
<1>17. ASSUME NEW d \in Domains, AppDomainShutdownFinished(t, d) PROVE PhaseStep(t)
    <2>1. CASE UNCHANGED call
        BY <1>17, <1>f, <2>1 DEF AppDomainShutdownFinished, histVars
    <2>2. CASE ~UNCHANGED call
        <3>1. call'[t].cb # "attach"
            BY <1>17, <1>a, <2>2 DEF AppDomainShutdownFinished, Begin, NoCall
        <3> QED BY <1>17, <1>e, <3>1 DEF AppDomainShutdownFinished, CanBegin, histVars
    <2> QED BY <2>1, <2>2
<1>18. ASSUME NEW d \in Domains, NEW hrStatus \in BOOLEAN, NEW ok \in Outcome, AppDomainCreationFinished(t, d, hrStatus, ok) PROVE PhaseStep(t)
    BY <1>18, <1>f DEF AppDomainCreationFinished
<1>19. ASSUME NEW a \in Assemblies, AssemblyLoadFinished(t, a) PROVE PhaseStep(t)
    <2>1. CASE UNCHANGED call
        BY <1>19, <1>f, <2>1 DEF AssemblyLoadFinished, histVars
    <2>2. CASE ~UNCHANGED call
        <3>1. call'[t].cb # "attach"
            BY <1>19, <1>a, <2>2 DEF AssemblyLoadFinished, Begin, NoCall
        <3> QED BY <1>19, <1>e, <3>1 DEF AssemblyLoadFinished, CanBegin, histVars
    <2> QED BY <2>1, <2>2
<1>20. ASSUME NEW a \in Assemblies, NEW ok \in Outcome, AssemblyUnloadFinished(t, a, ok) PROVE PhaseStep(t)
    BY <1>20, <1>f DEF AssemblyUnloadFinished
<1>21. ASSUME NEW m \in Modules, ModuleAttachedToAssembly(t, m) PROVE PhaseStep(t)
    <2>1. CASE UNCHANGED call
        BY <1>21, <1>f, <2>1 DEF ModuleAttachedToAssembly, histVars
    <2>2. CASE ~UNCHANGED call
        <3>1. call'[t].cb # "attach"
            BY <1>21, <1>a, <2>2 DEF ModuleAttachedToAssembly, Begin, NoCall
        <3> QED BY <1>21, <1>e, <3>1 DEF ModuleAttachedToAssembly, CanBegin, histVars
    <2> QED BY <2>1, <2>2
<1>22. ASSUME NEW m \in Modules, NEW ok \in Outcome, ModuleUnloadFinished(t, m, ok) PROVE PhaseStep(t)
    <2>1. CASE UNCHANGED call
        BY <1>22, <1>f, <2>1 DEF ModuleUnloadFinished, histVars
    <2>2. CASE ~UNCHANGED call
        <3>1. call'[t].cb # "attach"
            BY <1>22, <1>a, <2>2 DEF ModuleUnloadFinished, Begin, NoCall, SendModuleUnloaded
        <3> QED BY <1>22, <1>e, <3>1 DEF ModuleUnloadFinished, CanBegin, histVars
    <2> QED BY <2>1, <2>2
<1>23. CASE Shutdown(t)
    <2>1. call'[t].cb # "attach"
        BY <1>23, <1>b DEF Shutdown, CanBegin, LoadFits, NoCall
    <2> QED BY <1>23, <2>1 DEF Shutdown, CanBegin, PhaseStep, histVars
<1>24. CASE ModuleInitializeFails(t)
    BY <1>24, EndLoadPhase DEF ModuleInitializeFails, LoadSteps
<1> QED BY <1>1, <1>2, <1>3, <1>4, <1>5, <1>6, <1>7, <1>8, <1>9, <1>10, <1>11, <1>12, <1>13, <1>14, <1>15, <1>16, <1>17, <1>18, <1>19, <1>20, <1>21, <1>22, <1>23, <1>24 DEF Continue, CallBack

-----------------------------------------------------------------------------
(* The callbacks keep to what they are about.                                *)

\* Everything the lemmas above say of a step of t.
StepOf(t) ==
    /\ Apart(t) /\ ObjectStep(t) /\ ObjectsStay /\ LifeStep(t) /\ LoadsStep(t) /\ RestStep(t) /\ PhaseStep(t)
    /\ WithdrawStep(t) /\ OwnerHolds' /\ OwnerHolds
Control == TypeOK /\ CallsFit /\ AttachAlone /\ Refs

LEMMA StepsOf ==
    ASSUME Control, NEW t \in Threads, Continue(t) \/ CallBack(t) PROVE StepOf(t)
<1>1. TypeOK /\ CallsFit /\ AttachAlone /\ Refs
    BY DEF Control
<1>2. ThreadTypes /\ PointerTypes /\ OwnerHolds
    BY <1>1, TypesOfPointers DEF TypeOK, OwnerHolds, HeldSteps
<1>3. Apart(t)
    BY <1>1, <1>2, ApartStep
<1>4. ObjectStep(t)
    BY <1>1, ObjectSteps
<1>5. ObjectsStay
    BY <1>4, ObjectsStayStep
<1>6. LifeStep(t) /\ LoadsStep(t) /\ RestStep(t)
    BY <1>1, LifeSteps, LoadsSteps, RestSteps
<1>7. PhaseStep(t)
    BY <1>1, PhaseSteps
<1>8. WithdrawStep(t)
    BY <1>1, WithdrawSteps
<1>9. OwnerHolds'
    BY <1>1, OwnerStep
<1> QED BY <1>2, <1>3, <1>4, <1>5, <1>6, <1>7, <1>8, <1>9 DEF StepOf

\* While another thread loads something nobody attaches.
LEMMA OthersLoad ==
    ASSUME Control, NEW t \in Threads, StepOf(t), NEW u \in Threads \ {t}, pc[u] # "idle"
    PROVE  /\ call[u].cb # "attach" /\ call[t].cb # "attach" /\ call'[t].cb # "attach"
           /\ pc'[u] = pc[u] /\ call'[u] = call[u]
           /\ pc[u] \in LoadSteps => life[call[u].id] = "loading" /\ life'[call[u].id] = "loading"
<1>1. call[t].cb # "attach"
    BY DEF Control, AttachAlone
<1>2. call[u].cb = "attach" => phase = "attaching" /\ pc[t] = "idle"
    BY DEF Control, AttachAlone
<1>3. call[u].cb # "attach"
    BY <1>2 DEF StepOf, PhaseStep
<1>4. call'[t].cb # "attach"
    BY <1>1 DEF StepOf, RestStep
<1>5. pc'[u] = pc[u] /\ call'[u] = call[u]
    BY DEF StepOf, Apart
<1>6. ASSUME pc[u] \in LoadSteps PROVE life[call[u].id] = "loading" /\ life'[call[u].id] = "loading"
    <2>1. call[u].id \in Ids /\ life[call[u].id] = "loading"
        BY <1>3, <1>6, LoadNames DEF Control, CallsFit, LoadFits
    <2>2. Loads(u, call[u].id)
        BY <1>6 DEF Loads
    <2> QED BY <2>1, <2>2 DEF StepOf, LifeStep
<1> QED BY <1>1, <1>3, <1>4, <1>5, <1>6

LEMMA UniqueLoads ==
    ASSUME Control, NEW t \in Threads, StepOf(t), NEW u \in Threads, NEW v \in Threads,
           pc'[u] \in LoadSteps, pc'[v] \in LoadSteps, call'[u].id = call'[v].id
    PROVE  u = v
<1>a. \A w \in Threads : pc[w] \in LoadSteps => pc[w] # "idle"
    BY DEF LoadSteps
<1>b. ASSUME NEW w \in Threads \ {t}, pc'[w] \in LoadSteps, pc'[t] \in LoadSteps, call'[w].id = call'[t].id PROVE FALSE
    <2>1. pc[w] \in LoadSteps /\ call[w].id = call'[t].id
        BY <1>b DEF StepOf, Apart
    <2>2. life[call'[t].id] = "loading" /\ call[t].cb # "attach"
        BY <1>a, <2>1, OthersLoad
    <2>3. ~Begins(t, call'[t].id)
        BY <2>2 DEF Begins
    <2>4. pc[t] \in LoadSteps /\ call[t].id = call[w].id
        BY <1>b, <2>1, <2>3 DEF StepOf, LoadsStep, GoesOn
    <2> QED BY <2>1, <2>4 DEF Control, CallsFit, LoadFits, Loads
<1>1. CASE u = t \/ v = t
    BY <1>1, <1>b
<1>2. CASE u # t /\ v # t
    <2>1. pc[u] \in LoadSteps /\ pc[v] \in LoadSteps /\ call[u].id = call[v].id
        BY <1>2 DEF StepOf, Apart
    <2> QED BY <2>1 DEF Control, CallsFit, LoadFits, Loads
<1> QED BY <1>1, <1>2

LEMMA LoadFitsStep ==
    ASSUME Control, NEW t \in Threads, StepOf(t), NEW u \in Threads
    PROVE  LoadFits(u)'
<1>a. \A v \in Threads : pc'[u] \in LoadSteps /\ pc'[v] \in LoadSteps /\ call'[v].id = call'[u].id => v = u
    BY UniqueLoads
<1>b. LoadFits(u)
    BY DEF Control, CallsFit
<1>c. UNCHANGED atAttach
    BY DEF StepOf, PhaseStep
<1>1. CASE u # t
    <2>1. CASE pc[u] = "idle"
        <3>1. pc'[u] = "idle" /\ call'[u] = NoCall
            BY <1>1, <1>b, <2>1 DEF StepOf, Apart, LoadFits
        <3> QED BY <3>1 DEF LoadFits, LoadSteps, NoCall
    <2>2. CASE pc[u] # "idle"
        <3>1. /\ call[u].cb # "attach" /\ pc'[u] = pc[u] /\ call'[u] = call[u]
              /\ pc[u] \in LoadSteps => life'[call[u].id] = "loading"
            BY <1>1, <2>2, OthersLoad
        <3> QED BY <1>a, <1>b, <2>2, <3>1 DEF LoadFits, Loads
    <2> QED BY <2>1, <2>2
<1>2. CASE u = t /\ pc'[t] \notin LoadSteps
    BY <1>2, <1>c DEF StepOf, RestStep, LoadFits
<1>3. CASE u = t /\ pc'[t] \in LoadSteps
    <2>1. pc'[t] \notin {"idle", "attach"}
        BY <1>3 DEF LoadSteps
    <2>2. call'[t].cb = "attach" => call'[t].todo \subseteq atAttach' \cap Modules
        BY <1>c DEF StepOf, RestStep
    <2> DEFINE c == call'[t]
    <2>3. CASE GoesOn(t)
        <3>1. /\ c.id = call[t].id /\ c.cb = call[t].cb /\ c.todo = call[t].todo /\ life' = life
              /\ pc[t] \in LoadSteps
              /\ call[t].cb = "domain" => pc'[t] = "newDomain"
            BY <2>3 DEF GoesOn
        <3>2. c.cb = "assembly" => pc'[t] = "newAssembly"
            BY <2>3 DEF GoesOn
        <3> HIDE DEF c
        <3> QED BY <1>3, <1>a, <1>b, <1>c, <2>1, <2>2, <3>1, <3>2 DEF LoadFits, Loads, c
    <2>4. CASE Begins(t, c.id)
        <3>1. CASE call'[t].cb = "attach"
            <4>1. c.id \in Modules /\ c.id \notin c.todo /\ c.id \in call[t].todo /\ call[t].cb = "attach"
                BY <2>4, <3>1 DEF Begins, BeginsFor
            <4>2. c.id \in atAttach'
                BY <1>3, <1>b, <1>c, <4>1 DEF LoadFits
            <4> QED BY <1>3, <1>a, <2>1, <2>2, <3>1, <4>1, <4>2 DEF LoadFits, Loads
        <3>2. CASE call'[t].cb # "attach"
            <4>1. BeginsFor(c.cb, c.id, pc'[t]) /\ life'[c.id] = "loading"
                BY <2>4, <3>2 DEF Begins
            <4> QED BY <1>3, <1>a, <2>1, <3>2, <4>1 DEF LoadFits, Loads, BeginsFor
        <3> QED BY <3>1, <3>2
    <2> QED BY <1>3, <2>3, <2>4 DEF StepOf, LoadsStep
<1> QED BY <1>1, <1>2, <1>3

\* The steps of a thread that is loading.
LEMMA LoadingSteps ==
    ASSUME NEW t \in Threads, Continue(t) \/ CallBack(t), pc[t] \in LoadSteps
    PROVE  \/ FindAppDomain(t) \/ ConstructAppDomainInfo(t) \/ FindAssembly(t) \/ ConstructAssemblyInfo(t)
           \/ ModuleInitializeFails(t) \/ ConstructModuleInfo(t) \/ \E ok \in Outcome : AddModuleInfo(t, ok)
           \/ ProfilerAttachComplete(t)
<1>1. pc[t] \notin {"idle", "attach", "cleanup", "shutModules", "shutAssemblies", "shutDomain"}
    BY DEF LoadSteps
<1>2. Continue(t) =>
          \/ FindAppDomain(t) \/ ConstructAppDomainInfo(t) \/ FindAssembly(t) \/ ConstructAssemblyInfo(t)
          \/ ModuleInitializeFails(t) \/ ConstructModuleInfo(t) \/ \E ok \in Outcome : AddModuleInfo(t, ok)
    BY <1>1 DEF Continue, AttachDone, AttachNext, CleanupModule, ModulesDone, AssembliesDone, RemoveAppDomain,
                FabricateModuleUnload, FabricateAssemblyUnload
<1>3. CallBack(t) => ProfilerAttachComplete(t)
    BY <1>1 DEF CallBack, CanBegin, AppDomainCreationStarted, AppDomainShutdownFinished, AppDomainCreationFinished,
                AssemblyLoadFinished, AssemblyUnloadFinished, ModuleAttachedToAssembly, ModuleUnloadFinished, Shutdown
<1> QED BY <1>2, <1>3

LEMMA LoadPointsStep ==
    ASSUME Control, NEW t \in Threads, Continue(t) \/ CallBack(t), StepOf(t), NEW u \in Threads
    PROVE  LoadPoints(u)'
<1> DEFINE c == call'[u]
<1> SUFFICES ASSUME pc'[u] \in LoadSteps \ {"domain", "newDomain"}, c.cb # "assembly"
             PROVE  /\ c.dom \in DOMAIN domains' /\ domains'[c.dom].id = HomeOf(c.id)
                    /\ pc'[u] \in {"addModule", "addToAssembly"} => c.asm \in DOMAIN assemblies'
                    /\ pc'[u] = "addToAssembly" =>
                            /\ c.mod \in DOMAIN modules' /\ modules'[c.mod].id = c.id
                            /\ modules'[c.mod].asm = c.asm
    BY DEF LoadPoints, TheDomain
<1>a. ObjectsStay /\ Apart(t) /\ TypeOK /\ CallsFit /\ Refs
    BY DEF StepOf, Control
<1>b. LoadPoints(u) /\ pc \in [Threads -> Labels] /\ call \in [Threads -> Call] /\ call[u] \in Call
    BY <1>a, TypesOfPointers DEF CallsFit, ThreadTypes
\* The pointers that the callback has already.
<1>c. ASSUME call[u].id = c.id, call[u].cb = c.cb, pc[u] \in LoadSteps \ {"domain", "newDomain"}
      PROVE  /\ call[u].dom \in DOMAIN domains' /\ domains'[call[u].dom].id = HomeOf(c.id)
             /\ pc[u] \in {"addModule", "addToAssembly"} => call[u].asm \in DOMAIN assemblies'
             /\ pc[u] = "addToAssembly" =>
                     /\ call[u].mod \in DOMAIN modules' /\ modules'[call[u].mod].id = c.id
                     /\ modules'[call[u].mod].asm = call[u].asm
    BY <1>a, <1>b, <1>c DEF LoadPoints, TheDomain, ObjectsStay
<1>1. CASE u # t
    <2>1. pc'[u] = pc[u] /\ c = call[u]
        BY <1>1, <1>a DEF Apart
    <2> QED BY <1>c, <2>1
<1>2. CASE u = t
    <2>1. GoesOn(t)
        BY <1>2 DEF StepOf, LoadsStep, Begins, BeginsFor, LoadSteps
    <2>2. pc[t] \in LoadSteps /\ c.id = call[t].id /\ c.cb = call[t].cb
        BY <1>2, <2>1 DEF GoesOn
    <2>3. TheDomain(t) \in Domains /\ TheDomain(t) = HomeOf(c.id)
        BY <1>a, <1>2, <2>2, LoadNames DEF TheDomain
    <2> HIDE DEF c
    <2>4. CASE FindAppDomain(t)
        <3>1. appDomains[TheDomain(t)] # 0 /\ pc'[t] = "assembly" /\ c.dom = appDomains[TheDomain(t)]
            BY <1>2, <1>b, <2>4 DEF FindAppDomain, AfterDomain, Return, Begin, Goto, Call, LoadSteps, c
        <3>2. appDomains[TheDomain(t)] \in DOMAIN domains /\ domains[appDomains[TheDomain(t)]].id = TheDomain(t)
            BY <1>a, <2>3, <3>1, Collected DEF Refs, CollectionRefs
        <3> QED BY <1>2, <1>a, <2>3, <3>1, <3>2 DEF ObjectsStay
    <2>5. CASE ConstructAppDomainInfo(t)
        <3>1. pc'[t] = "assembly" /\ c.dom = Len(domains) + 1
            BY <1>2, <1>b, <2>5 DEF ConstructAppDomainInfo, AfterDomain, Return, Begin, Goto, Call, LoadSteps, c
        <3>2. NewDomain(TheDomain(t))
            BY <1>a, <2>3, <2>5, Constructions, TypesOfPointers DEF ConstructAppDomainInfo
        <3> QED BY <1>2, <2>3, <3>1, <3>2 DEF NewDomain
    <2>6. CASE FindAssembly(t)
        <3>0. pc[t] = "assembly" /\ pc[t] \in LoadSteps \ {"domain", "newDomain"}
            BY <2>6 DEF FindAssembly, LoadSteps
        <3>1. CASE Goto(t, "newAssembly") /\ UNCHANGED call
            BY <1>2, <1>b, <1>c, <2>2, <3>0, <3>1 DEF Goto, c
        <3>2. ASSUME NEW r \in AssemblyInfosById(TheAssembly(t)), AfterAssembly(t, r)
              PROVE  /\ c.dom = call[t].dom /\ c.asm = r /\ pc'[t] = "addModule" /\ r \in DOMAIN assemblies'
            <4>1. Begin(t, "addModule", [call[t] EXCEPT !.asm = r])
                BY <1>2, <2>2, <3>2 DEF AfterAssembly
            <4>2. TheAssembly(t) \in Assemblies
                BY <1>a, <2>2, <3>0, LoadNames
            <4>3. r \in DOMAIN assemblies
                BY <1>a, <4>2, FoundAssembly
            <4> QED BY <1>2, <1>a, <1>b, <4>1, <4>3 DEF Begin, Goto, Call, c, ObjectsStay
        <3> QED BY <1>2, <1>c, <2>2, <2>6, <3>0, <3>1, <3>2 DEF FindAssembly
    <2>7. CASE ConstructAssemblyInfo(t)
        <3>0. pc[t] = "newAssembly" /\ pc[t] \in LoadSteps \ {"domain", "newDomain"}
            BY <2>7 DEF ConstructAssemblyInfo, LoadSteps
        <3>1. ~\E ok : EndLoad(t, ok)
            BY <1>2, <1>b DEF EndLoad, Return, Begin, Goto, LoadSteps
        <3>2. AfterAssembly(t, Len(assemblies) + 1) /\ AddsAssembly(t)
            <4>1. AfterAssembly(t, Len(assemblies) + 1) /\ assemblies' # assemblies
                <5>1. appDomains[DomainOf[TheAssembly(t)]] # 0
                    BY <2>7, <3>1 DEF ConstructAssemblyInfo
                <5>2. /\ AfterAssembly(t, Len(assemblies) + 1)
                      /\ assemblies' = Append(assemblies, CAssemblyInfo(TheAssembly(t), appDomains[DomainOf[TheAssembly(t)]]))
                    BY <2>7, <5>1 DEF ConstructAssemblyInfo
                <5>3. Len(assemblies') # Len(assemblies)
                    BY <1>a, <5>2 DEF TypeOK
                <5> QED BY <5>2, <5>3
            <4>2. ObjectStep(t)
                BY DEF StepOf
            <4>3. AddsAssembly(t)
                BY <4>1, <4>2, <3>0 DEF ObjectStep, Keeps, AddsDomain, AddsModule, ListsModule, CleansUp, TakesAssembly, DropsDomains
            <4> QED BY <4>1, <4>3
        <3>3. Begin(t, "addModule", [call[t] EXCEPT !.asm = Len(assemblies) + 1])
            BY <1>2, <2>2, <3>2 DEF AfterAssembly
        <3>4. c.dom = call[t].dom /\ c.asm = Len(assemblies) + 1 /\ pc'[t] = "addModule"
            BY <1>2, <1>b, <3>3 DEF Begin, Goto, Call, c
        <3>5. Len(assemblies) + 1 \in DOMAIN assemblies'
            BY <3>2 DEF AddsAssembly, NewAssembly
        <3> QED BY <1>2, <1>c, <2>2, <3>0, <3>4, <3>5
    <2>8. CASE ConstructModuleInfo(t)
        <3>0. pc[t] = "addModule" /\ pc[t] \in LoadSteps \ {"domain", "newDomain"}
            BY <2>8 DEF ConstructModuleInfo, LoadSteps
        <3>1. c.dom = call[t].dom /\ c.asm = call[t].asm /\ c.mod = Len(modules) + 1
            BY <1>2, <1>b, <2>8 DEF ConstructModuleInfo, Begin, Goto, Call, c
        <3>2. call[t].id \in Modules /\ call[t].dom \in Nat /\ call[t].asm \in Nat
            BY <1>2, <1>a, <1>b, <3>0, Pointers DEF Call
        <3>3. NewModule(call[t].id, call[t].dom, call[t].asm)
            BY <1>a, <2>8, <3>2, Constructions, TypesOfPointers DEF ConstructModuleInfo
        <3>4. /\ Len(modules) + 1 \in DOMAIN modules' /\ modules'[Len(modules) + 1].id = c.id
              /\ modules'[Len(modules) + 1].asm = call[t].asm
            BY <2>2, <3>3 DEF NewModule
        <3> QED BY <1>2, <1>c, <2>2, <3>0, <3>1, <3>4
    <2>11. ~ModuleInitializeFails(t)
        BY <1>2, <1>b DEF ModuleInitializeFails, EndLoad, Return, Begin, Goto, LoadSteps
    <2>9. ASSUME NEW ok \in Outcome, AddModuleInfo(t, ok) PROVE FALSE
        BY <1>2, <1>b, <2>9 DEF AddModuleInfo, EndLoad, Return, Begin, Goto, LoadSteps
    <2>10. CASE ProfilerAttachComplete(t)
        BY <2>2, <2>10 DEF ProfilerAttachComplete, LoadSteps
    <2> QED BY <2>2, <2>4, <2>5, <2>6, <2>7, <2>8, <2>9, <2>10, <2>11, LoadingSteps DEF c
<1> QED BY <1>1, <1>2

\* Nothing begins to load into an appdomain that is gone.
LEMMA NoNewLoads ==
    ASSUME Control, NEW t \in Threads, StepOf(t), NEW d \in Domains, life[d] = "gone", phase # "attaching",
           NEW u \in Threads, ~LoadsInto(u, d)
    PROVE  ~LoadsInto(u, d)'
<1>1. CASE u # t
    BY <1>1 DEF StepOf, Apart, LoadsInto, TheDomain
<1>2. CASE u = t
    <2> SUFFICES ASSUME pc'[t] \in LoadSteps, HomeOf(call'[t].id) = d PROVE FALSE
        BY <1>2 DEF LoadsInto, TheDomain
    <2>1. call[t].cb # "attach"
        BY DEF Control, AttachAlone
    <2>2. ~Begins(t, call'[t].id)
        BY <2>1 DEF Begins
    <2>3. pc[t] \in LoadSteps /\ call[t].id = call'[t].id
        BY <2>2 DEF StepOf, LoadsStep, GoesOn
    <2> QED BY <1>2, <2>3 DEF LoadsInto, TheDomain
<1> QED BY <1>1, <1>2

\* No thread loads anything into an appdomain that the CLR shuts down.
LEMMA ShutsQuiet ==
    ASSUME Control, NEW d \in Domains, phase = "running", \A x \in Ids : HomeOf(x) = d => life[x] # "loading",
           NEW u \in Threads
    PROVE  ~LoadsInto(u, d)
<1> SUFFICES ASSUME pc[u] \in LoadSteps, HomeOf(call[u].id) = d PROVE FALSE
    BY DEF LoadsInto, TheDomain
<1>1. call[u].cb # "attach"
    BY DEF Control, AttachAlone
<1>2. call[u].id \in Ids /\ life[call[u].id] = "loading"
    BY <1>1, LoadNames DEF Control, CallsFit, LoadFits
<1> QED BY <1>2

\* What a shutdown is about: one appdomain, with nothing loading into it.
ShutsDown(c) ==
    /\ c.id \in Domains /\ life[c.id] = "gone" /\ withdrawn[c.id] = 0
    /\ \A u \in Threads : ~LoadsInto(u, c.id)
    /\ c.dom \in DOMAIN domains /\ domains[c.dom].id = c.id
    /\ \A x \in c.todo : HomeOf(x) = c.id

LEMMA UnloadParts ==
    ASSUME NEW u \in Threads
    PROVE  UnloadFits(u) <=>
             (pc[u] \in HeldSteps =>
                /\ call[u].cb = "shutdown" \/ (call[u].cb = "unload" /\ pc[u] = "cleanup")
                /\ call[u].cb = "shutdown" =>
                        /\ ShutsDown(call[u])
                        /\ pc[u] \in {"cleanup", "shutModules"} => call[u].todo \subseteq Modules
                        /\ pc[u] \notin {"cleanup", "shutModules"} => call[u].todo \subseteq Assemblies
                /\ pc[u] = "cleanup" => call[u].mod \in DOMAIN modules /\ withdrawn[modules[call[u].mod].id] > 0)
BY DEF UnloadFits, ShutsDown

\* The shutdown goes on while nothing withdraws the appdomain.
LEMMA ShutdownGoesOn ==
    ASSUME Control, NEW t \in Threads, StepOf(t), NEW u \in Threads, pc[u] \in HeldSteps, call[u].cb = "shutdown",
           withdrawn'[call[u].id] = withdrawn[call[u].id],
           call'[u].id = call[u].id, call'[u].dom = call[u].dom,
           \A x \in call'[u].todo : HomeOf(x) = call[u].id
    PROVE  ShutsDown(call[u])'
<1>1. ShutsDown(call[u])
    BY UnloadParts DEF Control, CallsFit
<1>2. phase # "attaching"
    BY DEF Control, AttachAlone, HeldSteps
<1>3. call[u].id \in Ids /\ life'[call[u].id] = "gone"
    BY <1>1, IdsTypes DEF StepOf, LifeStep, ShutsDown
<1>4. ASSUME NEW v \in Threads PROVE ~(pc'[v] \in LoadSteps /\ HomeOf(call'[v].id) = call[u].id)
    <2> SUFFICES ASSUME NEW d \in Domains, d = call[u].id PROVE ~LoadsInto(v, d)'
        BY <1>1 DEF LoadsInto, TheDomain, ShutsDown
    <2>1. life[d] = "gone" /\ ~LoadsInto(v, d)
        BY <1>1 DEF ShutsDown
    <2> QED BY <1>2, <2>1, NoNewLoads
<1> QED BY <1>1, <1>3, <1>4 DEF ShutsDown, StepOf, ObjectsStay, LoadsInto, TheDomain

\* The steps after which a thread takes something down.
LEMMA UnloadingSteps ==
    ASSUME Control, NEW t \in Threads, Continue(t) \/ CallBack(t), StepOf(t), pc'[t] \in HeldSteps
    PROVE  \/ CleanupModule(t) \/ ModulesDone(t) \/ AssembliesDone(t)
           \/ \E m \in Modules, ok \in Outcome : FabricateModuleUnload(t, m, ok)
           \/ \E a \in Assemblies, ok \in Outcome : FabricateAssemblyUnload(t, a, ok)
           \/ \E d \in Domains : AppDomainShutdownFinished(t, d)
           \/ \E m \in Modules, ok \in Outcome : ModuleUnloadFinished(t, m, ok)
<1>1. owner' = t /\ (owner = t => pc[t] \in HeldSteps)
    BY DEF StepOf, OwnerHolds
<1>2. CASE UNCHANGED owner
    <2>1. pc[t] \notin LoadSteps \cup {"idle", "attach"}
        BY <1>1, <1>2 DEF HeldSteps, LoadSteps
    <2>2. ~ProfilerAttachComplete(t)
        BY <2>1 DEF ProfilerAttachComplete
    <2>3. ~CanBegin(t)
        BY <2>1 DEF CanBegin
    <2>4. ~CallBack(t)
        BY <2>2, <2>3 DEF CallBack, AppDomainCreationStarted, AppDomainShutdownFinished, AppDomainCreationFinished,
           AssemblyLoadFinished, AssemblyUnloadFinished, ModuleAttachedToAssembly, ModuleUnloadFinished, Shutdown
    <2>5. \A ok : ~RemoveAppDomain(t, ok)
        BY <1>1, <1>2, ThreadsAssumption DEF RemoveAppDomain
    <2> QED BY <2>1, <2>4, <2>5 DEF Continue, FindAppDomain, ConstructAppDomainInfo, FindAssembly, ConstructAssemblyInfo,
           ModuleInitializeFails, ConstructModuleInfo, AddModuleInfo, AttachDone, AttachNext, LoadSteps
<1>3. CASE owner' # owner
    <2>1. \A ok : ~RemoveAppDomain(t, ok)
        BY <1>1, ThreadsAssumption DEF RemoveAppDomain
    <2> QED BY <1>3, <2>1 DEF Continue, CallBack, FindAppDomain, ConstructAppDomainInfo, FindAssembly, ConstructAssemblyInfo,
           ModuleInitializeFails, ConstructModuleInfo, AddModuleInfo, AttachDone, AttachNext,
           ProfilerAttachComplete, AppDomainCreationStarted, AppDomainCreationFinished,
           AssemblyLoadFinished, AssemblyUnloadFinished, ModuleAttachedToAssembly, Shutdown
<1> QED BY <1>2, <1>3

LEMMA UnloadFitsStep ==
    ASSUME Control, DomainUnloads, NEW t \in Threads, Continue(t) \/ CallBack(t), StepOf(t), NEW u \in Threads
    PROVE  UnloadFits(u)'
<1>a. TypeOK /\ CallsFit /\ Refs /\ ObjectsStay /\ Apart(t) /\ WithdrawStep(t) /\ withdrawn \in [Ids -> Nat]
    BY DEF Control, StepOf, TypeOK
<1>b. UnloadFits(u) /\ pc \in [Threads -> Labels] /\ call \in [Threads -> Call] /\ call[u] \in Call
    BY <1>a, TypesOfPointers DEF CallsFit, ThreadTypes
<1> SUFFICES ASSUME pc'[u] \in HeldSteps PROVE UnloadFits(u)'
    BY DEF UnloadFits
<1>1. CASE u # t
    <2>1. pc'[u] = pc[u] /\ call'[u] = call[u] /\ pc[u] \in HeldSteps
        BY <1>1, <1>a DEF Apart
    <2>2. ~Holds(t)
        BY <1>1, <2>1 DEF Holds
    <2>3. pc[t] \notin HeldSteps
        BY <2>2, LockHolds DEF StepOf
    <2>4. withdrawn' = withdrawn
        BY <1>a, <2>2, <2>3 DEF WithdrawStep, WithdrawsModule, WithdrawsAssembly, WithdrawsDomain, Leaves, HeldSteps
    <2>5. CASE call[u].cb = "shutdown"
        <3>1. ShutsDown(call[u])
            BY <1>b, <2>1, <2>5, UnloadParts
        <3>2. ShutsDown(call[u])'
            BY <2>1, <2>4, <2>5, <3>1, ShutdownGoesOn DEF ShutsDown
        <3> QED BY <1>a, <1>b, <2>1, <2>4, <3>2, UnloadParts DEF ObjectsStay, UnloadFits, ShutsDown
    <2>6. CASE call[u].cb # "shutdown"
        BY <1>a, <1>b, <2>1, <2>4, <2>6 DEF ObjectsStay, UnloadFits
    <2> QED BY <2>5, <2>6
<1>2. CASE u = t
    <2> DEFINE c == call'[t]
    \* A shutdown that goes on in one of its loops.
    <2>a. ASSUME pc[t] \in HeldSteps, call[t].cb = "shutdown", pc'[t] \in HeldSteps,
                 withdrawn'[call[t].id] = withdrawn[call[t].id],
                 c.cb = "shutdown", c.id = call[t].id, c.dom = call[t].dom,
                 \A x \in c.todo : HomeOf(x) = call[t].id,
                 pc'[t] \in {"cleanup", "shutModules"} => c.todo \subseteq Modules,
                 pc'[t] \notin {"cleanup", "shutModules"} => c.todo \subseteq Assemblies,
                 pc'[t] = "cleanup" => c.mod \in DOMAIN modules' /\ withdrawn'[modules'[c.mod].id] > 0
          PROVE  UnloadFits(t)'
        <3>1. ShutsDown(call[t])'
            BY <2>a, ShutdownGoesOn
        <3> QED BY <2>a, <3>1 DEF UnloadFits, ShutsDown
    \* What the shutdown is about.
    <2>b. ASSUME pc[t] \in HeldSteps \ {"cleanup"}
          PROVE  /\ call[t].cb = "shutdown" /\ ShutsDown(call[t]) /\ pc[t] \in HeldSteps
                 /\ pc[t] = "shutModules" => call[t].todo \subseteq Modules
                 /\ pc[t] # "shutModules" => call[t].todo \subseteq Assemblies
        BY <1>2, <1>b, <2>b, UnloadParts DEF HeldSteps
    <2>c. ASSUME pc[t] \in HeldSteps, call[t].cb = "shutdown" PROVE
             \A a \in Assemblies : domains[call[t].dom].asms[a] # 0 => HomeOf(a) = call[t].id
        <3>1. ShutsDown(call[t])
            BY <1>2, <1>b, <2>c, UnloadParts
        <3> QED BY <1>a, <3>1, IdsTypes DEF ShutsDown, Refs, DomainRefs
    <2>d. ASSUME NEW s, Begin(t, "shutAssemblies", [call[t] EXCEPT !.todo = s])
          PROVE  pc'[t] = "shutAssemblies" /\ c.cb = call[t].cb /\ c.id = call[t].id /\ c.dom = call[t].dom /\ c.todo = s
        BY <1>2, <1>b, <2>d DEF Begin, Goto, Call
    <2>e. ASSUME UNCHANGED withdrawn, pc[t] \in HeldSteps, call[t].cb = "shutdown", BeginAssemblies(t, call[t])
          PROVE  UnloadFits(t)'
        <3> DEFINE s == {a \in Assemblies : domains[call[t].dom].asms[a] # 0}
        <3>1. Begin(t, "shutAssemblies", [call[t] EXCEPT !.todo = s])
            BY <2>e DEF BeginAssemblies
        <3>2. s \subseteq Assemblies /\ \A x \in s : HomeOf(x) = call[t].id
            BY <2>c, <2>e
        <3> HIDE DEF s
        <3>3. pc'[t] = "shutAssemblies" /\ c.cb = call[t].cb /\ c.id = call[t].id /\ c.dom = call[t].dom /\ c.todo = s
            BY <2>d, <3>1
        <3> HIDE DEF c
        <3> QED BY <2>a, <2>e, <3>2, <3>3 DEF HeldSteps
    <2>1. CASE CleanupModule(t)
        <3>1. pc[t] = "cleanup" /\ pc[t] \in HeldSteps /\ UNCHANGED withdrawn
            BY <2>1 DEF CleanupModule, HeldSteps, histVars
        <3>2. Begin(t, "shutModules", [call[t] EXCEPT !.mod = 0]) /\ call[t].cb = "shutdown"
            BY <1>2, <1>b, <2>1 DEF CleanupModule, Return, Begin, Goto, HeldSteps
        <3>3. /\ pc'[t] = "shutModules" /\ c.cb = call[t].cb /\ c.id = call[t].id /\ c.dom = call[t].dom
              /\ c.todo = call[t].todo
            BY <1>2, <1>b, <3>2 DEF Begin, Goto, Call
        <3>4. ShutsDown(call[t]) /\ call[t].todo \subseteq Modules
            BY <1>2, <1>b, <3>1, <3>2, UnloadParts
        <3> HIDE DEF c
        <3> QED BY <1>2, <2>a, <3>1, <3>2, <3>3, <3>4 DEF ShutsDown
    <2>2. CASE ModulesDone(t)
        <3>1. pc[t] \in HeldSteps \ {"cleanup"} /\ UNCHANGED withdrawn /\ BeginAssemblies(t, call[t])
            BY <2>2 DEF ModulesDone, HeldSteps, histVars
        <3> QED BY <1>2, <2>b, <2>e, <3>1
    <2>3. CASE AssembliesDone(t)
        <3>1. pc[t] \in HeldSteps \ {"cleanup"} /\ pc[t] = "shutAssemblies" /\ UNCHANGED withdrawn
            BY <2>3 DEF AssembliesDone, HeldSteps, histVars
        <3>2. pc'[t] = "shutDomain" /\ c = call[t]
            BY <1>2, <1>b, <2>3 DEF AssembliesDone, Begin, Goto
        <3> HIDE DEF c
        <3> QED BY <1>2, <2>a, <2>b, <3>1, <3>2 DEF ShutsDown
    <2>4. ASSUME NEW m \in Modules, NEW ok \in Outcome, FabricateModuleUnload(t, m, ok) PROVE UnloadFits(t)'
        <3>1. pc[t] \in HeldSteps \ {"cleanup"} /\ pc[t] = "shutModules" /\ m \in call[t].todo
            BY <2>4 DEF FabricateModuleUnload, HeldSteps
        <3>2. call[t].cb = "shutdown" /\ ShutsDown(call[t]) /\ pc[t] \in HeldSteps /\ call[t].todo \subseteq Modules
            BY <2>b, <3>1
        <3>3. CASE Begin(t, "shutModules", [call[t] EXCEPT !.todo = @ \ {m}]) /\ UNCHANGED withdrawn
            <4>1. /\ pc'[t] = "shutModules" /\ c.cb = call[t].cb /\ c.id = call[t].id /\ c.dom = call[t].dom
                  /\ c.todo = call[t].todo \ {m}
                BY <1>2, <1>b, <3>3 DEF Begin, Goto, Call
            <4> HIDE DEF c
            <4> QED BY <1>2, <2>a, <3>2, <3>3, <4>1 DEF ShutsDown
        <3>4. ASSUME NEW r \in ModuleInfosById(m), SendModuleUnloaded(t, m, r, [call[t] EXCEPT !.todo = @ \ {m}]),
                     UNCHANGED objVars
              PROVE  UnloadFits(t)'
            <4>1. /\ pc'[t] = "cleanup" /\ c.cb = call[t].cb /\ c.id = call[t].id /\ c.dom = call[t].dom
                  /\ c.todo = call[t].todo \ {m} /\ c.mod = r
                BY <1>2, <1>b, <3>4 DEF SendModuleUnloaded, Begin, Goto, Call
            <4>2. r \in DOMAIN modules' /\ modules'[r].id = m
                BY <1>a, <3>4, FoundModule DEF objVars
            <4>3. withdrawn' = [withdrawn EXCEPT ![m] = @ + 1]
                BY <3>4 DEF SendModuleUnloaded, Withdraw
            <4>4. m \in Ids /\ m # call[t].id /\ call[t].id \in Ids
                BY <3>2, IdsTypes DEF ShutsDown
            <4>5. withdrawn'[m] > 0 /\ withdrawn'[call[t].id] = withdrawn[call[t].id]
                BY <1>a, <4>3, <4>4
            <4> HIDE DEF c
            <4> QED BY <1>2, <2>a, <3>2, <4>1, <4>2, <4>5 DEF ShutsDown
        <3>5. CASE Withdraw(m, FALSE) /\ BeginAssemblies(t, call[t])
            BY <2>e, <3>2, <3>5 DEF Withdraw
        <3> QED BY <2>4, <3>3, <3>4, <3>5 DEF FabricateModuleUnload
    <2>5. ASSUME NEW a \in Assemblies, NEW ok \in Outcome, FabricateAssemblyUnload(t, a, ok) PROVE UnloadFits(t)'
        <3>1. pc[t] \in HeldSteps \ {"cleanup"} /\ pc[t] = "shutAssemblies" /\ a \in call[t].todo
            BY <2>5 DEF FabricateAssemblyUnload, HeldSteps
        <3>2. call[t].cb = "shutdown" /\ ShutsDown(call[t]) /\ pc[t] \in HeldSteps /\ call[t].todo \subseteq Assemblies
            BY <2>b, <3>1
        <3>3. a \in Ids /\ a # call[t].id /\ call[t].id \in Ids
            BY <3>2, IdsTypes DEF ShutsDown
        <3>4. withdrawn'[call[t].id] = withdrawn[call[t].id]
            BY <1>a, <2>5, <3>3 DEF FabricateAssemblyUnload, SendAssemblyUnloaded, Withdraw
        <3>5. CASE Begin(t, "shutAssemblies", [call[t] EXCEPT !.todo = @ \ {a}])
            <4>1. /\ pc'[t] = "shutAssemblies" /\ c.cb = call[t].cb /\ c.id = call[t].id /\ c.dom = call[t].dom
                  /\ c.todo = call[t].todo \ {a}
                BY <1>2, <1>b, <3>5 DEF Begin, Goto, Call
            <4> HIDE DEF c
            <4> QED BY <1>2, <2>a, <3>2, <3>4, <4>1 DEF ShutsDown
        <3>6. CASE Begin(t, "shutDomain", [call[t] EXCEPT !.todo = {}])
            <4>1. /\ pc'[t] = "shutDomain" /\ c.cb = call[t].cb /\ c.id = call[t].id /\ c.dom = call[t].dom
                  /\ c.todo = {}
                BY <1>2, <1>b, <3>6 DEF Begin, Goto, Call
            <4> HIDE DEF c
            <4> QED BY <1>2, <2>a, <3>2, <3>4, <4>1 DEF ShutsDown
        <3> QED BY <2>5, <3>5, <3>6 DEF FabricateAssemblyUnload
    <2>6. ASSUME NEW d \in Domains, AppDomainShutdownFinished(t, d) PROVE UnloadFits(t)'
        <3> DEFINE i == appDomains[d]
                   s == {m \in Modules : domains[i].mods[m] # 0}
        <3>1. phase = "running" /\ pc[t] = "idle" /\ life[d] = "present" /\ life' = [life EXCEPT ![d] = "gone"]
            BY <2>6 DEF AppDomainShutdownFinished, CanBegin
        <3>2. \A v \in Threads : ~LoadsInto(v, d)
            BY <2>6, <3>1, ShutsQuiet DEF AppDomainShutdownFinished, Loading
        <3>3. i # 0 /\ Begin(t, "shutModules", [NoCall EXCEPT !.cb = "shutdown", !.id = d, !.dom = i, !.todo = s])
            BY <1>2, <2>6, <3>1 DEF AppDomainShutdownFinished, HeldSteps
        <3>4. i \in DOMAIN domains /\ domains[i].id = d
            BY <1>a, <3>3, Collected DEF Refs, CollectionRefs
        <3>5. \A x \in s : HomeOf(x) = d
            BY <1>a, <3>4 DEF Refs, DomainRefs
        <3>6. s \subseteq Modules
            OBVIOUS
        <3>7. withdrawn' = withdrawn /\ domains' = domains
            BY <2>6 DEF AppDomainShutdownFinished, objVars, histVars
        <3> HIDE DEF i, s
        <3>8. pc'[t] = "shutModules" /\ c.cb = "shutdown" /\ c.id = d /\ c.dom = i /\ c.todo = s
            BY <1>2, <1>b, <3>3 DEF Begin, Goto, NoCall
        <3>9. d \in Ids /\ life'[d] = "gone"
            BY <1>a, <3>1, IdsTypes DEF TypeOK
        <3>10. withdrawn[d] = 0
            BY <1>a, <3>1, <3>9 DEF DomainUnloads
        <3>11. \A v \in Threads : ~(pc'[v] \in LoadSteps /\ HomeOf(call'[v].id) = d)
            <4>1. ASSUME NEW v \in Threads \ {t} PROVE ~(pc'[v] \in LoadSteps /\ HomeOf(call'[v].id) = d)
                BY <1>a, <3>2 DEF Apart, LoadsInto, TheDomain
            <4> QED BY <3>8, <4>1 DEF LoadSteps
        <3> HIDE DEF c
        <3> QED BY <1>2, <3>4, <3>5, <3>6, <3>7, <3>8, <3>9, <3>10, <3>11 DEF UnloadFits, LoadsInto, TheDomain, c
    <2>7. ASSUME NEW m \in Modules, NEW ok \in Outcome, ModuleUnloadFinished(t, m, ok) PROVE UnloadFits(t)'
        <3>0. pc[t] = "idle"
            BY <2>7 DEF ModuleUnloadFinished, CanBegin
        <3>1. pc' # pc
            BY <1>2, <3>0 DEF HeldSteps
        <3>2. PICK r \in ModuleInfosById(m) : SendModuleUnloaded(t, m, r, [NoCall EXCEPT !.cb = "unload", !.id = m])
            BY <2>7, <3>1 DEF ModuleUnloadFinished
        <3>3. pc'[t] = "cleanup" /\ c.cb = "unload" /\ c.mod = r
            BY <1>2, <1>b, <3>2 DEF SendModuleUnloaded, Begin, Goto, NoCall
        <3>4. r \in DOMAIN modules' /\ modules'[r].id = m
            BY <1>a, <2>7, FoundModule DEF ModuleUnloadFinished, objVars
        <3>5. withdrawn' = [withdrawn EXCEPT ![m] = @ + 1] /\ m \in Ids
            BY <3>2, IdsTypes DEF SendModuleUnloaded, Withdraw
        <3>6. withdrawn'[m] > 0
            BY <1>a, <3>5
        <3> HIDE DEF c
        <3> QED BY <1>2, <3>3, <3>4, <3>6 DEF UnloadFits, c
    <2> QED BY <1>2, <2>1, <2>2, <2>3, <2>4, <2>5, <2>6, <2>7, UnloadingSteps
<1> QED BY <1>1, <1>2

-----------------------------------------------------------------------------
(* The attach is alone, and the state keeps its types.                       *)

LEMMA NothingWithdrawn ==
    ASSUME Control, NEW t \in Threads, StepOf(t), phase = "attaching" PROVE withdrawn' = withdrawn
<1>1. pc[t] \notin HeldSteps
    BY DEF Control, AttachAlone, CallsFit, UnloadFits, HeldSteps
<1> QED BY <1>1 DEF StepOf, WithdrawStep, WithdrawsModule, WithdrawsAssembly, WithdrawsDomain, Leaves, HeldSteps

LEMMA AttachAloneStep ==
    ASSUME Control, NEW t \in Threads, StepOf(t) PROVE AttachAlone'
<1>a. AttachAlone /\ CallsFit /\ TypeOK /\ PhaseStep(t) /\ RestStep(t) /\ Apart(t) /\ LifeStep(t)
    BY DEF Control, StepOf
<1>1. ASSUME NEW u \in Threads, call'[u].cb = "attach"
      PROVE  phase' = "attaching" /\ \A v \in Threads \ {u} : pc'[v] = "idle"
    <2>1. CASE u # t
        <3>1. call[u].cb = "attach" /\ pc[u] # "idle"
            BY <1>1, <1>a, <2>1 DEF Apart, CallsFit, LoadFits, LoadSteps
        <3> QED BY <2>1, <3>1, OthersLoad
    <2>2. CASE u = t
        <3>1. \A v \in Threads \ {t} : pc[v] = "idle"
            BY <1>1, <1>a, <2>2 DEF RestStep, AttachAlone
        <3> QED BY <1>1, <1>a, <2>2, <3>1 DEF PhaseStep, Apart
    <2> QED BY <2>1, <2>2
<1>2. ASSUME phase' = "attaching"
      PROVE  /\ \A u \in Threads : pc'[u] = "idle" \/ call'[u].cb = "attach"
             /\ \A x \in Ids : withdrawn'[x] = 0
             /\ pc'[t] # "idle"
    <2>1. phase = "attaching" /\ call'[t].cb = "attach"
        BY <1>2, <1>a DEF PhaseStep
    <2>2. pc'[t] # "idle" /\ \A u \in Threads \ {t} : pc'[u] = "idle"
        BY <1>1, <1>a, <2>1 DEF RestStep, LoadSteps
    <2>3. \A x \in Ids : withdrawn'[x] = 0
        BY <1>a, <2>1, NothingWithdrawn DEF AttachAlone
    <2> QED BY <2>1, <2>2, <2>3
<1>3. \A x \in atAttach' : life'[x] # "absent"
    BY <1>a DEF PhaseStep, LifeStep, AttachAlone, TypeOK
<1> QED BY <1>1, <1>2, <1>3 DEF AttachAlone

\* The histories.
HistoryTypes == announced \subseteq Ids /\ <<raced, failed, attachTold>> \in BOOLEAN \X BOOLEAN \X BOOLEAN
LEMMA HistoryStep ==
    ASSUME TypeOK, CallsFit, NEW t \in Threads, Continue(t) \/ CallBack(t)
    PROVE  HistoryTypes'
<1>a. HistoryTypes
    BY DEF TypeOK, HistoryTypes
<1>b. Outcome \subseteq BOOLEAN
    BY CanFailAssumption DEF Outcome
<1>c. \A ok : EndLoad(t, ok) /\ pc[t] \in LoadSteps => announced' \subseteq Ids
    BY <1>a, LoadNames DEF EndLoad, HistoryTypes
<1>d. \A r : AfterAssembly(t, r) /\ pc[t] \in LoadSteps => announced' \subseteq Ids
    BY <1>a, <1>c DEF AfterAssembly, HistoryTypes
<1>1. CASE FindAppDomain(t)
    BY <1>1, <1>a DEF FindAppDomain, histVars, HistoryTypes
<1>2. CASE ConstructAppDomainInfo(t)
    BY <1>2, <1>a DEF ConstructAppDomainInfo, HistoryTypes
<1>3. CASE FindAssembly(t)
    BY <1>3, <1>a, <1>d DEF FindAssembly, HistoryTypes, LoadSteps
<1>4. CASE ConstructAssemblyInfo(t)
    BY <1>4, <1>a, <1>c, <1>d DEF ConstructAssemblyInfo, HistoryTypes, LoadSteps
<1>5. CASE ConstructModuleInfo(t)
    BY <1>5, <1>a DEF ConstructModuleInfo, histVars, HistoryTypes
<1>6. ASSUME NEW ok \in Outcome, AddModuleInfo(t, ok) PROVE HistoryTypes'
    BY <1>6, <1>a, <1>c DEF AddModuleInfo, Note, HistoryTypes, LoadSteps
<1>7. ASSUME NEW ok \in Outcome, RemoveAppDomain(t, ok) PROVE HistoryTypes'
    BY <1>7, <1>a, IdsTypes DEF RemoveAppDomain, Withdraw, Note, SendModuleUnloaded, SendAssemblyUnloaded, HistoryTypes
<1>8. CASE AttachDone(t)
    BY <1>8, <1>a, IdsTypes DEF AttachDone, Withdraw, Note, SendModuleUnloaded, SendAssemblyUnloaded, HistoryTypes
<1>9. ASSUME NEW m \in Modules, AttachNext(t, m) PROVE HistoryTypes'
    BY <1>9, <1>a DEF AttachNext, histVars, HistoryTypes
<1>10. CASE CleanupModule(t)
    BY <1>10, <1>a DEF CleanupModule, histVars, HistoryTypes
<1>11. CASE ModulesDone(t)
    BY <1>11, <1>a DEF ModulesDone, histVars, HistoryTypes
<1>12. CASE AssembliesDone(t)
    BY <1>12, <1>a DEF AssembliesDone, histVars, HistoryTypes
<1>13. ASSUME NEW m \in Modules, NEW ok \in Outcome, FabricateModuleUnload(t, m, ok) PROVE HistoryTypes'
    BY <1>13, <1>a, IdsTypes DEF FabricateModuleUnload, Withdraw, Note, SendModuleUnloaded, SendAssemblyUnloaded, HistoryTypes
<1>14. ASSUME NEW a \in Assemblies, NEW ok \in Outcome, FabricateAssemblyUnload(t, a, ok) PROVE HistoryTypes'
    BY <1>14, <1>a, IdsTypes DEF FabricateAssemblyUnload, Withdraw, Note, SendModuleUnloaded, SendAssemblyUnloaded, HistoryTypes
<1>15. CASE ProfilerAttachComplete(t)
    BY <1>15, <1>a DEF ProfilerAttachComplete, histVars, HistoryTypes
<1>16. ASSUME NEW d \in Domains, AppDomainCreationStarted(t, d) PROVE HistoryTypes'
    BY <1>16, <1>a DEF AppDomainCreationStarted, histVars, HistoryTypes
<1>17. ASSUME NEW d \in Domains, AppDomainShutdownFinished(t, d) PROVE HistoryTypes'
    BY <1>17, <1>a DEF AppDomainShutdownFinished, histVars, HistoryTypes
<1>18. ASSUME NEW d \in Domains, NEW hrStatus \in BOOLEAN, NEW ok \in Outcome, AppDomainCreationFinished(t, d, hrStatus, ok) PROVE HistoryTypes'
    BY <1>18, <1>a, IdsTypes DEF AppDomainCreationFinished, Withdraw, Note, SendModuleUnloaded, SendAssemblyUnloaded, HistoryTypes
<1>19. ASSUME NEW a \in Assemblies, AssemblyLoadFinished(t, a) PROVE HistoryTypes'
    BY <1>19, <1>a DEF AssemblyLoadFinished, histVars, HistoryTypes
<1>20. ASSUME NEW a \in Assemblies, NEW ok \in Outcome, AssemblyUnloadFinished(t, a, ok) PROVE HistoryTypes'
    BY <1>20, <1>a, IdsTypes DEF AssemblyUnloadFinished, Withdraw, Note, SendModuleUnloaded, SendAssemblyUnloaded, HistoryTypes
<1>21. ASSUME NEW m \in Modules, ModuleAttachedToAssembly(t, m) PROVE HistoryTypes'
    BY <1>21, <1>a DEF ModuleAttachedToAssembly, histVars, HistoryTypes
<1>22. ASSUME NEW m \in Modules, NEW ok \in Outcome, ModuleUnloadFinished(t, m, ok) PROVE HistoryTypes'
    BY <1>22, <1>a, IdsTypes DEF ModuleUnloadFinished, Withdraw, Note, SendModuleUnloaded, SendAssemblyUnloaded, HistoryTypes
<1>23. CASE Shutdown(t)
    BY <1>23, <1>a DEF Shutdown, histVars, HistoryTypes
<1>24. CASE ModuleInitializeFails(t)
    BY <1>24, <1>a, <1>c DEF ModuleInitializeFails, Note, HistoryTypes, LoadSteps
<1> QED BY <1>1, <1>2, <1>3, <1>4, <1>5, <1>6, <1>7, <1>8, <1>9, <1>10, <1>11, <1>12, <1>13, <1>14, <1>15, <1>16, <1>17, <1>18, <1>19, <1>20, <1>21, <1>22, <1>23, <1>24 DEF Continue, CallBack

LEMMA WithdrawnType ==
    ASSUME Control, NEW t \in Threads, StepOf(t) PROVE withdrawn' \in [Ids -> Nat]
<1>a. withdrawn \in [Ids -> Nat]
    BY DEF Control, TypeOK
<1>1. ASSUME NEW x \in Ids, withdrawn' = [withdrawn EXCEPT ![x] = @ + 1] PROVE withdrawn' \in [Ids -> Nat]
    BY <1>a, <1>1
<1>2. WithdrawsDomain(t) => call[t].id \in Ids
    BY UnloadParts, IdsTypes DEF WithdrawsDomain, Control, CallsFit, HeldSteps, ShutsDown
<1> QED BY <1>a, <1>1, <1>2, IdsTypes DEF StepOf, WithdrawStep, WithdrawsModule, WithdrawsAssembly, WithdrawsDomain

LEMMA TypeStep ==
    ASSUME Control, NEW t \in Threads, Continue(t) \/ CallBack(t), StepOf(t) PROVE TypeOK'
<1>a. TypeOK /\ CallsFit /\ Refs
    BY DEF Control
<1>1. atAttach' \subseteq Ids /\ phase' \in {"attaching", "running", "shutdown"}
    BY <1>a DEF StepOf, PhaseStep, TypeOK
<1>2. life' \in [Ids -> {"unused", "absent", "loading", "present", "gone"}]
    BY DEF StepOf, LifeStep, Lives
<1>3. owner' \in Threads \cup {NoThread} /\ \A u \in Threads : owner' = u <=> pc'[u] \in HeldSteps
    BY <1>a, OwnerStep DEF OwnerHolds
<1>4. pc' \in [Threads -> Labels] /\ call' \in [Threads -> Call]
    BY DEF StepOf, Apart
<1>5. Labels = {"idle", "domain", "newDomain", "assembly", "newAssembly", "addModule", "addToAssembly", "attach",
                "cleanup", "shutModules", "shutAssemblies", "shutDomain"}
    BY DEF Labels, LoadSteps, HeldSteps
<1>6. appDomains' \in [Domains -> 0 .. Len(domains')] /\ ObjectTypes'
    BY <1>a, ObjectTypesStep DEF StepOf
<1>7. withdrawn' \in [Ids -> Nat]
    BY WithdrawnType
<1>8. HistoryTypes'
    BY <1>a, HistoryStep
<1>9. pc' \in [Threads -> {"idle", "domain", "newDomain", "assembly", "newAssembly", "addModule", "addToAssembly", "attach",
                "cleanup", "shutModules", "shutAssemblies", "shutDomain"}]
    BY <1>4, <1>5
<1> QED BY <1>1, <1>2, <1>3, <1>4, <1>6, <1>7, <1>8, <1>9 DEF TypeOK, HeldSteps, ObjectTypes, HistoryTypes

-----------------------------------------------------------------------------
(* One object for each module.                                               *)

LEMMA NewModuleOnly ==
    ASSUME NEW t \in Threads, ObjectStep(t)
    PROVE  DOMAIN modules' = DOMAIN modules
           \/ (AddsModule(t) /\ DOMAIN modules' = DOMAIN modules \cup {Len(modules) + 1}
               /\ modules'[Len(modules) + 1].id = call[t].id)
<1>1. DOMAIN modules' = DOMAIN modules \/ AddsModule(t)
    BY DEF ObjectStep, Keeps, AddsDomain, AddsAssembly, ListsModule, CleansUp, Disposed, TakesAssembly, DropsDomains
<1>2. AddsModule(t) => /\ DOMAIN modules' = DOMAIN modules \cup {Len(modules) + 1}
                      /\ modules'[Len(modules) + 1].id = call[t].id
    BY DEF AddsModule, NewModule
<1> QED BY <1>1, <1>2

LEMMA OneObjectStep ==
    ASSUME Control, OneObject, NEW t \in Threads, StepOf(t) PROVE OneObject'
<1>a. /\ CallsFit /\ AttachAlone /\ TypeOK /\ ObjectStep(t) /\ ObjectsStay /\ LifeStep(t) /\ LoadsStep(t) /\ RestStep(t)
      /\ PhaseStep(t) /\ Apart(t) /\ \A i \in DOMAIN modules : modules[i].id \in Ids
    <2>1. \A i \in DOMAIN modules : modules[i] \in ModuleInfo
        BY DEF Control, TypeOK
    <2> QED BY <2>1, IdsTypes DEF Control, StepOf, ModuleInfo
\* The new object of a module is the first.
<1>b. ASSUME AddsModule(t)
      PROVE  /\ pc[t] = "addModule" /\ pc[t] \in LoadSteps /\ call[t].id \in Ids
             /\ \A i \in DOMAIN modules : modules[i].id # call[t].id
    <2>1. pc[t] = "addModule" /\ pc[t] \in LoadSteps
        BY <1>b DEF AddsModule, LoadSteps
    <2> QED BY <1>a, <2>1, LoadNames DEF OneObject, Loads
<1>1. ASSUME NEW i \in DOMAIN modules', NEW j \in DOMAIN modules', modules'[i].id = modules'[j].id PROVE i = j
    BY <1>1, <1>a, <1>b, NewModuleOnly DEF ObjectsStay, OneObject
<1>2. ASSUME NEW i \in DOMAIN modules' PROVE life'[modules'[i].id] # "absent"
    <2>1. CASE i \in DOMAIN modules
        BY <1>a, <2>1 DEF ObjectsStay, OneObject, LifeStep
    <2>2. CASE AddsModule(t) /\ modules'[i].id = call[t].id
        <3>1. pc[t] \in LoadSteps /\ call[t].id \in Ids
            BY <1>b, <2>2
        <3>2. life[call[t].id] # "absent"
            BY <1>a, <3>1 DEF CallsFit, LoadFits, AttachAlone
        <3> QED BY <1>a, <2>2, <3>1, <3>2 DEF LifeStep
    <2> QED BY <1>a, <2>1, <2>2, NewModuleOnly
<1>3. ASSUME NEW i \in DOMAIN modules', NEW u \in Threads, pc'[u] \in LoadSteps, call'[u].id = modules'[i].id
      PROVE  pc'[u] = "addToAssembly"
    <2>1. CASE i \in DOMAIN modules /\ u # t
        BY <1>3, <1>a, <2>1 DEF ObjectsStay, OneObject, Loads, Apart
    <2>2. CASE i \in DOMAIN modules /\ u = t
        <3>1. modules'[i].id = modules[i].id /\ life[modules[i].id] # "absent"
            BY <1>a, <2>2 DEF ObjectsStay, OneObject
        <3>2. ~GoesOn(t)
            BY <1>3, <2>2, <3>1 DEF GoesOn, OneObject, Loads
        <3>3. ~Begins(t, call'[t].id)
            BY <1>3, <2>2, <3>1 DEF Begins, OneObject
        <3> QED BY <1>3, <1>a, <2>2, <3>2, <3>3 DEF LoadsStep
    <2>3. CASE AddsModule(t) /\ modules'[i].id = call[t].id
        <3>1. pc'[t] = "addToAssembly" /\ pc'[t] \in LoadSteps
            BY <2>3 DEF AddsModule, LoadSteps
        <3>2. GoesOn(t)
            BY <1>a, <1>b, <2>3, <3>1 DEF LoadsStep, Begins
        <3>3. call'[t].id = call'[u].id
            BY <1>3, <2>3, <3>2 DEF GoesOn
        <3>4. u = t
            BY <1>3, <3>1, <3>3, UniqueLoads
        <3> QED BY <3>1, <3>4
    <2> QED BY <1>a, <2>1, <2>2, <2>3, NewModuleOnly
<1>4. ASSUME NEW i \in DOMAIN modules', NEW u \in Threads, call'[u].cb = "attach"
      PROVE  modules'[i].id \notin call'[u].todo
    <2>1. u = t
        <3>1. ASSUME u # t PROVE FALSE
            <4>1. call[u].cb = "attach" /\ pc[u] # "idle"
                BY <1>4, <1>a, <3>1 DEF Apart, CallsFit, LoadFits, LoadSteps
            <4> QED BY <3>1, <4>1, OthersLoad
        <3> QED BY <3>1
    <2>2. CASE call[t].cb = "attach" /\ call'[t].todo \subseteq call[t].todo
        <3>1. CASE i \in DOMAIN modules
            BY <1>a, <2>1, <2>2, <3>1 DEF ObjectsStay, OneObject
        <3>2. CASE AddsModule(t) /\ modules'[i].id = call[t].id
            <4>1. call[t].id \notin call[t].todo
                BY <1>a, <1>b, <2>2, <3>2 DEF CallsFit, LoadFits
            <4> QED BY <2>1, <2>2, <3>2, <4>1
        <3> QED BY <1>a, <3>1, <3>2, NewModuleOnly
    <2>3. CASE \A v \in Threads : pc[v] = "idle"
        <3>1. phase = "attaching"
            BY <1>4, <1>a, <2>1 DEF PhaseStep
        <3>2. modules = <<>>
            BY <1>a, <2>3, <3>1 DEF AttachAlone
        <3>3. ~AddsModule(t)
            BY <2>3 DEF AddsModule
        <3>4. DOMAIN modules = {}
            BY <3>2
        <3> QED BY <1>4, <1>a, <3>3, <3>4, NewModuleOnly
    <2> QED BY <1>4, <1>a, <2>1, <2>2, <2>3 DEF RestStep
<1> QED BY <1>1, <1>2, <1>3, <1>4 DEF OneObject, Loads

-----------------------------------------------------------------------------
(* What was unloaded stays unloaded.                                         *)

\* A count of unloads changes only where WithdrawStep says so.
LEMMA Counted ==
    ASSUME Control, NEW t \in Threads, StepOf(t), NEW x \in Ids, withdrawn'[x] # withdrawn[x]
    PROVE  /\ withdrawn'[x] = withdrawn[x] + 1 /\ phase # "attaching"
           /\ x \in Domains => WithdrawsDomain(t) /\ call[t].id = x
           /\ x \in Assemblies => \E r \in AssemblyInfosById(x) : WithdrawsAssembly(t, x, r)
           /\ x \in Modules => \E r \in ModuleInfosById(x) : WithdrawsModule(t, x, r)
<1>a. withdrawn \in [Ids -> Nat] /\ CallsFit
    BY DEF Control, TypeOK
<1>b. phase # "attaching"
    BY NothingWithdrawn
<1>c. WithdrawsDomain(t) => call[t].id \in Domains
    BY <1>a, UnloadParts DEF WithdrawsDomain, CallsFit, HeldSteps, ShutsDown
<1>1. CASE WithdrawsDomain(t)
    <2>1. x = call[t].id /\ x \in Domains /\ withdrawn'[x] = withdrawn[x] + 1
        BY <1>1, <1>a, <1>c, IdsTypes DEF WithdrawsDomain
    <2> QED BY <1>1, <1>b, <2>1, IdsTypes
<1>2. ASSUME NEW a \in Assemblies, NEW r \in AssemblyInfosById(a), WithdrawsAssembly(t, a, r)
      PROVE  x = a /\ withdrawn'[x] = withdrawn[x] + 1
    BY <1>2, <1>a, IdsTypes DEF WithdrawsAssembly
<1>3. ASSUME NEW m \in Modules, NEW r \in ModuleInfosById(m), WithdrawsModule(t, m, r)
      PROVE  x = m /\ withdrawn'[x] = withdrawn[x] + 1
    BY <1>3, <1>a, IdsTypes DEF WithdrawsModule
<1>4. CASE \E a \in Assemblies : \E r \in AssemblyInfosById(a) : WithdrawsAssembly(t, a, r)
    BY <1>4, <1>b, <1>2, IdsTypes
<1>5. CASE \E m \in Modules : \E r \in ModuleInfosById(m) : WithdrawsModule(t, m, r)
    BY <1>5, <1>b, <1>3, IdsTypes
<1> QED BY <1>1, <1>4, <1>5 DEF StepOf, WithdrawStep

\* The appdomain that is shut down, and an id that leaves with it.
LEMMA LeavesWith ==
    ASSUME Control, NEW t \in Threads, pc[t] \in HeldSteps, call[t].cb = "shutdown"
    PROVE  ShutsDown(call[t])
BY UnloadParts DEF Control, CallsFit

LEMMA DomainUnloadsStep ==
    ASSUME Control, DomainUnloads, NEW t \in Threads, StepOf(t) PROVE DomainUnloads'
<1> SUFFICES ASSUME NEW d \in Domains, withdrawn'[d] > 0
             PROVE  /\ withdrawn'[d] = 1 /\ life'[d] = "gone" /\ appDomains'[d] = 0
                    /\ \A u \in Threads : ~LoadsInto(u, d)'
    BY DEF DomainUnloads
<1>a. d \in Ids /\ withdrawn \in [Ids -> Nat] /\ appDomains \in [Domains -> 0 .. Len(domains)]
    BY IdsTypes DEF Control, TypeOK
<1>b. ASSUME life[d] = "gone", phase # "attaching", \A u \in Threads : ~LoadsInto(u, d)
      PROVE  life'[d] = "gone" /\ \A u \in Threads : ~LoadsInto(u, d)'
    BY <1>a, <1>b, NoNewLoads DEF StepOf, LifeStep
<1>1. CASE withdrawn'[d] # withdrawn[d]
    <2>1. WithdrawsDomain(t) /\ call[t].id = d /\ withdrawn'[d] = withdrawn[d] + 1 /\ phase # "attaching"
        BY <1>1, <1>a, Counted
    <2>2. pc[t] \in HeldSteps /\ call[t].cb = "shutdown"
        BY <2>1 DEF WithdrawsDomain, HeldSteps, Control, CallsFit, UnloadFits
    <2>3. withdrawn[d] = 0 /\ life[d] = "gone" /\ \A u \in Threads : ~LoadsInto(u, d)
        BY <2>1, <2>2, LeavesWith DEF ShutsDown
    <2>4. appDomains'[d] = 0
        BY <1>a, <2>1 DEF WithdrawsDomain
    <2> QED BY <1>b, <2>1, <2>3, <2>4
<1>2. CASE withdrawn'[d] = withdrawn[d]
    <2>1. /\ withdrawn[d] = 1 /\ life[d] = "gone" /\ appDomains[d] = 0
          /\ \A u \in Threads : ~LoadsInto(u, d)
        BY <1>2 DEF DomainUnloads
    <2>2. phase # "attaching"
        BY <1>a, <2>1 DEF Control, AttachAlone
    <2>3. AddsDomain(t) => TheDomain(t) # d /\ TheDomain(t) \in Domains
        BY <2>1, LoadNames DEF AddsDomain, LoadsInto, LoadSteps, Control
    <2>4. ASSUME AddsDomain(t) PROVE appDomains'[d] = appDomains[d]
        BY <1>a, <2>3, <2>4 DEF AddsDomain
    <2>5. appDomains'[d] = 0
        BY <2>1, <2>4 DEF StepOf, ObjectStep, Keeps, AddsModule, AddsAssembly, ListsModule, CleansUp, TakesAssembly,
                          DropsDomains
    <2> QED BY <1>2, <1>b, <2>1, <2>2, <2>5
<1> QED BY <1>1, <1>2

\* An id whose assembly or appdomain is gone does not begin to load.
LEMMA GoneStaysOut ==
    ASSUME Control, NEW t \in Threads, StepOf(t), phase # "attaching", NEW u \in Threads
    PROVE  /\ \A a \in Assemblies : "gone" \in {life[a], life[DomainOf[a]]} /\ ~LoadsOf(u, a) => ~LoadsOf(u, a)'
           /\ \A m \in Modules : "gone" \in {life[m], life[HomeOf(m)]} /\ ~Loads(u, m) => ~Loads(u, m)'
<1>1. CASE u # t
    BY <1>1 DEF StepOf, Apart, LoadsOf, Loads, TheAssembly
<1>2. CASE u = t
    <2>1. call[t].cb # "attach"
        BY DEF Control, AttachAlone
    <2>2. ASSUME pc'[t] \in LoadSteps, ~GoesOn(t)
          PROVE  /\ call'[t].id \in Ids /\ life[call'[t].id] # "gone" /\ life[HomeOf(call'[t].id)] # "gone"
                 /\ call'[t].id \in Modules => life[AssemblyOf[call'[t].id]] # "gone"
                 /\ call'[t].cb # "domain" => call'[t].id \in Assemblies \cup Modules
        <3>1. Begins(t, call'[t].id)
            BY <2>2 DEF StepOf, LoadsStep
        <3> QED BY <2>1, <3>1 DEF Begins, BeginsFor
    <2>3. ASSUME NEW a \in Assemblies, "gone" \in {life[a], life[DomainOf[a]]}, ~LoadsOf(t, a), LoadsOf(t, a)' PROVE FALSE
        <3>1. pc'[t] \in LoadSteps /\ call'[t].cb # "domain"
              /\ a = IF call'[t].id \in Modules THEN AssemblyOf[call'[t].id] ELSE call'[t].id
            BY <2>3 DEF LoadsOf, TheAssembly
        <3>2. ~GoesOn(t)
            BY <2>3, <3>1 DEF GoesOn, LoadsOf, TheAssembly
        <3> QED BY <2>2, <2>3, <3>1, <3>2, IdsTypes
    <2>4. ASSUME NEW m \in Modules, "gone" \in {life[m], life[HomeOf(m)]}, ~Loads(t, m), Loads(t, m)' PROVE FALSE
        <3>1. pc'[t] \in LoadSteps /\ call'[t].id = m
            BY <2>4 DEF Loads
        <3>2. ~GoesOn(t)
            BY <2>4, <3>1 DEF GoesOn, Loads
        <3> QED BY <2>2, <2>4, <3>1, <3>2
    <2> QED BY <1>2, <2>3, <2>4
<1> QED BY <1>1, <1>2

LEMMA GoneStays ==
    ASSUME NEW t \in Threads, LifeStep(t), NEW x \in Ids, life[x] = "gone" PROVE life'[x] = "gone"
BY DEF LifeStep

\* Nobody loads a part of an assembly that the CLR unloads, or that goes with its appdomain.
LEMMA LeavesQuiet ==
    ASSUME Control, NEW t \in Threads, StepOf(t)
    PROVE  /\ \A a \in Assemblies : \A r : WithdrawsAssembly(t, a, r) =>
                 "gone" \in {life'[a], life'[DomainOf[a]]} /\ \A u \in Threads : ~LoadsOf(u, a)'
           /\ \A m \in Modules : \A r : WithdrawsModule(t, m, r) =>
                 "gone" \in {life'[m], life'[HomeOf(m)]} /\ \A u \in Threads : ~Loads(u, m)'
<1>a. CallsFit /\ LifeStep(t) /\ Apart(t)
    BY DEF Control, StepOf
<1>b. ASSUME phase = "running", NEW u \in Threads, pc[u] \in LoadSteps PROVE life[call[u].id] = "loading"
    BY <1>b DEF Control, AttachAlone, CallsFit, LoadFits
<1>c. ASSUME pc[t] \in HeldSteps, call[t].cb = "shutdown", NEW x \in Ids, HomeOf(x) = call[t].id
      PROVE  life'[HomeOf(x)] = "gone" /\ \A u \in Threads : ~LoadsInto(u, HomeOf(x))
    <2>1. ShutsDown(call[t])
        BY <1>c, LeavesWith
    <2>2. HomeOf(x) \in Ids /\ life[HomeOf(x)] = "gone"
        BY <1>c, <2>1, IdsTypes DEF ShutsDown
    <2> QED BY <1>a, <1>c, <2>1, <2>2, GoneStays DEF ShutsDown
<1>1. ASSUME NEW a \in Assemblies, NEW r, WithdrawsAssembly(t, a, r)
      PROVE  "gone" \in {life'[a], life'[DomainOf[a]]} /\ \A u \in Threads : ~LoadsOf(u, a)'
    <2>1. ASSUME NEW u \in Threads, ~LoadsOf(u, a) PROVE ~LoadsOf(u, a)'
        BY <1>1, <1>a, <2>1 DEF WithdrawsAssembly, Apart, LoadsOf, TheAssembly
    <2>2. ASSUME NEW u \in Threads, LoadsOf(u, a)
          PROVE  /\ pc[u] \in LoadSteps /\ LoadsInto(u, HomeOf(a))
                 /\ call[u].id = a \/ (call[u].id \in Modules /\ AssemblyOf[call[u].id] = a)
        <3>1. pc[u] \in LoadSteps /\ call[u].cb # "domain" /\ TheAssembly(u) = a
            BY <2>2 DEF LoadsOf
        <3>2. DomainOf[a] = TheDomain(u)
            BY <1>a, <3>1, LoadNames
        <3> QED BY <3>1, <3>2, IdsTypes DEF TheAssembly, LoadsInto
    <2>3. CASE pc[t] = "idle"
        <3>1. phase = "running" /\ life[a] = "present" /\ life'[a] = "gone"
            BY <1>1, <2>3 DEF WithdrawsAssembly, Leaves, HeldSteps
        <3>2. \A m \in Modules : AssemblyOf[m] = a => life[m] # "loading"
            BY <1>1, <2>3 DEF WithdrawsAssembly
        <3>3. \A u \in Threads : ~LoadsOf(u, a)
            BY <1>b, <2>2, <3>1, <3>2
        <3> QED BY <2>1, <3>1, <3>3
    <2>4. CASE pc[t] # "idle"
        <3>1. pc[t] \in HeldSteps /\ call[t].cb = "shutdown" /\ HomeOf(a) = call[t].id /\ a \in Ids
            BY <1>1, <2>4 DEF WithdrawsAssembly, Leaves
        <3>2. life'[HomeOf(a)] = "gone" /\ \A u \in Threads : ~LoadsInto(u, HomeOf(a))
            BY <1>c, <3>1
        <3>3. HomeOf(a) = DomainOf[a]
            BY IdsTypes
        <3> QED BY <2>1, <2>2, <3>2, <3>3
    <2> QED BY <2>3, <2>4
<1>2. ASSUME NEW m \in Modules, NEW r, WithdrawsModule(t, m, r)
      PROVE  "gone" \in {life'[m], life'[HomeOf(m)]} /\ \A u \in Threads : ~Loads(u, m)'
    <2>1. ASSUME NEW u \in Threads, ~Loads(u, m) PROVE ~Loads(u, m)'
        BY <1>2, <1>a, <2>1 DEF WithdrawsModule, Apart, Loads, LoadSteps
    <2>2. CASE pc[t] = "idle"
        <3>1. phase = "running" /\ life[m] = "present" /\ life'[m] = "gone"
            BY <1>2, <2>2 DEF WithdrawsModule, Leaves, HeldSteps
        <3>2. \A u \in Threads : ~Loads(u, m)
            BY <1>b, <3>1 DEF Loads
        <3> QED BY <2>1, <3>1, <3>2
    <2>3. CASE pc[t] # "idle"
        <3>1. pc[t] \in HeldSteps /\ call[t].cb = "shutdown" /\ HomeOf(m) = call[t].id /\ m \in Ids
            BY <1>2, <2>3 DEF WithdrawsModule, Leaves
        <3>2. life'[HomeOf(m)] = "gone" /\ \A u \in Threads : ~LoadsInto(u, HomeOf(m))
            BY <1>c, <3>1
        <3> QED BY <2>1, <3>2 DEF Loads, LoadsInto, TheDomain
    <2> QED BY <2>2, <2>3
<1> QED BY <1>1, <1>2

LEMMA AssemblyUnloadsStep ==
    ASSUME Control, AssemblyUnloads, NEW t \in Threads, StepOf(t) PROVE AssemblyUnloads'
<1> SUFFICES ASSUME NEW a \in Assemblies, withdrawn'[a] > 0
             PROVE  /\ withdrawn'[a] = 1 /\ "gone" \in {life'[a], life'[DomainOf[a]]}
                    /\ \A u \in Threads : ~LoadsOf(u, a)'
                    /\ \A d \in Domains : appDomains'[d] # 0 => domains'[appDomains'[d]].asms[a] = 0
    BY DEF AssemblyUnloads
<1>a. a \in Ids /\ DomainOf[a] \in Ids /\ withdrawn \in [Ids -> Nat] /\ TypeOK /\ Refs /\ CallsFit
    BY IdsTypes DEF Control, TypeOK
<1>1. CASE withdrawn'[a] # withdrawn[a]
    <2>1. PICK r \in AssemblyInfosById(a) : WithdrawsAssembly(t, a, r)
        BY <1>1, <1>a, Counted
    <2>2. withdrawn'[a] = withdrawn[a] + 1
        BY <1>1, <1>a, Counted
    <2>3. /\ appDomains[DomainOf[a]] # 0 /\ assemblies[r].dom = appDomains[DomainOf[a]]
          /\ domains[assemblies[r].dom].asms[a] # 0
        BY <1>a, FoundAssembly
    <2>4. withdrawn[a] = 0
        BY <1>a, <2>3, IdsTypes DEF AssemblyUnloads
    <2>5. ASSUME NEW d \in Domains, appDomains'[d] # 0 PROVE domains'[appDomains'[d]].asms[a] = 0
        <3>1. appDomains' = appDomains /\ SetAsm(assemblies[r].dom, a, 0)
            BY <2>1 DEF WithdrawsAssembly
        <3>2. appDomains[d] \in DOMAIN domains /\ domains[appDomains[d]].id = d
            BY <1>a, <2>5, <3>1, Collected DEF Refs, CollectionRefs
        <3>3. CASE d = DomainOf[a]
            BY <2>3, <3>1, <3>2, <3>3 DEF SetAsm
        <3>4. CASE d # DomainOf[a]
            <4>1. domains[appDomains[d]].asms[a] = 0
                BY <1>a, <3>2, <3>4 DEF Refs, DomainRefs
            <4> QED BY <3>1, <3>2, <4>1 DEF SetAsm
        <3> QED BY <3>3, <3>4
    <2> QED BY <2>1, <2>2, <2>4, <2>5, LeavesQuiet
<1>2. CASE withdrawn'[a] = withdrawn[a]
    <2>1. /\ withdrawn[a] = 1 /\ "gone" \in {life[a], life[DomainOf[a]]}
          /\ \A u \in Threads : ~LoadsOf(u, a)
          /\ \A d \in Domains : appDomains[d] # 0 => domains[appDomains[d]].asms[a] = 0
        BY <1>2 DEF AssemblyUnloads
    <2>2. phase # "attaching"
        BY <1>a, <2>1 DEF Control, AttachAlone
    <2>3. "gone" \in {life'[a], life'[DomainOf[a]]}
        BY <1>a, <2>1, GoneStays DEF StepOf
    <2>4. \A u \in Threads : ~LoadsOf(u, a)'
        BY <2>1, <2>2, GoneStaysOut
    <2>5. ASSUME NEW d \in Domains, appDomains'[d] # 0 PROVE domains'[appDomains'[d]].asms[a] = 0
        <3>a. ASSUME NEW i \in DOMAIN domains, domains[i].asms[a] = 0 PROVE i \in DOMAIN domains' /\ domains'[i].asms[a] = 0
            <4>1. CASE AddsAssembly(t)
                <5>1. TheAssembly(t) # a
                    BY <1>a, <2>1, <4>1, LoadNames DEF AddsAssembly, LoadsOf, LoadSteps
                <5> QED BY <3>a, <4>1, <5>1 DEF AddsAssembly, SetAsm
            <4>2. CASE ~AddsAssembly(t)
                BY <3>a, <4>2 DEF StepOf, ObjectStep, Keeps, DomainsKept, AddsDomain, NewDomain, AddsModule, SetMod,
                    ListsModule, CleansUp, TakesAssembly, SetAsm, DropsDomains
            <4> QED BY <4>1, <4>2
        <3>1. CASE appDomains'[d] = appDomains[d]
            BY <1>a, <2>1, <2>5, <3>a, <3>1, Collected
        <3>2. CASE appDomains'[d] # appDomains[d]
            <4>1. AddsDomain(t)
                BY <2>5, <3>2 DEF StepOf, ObjectStep, Keeps, AddsModule, AddsAssembly, ListsModule, CleansUp,
                                  TakesAssembly, DropsDomains
            <4>2. TheDomain(t) \in Domains
                BY <1>a, <4>1, LoadNames DEF AddsDomain, LoadSteps
            <4>3. appDomains'[d] = Len(domains) + 1
                BY <1>a, <3>2, <4>1, <4>2 DEF AddsDomain, TypeOK
            <4> QED BY <4>1, <4>3 DEF AddsDomain, NewDomain
        <3> QED BY <3>1, <3>2
    <2> QED BY <1>2, <2>1, <2>3, <2>4, <2>5
<1> QED BY <1>1, <1>2

\* A module object that is let go: disposed, and in no map of its appdomain or its assembly.
LetGo(i, m) ==
    /\ modules[i].disposed /\ domains[modules[i].dom].mods[m] = 0 /\ assemblies[modules[i].asm].mods[m] = 0

\* The maps take a module back only while it loads.
LEMMA StaysLetGo ==
    ASSUME Control, NEW t \in Threads, StepOf(t), NEW m \in Modules, ~Loads(t, m),
           NEW i \in DOMAIN modules, LetGo(i, m)
    PROVE  LetGo(i, m)'
<1>a. CallsFit /\ ObjectStep(t) /\ ObjectsStay /\ ModuleRefs
    BY DEF Control, StepOf, Refs
<1>b. /\ modules[i].dom \in DOMAIN domains /\ modules[i].asm \in DOMAIN assemblies
      /\ modules'[i].dom = modules[i].dom /\ modules'[i].asm = modules[i].asm
    BY <1>a DEF ObjectsStay, ModuleRefs
<1>c. ASSUME pc[t] \in {"addModule", "addToAssembly"} PROVE call[t].id # m
    BY <1>c DEF Loads, LoadSteps
<1>1. modules'[i].disposed
    <2>1. CASE CleansUp(t)
        BY <2>1 DEF CleansUp, Disposed, LetGo
    <2>2. CASE AddsModule(t)
        BY <2>2 DEF AddsModule, NewModule, LetGo
    <2>3. CASE modules' = modules
        BY <2>3 DEF LetGo
    <2> QED BY <1>a, <2>1, <2>2, <2>3 DEF ObjectStep, Keeps, AddsDomain, AddsAssembly, ListsModule, TakesAssembly, DropsDomains
<1>2. domains'[modules[i].dom].mods[m] = 0
    <2>1. CASE AddsModule(t)
        BY <1>b, <1>c, <2>1 DEF AddsModule, SetMod, LetGo
    <2>2. CASE ~AddsModule(t)
        BY <1>a, <1>b, <2>2 DEF LetGo, ObjectStep, Keeps, DomainsKept, AddsDomain, NewDomain, AddsAssembly, SetAsm, SetMod,
            ListsModule, CleansUp, TakesAssembly, DropsDomains
    <2> QED BY <2>1, <2>2
<1>3. assemblies'[modules[i].asm].mods[m] = 0
    <2>1. CASE ListsModule(t)
        BY <1>b, <1>c, <2>1 DEF ListsModule, SetAssemblyMod, LetGo
    <2>2. CASE ~ListsModule(t)
        BY <1>a, <1>b, <2>2 DEF LetGo, ObjectStep, Keeps, AddsDomain, AddsAssembly, NewAssembly, AddsModule, SetAssemblyMod,
            CleansUp, TakesAssembly, DropsDomains
    <2> QED BY <2>1, <2>2
<1> QED BY <1>1, <1>2, <1>3, <1>b DEF LetGo

LEMMA ModuleUnloadsStep ==
    ASSUME Control, OneObject, ModuleUnloads, NEW t \in Threads, Continue(t) \/ CallBack(t), StepOf(t)
    PROVE  ModuleUnloads'
<1> SUFFICES ASSUME NEW m \in Modules, withdrawn'[m] > 0
             PROVE  /\ withdrawn'[m] = 1 /\ "gone" \in {life'[m], life'[HomeOf(m)]}
                    /\ \A u \in Threads : ~Loads(u, m)'
                    /\ \A i \in DOMAIN modules' : modules'[i].id = m =>
                          LetGo(i, m)' \/ \E u \in Threads : pc'[u] = "cleanup" /\ call'[u].mod = i
    BY DEF ModuleUnloads, LetGo
<1>a. m \in Ids /\ HomeOf(m) \in Ids /\ withdrawn \in [Ids -> Nat] /\ TypeOK /\ Refs /\ CallsFit /\ ObjectStep(t) /\ Apart(t)
    BY IdsTypes DEF Control, TypeOK, StepOf
<1>b. ASSUME withdrawn[m] > 0
      PROVE  /\ withdrawn[m] = 1 /\ "gone" \in {life[m], life[HomeOf(m)]} /\ \A u \in Threads : ~Loads(u, m)
             /\ \A i \in DOMAIN modules : modules[i].id = m =>
                   LetGo(i, m) \/ \E u \in Threads : pc[u] = "cleanup" /\ call[u].mod = i
    BY <1>b DEF ModuleUnloads, LetGo
<1>1. CASE withdrawn'[m] # withdrawn[m]
    <2>1. PICK r \in ModuleInfosById(m) : WithdrawsModule(t, m, r)
        BY <1>1, <1>a, Counted
    <2>2. withdrawn'[m] = withdrawn[m] + 1
        BY <1>1, <1>a, Counted
    <2>3. r \in DOMAIN modules /\ modules[r].id = m /\ ~modules[r].disposed
        BY <1>a, FoundModule
    <2>4. pc[t] # "cleanup" /\ Holds(t) /\ pc'[t] = "cleanup" /\ call'[t].mod = r /\ modules' = modules
        BY <2>1 DEF WithdrawsModule, Leaves, objVars
    <2>5. withdrawn[m] = 0
        <3>1. ASSUME withdrawn[m] > 0 PROVE FALSE
            <4>1. ~LetGo(r, m)
                BY <2>3 DEF LetGo
            <4>2. PICK u \in Threads : pc[u] = "cleanup"
                BY <1>b, <2>3, <3>1, <4>1
            <4> QED BY <2>4, <4>2 DEF Holds, HeldSteps
        <3> QED BY <1>a, <3>1
    <2>6. \A i \in DOMAIN modules' : modules'[i].id = m => i = r
        BY <2>3, <2>4 DEF OneObject
    <2> QED BY <2>1, <2>2, <2>4, <2>5, <2>6, LeavesQuiet
<1>2. CASE withdrawn'[m] = withdrawn[m]
    <2>1. withdrawn[m] > 0
        BY <1>2
    <2>2. phase # "attaching"
        BY <1>a, <2>1 DEF Control, AttachAlone
    <2>3. "gone" \in {life'[m], life'[HomeOf(m)]}
        BY <1>a, <1>b, <2>1, GoneStays DEF StepOf
    <2>4. \A u \in Threads : ~Loads(u, m)'
        BY <1>b, <2>1, <2>2, GoneStaysOut
    <2>5. ASSUME NEW i \in DOMAIN modules', modules'[i].id = m
          PROVE  LetGo(i, m)' \/ \E u \in Threads : pc'[u] = "cleanup" /\ call'[u].mod = i
        <3>1. i \in DOMAIN modules
            <4>1. AddsModule(t) => call[t].id # m
                BY <1>b, <2>1 DEF AddsModule, Loads, LoadSteps
            <4> QED BY <1>a, <2>5, <4>1, NewModuleOnly
        <3>2. modules[i].id = m
            BY <2>5, <3>1 DEF StepOf, ObjectsStay
        <3>3. CASE LetGo(i, m)
            BY <1>b, <2>1, <3>1, <3>3, StaysLetGo
        <3>4. ASSUME NEW u \in Threads, pc[u] = "cleanup", call[u].mod = i, u # t
              PROVE  pc'[u] = "cleanup" /\ call'[u].mod = i
            BY <1>a, <3>4 DEF Apart
        <3>5. ASSUME pc[t] = "cleanup", call[t].mod = i PROVE LetGo(i, m)'
            <4>1. CleanupModule(t)
                <5>1. pc[t] \notin LoadSteps \cup {"idle", "attach", "shutModules", "shutAssemblies", "shutDomain"}
                    BY <3>5 DEF LoadSteps
                <5>2. ~CallBack(t)
                    BY <3>5 DEF CallBack, CanBegin, ProfilerAttachComplete, AppDomainCreationStarted, AppDomainShutdownFinished,
                       AppDomainCreationFinished, AssemblyLoadFinished, AssemblyUnloadFinished,
                       ModuleAttachedToAssembly, ModuleUnloadFinished, Shutdown
                <5> QED BY <5>1, <5>2 DEF Continue, FindAppDomain, ConstructAppDomainInfo, FindAssembly, ConstructAssemblyInfo,
                       ModuleInitializeFails, ConstructModuleInfo, AddModuleInfo, AttachDone, AttachNext, RemoveAppDomain, ModulesDone, AssembliesDone,
                       FabricateModuleUnload, FabricateAssemblyUnload, LoadSteps
            <4>2. CleansUp(t)
                BY <1>a, <4>1, CleanupCleans
            <4>3. /\ modules[i].dom \in DOMAIN domains /\ modules[i].asm \in DOMAIN assemblies
                  /\ modules'[i].dom = modules[i].dom /\ modules'[i].asm = modules[i].asm
                BY <1>a, <3>1 DEF Refs, ModuleRefs, StepOf, ObjectsStay
            <4>4. modules'[i].disposed
                BY <3>5, <4>2 DEF CleansUp, Disposed
            <4>5. domains'[modules[i].dom].mods[m] = 0 /\ assemblies'[modules[i].asm].mods[m] = 0
                BY <3>2, <3>5, <4>2, <4>3 DEF CleansUp, SetMod, SetAssemblyMod
            <4> QED BY <4>3, <4>4, <4>5 DEF LetGo
        <3> QED BY <1>b, <2>1, <3>1, <3>2, <3>3, <3>4, <3>5
    <2> QED BY <1>2, <1>b, <2>1, <2>3, <2>4, <2>5
<1> QED BY <1>1, <1>2

-----------------------------------------------------------------------------
(* The invariant holds.                                                      *)

LEMMA InitInv == Init => IInv
<1> SUFFICES ASSUME Init PROVE IInv
    OBVIOUS
<1>1. PICK p \in Processes : /\ atAttach = p.before
                             /\ life = [x \in Ids |-> CASE x \in p.before -> "present"
                                                        [] x \in p.later \ p.before -> "absent"
                                                        [] OTHER -> "unused"]
    BY DEF Init
<1>2. p.before \subseteq Ids
    BY IdsAssumption
<1>3. life \in [Ids -> {"unused", "absent", "loading", "present", "gone"}]
    BY <1>1
<1>4. \A x \in atAttach : life[x] # "absent"
    BY <1>1, <1>2
<1>5. /\ pc = [t \in Threads |-> "idle"] /\ call = [t \in Threads |-> NoCall] /\ owner = NoThread
      /\ appDomains = [d \in Domains |-> 0] /\ domains = <<>> /\ assemblies = <<>> /\ modules = <<>>
      /\ withdrawn = [x \in Ids |-> 0] /\ announced = {} /\ raced = FALSE /\ failed = FALSE /\ attachTold = FALSE
      /\ phase \in {"attaching", "running", "shutdown"}
    BY DEF Init
<1>6. DOMAIN domains = {} /\ DOMAIN assemblies = {} /\ DOMAIN modules = {} /\ Len(domains) = 0
    BY <1>5
<1>7. /\ domains \in Seq(DomainInfo) /\ assemblies \in Seq(AssemblyInfo) /\ modules \in Seq(ModuleInfo)
      /\ appDomains \in [Domains -> 0 .. Len(domains)]
    BY <1>5, <1>6
<1>8. TypeOK
    <2>1. owner \in Threads \cup {NoThread} /\ \A t \in Threads : owner # t
        BY <1>5, ThreadsAssumption
    <2>2. call \in [Threads -> Call]
        BY <1>5, IdsTypes
    <2>3. withdrawn \in [Ids -> Nat]
        BY <1>5
    <2> QED BY <1>1, <1>2, <1>3, <1>5, <1>7, <2>1, <2>2, <2>3 DEF TypeOK
<1>9. AttachAlone
    BY <1>4, <1>5 DEF AttachAlone, NoCall
<1>10. CallsFit
    BY <1>5 DEF CallsFit, LoadFits, LoadPoints, UnloadFits, LoadSteps, HeldSteps, NoCall
<1>11. DomainRefs /\ AssemblyRefs /\ ModuleRefs /\ CollectionRefs /\ OneObject
    BY <1>5, <1>6 DEF DomainRefs, AssemblyRefs, ModuleRefs, CollectionRefs, OneObject
<1>12. DomainUnloads /\ AssemblyUnloads /\ ModuleUnloads
    BY <1>5, IdsTypes DEF DomainUnloads, AssemblyUnloads, ModuleUnloads
<1> QED BY <1>8, <1>9, <1>10, <1>11, <1>12 DEF IInv

LEMMA NextInv == IInv /\ [Next]_vars => IInv'
<1> SUFFICES ASSUME IInv, [Next]_vars PROVE IInv'
    OBVIOUS
<1>a. Control /\ DomainUnloads /\ AssemblyUnloads /\ ModuleUnloads /\ OneObject
    BY DEF IInv, Control, Refs
<1>1. ASSUME NEW t \in Threads, Continue(t) \/ CallBack(t) PROVE IInv'
    <2>1. StepOf(t)
        BY <1>1, <1>a, StepsOf
    <2>2. TypeOK' /\ AttachAlone'
        BY <1>1, <1>a, <2>1, TypeStep, AttachAloneStep
    <2>3. CallsFit'
        <3>1. ASSUME NEW u \in Threads PROVE LoadFits(u)' /\ LoadPoints(u)' /\ UnloadFits(u)'
            BY <1>1, <1>a, <2>1, LoadFitsStep, LoadPointsStep, UnloadFitsStep
        <3> QED BY <3>1 DEF CallsFit
    <2>4. Refs'
        BY <1>a, <2>1, RefsStep DEF Control, StepOf
    <2>5. OneObject'
        BY <1>a, <2>1, OneObjectStep
    <2>6. DomainUnloads' /\ AssemblyUnloads'
        BY <1>a, <2>1, DomainUnloadsStep, AssemblyUnloadsStep
    <2>7. ModuleUnloads'
        BY <1>1, <1>a, <2>1, ModuleUnloadsStep
    <2> QED BY <2>2, <2>3, <2>4, <2>5, <2>6, <2>7 DEF IInv, Refs
<1>2. CASE UNCHANGED vars
    <2>1. /\ UNCHANGED <<life, phase, owner, pc, call, appDomains, domains, assemblies, modules>>
          /\ UNCHANGED <<announced, withdrawn, raced, failed, atAttach, attachTold>>
        BY <1>2 DEF vars, clrVars, objVars, histVars
    <2>2. TypeOK' /\ AttachAlone'
        BY <2>1 DEF IInv, TypeOK, AttachAlone
    <2>3. CallsFit'
        BY <2>1 DEF IInv, CallsFit, LoadFits, LoadPoints, UnloadFits, Loads, LoadsInto, TheDomain
    <2>4. DomainRefs' /\ AssemblyRefs' /\ ModuleRefs' /\ CollectionRefs' /\ OneObject'
        BY <2>1 DEF IInv, DomainRefs, AssemblyRefs, ModuleRefs, CollectionRefs, OneObject, Loads
    <2>5. DomainUnloads' /\ AssemblyUnloads' /\ ModuleUnloads'
        BY <2>1 DEF IInv, DomainUnloads, AssemblyUnloads, ModuleUnloads, Loads, LoadsOf, LoadsInto, TheDomain, TheAssembly
    <2> QED BY <2>2, <2>3, <2>4, <2>5 DEF IInv
<1> QED BY <1>1, <1>2 DEF Next

LEMMA InvHolds == Spec => []IInv
<1>1. Init => IInv
    BY InitInv
<1>2. IInv /\ [Next]_vars => IInv'
    BY NextInv
<1> QED BY <1>1, <1>2, PTL DEF Spec

-----------------------------------------------------------------------------
(* The theorems.                                                             *)

\* The objects, the maps and m_csForAppDomains are as TypeOK says, whatever callbacks interleave.
THEOREM TypesHold == Spec => []TypeOK
<1>1. IInv => TypeOK
    BY DEF IInv
<1> QED BY <1>1, InvHolds, PTL

\* What a map of CAppDomainInfo holds under a key has that key and points back to the CAppDomainInfo.
THEOREM MapsReferBack == Spec => []BackReferences
<1>1. IInv => BackReferences
    BY DEF IInv, DomainRefs, BackReferences
<1> QED BY <1>1, InvHolds, PTL

\* The methods accept the unload of an id once, although the CLR and the shutdown both report it.
THEOREM UnloadsOnce == Spec => []UnloadedOnce
<1>1. ASSUME IInv PROVE UnloadedOnce
    <2>1. withdrawn \in [Ids -> Nat]
        BY <1>1 DEF IInv, TypeOK
    <2>2. ASSUME NEW x \in Ids PROVE withdrawn[x] <= 1
        BY <1>1, <2>1 DEF IInv, DomainUnloads, AssemblyUnloads, ModuleUnloads, Ids
    <2> QED BY <2>2 DEF UnloadedOnce
<1> QED BY <1>1, InvHolds, PTL

\* An unloaded module is in no map and disposed when ModuleUnloadFinished is over.
THEOREM UnloadReleases == Spec => []Released
<1>1. ASSUME IInv, NEW m \in Modules, withdrawn[m] > 0, \A t \in Threads : pc[t] # "cleanup"
      PROVE  /\ \A i \in DOMAIN domains : domains[i].mods[m] = 0
             /\ \A i \in DOMAIN assemblies : assemblies[i].mods[m] = 0
             /\ \A i \in DOMAIN modules : modules[i].id = m => modules[i].disposed
    <2>1. \A i \in DOMAIN modules : modules[i].id = m => LetGo(i, m)
        BY <1>1 DEF IInv, ModuleUnloads, LetGo
    <2>2. ASSUME NEW i \in DOMAIN domains PROVE domains[i].mods[m] = 0
        BY <1>1, <2>1 DEF IInv, DomainRefs, LetGo
    <2>3. ASSUME NEW i \in DOMAIN assemblies PROVE assemblies[i].mods[m] = 0
        BY <1>1, <2>1 DEF IInv, AssemblyRefs, LetGo
    <2> QED BY <2>1, <2>2, <2>3 DEF LetGo
<1>2. IInv => Released
    BY <1>1 DEF Released
<1> QED BY <1>2, InvHolds, PTL

\* After OnAppDomainShutdown the methods hear of no module and no assembly of the appdomain.
THEOREM ShutdownSilences == Spec => SilentAfterShutdown
<1>1. ASSUME IInv, [Next]_vars PROVE [StaysSilent]_vars
    <2>1. CASE UNCHANGED vars
        BY <2>1
    <2>2. ASSUME NEW t \in Threads, Continue(t) \/ CallBack(t), NEW x \in Assemblies \cup Modules,
                 withdrawn'[x] # withdrawn[x]
          PROVE  withdrawn[HomeOf(x)] = 0
        <3>1. Control /\ StepOf(t)
            BY <1>1, <2>2, StepsOf DEF IInv, Control, Refs
        <3>2. TypeOK /\ Refs /\ DomainUnloads /\ x \in Ids /\ HomeOf(x) \in Domains /\ HomeOf(x) \in Ids
            BY <1>1, <2>2, IdsTypes DEF IInv, Refs
        <3>3. CASE x \in Assemblies
            <4>1. PICK r \in AssemblyInfosById(x) : TRUE
                BY <2>2, <3>1, <3>2, <3>3, Counted
            <4>2. appDomains[HomeOf(x)] # 0
                BY <3>2, <3>3, <4>1, FoundAssembly, IdsTypes
            <4> QED BY <3>2, <4>2 DEF DomainUnloads, TypeOK
        <3>4. CASE x \in Modules
            <4>1. PICK r \in ModuleInfosById(x) : TRUE
                BY <2>2, <3>1, <3>2, <3>4, Counted
            <4>2. appDomains[HomeOf(x)] # 0
                BY <3>2, <3>4, <4>1, FoundModule
            <4> QED BY <3>2, <4>2 DEF DomainUnloads, TypeOK
        <3> QED BY <2>2, <3>3, <3>4
    <2>3. Next => StaysSilent
        BY <2>2 DEF Next, StaysSilent
    <2> QED BY <1>1, <2>1, <2>3
<1>2. IInv /\ [Next]_vars => [StaysSilent]_vars
    BY <1>1
<1> QED BY <1>2, InvHolds, PTL DEF Spec, SilentAfterShutdown
-----------------------------------------------------------------------------
(* The invariant of the modules that the methods know of.                    *)

\* The lookup by id finds module m as object r, and its assembly lists it.
ListedAs(m, r) ==
    /\ r \in DOMAIN modules /\ modules[r].id = m /\ modules[r].dom = appDomains[HomeOf(m)]
    /\ domains[modules[r].dom].mods[m] = r /\ assemblies[modules[r].asm].mods[m] = r
Listed(m) == \E r \in DOMAIN modules : ListedAs(m, r)

\* The attach of thread t is past module m.
Enumerates(t, m) == call[t].cb = "attach" /\ m \in atAttach \ call[t].todo /\ ~Loads(t, m)
Enumerated(m) == \E t \in Threads : Enumerates(t, m)

\* As long as nothing raced, a callback that loads a module holds the appdomain of the collection, and the module is
\* in its map before it is in that of the assembly.
LoadsCurrent(t) ==
    LET c == call[t] IN
    pc[t] \in LoadSteps \ {"domain", "newDomain"} /\ c.cb # "assembly" =>
        /\ c.dom = appDomains[TheDomain(t)]
        /\ pc[t] = "addToAssembly" => modules[c.mod].dom = c.dom /\ domains[c.dom].mods[c.id] = c.mod
KnownListed ==
    \A m \in Modules : (Known(m) \/ Enumerated(m)) /\ withdrawn[m] = 0 /\ withdrawn[HomeOf(m)] = 0 => Listed(m)

\* The shutdown of an appdomain that no method has hindered is about the one in the collection, and has still to
\* do what is left in its map.
LeftToUnload(t, m) ==
    \/ pc[t] \in {"cleanup", "shutModules"} /\ m \in call[t].todo
    \/ pc[t] = "cleanup" /\ m = modules[call[t].mod].id
ShutsCurrent(t) ==
    LET c == call[t] IN
    pc[t] \in HeldSteps /\ c.cb = "shutdown" =>
        /\ c.dom = appDomains[c.id]
        /\ ~failed => \A m \in Modules : domains[c.dom].mods[m] # 0 => LeftToUnload(t, m)

Unloaded == ~failed => \A m \in Modules : Known(m) /\ withdrawn[HomeOf(m)] > 0 => withdrawn[m] = 1

TrackInv ==
    ~raced /\ phase # "shutdown" =>
        (\A t \in Threads : LoadsCurrent(t) /\ ShutsCurrent(t)) /\ KnownListed /\ Unloaded

-----------------------------------------------------------------------------
(* What a step does to the collection and to what the methods know.          *)

\* An appdomain in the collection is replaced only with a race, and leaves with its shutdown or with the engine's.
CollectionStep(t) ==
    \A d \in Domains : appDomains'[d] # appDomains[d] =>
        \/ phase' = "shutdown"
        \/ AddsDomain(t) /\ d = TheDomain(t) /\ (appDomains[d] # 0 => raced')
        \/ WithdrawsDomain(t) /\ d = call[t].id

\* A module becomes known, or the attach gets past it, when it is put in the map of its assembly.
LearnStep(t) ==
    /\ \A m \in Modules : (m \in announced' \ announced) \/ (Enumerates(t, m)' /\ ~Enumerates(t, m)) =>
            call[t].id = m /\ ListsModule(t)
    /\ attachTold' # attachTold =>
            call[t].cb = "attach" /\ pc[t] = "attach" /\ \A m \in atAttach \cap Modules : Enumerates(t, m)

\* The histories of races and failures do not forget.
Remembers == (raced => raced') /\ (failed => failed')

LEMMA EndLoadLearns ==
    ASSUME TypeOK, CallsFit, NEW t \in Threads, NEW ok \in BOOLEAN, EndLoad(t, ok), pc[t] \in LoadSteps,
           UNCHANGED <<attachTold, atAttach>>,
           ListsModule(t) \/ call[t].cb = "assembly" \/ ~ok
    PROVE  LearnStep(t)
<1>a. pc \in [Threads -> Labels] /\ call \in [Threads -> Call] /\ call[t] \in Call
    BY TypesOfPointers DEF ThreadTypes
<1>1. ASSUME NEW m \in Modules, m \in announced' \ announced PROVE call[t].id = m /\ ListsModule(t)
    <2>1. ok /\ call[t].cb \in {"assembly", "module"} /\ m = call[t].id
        BY <1>1 DEF EndLoad
    <2>2. call[t].cb # "assembly"
        BY <2>1, IdsTypes DEF CallsFit, LoadFits
    <2> QED BY <2>1, <2>2
<1>2. ASSUME NEW m \in Modules, Enumerates(t, m)', ~Enumerates(t, m) PROVE call[t].id = m /\ ListsModule(t)
    <2>1. call'[t].cb = "attach"
        BY <1>2 DEF Enumerates
    <2>2. call[t].cb = "attach" /\ ok /\ call'[t].todo = call[t].todo
        <3>1. ~Return(t)
            BY <1>a, <2>1 DEF Return, Begin, Goto, NoCall
        <3>2. call[t].cb = "attach" /\ ok /\ Begin(t, "attach", [NoCall EXCEPT !.cb = "attach", !.todo = call[t].todo])
            BY <3>1 DEF EndLoad
        <3>3. call'[t] = [NoCall EXCEPT !.cb = "attach", !.todo = call[t].todo]
            BY <1>a, <3>2 DEF Begin
        <3> QED BY <3>2, <3>3 DEF NoCall
    <2>3. Loads(t, m)
        BY <1>2, <2>2 DEF Enumerates
    <2> QED BY <2>2, <2>3 DEF Loads
<1> QED BY <1>1, <1>2 DEF LearnStep

LEMMA CollectionSteps ==
    ASSUME TypeOK, CallsFit, Refs, NEW t \in Threads, Continue(t) \/ CallBack(t)
    PROVE  CollectionStep(t) /\ Remembers
<1>a. raced \in BOOLEAN /\ failed \in BOOLEAN /\ appDomains \in [Domains -> 0 .. Len(domains)] /\ Outcome \subseteq BOOLEAN
    BY CanFailAssumption DEF TypeOK, Outcome
<1>b. ASSUME UNCHANGED appDomains PROVE CollectionStep(t)
    BY <1>b DEF CollectionStep
<1>c. ASSUME UNCHANGED raced, UNCHANGED failed PROVE Remembers
    BY <1>c DEF Remembers
<1>d. \A ok : Note(ok) => (failed => failed')
    BY DEF Note
<1>e. ASSUME NEW x, NEW ok, Withdraw(x, ok), UNCHANGED raced PROVE Remembers
    BY <1>d, <1>e DEF Withdraw, Remembers
<1>f. ASSUME NEW a, NEW r, NEW ok, SendAssemblyUnloaded(a, r, ok), UNCHANGED raced PROVE Remembers
    BY <1>e, <1>f DEF SendAssemblyUnloaded
<1> SUFFICES CollectionStep(t) /\ Remembers
    OBVIOUS
<1>1. CASE FindAppDomain(t)
    BY <1>1, <1>b, <1>c DEF FindAppDomain, objVars, histVars
<1>2. CASE ConstructAppDomainInfo(t)
    <2>1. AddsDomain(t)
        BY <1>2, AddingAdds
    <2>2. raced' = (raced \/ appDomains[TheDomain(t)] # 0) /\ UNCHANGED failed
        BY <1>2 DEF ConstructAppDomainInfo
    <2>3. TheDomain(t) \in Domains
        BY <1>2, LoadNames DEF ConstructAppDomainInfo, LoadSteps
    <2>4. CollectionStep(t)
        BY <1>a, <2>1, <2>2, <2>3 DEF CollectionStep, AddsDomain
    <2> QED BY <2>2, <2>4 DEF Remembers
<1>3. CASE FindAssembly(t)
    BY <1>3, <1>b, <1>c DEF FindAssembly, objVars
<1>4. CASE ConstructAssemblyInfo(t)
    BY <1>4, <1>b DEF ConstructAssemblyInfo, Remembers
<1>5. CASE ConstructModuleInfo(t)
    BY <1>5, <1>b, <1>c DEF ConstructModuleInfo, histVars
<1>6. ASSUME NEW ok \in Outcome, AddModuleInfo(t, ok) PROVE CollectionStep(t) /\ Remembers
    BY <1>6, <1>b, <1>d DEF AddModuleInfo, Remembers
<1>7. ASSUME NEW ok \in Outcome, RemoveAppDomain(t, ok) PROVE CollectionStep(t) /\ Remembers
    <2>1. CASE ok
        BY <1>7, <2>1, <1>a, <1>d DEF RemoveAppDomain, Withdraw, WithdrawsDomain, CollectionStep, Remembers
    <2>2. CASE ~ok
        BY <1>7, <2>2, <1>a, <1>b, <1>d DEF RemoveAppDomain, Withdraw, Remembers
    <2> QED BY <2>1, <2>2
<1>8. CASE AttachDone(t)
    BY <1>8, <1>b, <1>c DEF AttachDone, objVars
<1>9. ASSUME NEW m \in Modules, AttachNext(t, m) PROVE CollectionStep(t) /\ Remembers
    BY <1>9, <1>b, <1>c DEF AttachNext, objVars, histVars
<1>10. CASE CleanupModule(t)
    BY <1>10, <1>b, <1>c DEF CleanupModule, histVars
<1>11. CASE ModulesDone(t)
    BY <1>11, <1>b, <1>c DEF ModulesDone, objVars, histVars
<1>12. CASE AssembliesDone(t)
    BY <1>12, <1>b, <1>c DEF AssembliesDone, objVars, histVars
<1>13. ASSUME NEW m \in Modules, NEW ok \in Outcome, FabricateModuleUnload(t, m, ok) PROVE CollectionStep(t) /\ Remembers
    <2>1. UNCHANGED appDomains /\ UNCHANGED raced
        BY <1>13 DEF FabricateModuleUnload, objVars
    <2>2. UNCHANGED failed \/ Withdraw(m, TRUE) \/ Withdraw(m, FALSE)
        BY <1>13 DEF FabricateModuleUnload, SendModuleUnloaded
    <2> QED BY <1>b, <1>c, <1>e, <2>1, <2>2
<1>14. ASSUME NEW a \in Assemblies, NEW ok \in Outcome, FabricateAssemblyUnload(t, a, ok) PROVE CollectionStep(t) /\ Remembers
    <2>1. UNCHANGED appDomains /\ UNCHANGED raced
        BY <1>14 DEF FabricateAssemblyUnload
    <2>2. UNCHANGED failed \/ \E r : SendAssemblyUnloaded(a, r, ok)
        BY <1>14 DEF FabricateAssemblyUnload
    <2> QED BY <1>b, <1>c, <1>f, <2>1, <2>2
<1>15. CASE ProfilerAttachComplete(t)
    BY <1>15, <1>b, <1>c DEF ProfilerAttachComplete, objVars, histVars
<1>16. ASSUME NEW d \in Domains, AppDomainCreationStarted(t, d) PROVE CollectionStep(t) /\ Remembers
    BY <1>16, <1>b, <1>c DEF AppDomainCreationStarted, objVars, histVars
<1>17. ASSUME NEW d \in Domains, AppDomainShutdownFinished(t, d) PROVE CollectionStep(t) /\ Remembers
    BY <1>17, <1>b, <1>c DEF AppDomainShutdownFinished, objVars, histVars
<1>18. ASSUME NEW d \in Domains, NEW hrStatus \in BOOLEAN, NEW ok \in Outcome, AppDomainCreationFinished(t, d, hrStatus, ok) PROVE CollectionStep(t) /\ Remembers
    BY <1>18, <1>b, <1>d DEF AppDomainCreationFinished, Remembers
<1>19. ASSUME NEW a \in Assemblies, AssemblyLoadFinished(t, a) PROVE CollectionStep(t) /\ Remembers
    BY <1>19, <1>b, <1>c DEF AssemblyLoadFinished, objVars, histVars
<1>20. ASSUME NEW a \in Assemblies, NEW ok \in Outcome, AssemblyUnloadFinished(t, a, ok) PROVE CollectionStep(t) /\ Remembers
    <2>1. UNCHANGED appDomains /\ UNCHANGED raced
        BY <1>20 DEF AssemblyUnloadFinished
    <2>2. UNCHANGED failed \/ \E r : SendAssemblyUnloaded(a, r, ok)
        BY <1>20 DEF AssemblyUnloadFinished
    <2> QED BY <1>b, <1>c, <1>f, <2>1, <2>2
<1>21. ASSUME NEW m \in Modules, ModuleAttachedToAssembly(t, m) PROVE CollectionStep(t) /\ Remembers
    BY <1>21, <1>b, <1>c DEF ModuleAttachedToAssembly, objVars, histVars
<1>22. ASSUME NEW m \in Modules, NEW ok \in Outcome, ModuleUnloadFinished(t, m, ok) PROVE CollectionStep(t) /\ Remembers
    <2>1. UNCHANGED appDomains /\ UNCHANGED raced
        BY <1>22 DEF ModuleUnloadFinished, objVars
    <2>2. UNCHANGED failed \/ Withdraw(m, TRUE) \/ Withdraw(m, FALSE)
        BY <1>22 DEF ModuleUnloadFinished, SendModuleUnloaded
    <2> QED BY <1>b, <1>c, <1>e, <2>1, <2>2
<1>23. CASE Shutdown(t)
    BY <1>23, <1>c DEF Shutdown, CollectionStep, histVars
<1>24. CASE ModuleInitializeFails(t)
    BY <1>24, <1>b, <1>d DEF ModuleInitializeFails, Remembers, objVars
<1> QED BY <1>1, <1>2, <1>3, <1>4, <1>5, <1>6, <1>7, <1>8, <1>9, <1>10, <1>11, <1>12, <1>13, <1>14, <1>15, <1>16, <1>17, <1>18, <1>19, <1>20, <1>21, <1>22, <1>23, <1>24 DEF Continue, CallBack

LEMMA LearnSteps ==
    ASSUME TypeOK, CallsFit, NEW t \in Threads, Continue(t) \/ CallBack(t), RestStep(t)
    PROVE  LearnStep(t)
<1>a. pc \in [Threads -> Labels] /\ call \in [Threads -> Call] /\ call[t] \in Call /\ Outcome \subseteq BOOLEAN
    BY TypesOfPointers, CanFailAssumption DEF ThreadTypes, Outcome
<1>b. LoadFits(t) /\ UnloadFits(t)
    BY DEF CallsFit
<1>c. ASSUME NEW label, NEW c, Begin(t, label, c) PROVE pc'[t] = label /\ call'[t] = c
    BY <1>a, <1>c DEF Begin, Goto
\* Nothing is announced, and the thread is not in the attach.
<1>d. ASSUME announced' \cap Modules \subseteq announced, UNCHANGED attachTold, call'[t].cb # "attach" PROVE LearnStep(t)
    BY <1>d DEF LearnStep, Enumerates
<1>e. ASSUME announced' \cap Modules \subseteq announced, UNCHANGED attachTold, Return(t) PROVE LearnStep(t)
    BY <1>c, <1>d, <1>e DEF Return, NoCall
\* The load goes on.
<1>f. ASSUME UNCHANGED <<announced, attachTold, atAttach>>, pc'[t] \in LoadSteps, pc[t] \in LoadSteps,
             call'[t].id = call[t].id, call'[t].cb = call[t].cb, call'[t].todo = call[t].todo
      PROVE  LearnStep(t)
    BY <1>f DEF LearnStep, Enumerates, Loads
<1>g. ASSUME NEW label, NEW n,
             \/ Begin(t, label, [call[t] EXCEPT !.dom = n]) \/ Begin(t, label, [call[t] EXCEPT !.asm = n])
             \/ Begin(t, label, [call[t] EXCEPT !.mod = n])
      PROVE  /\ call'[t].id = call[t].id /\ call'[t].cb = call[t].cb /\ call'[t].todo = call[t].todo
             /\ pc'[t] = label
    BY <1>a, <1>g DEF Begin, Goto, Call
<1>h. pc[t] \in HeldSteps => call[t].cb # "attach"
    BY <1>b DEF UnloadFits
<1>i. ASSUME UNCHANGED <<announced, attachTold>>, pc'[t] \in HeldSteps PROVE LearnStep(t)
    BY <1>d, <1>i DEF RestStep, LoadSteps, HeldSteps
<1>j. ASSUME UNCHANGED <<announced, attachTold, atAttach, pc, call>> PROVE LearnStep(t)
    BY <1>j DEF LearnStep, Enumerates, Loads
<1>k. ASSUME NEW r, AfterAssembly(t, r), pc[t] \in {"assembly", "newAssembly"}, UNCHANGED <<attachTold, atAttach>> PROVE LearnStep(t)
    <2>1. CASE call[t].cb = "assembly"
        BY <1>k, <2>1, EndLoadLearns DEF AfterAssembly, LoadSteps
    <2>2. CASE call[t].cb # "assembly"
        BY <1>k, <2>2, <1>f, <1>g DEF AfterAssembly, LoadSteps
    <2> QED BY <2>1, <2>2
<1> SUFFICES LearnStep(t)
    OBVIOUS
<1>1. CASE FindAppDomain(t)
    <2>1. UNCHANGED <<announced, attachTold, atAttach>> /\ pc[t] = "domain"
        BY <1>1 DEF FindAppDomain, histVars
    <2>2. CASE Goto(t, "newDomain") /\ UNCHANGED call
        BY <2>1, <2>2, <1>a, <1>f DEF Goto, LoadSteps
    <2>3. CASE AfterDomain(t, appDomains[TheDomain(t)])
        BY <2>1, <2>3, <1>e, <1>f, <1>g DEF AfterDomain, LoadSteps
    <2> QED BY <1>1, <2>2, <2>3 DEF FindAppDomain
<1>2. CASE ConstructAppDomainInfo(t)
    BY <1>2, <1>e, <1>f, <1>g DEF ConstructAppDomainInfo, AfterDomain, LoadSteps
<1>3. CASE FindAssembly(t)
    <2>1. CASE Goto(t, "newAssembly") /\ UNCHANGED call /\ UNCHANGED announced
        BY <1>3, <2>1, <1>a, <1>f DEF FindAssembly, Goto, LoadSteps
    <2> QED BY <1>3, <2>1, <1>k DEF FindAssembly
<1>4. CASE ConstructAssemblyInfo(t)
    BY <1>4, <1>k, EndLoadLearns DEF ConstructAssemblyInfo, LoadSteps
<1>5. CASE ConstructModuleInfo(t)
    BY <1>5, <1>f, <1>g DEF ConstructModuleInfo, histVars, LoadSteps
<1>6. ASSUME NEW ok \in Outcome, AddModuleInfo(t, ok) PROVE LearnStep(t)
    BY <1>6, <1>a, EndLoadLearns, ListingLists DEF AddModuleInfo, LoadSteps
<1>7. ASSUME NEW ok \in Outcome, RemoveAppDomain(t, ok) PROVE LearnStep(t)
    BY <1>7, <1>e DEF RemoveAppDomain
<1>8. CASE AttachDone(t)
    <2>1. \A m \in atAttach \cap Modules : Enumerates(t, m)
        BY <1>8, <1>b DEF AttachDone, LoadFits, Enumerates, Loads, LoadSteps
    <2>2. call'[t].cb # "attach" /\ UNCHANGED announced /\ pc[t] = "attach" /\ call[t].cb = "attach"
        BY <1>8, <1>b, <1>c DEF AttachDone, Return, NoCall, LoadFits
    <2> QED BY <2>1, <2>2 DEF LearnStep, Enumerates
<1>9. ASSUME NEW m \in Modules, AttachNext(t, m) PROVE LearnStep(t)
    <2>1. UNCHANGED <<announced, attachTold, atAttach>> /\ pc[t] = "attach"
        BY <1>9 DEF AttachNext, histVars
    <2>2. CASE Begin(t, "domain", [call[t] EXCEPT !.id = m, !.todo = @ \ {m}])
        <3>1. /\ pc'[t] = "domain" /\ call'[t].id = m /\ call'[t].todo = call[t].todo \ {m}
              /\ call'[t].cb = call[t].cb
            BY <2>2, <1>a DEF Begin, Goto, Call
        <3>2. ASSUME NEW n \in Modules, Enumerates(t, n)' PROVE Enumerates(t, n)
            BY <2>1, <3>1, <3>2 DEF Enumerates, Loads, LoadSteps
        <3> QED BY <2>1, <3>2 DEF LearnStep
    <2> QED BY <1>9, <1>e, <2>1, <2>2 DEF AttachNext
<1>10. CASE CleanupModule(t)
    <2>1. UNCHANGED <<announced, attachTold>>
        BY <1>10 DEF CleanupModule, histVars
    <2>2. CASE Begin(t, "shutModules", [call[t] EXCEPT !.mod = 0])
        BY <2>1, <2>2, <1>g, <1>i DEF HeldSteps
    <2> QED BY <1>10, <1>e, <2>1, <2>2 DEF CleanupModule
<1>11. CASE ModulesDone(t)
    BY <1>11, <1>c, <1>i DEF ModulesDone, BeginAssemblies, histVars, HeldSteps
<1>12. CASE AssembliesDone(t)
    BY <1>12, <1>c, <1>i DEF AssembliesDone, histVars, HeldSteps
<1>13. ASSUME NEW m \in Modules, NEW ok \in Outcome, FabricateModuleUnload(t, m, ok) PROVE LearnStep(t)
    BY <1>13, <1>c, <1>i DEF FabricateModuleUnload, SendModuleUnloaded, BeginAssemblies, HeldSteps
<1>14. ASSUME NEW a \in Assemblies, NEW ok \in Outcome, FabricateAssemblyUnload(t, a, ok) PROVE LearnStep(t)
    BY <1>14, <1>c, <1>i DEF FabricateAssemblyUnload, HeldSteps
<1>15. CASE ProfilerAttachComplete(t)
    <2>1. call'[t] = [NoCall EXCEPT !.cb = "attach", !.todo = atAttach \cap Modules]
        BY <1>15, <1>c DEF ProfilerAttachComplete
    <2>2. call'[t].todo = atAttach \cap Modules /\ UNCHANGED <<announced, attachTold, atAttach>>
        BY <1>15, <2>1 DEF ProfilerAttachComplete, histVars, NoCall
    <2> QED BY <2>2 DEF LearnStep, Enumerates
<1>16. ASSUME NEW d \in Domains, AppDomainCreationStarted(t, d) PROVE LearnStep(t)
    <2>1. UNCHANGED <<announced, attachTold, atAttach>>
        BY <1>16 DEF AppDomainCreationStarted, histVars
    <2>2. call'[t] = [NoCall EXCEPT !.cb = "domain", !.id = d]
        BY <1>16, <1>c DEF AppDomainCreationStarted
    <2>3. call'[t].cb = "domain"
        BY <2>2 DEF NoCall
    <2> QED BY <1>d, <2>1, <2>3
<1>17. ASSUME NEW d \in Domains, AppDomainShutdownFinished(t, d) PROVE LearnStep(t)
    <2>1. UNCHANGED <<announced, attachTold, atAttach>>
        BY <1>17 DEF AppDomainShutdownFinished, histVars
    <2> QED BY <1>17, <2>1, <1>c, <1>i, <1>j DEF AppDomainShutdownFinished, HeldSteps
<1>18. ASSUME NEW d \in Domains, NEW hrStatus \in BOOLEAN, NEW ok \in Outcome, AppDomainCreationFinished(t, d, hrStatus, ok) PROVE LearnStep(t)
    <2>1. announced' \cap Modules \subseteq announced /\ UNCHANGED <<attachTold, atAttach, pc, call>>
        BY <1>18, IdsTypes DEF AppDomainCreationFinished
    <2> QED BY <2>1 DEF LearnStep, Enumerates, Loads
<1>19. ASSUME NEW a \in Assemblies, AssemblyLoadFinished(t, a) PROVE LearnStep(t)
    <2>1. UNCHANGED <<announced, attachTold, atAttach>>
        BY <1>19 DEF AssemblyLoadFinished, histVars
    <2>2. call'[t] = [NoCall EXCEPT !.cb = "assembly", !.id = a]
        BY <1>19, <1>c DEF AssemblyLoadFinished
    <2>3. call'[t].cb = "assembly"
        BY <2>2 DEF NoCall
    <2> QED BY <1>d, <2>1, <2>3
<1>20. ASSUME NEW a \in Assemblies, NEW ok \in Outcome, AssemblyUnloadFinished(t, a, ok) PROVE LearnStep(t)
    BY <1>20, <1>j DEF AssemblyUnloadFinished
<1>21. ASSUME NEW m \in Modules, ModuleAttachedToAssembly(t, m) PROVE LearnStep(t)
    <2>1. UNCHANGED <<announced, attachTold, atAttach>>
        BY <1>21 DEF ModuleAttachedToAssembly, histVars
    <2>2. CASE UNCHANGED <<pc, call>>
        BY <1>j, <2>1, <2>2
    <2>3. CASE Begin(t, "domain", [NoCall EXCEPT !.cb = "module", !.id = m])
        <3>1. call'[t] = [NoCall EXCEPT !.cb = "module", !.id = m]
            BY <1>c, <2>3
        <3>2. call'[t].cb = "module"
            BY <3>1 DEF NoCall
        <3> QED BY <1>d, <2>1, <3>2
    <2> QED BY <1>21, <2>2, <2>3 DEF ModuleAttachedToAssembly
<1>22. ASSUME NEW m \in Modules, NEW ok \in Outcome, ModuleUnloadFinished(t, m, ok) PROVE LearnStep(t)
    BY <1>22, <1>c, <1>i, <1>j DEF ModuleUnloadFinished, SendModuleUnloaded, HeldSteps
<1>23. CASE Shutdown(t)
    BY <1>23, <1>j DEF Shutdown, histVars
<1>24. CASE ModuleInitializeFails(t)
    BY <1>24, <1>a, EndLoadLearns DEF ModuleInitializeFails, LoadSteps
<1> QED BY <1>1, <1>2, <1>3, <1>4, <1>5, <1>6, <1>7, <1>8, <1>9, <1>10, <1>11, <1>12, <1>13, <1>14, <1>15, <1>16, <1>17, <1>18, <1>19, <1>20, <1>21, <1>22, <1>23, <1>24 DEF Continue, CallBack

-----------------------------------------------------------------------------
(* What the maps hold of a module stays until its unload is accepted.        *)

\* What a step finds and leaves, with the invariant on both sides.
Tracks(t) ==
    /\ IInv /\ IInv' /\ StepOf(t) /\ CollectionStep(t) /\ LearnStep(t) /\ Remembers
    /\ TrackInv /\ ~raced' /\ phase' # "shutdown"

LEMMA TracksParts ==
    ASSUME NEW t \in Threads, Tracks(t)
    PROVE  /\ Control /\ TypeOK /\ CallsFit /\ Refs /\ OneObject /\ AttachAlone
           /\ DomainUnloads /\ ModuleUnloads /\ ModuleUnloads'
           /\ Apart(t) /\ ObjectStep(t) /\ ObjectsStay
           /\ ~raced /\ phase # "shutdown" /\ (\A u \in Threads : LoadsCurrent(u) /\ ShutsCurrent(u))
           /\ KnownListed /\ Unloaded
           /\ withdrawn \in [Ids -> Nat] /\ withdrawn' \in [Ids -> Nat]
<1>1. /\ Control /\ TypeOK /\ CallsFit /\ Refs /\ OneObject /\ AttachAlone
      /\ DomainUnloads /\ ModuleUnloads /\ ModuleUnloads' /\ TypeOK'
    BY DEF Tracks, IInv, Control, Refs
<1>2. ~raced /\ Apart(t) /\ ObjectStep(t) /\ ObjectsStay
    BY DEF Tracks, Remembers, StepOf
<1>3. phase # "shutdown"
    <2>1. phase' # phase => phase = "running" \/ call[t].cb = "attach"
        BY DEF Tracks, StepOf, PhaseStep
    <2>2. call[t].cb = "attach" => phase = "attaching"
        BY <1>1 DEF AttachAlone
    <2> QED BY <2>1, <2>2 DEF Tracks
<1>4. withdrawn \in [Ids -> Nat] /\ withdrawn' \in [Ids -> Nat]
    BY <1>1 DEF TypeOK
<1> QED BY <1>1, <1>2, <1>3, <1>4 DEF Tracks, TrackInv

\* An appdomain of the collection stays there until its shutdown is accepted.
LEMMA CollectionStays ==
    ASSUME NEW t \in Threads, Tracks(t), NEW d \in Domains, appDomains[d] # 0, withdrawn'[d] = 0
    PROVE  appDomains'[d] = appDomains[d]
<1>1. SUFFICES ASSUME appDomains'[d] # appDomains[d] PROVE FALSE
    OBVIOUS
<1>2. WithdrawsDomain(t) /\ d = call[t].id
    BY <1>1 DEF Tracks, CollectionStep
<1>3. withdrawn'[d] = withdrawn[d] + 1 /\ withdrawn[d] \in Nat
    BY <1>2, TracksParts, IdsTypes DEF WithdrawsDomain
<1> QED BY <1>3

\* Appdomains that something is loaded into, or that are being shut down, are not withdrawn by another thread.
LEMMA LoadedIntoStays ==
    ASSUME NEW t \in Threads, Tracks(t), NEW u \in Threads, NEW d \in Domains, LoadsInto(u, d)
    PROVE  withdrawn'[d] = 0
<1>1. Control /\ DomainUnloads /\ withdrawn \in [Ids -> Nat] /\ StepOf(t) /\ d \in Ids
    BY TracksParts, IdsTypes DEF Tracks
<1>2. withdrawn[d] = 0
    BY <1>1 DEF DomainUnloads
<1>3. ASSUME withdrawn'[d] # withdrawn[d] PROVE FALSE
    <2>1. WithdrawsDomain(t) /\ call[t].id = d
        BY <1>1, <1>3, Counted
    <2>2. pc[t] \in HeldSteps /\ call[t].cb = "shutdown"
        BY <1>1, <2>1 DEF WithdrawsDomain, HeldSteps, Control, CallsFit, UnloadFits
    <2> QED BY <1>1, <2>1, <2>2, LeavesWith DEF ShutsDown
<1> QED BY <1>2, <1>3

\* The entry of a module in the map of an appdomain, and in that of an assembly.
LEMMA EntryStays ==
    ASSUME NEW t \in Threads, Tracks(t), NEW m \in Modules, withdrawn[m] = 0, NEW i \in DOMAIN domains,
           ~(AddsModule(t) /\ call[t].id = m)
    PROVE  domains'[i].mods[m] = domains[i].mods[m]
<1>1. CallsFit /\ ObjectStep(t)
    BY TracksParts
<1>2. CleansUp(t) => modules[call[t].mod].id # m
    BY <1>1, Pointers DEF CleansUp
<1>3. CASE CleansUp(t)
    BY <1>2, <1>3 DEF CleansUp, SetMod
<1>4. CASE AddsModule(t)
    BY <1>4 DEF AddsModule, SetMod
<1> QED BY <1>1, <1>3, <1>4 DEF ObjectStep, Keeps, DomainsKept, AddsDomain, NewDomain, AddsAssembly, SetAsm,
        ListsModule, TakesAssembly, DropsDomains
LEMMA AssemblyEntryStays ==
    ASSUME NEW t \in Threads, Tracks(t), NEW m \in Modules, withdrawn[m] = 0, NEW i \in DOMAIN assemblies,
           ~(ListsModule(t) /\ call[t].id = m)
    PROVE  assemblies'[i].mods[m] = assemblies[i].mods[m]
<1>1. CallsFit /\ ObjectStep(t)
    BY TracksParts
<1>2. CleansUp(t) => modules[call[t].mod].id # m
    BY <1>1, Pointers DEF CleansUp
<1>3. CASE CleansUp(t)
    BY <1>2, <1>3 DEF CleansUp, SetAssemblyMod
<1>4. CASE ListsModule(t)
    BY <1>4 DEF ListsModule, SetAssemblyMod
<1> QED BY <1>1, <1>3, <1>4 DEF ObjectStep, Keeps, AddsDomain, AddsAssembly, NewAssembly, AddsModule, TakesAssembly, DropsDomains

\* A module that is listed stays listed until its unload, or that of its appdomain, is accepted.
LEMMA ListedStays ==
    ASSUME NEW t \in Threads, Tracks(t), NEW m \in Modules, withdrawn[m] = 0, withdrawn'[HomeOf(m)] = 0, Listed(m)
    PROVE  Listed(m)'
<1>a. TypeOK /\ CallsFit /\ Refs /\ OneObject /\ ObjectsStay /\ HomeOf(m) \in Domains
    BY TracksParts, IdsTypes
<1>1. PICK r \in DOMAIN modules : ListedAs(m, r)
    BY DEF Listed
<1>2. modules[r].dom \in DOMAIN domains /\ modules[r].asm \in DOMAIN assemblies /\ modules[r].dom # 0
    <2>1. modules[r].dom \in DOMAIN domains /\ modules[r].asm \in DOMAIN assemblies
        BY <1>a DEF Refs, ModuleRefs
    <2>2. DOMAIN domains = 1 .. Len(domains) /\ Len(domains) \in Nat
        BY <1>a DEF TypeOK
    <2> QED BY <2>1, <2>2
<1>3. appDomains'[HomeOf(m)] = appDomains[HomeOf(m)]
    BY <1>1, <1>2, <1>a, CollectionStays DEF ListedAs
<1>4. ~(AddsModule(t) /\ call[t].id = m)
    <2>1. AddsModule(t) => pc[t] \in LoadSteps /\ pc[t] # "addToAssembly"
        BY DEF AddsModule, LoadSteps
    <2> QED BY <1>1, <1>a, <2>1 DEF OneObject, ListedAs, Loads
<1>5. domains'[modules[r].dom].mods[m] = r
    BY <1>1, <1>2, <1>4, EntryStays DEF ListedAs
<1>6. assemblies'[modules[r].asm].mods[m] = r
    <2>1. CASE ListsModule(t) /\ call[t].id = m
        <3>1. call[t].mod = r
            BY <1>1, <1>a, <2>1, Pointers DEF ListsModule, OneObject, ListedAs
        <3> QED BY <1>1, <1>2, <2>1, <3>1 DEF ListsModule, SetAssemblyMod, ListedAs
    <2>2. CASE ~(ListsModule(t) /\ call[t].id = m)
        BY <1>1, <1>2, <2>2, AssemblyEntryStays DEF ListedAs
    <2> QED BY <2>1, <2>2
<1>7. /\ r \in DOMAIN modules' /\ modules'[r].id = m /\ modules'[r].dom = modules[r].dom
      /\ modules'[r].asm = modules[r].asm /\ modules[r].dom = appDomains[HomeOf(m)]
    BY <1>1, <1>a DEF ObjectsStay, ListedAs
<1>8. ListedAs(m, r)'
    BY <1>3, <1>5, <1>6, <1>7 DEF ListedAs, HomeOf
<1> QED BY <1>7, <1>8 DEF Listed

-----------------------------------------------------------------------------
(* The tracking invariant.                                                   *)

LEMMA LoadsCurrentStep ==
    ASSUME NEW t \in Threads, Continue(t) \/ CallBack(t), Tracks(t), NEW u \in Threads
    PROVE  LoadsCurrent(u)'
<1> DEFINE c == call'[u]
<1> SUFFICES ASSUME pc'[u] \in LoadSteps \ {"domain", "newDomain"}, c.cb # "assembly"
             PROVE  /\ c.dom = appDomains'[HomeOf(c.id)]
                    /\ pc'[u] = "addToAssembly" => modules'[c.mod].dom = c.dom /\ domains'[c.dom].mods[c.id] = c.mod
    BY DEF LoadsCurrent, TheDomain
<1>a. /\ TypeOK /\ CallsFit /\ Refs /\ Apart(t) /\ ObjectsStay /\ StepOf(t) /\ LoadsCurrent(u) /\ ModuleUnloads
      /\ withdrawn \in [Ids -> Nat] /\ Control
    BY TracksParts DEF Tracks
<1>b. pc \in [Threads -> Labels] /\ call \in [Threads -> Call] /\ call[u] \in Call
    BY <1>a, TypesOfPointers DEF ThreadTypes
\* The pointer to the appdomain that the callback has already.
<1>c. ASSUME pc[u] \in LoadSteps \ {"domain", "newDomain"}, call[u].id = c.id, call[u].cb = c.cb
      PROVE  /\ call[u].dom = appDomains[HomeOf(c.id)] /\ appDomains'[HomeOf(c.id)] = appDomains[HomeOf(c.id)]
             /\ call[u].dom \in DOMAIN domains
    <2>1. call[u].dom = appDomains[HomeOf(c.id)] /\ call[u].dom \in DOMAIN domains
        BY <1>a, <1>c DEF LoadsCurrent, CallsFit, LoadPoints, TheDomain
    <2>2. appDomains[HomeOf(c.id)] # 0
        BY <1>a, <2>1 DEF TypeOK
    <2>3. TheDomain(u) \in Domains /\ LoadsInto(u, TheDomain(u)) /\ TheDomain(u) = HomeOf(c.id)
        BY <1>a, <1>c, LoadNames DEF LoadsInto, TheDomain
    <2>4. withdrawn'[HomeOf(c.id)] = 0
        BY <2>3, LoadedIntoStays
    <2> QED BY <2>1, <2>2, <2>3, <2>4, CollectionStays
<1>1. CASE u # t
    <2>1. pc'[u] = pc[u] /\ c = call[u] /\ pc[u] # "idle"
        BY <1>1, <1>a DEF Apart, LoadSteps
    <2>2. ASSUME pc[u] = "addToAssembly" PROVE modules'[c.mod].dom = c.dom /\ domains'[c.dom].mods[c.id] = c.mod
        <3>1. /\ modules[c.mod].dom = c.dom /\ domains[c.dom].mods[c.id] = c.mod /\ c.mod \in DOMAIN modules
              /\ c.id \in Modules /\ c.dom \in DOMAIN domains
            BY <1>a, <2>1, <2>2, Pointers DEF LoadsCurrent, LoadSteps
        <3>2. Loads(u, c.id) /\ withdrawn[c.id] = 0
            BY <1>a, <2>1, <2>2, <3>1, IdsTypes DEF Loads, LoadSteps, ModuleUnloads
        <3>3. ~(AddsModule(t) /\ call[t].id = c.id)
            BY <1>1, <1>a, <2>1, <3>2 DEF AddsModule, LoadSteps, CallsFit, LoadFits, Loads
        <3> QED BY <1>a, <3>1, <3>2, <3>3, EntryStays DEF ObjectsStay
    <2> QED BY <1>c, <2>1, <2>2
<1>2. CASE u = t
    <2>1. GoesOn(t)
        BY <1>2, <1>a DEF StepOf, LoadsStep, Begins, BeginsFor, LoadSteps
    <2>2. pc[t] \in LoadSteps /\ c.id = call[t].id /\ c.cb = call[t].cb
        BY <1>2, <2>1 DEF GoesOn
    <2>3. TheDomain(t) \in Domains /\ TheDomain(t) = HomeOf(c.id)
        BY <1>a, <1>2, <2>2, LoadNames DEF TheDomain
    <2> HIDE DEF c
    <2>4. CASE FindAppDomain(t)
        BY <1>2, <1>b, <2>3, <2>4 DEF FindAppDomain, AfterDomain, Return, Begin, Goto, Call, LoadSteps, objVars, c
    <2>5. CASE ConstructAppDomainInfo(t)
        <3>1. pc'[t] = "assembly" /\ c.dom = Len(domains) + 1
            BY <1>2, <1>b, <2>5 DEF ConstructAppDomainInfo, AfterDomain, Return, Begin, Goto, Call, LoadSteps, c
        <3>2. appDomains'[TheDomain(t)] = Len(domains) + 1
            BY <1>a, <2>3, <2>5 DEF ConstructAppDomainInfo, TypeOK
        <3> QED BY <1>2, <2>3, <3>1, <3>2
    <2>6. CASE FindAssembly(t) \/ ConstructAssemblyInfo(t)
        <3>1. pc[t] \in LoadSteps \ {"domain", "newDomain"}
            BY <2>6 DEF FindAssembly, ConstructAssemblyInfo, LoadSteps
        <3>2. ASSUME NEW r, Begin(t, "addModule", [call[t] EXCEPT !.asm = r]) PROVE c.dom = call[t].dom /\ pc'[t] = "addModule"
            BY <1>2, <1>b, <3>2 DEF Begin, Goto, Call, c
        <3>3. ~\E ok : EndLoad(t, ok)
            BY <1>2, <1>b DEF EndLoad, Return, Begin, Goto, LoadSteps
        <3>4. ASSUME NEW r, AfterAssembly(t, r) PROVE c.dom = call[t].dom /\ pc'[t] = "addModule"
            BY <3>2, <3>3, <3>4 DEF AfterAssembly
        <3>5. CASE Goto(t, "newAssembly") /\ UNCHANGED call
            BY <1>2, <1>b, <1>c, <2>2, <3>1, <3>5 DEF Goto, c
        <3>6. CASE \E r : AfterAssembly(t, r)
            BY <1>2, <1>c, <2>2, <3>1, <3>4, <3>6
        <3>7. FindAssembly(t) => (Goto(t, "newAssembly") /\ UNCHANGED call) \/ \E r : AfterAssembly(t, r)
            BY DEF FindAssembly
        <3>8. ConstructAssemblyInfo(t) => \E r : AfterAssembly(t, r)
            BY <3>3 DEF ConstructAssemblyInfo
        <3> QED BY <2>6, <3>5, <3>6, <3>7, <3>8
    <2>7. CASE ConstructModuleInfo(t)
        <3>0. pc[t] = "addModule" /\ pc[t] \in LoadSteps \ {"domain", "newDomain"}
            BY <2>7 DEF ConstructModuleInfo, LoadSteps
        <3>1. c.dom = call[t].dom /\ c.mod = Len(modules) + 1
            BY <1>2, <1>b, <2>7 DEF ConstructModuleInfo, Begin, Goto, Call, c
        <3>2. call[t].id \in Modules /\ call[t].dom \in Nat /\ call[t].asm \in Nat /\ call[t].dom \in DOMAIN domains
            BY <1>2, <1>a, <1>b, <3>0, Pointers DEF Call
        <3>3. NewModule(call[t].id, call[t].dom, call[t].asm)
            BY <1>a, <2>7, <3>2, Constructions, TypesOfPointers DEF ConstructModuleInfo
        <3>4. SetMod(call[t].dom, call[t].id, Len(modules) + 1)
            <4>1. ObjectTypes /\ Len(modules) + 1 \in Nat
                BY <1>a, <3>3, TypesOfPointers DEF NewModule
            <4>2. domains' = [domains EXCEPT ![call[t].dom].mods[call[t].id] = Len(modules) + 1]
                BY <2>7 DEF ConstructModuleInfo
            <4> QED BY <3>2, <4>1, <4>2, DomainUpdates
        <3> QED BY <1>2, <1>c, <2>2, <3>0, <3>1, <3>2, <3>3, <3>4 DEF NewModule, SetMod
    <2>11. ~ModuleInitializeFails(t)
        BY <1>2, <1>b DEF ModuleInitializeFails, EndLoad, Return, Begin, Goto, LoadSteps
    <2>8. ASSUME NEW ok \in Outcome, AddModuleInfo(t, ok) PROVE FALSE
        BY <1>2, <1>b, <2>8 DEF AddModuleInfo, EndLoad, Return, Begin, Goto, LoadSteps
    <2>9. CASE ProfilerAttachComplete(t)
        BY <2>2, <2>9 DEF ProfilerAttachComplete, LoadSteps
    <2> QED BY <2>2, <2>4, <2>5, <2>6, <2>7, <2>8, <2>9, <2>11, LoadingSteps DEF c
<1> QED BY <1>1, <1>2


LEMMA KnownListedStep ==
    ASSUME NEW t \in Threads, Tracks(t) PROVE KnownListed'
<1> SUFFICES ASSUME NEW m \in Modules, Known(m)' \/ Enumerated(m)', withdrawn'[m] = 0, withdrawn'[HomeOf(m)] = 0
             PROVE  Listed(m)'
    BY DEF KnownListed, HomeOf
<1>a. /\ Control /\ TypeOK /\ CallsFit /\ Refs /\ Apart(t) /\ ObjectsStay /\ StepOf(t) /\ LoadsCurrent(t) /\ KnownListed
      /\ withdrawn \in [Ids -> Nat] /\ m \in Ids /\ HomeOf(m) \in Domains /\ HomeOf(m) \in Ids /\ LearnStep(t)
    BY TracksParts, IdsTypes DEF Tracks
<1>b. withdrawn[m] = 0 /\ withdrawn[HomeOf(m)] = 0
    <2>1. \A x \in Ids : withdrawn'[x] # withdrawn[x] => withdrawn'[x] = withdrawn[x] + 1
        BY <1>a, Counted
    <2> QED BY <1>a, <2>1
<1>1. CASE Known(m) \/ Enumerated(m)
    BY <1>1, <1>a, <1>b, ListedStays DEF KnownListed
<1>2. CASE ~Known(m) /\ ~Enumerated(m)
    <2>1. atAttach' = atAttach
        BY <1>a DEF StepOf, PhaseStep
    <2>2. ~(attachTold' # attachTold /\ m \in atAttach)
        BY <1>2, <1>a DEF LearnStep, Enumerated
    <2>3. Enumerated(m)' => Enumerates(t, m)'
        BY <1>2, <1>a, <2>1 DEF Enumerated, Enumerates, Apart, Loads
    <2>4. m \in announced' \ announced \/ (Enumerates(t, m)' /\ ~Enumerates(t, m))
        BY <1>2, <2>1, <2>2, <2>3 DEF Known, Enumerated
    <2>5. call[t].id = m /\ ListsModule(t)
        BY <1>a, <2>4 DEF LearnStep
    <2>r. PICK r : r = call[t].mod
        OBVIOUS
    <2>6. pc[t] = "addToAssembly" /\ pc[t] \in LoadSteps \ {"domain", "newDomain"} /\ call[t].cb # "assembly"
        BY <1>a, <2>5, IdsTypes DEF ListsModule, LoadSteps, CallsFit, LoadFits
    <2>7. /\ r \in DOMAIN modules /\ modules[r].id = m /\ modules[r].asm = call[t].asm
          /\ call[t].asm \in DOMAIN assemblies
        BY <1>a, <2>5, <2>6, <2>r, Pointers
    <2>8. modules[r].dom = appDomains[HomeOf(m)] /\ domains[modules[r].dom].mods[m] = r
        BY <1>a, <2>5, <2>6, <2>r DEF LoadsCurrent, TheDomain
    <2>9. assemblies'[modules[r].asm].mods[m] = r
        BY <2>5, <2>7, <2>r DEF ListsModule, SetAssemblyMod
    <2>10. ListedAs(m, r)'
        BY <2>5, <2>7, <2>8, <2>9 DEF ListsModule, ListedAs, HomeOf
    <2> QED BY <2>5, <2>7, <2>10 DEF Listed, ListsModule
<1> QED BY <1>1, <1>2

\* Nothing is added to the map of an appdomain that is shut down.
LEMMA OnlyErased ==
    ASSUME NEW t \in Threads, Tracks(t), NEW u \in Threads, pc[u] \in HeldSteps, call[u].cb = "shutdown",
           NEW m \in Modules, domains'[call[u].dom].mods[m] # 0
    PROVE  domains[call[u].dom].mods[m] # 0
<1>1. Control /\ ObjectStep(t) /\ CallsFit
    BY TracksParts
<1>2. ShutsDown(call[u])
    BY <1>1, LeavesWith
<1>3. ~(AddsModule(t) /\ call[t].dom = call[u].dom)
    <2>1. SUFFICES ASSUME AddsModule(t), call[t].dom = call[u].dom PROVE FALSE
        OBVIOUS
    <2>2. HomeOf(call[t].id) = call[u].id /\ pc[t] \in LoadSteps
        BY <1>1, <1>2, <2>1, Pointers DEF AddsModule, ShutsDown, LoadSteps
    <2> QED BY <1>2, <2>2 DEF ShutsDown, LoadsInto, TheDomain
<1>4. CASE AddsModule(t)
    BY <1>2, <1>3, <1>4 DEF AddsModule, SetMod, ShutsDown
<1>5. CASE CleansUp(t)
    BY <1>2, <1>5 DEF CleansUp, SetMod, ShutsDown
<1> QED BY <1>1, <1>2, <1>4, <1>5 DEF ShutsDown, ObjectStep, Keeps, DomainsKept, AddsDomain, NewDomain, AddsAssembly, SetAsm,
        ListsModule, TakesAssembly, DropsDomains

LEMMA ShutsCurrentStep ==
    ASSUME NEW t \in Threads, Continue(t) \/ CallBack(t), Tracks(t), NEW u \in Threads
    PROVE  ShutsCurrent(u)'
<1> DEFINE c == call'[u]
<1> SUFFICES ASSUME pc'[u] \in HeldSteps, c.cb = "shutdown"
             PROVE  /\ c.dom = appDomains'[c.id]
                    /\ ~failed' => \A m \in Modules : domains'[c.dom].mods[m] # 0 => LeftToUnload(u, m)'
    BY DEF ShutsCurrent
<1>a. /\ Control /\ TypeOK /\ CallsFit /\ Refs /\ Apart(t) /\ ObjectsStay /\ StepOf(t) /\ ShutsCurrent(u) /\ OneObject
      /\ withdrawn \in [Ids -> Nat] /\ (failed => failed')
    BY TracksParts DEF Tracks, Remembers
<1>b. pc \in [Threads -> Labels] /\ call \in [Threads -> Call] /\ call[u] \in Call /\ pc' \in [Threads -> Labels]
    BY <1>a, TypesOfPointers DEF ThreadTypes, Apart
\* A shutdown that goes on is still about the appdomain of the collection.
<1>c. ASSUME pc[u] \in HeldSteps, call[u].cb = "shutdown", c.dom = call[u].dom, c.id = call[u].id
      PROVE  /\ c.dom = appDomains'[c.id] /\ c.dom = appDomains[c.id] /\ c.dom \in DOMAIN domains /\ c.dom # 0
             /\ domains[c.dom].id = c.id /\ c.id \in Domains
    <2>1. ShutsDown(call[u]) /\ ShutsDown(call[u])'
        <3>1. UnloadFits(u)'
            BY DEF Tracks, IInv, CallsFit
        <3>2. ShutsDown(call[u])'
            BY <3>1 DEF UnloadFits, ShutsDown
        <3> QED BY <1>a, <1>c, <3>2, LeavesWith
    <2>2. /\ c.dom = appDomains[c.id] /\ c.dom \in DOMAIN domains /\ domains[c.dom].id = c.id
          /\ c.id \in Domains /\ withdrawn'[c.id] = 0
        BY <1>a, <1>c, <2>1 DEF ShutsCurrent, ShutsDown
    <2>3. c.dom # 0
        BY <1>a, <2>2 DEF TypeOK
    <2> QED BY <2>2, <2>3, CollectionStays
<1>1. CASE u # t
    <2>1. pc'[u] = pc[u] /\ c = call[u]
        BY <1>1, <1>a DEF Apart
    <2>2. ASSUME ~failed', NEW m \in Modules, domains'[c.dom].mods[m] # 0 PROVE LeftToUnload(u, m)'
        <3>1. LeftToUnload(u, m)
            BY <1>a, <2>1, <2>2, OnlyErased DEF ShutsCurrent
        <3>2. pc[u] = "cleanup" => modules'[call[u].mod].id = modules[call[u].mod].id
            BY <1>a, Pointers DEF ObjectsStay
        <3> QED BY <2>1, <3>1, <3>2 DEF LeftToUnload
    <2> QED BY <1>c, <2>1, <2>2
<1>2. CASE u = t
    <2> HIDE DEF c
    <2>1. CASE CleanupModule(t)
        <3>1. pc[t] = "cleanup" /\ pc[t] \in HeldSteps /\ ~Return(t)
            BY <1>2, <1>b, <2>1 DEF CleanupModule, Return, Begin, Goto, HeldSteps
        <3>2. Begin(t, "shutModules", [call[t] EXCEPT !.mod = 0]) /\ call[t].cb = "shutdown"
            BY <2>1, <3>1 DEF CleanupModule
        <3>3. pc'[t] = "shutModules" /\ c.dom = call[t].dom /\ c.id = call[t].id /\ c.todo = call[t].todo
            BY <1>2, <1>b, <3>2 DEF Begin, Goto, Call, c
        <3>4. CleansUp(t)
            BY <1>a, <2>1, CleanupCleans
        <3>5. ASSUME ~failed', NEW m \in Modules, domains'[c.dom].mods[m] # 0 PROVE LeftToUnload(t, m)'
            <4>1. domains[c.dom].mods[m] # 0
                BY <1>2, <3>1, <3>2, <3>3, <3>5, OnlyErased
            <4>2. LeftToUnload(t, m)
                BY <1>2, <1>a, <3>1, <3>2, <3>3, <3>5, <4>1 DEF ShutsCurrent
            <4>3. m # modules[call[t].mod].id
                <5>1. SUFFICES ASSUME m = modules[call[t].mod].id PROVE FALSE
                    OBVIOUS
                <5> DEFINE q == domains[c.dom].mods[m]
                <5>2. c.dom \in DOMAIN domains
                    BY <1>2, <1>c, <3>1, <3>2, <3>3
                <5>3. q \in DOMAIN modules /\ modules[q].id = m /\ modules[q].dom = c.dom
                    BY <1>a, <4>1, <5>2 DEF Refs, DomainRefs
                <5>4. q = call[t].mod
                    BY <1>a, <3>1, <5>1, <5>3, Pointers DEF OneObject
                <5> QED BY <3>4, <3>5, <5>1, <5>2, <5>3, <5>4 DEF CleansUp, SetMod
            <4> QED BY <1>2, <3>3, <4>2, <4>3 DEF LeftToUnload, c
        <3> QED BY <1>2, <1>c, <3>1, <3>2, <3>3, <3>5
    \* From the modules to the assemblies, and from these to the appdomain.
    <2>2. ASSUME pc[t] \in HeldSteps \ {"cleanup"}, pc'[t] \in {"shutAssemblies", "shutDomain"},
                 c.dom = call[t].dom, c.id = call[t].id, c.cb = call[t].cb,
                 ~failed' => (pc[t] = "shutModules" => call[t].todo = {})
          PROVE  /\ c.dom = appDomains'[c.id]
                 /\ ~failed' => \A m \in Modules : domains'[c.dom].mods[m] # 0 => LeftToUnload(u, m)'
        <3>1. call[u].cb = "shutdown" /\ pc[u] \in HeldSteps
            BY <1>2, <2>2 DEF c
        <3>2. ASSUME ~failed', NEW m \in Modules, domains'[c.dom].mods[m] # 0 PROVE FALSE
            <4>1. LeftToUnload(u, m)
                BY <1>2, <1>a, <2>2, <3>1, <3>2, OnlyErased DEF ShutsCurrent
            <4> QED BY <1>2, <2>2, <3>2, <4>1 DEF LeftToUnload
        <3> QED BY <1>2, <1>c, <2>2, <3>1, <3>2
    <2>3. ASSUME NEW label, NEW s, Begin(t, label, [call[t] EXCEPT !.todo = s])
          PROVE  /\ pc'[t] = label /\ c.dom = call[t].dom /\ c.id = call[t].id /\ c.cb = call[t].cb
                 /\ c.todo = s /\ c.mod = call[t].mod
        BY <1>2, <1>b, <2>3 DEF Begin, Goto, Call, c
    <2>4. CASE ModulesDone(t)
        BY <2>2, <2>3, <2>4 DEF ModulesDone, BeginAssemblies, HeldSteps
    <2>5. CASE AssembliesDone(t)
        <3>1. pc[t] = "shutAssemblies" /\ pc'[t] = "shutDomain" /\ c = call[t]
            BY <1>2, <1>b, <2>5 DEF AssembliesDone, Begin, Goto, c
        <3> QED BY <2>2, <3>1 DEF HeldSteps
    <2>6. ASSUME NEW m \in Modules, NEW ok \in Outcome, FabricateModuleUnload(t, m, ok)
          PROVE  /\ c.dom = appDomains'[c.id]
                 /\ ~failed' => \A n \in Modules : domains'[c.dom].mods[n] # 0 => LeftToUnload(u, n)'
        <3>0. pc[t] = "shutModules" /\ pc[t] \in HeldSteps /\ call[t].cb = "shutdown" /\ UNCHANGED objVars
            BY <1>a, <2>6 DEF FabricateModuleUnload, HeldSteps, CallsFit, UnloadFits
        <3>1. CASE ModuleInfosById(m) = {} /\ Begin(t, "shutModules", [call[t] EXCEPT !.todo = @ \ {m}])
            <4>1. /\ pc'[t] = "shutModules" /\ c.dom = call[t].dom /\ c.id = call[t].id
                  /\ c.todo = call[t].todo \ {m}
                BY <2>3, <3>1
            <4>2. c.dom = appDomains[c.id] /\ c.dom # 0 /\ c.id \in Domains /\ c.dom = appDomains'[c.id]
                BY <1>2, <1>c, <3>0, <4>1
            <4>3. domains[c.dom].mods[m] = 0
                BY <3>1, <4>2 DEF ModuleInfosById
            <4>4. ASSUME ~failed', NEW n \in Modules, domains'[c.dom].mods[n] # 0 PROVE LeftToUnload(t, n)'
                <5>1. domains[c.dom].mods[n] # 0 /\ n # m
                    BY <3>0, <4>3, <4>4 DEF objVars
                <5>2. LeftToUnload(t, n)
                    BY <1>2, <1>a, <3>0, <4>1, <4>4, <5>1 DEF ShutsCurrent
                <5> QED BY <1>2, <3>0, <4>1, <5>1, <5>2 DEF LeftToUnload, c
            <4> QED BY <1>2, <4>2, <4>4
        <3>2. ASSUME NEW r \in ModuleInfosById(m), SendModuleUnloaded(t, m, r, [call[t] EXCEPT !.todo = @ \ {m}])
              PROVE  /\ c.dom = appDomains'[c.id]
                     /\ ~failed' => \A n \in Modules : domains'[c.dom].mods[n] # 0 => LeftToUnload(u, n)'
            <4>1. /\ pc'[t] = "cleanup" /\ c.dom = call[t].dom /\ c.id = call[t].id
                  /\ c.todo = call[t].todo \ {m} /\ c.mod = r
                BY <1>2, <1>b, <3>2 DEF SendModuleUnloaded, Begin, Goto, Call, c
            <4>2. c.dom = appDomains'[c.id]
                BY <1>2, <1>c, <3>0, <4>1
            <4>3. modules'[r].id = m
                BY <1>a, <3>0, <3>2, FoundModule DEF objVars
            <4>4. ASSUME ~failed', NEW n \in Modules, domains'[c.dom].mods[n] # 0 PROVE LeftToUnload(t, n)'
                <5>1. LeftToUnload(t, n)
                    BY <1>2, <1>a, <3>0, <4>1, <4>4 DEF ShutsCurrent, objVars
                <5> QED BY <1>2, <3>0, <4>1, <4>3, <5>1 DEF LeftToUnload, c
            <4> QED BY <1>2, <4>2, <4>4
        <3>3. CASE Withdraw(m, FALSE) /\ BeginAssemblies(t, call[t])
            <4>1. failed'
                BY <3>3 DEF Withdraw, Note
            <4> QED BY <2>2, <2>3, <3>0, <3>3, <4>1 DEF BeginAssemblies, HeldSteps
        <3> QED BY <2>6, <3>1, <3>2, <3>3 DEF FabricateModuleUnload
    <2>7. ASSUME NEW a \in Assemblies, NEW ok \in Outcome, FabricateAssemblyUnload(t, a, ok)
          PROVE  /\ c.dom = appDomains'[c.id]
                 /\ ~failed' => \A n \in Modules : domains'[c.dom].mods[n] # 0 => LeftToUnload(u, n)'
        <3>1. pc[t] = "shutAssemblies"
            BY <2>7 DEF FabricateAssemblyUnload
        <3>2. \/ Begin(t, "shutAssemblies", [call[t] EXCEPT !.todo = @ \ {a}])
              \/ Begin(t, "shutDomain", [call[t] EXCEPT !.todo = {}])
            BY <2>7 DEF FabricateAssemblyUnload
        <3>3. /\ pc'[t] \in {"shutAssemblies", "shutDomain"} /\ c.dom = call[t].dom /\ c.id = call[t].id
              /\ c.cb = call[t].cb
            BY <2>3, <3>2
        <3> QED BY <2>2, <3>1, <3>3 DEF HeldSteps
    <2>8. ASSUME NEW d \in Domains, AppDomainShutdownFinished(t, d)
          PROVE  /\ c.dom = appDomains'[c.id]
                 /\ ~failed' => \A n \in Modules : domains'[c.dom].mods[n] # 0 => LeftToUnload(u, n)'
        <3> DEFINE s == {m \in Modules : domains[appDomains[d]].mods[m] # 0}
        <3>1. pc[t] = "idle" /\ UNCHANGED objVars
            BY <2>8 DEF AppDomainShutdownFinished, CanBegin
        <3>2. Begin(t, "shutModules", [NoCall EXCEPT !.cb = "shutdown", !.id = d, !.dom = appDomains[d], !.todo = s])
            BY <1>2, <2>8, <3>1 DEF AppDomainShutdownFinished, HeldSteps
        <3>3. /\ pc'[t] = "shutModules"
              /\ c = [NoCall EXCEPT !.cb = "shutdown", !.id = d, !.dom = appDomains[d], !.todo = s]
            BY <1>2, <1>b, <3>2 DEF Begin, Goto, c
        <3>4. c.dom = appDomains[d] /\ c.id = d /\ c.todo = s
            BY <3>3 DEF NoCall
        <3> QED BY <1>2, <3>1, <3>3, <3>4 DEF LeftToUnload, objVars, c
    <2>9. ASSUME NEW m \in Modules, NEW ok \in Outcome, ModuleUnloadFinished(t, m, ok) PROVE FALSE
        <3>1. pc[t] = "idle"
            BY <2>9 DEF ModuleUnloadFinished, CanBegin
        <3>2. PICK r \in ModuleInfosById(m) : SendModuleUnloaded(t, m, r, [NoCall EXCEPT !.cb = "unload", !.id = m])
            BY <1>2, <2>9, <3>1 DEF ModuleUnloadFinished, HeldSteps
        <3>3. c = [[NoCall EXCEPT !.cb = "unload", !.id = m] EXCEPT !.mod = r]
            BY <1>2, <1>b, <3>2 DEF SendModuleUnloaded, Begin, c
        <3>4. c.cb = "unload"
            BY <3>3 DEF NoCall
        <3> QED BY <3>4 DEF c
    <2> QED BY <1>2, <1>a, <2>1, <2>4, <2>5, <2>6, <2>7, <2>8, <2>9, UnloadingSteps DEF c
<1> QED BY <1>1, <1>2

LEMMA UnloadedStep ==
    ASSUME NEW t \in Threads, Tracks(t) PROVE Unloaded'
<1> SUFFICES ASSUME ~failed', NEW m \in Modules, Known(m)', withdrawn'[HomeOf(m)] > 0 PROVE withdrawn'[m] = 1
    BY DEF Unloaded, HomeOf
<1>a. /\ Control /\ TypeOK /\ CallsFit /\ Refs /\ StepOf(t) /\ ShutsCurrent(t) /\ KnownListed /\ Unloaded /\ DomainUnloads
      /\ ModuleUnloads' /\ AttachAlone /\ withdrawn \in [Ids -> Nat] /\ withdrawn' \in [Ids -> Nat] /\ ~failed
      /\ LearnStep(t)
    BY TracksParts DEF Tracks, Remembers
<1>b. m \in Ids /\ HomeOf(m) \in Domains /\ HomeOf(m) \in Ids /\ atAttach' = atAttach
    BY <1>a, IdsTypes DEF StepOf, PhaseStep
<1>c. withdrawn'[m] > 0 => withdrawn'[m] = 1
    BY <1>a DEF ModuleUnloads
<1>d. withdrawn'[m] # withdrawn[m] => withdrawn'[m] = withdrawn[m] + 1
    BY <1>a, <1>b, Counted
<1>1. CASE withdrawn[HomeOf(m)] > 0
    <2>1. ~(call[t].id = m /\ ListsModule(t))
        BY <1>1, <1>a, <1>b DEF DomainUnloads, LoadsInto, TheDomain, ListsModule, LoadSteps
    <2>2. attachTold' = attachTold
        BY <1>1, <1>a, <1>b DEF LearnStep, AttachAlone
    <2>3. Known(m)
        BY <1>a, <1>b, <2>1, <2>2 DEF Known, LearnStep
    <2>4. withdrawn[m] = 1
        BY <1>1, <1>a, <2>3 DEF Unloaded
    <2> QED BY <1>a, <1>c, <1>d, <2>4
<1>2. CASE withdrawn[HomeOf(m)] = 0
    <2>1. WithdrawsDomain(t) /\ call[t].id = HomeOf(m)
        BY <1>2, <1>a, <1>b, Counted
    <2>2. pc[t] = "shutDomain" /\ pc[t] \in HeldSteps /\ call[t].cb = "shutdown"
        BY <1>a, <2>1 DEF WithdrawsDomain, HeldSteps, CallsFit, UnloadFits
    <2>3. Known(m)
        BY <1>a, <1>b, <2>2 DEF Known, LearnStep, ListsModule
    <2>4. call[t].dom = appDomains[HomeOf(m)] /\ \A n \in Modules : domains[call[t].dom].mods[n] = 0
        BY <1>a, <2>1, <2>2 DEF ShutsCurrent, LeftToUnload
    <2>5. ~Listed(m)
        <3>1. 0 \notin DOMAIN modules
            BY <1>a DEF TypeOK
        <3> QED BY <2>4, <3>1 DEF Listed, ListedAs
    <2>6. withdrawn[m] # 0
        BY <1>2, <1>a, <2>3, <2>5 DEF KnownListed
    <2> QED BY <1>a, <1>b, <1>c, <1>d, <2>6
<1> QED BY <1>1, <1>2, <1>a, <1>b

LEMMA InitTracked == Init => TrackInv
<1> SUFFICES ASSUME Init PROVE TrackInv
    OBVIOUS
<1>1. \A t \in Threads : pc[t] = "idle" /\ call[t] = NoCall
    BY DEF Init
<1>2. \A t \in Threads : LoadsCurrent(t) /\ ShutsCurrent(t)
    BY <1>1 DEF LoadsCurrent, ShutsCurrent, LoadSteps, HeldSteps
<1>3. \A t \in Threads, m \in Modules : ~Enumerates(t, m)
    BY <1>1 DEF Enumerates, NoCall
<1>4. \A m \in Modules : ~Known(m) /\ ~Enumerated(m)
    BY <1>3 DEF Known, Enumerated, Init
<1> QED BY <1>2, <1>4 DEF TrackInv, KnownListed, Unloaded

LEMMA NextTracked == IInv /\ IInv' /\ TrackInv /\ [Next]_vars => TrackInv'
<1> SUFFICES ASSUME IInv, IInv', TrackInv, [Next]_vars PROVE TrackInv'
    OBVIOUS
<1>1. ASSUME NEW t \in Threads, Continue(t) \/ CallBack(t) PROVE TrackInv'
    <2>1. SUFFICES ASSUME ~raced', phase' # "shutdown"
                   PROVE  (\A u \in Threads : LoadsCurrent(u)' /\ ShutsCurrent(u)') /\ KnownListed' /\ Unloaded'
        BY DEF TrackInv
    <2>2. Control /\ TypeOK /\ CallsFit /\ Refs
        BY DEF IInv, Control, Refs
    <2>3. StepOf(t)
        BY <1>1, <2>2, StepsOf
    <2>4. CollectionStep(t) /\ Remembers
        BY <1>1, <2>2, CollectionSteps
    <2>5. LearnStep(t)
        BY <1>1, <2>2, <2>3, LearnSteps DEF StepOf
    <2>6. Tracks(t)
        BY <2>1, <2>3, <2>4, <2>5 DEF Tracks
    <2> QED BY <1>1, <2>6, LoadsCurrentStep, ShutsCurrentStep, KnownListedStep, UnloadedStep
<1>2. CASE UNCHANGED vars
    <2>1. /\ UNCHANGED <<life, phase, owner, pc, call, appDomains, domains, assemblies, modules>>
          /\ UNCHANGED <<announced, withdrawn, raced, failed, atAttach, attachTold>>
        BY <1>2 DEF vars, clrVars, objVars, histVars
    <2>2. ASSUME ~raced', phase' # "shutdown"
          PROVE  (\A u \in Threads : LoadsCurrent(u)' /\ ShutsCurrent(u)') /\ KnownListed' /\ Unloaded'
        <3>1. \A u \in Threads : LoadsCurrent(u) /\ ShutsCurrent(u)
            BY <2>1, <2>2 DEF TrackInv
        <3>2. \A u \in Threads : LoadsCurrent(u)' /\ ShutsCurrent(u)'
            BY <2>1, <3>1 DEF LoadsCurrent, ShutsCurrent, LeftToUnload, TheDomain
        <3>3. KnownListed /\ Unloaded
            BY <2>1, <2>2 DEF TrackInv
        <3>4. KnownListed'
            BY <2>1, <3>3 DEF KnownListed, Known, Enumerated, Enumerates, Loads, Listed, ListedAs
        <3>5. Unloaded'
            BY <2>1, <3>3 DEF Unloaded, Known
        <3> QED BY <3>2, <3>4, <3>5
    <2> QED BY <2>2 DEF TrackInv
<1> QED BY <1>1, <1>2 DEF Next

LEMMA TrackHolds == Spec => [](IInv /\ TrackInv)
<1>1. Init => TrackInv
    BY InitTracked
<1>2. IInv /\ IInv' /\ TrackInv /\ [Next]_vars => TrackInv'
    BY NextTracked
<1> QED BY <1>1, <1>2, InvHolds, PTL DEF Spec

\* As long as no two loads race to construct one object, the lookup by id finds a module from the event that announces
\* it to the one that withdraws it, as one object, and CAssemblyInfo lists it.
THEOREM LoadedIsTracked == Spec => []Tracked
<1>1. ASSUME IInv, TrackInv PROVE Tracked
    <2> SUFFICES ASSUME ~raced, NEW m \in Modules, phase = "running", Known(m), withdrawn[m] = 0, withdrawn[HomeOf(m)] = 0
                 PROVE  LookupSucceeds(m)
        BY DEF Tracked, TrackedWhileLoaded
    <2>1. Listed(m)
        BY <1>1 DEF TrackInv, KnownListed
    <2>2. PICK r \in DOMAIN modules : ListedAs(m, r)
        BY <2>1 DEF Listed
    <2>3. TypeOK /\ Refs /\ OneObject /\ HomeOf(m) \in Domains
        BY <1>1, IdsTypes DEF IInv, Refs
    <2>4. r # 0 /\ appDomains[HomeOf(m)] # 0
        <3>1. modules[r].dom \in DOMAIN domains
            BY <2>3 DEF Refs, ModuleRefs
        <3>2. 0 \notin DOMAIN modules /\ 0 \notin DOMAIN domains
            BY <2>3 DEF TypeOK
        <3> QED BY <2>2, <3>1, <3>2 DEF ListedAs
    <2>5. r \in ModuleInfosById(m)
        BY <2>2, <2>3, <2>4 DEF ListedAs, ModuleInfosById
    <2>6. \A q \in ModuleInfosById(m) : q = r
        BY <2>2, <2>3, FoundModule DEF OneObject, ListedAs
    <2> QED BY <2>2, <2>5, <2>6 DEF LookupSucceeds, ListedAs
<1>2. IInv /\ TrackInv => Tracked
    BY <1>1
<1> QED BY <1>2, TrackHolds, PTL

\* When the methods accept OnAppDomainShutdown they have accepted the unload of each module of it that they knew of,
\* unless one of them failed or two loads raced.
THEOREM UnloadsComeFirst == Spec => []UnloadsBeforeShutdown
<1>1. IInv /\ TrackInv => UnloadsBeforeShutdown
    BY DEF TrackInv, Unloaded, UnloadsBeforeShutdown
<1> QED BY <1>1, TrackHolds, PTL
=============================================================================
