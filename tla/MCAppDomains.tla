---------------------------- MODULE MCAppDomains ----------------------------
(* Instances of AppDomains: assembly a1 has the modules m1, with its manifest, *)
(* and m2; assembly a2 has m3.                                                *)
EXTENDS AppDomains, TLC

CONSTANTS d1, a1, a2, m1, m2, m3

MCDomainOf == a1 :> d1 @@ a2 :> d1
MCAssemblyOf == m1 :> a1 @@ m2 :> a1 @@ m3 :> a2

\* The engine starts with the process, and one assembly is loaded; or it attaches
\* when that assembly is there, and the other one is loaded later or was there too.
Started == [before |-> {}, later |-> {d1, a1, m1, m2}]
Attached == [before |-> {d1, a1, m1, m2}, later |-> {a2, m3}]
AttachedToAll == [before |-> Ids, later |-> {}]
MCProcesses == {Started, Attached, AttachedToAll}

\* Two assemblies of one appdomain, each with a module.
TwoAssemblies == {[before |-> {}, later |-> {d1, a1, a2, m1, m3}]}
=============================================================================
