SPECIFICATION FairSpec
CONSTANTS
    d1 = d1
    a1 = a1
    a2 = a2
    m1 = m1
    m2 = m2
    m3 = m3
    Domains = {d1}
    Assemblies = {a1, a2}
    Modules = {m1, m2, m3}
    DomainOf <- MCDomainOf
    AssemblyOf <- MCAssemblyOf
    Manifest = {m1}
    ResourceOnly = {m3}
    Processes <- MCProcesses
    Threads = {T1, T2}
    NoThread = NoThread
    CanFail = TRUE
INVARIANTS
    BackReferences
    UnloadedOnce
    Released
    Tracked
    UnloadsBeforeShutdown
PROPERTIES
    SilentAfterShutdown
    DomainReleased
CHECK_DEADLOCK FALSE
