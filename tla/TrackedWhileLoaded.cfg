SPECIFICATION Spec
CONSTANTS
    d1 = d1
    a1 = a1
    a2 = a2
    m1 = m1
    m2 = m2
    m3 = m3
    Domains = {d1}
    Assemblies = {a1, a2}
    Modules = {m1, m2, m3}
    DomainOf <- MCDomainOf
    AssemblyOf <- MCAssemblyOf
    Manifest = {m1}
    ResourceOnly = {}
    Processes <- TwoAssemblies
    Threads = {T1, T2}
    NoThread = NoThread
    CanFail = FALSE
INVARIANTS
    TrackedWhileLoaded
CHECK_DEADLOCK FALSE
