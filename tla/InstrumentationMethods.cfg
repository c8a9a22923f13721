SPECIFICATION FairSpec
CONSTANTS
    a = a
    b = b
    c = c
    g1 = g1
    g2 = g2
    Methods <- MCMethods
    Guids <- MCGuids
    ClassId <- MCClassId
    Priority <- MCPriority
    Config <- MCConfig
    Loader = L
    Threads = {L, T}
    NoThread = NoThread
    Flags = {imm}
    Immutable = {imm}
    DefaultMask = {}
    HighFlags = {}
    HighImmutable = {}
    HasInfo5 = TRUE
    Hooks = {raw}
    NoHook = NoHook
    Host = Host
INVARIANTS
    TypeOK
    PriorityOrder
    OwnFlags
    SubscriptionsKept
PROPERTIES
    LoaderFinishes
CHECK_DEADLOCK FALSE
