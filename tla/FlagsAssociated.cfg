SPECIFICATION Spec
CONSTANTS
    a = a
    b = b
    c = c
    g1 = g1
    g2 = g2
    Methods <- MCMethods
    Guids <- MCGuids
    ClassId <- MCClassId
    Priority <- MCPriority
    Config <- MCConfig
    Loader = L
    Threads = {L, T}
    NoThread = NoThread
    Flags = {mut, imm}
    Immutable = {imm}
    DefaultMask = {}
    HighFlags = {}
    HighImmutable = {}
    HasInfo5 = TRUE
    Hooks = {}
    NoHook = NoHook
    Host = Host
INVARIANT
    FlagsAssociated
CHECK_DEADLOCK FALSE
