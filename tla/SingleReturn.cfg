SPECIFICATION Spec
CONSTANTS
    Shapes <- MCShapes
    MaxDepth = 2
    MaxApplied = 2
    Types = {"value", "other"}
    MaxLocals = 3
    Garbled = Garbled
    Null = Null
INVARIANTS
    StackFits
    EveryReturnSeen
    IndexesNameLocals
PROPERTIES
    ImplementsOriginal
CHECK_DEADLOCK FALSE
