SPECIFICATION Spec
CONSTANTS
    Versions <- MCVersions
    MaxObjects = 1
    Null = Null
INVARIANTS
    LoadsLatest
CHECK_DEADLOCK FALSE
