SPECIFICATION Spec
CONSTANTS
    jmp = jmp
    swi = swi
    tryEnd = tryEnd
    hnd = hnd
    baseJmp = baseJmp
    baseRet = baseRet
    ins = ins
    insJmp = insJmp
    Null = Null
    Original <- MCOriginal
    BaselineCode <- MCBaseline
    New <- MCNew
    Branches <- MCBranches
    Switches <- MCSwitches
    DecodedTargets <- MCTargets
    PlainSize <- MCSizes
    DecodedClauses <- MCClauses
    MaxClauses = 3
    MaxEdits = 3
INVARIANTS
    WellLinked
    BranchesTracked
    ClausesInGraph
    ClauseOrder
    OffsetsFresh
    InsertedGoesWithNext
CHECK_DEADLOCK FALSE
