SPECIFICATION Spec
CONSTANTS
    Addr <- MCAddr
    Program <- MCProgram
    NR_BP = 3
    Expr = {x}
    Value = {0, 1}
    NULL = NULL
    MaxInstr = 2
    Duplicates = FALSE
INVARIANTS
    TypeOK
    PoolPartition
    PatchIntegrity
    WatchedChangePauses
PROPERTIES
    DisarmedOnlyByHit
    TrapLostOnlyToWatch
CHECK_DEADLOCK FALSE
