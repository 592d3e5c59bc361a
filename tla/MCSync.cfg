SPECIFICATION FairSpec
CONSTANTS
    c1 = c1
    c2 = c2
    Clusters = {c1, c2}
    Sources = {c1, c2}
    Kinds = {"VS", "DR"}
    InitialDeps <- Deps
    InitialRegs <- Regs
    NumRetries = 2
    MaxRetries = 1
    Budgets <- Disturbances
    MaxQueue = 1
INVARIANTS
    ProcessedMeansCopied
    NoOrphans
PROPERTIES
    CopiesConverge
CHECK_DEADLOCK FALSE
