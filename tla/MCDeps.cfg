SPECIFICATION FairSpec
CONSTANTS
    Clients = {"s"}
    Servers = {"d", "e"}
    Clusters = {"west", "east"}
    ClientInitiated = TRUE
    DependencyProcessing = TRUE
    NamedAfterSource = FALSE
    MaxRetries = 2
    Absent = Absent
    Worlds <- SomeWorlds
    Requests <- AnyRequest
    Budgets <- SomeBudgets
INVARIANTS
    SettledCovered
    OnlyWhereNeeded
PROPERTIES
    EventuallyCovered
CHECK_DEADLOCK FALSE
