SPECIFICATION FairSpec
CONSTANTS
    Names = {d1}
    Workers = {w1, w2}
    VersionLess <- DecimalLess
    FirstVersion = 7
    MaxRetries = 2
    Budgets <- AllBudgets
    MaxQueue = 2
INVARIANTS
    SettledAgrees
    DeletionIsFinal
    InProgressIsCarried
PROPERTIES
    CacheNeverRegresses
    Converges
CHECK_DEADLOCK FALSE
