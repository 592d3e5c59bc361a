SPECIFICATION FairSpec
CONSTANTS
    Secrets = {"s1", "s2"}
    Clusters = {"a", "b"}
    Hosts = {"h1", "h2"}
    Unusable = "unusable"
    None = None
    Contents <- SomeContents
    Budgets <- SomeBudgets
INVARIANTS
    OneWatch
    SlowLeak
PROPERTY
    RegistryFollows
CHECK_DEADLOCK FALSE
