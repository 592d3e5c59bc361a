SPECIFICATION FairSpec
CONSTANTS
    Clusters = {"west", "east"}
    Names = {"p", "q"}
    Region <- TwoRegions
    PreventSplitBrain = TRUE
    MaxRetries = 2
    Prefixes = {"default", "canary"}
    VersionLess <- DecimalLess
    FirstVersion = 8
    NoPolicy = NoPolicy
    Kinds = {"gtp", "od", "ccc"}
    Places <- SomePlaces
    Designs <- SomeDesigns
    Budgets <- SomeBudgets
INVARIANTS
    NoCrossing
    SettledUsesBest
PROPERTIES
    ChangesTakeEffect
CHECK_DEADLOCK FALSE
