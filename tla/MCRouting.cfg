SPECIFICATION Spec
CONSTANTS
    ActivePassive = TRUE
    PerformRollback = TRUE
    Elsewhere <- Pinned
    Works <- SomeWorks
    Policies <- SomePolicies
    Starts <- SomeStarts
INVARIANTS
    ExportedIsBacked
    SharesHonoured
    PassiveForwards
    HiddenWhenDisabled
CHECK_DEADLOCK FALSE
