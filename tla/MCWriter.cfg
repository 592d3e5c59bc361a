SPECIFICATION FairSpec
CONSTANTS
    e1 = e1
    e2 = e2
    e3 = e3
    w1 = w1
    Endpoints = {e1, e2, e3}
    Unlocated = {e3}
    Dummy = dummy
    Workers = {w1, w2}
    NumRetries = 2
    Settings <- SomeSettings
INVARIANTS
    SettledAgrees
PROPERTIES
    CustomSurvives
    Converges
CHECK_DEADLOCK FALSE
