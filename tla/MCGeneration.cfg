CONSTANTS
    c1 = c1
    c2 = c2
    Clusters = {c1, c2}
    Clients = {c2}
    MixedIngress = {}
    MaxRetries = 1
    Offered = {"bluegreen"}
    Scenarios <- SomeScenarios
SPECIFICATION Spec
INVARIANTS
    RunRepairs
    EntriesFollow
CHECK_DEADLOCK FALSE
