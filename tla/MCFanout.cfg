SPECIFICATION FairSpec
CONSTANTS
    a = a
    b = b
    policy = policy
    bad = bad
    Entries = {a, b, policy, bad}
    NoHosts = {bad}
    NumSeDrs <- Lengths
    Calls <- SomeCalls
    Clusters = {c1, c2}
    Workers = {w1, w2}
    Outcomes = {"written", "failed", "skipped", "unread", "unknown", "unaddressed"}
INVARIANTS
    NothingLeftBehind
    ErrorsReported
PROPERTIES
    Finishes
CHECK_DEADLOCK FALSE
