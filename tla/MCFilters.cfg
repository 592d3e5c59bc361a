SPECIFICATION Spec
CONSTANTS
    c1 = c1
    c2 = c2
    k1 = k1
    k2 = k2
    Names = {n1, n2}
    Plugins = {p1, p2}
    Clients = {c1, c2}
    Clusters = {k1, k2}
    Enabled = {k1, k2}
    Versions = {v1, v2}
    MaxRetries = 1
    Absent = Absent
    Worlds <- SomeWorlds
    Budgets <- SomeBudgets
SYMMETRY Alike
INVARIANTS
    FiltersAreKnown
    SettledFollows
CHECK_DEADLOCK FALSE
