SPECIFICATION Spec
CONSTANTS
    n1 = n1
    n2 = n2
    p1 = p1
    p2 = p2
    t1 = t1
    t2 = t2
    t3 = t3
    Names = {n1, n2}
    Pods = {p1, p2}
    Tasks = {t1, t2, t3}
    PodOf <- TwoAndOne
    Width = 2
    MaxTries = 3
    DisableIPGeneration = FALSE
    OldStores <- GapStores
    MaxFailures = 1
    MaxRestarts = 1
INVARIANTS
    StoreConsistent
    GrantsAreFinal
    NeverInvalid
PROPERTY
    ImplementsBook
SYMMETRY Symmetry
