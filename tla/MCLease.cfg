SPECIFICATION FairSpec
CONSTANTS
    Pods = {p1, p2}
    SkipPod = skip
    NoOwner = none
    Wait = 5
    Threshold = 2
    Warmup = 3
    InitTimeout = 4
    MaxPause = 1
    MaxCrashes = 1
    MaxFailures = 1
    MaxParks = 1
INVARIANTS
    WritersConfirmed
    NoWriterInWarmup
    OverlapIsShort
PROPERTY
    OneWriterEventually
    SkipMeansPassive
