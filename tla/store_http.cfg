SPECIFICATION Spec
CONSTANTS
    k1 = k1
    k2 = k2
    Keys <- MCKeys
    Producer = "http"
    ConfiguredExpiry = 4
    PollPeriod = 6
    JanitorInterval = 6
    TicksPerSecond = 2
    FetchTime = 1
    StoreTime = 1
    JanitorTime = 1
    MayMiss = FALSE
    MaxTime = 40
INVARIANTS
    StaleBounded
PROPERTIES
    NoGaps
CHECK_DEADLOCK FALSE
