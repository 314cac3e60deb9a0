SPECIFICATION Spec
CONSTANTS
    k1 = k1
    k2 = k2
    Keys <- MCKeys
    Producer = "prometheus"
    ConfiguredExpiry = 6
    PollPeriod = 6
    JanitorInterval = 6
    TicksPerSecond = 2
    FetchTime = 0
    StoreTime = 0
    JanitorTime = 0
    MayMiss = FALSE
    MaxTime = 40
PROPERTIES
    NoGaps
CHECK_DEADLOCK FALSE
