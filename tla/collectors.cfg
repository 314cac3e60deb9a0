SPECIFICATION CollectorsSpec
CONSTANTS
    c1 = c1
    c2 = c2
    c3 = c3
    e = e
    e3 = e3
    f = f
    k1 = k1
    Containers <- MCContainers
    FrameworkOf <- MCFrameworkOf
    ExecutorOf <- MCExecutorOf
    Tasked <- MCTasked
    Omissions <- MCOmissions
    FetchMayFail = TRUE
    MaxPolls = 2
    Conns <- MCConns
    Records <- MCRecords
    TaskLabels <- MCTaskLabels
    cosmosLabels <- MCCosmosLabels
    InputLimit = 1
    ReadAhead = 2
    MaxRecords = 2
INVARIANTS
    
    NoGhosts
    FailedCarriesNothing
    ThrottleBounds
    SenderTagsKept
PROPERTIES
    DropsOnlyOverLimit
    TaskNotOutdated
CHECK_DEADLOCK FALSE
