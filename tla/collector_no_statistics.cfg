SPECIFICATION AgentSpec
CONSTANTS
    c1 = c1
    c2 = c2
    f = f
    Containers <- MCContainers
    FrameworkOf <- MCFrameworkOf
    ExecutorOf <- MCExecutorOf
    Tasked <- MCContainers
    Omissions <- MCOmissions
    FetchMayFail = FALSE
    MaxPolls = 3
INVARIANTS
    NoStatisticsNoMessage
CHECK_DEADLOCK FALSE
