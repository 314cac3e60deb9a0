SPECIFICATION FairSpec
CONSTANTS
    Containers <- MCContainers
    Ports <- MCPorts
    Configs <- MCPerContainerConfigs
    OpenMayFail = FALSE
    DebugContainers <- MCDebugContainers
    sanitized_filename <- MCFilename
    DiskFaults = FALSE
    MaxCrashes = 2
INVARIANTS
    ToldPortsPersisted
    ReaderOnToldPort
    EachIsGivenADifferentPort
PROPERTIES
    DeadContainersForgotten
    PrepareReturns
CHECK_DEADLOCK FALSE
