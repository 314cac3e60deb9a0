SPECIFICATION Spec
CONSTANTS
    Containers <- MCContainers
    Ports <- MCPorts
    Configs <- MCAllConfigs
    OpenMayFail = TRUE
    DebugContainers <- MCNoDebug
    sanitized_filename <- MCFilename
    DiskFaults = TRUE
    MaxCrashes = 1
INVARIANTS
    TypeOK
    NeverFatal
    PoolMatchesReaders
    ReadersTracked
CHECK_DEADLOCK FALSE
