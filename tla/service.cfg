SPECIFICATION ServiceSpec
CONSTANTS
    Collectors = {"node", "agent", "framework"}
    producerChans <- MCChans
    MaxMessages <- MCMaxMessages
    Flags <- MCFlags
    Files <- MCFiles
    CpuUse <- MCCpuUse
    Breakages <- MCBreakages
INVARIANTS
    OnlyOneUnderWay
    RunsComplete
    NodeWhole
    SharesAddUp
PROPERTIES
    ImplementsBroadcast
CHECK_DEADLOCK FALSE
