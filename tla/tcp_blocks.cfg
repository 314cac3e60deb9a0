SPECIFICATION Spec
CONSTANTS
    HeaderSize = 2
    BlockSizes <- MCOneSize
    PendingLimit = 4
    MaxReconnectDelay = 3
    MaxSends = 2
    MaxFaults = 0
INVARIANTS
    BlocksContiguous
CHECK_DEADLOCK FALSE
