SPECIFICATION FairSpec
CONSTANTS
    HeaderSize = 2
    BlockSizes <- MCBlockSizes
    PendingLimit = 3
    MaxReconnectDelay = 3
    MaxSends = 3
    MaxFaults = 3
INVARIANTS
    TypeOK
    NeverStuck
    PendingExact
    HeaderFirst
PROPERTIES
    KeepsConnectionAlive
    HungConnectsEnd
CHECK_DEADLOCK FALSE
