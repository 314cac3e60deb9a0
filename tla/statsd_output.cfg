SPECIFICATION Spec
CONSTANTS
    c1 = c1
    Containers <- MCContainers
    Packets <- MCPackets
    limit_amount_bytes = 3
    MaxPackets = 3
    chunking = TRUE
    datapoint_capacity = 2
    SizeT = 3
    chunk_capacity = 7
    UDP_MAX_PACKET_BYTES = 8
    Lookups = {{}, {"a1"}, {"a2"}}
    Literals = {{}, {"a1"}}
INVARIANTS
    ChunkSound
    SocketFollowsLookups
PROPERTIES
    DataMovesOn
CHECK_DEADLOCK FALSE
