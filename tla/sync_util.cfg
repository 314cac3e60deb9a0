SPECIFICATION FairSpec
CONSTANTS
    t1 = t1
    t2 = t2
    IoThread = io_thread
    Threads <- MCThreads
    MaxCalls = 2
    Timed <- MCTimed
    IoMayStop = TRUE
INVARIANTS
    NoWildWrite
    NoStaleResult
PROPERTIES
    ImplementsContract
    CallsReturn
CHECK_DEADLOCK FALSE
