SPECIFICATION FairSpec
CONSTANTS
    Capacity = 3
    Threads = {t1}
    HeapSize = 2
    MaxCalls = 4
    MaxInterrupts = 0
    ServiceMethod = "activePolling"
    UseBatchedCalls = TRUE
    NoThread = NoThread
INVARIANTS
    CommandsIntact
    OwnResult
    HeapFreeIsSafe
PROPERTIES
    CallsReturn
CHECK_DEADLOCK FALSE
