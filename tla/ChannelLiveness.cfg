SPECIFICATION FairSpec
CONSTANTS
    Capacity = 2
    Threads = {t1, t2}
    HeapSize = 2
    MaxCalls = 2
    MaxInterrupts = 1
    ServiceMethod = "semaphores"
    UseBatchedCalls = FALSE
    NoThread = NoThread
PROPERTIES
    CallsReturn
    SubmittedCallsFinish
    CleanupEnds
CHECK_DEADLOCK FALSE
