SPECIFICATION Spec
CONSTANTS
    Capacity = 2
    Threads = {t1, t2}
    HeapSize = 2
    MaxCalls = 3
    MaxInterrupts = 1
    ServiceMethod = "semaphores"
    UseBatchedCalls = FALSE
    NoThread = NoThread
SYMMETRY Symmetry
INVARIANTS
    TypeOK
    CommandsIntact
    OwnResult
    HeapFreeIsSafe
    NoLostWakeup
    SubmitSucceeds
PROPERTIES
    ImplementsRpcService
CHECK_DEADLOCK FALSE
