SPECIFICATION Spec
CONSTANTS
    Capacity = 2
    Threads = {t1}
    HeapSize = 4
    MaxCalls = 4
    MaxInterrupts = 0
    ServiceMethod = "activePolling"
    UseBatchedCalls = TRUE
    NoThread = NoThread
PROPERTIES
    ImplementsRpcService
CHECK_DEADLOCK FALSE
