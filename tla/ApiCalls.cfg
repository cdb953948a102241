SPECIFICATION Spec
CONSTANTS
    Entries <- CorrectEntries
    Registrations <- AllHandlers
    MaxNulls = 3
    Faults = {"interrupt", "ringFull", "open"}
INVARIANTS
    DriverReachesItsMemory
    DriverGetsTheCall
    HandlesAreTranslated
    UnservedCallsFail
    ResultsReachTheCaller
    AsyncCallsOweNothing
    HandlersAcceptTheirCalls
    AsyncFailuresAreNoticed
    SharedMemoryMoved
    EventsForgotten
    ObjectsTracked
    UnmappedMemoryIsFreed
