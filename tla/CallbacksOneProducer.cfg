SPECIFICATION FairSpec
CONSTANTS
    Capacity = 3
    Producers = {p1}
    Callbacks = {c1, c2, c3, c4}
    NoCallback = NoCallback
    MaxInterrupts = 1
INVARIANTS
    TypeOK
    CallbacksAccounted
    HandlerEndsOnlyIfInterrupted
PROPERTIES
    CallbacksDelivered
CHECK_DEADLOCK FALSE
