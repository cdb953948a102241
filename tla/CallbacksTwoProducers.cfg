SPECIFICATION Spec
CONSTANTS
    Capacity = 3
    Producers = {p1, p2}
    Callbacks = {c1, c2}
    NoCallback = NoCallback
    MaxInterrupts = 0
SYMMETRY Symmetry
INVARIANTS
    CallbacksAccounted
CHECK_DEADLOCK FALSE
