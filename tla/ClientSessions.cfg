SPECIFICATION Spec
CONSTANTS
    Clients = {c1, c2}
    None = None
    Threads = {w1, w2}
    Nodes = 2
    Bits = 1
    Ranges = {r1, r2}
    Contexts = {x1, x2}
    MaxShmems = 1
VIEW View
SYMMETRY Symmetry
INVARIANTS
    BatchesRunAlone
    
    DriverMemoryIsReserved
CHECK_DEADLOCK FALSE
