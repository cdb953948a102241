SPECIFICATION Spec
CONSTANTS
    Threads = {t1, t2}
    NoThread = NoThread
    Arenas = {e, a, b}
    Entry = e
    EntrySize = 2
    Granularity = 8
    Alignment = 2
    Requests = {1, 4}
    MaxHeld = 3
    e = e
    a = a
    b = b
SYMMETRY Symmetry
VIEW View
INVARIANTS
    AllocationsDisjoint
    LatestIsNotRecycled
CHECK_DEADLOCK FALSE
