SPECIFICATION Spec
CONSTANTS
    Regular = {r}
    Immediate = {i}
    Pointers = {p, q}
    Values = {0, 1}
    EventLists = {r}
    EventsPerPool = 1
    MaxCommands = 2
    MaxMarkers = 2
    r = r
    i = i
    p = p
    q = q
SYMMETRY Symmetry
VIEW View
INVARIANT MarkersAreOwned
PROPERTY ImplementsNative
