SPECIFICATION FairSpec
CONSTANTS
    Launchers = {l1, l2}
    MaxCrashes = 1
    None = None
INVARIANTS
    TypeOK
    SingleService
PROPERTIES
    LaunchersEnd
CHECK_DEADLOCK FALSE
