SPECIFICATION Spec
CONSTANTS
    Launchers = {l1, l2}
    MaxCrashes = 0
    None = None
INVARIANTS
    WorkloadsServed
CHECK_DEADLOCK FALSE
