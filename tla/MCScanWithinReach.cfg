SPECIFICATION Safety
CONSTANTS
    Runs = {r1, r2}
    Handlers = {h1}
    Keys = {k1}
    NModules = 1
    MaxRequests = 2
    None = None
CHECK_DEADLOCK FALSE
INVARIANTS
    ScanIsWithinReach
