SPECIFICATION QueuedSpec
CONSTANTS
    Runs = {r1, r2}
    Handlers = {h1}
    Keys = {}
    NModules = 1
    MaxRequests = 2
    None = None
CHECK_DEADLOCK FALSE
PROPERTIES
    OnlyAPauseHolds
