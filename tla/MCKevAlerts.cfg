SPECIFICATION Monitoring
CONSTANTS
    Runs = {r1}
    Handlers = {h1}
    Keys = {}
    NModules = 1
    MaxRequests = 0
    None = None
    i1 = i1
    i2 = i2
    Schedules = {s1}
    Requesters = {q1}
    Exposures = {e1}
    Interval = 1
    MaxTime = 1
    MaxRuns = 3
    MaxCrashes = 1
    Issues = {i1, i2}
    Rank <- ModelRank
    Catalogue = {i2}
    Facing = {i2}
    Capturers = {c1, c2}
    AlertConfigs <- AlwaysOn
    MaxCaptures = 3
    MaxChanges = 2
CHECK_DEADLOCK FALSE
INVARIANT KevIsAnnounced
