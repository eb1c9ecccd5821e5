SPECIFICATION Monitoring
CONSTANTS
    Runs = {r1, r2}
    Handlers = {h1, h2}
    Keys = {k1}
    NModules = 1
    MaxRequests = 3
    None = None
    i1 = i1
    i2 = i2
    Schedules = {s1}
    Requesters = {q1}
    Exposures = {e1}
    Interval = 1
    MaxTime = 1
    MaxRuns = 3
    MaxCrashes = 1
    Issues = {i1, i2}
    Rank <- ModelRank
    Catalogue = {i2}
    Facing = {i1}
    Capturers = {c1, c2}
    AlertConfigs <- AllConfigs
    MaxCaptures = 3
    MaxChanges = 2
SYMMETRY Interchangeable
CHECK_DEADLOCK FALSE
INVARIANTS
    QuietOutcomeStands
    NoticesAddUp
    DisabledRunsAtMostOnce
    RecordedMeansTried
    NamedOnce
PROPERTIES
    NeverResurrected
