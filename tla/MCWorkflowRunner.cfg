SPECIFICATION PartsSpec
CONSTANTS
    Callers = {c1, c2}
    NAssets = 2
    NModules = 2
    NUnits = 2
    MaxConcurrency = 2
    Native <- WebThenChecks
    Schedules = {s1, s2}
    Requesters = {}
    Exposures = {}
    Interval = 1
    MaxTime = 1
    MaxRuns = 1
    MaxCrashes = 0
CHECK_DEADLOCK FALSE
INVARIANTS
    AtMostOneSlip
    StopIsHonoured
    EngagementIsWhatModulesReturned
    LossIsContained
PROPERTIES
    ImplementsGate
    CancelledRunEnds
    SavedResultsOnlyGrow
    EveryRunEnds
    DueScheduleGetsItsTurn
