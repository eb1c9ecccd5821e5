SPECIFICATION PartsSpec
CONSTANTS
    Callers = {c1}
    NAssets = 1
    NModules = 2
    NUnits = 2
    MaxConcurrency = 1
    Native <- WebThenChecks
    Schedules = {s1, s2}
    Requesters = {}
    Exposures = {}
    Interval = 1
    MaxTime = 1
    MaxRuns = 1
    MaxCrashes = 0
CHECK_DEADLOCK FALSE
INVARIANT FinishesWithResultsGathered
