SPECIFICATION RetestSpec
CONSTANTS
    Keys = {k1, k2}
    MaxScans = 2
CHECK_DEADLOCK FALSE
INVARIANT FixedMeansLookedFor
