SPECIFICATION RetestSpec
CONSTANTS
    Keys = {k1}
    MaxScans = 2
CHECK_DEADLOCK FALSE
INVARIANT FalsePositivesArePreserved
