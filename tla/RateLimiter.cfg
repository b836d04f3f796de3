SPECIFICATION Spec
CONSTANTS
    Keys = {k1, k2}
    Requests = {r1, r2}
    Limit = 1
    Minute = 3
    MaxWindows = 1
    MaxDelay = 1
    MaxCount = 2
    MaxTime = 8
    None = None
SYMMETRY Symmetry
INVARIANTS TypeOK BurstBounded
PROPERTIES DenialIsEarned SweepingDecidesNothing
CHECK_DEADLOCK FALSE
