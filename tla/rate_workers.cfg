SPECIFICATION Spec
CONSTANTS
    k1 = k1
    k2 = k2
    w1 = w1
    w2 = w2
    w3 = w3
    Keys <- MCOneKey
    MaxCount = 2
    WindowSeconds = 1
    TicksPerSecond = 1
    Instants <- MCInstants
    MaxHits = 4
    Workers <- MCTwo
    Serves <- MCSameKey
    ReusesIds = TRUE
    MaxRows = 3
    MaxResets = 1
INVARIANTS
    LimitHolds
CHECK_DEADLOCK FALSE
