SPECIFICATION Spec
CONSTANTS
    k1 = k1
    k2 = k2
    w1 = w1
    w2 = w2
    w3 = w3
    Keys <- MCKeys
    MaxCount = 1
    WindowSeconds = 1
    TicksPerSecond = 1
    Instants <- MCInstants
    MaxHits = 2
    Workers <- MCThree
    Serves <- MCOneShared
    ReusesIds = FALSE
    MaxRows = 3
    MaxResets = 1
INVARIANTS
    TypeOK
    RowsPerKey
PROPERTIES
    ImplementsSequential
SYMMETRY MCSymmetry
CHECK_DEADLOCK FALSE
