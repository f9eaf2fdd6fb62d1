SPECIFICATION Spec
CONSTANTS
    k1 = k1
    Keys <- MCKeys
    MaxCount = 2
    WindowSeconds = 2
    TicksPerSecond = 2
    Instants <- MCInstants
    MaxHits = 4
INVARIANTS
    TypeOK
    GrantedExact
    TwoBurstBound
    RetryWithinASecond
