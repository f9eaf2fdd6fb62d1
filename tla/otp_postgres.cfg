SPECIFICATION Spec
CONSTANTS
    e1 = e1
    e2 = e2
    s1 = s1
    s2 = s2
    v1 = v1
    v2 = v2
    Emails <- MCOneEmail
    Senders <- MCSenders
    Verifiers <- MCVerifiers
    MaxAttempts = 2
    Lifetime = 1
    SerialWriters = FALSE
    ReusesIds = FALSE
    MaxCodes = 2
    MaxClock = 3
INVARIANTS
    AtMostOneCode
CHECK_DEADLOCK FALSE
