SPECIFICATION Spec
CONSTANTS
    e1 = e1
    e2 = e2
    s1 = s1
    s2 = s2
    v1 = v1
    v2 = v2
    Emails <- MCEmails
    Senders <- MCSenders
    Verifiers <- MCVerifiers
    MaxAttempts = 2
    Lifetime = 1
    SerialWriters = TRUE
    ReusesIds = TRUE
    MaxCodes = 2
    MaxClock = 2
INVARIANTS
    TypeOK
    AtMostOneCode
    UsedOnce
    NoDeadCode
    GuessBound
SYMMETRY MCSymmetry
CHECK_DEADLOCK FALSE
