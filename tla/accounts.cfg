SPECIFICATION Spec
CONSTANTS
    admin = admin
    demo = demo
    p1 = p1
    p2 = p2
    t1 = t1
    t2 = t2
    Names <- MCNames
    Seeds <- MCSeeds
    DemoName = demo
    DemoRole = "Admin"
    DemoEnabled = TRUE
    Roles <- MCRoles
    Procs <- MCProcs
    Threads <- MCThreads
    MaxAccounts = 3
    MaxTokens = 2
    MaxChanges = 2
    MaxPending = 1
    MaxExtras = 1
SYMMETRY MCSymmetry
INVARIANTS
    TypeOK
    StartUpComplete
    AuditComplete
    IdsStillMean
PROPERTIES
    LastAdminGoesByAStaleOne
    SessionFollowsCode
CHECK_DEADLOCK FALSE
