SPECIFICATION FairSpec
CONSTANTS
    b1 = b1
    a1 = a1
    a2 = a2
    p1 = p1
    p2 = p2
    Jobs <- MCJobs
    BatchJobs <- MCBatchJobs
    Total <- MCTotal
    Procs <- MCProcs
    Capacity <- MCCapacity
    FaultKinds <- MCCrash
    MaxFaults = 1
PROPERTIES
    SurvivesRestarts
CHECK_DEADLOCK FALSE
