SPECIFICATION FairSpec
CONSTANTS
    b1 = b1
    a1 = a1
    a2 = a2
    p1 = p1
    p2 = p2
    Jobs <- MCJobs
    BatchJobs <- MCBatchJobs
    Total <- MCTotal
    Procs <- MCProcs
    Capacity <- MCCapacity
    FaultKinds <- MCWrite
    MaxFaults = 1
INVARIANTS
    FailureIsRecorded
CHECK_DEADLOCK FALSE
