SPECIFICATION FairSpec
CONSTANTS
    NumThreads = 2
    Jobs = {j1, j2, j3}
    QueueFactor = 1
    WaitArgs <- MCWaitArgs
    MaxFailures = 1
    MaxSpurious = 1
    NoJob = NoJob
INVARIANTS
    PendingExact
    JobsConserved
    WaitingListExact
    NoStrandedJob
    FreedUnused
PROPERTIES
    ImplementsJobPool
    JobsRunUntilError
    CallsReturn
CHECK_DEADLOCK FALSE
