SPECIFICATION FairSpec
CONSTANTS
    NumThreads = 1
    Jobs = {j1, j2}
    QueueFactor = 1
    WaitArgs <- MCWaitArgs
    MaxFailures = 1
    MaxSpurious = 0
    NoJob = NoJob
PROPERTIES
    EveryJobRuns
CHECK_DEADLOCK FALSE
