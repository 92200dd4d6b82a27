SPECIFICATION FairSpec
CONSTANTS
    b1 = b1
    b2 = b2
    Batch <- MCBatch
    MaxItems = 2
    Files <- MCFiles
    MaxConcurrent = 1
    MaxRetries = 2
    MaxCrashes = 2
INVARIANTS
    TypeOK
    DispatchedOnce
    CompletedIsWhole
    LoopOwnsBatch
    CancelStopsDispatch
PROPERTY EveryBatchEnds
