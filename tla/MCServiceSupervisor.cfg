SPECIFICATION FairSpec
CONSTANTS
    o1 = o1
    o2 = o2
    p1 = p1
    p2 = p2
    Op <- MCOp
    Proc <- MCProc
    NoChild = NoChild
    FailedChild = FailedChild
    FailureThreshold = 2
    MaxProbes = 1
INVARIANTS
    TypeOK
    StateMatchesChild
    RunningIsWatched
PROPERTY EveryOperationSettles
