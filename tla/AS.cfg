SPECIFICATION ServerSpec
CONSTANTS
    None = None
    Foreign = Foreign
    Clients = {"c1", "c2"}
    Others = {"x"}
    Metas = {"m1", "m2"}
    FileSets = {"f1", "f2"}
    Unmergeable <- TooLarge
    QueueLen = 1
    MaxRequests = 2
    MaxFaults = 1
INVARIANT ServerInv
INVARIANT SuccessMeansApplied
INVARIANT WatchersUpToDate
INVARIANT BuildMeansApplied
INVARIANT WorkspaceWatchersUpToDate
PROPERTY FailedUpdateKeepsVersion
PROPERTY PromotedOnlyIfBuilt
PROPERTY EveryRequestAnswered
CHECK_DEADLOCK FALSE
