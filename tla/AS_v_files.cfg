SPECIFICATION ServerSpec
CONSTANTS
    None = None
    Foreign = Foreign
    Clients = {"c1", "c2"}
    Others = {"x"}
    Metas = {"m1", "m2"}
    FileSets = {"f1", "f2"}
    Unmergeable <- TooLarge
    QueueLen = 1
    MaxRequests = 2
    MaxFaults = 1
INVARIANT InvalidFilesChangeNothing
CHECK_DEADLOCK FALSE
