SPECIFICATION MCSpec
CONSTANTS
    Nowhere = Nowhere
    Instances = {i1, i2}
    MaxTasks = 2
    MaxDrops = 1
    MaxCrashes = 1
    MaxLocal = 3
    Stoppers = {n1, n2}
    Nodes = {n1, n2}
    Limit = 2
    Window = 4
    BucketSize = 2
    MaxTime = 8
    MaxRequests = 4
    MaxFaults = 1
INVARIANTS GoneWhenDone MissesOnlyMoved LimitIsKept
PROPERTY StoppedTaskEnds
CHECK_DEADLOCK FALSE
