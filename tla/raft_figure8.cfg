CONSTANTS
    n1 = n1
    n2 = n2
    n3 = n3
    x = x
    y = y
    Node = {n1, n2, n3}
    Cluster = {n1, n2, n3}
    Command = {x}
    Watched = {}
    Change = {}
    NoOp = NoOp
    Nobody = Nobody
    Batch = 2
    QueueSize = 0
    MaxTerm = 4
    MaxLog = 5
    MaxInFlight = 2
    MaxRestarts = 0
SPECIFICATION SplitSpec
CHECK_DEADLOCK FALSE
INVARIANT LeaderCompleteness
