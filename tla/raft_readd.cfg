CONSTANTS
    n1 = n1
    n2 = n2
    n3 = n3
    x = x
    y = y
    Node = {n1, n2, n3}
    Cluster = {n1, n2, n3}
    Command = {}
    Watched = {}
    Change <- ReaddN3
    NoOp = NoOp
    Nobody = Nobody
    Batch = 9
    QueueSize = 1
    MaxTerm = 3
    MaxLog = 5
    MaxInFlight = 1
    MaxRestarts = 0
SPECIFICATION ReaddSpec
CHECK_DEADLOCK FALSE
INVARIANT OthersFollowLog
