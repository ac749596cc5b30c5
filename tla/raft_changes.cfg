CONSTANTS
    n1 = n1
    n2 = n2
    n3 = n3
    x = x
    y = y
    Node = {n1, n2, n3}
    Cluster = {n1, n2, n3}
    Command = {}
    Watched = {}
    Change <- RemBoth
    NoOp = NoOp
    Nobody = Nobody
    Batch = 9
    QueueSize = 0
    MaxTerm = 1
    MaxLog = 4
    MaxInFlight = 2
    MaxRestarts = 0
SPECIFICATION LedSpec
CHECK_DEADLOCK FALSE
INVARIANT OneChangeAtATime
