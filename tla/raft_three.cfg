CONSTANTS
    n1 = n1
    n2 = n2
    n3 = n3
    x = x
    y = y
    Node = {n1, n2, n3}
    Cluster = {n1, n2, n3}
    Command = {}
    Watched = {}
    Change <- RemN3
    NoOp = NoOp
    Nobody = Nobody
    Batch = 9
    QueueSize = 0
    MaxTerm = 2
    MaxLog = 3
    MaxInFlight = 2
    MaxRestarts = 0
SPECIFICATION AskedSpec
CHECK_DEADLOCK FALSE
INVARIANT LogMatching
INVARIANT StateMachineSafety
INVARIANT ElectionSafety
INVARIANT LeaderCompleteness
INVARIANT OthersFollowLog
