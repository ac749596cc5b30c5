CONSTANTS
    n1 = n1
    n2 = n2
    n3 = n3
    x = x
    y = y
    Node = {n1, n2}
    Cluster = {n1, n2}
    Command = {x, y}
    Watched = {x, y}
    Change = {}
    NoOp = NoOp
    Nobody = Nobody
    Batch = 9
    QueueSize = 0
    MaxTerm = 1
    MaxLog = 4
    MaxInFlight = 2
    MaxRestarts = 1
SPECIFICATION Spec
CHECK_DEADLOCK FALSE
SYMMETRY Symmetry
INVARIANT OutcomeTold
