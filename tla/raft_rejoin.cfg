CONSTANTS
    n1 = n1
    n2 = n2
    n3 = n3
    x = x
    y = y
    Node = {n1, n2}
    Cluster = {n1, n2}
    Command = {x}
    Watched = {x}
    Change = {}
    NoOp = NoOp
    Nobody = Nobody
    Batch = 9
    QueueSize = 0
    MaxTerm = 2
    MaxLog = 4
    MaxInFlight = 3
    MaxRestarts = 1
SPECIFICATION Spec
CHECK_DEADLOCK FALSE
SYMMETRY Symmetry
INVARIANT TypeOK
INVARIANT AppliedOnce
INVARIANT StateMachineSafety
INVARIANT CallbackKept
INVARIANT OutcomeTold
INVARIANT NeverEnded
