CONSTANTS
    Txn = {t1, t2}
    Raising = {}
    Timelocked = {}
    Peers = 2
    Views <- NobodyHasIt
    BackoffAmount = 1
    RecheckEvery = 5
    BlockSize = 2
    MaxBlocks = 2
SPECIFICATION Spec
CHECK_DEADLOCK FALSE
INVARIANT InLogOrder
