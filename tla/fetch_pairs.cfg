CONSTANTS
    Txn = {t1, t2}
    Raising = {}
    Timelocked = {t1}
    Peers = 2
    Views <- NobodyHasIt
    BackoffAmount = 1
    RecheckEvery = 1
    BlockSize = 2
    MaxBlocks = 3
SPECIFICATION Spec
CHECK_DEADLOCK FALSE
INVARIANT InTurn
INVARIANT UnlockedListed
