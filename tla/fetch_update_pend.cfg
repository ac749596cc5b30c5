CONSTANTS
    Txn = {t1, t2}
    Raising = {}
    Timelocked = {t1}
    Peers = 2
    Views <- NobodyHasIt
    BackoffAmount = 0
    RecheckEvery = 5
    BlockSize = 2
    MaxBlocks = 3
SPECIFICATION FairSpec
CHECK_DEADLOCK FALSE
PROPERTY AllInMempool
