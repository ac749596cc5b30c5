CONSTANTS
    Txn = {t1, t2, z}
    Raising = {z}
    Timelocked = {t1}
    Peers = 2
    Views <- SomePeerHasIt
    BackoffAmount = 1
    RecheckEvery = 1
    BlockSize = 1
    MaxBlocks = 3
SPECIFICATION FairSpec
CHECK_DEADLOCK FALSE
INVARIANT TypeOK
INVARIANT SinglesInOrder
INVARIANT SinglesAsking
INVARIANT SinglesNoStray
PROPERTY SinglesProcessed
