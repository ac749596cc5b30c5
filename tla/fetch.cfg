CONSTANTS
    Txn = {t1, t2, z}
    Raising = {z}
    Timelocked = {t1}
    Peers = 2
    Views <- SomePeerHasIt
    BackoffAmount = 1
    RecheckEvery = 1
    BlockSize = 2
    MaxBlocks = 2
SPECIFICATION FairSpec
CHECK_DEADLOCK FALSE
INVARIANT TypeOK
INVARIANT InTurn
INVARIANT UnlockedListed
INVARIANT SinglesInOrder
INVARIANT SinglesAsking
INVARIANT SinglesNoStray
PROPERTY SinglesProcessed
