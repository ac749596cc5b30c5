CONSTANTS
    Txn = {t1, z}
    Raising = {z}
    Timelocked = {}
    Peers = 2
    Views <- SomePeerHasIt
    BackoffAmount = 1
    RecheckEvery = 5
    BlockSize = 1
    MaxBlocks = 2
SPECIFICATION FairSpec
CHECK_DEADLOCK FALSE
PROPERTY BlocksProcessed
