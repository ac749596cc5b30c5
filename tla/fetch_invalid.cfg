CONSTANTS
    Txn = {t1}
    Raising = {}
    Timelocked = {}
    Peers = 2
    Views <- AllFoundInvalid
    BackoffAmount = 1
    RecheckEvery = 5
    BlockSize = 1
    MaxBlocks = 2
SPECIFICATION FairSpec
CHECK_DEADLOCK FALSE
PROPERTY BlocksProcessed
