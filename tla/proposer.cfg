CONSTANTS
    Txn = {t1, t2}
    Strangers = {}
    Timelocked = {t1}
    BlockSize = 2
    MaxLog = 3
    MaxPuts = 2
    MaxRestarts = 1
    Serial = TRUE
SPECIFICATION FairSpec
CHECK_DEADLOCK FALSE
INVARIANT TypeOK
INVARIANT ProposedOncePerPut
INVARIANT ListIsMempool
PROPERTY ListedProcessed
