CONSTANTS
    Txn = {t1, t2}
    Strangers = {}
    Timelocked = {}
    BlockSize = 1
    MaxLog = 3
    MaxPuts = 1
    MaxRestarts = 0
    Serial = FALSE
SPECIFICATION FairSpec
CHECK_DEADLOCK FALSE
PROPERTY ListedProcessed
