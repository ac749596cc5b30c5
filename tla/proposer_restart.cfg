CONSTANTS
    Txn = {t1, t2}
    Strangers = {}
    Timelocked = {}
    BlockSize = 2
    MaxLog = 2
    MaxPuts = 1
    MaxRestarts = 1
    Serial = TRUE
SPECIFICATION FairSpec
CHECK_DEADLOCK FALSE
PROPERTY PutProcessed
