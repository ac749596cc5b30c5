CONSTANTS
    g = g
    p1 = p1
    p2 = p2
    s = s
    h = h
    c = c
    alice = alice
    bob = bob
    Txn <- VersionTxns
    Genesis <- Coinbase
    PubKey <- Keys
    Inputs <- VersionInputs
    Entries <- VersionEntries
    Outputs <- VersionOutputs
    Timelock <- VersionTimelocks
    SeqNo <- VersionSeqNos
    Signed <- VersionSigned
    BlockSize = 1
    MaxBlocks = 4
    MaxQueue = 3
    MaxRestarts = 0
    Serial = FALSE
    MaxTime = 2
SPECIFICATION Spec
CHECK_DEADLOCK FALSE
INVARIANT NoDoubleSpend
