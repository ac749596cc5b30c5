CONSTANTS
    g = g
    p1 = p1
    p2 = p2
    s = s
    h = h
    c = c
    alice = alice
    bob = bob
    Txn <- LockedTxns
    Genesis <- Coinbase
    PubKey <- Keys
    Inputs <- LockedInputs
    Entries <- LockedEntries
    Outputs <- LockedOutputs
    Timelock <- LockedTimelocks
    SeqNo <- LockedSeqNos
    Signed <- LockedSigned
    BlockSize = 1
    MaxBlocks = 4
    MaxQueue = 3
    MaxRestarts = 0
    Serial = FALSE
    MaxTime = 2
SPECIFICATION StepsSpec
CHECK_DEADLOCK FALSE
INVARIANT ClaimsFlagged
