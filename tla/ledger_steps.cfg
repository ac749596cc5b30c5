CONSTANTS
    g = g
    p1 = p1
    p2 = p2
    s = s
    h = h
    c = c
    alice = alice
    bob = bob
    Txn <- RivalTxns
    Genesis <- Coinbase
    PubKey <- Keys
    Inputs <- RivalInputs
    Entries <- RivalEntries
    Outputs <- RivalOutputs
    Timelock <- RivalTimelocks
    SeqNo <- RivalSeqNos
    Signed <- RivalSigned
    BlockSize = 1
    MaxBlocks = 3
    MaxQueue = 2
    MaxRestarts = 1
    Serial = TRUE
    MaxTime = 2
SPECIFICATION StepsSpec
CHECK_DEADLOCK FALSE
INVARIANT OneClaim
INVARIANT ClaimsFlagged
PROPERTY FlagsStayDown
PROPERTY TurnsAtomic
