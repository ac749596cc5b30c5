CONSTANTS
    g = g
    p1 = p1
    p2 = p2
    s = s
    h = h
    c = c
    alice = alice
    bob = bob
    Txn <- ChannelTxns
    Genesis <- Coinbase
    PubKey <- Keys
    Inputs <- ChannelInputs
    Entries <- ChannelEntries
    Outputs <- ChannelOutputs
    Timelock <- ChannelTimelocks
    SeqNo <- ChannelSeqNos
    Signed <- ChannelSigned
    BlockSize = 1
    MaxBlocks = 2
    MaxQueue = 2
    MaxRestarts = 0
    Serial = TRUE
    MaxTime = 1
SPECIFICATION Spec
CHECK_DEADLOCK FALSE
INVARIANT UtxosAnswered
