CONSTANTS
    g = g
    p1 = p1
    p2 = p2
    s = s
    h = h
    c = c
    alice = alice
    bob = bob
    Txn <- ChannelTxns
    Genesis <- Coinbase
    PubKey <- Keys
    Inputs <- ChannelInputs
    Entries <- ChannelEntries
    Outputs <- ChannelOutputs
    Timelock <- ChannelTimelocks
    SeqNo <- ChannelSeqNos
    Signed <- ChannelSigned
    BlockSize = 1
    MaxBlocks = 4
    MaxQueue = 1
    MaxRestarts = 1
    Serial = TRUE
    MaxTime = 2
SPECIFICATION Spec
CHECK_DEADLOCK FALSE
INVARIANT TypeOK
INVARIANT NoDoubleSpend
INVARIANT ClaimsSpent
INVARIANT StoredOrPending
INVARIANT IndexExact
INVARIANT BalancesAddUp
INVARIANT CoinsAccounted
PROPERTY SpentForever
PROPERTY NewestWins
