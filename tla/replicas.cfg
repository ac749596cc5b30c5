CONSTANTS
    g = g
    p1 = p1
    p2 = p2
    c = c
    alice = alice
    Node = {n1, n2}
    Txn <- Txns
    Genesis <- Coinbase
    PubKey <- Keys
    Inputs <- TxnInputs
    Entries <- TxnEntries
    Outputs <- TxnOutputs
    Timelock <- Locked
    SeqNo <- TxnSeqNos
    Signed <- TxnSigned
    BlockSize = 1
    MaxTime = 2
    MaxBlocks = 3
    MaxQueue = 2
    MaxRestarts = 1
SPECIFICATION Spec
CHECK_DEADLOCK FALSE
INVARIANT TypeOK
INVARIANT Agreement
INVARIANT ForgottenOnlyWhenReplaced
PROPERTY OneLedger
SYMMETRY NodeSymmetry
