CONSTANTS
    g = g
    p1 = p1
    p2 = p2
    c = c
    alice = alice
    Node = {n1, n2}
    Txn <- Txns
    Genesis <- Coinbase
    PubKey <- Keys
    Inputs <- TxnInputs
    Entries <- TxnEntries
    Outputs <- TxnOutputs
    Timelock <- Locked
    SeqNo <- TxnSeqNos
    Signed <- TxnSigned
    BlockSize = 2
    MaxTime = 2
    MaxBlocks = 3
    MaxQueue = 1
    MaxRestarts = 0
SPECIFICATION Spec
CHECK_DEADLOCK FALSE
INVARIANT Agreement
INVARIANT ForgottenOnlyWhenReplaced
SYMMETRY NodeSymmetry
