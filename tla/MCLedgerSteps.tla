--------------------------- MODULE MCLedgerSteps ----------------------------
(***************************************************************************)
(* The economy of MCLedger for module LedgerSteps.                         *)
(***************************************************************************)
EXTENDS MCLedger, LedgerSteps

\* All that spends a coin of the coinbase.
RivalTxns == {g, p1, p2, s, h}
RivalInputs == Only(RivalTxns, AllInputs)
RivalEntries == Only(RivalTxns, AllEntries)
RivalOutputs == Only(RivalTxns, AllOutputs)
RivalTimelocks == Only(RivalTxns, AllTimelocks)
RivalSeqNos == Only(RivalTxns, AllSeqNos)
RivalSigned == Only(RivalTxns, AllSigned)

\* Two time-locked transactions that claim different outputs of the coinbase.
LockedTxns == {g, p1, h}
LockedInputs == Only(LockedTxns, AllInputs)
LockedEntries == Only(LockedTxns, AllEntries)
LockedOutputs == Only(LockedTxns, AllOutputs)
LockedTimelocks == Only(LockedTxns, AllTimelocks)
LockedSeqNos == Only(LockedTxns, AllSeqNos)
LockedSigned == Only(LockedTxns, AllSigned)
=============================================================================
