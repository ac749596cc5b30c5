------------------------------ MODULE MCLedger ------------------------------
(***************************************************************************)
(* A small economy for module Ledger.  The coinbase g has two outputs: a   *)
(* plain one and one that is a hash time-locked contract with timeout 2.   *)
(* p1 and p2 are two states of a payment channel on the plain output, p2   *)
(* the newer; s spends both outputs at once; h claims the contract with    *)
(* its preimage, behind a time lock; c spends what p1 creates and names it *)
(* twice in its list of inputs.                                            *)
(***************************************************************************)
EXTENDS Ledger

CONSTANTS g, p1, p2, s, h, c, alice, bob

All == {g, p1, p2, s, h, c}

Only(present, f) == [t \in present |-> f[t]]

Contract(n, k1, k2, hk, timeout) ==
    [amount |-> n, pubkey |-> k1, pubkey2 |-> k2, htlcPubkey |-> hk, htlcTimeout |-> timeout]

Coin(n, k) == Contract(n, k, k, k, 0)

AllInputs == [t \in All |->
    CASE t = g -> {}
      [] t \in {p1, p2} -> {<<g, 1>>}
      [] t = s -> {<<g, 1>>, <<g, 2>>}
      [] t = h -> {<<g, 2>>}
      [] t = c -> {<<p1, 1>>}]

AllEntries == [t \in All |-> [o \in AllInputs[t] |-> IF t = c THEN 2 ELSE 1]]

AllOutputs == [t \in All |->
    CASE t = g -> <<Coin(2, alice), Contract(1, alice, alice, bob, 2)>>
      [] t = p1 -> <<Contract(2, alice, bob, bob, 0)>>
      [] t = p2 -> <<Coin(1, alice), Contract(1, bob, bob, alice, 1)>>
      [] t = s -> <<Coin(3, alice)>>
      [] t = h -> <<Coin(1, bob)>>
      [] t = c -> <<Coin(4, alice)>>]

AllTimelocks == [t \in All |-> IF t \in {p1, p2, h} THEN 1 ELSE 0]

AllSeqNos == [t \in All |-> IF t = p2 THEN 2 ELSE 1]

AllSigned == [t \in All |->
    {<<o, IF t = h THEN "htlc" ELSE "keys">> : o \in AllInputs[t]}]

\* The channel and everything that spends from it.
ChannelTxns == {g, p1, p2, s, c}
ChannelInputs == Only(ChannelTxns, AllInputs)
ChannelEntries == Only(ChannelTxns, AllEntries)
ChannelOutputs == Only(ChannelTxns, AllOutputs)
ChannelTimelocks == Only(ChannelTxns, AllTimelocks)
ChannelSeqNos == Only(ChannelTxns, AllSeqNos)
ChannelSigned == Only(ChannelTxns, AllSigned)

\* Two versions of one claim.
VersionTxns == {g, p1, p2}
VersionInputs == Only(VersionTxns, AllInputs)
VersionEntries == Only(VersionTxns, AllEntries)
VersionOutputs == Only(VersionTxns, AllOutputs)
VersionTimelocks == Only(VersionTxns, AllTimelocks)
VersionSeqNos == Only(VersionTxns, AllSeqNos)
VersionSigned == Only(VersionTxns, AllSigned)

\* The contract and its rivals.
ContractTxns == {g, p1, s, h}
ContractInputs == Only(ContractTxns, AllInputs)
ContractEntries == Only(ContractTxns, AllEntries)
ContractOutputs == Only(ContractTxns, AllOutputs)
ContractTimelocks == Only(ContractTxns, AllTimelocks)
ContractSeqNos == Only(ContractTxns, AllSeqNos)
ContractSigned == Only(ContractTxns, AllSigned)

Coinbase == {g}
Keys == {alice, bob}
=============================================================================
