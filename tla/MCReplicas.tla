----------------------------- MODULE MCReplicas -----------------------------
(***************************************************************************)
(* A small economy for module Replicas: p1 and p2 are two versions of a    *)
(* time-locked claim of the coinbase, c spends what p1 creates.            *)
(***************************************************************************)
EXTENDS Replicas

CONSTANTS g, p1, p2, c, alice

Txns == {g, p1, p2, c}

Coin(n) == [amount |-> n, pubkey |-> alice, pubkey2 |-> alice, htlcPubkey |-> alice,
            htlcTimeout |-> 0]

TxnInputs == [t \in Txns |-> CASE t = g -> {}
                               [] t \in {p1, p2} -> {<<g, 1>>}
                               [] t = c -> {<<p1, 1>>}]

TxnEntries == [t \in Txns |-> [o \in TxnInputs[t] |-> 1]]

TxnOutputs == [t \in Txns |-> <<Coin(1)>>]

TxnSigned == [t \in Txns |-> {<<o, "keys">> : o \in TxnInputs[t]}]

TxnSeqNos == [t \in Txns |-> IF t = p2 THEN 2 ELSE 1]

Locked == [t \in Txns |-> IF t \in {p1, p2} THEN 1 ELSE 0]
Unlocked == [t \in Txns |-> 0]

Coinbase == {g}
Keys == {alice}

NodeSymmetry == Permutations(Node)
=============================================================================
