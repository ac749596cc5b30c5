---------------------------- MODULE MCBlockFetch ----------------------------
(***************************************************************************)
(* Instances of module BlockFetch: two peers, of which ...                 *)
(***************************************************************************)
EXTENDS BlockFetch

\* ... at least one can hand out each transaction, and both those that raise
SomePeerHasIt ==
    {v \in [0 .. Peers - 1 -> [Txn -> Reply]] :
        /\ \A t \in Txn : \E n \in 0 .. Peers - 1 : v[n][t] = "txn"
        /\ \A t \in Raising, n \in 0 .. Peers - 1 : v[n][t] = "txn"}

\* ... none knows any transaction yet, but both those that raise
NobodyHasIt ==
    {[n \in 0 .. Peers - 1 |-> [t \in Txn |-> IF t \in Raising THEN "txn" ELSE "unknown"]]}

\* ... each has found every transaction invalid when it processed it
AllFoundInvalid == {[n \in 0 .. Peers - 1 |-> [t \in Txn |-> "invalid"]]}
=============================================================================
