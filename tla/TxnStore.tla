------------------------------ MODULE TxnStore ------------------------------
(***************************************************************************)
(* The transaction store of one belcoin node (belcoin_node/storage.py):    *)
(* the LevelDB of accepted transactions, the LevelDB of accepted but still *)
(* time-locked ones, the two indexes from public keys to outputs, and the  *)
(* mempool.  The operations are state-to-state functions on a record, so   *)
(* that one node (module Ledger) and a cluster of nodes (module Replicas)  *)
(* share them.                                                             *)
(*                                                                         *)
(* A transaction is its id; what is in it is given by the constants below. *)
(* An outpoint is a pair <<id, index>>, with indexes counted from 1.       *)
(***************************************************************************)
EXTENDS Integers, Sequences, FiniteSetsExt

CONSTANTS
    Txn,        \* all transactions that exist
    Genesis,    \* COINBASE: the ones every store is created with
    PubKey,     \* public keys
    Inputs,     \* Inputs[t]: the outpoints t spends
    Entries,    \* Entries[t][o]: how many entries of t's list of inputs name o
    Outputs,    \* Outputs[t]: the sequence of outputs of t
    Timelock,   \* Timelock[t]: 0, or how long t stays replaceable
    SeqNo,      \* SeqNo[t]: t.seq
    Signed      \* Signed[t]: <<o, path>> if t's entries for o carry what path asks

\* How an output may be claimed: before its HTLC timeout with the preimage and
\* the HTLC key's signature, from then on with the signatures of both keys.
Path == {"htlc", "keys"}

Output == [amount : Nat, pubkey : PubKey, pubkey2 : PubKey, htlcPubkey : PubKey,
           htlcTimeout : Nat]

\* get_pubkeys of tesseract's Output.
KeysOf(out) == {out.pubkey, out.pubkey2, out.htlcPubkey}

\* What tesseract's serialisation gives: the inputs are a list and name
\* transactions, possibly one outpoint several times; numbers are unsigned.
\* That only the coinbase has no inputs is assumed of the transactions in blocks.
ASSUME TxnAssumption ==
    /\ Genesis \subseteq Txn /\ IsFiniteSet(Genesis)
    /\ Inputs \in [Txn -> SUBSET (Txn \X Nat)]
    /\ \A t \in Txn : IsFiniteSet(Inputs[t]) /\ Entries[t] \in [Inputs[t] -> Nat \ {0}]
    /\ \A t \in Txn : Outputs[t] \in Seq(Output)
    /\ Timelock \in [Txn -> Nat]
    /\ SeqNo \in [Txn -> Nat]
    /\ \A t \in Txn : Signed[t] \subseteq (Txn \X Nat) \X Path
    /\ \A t \in Genesis : Inputs[t] = {}
    /\ \A t \in Txn \ Genesis : Inputs[t] # {}

OutputsOf(t) == {<<t, i>> : i \in DOMAIN Outputs[t]}

AmountOf(o) == Outputs[o[1]][o[2]].amount

SumOf(outpoints) == MapThenSumSet(AmountOf, outpoints)

(***************************************************************************)
(* Stores.  now is current_time; db[t] is the TxnWrapper of an accepted    *)
(* transaction, utxos holding the indexes whose flag is still True;        *)
(* pend[t] is the timestamp of a time-locked one.  The two flag lists that *)
(* the code never reads back (a pending wrapper's utxos) are left out.     *)
(***************************************************************************)
TxnWrapper(t, ts) == [ts |-> ts, utxos |-> DOMAIN Outputs[t]]

Wrapper == [ts : Nat, utxos : SUBSET Nat]

Index == [PubKey -> SUBSET (Txn \X Nat)]

\* The databases of accepted and of pending transactions have these keys.
StoreOver(D, P) ==
    [now : Nat, db : [D -> Wrapper], pend : [P -> Nat],
     pubOuts : Index, pubOutsPend : Index,
     mempool : SUBSET Txn, invalid : SUBSET Txn]

IsStamps(f) == DOMAIN f \subseteq Txn /\ f \in [DOMAIN f -> Nat]

IsStore(s) ==
    /\ s \in StoreOver(DOMAIN s.db, DOMAIN s.pend)
    /\ DOMAIN s.db \subseteq Txn
    /\ DOMAIN s.pend \subseteq Txn

\* The outpoints a set of transactions creates that belong to public key k.
OwnedBy(k, txns) ==
    {o \in UNION {OutputsOf(t) : t \in txns} : k \in KeysOf(Outputs[o[1]][o[2]])}

\* A store opened for the first time: only the coinbase, nothing spent.
EmptyStore ==
    [now |-> 0,
     db |-> [t \in Genesis |-> TxnWrapper(t, 0)],
     pend |-> [t \in {} |-> 0],
     pubOuts |-> [k \in PubKey |-> OwnedBy(k, Genesis)],
     pubOutsPend |-> [k \in PubKey |-> {}],
     mempool |-> {},
     invalid |-> {}]

\* A store opened again after the process ended: the three databases survive,
\* the rest starts afresh, and both indexes are filled with every output of
\* every stored transaction, spent or not.
Reopen(s) ==
    [s EXCEPT !.now = 0,
              !.pubOuts = [k \in PubKey |-> OwnedBy(k, DOMAIN s.db)],
              !.pubOutsPend = [k \in PubKey |-> OwnedBy(k, DOMAIN s.pend)],
              !.invalid = {}]

-----------------------------------------------------------------------------
(***************************************************************************)
(* Verification of a transaction.                                          *)
(***************************************************************************)
InputsExist(s, t) ==
    \A o \in Inputs[t] : o[1] \in DOMAIN s.db /\ o[2] \in DOMAIN Outputs[o[1]]

HtlcTimedOut(s, o) == s.now - s.db[o[1]].ts >= Outputs[o[1]][o[2]].htlcTimeout

Authorised(s, t) ==
    \A o \in Inputs[t] :
        <<o, IF HtlcTimedOut(s, o) THEN "keys" ELSE "htlc">> \in Signed[t]

LockExpired(s, t, ts) == s.now - ts > Timelock[t]

\* check_pend_replacement: a pending transaction conflicts if it has exactly
\* the same inputs.  The first one found decides.
Conflicts(s, t) == {p \in DOMAIN s.pend : Inputs[p] = Inputs[t]}

Conflict(s, t) == CHOOSE p \in Conflicts(s, t) : TRUE

\* As MayReplace, but any version replaces any other.
MayReplaceAny(s, t, p) == ~LockExpired(s, p, s.pend[p])

MayReplace(s, t, p) == ~LockExpired(s, p, s.pend[p]) /\ SeqNo[t] > SeqNo[p]

\* As Unspent, but one unspent input is enough.
UnspentSome(s, t) == \E o \in Inputs[t] : o[2] \in s.db[o[1]].utxos

Unspent(s, t) == \A o \in Inputs[t] : o[2] \in s.db[o[1]].utxos

PendAllows(s, t) ==
    IF Conflicts(s, t) = {} THEN Unspent(s, t)
                            ELSE MayReplace(s, t, Conflict(s, t))

\* What the loop over the list of inputs adds up: each entry counts, also the
\* second one for an outpoint, whose flag is set only when t is written.
HasCoins(t) == SumFunction([o \in Inputs[t] |-> Entries[t][o] * AmountOf(o)])

Balanced(t) == HasCoins(t) = SumOf(OutputsOf(t))

VerifyTxn(s, t, checkPend) ==
    /\ t \notin DOMAIN s.db
    /\ InputsExist(s, t)
    /\ Authorised(s, t)
    /\ checkPend => PendAllows(s, t)
    /\ Balanced(t)

-----------------------------------------------------------------------------
(***************************************************************************)
(* Changes to the store.                                                   *)
(***************************************************************************)
AddToMempool(s, t) == [s EXCEPT !.mempool = @ \union {t}]

RemoveFromMempool(s, t) == [s EXCEPT !.mempool = @ \ {t}]

\* As Reject, but without a record.
RejectSilently(s, t) == RemoveFromMempool(s, t)

\* The failure path of verify_txn.  A transaction that is already stored is
\* only dropped from the mempool; every other reason also records it.
Reject(s, t) ==
    [s EXCEPT !.mempool = @ \ {t},
              !.invalid = IF t \in DOMAIN s.db THEN @ ELSE @ \union {t}]

\* As DelFromPending, but the index keeps the outputs.
DelFromPendingOnly(s, p) ==
    [s EXCEPT !.pend = [q \in DOMAIN s.pend \ {p} |-> s.pend[q]]]

DelFromPending(s, p) ==
    [s EXCEPT !.pend = [q \in DOMAIN s.pend \ {p} |-> s.pend[q]],
              !.pubOutsPend = [k \in PubKey |-> s.pubOutsPend[k] \ OwnedBy(k, {p})]]

\* As Spend, but on wrappers made anew instead of the stored ones.
SpendFresh(s, outpoints) ==
    [s EXCEPT !.db = [d \in DOMAIN s.db |->
                        [ts |-> s.db[d].ts,
                         utxos |-> {i \in DOMAIN Outputs[d] : <<d, i>> \notin outpoints}]],
              !.pubOuts = [k \in PubKey |-> s.pubOuts[k] \ outpoints]]

\* The flags of the outpoints go to False and they leave the index.
Spend(s, outpoints) ==
    [s EXCEPT !.db = [d \in DOMAIN s.db |->
                        [ts |-> s.db[d].ts,
                         utxos |-> {i \in s.db[d].utxos : <<d, i>> \notin outpoints}]],
              !.pubOuts = [k \in PubKey |-> s.pubOuts[k] \ outpoints]]

PutInDb(s, t, ts) ==
    [s EXCEPT !.db = [d \in DOMAIN s.db \union {t} |->
                        IF d = t THEN TxnWrapper(t, ts) ELSE s.db[d]],
              !.pubOuts = [k \in PubKey |-> s.pubOuts[k] \union OwnedBy(k, {t})]]

PutInPend(s, t, ts) ==
    [s EXCEPT !.pend = [p \in DOMAIN s.pend \union {t} |->
                          IF p = t THEN ts ELSE s.pend[p]],
              !.pubOutsPend = [k \in PubKey |-> s.pubOutsPend[k] \union OwnedBy(k, {t})]]

\* As WriteTxnToPend, but the inputs keep their flags until the lock expires.
WriteTxnToPendUnflagged(s, t, ts) == PutInPend(s, t, ts)

\* process_block's branch for a time-locked transaction.
WriteTxnToPend(s, t, ts) == Spend(PutInPend(s, t, ts), Inputs[t])

WriteTxnToDb(s, t, ts) == PutInDb(Spend(s, Inputs[t]), t, ts)

\* As DropReplaced, but the older version stays.
KeepReplaced(s, t) == s

\* verify_txn's last act on success: the replaced transaction leaves pend.
DropReplaced(s, t) ==
    IF Conflicts(s, t) = {} THEN s ELSE DelFromPending(s, Conflict(s, t))

Accept(s, t) ==
    LET v == DropReplaced(s, t)
    IN  IF Timelock[t] > 0 THEN WriteTxnToPend(v, t, s.now)
                           ELSE WriteTxnToDb(v, t, s.now)

\* One turn of process_block's loop.
ProcessTxn(s, t) ==
    IF VerifyTxn(s, t, TRUE) THEN RemoveFromMempool(Accept(s, t), t)
                             ELSE Reject(s, t)

\* As MatureTxn, but the pending entry stays.
MatureTxnKeeping(s, p, ts) ==
    IF ~LockExpired(s, p, ts) THEN s
    ELSE IF VerifyTxn(s, p, FALSE) THEN WriteTxnToDb(s, p, ts)
    ELSE Reject(s, p)

\* One turn of update_pend's loop, for an entry p with timestamp ts of the
\* database snapshot that the loop iterates over.
MatureTxn(s, p, ts) ==
    LET d == DelFromPending(s, p)
    IN  IF ~LockExpired(s, p, ts) THEN s
        ELSE IF VerifyTxn(d, p, FALSE) THEN WriteTxnToDb(d, p, ts)
        ELSE Reject(d, p)

\* jsonrpc_req_txn: what a node answers when a peer asks for t.  invalid_txns
\* comes first; a wrapper found in pend is not what the handler expects.
ReqTxn(s, t) ==
    CASE t \in s.invalid -> "invalid"
      [] t \notin s.invalid /\ t \in s.mempool \union DOMAIN s.db -> "txn"
      [] t \notin s.invalid \union s.mempool \union DOMAIN s.db
            /\ t \in DOMAIN s.pend -> "error"
      [] OTHER -> "unknown"

(***************************************************************************)
(* Balances and coins of a public key k: get_balance on one of the indexes *)
(* (outs is its entry for k, stamp the timestamps of the database that     *)
(* goes with it), and what getutxos lists.                                 *)
(***************************************************************************)
\* As TimedOut, but a contract ends after its timeout.
TimedOutLate(s, o, ts) == s.now - ts > Outputs[o[1]][o[2]].htlcTimeout

TimedOut(s, o, ts) == s.now - ts >= Outputs[o[1]][o[2]].htlcTimeout

NotTimedOut(s, o, ts) == s.now - ts < Outputs[o[1]][o[2]].htlcTimeout

GetBalance(s, k, outs, stamp) ==
    LET out(o) == Outputs[o[1]][o[2]]
        signed == {o \in outs : /\ k \in {out(o).pubkey, out(o).pubkey2}
                                /\ TimedOut(s, o, stamp[o[1]])}
        whole == {o \in signed : out(o).pubkey = out(o).pubkey2}
    IN  [bal |-> SumOf(whole),
         partial |-> SumOf(signed \ whole),
         htlc |-> SumOf({o \in outs : /\ k = out(o).htlcPubkey
                                      /\ NotTimedOut(s, o, stamp[o[1]])})]

Balance(s, k) == GetBalance(s, k, s.pubOuts[k], [t \in DOMAIN s.db |-> s.db[t].ts])

BalancePend(s, k) == GetBalance(s, k, s.pubOutsPend[k], s.pend)

\* utxos_for_pubkey looks every transaction up in the database of stored ones:
\* it raises if k owns an output of one that is only pending.
UtxosForPubkey(s, k) ==
    LET listed == s.pubOuts[k] \union s.pubOutsPend[k]
    IN  [raises |-> \E o \in listed : o[1] \notin DOMAIN s.db, utxos |-> listed]

-----------------------------------------------------------------------------
(***************************************************************************)
(* What a store should satisfy.                                            *)
(***************************************************************************)
Accepted(s) == DOMAIN s.db \union DOMAIN s.pend

NoDoubleSpendIn(s) ==
    \A t, u \in Accepted(s) : t # u => Inputs[t] \intersect Inputs[u] = {}

UnspentOutpoints(s) ==
    UNION {{<<t, i>> : i \in s.db[t].utxos} : t \in DOMAIN s.db}

\* The inputs of accepted transactions exist and are flagged as spent.
ClaimsSpentIn(s) ==
    \A t \in Accepted(s) : \A o \in Inputs[t] :
        /\ o[1] \in DOMAIN s.db
        /\ o[2] \in DOMAIN Outputs[o[1]]
        /\ o[2] \notin s.db[o[1]].utxos

\* Coins that can still be claimed, now or once a lock expires.
Supply(s) == SumOf(UnspentOutpoints(s)) +
             SumOf(UNION {OutputsOf(p) : p \in DOMAIN s.pend})

\* What t counts its inputs for beyond their worth, and all accepted
\* transactions together.
Overcounted(t) == HasCoins(t) - SumOf(Inputs[t])

Surplus(s) == SumFunction([t \in Accepted(s) |-> Overcounted(t)])

=============================================================================
