------------------------------- MODULE Ledger -------------------------------
(***************************************************************************)
(* One belcoin node's ledger (class Storage) and the two threads that work *)
(* on it.  The raft thread applies committed blocks: add_block_to_queue    *)
(* first lets expired time-locked transactions mature (update_pend, a loop *)
(* over a snapshot of the pending database) and then appends the block to  *)
(* block_queue.  The reactor thread takes blocks off the queue and         *)
(* processes them one transaction at a time.  The code takes no lock, so   *)
(* the steps of the two loops may alternate; Serial = TRUE describes the   *)
(* runs in which they do not (the unit tests call both from one thread).   *)
(*                                                                         *)
(* Which transactions are missing from the mempool, and how they are       *)
(* fetched, is module BlockFetch's subject.                                *)
(***************************************************************************)
EXTENDS TxnStore

CONSTANTS
    MaxTime,      \* block times are 0 .. MaxTime
    BlockSize,    \* BLOCK_SIZE
    MaxBlocks,    \* bound on the number of committed blocks
    MaxQueue,     \* bound on how many blocks wait in block_queue
    MaxRestarts,  \* bound on the number of times the process ends and restarts
    Serial        \* update_pend excludes the reactor thread while it runs

ASSUME LedgerAssumption ==
    /\ MaxTime \in Nat /\ BlockSize \in Nat /\ MaxBlocks \in Nat
    /\ MaxQueue \in Nat /\ MaxRestarts \in Nat /\ Serial \in BOOLEAN

VARIABLES
    store,        \* the record of module TxnStore
    blockQueue,   \* block_queue
    todo,         \* what is left of the block being processed
    processing,   \* processing: a block is being processed
    applying,     \* << >>, or the block whose add_block_to_queue is running
    sweep,        \* the rest of update_pend's snapshot: id -> timestamp
    applied,      \* number of blocks applied so far (bounded by MaxBlocks)
    restarts      \* number of restarts so far (bounded by MaxRestarts)

vars == <<store, blockQueue, todo, processing, applying, sweep, applied, restarts>>

\* A block is a time and a list of distinct transaction ids: what send_block
\* takes from the leader's mempool list, which may be empty by then.
Block == [time : 0 .. MaxTime,
          txns : UNION {{b \in [1 .. n -> Txn \ Genesis] :
                            \A i, j \in 1 .. n : b[i] = b[j] => i = j} :
                        n \in 0 .. BlockSize}]

Nothing == [t \in {} |-> 0]

Init ==
    /\ store = EmptyStore
    /\ blockQueue = << >>
    /\ todo = << >>
    /\ processing = FALSE
    /\ applying = << >>
    /\ sweep = Nothing
    /\ applied = 0
    /\ restarts = 0

-----------------------------------------------------------------------------
\* The reactor thread may run: always, unless a Serial sweep is under way.
ReactorMayRun == Serial => applying = << >>

\* jsonrpc_puttxn
PutTxn(t) ==
    /\ ReactorMayRun
    /\ t \notin store.mempool
    /\ store' = AddToMempool(store, t)
    /\ UNCHANGED <<blockQueue, todo, processing, applying, sweep, applied, restarts>>

\* try_process with a transaction of the first block missing: time moves on to
\* the block's, and the block waits for a later attempt.
TryProcessBackoff ==
    /\ ReactorMayRun
    /\ ~processing
    /\ blockQueue # << >>
    /\ \E i \in DOMAIN Head(blockQueue).txns : Head(blockQueue).txns[i] \notin store.mempool
    /\ store' = [store EXCEPT !.now = Head(blockQueue).time]
    /\ UNCHANGED <<blockQueue, todo, processing, applying, sweep, applied, restarts>>

\* try_process with nothing missing.
TryProcess ==
    /\ ReactorMayRun
    /\ ~processing
    /\ blockQueue # << >>
    /\ \A i \in DOMAIN Head(blockQueue).txns : Head(blockQueue).txns[i] \in store.mempool
    /\ store' = [store EXCEPT !.now = Head(blockQueue).time]
    /\ todo' = Head(blockQueue).txns
    /\ processing' = TRUE
    /\ UNCHANGED <<blockQueue, applying, sweep, applied, restarts>>

\* One turn of process_block's loop.
ProcessNext ==
    /\ ReactorMayRun
    /\ processing
    /\ todo # << >>
    /\ store' = ProcessTxn(store, Head(todo))
    /\ todo' = Tail(todo)
    /\ UNCHANGED <<blockQueue, processing, applying, sweep, applied, restarts>>

\* The end of process_block.
FinishBlock ==
    /\ ReactorMayRun
    /\ processing
    /\ todo = << >>
    /\ blockQueue' = Tail(blockQueue)
    /\ processing' = FALSE
    /\ UNCHANGED <<store, todo, applying, sweep, applied, restarts>>

-----------------------------------------------------------------------------
\* The raft thread applies a committed block: add_block_to_queue starts, and
\* update_pend opens its iterator.
AddBlockToQueue(b) ==
    /\ applying = << >>
    /\ applied < MaxBlocks
    /\ Len(blockQueue) < MaxQueue
    /\ applying' = <<b>>
    /\ sweep' = store.pend
    /\ applied' = applied + 1
    /\ UNCHANGED <<store, blockQueue, todo, processing, restarts>>

\* One turn of update_pend's loop.  Entries come in the order of their ids,
\* which are hashes: any order.
UpdatePend(p) ==
    /\ store' = MatureTxn(store, p, sweep[p])
    /\ sweep' = [q \in DOMAIN sweep \ {p} |-> sweep[q]]
    /\ UNCHANGED <<blockQueue, todo, processing, applying, applied, restarts>>

\* As EnqueueBlock, but without waiting for the end of update_pend.
EnqueueBlockEarly ==
    /\ applying # << >>
    /\ blockQueue' = Append(blockQueue, Head(applying))
    /\ applying' = << >>
    /\ UNCHANGED <<store, todo, processing, sweep, applied, restarts>>

\* The end of add_block_to_queue.
EnqueueBlock ==
    /\ applying # << >>
    /\ DOMAIN sweep = {}
    /\ blockQueue' = Append(blockQueue, Head(applying))
    /\ applying' = << >>
    /\ UNCHANGED <<store, todo, processing, sweep, applied, restarts>>

\* The process ends between two steps and a new one opens the databases.
Restart ==
    /\ restarts < MaxRestarts
    /\ restarts' = restarts + 1
    /\ store' = Reopen(store)
    /\ blockQueue' = << >>
    /\ todo' = << >>
    /\ processing' = FALSE
    /\ applying' = << >>
    /\ sweep' = Nothing
    /\ UNCHANGED applied

Next ==
    \/ \E t \in Txn \ Genesis : PutTxn(t)
    \/ TryProcessBackoff
    \/ TryProcess
    \/ ProcessNext
    \/ FinishBlock
    \/ \E b \in Block : AddBlockToQueue(b)
    \/ \E p \in DOMAIN sweep : UpdatePend(p)
    \/ EnqueueBlock
    \/ Restart

Spec == Init /\ [][Next]_vars

-----------------------------------------------------------------------------
\* The types of the variables; a sweep belongs to a block being applied.
TypeOK ==
    /\ IsStore(store)
    /\ blockQueue \in Seq(Block)
    /\ todo \in Seq(Txn \ Genesis)
    /\ processing \in BOOLEAN
    /\ applying = << >> \/ \E b \in Block : applying = <<b>>
    /\ IsStamps(sweep)
    /\ applying = << >> => DOMAIN sweep = {}
    /\ applied \in 0 .. MaxBlocks
    /\ restarts \in 0 .. MaxRestarts

\* No outpoint is claimed by two transactions that the node has accepted,
\* stored or still time-locked: what verify_txn's checks of the pending
\* database and of the spent flags are for.
NoDoubleSpend == NoDoubleSpendIn(store)

\* The outputs that an accepted transaction claims are stored and flagged as
\* spent, from the moment it is accepted and however long its lock lasts.  The
\* flags are what keeps everyone else away from them: verify_txn skips the
\* check of the flags for a replacement because "the outputs [...] have
\* already be set to spent".
ClaimsSpent == ClaimsSpentIn(store)

\* A transaction is never both stored and pending, so that its outputs are
\* spendable once at most: update_pend and replacement move it, or drop it.
StoredOrPending == DOMAIN store.db \intersect DOMAIN store.pend = {}

\* The indexes that balances and coin selection are computed from list, for
\* each key, exactly the unspent outputs and exactly the pending ones.  After a
\* restart the first one may list more than that, but never less.
IndexExact ==
    \A k \in PubKey :
        LET unspent == {o \in UnspentOutpoints(store) : k \in KeysOf(Outputs[o[1]][o[2]])}
        IN  /\ unspent \subseteq store.pubOuts[k]
            /\ restarts = 0 => store.pubOuts[k] = unspent
            /\ store.pubOutsPend[k] = OwnedBy(k, DOMAIN store.pend)

\* The same, whatever has happened.
IndexExactAfterRestart ==
    \A k \in PubKey :
        store.pubOuts[k] = {o \in UnspentOutpoints(store) : k \in KeysOf(Outputs[o[1]][o[2]])}

\* The balances add up: over all keys each coin is counted once, for the owner
\* of its HTLC key until the timeout and from then on for its owner, or half for
\* each of its two owners.  Unit tests compare such a sum before and after; the
\* cases between which a coin could fall are those of get_balance.  (After a
\* restart the index still lists spent outputs.)
BalancesAddUp ==
    LET Twice(b) == 2 * b.bal + b.partial + 2 * b.htlc
    IN  restarts = 0 =>
            MapThenSumSet(LAMBDA k : Twice(Balance(store, k)) + Twice(BalancePend(store, k)), PubKey)
              = 2 * Supply(store)

\* getutxos answers for every key.
UtxosAnswered == \A k \in PubKey : ~UtxosForPubkey(store, k).raises

\* What can be claimed, now or after a lock expires, is worth at most the
\* coinbase and what accepted transactions counted twice: verify_txn adds an
\* output's worth for each entry of the list of inputs that names it.  Nothing
\* else creates coins, neither replacement nor maturing nor a restart.
CoinsAccounted == Supply(store) <= Supply(EmptyStore) + Surplus(store)

\* Coins are never created.
NoInflation == Supply(store) <= Supply(EmptyStore)

\* The sum of all balances stays what it was when the store was created, as
\* the unit tests assert on tear-down.
Conservation == Supply(store) = Supply(EmptyStore)

\* An output that has been spent stays spent, whatever happens to the
\* transaction that spent it: no step turns a flag back to True.
SpentForever ==
    [][\A t \in DOMAIN store.db :
          t \in DOMAIN store'.db /\ store'.db[t].utxos \subseteq store.db[t].utxos]_vars

\* A pending transaction gives way to another only before its lock expires,
\* and only to a newer version of itself: one with the same inputs and a higher
\* sequence number.  Otherwise it stays until its lock has expired (the rule
\* that payment channels rely on).
NewestWins ==
    [][\A p \in DOMAIN store.pend \ DOMAIN store'.pend :
          \/ LockExpired(store, p, store.pend[p])
          \/ \E q \in Accepted(store') \ Accepted(store) :
                Inputs[q] = Inputs[p] /\ SeqNo[q] > SeqNo[p]]_vars
=============================================================================
