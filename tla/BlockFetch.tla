----------------------------- MODULE BlockFetch -----------------------------
(***************************************************************************)
(* How a node's reactor thread works through block_queue when transactions *)
(* of a block have not reached its mempool yet: try_process backs off,     *)
(* then asks its peers for what is missing, one chain of requests per      *)
(* transaction, and processes the block when nothing is missing any more   *)
(* (storage.py: try_process, find_missing_transactions, req_txn and its    *)
(* callbacks).  What processing a transaction does to the ledger is module *)
(* Ledger's subject: here it leaves the mempool, or for pend.              *)
(*                                                                         *)
(* Handlers are steps: the raft thread applies a block between two         *)
(* handlers of the reactor thread, not in the middle of one.               *)
(***************************************************************************)
EXTENDS Integers, Sequences, FiniteSets, Bags

CONSTANTS
    Txn,          \* transaction ids
    Raising,      \* those on which verify_txn raises: they have no input, or
                  \* only dummy inputs, and create no coins
    Timelocked,   \* those with a time lock
    Peers,        \* number of entries of rpc_peers
    Views,        \* what the peers may answer at first: [0 .. Peers-1 -> [Txn -> Reply]]
    BackoffAmount,\* BACKOFF_AMOUNT
    RecheckEvery, \* every how many requests the mempool is looked at again (5)
    BlockSize,    \* BLOCK_SIZE
    MaxBlocks     \* bound on the number of committed blocks

\* What jsonrpc_req_txn answers: the transaction; 0 if the peer does not know
\* it; None if the peer found it invalid; or an error (the peer is unreachable,
\* or has the transaction in pend, which the handler fails to unserialize).
Reply == {"txn", "unknown", "invalid", "error"}

ASSUME FetchAssumption ==
    /\ Peers \in Nat \ {0} /\ BackoffAmount \in Nat /\ RecheckEvery \in Nat \ {0}
    /\ BlockSize \in Nat /\ MaxBlocks \in Nat
    /\ Raising \subseteq Txn /\ Timelocked \subseteq Txn
    /\ Views \subseteq [0 .. Peers - 1 -> [Txn -> Reply]]

VARIABLES
    peer,             \* what each peer answers now
    mempool,          \* ids in the mempool
    pend,             \* ids in the database of time-locked transactions
    blockQueue,       \* block_queue
    currentBlock,     \* current_block
    processing,       \* processing
    processingBlock,  \* processing_block
    missing,          \* missing_txns
    missedCounter,    \* missed_counter
    requests,         \* bag of requests under way: [txn, i]
    committed,        \* history: all blocks ever appended to the queue
    finished          \* history: the arguments of completed process_block calls

vars == <<peer, mempool, pend, blockQueue, currentBlock, processing,
          processingBlock, missing, missedCounter, requests, committed, finished>>

\* The request counter matters only modulo these two.
Cycle == Peers * RecheckEvery

Request == [txn : Txn, i : 0 .. Cycle - 1]

\* mempool_list[:BLOCK_SIZE], which may be empty.
Blocks == UNION {{b \in [1 .. n -> Txn] : \A i, j \in 1 .. n : b[i] = b[j] => i = j} :
                 n \in 0 .. BlockSize}

TxnsOf(b) == {b[i] : i \in DOMAIN b}

Init ==
    /\ peer \in Views
    /\ mempool = {}
    /\ pend = {}
    /\ blockQueue = << >>
    /\ currentBlock = << >>
    /\ processing = FALSE
    /\ processingBlock = FALSE
    /\ missing = {}
    /\ missedCounter = 0
    /\ requests = EmptyBag
    /\ committed = << >>
    /\ finished = << >>

-----------------------------------------------------------------------------
\* Whether process_block accepts a time-locked transaction, and which pending
\* one that replaces, is up to the ledger.
Pends(txns) == pend' \in SUBSET (pend \union (txns \intersect Timelocked))

\* As ProcessBlock, but the block stays in the queue.
ProcessBlockKeeping(b, pool) ==
    /\ mempool' = pool \ TxnsOf(b)
    /\ Pends(TxnsOf(b))
    /\ finished' = Append(finished, b)
    /\ currentBlock' = << >>
    /\ processing' = FALSE
    /\ processingBlock' = FALSE
    /\ UNCHANGED blockQueue

\* As ProcessBlock, but current_block is not reset.
ProcessBlockStale(b, pool) ==
    /\ mempool' = pool \ TxnsOf(b)
    /\ Pends(TxnsOf(b))
    /\ finished' = Append(finished, b)
    /\ blockQueue' = Tail(blockQueue)
    /\ processing' = FALSE
    /\ processingBlock' = FALSE
    /\ UNCHANGED currentBlock

(***************************************************************************)
(* process_block, as the other handlers call it, with mempool pool.  It    *)
(* raises at a transaction that is not in the mempool ("VERY STRANGE       *)
(* ERROR"), at a Raising one (verify_txn uses a variable that only the     *)
(* loop over the inputs sets), and with an empty queue at its end (it      *)
(* deletes the head).  Then processing_block stays set.                    *)
(***************************************************************************)
Completes(b, pool) == blockQueue # << >> /\ TxnsOf(b) \subseteq pool \ Raising

ProcessBlock(b, pool) ==
    /\ mempool' = pool \ TxnsOf(b)
    /\ Pends(TxnsOf(b))
    /\ finished' = Append(finished, b)
    /\ blockQueue' = Tail(blockQueue)
    /\ currentBlock' = << >>
    /\ processing' = FALSE
    /\ processingBlock' = FALSE

\* The transactions that process_block gets to in b.
Reached(b, pool) ==
    {b[i] : i \in {j \in DOMAIN b : \A k \in 1 .. j : b[k] \in pool \ Raising}}

ProcessRaises(b, pool) ==
    /\ mempool' = pool \ Reached(b, pool)
    /\ Pends(Reached(b, pool))
    /\ processingBlock' = TRUE
    /\ UNCHANGED <<finished, blockQueue, currentBlock, processing>>

NoProcessing(pool) ==
    /\ mempool' = pool
    /\ UNCHANGED <<pend, finished, blockQueue, currentBlock, processing, processingBlock>>

(***************************************************************************)
(* request_missing_transaction(t, i) with mempool pool, where others are   *)
(* the requests that remain.  At every RecheckEvery-th attempt it looks    *)
(* into the mempool first; if that was the last missing transaction it     *)
(* processes the block and stops asking, otherwise it asks again even      *)
(* though it has the transaction.  If process_block raises, whether the    *)
(* chain of requests goes on depends on the callback that runs.            *)
(***************************************************************************)
Recheck(t, i, pool) == i % RecheckEvery = 0 /\ t \in pool

StopsAsking(t, i, pool) ==
    Recheck(t, i, pool) /\ missing \ {t} = {} /\ ~processingBlock

Again(t, i) == SetToBag({[txn |-> t, i |-> i]})

\* As RequestMissing, but without the return after process_block.
RequestMissingNoReturn(t, i, pool, others, goesOn) ==
    /\ missing' = IF Recheck(t, i, pool) THEN missing \ {t} ELSE missing
    /\ IF StopsAsking(t, i, pool) /\ Completes(currentBlock, pool)
       THEN ProcessBlock(currentBlock, pool)
       ELSE NoProcessing(pool)
    /\ requests' = others (+) Again(t, i)

\* As RequestMissing, but every peer is asked once at most.
RequestMissingOnce(t, i, pool, others, goesOn) ==
    /\ missing' = IF Recheck(t, i, pool) THEN missing \ {t} ELSE missing
    /\ NoProcessing(pool)
    /\ requests' = others

RequestMissing(t, i, pool, others, goesOn) ==
    /\ missing' = IF Recheck(t, i, pool) THEN missing \ {t} ELSE missing
    /\ \/ /\ StopsAsking(t, i, pool)
          /\ Completes(currentBlock, pool)
          /\ ProcessBlock(currentBlock, pool)
          /\ requests' = others
       \/ /\ StopsAsking(t, i, pool)
          /\ ~Completes(currentBlock, pool)
          /\ ProcessRaises(currentBlock, pool)
          /\ requests' = IF goesOn THEN others (+) Again(t, i) ELSE others
       \/ /\ ~StopsAsking(t, i, pool)
          /\ NoProcessing(pool)
          /\ requests' = others (+) Again(t, i)

-----------------------------------------------------------------------------
\* jsonrpc_puttxn: a transaction arrives by broadcast, for the first time or
\* again, also when it has been processed.
PutTxn(t) ==
    /\ t \notin mempool
    /\ mempool' = mempool \union {t}
    /\ UNCHANGED <<peer, pend, blockQueue, currentBlock, processing, processingBlock,
                   missing, missedCounter, requests, committed, finished>>

\* The raft thread applies a block (add_block_to_queue).  update_pend first takes
\* those out of pend whose lock has ended; the ones that verify_txn then turns
\* down leave the mempool too, if a broadcast has put them there again.
AddBlockToQueue(b) ==
    /\ Len(committed) < MaxBlocks
    /\ \E ended \in SUBSET pend : \E failed \in SUBSET ended :
          /\ pend' = pend \ ended
          /\ mempool' = mempool \ failed
    /\ committed' = Append(committed, b)
    /\ blockQueue' = Append(blockQueue, b)
    /\ UNCHANGED <<peer, currentBlock, processing, processingBlock,
                   missing, missedCounter, requests, finished>>

\* The broadcast of a transaction reaches a peer.
PeerLearns(n, t) ==
    /\ peer[n][t] = "unknown"
    /\ peer' = [peer EXCEPT ![n][t] = "txn"]
    /\ UNCHANGED <<mempool, pend, blockQueue, currentBlock, processing,
                   processingBlock, missing, missedCounter, requests, committed, finished>>

MissingOf(b) == TxnsOf(b) \ mempool

\* try_process finds everything it needs.
TryProcess ==
    /\ ~processing
    /\ blockQueue # << >>
    /\ MissingOf(Head(blockQueue)) = {}
    /\ Completes(Head(blockQueue), mempool)
    /\ missing' = {}
    /\ ProcessBlock(Head(blockQueue), mempool)
    /\ UNCHANGED <<peer, missedCounter, requests, committed>>

\* try_process finds everything it needs, and process_block raises.  This ends
\* the LoopingCall; processing stays set.
TryProcessRaises ==
    /\ ~processing
    /\ blockQueue # << >>
    /\ MissingOf(Head(blockQueue)) = {}
    /\ ~Completes(Head(blockQueue), mempool)
    /\ missing' = {}
    /\ currentBlock' = Head(blockQueue)
    /\ processing' = TRUE
    /\ processingBlock' = TRUE
    /\ mempool' = mempool \ Reached(Head(blockQueue), mempool)
    /\ Pends(Reached(Head(blockQueue), mempool))
    /\ UNCHANGED <<peer, blockQueue, missedCounter, requests, committed, finished>>

\* As TryProcessBackoff, but it backs off once more.
TryProcessBackoffLate ==
    /\ ~processing
    /\ blockQueue # << >>
    /\ MissingOf(Head(blockQueue)) # {}
    /\ missedCounter <= BackoffAmount
    /\ missing' = MissingOf(Head(blockQueue))
    /\ missedCounter' = missedCounter + 1
    /\ currentBlock' = Head(blockQueue)
    /\ UNCHANGED <<peer, mempool, pend, blockQueue, processing, processingBlock,
                   requests, committed, finished>>

\* try_process finds something missing and gives it another BACKOFF_AMOUNT tries.
TryProcessBackoff ==
    /\ ~processing
    /\ blockQueue # << >>
    /\ MissingOf(Head(blockQueue)) # {}
    /\ missedCounter < BackoffAmount
    /\ missing' = MissingOf(Head(blockQueue))
    /\ missedCounter' = missedCounter + 1
    /\ currentBlock' = Head(blockQueue)
    /\ UNCHANGED <<peer, mempool, pend, blockQueue, processing, processingBlock,
                   requests, committed, finished>>

\* try_process gives up waiting: find_missing_transactions.
TryProcessRequest ==
    /\ ~processing
    /\ blockQueue # << >>
    /\ MissingOf(Head(blockQueue)) # {}
    /\ missedCounter >= BackoffAmount
    /\ missing' = MissingOf(Head(blockQueue))
    /\ missedCounter' = 0
    /\ currentBlock' = Head(blockQueue)
    /\ processing' = TRUE
    /\ requests' = requests (+) SetToBag({[txn |-> t, i |-> 0] : t \in MissingOf(Head(blockQueue))})
    /\ UNCHANGED <<peer, mempool, pend, blockQueue, processingBlock, committed, finished>>

\* As NextTry, but it is always the same peer that is asked.
NextTrySame(r) == r.i

\* A request comes back.  The counter has gone up, and chosen the peer.
NextTry(r) == (r.i + 1) % Cycle

ReplyTo(r) == peer[NextTry(r) % Peers][r.txn]

WithoutRequest(r) == requests (-) SetToBag({r})

\* transaction_received with 0: ask the next peer.
Unknown(r) ==
    /\ ReplyTo(r) = "unknown"
    /\ RequestMissing(r.txn, NextTry(r), mempool, WithoutRequest(r), TRUE)
    /\ UNCHANGED <<peer, missedCounter, committed>>

\* transaction_receive_error, which also follows transaction_received with None
\* while the transaction is not in the mempool: add_to_mempool(None) raises.
Failed(r) ==
    /\ \/ ReplyTo(r) = "error"
       \/ ReplyTo(r) = "invalid" /\ r.txn \notin mempool
    /\ RequestMissing(r.txn, NextTry(r), mempool, WithoutRequest(r), FALSE)
    /\ UNCHANGED <<peer, missedCounter, committed>>

\* transaction_received with the transaction, or with None although it has
\* arrived meanwhile.  If process_block raises, the error callback asks again.
Received(r) ==
    /\ \/ ReplyTo(r) = "txn"
       \/ ReplyTo(r) = "invalid" /\ r.txn \in mempool
    /\ missing' = missing \ {r.txn}
    /\ LET pool == mempool \union {r.txn}
       IN  \/ /\ missing' # {} \/ processingBlock
              /\ NoProcessing(pool)
              /\ requests' = WithoutRequest(r)
           \/ /\ missing' = {} /\ ~processingBlock /\ Completes(currentBlock, pool)
              /\ ProcessBlock(currentBlock, pool)
              /\ requests' = WithoutRequest(r)
           \/ /\ missing' = {} /\ ~processingBlock /\ ~Completes(currentBlock, pool)
              /\ ProcessRaises(currentBlock, pool)
              /\ requests' = WithoutRequest(r) (+) Again(r.txn, NextTry(r))
    /\ UNCHANGED <<peer, missedCounter, committed>>

Answered(r) == Unknown(r) \/ Failed(r) \/ Received(r)

Answer(t) == \E r \in BagToSet(requests) : r.txn = t /\ Answered(r)

Next ==
    \/ \E t \in Txn : PutTxn(t)
    \/ \E b \in Blocks : AddBlockToQueue(b)
    \/ \E n \in 0 .. Peers - 1, t \in Txn : PeerLearns(n, t)
    \/ TryProcess
    \/ TryProcessRaises
    \/ TryProcessBackoff
    \/ TryProcessRequest
    \/ \E r \in BagToSet(requests) : Unknown(r)
    \/ \E r \in BagToSet(requests) : Failed(r)
    \/ \E r \in BagToSet(requests) : Received(r)

\* The LoopingCall keeps calling try_process, and every request comes back
\* with an answer or an error.
Fairness ==
    /\ WF_vars(TryProcess \/ TryProcessRaises \/ TryProcessBackoff \/ TryProcessRequest)
    /\ \A t \in Txn : WF_vars(Answer(t))

Spec == Init /\ [][Next]_vars

FairSpec == Spec /\ Fairness

-----------------------------------------------------------------------------
\* The types of the variables.
TypeOK ==
    /\ peer \in [0 .. Peers - 1 -> [Txn -> Reply]]
    /\ mempool \subseteq Txn
    /\ pend \subseteq Timelocked
    /\ blockQueue \in Seq(Blocks)
    /\ currentBlock \in Blocks
    /\ processing \in BOOLEAN
    /\ processingBlock \in BOOLEAN
    /\ missing \subseteq Txn
    /\ missedCounter \in 0 .. BackoffAmount
    /\ BagToSet(requests) \subseteq Request
    /\ committed \in Seq(Blocks)
    /\ finished \in Seq(Blocks)

\* Every committed block is processed exactly once, in the order of the log:
\* what has been processed followed by what waits is what was committed.
InLogOrder == committed = finished \o blockQueue

\* No block is processed twice or out of turn, even when late answers go astray:
\* each completed process_block ran on the committed block whose turn it was,
\* or on no transactions at all.
InTurn == \A k \in DOMAIN finished : finished[k] \in {committed[k], << >>}

\* Nothing that has no time lock is missing without being listed as missing: only
\* update_pend, in the other thread, can take a transaction from under a block
\* that waits for another one.  So process_block finds the others in the mempool.
\* After it has raised halfway through a block, processing_block keeps the
\* callbacks from calling it again.
UnlockedListed ==
    ~processingBlock => TxnsOf(currentBlock) \ Timelocked \subseteq mempool \union missing

\* process_block finds in the mempool all that it looks up ("sould always be the
\* case"): it never raises its "VERY STRANGE ERROR", but only at a transaction
\* that verify_txn raises on, or on no block at all.
AllInMempool ==
    [][~processingBlock /\ processingBlock' =>
          currentBlock' = << >> \/ TxnsOf(currentBlock') \intersect Raising # {}]_vars

\* While the node is stopped at a block, somebody is still being asked for each
\* transaction that it waits for: otherwise the block waits for ever.  The one
\* exception is a block on which process_block has raised.
StillAsking ==
    processing => \/ TxnsOf(currentBlock) \intersect Raising # {}
                  \/ missing # {}
                     /\ \A t \in missing : \E r \in BagToSet(requests) : r.txn = t

\* When nothing more is to be done for a block no request for it is left that
\* could come back later and be taken for an answer about another block.
NoStrayRequests ==
    ~processing => BagToSet(requests) = {}

\* As long as no committed block has more than one transaction ...
Singles == \A k \in DOMAIN committed : Len(committed[k]) <= 1

\* ... every committed block is processed exactly once and in the order of the log
\* (try_process, process_block),
SinglesInOrder == Singles => InLogOrder

\* ... a node that is stopped at a block is still asking for what it waits for
\* (transaction_receive_error, request_missing_transaction),
SinglesAsking == Singles => StillAsking

\* ... and no request is left when nothing more is to be done for its block
\* (transaction_received, request_missing_transaction).
SinglesNoStray == Singles => NoStrayRequests

\* With such blocks every committed block up to the first one that makes
\* process_block raise is eventually processed.
SinglesProcessed ==
    \A k \in 1 .. MaxBlocks :
        Len(committed) >= k /\ (\A j \in 1 .. k : TxnsOf(committed[j]) \intersect Raising = {})
            ~> Len(finished) >= k \/ ~Singles

\* Every committed block is eventually processed.
BlocksProcessed ==
    \A k \in 1 .. MaxBlocks : (Len(committed) >= k) ~> (Len(finished) >= k)
=============================================================================
