------------------------------ MODULE Proposer ------------------------------
(***************************************************************************)
(* How the leader turns its mempool list into blocks.  The raft thread     *)
(* decides in _onTick whether to propose (syncobj.py), builds the block in *)
(* send_block and takes committed blocks in add_block_to_queue, where      *)
(* update_pend may turn a pending transaction down and drop it from the    *)
(* mempool (storage.py).  The reactor thread lists new transactions and    *)
(* takes the blocks from block_queue in try_process and process_block.     *)
(* The two threads share mempool, mempool_list, processing, adding_block   *)
(* and current_block without a lock: each read and each write of these is  *)
(* a step of its own.  Serial = TRUE describes the runs in which neither   *)
(* thread is interrupted by the other.                                     *)
(*                                                                         *)
(* The node leads all the time; what raft does with a proposed block       *)
(* (module Raft) is that it comes back, in order, for block_queue.  How a  *)
(* missing transaction is asked for is module BlockFetch's subject: here   *)
(* it arrives.  What verify_txn decides is module Ledger's: here it may    *)
(* decide either way.                                                      *)
(***************************************************************************)
EXTENDS Integers, Sequences, SequencesExt, FiniteSets

CONSTANTS
    Txn,         \* transactions that clients put
    Strangers,   \* transactions of the last leader's blocks, in no mempool yet
    Timelocked,  \* those with a timelock: accepted, they are pending first
    BlockSize,   \* BLOCK_SIZE
    MaxLog,      \* bound on the number of proposed blocks
    MaxPuts,     \* bound on how often a transaction is put anew
    MaxRestarts, \* bound on the number of restarts
    Serial       \* the threads do not interrupt each other

ASSUME ProposerAssumption ==
    /\ Txn \intersect Strangers = {} /\ Timelocked \subseteq Txn \union Strangers
    /\ BlockSize \in Nat \ {0} /\ MaxLog \in Nat /\ MaxPuts \in Nat /\ MaxRestarts \in Nat
    /\ Serial \in BOOLEAN

VARIABLES
    mempool,       \* the keys of the mempool database
    mempoolList,   \* mempool_list
    arriving,      \* written to the database by add_to_mempool, not listed yet
    puts,          \* history: how often each transaction was put anew
    pend,          \* the keys of the pend database
    lost,          \* history: update_pend has dropped a transaction from the mempool
    processing,    \* processing
    addingBlock,   \* adding_block
    currentBlock,  \* current_block
    blockQueue,    \* block_queue
    missing,       \* missing_txns
    at,            \* how far the loop over current_block is
    reactor,       \* where the reactor thread is in try_process
    log,           \* history: the blocks that went to raft
    inherited,     \* history: how many of them the last leader proposed
    committed,     \* how many of them have come back
    tick,          \* where the raft thread is
    txs,           \* send_block's txs
    due,           \* what update_pend has still to go through
    leaving,       \* deleted from the database by update_pend, not from the list yet
    restarts       \* number of restarts so far

storeVars == <<mempool, mempoolList, puts, pend, lost>>
blockVars == <<processing, addingBlock, currentBlock, blockQueue>>
reactorVars == <<arriving, missing, at, reactor>>
raftVars == <<log, inherited, committed, tick, txs, due, leaving, restarts>>

vars == <<storeVars, blockVars, reactorVars, raftVars>>

All == Txn \union Strangers

Init ==
    /\ mempool = {} /\ mempoolList = << >> /\ arriving = {}
    /\ puts = [t \in All |-> 0]
    /\ pend = {} /\ due = {} /\ leaving = {} /\ lost = FALSE
    /\ processing = FALSE /\ addingBlock = FALSE
    /\ currentBlock = << >> /\ blockQueue = << >>
    /\ missing = {} /\ at = 1
    /\ log \in {<< >>} \union {<< <<t>> >> : t \in Strangers}
    /\ inherited = Len(log)
    /\ committed = 0
    /\ tick = "idle" /\ txs = << >>
    /\ reactor = "idle"
    /\ restarts = 0

-----------------------------------------------------------------------------
(***************************************************************************)
(* The raft thread.                                                        *)
(***************************************************************************)
TickMayRun == Serial => reactor \in {"idle", "waiting", "stopped"} /\ arriving = {}

\* What the steps of _onTick before send_block's proposal leave alone.
tickVars == <<storeVars, reactorVars, processing, currentBlock, blockQueue,
              inherited, committed, due, leaving, restarts>>

\* There is enough for a block, or (timeout) BLOCK_TIMEOUT ticks have passed
\* and there is something.
TickSize(timeout) ==
    /\ TickMayRun
    /\ tick = "idle"
    /\ Len(log) < MaxLog
    /\ Len(mempoolList) >= BlockSize \/ (timeout /\ mempoolList # << >>)
    /\ tick' = "size"
    /\ UNCHANGED <<tickVars, addingBlock, log, txs>>

TickProcessing ==
    /\ TickMayRun
    /\ tick = "size"
    /\ tick' = IF processing THEN "idle" ELSE "notProcessing"
    /\ UNCHANGED <<tickVars, addingBlock, log, txs>>

\* As TickAdding, but adding_block is not looked at.
TickAddingAnyway ==
    /\ TickMayRun
    /\ tick = "notProcessing"
    /\ tick' = "mayAdd"
    /\ UNCHANGED <<tickVars, addingBlock, log, txs>>

TickAdding ==
    /\ TickMayRun
    /\ tick = "notProcessing"
    /\ tick' = IF addingBlock THEN "idle" ELSE "mayAdd"
    /\ UNCHANGED <<tickVars, addingBlock, log, txs>>

TickAdd ==
    /\ TickMayRun
    /\ tick = "mayAdd"
    /\ addingBlock' = TRUE
    /\ tick' = "sendBlock"
    /\ UNCHANGED <<tickVars, log, txs>>

SendBlockTake ==
    /\ TickMayRun
    /\ tick = "sendBlock"
    /\ txs' = SubSeq(mempoolList, 1, IF Len(mempoolList) < BlockSize
                                     THEN Len(mempoolList) ELSE BlockSize)
    /\ tick' = "taken"
    /\ UNCHANGED <<tickVars, addingBlock, log>>

\* The block goes to raft, unless one of its transactions is being processed.
SendBlock ==
    /\ TickMayRun
    /\ tick = "taken"
    /\ log' = IF ToSet(txs) \intersect ToSet(currentBlock) = {} THEN Append(log, txs) ELSE log
    /\ txs' = << >>
    /\ tick' = "idle"
    /\ UNCHANGED <<tickVars, addingBlock>>

Tick ==
    \/ \E timeout \in BOOLEAN : TickSize(timeout)
    \/ TickProcessing \/ TickAdding \/ TickAdd \/ SendBlockTake \/ SendBlock

\* Raft has committed the next block: add_block_to_queue calls update_pend, for
\* which the locks of some pending transactions (locksOver) are over.
UpdatePend(locksOver) ==
    /\ TickMayRun
    /\ tick = "idle"
    /\ committed < Len(log)
    /\ due' = locksOver
    /\ tick' = "updatePend"
    /\ UNCHANGED <<storeVars, blockVars, reactorVars>>
    /\ UNCHANGED <<log, inherited, committed, txs, leaving, restarts>>

\* verify_txn accepts a transaction whose lock is over: it goes to the ledger.
UpdatePendAccept(t) ==
    /\ TickMayRun
    /\ tick = "updatePend"
    /\ due' = due \ {t}
    /\ pend' = pend \ {t}
    /\ UNCHANGED <<mempool, mempoolList, puts, lost, blockVars, reactorVars>>
    /\ UNCHANGED <<log, inherited, committed, tick, txs, leaving, restarts>>

\* verify_txn turns it down, and remove_from_mempool deletes the id, which has
\* come to be in the mempool again if the transaction was put again.
UpdatePendReject(t) ==
    /\ TickMayRun
    /\ tick = "updatePend"
    /\ due' = due \ {t}
    /\ pend' = pend \ {t}
    /\ mempool' = mempool \ {t}
    /\ lost' = (lost \/ t \in mempool)
    /\ leaving' = {t}
    /\ tick' = "unlist"
    /\ UNCHANGED <<mempoolList, puts, blockVars, reactorVars>>
    /\ UNCHANGED <<log, inherited, committed, txs, restarts>>

\* The second half of remove_from_mempool.
UpdatePendUnlist ==
    /\ TickMayRun
    /\ tick = "unlist"
    /\ \E t \in leaving : mempoolList' = RemoveFirst(mempoolList, t)
    /\ leaving' = {}
    /\ tick' = "updatePend"
    /\ UNCHANGED <<mempool, puts, pend, lost, blockVars, reactorVars>>
    /\ UNCHANGED <<log, inherited, committed, txs, due, restarts>>

\* The end of add_block_to_queue.
AddBlockToQueue ==
    /\ TickMayRun
    /\ tick = "updatePend"
    /\ due = {}
    /\ committed' = committed + 1
    /\ blockQueue' = Append(blockQueue, log[committed + 1])
    /\ tick' = "idle"
    /\ UNCHANGED <<storeVars, processing, addingBlock, currentBlock, reactorVars>>
    /\ UNCHANGED <<log, inherited, txs, due, leaving, restarts>>

Apply ==
    \/ \E locksOver \in SUBSET pend : UpdatePend(locksOver)
    \/ \E t \in due : UpdatePendAccept(t) \/ UpdatePendReject(t)
    \/ UpdatePendUnlist \/ AddBlockToQueue

-----------------------------------------------------------------------------
(***************************************************************************)
(* The reactor thread.                                                     *)
(***************************************************************************)
ReactorMayRun == (Serial => tick = "idle") /\ arriving = {}

\* A transaction that the mempool database lacks arrives from a client or by
\* broadcast, for the first time or again: jsonrpc_puttxn.  (To put what is in
\* the mempool changes nothing.)
PutTxn(t) ==
    /\ ReactorMayRun
    /\ reactor \in {"idle", "waiting", "stopped"}
    /\ t \notin mempool
    /\ puts[t] < MaxPuts
    /\ puts' = [puts EXCEPT ![t] = @ + 1]
    /\ mempool' = mempool \union {t}
    /\ arriving' = {t}
    /\ UNCHANGED <<mempoolList, pend, lost, blockVars, missing, at, reactor, raftVars>>

\* The second half of add_to_mempool.
ListTxn ==
    /\ Serial => tick = "idle"
    /\ \E t \in arriving : mempoolList' = Append(mempoolList, t)
    /\ arriving' = {}
    /\ UNCHANGED <<mempool, puts, pend, lost, blockVars, missing, at, reactor, raftVars>>

TryProcess ==
    /\ ReactorMayRun
    /\ reactor = "idle"
    /\ ~processing
    /\ blockQueue # << >>
    /\ currentBlock' = Head(blockQueue)
    /\ reactor' = "current"
    /\ UNCHANGED <<storeVars, processing, addingBlock, blockQueue, arriving, missing, at, raftVars>>

TryProcessLock ==
    /\ ReactorMayRun
    /\ reactor = "current"
    /\ processing' = TRUE
    /\ reactor' = "processing"
    /\ UNCHANGED <<storeVars, addingBlock, currentBlock, blockQueue, arriving, missing, at, raftVars>>

\* As TryProcessAdded, but adding_block is left as it is.
TryProcessAddedKeeping ==
    /\ ReactorMayRun
    /\ reactor = "processing"
    /\ missing' = {} /\ at' = 1
    /\ reactor' = "added"
    /\ UNCHANGED <<storeVars, blockVars, arriving, raftVars>>

\* The next block may be proposed from here on.
TryProcessAdded ==
    /\ ReactorMayRun
    /\ reactor = "processing"
    /\ addingBlock' = FALSE
    /\ missing' = {} /\ at' = 1
    /\ reactor' = "added"
    /\ UNCHANGED <<storeVars, processing, currentBlock, blockQueue, arriving, raftVars>>

\* Whether the mempool database holds the next transaction of the block.
TryProcessScan ==
    /\ ReactorMayRun
    /\ reactor = "added"
    /\ at <= Len(currentBlock)
    /\ missing' = IF currentBlock[at] \in mempool THEN missing ELSE missing \union {currentBlock[at]}
    /\ at' = at + 1
    /\ UNCHANGED <<storeVars, blockVars, arriving, reactor, raftVars>>

\* Something is missing: another attempt later.
TryProcessBackoff ==
    /\ ReactorMayRun
    /\ reactor = "added"
    /\ at > Len(currentBlock)
    /\ missing # {}
    /\ processing' = FALSE
    /\ at' = 1
    /\ reactor' = "idle"
    /\ UNCHANGED <<storeVars, addingBlock, currentBlock, blockQueue, arriving, missing, raftVars>>

\* Something has been missing for BACKOFF_AMOUNT attempts: ask for it.
TryProcessRequest ==
    /\ ReactorMayRun
    /\ reactor = "added"
    /\ at > Len(currentBlock)
    /\ missing # {}
    /\ at' = 1
    /\ reactor' = "waiting"
    /\ UNCHANGED <<storeVars, blockVars, arriving, missing, raftVars>>

\* Nothing is missing: process_block.
TryProcessComplete ==
    /\ ReactorMayRun
    /\ reactor = "added"
    /\ at > Len(currentBlock)
    /\ missing = {}
    /\ at' = 1
    /\ reactor' = "process"
    /\ UNCHANGED <<storeVars, blockVars, arriving, missing, raftVars>>

\* transaction_received: the block is processed once nothing is missing.  The
\* answer may find that the transaction has arrived meanwhile.
Received(t) ==
    /\ ReactorMayRun
    /\ reactor = "waiting"
    /\ mempool' = mempool \union {t}
    /\ arriving' = {t} \ mempool
    /\ missing' = missing \ {t}
    /\ reactor' = IF missing \subseteq {t} THEN "process" ELSE "waiting"
    /\ UNCHANGED <<mempoolList, puts, pend, lost, blockVars, at, raftVars>>

\* process_block comes to the next transaction.
Processing ==
    /\ ReactorMayRun
    /\ reactor = "process"
    /\ at <= Len(currentBlock)

\* The database has lost it meanwhile: InvalidTransactionError ends the loop, and
\* processing stays set.
ProcessBlockRaise ==
    /\ Processing
    /\ currentBlock[at] \notin mempool
    /\ reactor' = "stopped"
    /\ UNCHANGED <<storeVars, blockVars, arriving, missing, at, raftVars>>

\* As ProcessBlockAccept, but the database keeps the transaction.
ProcessBlockAcceptKeeping(replaced) ==
    /\ Processing
    /\ currentBlock[at] \in mempool
    /\ pend' = (pend \ replaced) \union (Timelocked \intersect {currentBlock[at]})
    /\ reactor' = "unlist"
    /\ UNCHANGED <<mempool, mempoolList, puts, lost, blockVars, arriving, missing, at, raftVars>>

\* verify_txn accepts it, in the place of the pending transaction that it
\* replaces, and remove_from_mempool deletes it.
ProcessBlockAccept(replaced) ==
    /\ Processing
    /\ currentBlock[at] \in mempool
    /\ pend' = (pend \ replaced) \union (Timelocked \intersect {currentBlock[at]})
    /\ mempool' = mempool \ {currentBlock[at]}
    /\ reactor' = "unlist"
    /\ UNCHANGED <<mempoolList, puts, lost, blockVars, arriving, missing, at, raftVars>>

\* verify_txn turns it down and removes it itself, before process_block does.
ProcessBlockReject ==
    /\ Processing
    /\ currentBlock[at] \in mempool
    /\ mempool' = mempool \ {currentBlock[at]}
    /\ reactor' = "unlistInvalid"
    /\ UNCHANGED <<mempoolList, puts, pend, lost, blockVars, arriving, missing, at, raftVars>>

\* The second half of verify_txn's remove_from_mempool.  (The first half of
\* process_block's finds the transaction gone: only this thread puts.)
ProcessBlockUnlistInvalid ==
    /\ ReactorMayRun
    /\ reactor = "unlistInvalid"
    /\ mempoolList' = RemoveFirst(mempoolList, currentBlock[at])
    /\ reactor' = "unlist"
    /\ UNCHANGED <<mempool, puts, pend, lost, blockVars, arriving, missing, at, raftVars>>

\* The second half of process_block's remove_from_mempool.
ProcessBlockUnlist ==
    /\ ReactorMayRun
    /\ reactor = "unlist"
    /\ mempoolList' = RemoveFirst(mempoolList, currentBlock[at])
    /\ at' = at + 1
    /\ reactor' = "process"
    /\ UNCHANGED <<mempool, puts, pend, lost, blockVars, arriving, missing, raftVars>>

\* As ProcessBlockReset, but the newest block is deleted.
ProcessBlockResetLast ==
    /\ ReactorMayRun
    /\ reactor = "process"
    /\ at > Len(currentBlock)
    /\ blockQueue' = Front(blockQueue)
    /\ currentBlock' = << >>
    /\ at' = 1
    /\ reactor' = "reset"
    /\ UNCHANGED <<storeVars, processing, addingBlock, arriving, missing, raftVars>>

\* The end of process_block, up to the reset of current_block.
ProcessBlockReset ==
    /\ ReactorMayRun
    /\ reactor = "process"
    /\ at > Len(currentBlock)
    /\ blockQueue' = Tail(blockQueue)
    /\ currentBlock' = << >>
    /\ at' = 1
    /\ reactor' = "reset"
    /\ UNCHANGED <<storeVars, processing, addingBlock, arriving, missing, raftVars>>

ProcessBlockUnlock ==
    /\ ReactorMayRun
    /\ reactor = "reset"
    /\ processing' = FALSE
    /\ reactor' = "idle"
    /\ UNCHANGED <<storeVars, addingBlock, currentBlock, blockQueue, arriving, missing, at, raftVars>>

ProcessBlock ==
    \/ ProcessBlockRaise
    \/ \E replaced \in {{}} \union {{t} : t \in pend} : ProcessBlockAccept(replaced)
    \/ ProcessBlockReject \/ ProcessBlockUnlistInvalid \/ ProcessBlockUnlist
    \/ ProcessBlockReset \/ ProcessBlockUnlock

Reactor ==
    \/ ListTxn
    \/ TryProcess \/ TryProcessLock \/ TryProcessAdded \/ TryProcessScan
    \/ TryProcessBackoff \/ TryProcessRequest \/ TryProcessComplete
    \/ \E t \in missing : Received(t)
    \/ ProcessBlock

-----------------------------------------------------------------------------
\* The node is stopped at any point and started again: only the databases
\* survive.  Raft gives it the blocks that have reached its peers (kept of them)
\* from the first on, and makes it the leader again.
Restart(kept) ==
    /\ restarts < MaxRestarts
    /\ restarts' = restarts + 1
    /\ kept \in committed .. Len(log)
    /\ log' = SubSeq(log, 1, kept)
    /\ inherited' = kept
    /\ committed' = 0
    /\ mempoolList' = << >> /\ arriving' = {}
    /\ processing' = FALSE /\ addingBlock' = FALSE
    /\ currentBlock' = << >> /\ blockQueue' = << >>
    /\ missing' = {} /\ at' = 1
    /\ reactor' = "idle"
    /\ tick' = "idle" /\ txs' = << >>
    /\ due' = {} /\ leaving' = {}
    /\ UNCHANGED <<mempool, puts, pend, lost>>

Next ==
    \/ \E t \in All : PutTxn(t)
    \/ Apply \/ Tick \/ Reactor
    \/ \E kept \in 0 .. MaxLog : Restart(kept)

\* The raft thread ticks for ever and raft commits what it is given (the node
\* leads all the time); the LoopingCall keeps calling try_process, backs off at
\* most BACKOFF_AMOUNT times and gets what it asks for.  A thread that waits for
\* the other one in a Serial run gets its turn.
Fairness ==
    /\ SF_vars(Apply)
    /\ SF_vars(Tick)
    /\ SF_vars(Reactor)
    /\ SF_vars(TryProcessRequest)
    /\ \A t \in All : SF_vars(t \in missing /\ Received(t))

Spec == Init /\ [][Next]_vars

FairSpec == Spec /\ Fairness

-----------------------------------------------------------------------------
\* The types of the variables; the queue holds the newest committed blocks.
TypeOK ==
    /\ mempool \subseteq All
    /\ mempoolList \in Seq(All)
    /\ arriving \subseteq All /\ leaving \subseteq All /\ missing \subseteq All
    /\ puts \in [All -> 0 .. MaxPuts]
    /\ pend \subseteq Timelocked /\ due \subseteq Timelocked
    /\ lost \in BOOLEAN /\ processing \in BOOLEAN /\ addingBlock \in BOOLEAN
    /\ currentBlock \in Seq(All) /\ at \in 1 .. Len(currentBlock) + 1
    /\ log \in Seq(Seq(All))
    /\ inherited \in 0 .. Len(log)
    /\ committed \in 0 .. Len(log)
    /\ blockQueue = SubSeq(log, committed - Len(blockQueue) + 1, committed)
    /\ tick \in {"idle", "size", "notProcessing", "mayAdd", "sendBlock", "taken",
                 "updatePend", "unlist"}
    /\ reactor \in {"idle", "current", "processing", "added", "waiting", "process",
                    "unlistInvalid", "unlist", "reset", "stopped"}

\* The blocks that name a transaction.
Proposals(t) == {i \in DOMAIN log : t \in ToSet(log[i])}

\* A leader that starts with an empty log proposes a transaction as often as it
\* was put anew, at most: a transaction put again after it was processed may be
\* in a second block, but no transaction is proposed a second time on the
\* strength of one put.  The second copy would find it gone from every mempool,
\* and all nodes would stop to ask each other for it.  (With a block of the last
\* leader to wait for, or once update_pend has dropped a transaction of the
\* leader's own block, try_process resets adding_block too early.)
ProposedOncePerPut ==
    inherited = 0 /\ ~lost => \A t \in All : Cardinality(Proposals(t)) <= puts[t]

\* Neither add_to_mempool nor remove_from_mempool is half done.
Settled == arriving = {} /\ leaving = {} /\ reactor \notin {"unlist", "unlistInvalid"}

\* The list names what the mempool database holds, each transaction once.  A
\* restart may leave the list short, but no sequence of puts, answers, blocks and
\* expired locks after it makes the list name a transaction that the database has
\* lost: a leader would propose what it cannot process itself.
ListIsMempool ==
    Settled =>
        /\ ToSet(mempoolList) \subseteq mempool
        /\ Len(mempoolList) = Cardinality(ToSet(mempoolList))
        /\ restarts = 0 => ToSet(mempoolList) = mempool

\* Every transaction in the list is eventually in a processed block, or the node
\* is restarted before: neither adding_block nor processing stays set for ever.
\* (MaxLog ends a run.  Once update_pend has dropped a transaction of a block
\* that is under way, there may be no node left to give it back.)
ListedProcessed ==
    \A t \in Txn : (t \in ToSet(mempoolList))
                       ~> (t \notin ToSet(mempoolList) \/ Len(log) = MaxLog \/ lost)

\* The same of every transaction that a client put and the mempool holds.
PutProcessed ==
    \A t \in Txn : (t \in mempool) ~> (t \notin mempool \/ Len(log) = MaxLog \/ lost)
=============================================================================
