# A verification project for belcoin

belcoin is a crypto currency for a closed group of nodes, with time-locked and
replaceable transactions and hash time-locked contracts, so that payment channels
can be built on it. The nodes agree on blocks with raft (a modified copy of
PySyncObj, `pysyncobjbc/`). This directory holds TLA+ modules translated from that
code, the TLC configurations that check them, and TLAPS proofs about every component they
model.

`PROJECT.json` lists components, runs, the source lines behind each definition,
the hazards the properties were chosen for, and the findings.

## 1. Inventory

| component | state | operations | talks to |
|---|---|---|---|
| transaction store (`storage.py`, `txnwrapper.py`, `mempool.py`, `pendingdb.py`) | LevelDBs `db`, `pend`, `mempool`; indexes `pub_outs`, `pub_outs_pend`; `current_time`, `invalid_txns` | `verify_txn`, `check_pend_replacement`, `write_txn_to_db`, `del_from_pending`, `update_pend` | called by both threads of a node |
| block processing (`storage.py`) | `block_queue`, `current_block`, `processing`, `processing_block` | `add_block_to_queue` (raft thread), `try_process`, `process_block` (reactor thread) | raft log, store |
| block fetching (`storage.py`, `rpcserver.py`) | `missing_txns`, `missed_counter`, requests under way | `find_missing_transactions`, `request_missing_transaction`, `req_txn`, `transaction_received`, `transaction_receive_error`; `jsonrpc_req_txn` at the peers | JSON-RPC peers |
| block proposal (`syncobj.py`, `storage.py`) | `mempool_list`, `adding_block`, the flags above | leader's part of `_onTick`, `send_block` | raft, store |
| raft (`pysyncobjbc/`) | term, vote, log, commit and apply index, `raftNextIndex`, `raftMatchIndex`, command queue | `_onTick`, `_onMessageReceived`, `_applyCommand`, `_checkCommandsToApply` | other nodes over TCP |
| command callbacks (`syncobj.py`) | `commandsWaitingReply`, `commandsWaitingCommit`, `commandsLocalCounter` | answers to forwarded commands, calls with a result or a reason of failure | raft, callers of replicated methods |
| cluster membership (`syncobj.py`, `node.py`) | `otherNodesAddrs`, `nodes`, `noopIDx`, `changeClusterIDx` | `addNodeToCluster`, `removeNodeFromCluster`, `__doChangeCluster` and its reversal | raft log |
| balances and coin queries (`storage.py`) | – | `get_balance`, `utxos_for_pubkey` | indexes of the store |
| cluster | one log, one store per node | apply, process, restart | – |
| JSON-RPC (`rpcserver.py`), gRPC, clients | – | `puttxn`, `puttxn_batch`, `req_txn`, queries | store |
| library parts that belcoin does not use: compaction and snapshots, file journal, batteries, read-only nodes, code versions, admin tool | | | |

What is hard here:

* **Two threads without a lock.** SyncObj's thread applies blocks and proposes them;
  Twisted's reactor thread processes blocks and serves RPC. They share the databases
  and four flags.
* **Callbacks.** One chain of requests per missing transaction, and an answer may
  come when its block is long finished.
* **Restarts and crashes.** Databases survive, the raft log, term and vote do not;
  every LevelDB write stands for itself.
* **Time** comes from the clocks of successive leaders and may go backwards.
* **Raft's usual hazards:** lost connections, old leaders, uncommitted entries, votes; changes of
  the cluster that take effect before they are committed.
* **Callbacks of commands** wander between three places while leaders change; the answers to
  forwarded commands carry numbers that start again with every process.

What makes the components correct: no coin is spent twice or created; what is claimed
is flagged; only a newer version replaces a pending transaction; every committed block is
processed once and in order; a leader proposes a transaction as often as it was put and never stops
proposing; nodes that processed the same log agree; raft's safety properties, with a cluster that
changes; a callback is called once and told what became of its command; balances count every coin
once. Several of these the code has only under conditions; §3 and §4 say which.

## 2. Modules

| module | models | state and actions |
|---|---|---|
| `TxnStore` | the store | a record `[now, db, pend, pubOuts, pubOutsPend, mempool, invalid]` and functions from stores to stores: `VerifyTxn`, `ProcessTxn` (one turn of `process_block`'s loop), `MatureTxn` (one turn of `update_pend`'s loop), `Reopen` (`__init__` on existing databases) |
| `Ledger` | one node's store and its two threads | `PutTxn`, `TryProcess`, `TryProcessBackoff`, `ProcessNext`, `FinishBlock` (reactor); `AddBlockToQueue`, `UpdatePend`, `EnqueueBlock` (raft); `Restart` |
| `LedgerCrash` | what a crash inside a turn of a loop can leave behind | `Ledger` plus `CrashInAccept`, `CrashInMature` |
| `LedgerSteps` | the same ledger, one LevelDB write at a time | per thread a list of steps still to make (`plan`) and the `TxnWrapper` it has read (`copy`); one action per kind of step: `DelPend`, `PutPend`, `PutDb`, `ReadWrapper`, `WriteWrapper`, `VerifyMature`, `Processed`, `Swept`; `Crash` between any two |
| `BlockFetch` | fetching missing transactions | one action per handler of the reactor thread, and `AddBlockToQueue` of the raft thread, in which `update_pend` may drop pending ids from the mempool; a bag of requests under way; `Raising` transactions make `process_block` raise |
| `Proposer` | the leader's block proposal | one action per read or write of a shared field, for both threads: `mempool` and `mempool_list` are written one after the other, transaction by transaction (`PutTxn`, `ListTxn`; `ProcessBlockAccept`, `ProcessBlockReject`, `ProcessBlockUnlist`; `UpdatePendReject`, `UpdatePendUnlist`); a transaction may be put again whenever the mempool lacks it; `Restart` keeps the databases and loses the list |
| `Replicas` | several nodes and one log | `Commit`, `Apply`, `Backoff`, `Process`, `Restart` |
| `SharedLedger` | what a replicated ledger promises | one sequential execution of the log that every node reads at its own pace |
| `Raft` | `SyncObj` with callbacks and membership | `Tick` (a whole `_onTick`, with at most one command of the queue), `Receive` (a whole `_onMessageReceived`), `Submit`, `Disconnect`, `Restart` |
| `MCLedger`, `MCLedgerSteps`, `MCBlockFetch`, `MCReplicas`, `MCRaft` | small instances | |
| `TxnStoreProofs`, `LedgerProofs`, `LedgerStepsProofs`, `BlockFetchProofs`, `ProposerProofs`, `ReplicasProofs`, `RaftProofs` | proofs about the module of the same name | |
| `FoldLemmas` | facts about the folds, sums and sequences of the community modules | |

`Ledger` and `Replicas` both extend `TxnStore`, so the functions that are proved about
are those that the cluster runs. `Replicas` instantiates `SharedLedger`; `LedgerSteps` extends `Ledger`
and instantiates `LedgerCrash`, with the store as it was when a turn began wherever a turn is under
way: a turn happens at its last step.

Abstractions. A transaction is an id; inputs, outputs, lock, sequence number are constant
functions. `Signed[t]` holds the pairs of an outpoint and a way to claim it for which `t`
carries valid signatures (and preimage): what `verify_sig` and `sha256` would answer. Times
are small numbers and the multipliers are 1. A pending wrapper's `utxos` list is never read
and left out. Raft's deadlines may have passed at any tick, so time itself is not modelled;
each call of `__sendAppendEntries` sends one message per node, further turns of its loop are
further calls. Commands in raft are opaque; the no-op of a new leader is kept. A callback is known
by its command, and its reasons of failure are those of `FAIL_REASON`. When the assertion on the
answer to a forwarded command fails the exception ends the thread that runs the node: state
`ENDED`. Two nodes exchange messages only while each has the other on its list. In every
module operators named `As X, but ...` are deliberately wrong variants that show which
property notices which mistake (`mutants` in `PROJECT.json`); no specification uses them.

What a step is. In `Ledger` it is one turn of `process_block`'s or `update_pend`'s loop, in
`LedgerSteps` one LevelDB access, in `Proposer` one access to a shared field; there the two threads
meet in every way the code allows unless `Serial` is set (§3). `BlockFetch` and `Replicas` take whole
handlers: there a raft thread applies a block between two handlers of the reactor thread, not in
the middle of one. They are about callbacks, and about what several nodes make of one log; what
happens when the threads meet inside a handler is the subject of `Ledger` and `LedgerSteps`, and
nothing is claimed of the cluster for it.

Some transactions in more detail. `Entries[t][o]` says how often `t`'s list of inputs names `o`:
`verify_txn` adds the worth of an output per entry, while flags and indexes are per output.
In `BlockFetch` and `Proposer` a `Timelocked` transaction that is accepted is pending, and
`update_pend` may turn any pending one down when a block is applied; `verify_txn` then removes its id
from mempool and list, where it is again if somebody has put it again meanwhile. What a block may
name includes nothing at all: an empty block is proposed when the list is emptied between `_onTick` and
`send_block`.

Assumed of transactions in blocks (`TxnAssumption`): they have at least one input, none of them the
dummy input, and finitely many; of the coinbase, that it is finite. The code does not check the first.
What a transaction without real inputs does (`verify_txn` raises in the middle of a block) is modelled
in `BlockFetch`, where it matters: the block, and all behind it, stay where they are.

## 3. Runs

Passing runs:

| run | shows |
|---|---|
| `ledger_channel` | two states of a payment channel, a rival and a child that lists its input twice, 4 blocks, empty ones among them, with times 0..2 in any order, one restart: no double spend, claims flagged, stored or pending but not both, indexes and balances exact until the restart and no unspent output missing after it, no coins but those counted twice for an input listed twice, spent is for ever, newest version wins |
| `ledger_steps` | the same ledger write by write, with a crash between any two writes: no outpoint claimed twice (unless the crash hit a pending transaction before its flags), claims flagged or just about to be, no flag ever turned back, and every turn atomic up to the torn states of `LedgerCrash` (a refinement) |
| `fetch` | two blocks of up to two transactions, one of which raises and one of which has a time lock: late answers may skip a block (see findings) but never repeat one, and nothing without a time lock is missing unnoticed; as long as no block has two transactions, each is processed once, in order, somebody is always being asked, nothing is left behind, and every block up to the first that raises is eventually processed |
| `replicas` | two nodes, time locks, queues of two, one restart that replays the log: nodes that process each block before they apply the next agree and refine `SharedLedger`; a node forgets a processed transaction only if a newer version displaced it |
| `raft_rejoin` | two nodes, a command with a callback, one restart with an empty log: the command applied once, both nodes apply the same, the callback is called at most once, and what the log decides about its command (`SUCCESS`, `DISCARDED`) or the queue (`QUEUE_FULL`) is told truly; the assertion on answers holds and no callback waits for an index that has been applied |
| `raft_three` | three nodes, a removal from the cluster forwarded by a follower, two terms: one leader per term, matching logs, the same entries applied everywhere, applied entries are in later leaders' logs, each node's list of nodes is the one its log describes |
| `proposer` | the flags are right as long as the threads do not interrupt each other: a leader that inherits no block puts a transaction into no more blocks than it was put anew, the list never names what the mempool has lost, and what is listed is eventually processed |

Runs that end in a violation, each a disagreement of the code with its own documentation
(quotations in `PROJECT.json`, `findings`):

| run | what TLC finds |
|---|---|
| `ledger_threads` | `update_pend` stores a transaction that `process_block` has just replaced |
| `ledger_repeated_input` | a transaction that lists an outpoint twice is accepted with outputs worth twice that outpoint |
| `fetch_two_missing` | a late answer makes `process_block` delete the next block |
| `replicas_queue` | the pace of a node decides which transactions it accepts |
| `raft_changes` | a leader appends a second change of the cluster while the first is uncommitted |

Further configurations, not among the listed runs, delimit what the passing runs show. `tlc -config <name>.cfg
<module>` reproduces them. These pass:

| configuration, module | shows |
|---|---|
| `fetch_single`, `MCBlockFetch` | the properties about single transactions with three blocks |
| `fetch_pairs`, `MCBlockFetch` | `InTurn` and `UnlockedListed` with three blocks, peers that know nothing at first and learn |
| `replicas_pairs`, `MCReplicas` | blocks of up to two transactions in any order: `Agreement` and `ForgottenOnlyWhenReplaced` |
| `raft_readd`, `MCRaft` | a leader of three removes a node and adds it again, three terms: who deletes both changes undoes them from the last one, so that `OthersFollowLog` holds (undone from the first one, it does not) |
| `proposer_strangers`, `Proposer` | the safety properties of `proposer` when a block of the last leader, whose transaction has to be fetched, may come first |

These change a condition of a passing run and have a counterexample. Five of them contradict what the code says of
itself:

| configuration, module | property | what TLC finds | against |
|---|---|---|---|
| `ledger_lost_update`, `MCLedgerSteps` | `ClaimsFlagged` | `process_block` (`storage.py:607`) and `update_pend` read the same wrapper, and the second write turns back the flag of the first: a pending transaction's input is unspent again | "have already be set to spent and therefore don't need ti be checked again" (`storage.py:783-785`) |
| `ledger_crash_pending`, `MCLedgerSteps` | `NoDoubleSpend` | a crash after the put into `pend` (`storage.py:604`) leaves its coins unflagged, and a second claim is accepted | the same comment |
| `fetch_update_pend`, `MCBlockFetch` | `AllInMempool` | a pending transaction is put again and is in a block that waits for another one; `update_pend` turns it down and drops its id from the mempool (`storage.py:406`, 293): `process_block` raises VERY STRANGE ERROR (`storage.py:586`) and leaves `processing` set | all are in the mempool, which "sould always be the case because find_missing_transactions() was called before" (`storage.py:573-574`) |
| `raft_leader_changed`, `MCRaft` | `CallbackTold` | a leader commits a forwarded command, its answer is lost with the connection, the node that waits starts an election of its own and calls the callback with `LEADER_CHANGED` (`syncobj.py:1203-1206`); the command is applied | "leader has changed without command commit" (`pysyncobjbc/config.py:8`) |
| `raft_request_ids`, `MCRaft` | `OutcomeTold` | request ids start again at 1 (`syncobj.py:555`): after a restart the answer to an old request answers another command's callback, which is told `SUCCESS` too early | "Command successfully applied." (`pysyncobjbc/config.py:3`) |

The others:

| configuration, module | property | what TLC finds |
|---|---|---|
| `ledger_maturity_loss`, `MCLedger` | `Conservation` | `update_pend` deletes a transaction before verifying it; if that fails (a timed-out HTLC input, a clock that went back) its coins vanish, which the assertion on tear-down in `node_test/test_node.py:76` would notice |
| `ledger_restart_index`, `MCLedger` | `IndexExactAfterRestart` | after a restart spent outputs are listed as unspent |
| `ledger_getutxos`, `MCLedger` | `UtxosAnswered` | `getutxos` raises for the owner of a pending output |
| `fetch_invalid`, `MCBlockFetch` | `BlocksProcessed` | a transaction all peers found invalid is requested for ever |
| `fetch_raising`, `MCBlockFetch` | `BlocksProcessed` | behind a transaction without real inputs no block is processed any more |
| `replicas_restart`, `MCReplicas` | `AgreementWhenCaughtUp` | a replayed log is not idempotent |
| `replicas_stale_invalid`, `MCReplicas` | `HandsOutStored` | a node calls a transaction invalid that it has since accepted |
| `replicas_forgotten`, `MCReplicas` | `NeverForgotten` | a displaced transaction is unknown to the nodes that processed it, and a slower node that misses it asks in vain |
| `raft_restart`, `MCRaft` | `StateMachineSafety` | a restarted node has forgotten its log and vote: different entries applied |
| `raft_figure8`, `MCRaft` | `LeaderCompleteness` | old entries are committed by counting, and lost again |
| `raft_changes_split`, `MCRaft` | `StateMachineSafety` | with two pending removals the leader commits alone while the other two nodes elect another |
| `proposer_stuck`, `Proposer` | `ListedProcessed` | `adding_block` stays set for ever |
| `proposer_restart`, `Proposer` | `PutProcessed` | a transaction in the mempool of a restarted leader is never proposed |

Bounds. Two versions, one rival and one child are what replacement, conflict and dependency
need; four blocks let each of them be accepted, displaced and matured (three in `ledger_steps`,
where a step is one write, a crash may come between any two, and two blocks may be queued); times 0..2 with locks
of 1 and a timeout of 2 give both sides of each comparison and a step backwards. Of two
peers one can lack what the other has. `RecheckEvery` is 1 in `fetch` instead of the code's 5: a peer
that has the transaction would otherwise always be reached before the mempool is looked at again;
`BACKOFF_AMOUNT` is 1 instead of 300. Two blocks of two transactions let a late answer of the first meet
the second. Two nodes suffice for
disagreement; they are interchangeable (`NodeSymmetry`), since nothing about the log tells them apart. In `proposer` two
transactions fill a block or make up two, each may be put twice, and three blocks let a second put be proposed again. Raft needs three nodes for a majority that is not everyone, and two
terms for an old leader, diverging logs and a later leader. `raft_rejoin` has two nodes, where a
forwarded command, its answer, a change of leader and an entry replaced by another all
happen; what takes the place of the command is the no-op of the next leader. `raft_three` and the
`raft_changes` configurations start with n1 leading term 1 and its no-op applied everywhere
(`LedSpec`; in `AskedSpec` n2 has the removal in its queue; both reachable), because a change is refused before that; one removal is the smallest change
of what a majority is. `raft_restart` and `raft_figure8` start in a state that is reachable in 12
steps (`AfterSplit`), to reach third and fourth terms. A tick takes at most one command from the
queue; the code's loop does what several ticks would. All bounds are constants in guards (`MaxBlocks`, `MaxQueue`, `MaxRestarts`,
`MaxTerm`, `MaxLog`, `MaxInFlight`); behaviours end when they are used up, hence
`CHECK_DEADLOCK FALSE`.

`Serial`. `Ledger` and `Proposer` have a constant that keeps the two threads from interrupting
each other inside a handler. The code guarantees it only where it runs in one thread, as the
unit tests do. Runs and theorems say which value they are about: with `Serial = FALSE`
`NoDoubleSpend`, `ClaimsFlagged` and `ListedProcessed` fail (`ledger_threads`, `ledger_lost_update`,
`proposer_stuck`).

`ProposedOncePerPut` leaves two cases out. A leader that has to wait for a block of its predecessor,
or whose `update_pend` has dropped a transaction of its own block (`lost`), backs off, and
`try_process` resets `adding_block` although its own block is still under way: the block is proposed again. No
document says that this must not be. `ListedProcessed` leaves out what is `lost` because it may be in no mempool any more.

Fairness. `BlockFetch`: Twisted's `LoopingCall` keeps calling `try_process` (weak fairness), and
each request ends with an answer or an error (weak fairness per transaction). `Proposer`: the
same, and the raft thread ticks for ever and gets its blocks committed, as long as the node
leads; strong fairness because in a `Serial` run each thread disables the other now and then.
Nothing is assumed about clients, broadcasts or restarts.

## 4. Proofs

Each theorem holds for every value of the module's constants, thus for any number of
transactions, nodes, peers, blocks and restarts and for every bound. The bounds on queues, terms and logs stay in the guards, and the
proofs use no more of them than that they are numbers. Every module's `ASSUME` is
evaluated by TLC in the runs of that module.

| module | theorem | states | provided that |
|---|---|---|---|
| `LedgerProofs` | `TypeCorrect` | `TypeOK` | |
| | `SpentStaysSpent` | `SpentForever` | `Serial` |
| | `IndexesExact` | `IndexExact` | `Serial` |
| | `CoinsSpentOnce` | `NoDoubleSpend` | `Serial` |
| | `ClaimsAreFlagged` | `ClaimsSpent` | `Serial` |
| | `StoredXorPending` | `StoredOrPending` | `Serial` |
| | `ChannelRule` | `NewestWins` | `Serial` |
| | `CoinsAccountedFor` | `CoinsAccounted` | `Serial` |
| | `CoinsNeverCreated` | `NoInflation` | `Serial`; no transaction lists an outpoint twice |
| | `BalancesComplete` | `BalancesAddUp` | `Serial`; finitely many keys |
| `LedgerStepsProofs` | `ClaimedOnce` | `OneClaim` | `Serial` |
| | `ClaimsGetFlagged` | `ClaimsFlagged` | `Serial` |
| | `FlagsNeverTurnBack` | `FlagsStayDown` | `Serial` |
| | `TurnsLookAtomic` | `TurnsAtomic`: implements `LedgerCrash` | `Serial` |
| `ReplicasProofs` | `ReplicaTypes` | `TypeOK` | |
| | `ReplicasAgree` | `Agreement` | |
| | `FollowsOneLedger` | `OneLedger`: implements `SharedLedger` | |
| | `ForgetsOnlyTheReplaced` | `ForgottenOnlyWhenReplaced` | |
| `RaftProofs` | `RaftTypes` | `TypeOK` | |
| | `OneLeaderPerTerm` | `ElectionSafety` | fixed, nonempty cluster; until the first restart |
| | `LogsMatch` | `LogMatching` | the same |
| | `CommandsAppliedOnce` | `AppliedOnce` | |
| | `CallbacksCalledOnce` | the first half of `CallbackKept`: no callback is lodged in two places or called twice | |
| | `CallbacksKept` | `CallbackKept` | no thread has ended with the assertion on an answer |
| | `OthersTrackLog` | `OthersFollowLog` | no node is the subject of two changes (`ChangedOnce`) |
| `BlockFetchProofs` | `FetchTypes` | `TypeOK` | |
| | `BlocksInTurn` | `InTurn` | |
| | `LackIsListed` | `UnlockedListed` | |
| | `OneChainSuffices` | `InLogOrder`, `NoStrayRequests`, `StillAsking` | no block lacks two transactions when they are asked for (`OneLacking`), and `update_pend` takes none of a waiting block's others from the mempool (`KeepsOthers`) |
| | `SinglesInLogOrder`, `SinglesLeaveNoRequests`, `SinglesKeepAsking` | `SinglesInOrder`, `SinglesNoStray`, `SinglesAsking` | |
| `ProposerProofs` | `ProposerTypes` | `TypeOK` | |
| | `ListNamesMempool` | `ListIsMempool` | `Serial` |
| | `NoneProposedUnasked` | `ProposedOncePerPut` | `Serial` |

The conditions are those under which the code is right. Where they do not hold TLC has counterexamples
(§3): `ledger_threads` and `ledger_lost_update` without `Serial`, `ledger_repeated_input` with an input
listed twice, `fetch_two_missing` with two missing transactions, `fetch_update_pend` without `KeepsOthers`, `raft_restart` and `raft_changes_split` with restarts and with two changes of the
cluster.

**The ledger.** A turn of a loop is atomic in `Ledger`. `TypeOK` becomes inductive with one more
fact, that a block being processed is still at the head of the queue (`TypeInv`).
`NoDoubleSpend`, `ClaimsSpent` and `StoredOrPending` are not inductive alone: that a new claim meets no old one
follows from the flags; that the flags may be skipped for a replacement follows from the
absence of double claims; that a maturing transaction is not stored yet follows from
`StoredOrPending`. `Sound` is their conjunction, and `LedgerInv` adds `SweepCurrent`: what is left
of `update_pend`'s snapshot is what the pending database still says. `SweepCurrent` is what
`ledger_threads` shows to fail when the threads interleave. `TxnStoreProofs` has the lemmas
about the store's functions: which fields each changes, that each keeps a store well
formed, that accepting (`AcceptSound`) and maturing (`MatureSound`) keep it sound.

The indexes are exact because every function that changes a flag or
the pending database changes the index with it (`IndexInv`). That a turn reads and writes a flag in one step is
what `Serial` stands for here: where the threads meet in a turn, a lost update turns a flag back whose
index entry is gone (`ledger_lost_update`). A restart rebuilds the index of
unspent outputs from what is stored and thereby lists spent ones; what remains true is that no unspent one is
missing. For the supply, `SupplyInv` adds that no accepted transaction pays out more than `verify_txn` counts for
its inputs, and that what is claimable is not worth more than the coinbase and the `Surplus`: what accepted transactions
counted more than once. With inputs that are listed once there is no surplus, hence `CoinsNeverCreated`. `FoldLemmas` proves what is needed of sums over finite
sets. `BalancesAddUp` is a sum over keys of
sums over the coins each key's index lists. `WorthAddsUp` exchanges the two by induction over the coins: one more
coin adds its share to each key's balance (`BalanceAdd`), and its shares add up to its amount, twice to
one owner or once to each of two, by the cases of `get_balance` (`SharesAddUp`). Besides exact indexes this needs only that a store
is finite. Natural induction needs an operator as parameter, which the provers cannot
instantiate; `FoldLemmas` inducts over the set of numbers for which a statement holds instead
(`NatSetInduction`).

**Single writes.** `StepsInv` describes the store in the middle of a turn. Either no turn is under way
and the store is sound, or exactly one thread is in the turn of one transaction, and the steps it has
still to make tell how far it is: `Displacing`, `Announcing`, `Maturing`, `Checking`, `Storing`, `Finishing`. Each stage says what the store
is short of being sound, namely the flags that the remaining steps set (`Pledged`), and
what the thread's copy of a wrapper still has in common with the database, on which
`FlagsStayDown` depends. The process may end at any stage. Ending in `Storing` after the wrapper
was written leaves a transaction whose claims are flagged only in part; if it is pending, a second claim of its coins may be
accepted later (`torn`). From then on the proof drops what depends on single claims, as `OneClaim`
does, and keeps the rest.

For the refinement it is not enough that the store is nearly sound: `CourseInv` says which store,
exactly, the turn under way has made of `before`, the store it began with. Accepting (`Accepting`) goes from `before`
through `DropReplaced` and, flag by flag, through `Spend(..., done)` to `Accept(before, t)`; maturing (`Ripening`) goes through
`DelFromPending` to what `MatureTxn` says. The abstract store is `before` until the last step of the turn, so that all
earlier steps stutter (`CourseOn`) and the last one is `ProcessNext` or `UpdatePend`. If the process ends in between,
the stores on the way are the torn states of `LedgerCrash`, one by one (`CrashCourse`).

**The cluster.** As long as a node's handlers do not overlap, which `Replicas` presumes, its store is sound
(`ClusterInv`), by the lemmas of `TxnStoreProofs`. A node in `steady`, which has processed each block before it applied the next and was never
restarted, is where the one execution of the log has been after as many steps (`Follows`).
The heart is `UpdatePendEffect`: whatever order `update_pend` takes the pending transactions in, the
databases come out the same, since in a sound store no two of them claim the same
outpoint. Hence stores that agree on time, stored and pending transactions go on agreeing
(`ProcessAlike`, `UpdatePendAlike`), and mempools and invalid transactions, in which nodes differ,
do not matter. For the refinement each step is shown to be a step of `SharedLedger` or
a stutter: `Commit` appends, the steps of steady nodes advance one reader, all others change nothing it sees. `Remembered` says of every processed transaction
that it is known or has been displaced by a newer version.

**Raft.** `Sound` in `RaftProofs` is about the nodes and every message under way. It has two parts. One holds always: types, places in the log
that a message may name, and (`Counting`) that `votesCount` counts voters. The code keeps a mere number; it is right
because between a candidate and a node at most one request or answer of the candidate's term is under way, and none once the vote has been counted. The other part holds as long as
no restart and no change of the membership has happened: `Voting` (a vote under way, or counted, was cast), `Leading` (a leader has the votes of a majority, and two
majorities share a node), `Writing` (up to an entry of term t every log, and every
`append_entries` message, agrees with what the leader of t has written). The votes cast, the leaders elected and what each has written are not variables of `Raft`, since the code forgets them; they are
quantified in the invariant and each step's proof names their new values. A restart must be excluded because the journal
is in memory: a restarted node votes again in the same term. `raft_three` checks the same two
properties with one removal.

`CommandsAppliedOnce` has no such condition. `Placing` follows a command on its way. Until a
leader appends it, it is pending in exactly one place: not submitted, in a queue or in an `apply_command`
message (`Alone`); a broken connection and a full queue may lose it, but nothing duplicates it, because `_checkCommandsToApply` forwards
what it has taken off its queue and never tries again. When a leader appends it, its index is fixed once and for all:
no log, no applied prefix and no `append_entries` message under way has it at another index
(`Indexed`, `Brings`), whatever is truncated, overwritten and sent again, since a follower stores an entry at the index it
has in the message. That is why restarts and changes of the membership, which break `LogMatching`, do
not break this. Different nodes may still apply a command at different times or not at all.

A callback never leaves the node that its command was submitted to. There it is in the queue, among the requests
that wait for an answer, among the entries that wait for their index, or it has been called
(`Holds`); each operator of the model hands it from one place to one place (`Hands`), so that
`CallbacksCalledOnce` has no condition at all. Two facts carry this. Requests that wait have
different ids (`Numbered`), so that an answer takes at most one callback along, even if it answers
another request. And a command that is forwarded for a callback carries an id other than 0
(`Marked`), so that the node that takes it out of the message queues it without one. For
`CallbacksKept` something must be held back as well as not doubled (`Keeping`). A restart loses what the node holds,
which `CallbackKept` says itself. The only other place where a callback is dropped is `_onMessageReceived`: it has popped the
request when the assertion on the answer's index ends the thread (`NeverEnded`,
`raft_request_ids`). That is the condition of the theorem.

`OthersTrackLog` says that a node's list is always the one its log describes (`Following`). A leader appends a change only if it
did not refuse it; if no other change has the same subject, that makes it a change of the
initial list (`Effective`), which moves a node between `Listing(n, S)` and `Listing(n, S \union {c})` whatever else
is in force and in whatever order things are done (`ChangeLists`). A change has one index, by the `Placing` of
`CommandsAppliedOnce`; hence a change that a follower deletes is nowhere else in its log, and one that it
takes was not in it. A restarted node begins with the list it is told and an empty log. Under this
condition the theorem needs neither `LogMatching` nor `ElectionSafety`, so it covers restarts and the
two removals of `raft_changes_split`, which `raft_three`, with its one removal and no restart, does not reach.

**Fetching.** `InTurn` is inductive with the fact that `current_block`, while in use, is the head of the
queue (`Turn`). `UnlockedListed` says that nothing without a time lock is ever missing unnoticed; of a time-locked
transaction this is false (`fetch_update_pend`). `InLogOrder`, `NoStrayRequests` and `StillAsking` are false in general
(`fetch_two_missing`). `OneChainSuffices` proves them under an action formula about `try_process` and
`add_block_to_queue` (`OneLacking`, `KeepsOthers`), along the
invariant that nothing is asked for, or there is exactly one chain of requests, about the head of the queue, or `process_block`
has raised (`OneChain`). While the log has no block of two transactions (`Singles`) both hold by themselves:
the head of the queue is a block of the log, it lacks one transaction at most, and that is the one asked for. belcoin's
blocks have up to 5000.

**Proposal.** `ListIsMempool` follows from what `mempool_list` and the mempool
database have in common before and after each access (`Listed`), transaction by transaction. It needs `Serial`: otherwise
`update_pend` may delete from the database what the reactor thread is about to delete or to list. `ProposedOncePerPut` needs
`OneUnderWay`: a leader that inherits no block has one block of its own under way
at most, and `adding_block` covers it until `try_process` has taken it off the queue; by the time it is processed
its transactions have left the list, and each may be listed again only by another put.

Model-checked only:

* liveness (`SinglesProcessed`, `ListedProcessed`): TLAPS does not handle fairness;
* of `Raft`: `OthersFollowLog` where a node is removed and added again (`raft_readd`), whose changes have to be undone in
  reverse order; a proof of this needs `LogMatching` just where that fails,
  when the membership changes (`raft_changes_split`); and
  `StateMachineSafety`, `LeaderCompleteness`, `OutcomeTold` and `NeverEnded`, which are true in the passing
  runs and not in general: entries of old terms are committed by counting (`raft_figure8`), a
  restart loses log and vote (`raft_restart`, `raft_request_ids`).


## 5. Not modelled

* **Snapshots and compaction, file journal, batteries, read-only nodes, code versions** of the raft
  library. belcoin's configuration reaches none of them: compaction is commented out in `_onTick`
  (`syncobj.py:704`), no `journalFile` or `fullDumpFile` is configured (`storage.py:45`), no battery is
  created, no node joins as `readonly`, `setCodeVersion` is never called.
* **Entries sent in pieces** because they are larger than a batch. With batches of 1 MB and blocks
  of 5000 ids (`config.py:14`) they do not occur.
* **Sockets, polling, encryption, pickling**: ordered links that may break. **gRPC, clients, admin
  tool**: queries and wrappers of `puttxn`. **Layout of printed balances.**
* **The composition of `Raft` with `Replicas`.** `Replicas` takes from raft a log that only grows, which is
  what `StateMachineSafety` says; both in one state space are beyond TLC.
* **A lost update on the in-memory indexes.** CPython's interpreter lock makes each `add` and `remove`
  on a set atomic, so that a step of `LedgerSteps` includes the index it belongs to.

## 6. Plan

Done: the store, the ledger, crashes and single writes, fetching, the cluster, raft with callbacks
and membership, proposal with restarts; proofs about each of them (§4).

Left to TLC (end of §4): liveness, the lists of a cluster to which a removed node returns, and
what is false in general and true under the bounds of its run.
