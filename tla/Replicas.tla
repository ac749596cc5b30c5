------------------------------ MODULE Replicas ------------------------------
(***************************************************************************)
(* Several belcoin nodes fed by one raft log of blocks.  Raft is taken as  *)
(* what module Raft is about: a log that grows at its end and that every   *)
(* node applies from the front.  Each node does two things per block, in   *)
(* two threads: it applies the entry (add_block_to_queue: expired pending  *)
(* transactions mature, the block joins block_queue) and, some time later, *)
(* processes it.  The two are steps here: neither thread's loop over its   *)
(* transactions is interrupted by the other's.  The code has no lock that  *)
(* sees to it, and module LedgerSteps shows what happens when they overlap *)
(* on one node; this module is about what several nodes make of one log    *)
(* when that does not happen.                                              *)
(***************************************************************************)
EXTENDS TxnStore, SequencesExt

CONSTANTS
    Node,
    MaxTime,      \* block times are 0 .. MaxTime
    BlockSize,    \* BLOCK_SIZE: the most transactions in a block
    MaxBlocks,    \* bound on the length of the log
    MaxQueue,     \* bound on a node's block_queue
    MaxRestarts   \* bound on the number of restarts

ASSUME ReplicasAssumption ==
    MaxTime \in Nat /\ BlockSize \in Nat /\ MaxBlocks \in Nat /\ MaxQueue \in Nat /\ MaxRestarts \in Nat

VARIABLES
    log,        \* the committed blocks
    store,      \* store[n]: the record of module TxnStore
    applied,    \* applied[n]: how much of the log n has applied
    processed,  \* processed[n]: how much of the log n has processed
    restarts,   \* number of restarts so far
    steady      \* history: the nodes that were never restarted and never had
                \* two blocks in their queue

vars == <<log, store, applied, processed, restarts, steady>>

\* The beginning of the proposer's mempool_list, which may be empty.
Block == [time : 0 .. MaxTime,
          txns : {list \in SeqOf(Txn \ Genesis, BlockSize) : IsInjective(list)}]

\* As UpdatePend, but forgotten.
UpdatePendNever(s) == s

\* update_pend, with the entries of its snapshot in any order: maturing one
\* does not change what happens to the others.
UpdatePend(s) == FoldSet(LAMBDA p, acc : MatureTxn(acc, p, s.pend[p]), s, DOMAIN s.pend)

\* As ProcessBlock, but with the time of whatever block came before.
ProcessBlockOldTime(s, b) ==
    FoldLeft(ProcessTxn, [s EXCEPT !.mempool = @ \union Range(b.txns)], b.txns)

\* try_process and process_block on a block whose transactions have arrived.
ProcessBlock(s, b) ==
    FoldLeft(ProcessTxn, [s EXCEPT !.now = b.time, !.mempool = @ \union Range(b.txns)], b.txns)

Init ==
    /\ log = << >>
    /\ store = [n \in Node |-> EmptyStore]
    /\ applied = [n \in Node |-> 0]
    /\ processed = [n \in Node |-> 0]
    /\ restarts = 0
    /\ steady = Node

\* Raft commits a block.
Commit(b) ==
    /\ Len(log) < MaxBlocks
    /\ log' = Append(log, b)
    /\ UNCHANGED <<store, applied, processed, restarts, steady>>

\* As Apply, but of an entry that is not there yet.
ApplyAhead(n) ==
    /\ applied[n] - processed[n] < MaxQueue
    /\ store' = [store EXCEPT ![n] = UpdatePend(@)]
    /\ applied' = [applied EXCEPT ![n] = @ + 1]
    /\ steady' = {m \in steady : applied'[m] - processed[m] <= 1}
    /\ UNCHANGED <<log, processed, restarts>>

\* The raft thread of n applies the next entry.
Apply(n) ==
    /\ applied[n] < Len(log)
    /\ applied[n] - processed[n] < MaxQueue
    /\ store' = [store EXCEPT ![n] = UpdatePend(@)]
    /\ applied' = [applied EXCEPT ![n] = @ + 1]
    /\ steady' = {m \in steady : applied'[m] - processed[m] <= 1}
    /\ UNCHANGED <<log, processed, restarts>>

\* The reactor thread of n looks at the next block and finds a transaction
\* missing: the node's time is already the block's.
Backoff(n) ==
    /\ processed[n] < applied[n]
    /\ store' = [store EXCEPT ![n].now = log[processed[n] + 1].time]
    /\ UNCHANGED <<log, applied, processed, restarts, steady>>

\* The reactor thread of n processes the next block.
Process(n) ==
    /\ processed[n] < applied[n]
    /\ store' = [store EXCEPT ![n] = ProcessBlock(@, log[processed[n] + 1])]
    /\ processed' = [processed EXCEPT ![n] = @ + 1]
    /\ UNCHANGED <<log, applied, restarts, steady>>

\* n is stopped and started again.  Its databases survive, its raft log does
\* not: raft hands it the whole log from the first block on.
Restart(n) ==
    /\ restarts < MaxRestarts
    /\ restarts' = restarts + 1
    /\ steady' = steady \ {n}
    /\ store' = [store EXCEPT ![n] = Reopen(@)]
    /\ applied' = [applied EXCEPT ![n] = 0]
    /\ processed' = [processed EXCEPT ![n] = 0]
    /\ UNCHANGED log

Next ==
    \/ \E b \in Block : Commit(b)
    \/ \E n \in Node : Apply(n)
    \/ \E n \in Node : Backoff(n)
    \/ \E n \in Node : Process(n)
    \/ \E n \in Node : Restart(n)

Spec == Init /\ [][Next]_vars

-----------------------------------------------------------------------------
\* The types of the variables; nobody is ahead of the log or of itself.
TypeOK ==
    /\ log \in Seq(Block)
    /\ \A n \in Node : /\ store[n].now \in 0 .. MaxTime
                       /\ DOMAIN store[n].db \subseteq Txn
                       /\ DOMAIN store[n].pend \subseteq Txn
                       /\ store[n].mempool \union store[n].invalid \subseteq Txn
    /\ \A n \in Node : 0 <= processed[n] /\ processed[n] <= applied[n]
                       /\ applied[n] <= Len(log)
    /\ restarts \in 0 .. MaxRestarts
    /\ steady \subseteq Node

\* Two nodes that have come equally far in the same log hold the same
\* transactions, with the same timestamps and the same spent flags: what
\* consensus on the blocks is for.  It holds for nodes that process each block
\* before they apply the next, in threads that do not overlap.
Agreement ==
    \A m, n \in steady :
        applied[m] = applied[n] /\ processed[m] = processed[n]
            => store[m].db = store[n].db /\ store[m].pend = store[n].pend

\* The same for nodes of any pace.
AgreementAtAnyPace ==
    \A m, n \in Node :
        applied[m] = applied[n] /\ processed[m] = processed[n]
            => store[m].db = store[n].db /\ store[m].pend = store[n].pend

\* Two nodes that have processed all of the log agree, even if one of them was
\* restarted on the way and went through the log, or a part of it, twice.
AgreementWhenCaughtUp ==
    \A m, n \in Node :
        processed[m] = Len(log) /\ processed[n] = Len(log)
            => store[m].db = store[n].db /\ store[m].pend = store[n].pend

\* What a node answers when a peer asks for a transaction of a block that the
\* node has processed: 0 (it does not know it) only if the transaction was
\* pending and a newer version has displaced it.  Everything else it can hand
\* out, fails to hand out (from pend), or has marked invalid.  On an answer of 0
\* the peer keeps asking for as long as its block waits.
ForgottenOnlyWhenReplaced ==
    \A n \in steady : \A i \in 1 .. processed[n] : \A t \in Range(log[i].txns) :
        ReqTxn(store[n], t) = "unknown"
            => \E q \in Accepted(store[n]) \union store[n].invalid :
                  Inputs[q] = Inputs[t] /\ SeqNo[q] > SeqNo[t]

\* A node hands out every transaction it has stored.
HandsOutStored ==
    \A n \in Node : \A t \in DOMAIN store[n].db : ReqTxn(store[n], t) = "txn"

\* A node never answers 0 for a transaction of a block that it has processed.
NeverForgotten ==
    \A n \in steady : \A i \in 1 .. processed[n] : \A t \in Range(log[i].txns) :
        ReqTxn(store[n], t) # "unknown"

-----------------------------------------------------------------------------
(***************************************************************************)
(* The abstract system: one ledger that its readers follow at their own    *)
(* pace.  A node that is restarted or queues two blocks leaves it.         *)
(***************************************************************************)
Shared == INSTANCE SharedLedger
            WITH readers <- steady,
                 position <- [n \in steady |-> applied[n] + processed[n]],
                 view <- [n \in steady |-> [db |-> store[n].db, pend |-> store[n].pend]]

\* A cluster of steady nodes is indistinguishable from one ledger: each node
\* goes through the states of a single sequential execution of the log.
OneLedger == Shared!Spec
=============================================================================
