---------------------------- MODULE SharedLedger ----------------------------
(***************************************************************************)
(* What a replicated ledger promises: there is one sequential execution of *)
(* the log of blocks, and every reader goes through its states in order.   *)
(* Each block takes the execution two steps: first the pending             *)
(* transactions whose lock has expired mature, then the block's own        *)
(* transactions are processed.                                             *)
(***************************************************************************)
EXTENDS TxnStore, SequencesExt

CONSTANTS Node, MaxTime, BlockSize

VARIABLES
    log,       \* the blocks so far
    readers,   \* the nodes that follow the ledger
    position,  \* position[n]: the number of steps node n has seen
    view       \* view[n]: the databases node n shows

vars == <<log, readers, position, view>>

Block == [time : 0 .. MaxTime,
          txns : {list \in SeqOf(Txn \ Genesis, BlockSize) : IsInjective(list)}]

Mature(s) == FoldSet(LAMBDA p, acc : MatureTxn(acc, p, s.pend[p]), s, DOMAIN s.pend)

Execute(s, b) == FoldLeft(ProcessTxn, [s EXCEPT !.now = b.time], b.txns)

\* The states of the sequential execution of a log.
Execution(blocks) ==
    LET state[k \in 0 .. 2 * Len(blocks)] ==
            IF k = 0 THEN EmptyStore
            ELSE IF k % 2 = 1 THEN Mature(state[k - 1])
            ELSE Execute(state[k - 1], blocks[k \div 2])
    IN  state

Databases(s) == [db |-> s.db, pend |-> s.pend]

Init ==
    /\ log = << >>
    /\ readers = Node
    /\ position = [n \in Node |-> 0]
    /\ view = [n \in Node |-> Databases(EmptyStore)]

Extend ==
    /\ \E b \in Block : log' = Append(log, b)
    /\ UNCHANGED <<readers, position, view>>

Advance(n) ==
    /\ position[n] < 2 * Len(log)
    /\ position' = [position EXCEPT ![n] = @ + 1]
    /\ view' = [view EXCEPT ![n] = Databases(Execution(log)[position[n] + 1])]
    /\ UNCHANGED <<log, readers>>

\* A node stops following the ledger.
Leave(n) ==
    /\ readers' = readers \ {n}
    /\ position' = [m \in readers' |-> position[m]]
    /\ view' = [m \in readers' |-> view[m]]
    /\ UNCHANGED log

Next == Extend \/ \E n \in readers : Advance(n) \/ Leave(n)

Spec == Init /\ [][Next]_vars
=============================================================================
