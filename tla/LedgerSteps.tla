---------------------------- MODULE LedgerSteps -----------------------------
(***************************************************************************)
(* The ledger of module Ledger at the grain of its writes.  To accept a    *)
(* transaction, or to let one mature, a thread makes one LevelDB put or    *)
(* delete after the other; to flag an output as spent it reads a whole     *)
(* TxnWrapper, changes one flag and writes the wrapper back.  The process  *)
(* may end between any two of these steps; with Serial = FALSE the other   *)
(* thread may run there too.                                               *)
(*                                                                         *)
(* What a thread still has to write is a list of steps.  Each step also    *)
(* updates the in-memory index that goes with it.                          *)
(***************************************************************************)
EXTENDS Ledger, SequencesExt

VARIABLES
    plan,     \* plan[th]: the steps that thread th has still to make
    copy,     \* copy[th]: the TxnWrapper that thread th has read
    before,   \* history: the store when the plan under way was begun
    torn      \* history: the process ended between the write of a pending
              \* transaction and that of its last spent flag

stepVars == <<plan, copy, before, torn>>

allVars == <<vars, stepVars>>

Thread == {"reactor", "raft"}

Step(op, t, ts) == [op |-> op, txn |-> t, ts |-> ts]

\* The loop over the inputs, in process_block and in write_txn_to_db.  A second
\* entry for an outpoint would only write the same flag and index again.
FlagInputs(t) ==
    LET outs == SetToSeq(Inputs[t])
    IN  [i \in 1 .. 2 * Len(outs) |->
            [op |-> IF i % 2 = 1 THEN "read" ELSE "write", out |-> outs[(i + 1) \div 2]]]

\* As WriteToDb, but the transaction goes first.
WriteToDbTxnFirst(t, ts) == <<Step("putdb", t, ts)>> \o FlagInputs(t)

WriteToDb(t, ts) == FlagInputs(t) \o <<Step("putdb", t, ts)>>

\* As WriteToPend, but no flag is touched until the lock expires.
WriteToPendOnly(t, ts) == <<Step("putpend", t, ts)>>

WriteToPend(t, ts) == <<Step("putpend", t, ts)>> \o FlagInputs(t)

\* As AcceptSteps, but what t replaces stays in pend.
AcceptStepsKeeping(s, t) ==
    (IF Timelock[t] > 0 THEN WriteToPend(t, s.now) ELSE WriteToDb(t, s.now))
    \o <<Step("processed", t, 0)>>

\* What process_block and the end of verify_txn write for an accepted t.
AcceptSteps(s, t) ==
    (IF Conflicts(s, t) = {} THEN << >> ELSE <<Step("delpend", Conflict(s, t), 0)>>)
    \o (IF Timelock[t] > 0 THEN WriteToPend(t, s.now) ELSE WriteToDb(t, s.now))
    \o <<Step("processed", t, 0)>>

StepsInit ==
    /\ Init
    /\ plan = [th \in Thread |-> << >>]
    /\ copy = [th \in Thread |-> << >>]
    /\ before = EmptyStore
    /\ torn = FALSE

Idle(th) == plan[th] = << >>

-----------------------------------------------------------------------------
\* The steps of module Ledger that change the store with one write, or none.
Whole ==
    /\ \/ Idle("reactor") /\ (\/ \E t \in Txn \ Genesis : PutTxn(t)
                              \/ TryProcessBackoff
                              \/ TryProcess
                              \/ FinishBlock)
       \/ (Serial => Idle("reactor")) /\ \E b \in Block : AddBlockToQueue(b)
       \/ Idle("raft") /\ EnqueueBlock
    /\ UNCHANGED stepVars

\* process_block turns to the next transaction: verify_txn.
BeginTxn ==
    /\ ReactorMayRun
    /\ Idle("reactor")
    /\ processing
    /\ todo # << >>
    /\ \/ /\ VerifyTxn(store, Head(todo), TRUE)
          /\ before' = store
          /\ plan' = [plan EXCEPT !["reactor"] = AcceptSteps(store, Head(todo))]
          /\ UNCHANGED <<store, todo>>
       \/ /\ ~VerifyTxn(store, Head(todo), TRUE)
          /\ store' = Reject(store, Head(todo))
          /\ todo' = Tail(todo)
          /\ UNCHANGED <<plan, before>>
    /\ UNCHANGED <<blockQueue, processing, applying, sweep, applied, restarts, copy, torn>>

\* update_pend turns to the next entry of its snapshot.
BeginMature(p) ==
    /\ Idle("raft")
    /\ \/ /\ LockExpired(store, p, sweep[p])
          /\ before' = store
          /\ plan' = [plan EXCEPT !["raft"] = <<Step("delpend", p, 0), Step("verify", p, sweep[p])>>]
          /\ UNCHANGED sweep
       \/ /\ ~LockExpired(store, p, sweep[p])
          /\ sweep' = [q \in DOMAIN sweep \ {p} |-> sweep[q]]
          /\ UNCHANGED <<plan, before>>
    /\ UNCHANGED <<store, blockQueue, todo, processing, applying, applied, restarts, copy, torn>>

\* Thread th is about to make a step of kind op, and makes it.
Makes(th, op) ==
    /\ ~Idle(th)
    /\ Head(plan[th]).op = op
    /\ th = "reactor" => ReactorMayRun
    /\ plan' = [plan EXCEPT ![th] = Tail(@)]
    /\ before' = IF Len(plan[th]) = 1 THEN EmptyStore ELSE before
    /\ UNCHANGED <<blockQueue, processing, applying, applied, restarts, torn>>

DelPend(th) ==
    /\ Makes(th, "delpend")
    /\ store' = DelFromPending(store, Head(plan[th]).txn)
    /\ UNCHANGED <<todo, sweep, copy>>

PutPend(th) ==
    /\ Makes(th, "putpend")
    /\ store' = PutInPend(store, Head(plan[th]).txn, Head(plan[th]).ts)
    /\ UNCHANGED <<todo, sweep, copy>>

PutDb(th) ==
    /\ Makes(th, "putdb")
    /\ store' = PutInDb(store, Head(plan[th]).txn, Head(plan[th]).ts)
    /\ UNCHANGED <<todo, sweep, copy>>

ReadWrapper(th) ==
    /\ Makes(th, "read")
    /\ copy' = [copy EXCEPT ![th] = <<store.db[Head(plan[th]).out[1]]>>]
    /\ UNCHANGED <<store, todo, sweep>>

\* As WriteWrapper, but on a wrapper made anew.
WriteWrapperFresh(th) ==
    /\ Makes(th, "write")
    /\ LET o == Head(plan[th]).out
       IN  store' = [store EXCEPT
                        !.db[o[1]] = [TxnWrapper(o[1], copy[th][1].ts) EXCEPT !.utxos = @ \ {o[2]}],
                        !.pubOuts = [k \in PubKey |-> @[k] \ {o}]]
    /\ copy' = [copy EXCEPT ![th] = << >>]
    /\ UNCHANGED <<todo, sweep>>

WriteWrapper(th) ==
    /\ Makes(th, "write")
    /\ LET o == Head(plan[th]).out
       IN  store' = [store EXCEPT
                        !.db[o[1]] = [copy[th][1] EXCEPT !.utxos = @ \ {o[2]}],
                        !.pubOuts = [k \in PubKey |-> @[k] \ {o}]]
    /\ copy' = [copy EXCEPT ![th] = << >>]
    /\ UNCHANGED <<todo, sweep>>

\* update_pend has taken p out of pend, and verifies it.
VerifyMature ==
    /\ ~Idle("raft")
    /\ Head(plan["raft"]).op = "verify"
    /\ LET p == Head(plan["raft"]).txn
           swept == <<Step("swept", p, 0)>>
       IN  \/ /\ VerifyTxn(store, p, FALSE)
              /\ plan' = [plan EXCEPT !["raft"] = WriteToDb(p, Head(@).ts) \o swept]
              /\ UNCHANGED store
           \/ /\ ~VerifyTxn(store, p, FALSE)
              /\ store' = Reject(store, p)
              /\ plan' = [plan EXCEPT !["raft"] = swept]
    /\ UNCHANGED <<blockQueue, todo, processing, applying, sweep, applied, restarts,
                   copy, before, torn>>

\* The last act of a turn of process_block's loop: remove_from_mempool.
Processed(th) ==
    /\ Makes(th, "processed")
    /\ store' = RemoveFromMempool(store, Head(plan[th]).txn)
    /\ todo' = Tail(todo)
    /\ UNCHANGED <<sweep, copy>>

\* update_pend's loop goes on.
Swept(th) ==
    /\ Makes(th, "swept")
    /\ sweep' = [q \in DOMAIN sweep \ {Head(plan[th]).txn} |-> sweep[q]]
    /\ UNCHANGED <<store, todo, copy>>

\* The process ends between any two steps and a new one opens the databases.
Crash ==
    /\ Restart
    /\ plan' = [th \in Thread |-> << >>]
    /\ copy' = [th \in Thread |-> << >>]
    /\ torn' = (torn \/ \E i \in DOMAIN plan["reactor"] :
                           /\ plan["reactor"][i].op = "write"
                           /\ todo # << >>
                           /\ Head(todo) \in DOMAIN store.pend)
    /\ before' = EmptyStore

StepsNext ==
    \/ Whole
    \/ BeginTxn
    \/ \E p \in DOMAIN sweep : BeginMature(p)
    \/ \E th \in Thread : DelPend(th) \/ PutPend(th) \/ PutDb(th) \/ ReadWrapper(th)
                          \/ WriteWrapper(th) \/ Processed(th) \/ Swept(th)
    \/ VerifyMature
    \/ Crash

StepsSpec == StepsInit /\ [][StepsNext]_allVars

-----------------------------------------------------------------------------
\* Wherever the process ends, no outpoint is claimed by two accepted
\* transactions, and no thread is about to accept a second claim.  The one
\* exception is an end between the write of a pending transaction and that of
\* its spent flags.
OneClaim == ~torn => NoDoubleSpendIn(store)

\* An output claimed by an accepted transaction is flagged as spent, or the
\* thread that accepts the transaction is just about to flag it.
ClaimsFlagged ==
    ~torn => \A t \in Accepted(store) : \A o \in Inputs[t] :
        \/ o[1] \in DOMAIN store.db /\ o[2] \notin store.db[o[1]].utxos
        \/ \E th \in Thread : [op |-> "write", out |-> o] \in ToSet(plan[th])

\* No write of a wrapper turns the flag of a spent output back to True.
FlagsStayDown ==
    [][\A t \in DOMAIN store.db :
          t \in DOMAIN store'.db /\ store'.db[t].utxos \subseteq store.db[t].utxos]_allVars

\* The coarse ledger: a turn of a loop happens at its last step.
Turns == INSTANCE LedgerCrash
           WITH store <- IF \A th \in Thread : Idle(th) THEN store ELSE before

\* As long as the threads do not meet, the writes of a turn look like one: a
\* reader sees what module Ledger says or, after a crash, one of the torn
\* states of module LedgerCrash.
TurnsAtomic == Turns!CrashSpec
=============================================================================
