---------------------------- MODULE LedgerProofs ----------------------------
(***************************************************************************)
(* Proofs about module Ledger, for every set of transactions, every bound  *)
(* and any number of restarts.  What the theorems say of the code is said  *)
(* of Serial executions: a turn is one step here, and only where the two   *)
(* threads' loops do not overlap is it one step of the code as well.       *)
(***************************************************************************)
EXTENDS Ledger, TxnStoreProofs

\* A block's list of transactions is a sequence of transactions to process.
LEMMA BlockTxns ==
    ASSUME NEW b \in Block PROVE b.txns \in Seq(Txn \ Genesis) /\ b.time \in Nat
<1>1. PICK n \in 0 .. BlockSize : b.txns \in [1 .. n -> Txn \ Genesis]
  BY DEF Block
<1>2. n \in Nat
  BY LedgerAssumption
<1>3. b.time \in 0 .. MaxTime
  BY DEF Block
<1> QED
  BY <1>1, <1>2, <1>3, LedgerAssumption

\* The inductive strengthening of TypeOK: a block that is being processed is
\* still at the head of the queue.
TypeInv == TypeOK /\ (processing => blockQueue # << >>)

-----------------------------------------------------------------------------
(***************************************************************************)
(* Types, and what no step may do to the spent flags.                      *)
(***************************************************************************)

\* Every step keeps the store well formed, keeps every stored transaction and
\* raises no spent flag again.
LEMMA StoreStep ==
    ASSUME TypeInv, Next PROVE store' \in Store /\ Keeps(store, store')
<1> USE StoreIff, StampsIff DEF TypeInv, TypeOK
<1>1. ASSUME NEW t \in Txn \ Genesis, PutTxn(t)
      PROVE  store' \in Store /\ Keeps(store, store')
  BY <1>1, AddToMempoolType DEF PutTxn, Keeps
<1>2. ASSUME blockQueue # << >>, store' = [store EXCEPT !.now = Head(blockQueue).time]
      PROVE  store' \in Store /\ Keeps(store, store')
  <2>1. Head(blockQueue).time \in Nat
    BY <1>2, BlockTxns
  <2> QED
    BY <1>2, <2>1, RetimeType DEF Keeps
<1>3. CASE TryProcessBackoff
  BY <1>2, <1>3 DEF TryProcessBackoff
<1>4. CASE TryProcess
  BY <1>2, <1>4 DEF TryProcess
<1>5. CASE ProcessNext
  <2>1. Head(todo) \in Txn
    BY <1>5 DEF ProcessNext
  <2> QED
    BY <1>5, <2>1, ProcessEffect DEF ProcessNext
<1>6. CASE FinishBlock
  BY <1>6 DEF FinishBlock, Keeps
<1>7. ASSUME NEW b \in Block, AddBlockToQueue(b)
      PROVE  store' \in Store /\ Keeps(store, store')
  BY <1>7 DEF AddBlockToQueue, Keeps
<1>8. ASSUME NEW p \in DOMAIN sweep, UpdatePend(p)
      PROVE  store' \in Store /\ Keeps(store, store')
  <2>1. p \in Txn /\ sweep[p] \in Nat
    BY StampsElim
  <2> QED
    BY <1>8, <2>1, MatureEffect DEF UpdatePend
<1>9. CASE EnqueueBlock
  BY <1>9 DEF EnqueueBlock, Keeps
<1>10. CASE Restart
  BY <1>10, ReopenType DEF Restart, Keeps
<1> QED
  BY <1>1, <1>3, <1>4, <1>5, <1>6, <1>7, <1>8, <1>9, <1>10 DEF Next

\* No sweep is a sweep of nothing.
LEMMA NothingType == Nothing \in Stamps /\ DOMAIN Nothing = {}
<1>1. {} \in SUBSET Txn /\ [t \in {} |-> 0] \in [{} -> Nat]
  OBVIOUS
<1> QED
  BY <1>1, StampsIntro DEF Nothing

\* The empty queue and the empty list of work are well typed.
LEMMA NoBlocks == << >> \in Seq(Block) /\ << >> \in Seq(Txn \ Genesis)
  OBVIOUS

\* The first state is well typed.
LEMMA TypeInit == Init => TypeInv
<1> SUFFICES ASSUME Init PROVE TypeInv
  OBVIOUS
<1>1. store \in Store /\ sweep \in Stamps /\ DOMAIN sweep = {}
  BY EmptyStoreType, NothingType DEF Init
<1>2. applied \in 0 .. MaxBlocks /\ restarts \in 0 .. MaxRestarts
  BY LedgerAssumption DEF Init
<1> QED
  BY <1>1, <1>2, NoBlocks, StoreIff, StampsIff DEF Init, TypeInv, TypeOK

\* Every step of either thread, and every restart, keeps the types.
LEMMA TypeStep == TypeInv /\ [Next]_vars => TypeInv'
<1> SUFFICES ASSUME TypeInv, [Next]_vars PROVE TypeInv'
  OBVIOUS
<1> USE LedgerAssumption, StoreIff, StampsIff DEF TypeInv, TypeOK
<1>1. ASSUME Next PROVE store' \in Store
  BY <1>1, StoreStep
<1>2. ASSUME NEW t \in Txn \ Genesis, PutTxn(t) PROVE TypeInv'
  BY <1>1, <1>2 DEF PutTxn, Next
<1>3. CASE TryProcessBackoff
  BY <1>1, <1>3 DEF TryProcessBackoff, Next
<1>4. CASE TryProcess
  <2>1. Head(blockQueue) \in Block
    BY <1>4 DEF TryProcess
  <2>2. Head(blockQueue).txns \in Seq(Txn \ Genesis)
    BY <2>1, BlockTxns
  <2> QED
    BY <1>1, <1>4, <2>2 DEF TryProcess, Next
<1>5. CASE ProcessNext
  BY <1>1, <1>5 DEF ProcessNext, Next
<1>6. CASE FinishBlock
  <2>1. Tail(blockQueue) \in Seq(Block)
    BY <1>6 DEF FinishBlock
  <2>2. store' \in Store
    BY <1>1, <1>6 DEF Next
  <2> QED
    BY <1>6, <2>1, <2>2 DEF FinishBlock
<1>7. ASSUME NEW b \in Block, AddBlockToQueue(b) PROVE TypeInv'
  <2>1. store.pend \in Stamps
    BY DEF Store
  <2> QED
    BY <1>1, <1>7, <2>1 DEF AddBlockToQueue, Next
<1>8. ASSUME NEW p \in DOMAIN sweep, UpdatePend(p) PROVE TypeInv'
  <2> DEFINE D == DOMAIN sweep \ {p}
  <2>1. D \in SUBSET Txn /\ [q \in D |-> sweep[q]] \in [D -> Nat]
    BY StampsElim
  <2>2. [q \in D |-> sweep[q]] \in Stamps
    BY <2>1, StampsIntro
  <2>3. sweep' \in Stamps /\ applying # << >>
    BY <1>8, <2>2 DEF UpdatePend
  <2> QED
    BY <1>1, <1>8, <2>3 DEF UpdatePend, Next
<1>9. CASE EnqueueBlock
  BY <1>1, <1>9 DEF EnqueueBlock, Next
<1>10. CASE Restart
  <2>1. store' \in Store
    BY <1>1, <1>10 DEF Next
  <2>2. restarts' \in 0 .. MaxRestarts
    BY <1>10 DEF Restart
  <2> QED
    BY <1>10, <2>1, <2>2, NothingType, NoBlocks DEF Restart
<1>11. CASE UNCHANGED vars
  BY <1>11 DEF vars
<1> QED
  BY <1>2, <1>3, <1>4, <1>5, <1>6, <1>7, <1>8, <1>9, <1>10, <1>11 DEF Next

\* The node's variables keep their types, and update_pend only runs while a
\* block is being applied, in whatever order the turns are taken.
THEOREM TypeCorrect == Spec => []TypeOK
<1>1. TypeInv => TypeOK
  BY DEF TypeInv
<1> QED
  BY <1>1, TypeInit, TypeStep, PTL DEF Spec

\* When update_pend does not run alongside the reactor thread, no turn and no
\* restart turns the flag of a spent output back to unspent or loses a stored
\* transaction.
THEOREM SpentStaysSpent == ASSUME Serial PROVE Spec => SpentForever
<1> DEFINE A == \A t \in DOMAIN store.db :
          t \in DOMAIN store'.db /\ store'.db[t].utxos \subseteq store.db[t].utxos
<1>1. TypeInv /\ [Next]_vars => [A]_vars
  BY StoreStep DEF Keeps
<1>2. Spec => []TypeInv
  BY TypeInit, TypeStep, PTL DEF Spec
<1> QED
  BY <1>1, <1>2, PTL DEF Spec, SpentForever

-----------------------------------------------------------------------------
(***************************************************************************)
(* Soundness of Serial executions.  The snapshot that update_pend iterates *)
(* over must still be what the pending database says when an entry is      *)
(* reached: that is the part of the invariant that fails without Serial.   *)
(***************************************************************************)
SweepCurrent ==
    \A p \in DOMAIN sweep : p \in DOMAIN store.pend /\ sweep[p] = store.pend[p]

LedgerInv == TypeInv /\ Sound(store) /\ SweepCurrent

\* A store that holds only the coinbase is sound.
LEMMA SoundInit == Init => Sound(store) /\ SweepCurrent
<1> SUFFICES ASSUME Init PROVE Sound(store) /\ SweepCurrent
  OBVIOUS
<1>1. store = EmptyStore
  BY DEF Init
<1>2. SweepCurrent
  BY NothingType DEF SweepCurrent, Init
<1> QED
  BY <1>1, <1>2, EmptySound

\* Every step of a Serial execution keeps the store sound and the rest of
\* update_pend's snapshot up to date.
LEMMA SoundStep ==
    ASSUME Serial, LedgerInv, [Next]_vars PROVE Sound(store)' /\ SweepCurrent'
<1> USE StoreIff, StampsIff DEF LedgerInv, TypeInv, TypeOK
<1>1. ASSUME ReactorMayRun, sweep' = sweep PROVE SweepCurrent'
  <2>1. DOMAIN sweep = {}
    BY <1>1 DEF ReactorMayRun
  <2> QED
    BY <1>1, <2>1 DEF SweepCurrent
<1>2. ASSUME NEW t \in Txn \ Genesis, PutTxn(t) PROVE Sound(store)' /\ SweepCurrent'
  <2>1. store' \in Store /\ store'.db = store.db /\ store'.pend = store.pend
    BY <1>2, AddToMempoolType DEF PutTxn
  <2> QED
    BY <1>1, <1>2, <2>1, SameDatabases DEF PutTxn
<1>3. ASSUME blockQueue # << >>, store' = [store EXCEPT !.now = Head(blockQueue).time]
      PROVE  Sound(store)'
  <2>1. Head(blockQueue).time \in Nat
    BY <1>3, BlockTxns
  <2>2. store' \in Store /\ store'.db = store.db /\ store'.pend = store.pend
    BY <1>3, <2>1, RetimeType
  <2> QED
    BY <2>2, SameDatabases
<1>4. CASE TryProcessBackoff
  BY <1>1, <1>3, <1>4 DEF TryProcessBackoff
<1>5. CASE TryProcess
  BY <1>1, <1>3, <1>5 DEF TryProcess
<1>6. CASE ProcessNext
  <2>1. Head(todo) \in Txn \ Genesis
    BY <1>6 DEF ProcessNext
  <2>2. Sound(ProcessTxn(store, Head(todo)))
    BY <2>1, ProcessSound
  <2> QED
    BY <1>1, <1>6, <2>2 DEF ProcessNext
<1>7. CASE FinishBlock
  BY <1>1, <1>7 DEF FinishBlock
<1>8. ASSUME NEW b \in Block, AddBlockToQueue(b) PROVE Sound(store)' /\ SweepCurrent'
  BY <1>8 DEF AddBlockToQueue, SweepCurrent
<1>9. ASSUME NEW p \in DOMAIN sweep, UpdatePend(p) PROVE Sound(store)' /\ SweepCurrent'
  <2>1. p \in Txn /\ sweep[p] \in Nat /\ p \in DOMAIN store.pend
    BY StampsElim DEF SweepCurrent
  <2>2. Sound(MatureTxn(store, p, sweep[p]))
    BY <2>1, MatureSound
  <2> DEFINE b == MatureTxn(store, p, sweep[p])
  <2>3. /\ DOMAIN store.pend \ {p} \subseteq DOMAIN b.pend
        /\ \A q \in DOMAIN store.pend \ {p} : b.pend[q] = store.pend[q]
    BY <2>1, MatureEffect
  <2>4. store' = b /\ sweep' = [q \in DOMAIN sweep \ {p} |-> sweep[q]]
    BY <1>9 DEF UpdatePend
  <2> HIDE DEF b
  <2>5. SweepCurrent'
    BY <2>3, <2>4 DEF SweepCurrent
  <2> QED
    BY <2>2, <2>4, <2>5 DEF b
<1>10. CASE EnqueueBlock
  BY <1>10 DEF EnqueueBlock, SweepCurrent
<1>11. CASE Restart
  <2>1. store' \in Store /\ store'.db = store.db /\ store'.pend = store.pend
    BY <1>11, ReopenType DEF Restart
  <2>2. DOMAIN sweep' = {}
    BY <1>11, NothingType DEF Restart
  <2>3. Sound(store)'
    BY <2>1, SameDatabases
  <2> QED
    BY <2>2, <2>3 DEF SweepCurrent
<1>12. CASE UNCHANGED vars
  BY <1>12 DEF vars, SweepCurrent
<1> QED
  BY <1>2, <1>4, <1>5, <1>6, <1>7, <1>8, <1>9, <1>10, <1>11, <1>12 DEF Next

\* The inductive invariant of Serial executions.
LEMMA LedgerInvariant == ASSUME Serial PROVE Spec => []LedgerInv
<1>1. Init => LedgerInv
  BY TypeInit, SoundInit DEF LedgerInv
<1>2. LedgerInv /\ [Next]_vars => LedgerInv'
  BY TypeStep, SoundStep DEF LedgerInv
<1> QED
  BY <1>1, <1>2, PTL DEF Spec

\* When update_pend does not run alongside the reactor thread, no outpoint is
\* ever claimed by two accepted transactions, whatever the transactions, the
\* block times (which may go backwards) and the restarts.
THEOREM CoinsSpentOnce == ASSUME Serial PROVE Spec => []NoDoubleSpend
<1>1. LedgerInv => NoDoubleSpend
  BY DEF LedgerInv, Sound, NoDoubleSpend
<1> QED
  BY <1>1, LedgerInvariant, PTL

\* Likewise every claim of an accepted transaction is flagged in the database:
\* the flags, which verify_txn skips for a replacement, are always set.
THEOREM ClaimsAreFlagged == ASSUME Serial PROVE Spec => []ClaimsSpent
<1>1. LedgerInv => ClaimsSpent
  BY DEF LedgerInv, Sound, ClaimsSpent
<1> QED
  BY <1>1, LedgerInvariant, PTL

\* Likewise maturing moves a transaction: it is never both stored and pending.
THEOREM StoredXorPending == ASSUME Serial PROVE Spec => []StoredOrPending
<1>1. LedgerInv => StoredOrPending
  BY DEF LedgerInv, Sound, StoredOrPending
<1> QED
  BY <1>1, LedgerInvariant, PTL

\* Likewise a pending transaction whose lock has not expired leaves pend only
\* for a newer version of itself, which takes over all its inputs.
THEOREM ChannelRule == ASSUME Serial PROVE Spec => NewestWins
<1> DEFINE A == \A p \in DOMAIN store.pend \ DOMAIN store'.pend :
          \/ LockExpired(store, p, store.pend[p])
          \/ \E q \in Accepted(store') \ Accepted(store) :
                Inputs[q] = Inputs[p] /\ SeqNo[q] > SeqNo[p]
<1>1. LedgerInv /\ [Next]_vars => [A]_vars
  <2> SUFFICES ASSUME LedgerInv, Next PROVE A
    OBVIOUS
  <2> USE StoreIff, StampsIff DEF LedgerInv, TypeInv, TypeOK
  <2>1. ASSUME store'.pend = store.pend PROVE A
    BY <2>1
  <2>2. ASSUME NEW t \in Txn \ Genesis, PutTxn(t) PROVE A
    BY <2>1, <2>2, AddToMempoolType DEF PutTxn
  <2>3. CASE TryProcessBackoff \/ TryProcess
    <3>1. Head(blockQueue).time \in Nat
      BY <2>3, BlockTxns DEF TryProcessBackoff, TryProcess
    <3> QED
      BY <2>1, <2>3, <3>1, RetimeType DEF TryProcessBackoff, TryProcess
  <2>4. CASE ProcessNext
    <3>1. Head(todo) \in Txn \ Genesis
      BY <2>4 DEF ProcessNext
    <3> QED
      BY <2>4, <3>1, ProcessDisplaces DEF ProcessNext
  <2>5. CASE FinishBlock \/ EnqueueBlock
    BY <2>1, <2>5 DEF FinishBlock, EnqueueBlock
  <2>6. ASSUME NEW b \in Block, AddBlockToQueue(b) PROVE A
    BY <2>1, <2>6 DEF AddBlockToQueue
  <2>7. ASSUME NEW p \in DOMAIN sweep, UpdatePend(p) PROVE A
    <3>1. p \in Txn /\ sweep[p] \in Nat /\ p \in DOMAIN store.pend /\ sweep[p] = store.pend[p]
      BY StampsElim DEF SweepCurrent
    <3>2. store' = MatureTxn(store, p, sweep[p])
      BY <2>7 DEF UpdatePend
    <3>3. DOMAIN store.pend \ {p} \subseteq DOMAIN store'.pend
      BY <3>1, <3>2, MatureEffect
    <3>4. ~LockExpired(store, p, sweep[p]) => store' = store
      BY <3>1, <3>2, MatureEffect
    <3> QED
      BY <3>1, <3>3, <3>4
  <2>8. CASE Restart
    BY <2>1, <2>8, ReopenType DEF Restart
  <2> QED
    BY <2>2, <2>3, <2>4, <2>5, <2>6, <2>7, <2>8 DEF Next
<1> QED
  BY <1>1, LedgerInvariant, PTL DEF Spec, NewestWins

-----------------------------------------------------------------------------
(***************************************************************************)
(* The indexes.  Their contents depend on the flags and on the pending     *)
(* database only, and every change of those goes through a function that   *)
(* changes the index with it.  That a function is not disturbed half way   *)
(* is what Serial stands for in the theorem.                               *)
(***************************************************************************)
IndexInv ==
    /\ TypeInv
    /\ Indexed(store)
    /\ restarts = 0 => NoneSpentListed(store)

\* The indexes of a new store list the coinbase's outputs.
LEMMA EmptyIndexed == Indexed(EmptyStore) /\ NoneSpentListed(EmptyStore)
<1> DEFINE s == EmptyStore
<1>1. /\ DOMAIN s.db = Genesis /\ DOMAIN s.pend = {}
      /\ \A t \in Genesis : s.db[t].utxos = DOMAIN Outputs[t]
      /\ \A k \in PubKey : s.pubOuts[k] = OwnedBy(k, Genesis) /\ s.pubOutsPend[k] = {}
  BY DEF EmptyStore, TxnWrapper
<1> HIDE DEF s
<1>2. \A k : UnspentOf(s, k) = OwnedBy(k, Genesis)
  BY <1>1 DEF UnspentOf, UnspentOutpoints, OwnedBy, OutputsOf
<1>3. \A k : OwnedBy(k, {}) = {}
  BY DEF OwnedBy
<1> QED
  BY <1>1, <1>2, <1>3 DEF s, Indexed, NoneSpentListed

\* Opening the databases again lists every output of every stored transaction,
\* the unspent ones among them.
LEMMA ReopenIndexed ==
    ASSUME NEW s \in Store, Indexed(s) PROVE Indexed(Reopen(s))
<1> DEFINE b == Reopen(s)
<1>1. /\ b.db = s.db /\ b.pend = s.pend
      /\ \A k \in PubKey : /\ b.pubOuts[k] = OwnedBy(k, DOMAIN s.db)
                           /\ b.pubOutsPend[k] = OwnedBy(k, DOMAIN s.pend)
  BY DEF Reopen, Store
<1> HIDE DEF b
<1>2. \A k : UnspentOf(b, k) \subseteq OwnedBy(k, DOMAIN s.db)
  BY <1>1 DEF Indexed, UnspentOf, UnspentOutpoints, OwnedBy, OutputsOf
<1> QED
  BY <1>1, <1>2 DEF b, Indexed

\* Every step of either thread keeps the indexes as exact as they were, except
\* that after a restart spent outputs are listed.
LEMMA IndexStep == IndexInv /\ [Next]_vars => IndexInv'
<1> SUFFICES ASSUME IndexInv, [Next]_vars PROVE IndexInv'
  OBVIOUS
<1>1. TypeInv'
  BY TypeStep DEF IndexInv
<1>2. store \in Store /\ restarts \in Nat
  BY StoreIff, LedgerAssumption DEF IndexInv, TypeInv, TypeOK
<1>3. ASSUME KeepsIndexes(store, store'), restarts' = restarts PROVE IndexInv'
  BY <1>1, <1>3 DEF IndexInv, KeepsIndexes
<1>4. ASSUME store' = store PROVE KeepsIndexes(store, store')
  BY <1>4 DEF KeepsIndexes
<1>5. ASSUME NEW t \in Txn \ Genesis, PutTxn(t) PROVE IndexInv'
  <2>1. KeepsIndexes(store, AddToMempool(store, t))
    <3>1. /\ AddToMempool(store, t).db = store.db
          /\ AddToMempool(store, t).pend = store.pend
          /\ AddToMempool(store, t).pubOuts = store.pubOuts
          /\ AddToMempool(store, t).pubOutsPend = store.pubOutsPend
      BY <1>2 DEF AddToMempool, Store
    <3> QED
      BY <3>1, IndexedSame
  <2> QED
    BY <1>3, <1>5, <2>1 DEF PutTxn
<1>6. ASSUME NEW n, store' = [store EXCEPT !.now = n] PROVE KeepsIndexes(store, store')
  <2>1. /\ store'.db = store.db /\ store'.pend = store.pend
        /\ store'.pubOuts = store.pubOuts /\ store'.pubOutsPend = store.pubOutsPend
    BY <1>2, <1>6 DEF Store
  <2> QED
    BY <2>1, IndexedSame
<1>7. CASE TryProcessBackoff
  BY <1>3, <1>6, <1>7 DEF TryProcessBackoff
<1>8. CASE TryProcess
  BY <1>3, <1>6, <1>8 DEF TryProcess
<1>9. CASE ProcessNext
  <2>1. Head(todo) \in Txn
    BY <1>9 DEF ProcessNext, IndexInv, TypeInv, TypeOK
  <2> QED
    BY <1>2, <1>3, <1>9, <2>1, ProcessIndexed DEF ProcessNext
<1>10. ASSUME NEW p \in DOMAIN sweep, UpdatePend(p) PROVE IndexInv'
  <2>1. p \in Txn /\ sweep[p] \in Nat
    BY StampsIff, StampsElim DEF IndexInv, TypeInv, TypeOK
  <2> QED
    BY <1>2, <1>3, <1>10, <2>1, MatureIndexed DEF UpdatePend
<1>11. CASE Restart
  <2>1. Indexed(store') /\ restarts' # 0
    BY <1>2, <1>11, ReopenIndexed DEF Restart, IndexInv
  <2> QED
    BY <1>1, <2>1 DEF IndexInv
<1>12. ASSUME NEW b \in Block, AddBlockToQueue(b) PROVE IndexInv'
  BY <1>3, <1>4, <1>12 DEF AddBlockToQueue
<1>13. CASE FinishBlock \/ EnqueueBlock \/ UNCHANGED vars
  BY <1>3, <1>4, <1>13 DEF FinishBlock, EnqueueBlock, vars
<1> QED
  BY <1>5, <1>7, <1>8, <1>9, <1>10, <1>11, <1>12, <1>13 DEF Next

\* When update_pend does not run alongside the reactor thread, for every key the
\* index of the pending outputs is exact, and that of the stored ones lists
\* every unspent output, and until the first restart nothing else.
THEOREM IndexesExact == ASSUME Serial PROVE Spec => []IndexExact
<1>1. Init => IndexInv
  BY TypeInit, EmptyIndexed DEF Init, IndexInv
<1>2. IndexInv => IndexExact
  BY DEF IndexInv, Indexed, NoneSpentListed, UnspentOf, IndexExact
<1> QED
  BY <1>1, <1>2, IndexStep, PTL DEF Spec

-----------------------------------------------------------------------------
(***************************************************************************)
(* The supply, for Serial executions: without Serial a transaction can be  *)
(* stored twice.                                                           *)
(***************************************************************************)
SupplyInv ==
    /\ LedgerInv
    /\ Solvent(store)
    /\ CoinsAccounted

\* The coinbase is a finite list of transactions, so it has a sum.
LEMMA EmptySolvent == Solvent(EmptyStore) /\ Surplus(EmptyStore) = 0
<1> DEFINE s == EmptyStore
           f == [t \in Genesis |-> OutputsOf(t)]
           M == {OutputsOf(t) : t \in Genesis}
<1>1. Sound(s)
  BY EmptySound
<1>2. Claimable(s) = UNION M /\ DOMAIN s.pend = {}
  <2>1. /\ DOMAIN s.db = Genesis /\ DOMAIN s.pend = {}
        /\ \A t \in Genesis : s.db[t].utxos = DOMAIN Outputs[t]
    BY DEF EmptyStore, TxnWrapper
  <2> HIDE DEF s
  <2> QED
    BY <2>1 DEF Claimable, UnspentOutpoints, PendOutpoints, OutputsOf
<1>3. \A T \in M : IsFiniteSet(T) /\ T \subseteq Coins
  BY OutputCoins, TxnAssumption
<1>4. IsFiniteSet(M)
  <2>1. f \in Surjection(Genesis, M)
    BY DEF Surjection
  <2> HIDE DEF f, M
  <2> QED
    BY <2>1, TxnAssumption, FS_Surjection
<1>5. IsFiniteSet(UNION M)
  <2> HIDE DEF M
  <2> QED
    BY <1>3, <1>4, FS_UNION
<1>7. Accepted(s) = Genesis
  BY <1>2 DEF EmptyStore, Accepted
<1> HIDE DEF s, M
<1>6. Claimable(s) \in SUBSET Coins /\ IsFiniteSet(Claimable(s))
  BY <1>2, <1>3, <1>5
<1>8. \A t \in Genesis : Overcounted(t) = 0
  <2>1. \A t \in Genesis : t \in Txn /\ Inputs[t] = {}
    BY TxnAssumption
  <2>2. {} \in SUBSET Coins
    OBVIOUS
  <2> QED
    BY <2>1, <2>2, Counted
<1>9. IsFiniteSet(Genesis) /\ SurplusOf(Genesis) = 0
  BY <1>8, SurplusAdd, TxnAssumption
<1>10. Surplus(s) = 0
  BY <1>7, <1>9 DEF Surplus, SurplusOf
<1> QED
  BY <1>1, <1>2, <1>6, <1>7, <1>9, <1>10 DEF Solvent, s

\* No step of a Serial execution adds to the supply, but for what transactions
\* count twice.
LEMMA SupplyStep ==
    ASSUME Serial, SupplyInv, [Next]_vars
    PROVE  Solvent(store)' /\ CoinsAccounted'
<1> DEFINE all == Supply(EmptyStore)
<1>1. /\ all \in Nat /\ Supply(store) \in Nat /\ Surplus(store) \in Nat
      /\ Supply(store) <= all + Surplus(store)
  BY EmptySolvent, SupplyIsSum, SurplusFact DEF SupplyInv, CoinsAccounted
<1> HIDE DEF all
<1>2. ASSUME Accounts(store, store') PROVE Solvent(store)' /\ CoinsAccounted'
  <2>1. Solvent(store') /\ Supply(store') + Surplus(store) <= Supply(store) + Surplus(store')
    BY <1>2 DEF Accounts
  <2>2. Supply(store') \in Nat /\ Surplus(store') \in Nat
    BY <2>1, SupplyIsSum, SurplusFact
  <2>3. Supply(store') <= all + Surplus(store')
    BY <1>1, <2>1, <2>2
  <2>4. EmptyStore' = EmptyStore
    OBVIOUS
  <2> QED
    BY <2>1, <2>3 DEF all, CoinsAccounted
<1> USE StoreIff, StampsIff DEF SupplyInv, LedgerInv, TypeInv, TypeOK
<1>3. ASSUME store' \in Store, store'.db = store.db, store'.pend = store.pend
      PROVE  Accounts(store, store')
  <2>1. Accounts(store, store)
    BY OwnAccounts
  <2> QED
    BY <1>3, <2>1, SameAccounts
<1>4. ASSUME NEW t \in Txn \ Genesis, PutTxn(t) PROVE Accounts(store, store')
  <2>1. store' \in Store /\ store'.db = store.db /\ store'.pend = store.pend
    BY <1>4, AddToMempoolType DEF PutTxn
  <2> QED
    BY <1>3, <2>1
<1>5. CASE TryProcessBackoff \/ TryProcess
  <2>1. Head(blockQueue).time \in Nat
    BY <1>5, BlockTxns DEF TryProcessBackoff, TryProcess
  <2>2. store' \in Store /\ store'.db = store.db /\ store'.pend = store.pend
    BY <1>5, <2>1, RetimeType DEF TryProcessBackoff, TryProcess
  <2> QED
    BY <1>2, <1>3, <2>2
<1>6. CASE ProcessNext
  <2>1. Head(todo) \in Txn \ Genesis
    BY <1>6 DEF ProcessNext
  <2>2. Accounts(store, store')
    BY <1>6, <2>1, ProcessSupply DEF ProcessNext
  <2> QED
    BY <1>2, <2>2
<1>7. ASSUME NEW p \in DOMAIN sweep, UpdatePend(p) PROVE Accounts(store, store')
  <2>1. sweep[p] \in Nat /\ p \in DOMAIN store.pend
    BY StampsElim DEF SweepCurrent
  <2> QED
    BY <1>7, <2>1, MatureSupply DEF UpdatePend
<1>8. CASE Restart
  <2>1. store' \in Store /\ store'.db = store.db /\ store'.pend = store.pend
    BY <1>8, ReopenType DEF Restart
  <2> QED
    BY <1>2, <1>3, <2>1
<1>9. ASSUME store' = store PROVE Accounts(store, store')
  BY <1>3, <1>9
<1>10. ASSUME NEW b \in Block, AddBlockToQueue(b) PROVE store' = store
  BY <1>10 DEF AddBlockToQueue
<1>11. FinishBlock \/ EnqueueBlock \/ UNCHANGED vars => store' = store
  BY DEF FinishBlock, EnqueueBlock, vars
<1> QED
  BY <1>2, <1>4, <1>5, <1>6, <1>7, <1>8, <1>9, <1>10, <1>11 DEF Next

\* The inductive invariant of the supply.
LEMMA SupplyInvariant == ASSUME Serial PROVE Spec => []SupplyInv
<1>1. Init => SupplyInv
  <2> SUFFICES ASSUME Init PROVE SupplyInv
    OBVIOUS
  <2>1. store = EmptyStore /\ LedgerInv
    BY TypeInit, SoundInit DEF Init, LedgerInv
  <2>2. Solvent(store) /\ Supply(EmptyStore) \in Nat /\ Surplus(EmptyStore) = 0
    BY <2>1, EmptySolvent, SupplyIsSum
  <2> QED
    BY <2>1, <2>2 DEF SupplyInv, CoinsAccounted
<1>2. SupplyInv /\ [Next]_vars => SupplyInv'
  <2> SUFFICES ASSUME SupplyInv, [Next]_vars PROVE SupplyInv'
    OBVIOUS
  <2>1. LedgerInv'
    BY TypeStep, SoundStep DEF SupplyInv, LedgerInv
  <2> QED
    BY <2>1, SupplyStep DEF SupplyInv
<1> QED
  BY <1>1, <1>2, PTL DEF Spec

\* When update_pend does not run alongside the reactor thread, the coins that
\* can be claimed now or after a lock expires are never worth more than the
\* coinbase and what accepted transactions counted twice, whatever the lists of
\* inputs, the block times and the restarts.
THEOREM CoinsAccountedFor == ASSUME Serial PROVE Spec => []CoinsAccounted
<1>1. SupplyInv => CoinsAccounted
  BY DEF SupplyInv
<1> QED
  BY <1>1, SupplyInvariant, PTL

\* Likewise no coins are created at all as long as no transaction's list of
\* inputs names an output twice, which is what verify_txn leaves unchecked.
THEOREM CoinsNeverCreated ==
    ASSUME Serial, \A t \in Txn : \A o \in Inputs[t] : Entries[t][o] = 1
    PROVE  Spec => []NoInflation
<1>1. SupplyInv => NoInflation
  <2> SUFFICES ASSUME SupplyInv PROVE NoInflation
    OBVIOUS
  <2>1. Solvent(store) /\ Sound(store) /\ IsFiniteSet(Accepted(store))
    BY DEF SupplyInv, Solvent
  <2>2. \A t \in Accepted(store) : Overcounted(t) = 0
    <3> SUFFICES ASSUME NEW t \in Accepted(store) PROVE Overcounted(t) = 0
      OBVIOUS
    <3>1. t \in Txn /\ Inputs[t] \in SUBSET Coins
      BY <2>1, SoundCounts
    <3> QED
      BY <3>1, CountedOnce
  <2>3. SurplusOf(Accepted(store)) = 0
    BY <2>1, <2>2, SurplusAdd
  <2>4. Surplus(store) = 0
    BY <2>3 DEF Surplus, SurplusOf
  <2>5. Supply(store) \in Nat /\ Supply(EmptyStore) \in Nat
    BY <2>1, EmptySolvent, SupplyIsSum
  <2> QED
    BY <2>4, <2>5 DEF SupplyInv, CoinsAccounted, NoInflation
<1> QED
  BY <1>1, SupplyInvariant, PTL

-----------------------------------------------------------------------------
(***************************************************************************)
(* The balances.  That a store has finitely many coins is an invariant.    *)
(***************************************************************************)
\* No step makes the store infinite.
LEMMA FiniteStep ==
    ASSUME TypeInv, IsFiniteSet(Accepted(store)), [Next]_vars
    PROVE  IsFiniteSet(Accepted(store'))
<1>1. ASSUME NEW t, Accepted(store') \subseteq Accepted(store) \union {t}
      PROVE  IsFiniteSet(Accepted(store'))
  BY <1>1, FS_AddElement, FS_Subset
<1>2. ASSUME store'.db = store.db, store'.pend = store.pend PROVE IsFiniteSet(Accepted(store'))
  BY <1>2 DEF Accepted
<1>3. store \in Store /\ sweep \in Stamps /\ todo \in Seq(Txn \ Genesis)
  BY StoreIff, StampsIff DEF TypeInv, TypeOK
<1>4. ASSUME NEW t, PutTxn(t) PROVE IsFiniteSet(Accepted(store'))
  <2>1. store'.db = store.db /\ store'.pend = store.pend
    BY <1>3, <1>4 DEF PutTxn, AddToMempool, Store
  <2> QED
    BY <1>2, <2>1
<1>5. CASE TryProcessBackoff \/ TryProcess
  <2>1. store'.db = store.db /\ store'.pend = store.pend
    BY <1>3, <1>5 DEF TryProcessBackoff, TryProcess, Store
  <2> QED
    BY <1>2, <2>1
<1>6. CASE ProcessNext
  <2>1. Head(todo) \in Txn /\ store' = ProcessTxn(store, Head(todo))
    BY <1>3, <1>6 DEF ProcessNext
  <2> QED
    BY <1>1, <1>3, <2>1, ProcessAccepts
<1>7. ASSUME NEW p \in DOMAIN sweep, UpdatePend(p) PROVE IsFiniteSet(Accepted(store'))
  <2>1. p \in Txn /\ sweep[p] \in Nat /\ store' = MatureTxn(store, p, sweep[p])
    BY <1>3, <1>7, StampsElim DEF UpdatePend
  <2> QED
    BY <1>1, <1>3, <2>1, MatureAccepts
<1>8. CASE Restart
  <2>1. store'.db = store.db /\ store'.pend = store.pend
    BY <1>3, <1>8, ReopenType DEF Restart
  <2> QED
    BY <1>2, <2>1
<1>9. ASSUME NEW b, AddBlockToQueue(b) PROVE IsFiniteSet(Accepted(store'))
  BY <1>2, <1>9 DEF AddBlockToQueue
<1>10. CASE FinishBlock \/ EnqueueBlock \/ UNCHANGED vars
  BY <1>2, <1>10 DEF FinishBlock, EnqueueBlock, vars
<1> QED
  BY <1>4, <1>5, <1>6, <1>7, <1>8, <1>9, <1>10 DEF Next

\* When update_pend does not run alongside the reactor thread, for every finite
\* set of keys and until the first restart, the balances that get_balance
\* computes for all the keys, of stored and of pending coins, add up to the
\* coins there are: no coin falls between its cases or counts in two.
THEOREM BalancesComplete ==
    ASSUME Serial, IsFiniteSet(PubKey) PROVE Spec => []BalancesAddUp
<1> DEFINE Inv == IndexInv /\ IsFiniteSet(Accepted(store))
<1>1. Init => Inv
  <2> SUFFICES ASSUME Init PROVE Inv
    OBVIOUS
  <2>1. IndexInv
    BY TypeInit, EmptyIndexed DEF Init, IndexInv
  <2>2. Accepted(store) = Genesis
    BY DEF Init, EmptyStore, Accepted
  <2> QED
    BY <2>1, <2>2, TxnAssumption
<1>2. Inv /\ [Next]_vars => Inv'
  <2> SUFFICES ASSUME Inv, [Next]_vars PROVE Inv'
    OBVIOUS
  <2>1. IndexInv'
    BY IndexStep
  <2>2. IsFiniteSet(Accepted(store'))
    BY FiniteStep DEF IndexInv
  <2> QED
    BY <2>1, <2>2
<1>3. Inv => BalancesAddUp
  <2> SUFFICES ASSUME Inv, restarts = 0
               PROVE  TotalWorth(store) = 2 * Supply(store)
    BY DEF BalancesAddUp, TotalWorth, Doubled, MapThenSumSet, MapThenFoldSet
  <2>1. store \in Store
    BY StoreIff DEF IndexInv, TypeInv, TypeOK
  <2> QED
    BY <2>1, BalancesOfStore DEF IndexInv
<1> QED
  BY <1>1, <1>2, <1>3, PTL DEF Spec
=============================================================================
