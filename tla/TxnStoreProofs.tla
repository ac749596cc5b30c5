--------------------------- MODULE TxnStoreProofs ---------------------------
(***************************************************************************)
(* What the operations of module TxnStore do to a store, proved for every  *)
(* set of transactions: they keep it well formed and sound.                *)
(***************************************************************************)
EXTENDS TxnStore, FoldLemmas

\* The values that satisfy IsStamps and IsStore, as sets.
Wrappers == UNION {[D -> Wrapper] : D \in SUBSET Txn}

Stamps == UNION {[D -> Nat] : D \in SUBSET Txn}

Store ==
    [now : Nat, db : Wrappers, pend : Stamps, pubOuts : Index,
     pubOutsPend : Index, mempool : SUBSET Txn, invalid : SUBSET Txn]

\* A sound store: well formed, no transaction both stored and pending, no
\* outpoint claimed twice, and everything claimed flagged as spent.
Sound(s) ==
    /\ s \in Store
    /\ DOMAIN s.db \intersect DOMAIN s.pend = {}
    /\ NoDoubleSpendIn(s)
    /\ ClaimsSpentIn(s)

-----------------------------------------------------------------------------
(***************************************************************************)
(* The fields of the store after each primitive change.                    *)
(***************************************************************************)

\* The coinbase's wrapper and every new wrapper are well typed.
LEMMA OutputIndexes ==
    ASSUME NEW t \in Txn PROVE DOMAIN Outputs[t] \subseteq Nat
  BY TxnAssumption

\* Partial functions on transactions, and back.
LEMMA WrappersElim ==
    ASSUME NEW f \in Wrappers PROVE DOMAIN f \subseteq Txn /\ f \in [DOMAIN f -> Wrapper]
  BY DEF Wrappers

\* A function from transactions to wrappers is a database.
LEMMA WrappersIntro ==
    ASSUME NEW D \in SUBSET Txn, NEW f \in [D -> Wrapper] PROVE f \in Wrappers
  BY DEF Wrappers

\* What the pending database is, seen as a function.
LEMMA StampsElim ==
    ASSUME NEW f \in Stamps PROVE DOMAIN f \subseteq Txn /\ f \in [DOMAIN f -> Nat]
  BY DEF Stamps

\* A function from transactions to timestamps is a pending database.
LEMMA StampsIntro ==
    ASSUME NEW D \in SUBSET Txn, NEW f \in [D -> Nat] PROVE f \in Stamps
  BY DEF Stamps

\* Membership in these sets is what the type invariant says of a pending
\* database and of a store.
LEMMA StampsIff == \A f : IsStamps(f) <=> f \in Stamps
  BY StampsElim, StampsIntro DEF IsStamps

\* The same for a store.
LEMMA StoreIff == \A s : IsStore(s) <=> s \in Store
<1> SUFFICES ASSUME NEW s PROVE IsStore(s) <=> s \in Store
  OBVIOUS
<1>1. ASSUME IsStore(s) PROVE s \in Store
  <2>1. s.db \in Wrappers /\ s.pend \in Stamps
    BY <1>1, WrappersIntro, StampsIntro DEF IsStore, StoreOver
  <2> QED
    BY <1>1, <2>1 DEF IsStore, StoreOver, Store
<1>2. ASSUME s \in Store PROVE IsStore(s)
  <2>1. /\ DOMAIN s.db \subseteq Txn /\ s.db \in [DOMAIN s.db -> Wrapper]
        /\ DOMAIN s.pend \subseteq Txn /\ s.pend \in [DOMAIN s.pend -> Nat]
    BY <1>2, WrappersElim, StampsElim DEF Store
  <2> QED
    BY <1>2, <2>1 DEF IsStore, StoreOver, Store
<1> QED
  BY <1>1, <1>2

\* What an index says a key owns are outpoints.
LEMMA OwnedType ==
    ASSUME NEW k, NEW S \in SUBSET Txn PROVE OwnedBy(k, S) \subseteq Txn \X Nat
  BY OutputIndexes DEF OwnedBy, OutputsOf

\* Reject touches the mempool and the list of invalid transactions only.
LEMMA RejectFields ==
    ASSUME NEW s \in Store, NEW t
    PROVE  /\ Reject(s, t).now = s.now
           /\ Reject(s, t).db = s.db
           /\ Reject(s, t).pend = s.pend
           /\ Reject(s, t).pubOuts = s.pubOuts
           /\ Reject(s, t).pubOutsPend = s.pubOutsPend
           /\ Reject(s, t).mempool = s.mempool \ {t}
           /\ Reject(s, t).invalid \subseteq s.invalid \union {t}
  BY DEF Reject, Store

\* remove_from_mempool touches the mempool only.
LEMMA RemoveFields ==
    ASSUME NEW s \in Store, NEW t
    PROVE  /\ RemoveFromMempool(s, t).now = s.now
           /\ RemoveFromMempool(s, t).db = s.db
           /\ RemoveFromMempool(s, t).pend = s.pend
           /\ RemoveFromMempool(s, t).pubOuts = s.pubOuts
           /\ RemoveFromMempool(s, t).pubOutsPend = s.pubOutsPend
           /\ RemoveFromMempool(s, t).mempool = s.mempool \ {t}
           /\ RemoveFromMempool(s, t).invalid = s.invalid
  BY DEF RemoveFromMempool, Store

\* del_from_pending removes one pending transaction and its index entries.
LEMMA DelFields ==
    ASSUME NEW s \in Store, NEW p
    PROVE  /\ DelFromPending(s, p).now = s.now
           /\ DelFromPending(s, p).db = s.db
           /\ DOMAIN DelFromPending(s, p).pend = DOMAIN s.pend \ {p}
           /\ \A q \in DOMAIN s.pend \ {p} : DelFromPending(s, p).pend[q] = s.pend[q]
           /\ DelFromPending(s, p).pubOuts = s.pubOuts
           /\ \A k \in PubKey : DelFromPending(s, p).pubOutsPend[k] =
                                 s.pubOutsPend[k] \ OwnedBy(k, {p})
           /\ DelFromPending(s, p).mempool = s.mempool
           /\ DelFromPending(s, p).invalid = s.invalid
  BY DEF DelFromPending, Store

\* Spending clears the flags of the given outpoints and no others.
LEMMA SpendFields ==
    ASSUME NEW s \in Store, NEW O
    PROVE  /\ Spend(s, O).now = s.now
           /\ DOMAIN Spend(s, O).db = DOMAIN s.db
           /\ \A d \in DOMAIN s.db :
                 /\ Spend(s, O).db[d].ts = s.db[d].ts
                 /\ Spend(s, O).db[d].utxos = {i \in s.db[d].utxos : <<d, i>> \notin O}
           /\ Spend(s, O).pend = s.pend
           /\ \A k \in PubKey : Spend(s, O).pubOuts[k] = s.pubOuts[k] \ O
           /\ Spend(s, O).pubOutsPend = s.pubOutsPend
           /\ Spend(s, O).mempool = s.mempool
           /\ Spend(s, O).invalid = s.invalid
  BY DEF Spend, Store

-----------------------------------------------------------------------------
(***************************************************************************)
(* Every change keeps a store well formed.                                 *)
(***************************************************************************)
\* A rejection keeps a store well formed.
LEMMA RejectStore ==
    ASSUME NEW s \in Store, NEW t \in Txn PROVE Reject(s, t) \in Store
  BY DEF Reject, Store

\* remove_from_mempool keeps a store well formed.
LEMMA RemoveStore ==
    ASSUME NEW s \in Store, NEW t \in Txn PROVE RemoveFromMempool(s, t) \in Store
  BY DEF RemoveFromMempool, Store

\* del_from_pending keeps a store well formed.
LEMMA DelStore ==
    ASSUME NEW s \in Store, NEW p PROVE DelFromPending(s, p) \in Store
<1> DEFINE D == DOMAIN s.pend \ {p}
<1>1. s.pend \in Stamps
  BY DEF Store
<1>2. D \in SUBSET Txn /\ [q \in D |-> s.pend[q]] \in [D -> Nat]
  BY <1>1, StampsElim
<1>3. [q \in D |-> s.pend[q]] \in Stamps
  BY <1>2, StampsIntro
<1>4. [k \in PubKey |-> s.pubOutsPend[k] \ OwnedBy(k, {p})] \in Index
  BY DEF Store, Index
<1> QED
  BY <1>3, <1>4 DEF DelFromPending, Store

\* Clearing flags keeps a store well formed.
LEMMA SpendStore ==
    ASSUME NEW s \in Store, NEW O PROVE Spend(s, O) \in Store
<1> DEFINE W(d) == [ts |-> s.db[d].ts,
                    utxos |-> {i \in s.db[d].utxos : <<d, i>> \notin O}]
<1>1. s.db \in Wrappers
  BY DEF Store
<1>2. DOMAIN s.db \in SUBSET Txn /\ \A d \in DOMAIN s.db : s.db[d] \in Wrapper
  BY <1>1, WrappersElim
<1>3. \A d \in DOMAIN s.db : W(d) \in Wrapper
  BY <1>2 DEF Wrapper
<1>4. [d \in DOMAIN s.db |-> W(d)] \in Wrappers
  <2> HIDE DEF W
  <2>1. [d \in DOMAIN s.db |-> W(d)] \in [DOMAIN s.db -> Wrapper]
    BY <1>3
  <2> QED
    BY <1>2, <2>1, WrappersIntro
<1>5. [k \in PubKey |-> s.pubOuts[k] \ O] \in Index
  BY DEF Store, Index
<1> QED
  BY <1>4, <1>5 DEF Spend, Store

\* A put into the database keeps a store well formed.
LEMMA PutDbStore ==
    ASSUME NEW s \in Store, NEW t \in Txn, NEW ts \in Nat
    PROVE  PutInDb(s, t, ts) \in Store
<1> DEFINE D == DOMAIN s.db \union {t}
           W(d) == IF d = t THEN TxnWrapper(t, ts) ELSE s.db[d]
<1>1. s.db \in Wrappers
  BY DEF Store
<1>2. DOMAIN s.db \in SUBSET Txn /\ \A d \in DOMAIN s.db : s.db[d] \in Wrapper
  BY <1>1, WrappersElim
<1>3. D \in SUBSET Txn /\ \A d \in D : W(d) \in Wrapper
  BY <1>2, OutputIndexes DEF Wrapper, TxnWrapper
<1>4. [d \in D |-> W(d)] \in Wrappers
  <2> HIDE DEF W
  <2>1. [d \in D |-> W(d)] \in [D -> Wrapper]
    BY <1>3
  <2> HIDE DEF D
  <2> QED
    BY <1>3, <2>1, WrappersIntro
<1>5. [k \in PubKey |-> s.pubOuts[k] \union OwnedBy(k, {t})] \in Index
  BY OwnedType DEF Store, Index
<1> QED
  BY <1>4, <1>5 DEF PutInDb, Store

\* A put into the pending database keeps a store well formed.
LEMMA PutPendStore ==
    ASSUME NEW s \in Store, NEW t \in Txn, NEW ts \in Nat
    PROVE  PutInPend(s, t, ts) \in Store
<1> DEFINE D == DOMAIN s.pend \union {t}
           W(p) == IF p = t THEN ts ELSE s.pend[p]
<1>1. s.pend \in Stamps
  BY DEF Store
<1>2. D \in SUBSET Txn /\ \A p \in D : W(p) \in Nat
  BY <1>1, StampsElim
<1>3. [p \in D |-> W(p)] \in Stamps
  <2> HIDE DEF W
  <2>1. [p \in D |-> W(p)] \in [D -> Nat]
    BY <1>2
  <2> HIDE DEF D
  <2> QED
    BY <1>2, <2>1, StampsIntro
<1>4. [k \in PubKey |-> s.pubOutsPend[k] \union OwnedBy(k, {t})] \in Index
  BY OwnedType DEF Store, Index
<1> QED
  BY <1>3, <1>4 DEF PutInPend, Store

-----------------------------------------------------------------------------
(***************************************************************************)
(* Accepting a transaction, and letting one mature.                        *)
(***************************************************************************)

\* What verify_txn takes out of pend when it succeeds.
Replaced(s, t) == IF Conflicts(s, t) = {} THEN {} ELSE {Conflict(s, t)}

\* What check_pend_replacement finds is pending and has the same inputs.
LEMMA ConflictFact ==
    ASSUME NEW s, NEW t, Conflicts(s, t) # {}
    PROVE  Conflict(s, t) \in DOMAIN s.pend /\ Inputs[Conflict(s, t)] = Inputs[t]
<1>1. Conflict(s, t) \in Conflicts(s, t)
  BY DEF Conflict
<1> QED
  BY <1>1 DEF Conflicts

\* verify_txn removes the replaced transaction from pend and nothing else.
LEMMA DropReplacedFields ==
    ASSUME NEW s \in Store, NEW t
    PROVE  /\ DropReplaced(s, t) \in Store
           /\ DropReplaced(s, t).now = s.now
           /\ DropReplaced(s, t).db = s.db
           /\ DOMAIN DropReplaced(s, t).pend = DOMAIN s.pend \ Replaced(s, t)
           /\ \A p \in DOMAIN s.pend \ Replaced(s, t) :
                 DropReplaced(s, t).pend[p] = s.pend[p]
<1>1. CASE Conflicts(s, t) = {}
  BY <1>1 DEF DropReplaced, Replaced
<1>2. CASE Conflicts(s, t) # {}
  <2> DEFINE p == Conflict(s, t)
  <2>1. DropReplaced(s, t) = DelFromPending(s, p) /\ Replaced(s, t) = {p}
    BY <1>2 DEF DropReplaced, Replaced
  <2>2. p \in DOMAIN s.pend
    BY <1>2, ConflictFact
  <2> HIDE DEF p
  <2>3. DelFromPending(s, p) \in Store
    BY DelStore
  <2>4. /\ DelFromPending(s, p).now = s.now
        /\ DelFromPending(s, p).db = s.db
        /\ DOMAIN DelFromPending(s, p).pend = DOMAIN s.pend \ {p}
        /\ \A q \in DOMAIN s.pend \ {p} : DelFromPending(s, p).pend[q] = s.pend[q]
    BY DelFields
  <2> QED
    BY <2>1, <2>3, <2>4
<1> QED
  BY <1>1, <1>2

\* write_txn_to_db leaves pend alone, adds the transaction with fresh flags and
\* clears the flags of its inputs.
LEMMA WriteFields ==
    ASSUME NEW s \in Store, NEW t \in Txn \ DOMAIN s.db, NEW ts \in Nat
    PROVE  /\ WriteTxnToDb(s, t, ts) \in Store
           /\ WriteTxnToDb(s, t, ts).now = s.now
           /\ WriteTxnToDb(s, t, ts).pend = s.pend
           /\ DOMAIN WriteTxnToDb(s, t, ts).db = DOMAIN s.db \union {t}
           /\ \A d \in DOMAIN s.db : WriteTxnToDb(s, t, ts).db[d].utxos =
                 {i \in s.db[d].utxos : <<d, i>> \notin Inputs[t]}
<1> DEFINE a == Spend(s, Inputs[t])
<1>1. /\ a \in Store
      /\ a.now = s.now
      /\ a.pend = s.pend
      /\ DOMAIN a.db = DOMAIN s.db
      /\ \A d \in DOMAIN s.db :
            a.db[d].utxos = {i \in s.db[d].utxos : <<d, i>> \notin Inputs[t]}
  BY SpendFields, SpendStore
<1>2. WriteTxnToDb(s, t, ts) = PutInDb(a, t, ts)
  BY DEF WriteTxnToDb
<1> HIDE DEF a
<1>3. /\ PutInDb(a, t, ts) \in Store
      /\ PutInDb(a, t, ts).now = a.now
      /\ PutInDb(a, t, ts).pend = a.pend
      /\ DOMAIN PutInDb(a, t, ts).db = DOMAIN a.db \union {t}
      /\ \A d \in DOMAIN a.db \ {t} : PutInDb(a, t, ts).db[d] = a.db[d]
  <2>1. PutInDb(a, t, ts) \in Store
    BY <1>1, PutDbStore
  <2> QED
    BY <1>1, <2>1 DEF PutInDb, Store
<1> QED
  BY <1>1, <1>2, <1>3

\* The pending branch of process_block adds the transaction to pend and clears
\* the flags of its inputs.
LEMMA PendFields ==
    ASSUME NEW s \in Store, NEW t \in Txn, NEW ts \in Nat
    PROVE  /\ WriteTxnToPend(s, t, ts) \in Store
           /\ WriteTxnToPend(s, t, ts).now = s.now
           /\ DOMAIN WriteTxnToPend(s, t, ts).pend = DOMAIN s.pend \union {t}
           /\ DOMAIN WriteTxnToPend(s, t, ts).db = DOMAIN s.db
           /\ \A d \in DOMAIN s.db :
                 WriteTxnToPend(s, t, ts).db[d].utxos =
                     {i \in s.db[d].utxos : <<d, i>> \notin Inputs[t]}
<1> DEFINE a == PutInPend(s, t, ts)
<1>1. /\ a \in Store
      /\ a.now = s.now
      /\ a.db = s.db
      /\ DOMAIN a.pend = DOMAIN s.pend \union {t}
      /\ \A p \in DOMAIN s.pend \ {t} : a.pend[p] = s.pend[p]
  <2>1. a \in Store
    BY PutPendStore
  <2> QED
    BY <2>1 DEF PutInPend, Store
<1> HIDE DEF a
<1>2. /\ Spend(a, Inputs[t]) \in Store
      /\ Spend(a, Inputs[t]).now = a.now
      /\ Spend(a, Inputs[t]).pend = a.pend
      /\ DOMAIN Spend(a, Inputs[t]).db = DOMAIN a.db
      /\ \A d \in DOMAIN a.db : Spend(a, Inputs[t]).db[d].utxos =
                                 {i \in a.db[d].utxos : <<d, i>> \notin Inputs[t]}
  BY <1>1, SpendFields, SpendStore
<1> QED
  BY <1>1, <1>2 DEF a, WriteTxnToPend

\* The common core of all three: a transaction takes over the inputs of the
\* ones it displaces, or inputs nobody claims, and its own are flagged.
LEMMA TakeOver ==
    ASSUME NEW s, Sound(s), NEW b \in Store, NEW t \in Txn \ DOMAIN s.db,
           NEW R \in SUBSET DOMAIN s.pend,
           InputsExist(s, t),
           \A u \in Accepted(s) \ R : u # t => Inputs[u] \intersect Inputs[t] = {},
           Accepted(b) \subseteq (Accepted(s) \ R) \union {t},
           DOMAIN b.db \intersect DOMAIN b.pend = {},
           \A d \in DOMAIN s.db :
              /\ d \in DOMAIN b.db
              /\ b.db[d].utxos = {i \in s.db[d].utxos : <<d, i>> \notin Inputs[t]}
    PROVE  Sound(b)
<1>1. Inputs[t] \subseteq Txn \X Nat /\ \A u \in Accepted(s) : Inputs[u] \subseteq Txn \X Nat
  <2>1. Accepted(s) \subseteq Txn
    BY WrappersElim, StampsElim DEF Accepted, Sound, Store
  <2> QED
    BY <2>1, TxnAssumption
<1>2. NoDoubleSpendIn(b)
  <2> SUFFICES ASSUME NEW x \in Accepted(b), NEW y \in Accepted(b), x # y
               PROVE  Inputs[x] \intersect Inputs[y] = {}
    BY DEF NoDoubleSpendIn
  <2>1. CASE x # t /\ y # t
    BY <2>1 DEF Sound, NoDoubleSpendIn
  <2>2. CASE x = t
    <3>1. y \in Accepted(s) \ R /\ y # t
      BY <2>2
    <3> QED
      BY <2>2, <3>1
  <2>3. CASE y = t
    <3>1. x \in Accepted(s) \ R /\ x # t
      BY <2>3
    <3> QED
      BY <2>3, <3>1
  <2> QED
    BY <2>1, <2>2, <2>3
<1>3. ClaimsSpentIn(b)
  <2> SUFFICES ASSUME NEW x \in Accepted(b), NEW o \in Inputs[x]
               PROVE  /\ o[1] \in DOMAIN b.db
                      /\ o[2] \in DOMAIN Outputs[o[1]]
                      /\ o[2] \notin b.db[o[1]].utxos
    BY DEF ClaimsSpentIn
  <2>1. CASE x # t
    <3>1. x \in Accepted(s)
      BY <2>1
    <3>2. /\ o[1] \in DOMAIN s.db
          /\ o[2] \in DOMAIN Outputs[o[1]]
          /\ o[2] \notin s.db[o[1]].utxos
      BY <3>1 DEF Sound, ClaimsSpentIn
    <3> QED
      BY <3>2
  <2>2. CASE x = t
    <3>1. o[1] \in DOMAIN s.db /\ o[2] \in DOMAIN Outputs[o[1]]
      BY <2>2 DEF InputsExist
    <3>2. o = <<o[1], o[2]>>
      BY <1>1, <2>2
    <3> QED
      BY <2>2, <3>1, <3>2
  <2> QED
    BY <2>1, <2>2
<1> QED
  BY <1>2, <1>3 DEF Sound

\* A transaction that verify_txn lets through is neither stored nor pending.
LEMMA VerifiedIsNew ==
    ASSUME NEW s, Sound(s), NEW t \in Txn \ Genesis, VerifyTxn(s, t, TRUE)
    PROVE  t \notin Accepted(s)
<1>1. t \notin DOMAIN s.db
  BY DEF VerifyTxn
<1>2. ASSUME t \in DOMAIN s.pend PROVE FALSE
  <2> DEFINE p == Conflict(s, t)
  <2>1. t \in Conflicts(s, t)
    BY <1>2 DEF Conflicts
  <2>2. p \in DOMAIN s.pend /\ Inputs[p] = Inputs[t]
    BY <2>1, ConflictFact
  <2>3. SeqNo[t] > SeqNo[p]
    BY <2>1 DEF VerifyTxn, PendAllows, MayReplace
  <2>4. SeqNo[t] \in Nat /\ Inputs[t] # {}
    BY TxnAssumption
  <2>5. p # t
    BY <2>3, <2>4
  <2> HIDE DEF p
  <2>6. Inputs[p] \intersect Inputs[t] = {}
    BY <1>2, <2>2, <2>5 DEF Sound, NoDoubleSpendIn, Accepted
  <2> QED
    BY <2>2, <2>4, <2>6
<1> QED
  BY <1>1, <1>2 DEF Accepted

\* Nobody else claims the inputs of a transaction that verify_txn lets through,
\* once what it replaces is gone.
LEMMA VerifiedIsAlone ==
    ASSUME NEW s, Sound(s), NEW t \in Txn \ Genesis, VerifyTxn(s, t, TRUE),
           NEW u \in Accepted(s) \ Replaced(s, t)
    PROVE  Inputs[u] \intersect Inputs[t] = {}
<1>1. CASE Conflicts(s, t) = {}
  <2>1. Unspent(s, t)
    BY <1>1 DEF VerifyTxn, PendAllows
  <2>2. \A o \in Inputs[u] : o[2] \notin s.db[o[1]].utxos
    BY DEF Sound, ClaimsSpentIn
  <2> QED
    BY <2>1, <2>2 DEF Unspent
<1>2. CASE Conflicts(s, t) # {}
  <2>1. /\ Conflict(s, t) \in Accepted(s)
        /\ Inputs[Conflict(s, t)] = Inputs[t]
        /\ u # Conflict(s, t)
    BY <1>2, ConflictFact DEF Accepted, Replaced
  <2> QED
    BY <2>1 DEF Sound, NoDoubleSpendIn
<1> QED
  BY <1>1, <1>2

\* Only pending transactions are replaced.
LEMMA ReplacedInPend ==
    ASSUME NEW s, NEW t PROVE Replaced(s, t) \subseteq DOMAIN s.pend
  BY ConflictFact DEF Replaced

\* The databases after a transaction has been accepted.
LEMMA AcceptFields ==
    ASSUME NEW s \in Store, NEW t \in Txn \ DOMAIN s.db
    PROVE  /\ Accept(s, t) \in Store
           /\ Accept(s, t).now = s.now
           /\ DOMAIN Accept(s, t).db =
                IF Timelock[t] > 0 THEN DOMAIN s.db ELSE DOMAIN s.db \union {t}
           /\ DOMAIN Accept(s, t).pend =
                IF Timelock[t] > 0 THEN (DOMAIN s.pend \ Replaced(s, t)) \union {t}
                                   ELSE DOMAIN s.pend \ Replaced(s, t)
           /\ \A d \in DOMAIN s.db : Accept(s, t).db[d].utxos =
                 {i \in s.db[d].utxos : <<d, i>> \notin Inputs[t]}
<1> DEFINE v == DropReplaced(s, t)
<1>1. /\ v \in Store
      /\ v.now = s.now
      /\ v.db = s.db
      /\ DOMAIN v.pend = DOMAIN s.pend \ Replaced(s, t)
  BY DropReplacedFields
<1>2. s.now \in Nat
  BY DEF Store
<1>3. CASE Timelock[t] > 0
  <2>1. Accept(s, t) = WriteTxnToPend(v, t, s.now)
    BY <1>3 DEF Accept
  <2> HIDE DEF v
  <2> DEFINE b == WriteTxnToPend(v, t, s.now)
  <2>2. /\ b \in Store
        /\ b.now = v.now
        /\ DOMAIN b.pend = DOMAIN v.pend \union {t}
        /\ DOMAIN b.db = DOMAIN v.db
        /\ \A d \in DOMAIN v.db :
              b.db[d].utxos = {i \in v.db[d].utxos : <<d, i>> \notin Inputs[t]}
    BY <1>1, <1>2, PendFields
  <2> HIDE DEF b
  <2>3. Accept(s, t) = b
    BY <2>1 DEF b
  <2> QED
    BY <1>1, <1>3, <2>2, <2>3
<1>4. CASE ~(Timelock[t] > 0)
  <2>1. Accept(s, t) = WriteTxnToDb(v, t, s.now)
    BY <1>4 DEF Accept
  <2> HIDE DEF v
  <2> DEFINE b == WriteTxnToDb(v, t, s.now)
  <2>2. t \in Txn \ DOMAIN v.db
    BY <1>1
  <2>3. /\ b \in Store
        /\ b.now = v.now
        /\ b.pend = v.pend
        /\ DOMAIN b.db = DOMAIN v.db \union {t}
        /\ \A d \in DOMAIN v.db :
              b.db[d].utxos = {i \in v.db[d].utxos : <<d, i>> \notin Inputs[t]}
    BY <1>1, <1>2, <2>2, WriteFields
  <2> HIDE DEF b
  <2>4. Accept(s, t) = b
    BY <2>1 DEF b
  <2> QED
    BY <1>1, <1>4, <2>3, <2>4
<1> QED
  BY <1>3, <1>4

\* Accepting a verified transaction keeps a store sound.
LEMMA AcceptSound ==
    ASSUME NEW s, Sound(s), NEW t \in Txn \ Genesis, VerifyTxn(s, t, TRUE)
    PROVE  Sound(Accept(s, t))
<1> DEFINE b == Accept(s, t)
           R == Replaced(s, t)
<1>1. s \in Store /\ t \notin DOMAIN s.db /\ t \notin DOMAIN s.pend
  BY VerifiedIsNew DEF Sound, Accepted
<1>2. /\ b \in Store
      /\ DOMAIN b.db = IF Timelock[t] > 0 THEN DOMAIN s.db ELSE DOMAIN s.db \union {t}
      /\ DOMAIN b.pend = IF Timelock[t] > 0 THEN (DOMAIN s.pend \ R) \union {t}
                                            ELSE DOMAIN s.pend \ R
      /\ \A d \in DOMAIN s.db : b.db[d].utxos = {i \in s.db[d].utxos : <<d, i>> \notin Inputs[t]}
  BY <1>1, AcceptFields
<1>3. R \in SUBSET DOMAIN s.pend
  BY ReplacedInPend
<1>4. InputsExist(s, t)
  BY DEF VerifyTxn
<1>5. \A u \in Accepted(s) \ R : u # t => Inputs[u] \intersect Inputs[t] = {}
  BY VerifiedIsAlone
<1> HIDE DEF b, R
<1>6. DOMAIN s.db \intersect DOMAIN s.pend = {}
  BY DEF Sound
<1>7. Accepted(b) \subseteq (Accepted(s) \ R) \union {t}
  BY <1>2, <1>3, <1>6 DEF Accepted
<1>8. DOMAIN b.db \intersect DOMAIN b.pend = {}
  BY <1>1, <1>2, <1>6
<1>9. \A d \in DOMAIN s.db :
         /\ d \in DOMAIN b.db
         /\ b.db[d].utxos = {i \in s.db[d].utxos : <<d, i>> \notin Inputs[t]}
  BY <1>2
<1>10. b \in Store /\ t \in Txn \ DOMAIN s.db
  BY <1>1, <1>2
<1> QED
  BY <1>3, <1>4, <1>5, <1>7, <1>8, <1>9, <1>10, TakeOver DEF b

-----------------------------------------------------------------------------
(***************************************************************************)
(* The two loop bodies.                                                    *)
(***************************************************************************)

\* From s to b no transaction leaves the database and no flag goes up again.
Keeps(s, b) ==
    \A t \in DOMAIN s.db : t \in DOMAIN b.db /\ b.db[t].utxos \subseteq s.db[t].utxos

\* Sound depends on the databases only.
LEMMA SameDatabases ==
    ASSUME NEW s, Sound(s), NEW b \in Store, b.db = s.db, b.pend = s.pend
    PROVE  Sound(b)
  BY DEF Sound, NoDoubleSpendIn, ClaimsSpentIn, Accepted

\* Forgetting a pending transaction leaves no claim uncovered.
LEMMA DelSound ==
    ASSUME NEW s, Sound(s), NEW p PROVE Sound(DelFromPending(s, p))
<1> DEFINE b == DelFromPending(s, p)
<1>1. s \in Store
  BY DEF Sound
<1>2. b \in Store
  BY <1>1, DelStore
<1>3. b.db = s.db /\ DOMAIN b.pend = DOMAIN s.pend \ {p}
  BY <1>1, DelFields
<1> HIDE DEF b
<1> QED
  BY <1>2, <1>3 DEF b, Sound, NoDoubleSpendIn, ClaimsSpentIn, Accepted

\* One turn of process_block's loop keeps the store well formed, keeps every
\* stored transaction and turns no spent flag back.
LEMMA ProcessEffect ==
    ASSUME NEW s \in Store, NEW t \in Txn
    PROVE  ProcessTxn(s, t) \in Store /\ Keeps(s, ProcessTxn(s, t))
<1>1. CASE VerifyTxn(s, t, TRUE)
  <2> DEFINE b == Accept(s, t)
  <2>1. t \in Txn \ DOMAIN s.db
    BY <1>1 DEF VerifyTxn
  <2>2. b \in Store
    BY <2>1, AcceptFields
  <2>3. DOMAIN s.db \subseteq DOMAIN b.db
    BY <2>1, AcceptFields
  <2>4. \A d \in DOMAIN s.db : b.db[d].utxos =
                                 {i \in s.db[d].utxos : <<d, i>> \notin Inputs[t]}
    BY <2>1, AcceptFields
  <2>5. ProcessTxn(s, t) = RemoveFromMempool(b, t)
    BY <1>1 DEF ProcessTxn
  <2> HIDE DEF b
  <2>6. RemoveFromMempool(b, t) \in Store /\ RemoveFromMempool(b, t).db = b.db
    BY <2>2, RemoveStore, RemoveFields
  <2> QED
    BY <2>3, <2>4, <2>5, <2>6 DEF Keeps
<1>2. CASE ~VerifyTxn(s, t, TRUE)
  <2>1. ProcessTxn(s, t) = Reject(s, t)
    BY <1>2 DEF ProcessTxn
  <2>2. Reject(s, t) \in Store /\ Reject(s, t).db = s.db
    BY RejectStore, RejectFields
  <2> QED
    BY <2>1, <2>2 DEF Keeps
<1> QED
  BY <1>1, <1>2

\* One turn of process_block's loop keeps a store sound.
LEMMA ProcessSound ==
    ASSUME NEW s, Sound(s), NEW t \in Txn \ Genesis
    PROVE  Sound(ProcessTxn(s, t))
<1>1. CASE VerifyTxn(s, t, TRUE)
  <2> DEFINE b == Accept(s, t)
  <2>1. Sound(b)
    BY <1>1, AcceptSound
  <2>2. ProcessTxn(s, t) = RemoveFromMempool(b, t)
    BY <1>1 DEF ProcessTxn
  <2> HIDE DEF b
  <2>3. b \in Store
    BY <2>1 DEF Sound
  <2>4. /\ RemoveFromMempool(b, t) \in Store
        /\ RemoveFromMempool(b, t).db = b.db
        /\ RemoveFromMempool(b, t).pend = b.pend
    BY <2>3, RemoveStore, RemoveFields
  <2> QED
    BY <2>1, <2>2, <2>4, SameDatabases
<1>2. CASE ~VerifyTxn(s, t, TRUE)
  <2>1. s \in Store
    BY DEF Sound
  <2>2. ProcessTxn(s, t) = Reject(s, t)
    BY <1>2 DEF ProcessTxn
  <2>3. /\ Reject(s, t) \in Store
        /\ Reject(s, t).db = s.db
        /\ Reject(s, t).pend = s.pend
    BY <2>1, RejectStore, RejectFields
  <2> QED
    BY <2>2, <2>3, SameDatabases
<1> QED
  BY <1>1, <1>2

\* What process_block's loop body takes out of pend, it replaces by a newer
\* version that was not there before.
LEMMA ProcessDisplaces ==
    ASSUME NEW s, Sound(s), NEW t \in Txn \ Genesis,
           NEW p \in DOMAIN s.pend \ DOMAIN ProcessTxn(s, t).pend
    PROVE  /\ t \in Accepted(ProcessTxn(s, t)) \ Accepted(s)
           /\ Inputs[t] = Inputs[p]
           /\ SeqNo[t] > SeqNo[p]
<1>1. s \in Store
  BY DEF Sound
<1>2. VerifyTxn(s, t, TRUE)
  BY <1>1, RejectFields DEF ProcessTxn
<1> DEFINE b == Accept(s, t)
<1>3. t \in Txn \ DOMAIN s.db
  BY <1>2 DEF VerifyTxn
<1>4. b \in Store
  BY <1>1, <1>3, AcceptFields
<1>5. DOMAIN s.pend \ Replaced(s, t) \subseteq DOMAIN b.pend
  BY <1>1, <1>3, AcceptFields
<1>6. t \in DOMAIN b.db \union DOMAIN b.pend
  <2>1. CASE Timelock[t] > 0
    <3>1. DOMAIN b.pend = (DOMAIN s.pend \ Replaced(s, t)) \union {t}
      BY <1>1, <1>3, <2>1, AcceptFields
    <3> QED
      BY <3>1
  <2>2. CASE ~(Timelock[t] > 0)
    <3>1. DOMAIN b.db = DOMAIN s.db \union {t}
      BY <1>1, <1>3, <2>2, AcceptFields
    <3> QED
      BY <3>1
  <2> QED
    BY <2>1, <2>2
<1>7. ProcessTxn(s, t) = RemoveFromMempool(b, t)
  BY <1>2 DEF ProcessTxn
<1> HIDE DEF b
<1>8. RemoveFromMempool(b, t).db = b.db /\ RemoveFromMempool(b, t).pend = b.pend
  BY <1>4, RemoveFields
<1>9. p \in Replaced(s, t)
  BY <1>5, <1>7, <1>8
<1>10. Conflicts(s, t) # {} /\ p = Conflict(s, t)
  BY <1>9 DEF Replaced
<1>11. Inputs[p] = Inputs[t]
  BY <1>10, ConflictFact
<1>12. SeqNo[t] > SeqNo[p]
  BY <1>2, <1>10 DEF VerifyTxn, PendAllows, MayReplace
<1>13. t \notin Accepted(s)
  BY <1>2, VerifiedIsNew
<1> QED
  BY <1>6, <1>7, <1>8, <1>11, <1>12, <1>13 DEF Accepted

\* update_pend's loop body, whatever the snapshot it reads from says.
LEMMA MatureEffect ==
    ASSUME NEW s \in Store, NEW p \in Txn, NEW ts \in Nat
    PROVE  /\ MatureTxn(s, p, ts) \in Store
           /\ Keeps(s, MatureTxn(s, p, ts))
           /\ DOMAIN s.pend \ {p} \subseteq DOMAIN MatureTxn(s, p, ts).pend
           /\ DOMAIN MatureTxn(s, p, ts).pend \subseteq DOMAIN s.pend
           /\ \A q \in DOMAIN s.pend \ {p} : MatureTxn(s, p, ts).pend[q] = s.pend[q]
           /\ ~LockExpired(s, p, ts) => MatureTxn(s, p, ts) = s
<1> DEFINE d == DelFromPending(s, p)
<1>1. d \in Store
  BY DelStore
<1>2. /\ d.db = s.db
      /\ DOMAIN d.pend = DOMAIN s.pend \ {p}
      /\ \A q \in DOMAIN s.pend \ {p} : d.pend[q] = s.pend[q]
  BY DelFields
<1>3. CASE ~LockExpired(s, p, ts)
  BY <1>3 DEF MatureTxn, Keeps
<1>4. CASE LockExpired(s, p, ts) /\ VerifyTxn(d, p, FALSE)
  <2>1. MatureTxn(s, p, ts) = WriteTxnToDb(d, p, ts)
    BY <1>4 DEF MatureTxn
  <2>2. p \in Txn \ DOMAIN d.db
    BY <1>4 DEF VerifyTxn
  <2> HIDE DEF d
  <2> DEFINE b == WriteTxnToDb(d, p, ts)
  <2>3. /\ b \in Store
        /\ b.pend = d.pend
        /\ DOMAIN b.db = DOMAIN d.db \union {p}
        /\ \A e \in DOMAIN d.db :
              b.db[e].utxos = {i \in d.db[e].utxos : <<e, i>> \notin Inputs[p]}
    BY <1>1, <2>2, WriteFields
  <2> HIDE DEF b
  <2>4. MatureTxn(s, p, ts) = b
    BY <2>1 DEF b
  <2> QED
    BY <1>2, <1>4, <2>3, <2>4 DEF Keeps
<1>5. CASE LockExpired(s, p, ts) /\ ~VerifyTxn(d, p, FALSE)
  <2>1. MatureTxn(s, p, ts) = Reject(d, p)
    BY <1>5 DEF MatureTxn
  <2> HIDE DEF d
  <2>2. Reject(d, p) \in Store /\ Reject(d, p).db = d.db /\ Reject(d, p).pend = d.pend
    BY <1>1, RejectStore, RejectFields
  <2> QED
    BY <1>2, <1>5, <2>1, <2>2 DEF Keeps
<1> QED
  BY <1>3, <1>4, <1>5

\* Letting a pending transaction mature, or failing to, keeps a store sound.
LEMMA MatureSound ==
    ASSUME NEW s, Sound(s), NEW p \in DOMAIN s.pend, NEW ts \in Nat
    PROVE  Sound(MatureTxn(s, p, ts))
<1> DEFINE d == DelFromPending(s, p)
<1>1. s \in Store /\ p \in Txn
  BY StampsElim DEF Sound, Store
<1>2. d \in Store /\ Sound(d)
  BY <1>1, DelStore, DelSound
<1>3. d.db = s.db /\ DOMAIN d.pend = DOMAIN s.pend \ {p}
  BY <1>1, DelFields
<1>4. CASE ~LockExpired(s, p, ts)
  BY <1>4 DEF MatureTxn
<1>5. CASE LockExpired(s, p, ts) /\ VerifyTxn(d, p, FALSE)
  <2>1. MatureTxn(s, p, ts) = WriteTxnToDb(d, p, ts)
    BY <1>5 DEF MatureTxn
  <2>2. InputsExist(d, p) /\ p \in Txn \ DOMAIN d.db
    BY <1>1, <1>5 DEF VerifyTxn
  <2> HIDE DEF d
  <2> DEFINE b == WriteTxnToDb(d, p, ts)
  <2>3. /\ b \in Store
        /\ b.pend = d.pend
        /\ DOMAIN b.db = DOMAIN d.db \union {p}
        /\ \A e \in DOMAIN d.db :
              b.db[e].utxos = {i \in d.db[e].utxos : <<e, i>> \notin Inputs[p]}
    BY <1>2, <2>2, WriteFields
  <2> HIDE DEF b
  <2>4. Accepted(d) \subseteq Accepted(s) \ {p}
    BY <1>3, <2>2 DEF Accepted
  <2>5. \A u \in Accepted(d) \ {} : u # p => Inputs[u] \intersect Inputs[p] = {}
    BY <2>4 DEF Sound, NoDoubleSpendIn, Accepted
  <2>6. Accepted(b) \subseteq (Accepted(d) \ {}) \union {p}
    BY <2>3 DEF Accepted
  <2>7. DOMAIN b.db \intersect DOMAIN b.pend = {}
    BY <1>2, <1>3, <2>3 DEF Sound
  <2>8. \A e \in DOMAIN d.db :
           /\ e \in DOMAIN b.db
           /\ b.db[e].utxos = {i \in d.db[e].utxos : <<e, i>> \notin Inputs[p]}
    BY <2>3
  <2>9. Sound(b)
    <3> {} \in SUBSET DOMAIN d.pend
      OBVIOUS
    <3> QED
      BY <1>2, <2>2, <2>3, <2>5, <2>6, <2>7, <2>8, TakeOver
  <2> QED
    BY <2>1, <2>9 DEF b
<1>6. CASE LockExpired(s, p, ts) /\ ~VerifyTxn(d, p, FALSE)
  <2>1. MatureTxn(s, p, ts) = Reject(d, p)
    BY <1>6 DEF MatureTxn
  <2> HIDE DEF d
  <2>2. Reject(d, p) \in Store /\ Reject(d, p).db = d.db /\ Reject(d, p).pend = d.pend
    BY <1>1, <1>2, RejectStore, RejectFields
  <2> QED
    BY <1>2, <2>1, <2>2, SameDatabases
<1> QED
  BY <1>4, <1>5, <1>6

-----------------------------------------------------------------------------
(***************************************************************************)
(* Stores that are created, opened again, moved in time or given a         *)
(* transaction to hold.                                                    *)
(***************************************************************************)
\* The store that __init__ creates from the coinbase is well formed.
LEMMA EmptyStoreType == EmptyStore \in Store
<1>1. Genesis \in SUBSET Txn
  BY TxnAssumption
<1>2. [t \in Genesis |-> TxnWrapper(t, 0)] \in [Genesis -> Wrapper]
  BY <1>1, OutputIndexes DEF TxnWrapper, Wrapper
<1>3. [t \in Genesis |-> TxnWrapper(t, 0)] \in Wrappers
  BY <1>1, <1>2, WrappersIntro
<1>4. [t \in {} |-> 0] \in Stamps
  <2>1. {} \in SUBSET Txn /\ [t \in {} |-> 0] \in [{} -> Nat]
    OBVIOUS
  <2> QED
    BY <2>1, StampsIntro
<1>5. [k \in PubKey |-> OwnedBy(k, Genesis)] \in Index
  BY <1>1, OwnedType DEF Index
<1>6. [k \in PubKey |-> {}] \in Index
  BY DEF Index
<1> QED
  BY <1>3, <1>4, <1>5, <1>6 DEF EmptyStore, Store

\* Opening the databases again changes neither of them.
LEMMA ReopenType ==
    ASSUME NEW s \in Store
    PROVE  Reopen(s) \in Store /\ Reopen(s).db = s.db /\ Reopen(s).pend = s.pend
<1>1. DOMAIN s.db \in SUBSET Txn /\ DOMAIN s.pend \in SUBSET Txn
  BY WrappersElim, StampsElim DEF Store
<1>2. /\ [k \in PubKey |-> OwnedBy(k, DOMAIN s.db)] \in Index
      /\ [k \in PubKey |-> OwnedBy(k, DOMAIN s.pend)] \in Index
  BY <1>1, OwnedType DEF Index
<1> QED
  BY <1>2 DEF Reopen, Store

\* try_process moves current_time and nothing else.
LEMMA RetimeType ==
    ASSUME NEW s \in Store, NEW n \in Nat
    PROVE  /\ [s EXCEPT !.now = n] \in Store
           /\ [s EXCEPT !.now = n].db = s.db
           /\ [s EXCEPT !.now = n].pend = s.pend
  BY DEF Store

\* puttxn leaves the two databases alone.
LEMMA AddToMempoolType ==
    ASSUME NEW s \in Store, NEW t \in Txn
    PROVE  /\ AddToMempool(s, t) \in Store
           /\ AddToMempool(s, t).db = s.db
           /\ AddToMempool(s, t).pend = s.pend
  BY DEF AddToMempool, Store

\* A store that holds only the coinbase is sound.
LEMMA EmptySound == Sound(EmptyStore)
<1> DEFINE s == EmptyStore
<1>1. s \in Store /\ DOMAIN s.db = Genesis /\ DOMAIN s.pend = {}
  BY EmptyStoreType DEF EmptyStore
<1>2. \A t \in Accepted(s) : Inputs[t] = {}
  BY <1>1, TxnAssumption DEF Accepted
<1> HIDE DEF s
<1>3. Sound(s)
  BY <1>1, <1>2 DEF Sound, NoDoubleSpendIn, ClaimsSpentIn
<1> QED
  BY <1>3 DEF s

-----------------------------------------------------------------------------
(***************************************************************************)
(* The indexes from public keys to outputs.                                *)
(***************************************************************************)

\* The unspent outputs of k, by the flags.
UnspentOf(s, k) == {o \in UnspentOutpoints(s) : k \in KeysOf(Outputs[o[1]][o[2]])}

\* The index of the stored transactions lists all the unspent outputs, that of
\* the pending ones exactly their outputs.
Indexed(s) ==
    /\ \A t \in DOMAIN s.db : s.db[t].utxos \subseteq DOMAIN Outputs[t]
    /\ \A k \in PubKey : /\ UnspentOf(s, k) \subseteq s.pubOuts[k]
                         /\ s.pubOutsPend[k] = OwnedBy(k, DOMAIN s.pend)

\* It lists nothing else.
NoneSpentListed(s) == \A k \in PubKey : s.pubOuts[k] \subseteq UnspentOf(s, k)

\* From s to b, neither gets lost.
KeepsIndexes(s, b) == /\ Indexed(s) => Indexed(b)
                      /\ NoneSpentListed(s) => NoneSpentListed(b)

\* Membership in the sets that the indexes are compared with.
LEMMA OwnedMember ==
    ASSUME NEW k, NEW S
    PROVE  /\ \A o \in OwnedBy(k, S) : o = <<o[1], o[2]>>
           /\ \A t, i : <<t, i>> \in OwnedBy(k, S) <=>
                 t \in S /\ i \in DOMAIN Outputs[t] /\ k \in KeysOf(Outputs[t][i])
  BY DEF OwnedBy, OutputsOf

\* What is unspent for a key, outpoint by outpoint.
LEMMA UnspentMember ==
    ASSUME NEW s, NEW k
    PROVE  /\ \A o \in UnspentOf(s, k) : o = <<o[1], o[2]>>
           /\ \A t, i : <<t, i>> \in UnspentOf(s, k) <=>
                 t \in DOMAIN s.db /\ i \in s.db[t].utxos /\ k \in KeysOf(Outputs[t][i])
  BY DEF UnspentOf, UnspentOutpoints

\* The indexes depend on the databases and on themselves only.
LEMMA IndexedSame ==
    ASSUME NEW s, NEW b, b.db = s.db, b.pend = s.pend, b.pubOuts = s.pubOuts,
           b.pubOutsPend = s.pubOutsPend
    PROVE  KeepsIndexes(s, b)
  BY DEF KeepsIndexes, Indexed, NoneSpentListed, UnspentOf, UnspentOutpoints

\* Taking a transaction out of pend keeps the indexes.
LEMMA DelIndexed ==
    ASSUME NEW s \in Store, NEW p
    PROVE  KeepsIndexes(s, DelFromPending(s, p))
<1> DEFINE b == DelFromPending(s, p)
<1>1. /\ b.db = s.db /\ b.pubOuts = s.pubOuts /\ DOMAIN b.pend = DOMAIN s.pend \ {p}
      /\ \A k \in PubKey : b.pubOutsPend[k] = s.pubOutsPend[k] \ OwnedBy(k, {p})
  BY DelFields
<1> HIDE DEF b
<1>2. \A k : UnspentOf(b, k) = UnspentOf(s, k)
  BY <1>1 DEF UnspentOf, UnspentOutpoints
<1>3. ASSUME NEW k \in PubKey, s.pubOutsPend[k] = OwnedBy(k, DOMAIN s.pend)
      PROVE  b.pubOutsPend[k] = OwnedBy(k, DOMAIN b.pend)
  <2>1. b.pubOutsPend[k] = OwnedBy(k, DOMAIN s.pend) \ OwnedBy(k, {p})
    BY <1>1, <1>3
  <2>2. OwnedBy(k, DOMAIN s.pend) \ OwnedBy(k, {p}) = OwnedBy(k, DOMAIN s.pend \ {p})
    BY DEF OwnedBy, OutputsOf
  <2> QED
    BY <1>1, <2>1, <2>2
<1>4. Indexed(s) => Indexed(b)
  BY <1>1, <1>2, <1>3 DEF Indexed
<1>5. NoneSpentListed(s) => NoneSpentListed(b)
  BY <1>1, <1>2 DEF NoneSpentListed
<1> QED
  BY <1>4, <1>5 DEF b, KeepsIndexes

\* Flagging outputs as spent keeps the indexes.
LEMMA SpendIndexed ==
    ASSUME NEW s \in Store, NEW O
    PROVE  KeepsIndexes(s, Spend(s, O))
<1> DEFINE b == Spend(s, O)
<1>1. /\ DOMAIN b.db = DOMAIN s.db /\ b.pend = s.pend /\ b.pubOutsPend = s.pubOutsPend
      /\ \A d \in DOMAIN s.db : b.db[d].utxos = {i \in s.db[d].utxos : <<d, i>> \notin O}
      /\ \A k \in PubKey : b.pubOuts[k] = s.pubOuts[k] \ O
  BY SpendFields
<1> HIDE DEF b
<1>2. \A k \in PubKey : UnspentOf(b, k) = UnspentOf(s, k) \ O
  <2> SUFFICES ASSUME NEW k \in PubKey, NEW o
               PROVE  o \in UnspentOf(b, k) <=> o \in UnspentOf(s, k) /\ o \notin O
    OBVIOUS
  <2>1. (o \in UnspentOf(b, k) \/ o \in UnspentOf(s, k)) => o = <<o[1], o[2]>>
    BY UnspentMember
  <2>2. ASSUME o = <<o[1], o[2]>>
        PROVE  o \in UnspentOf(b, k) <=> o \in UnspentOf(s, k) /\ o \notin O
    <3> DEFINE t == o[1]
               i == o[2]
    <3>1. <<t, i>> \in UnspentOf(b, k) <=>
             t \in DOMAIN b.db /\ i \in b.db[t].utxos /\ k \in KeysOf(Outputs[t][i])
      BY UnspentMember
    <3>2. <<t, i>> \in UnspentOf(s, k) <=>
             t \in DOMAIN s.db /\ i \in s.db[t].utxos /\ k \in KeysOf(Outputs[t][i])
      BY UnspentMember
    <3>3. o = <<t, i>>
      BY <2>2
    <3> HIDE DEF t, i
    <3> QED
      BY <1>1, <3>1, <3>2, <3>3
  <2> QED
    BY <2>1, <2>2
<1>3. Indexed(s) => Indexed(b)
  BY <1>1, <1>2 DEF Indexed
<1>4. NoneSpentListed(s) => NoneSpentListed(b)
  BY <1>1, <1>2 DEF NoneSpentListed
<1> QED
  BY <1>3, <1>4 DEF b, KeepsIndexes

\* A new transaction arrives in the database with all its outputs unspent.
LEMMA PutDbIndexed ==
    ASSUME NEW s \in Store, NEW t \in Txn \ DOMAIN s.db, NEW ts \in Nat
    PROVE  KeepsIndexes(s, PutInDb(s, t, ts))
<1> DEFINE b == PutInDb(s, t, ts)
<1>1. /\ DOMAIN b.db = DOMAIN s.db \union {t} /\ b.pend = s.pend /\ b.pubOutsPend = s.pubOutsPend
      /\ \A d \in DOMAIN s.db : b.db[d] = s.db[d]
      /\ b.db[t].utxos = DOMAIN Outputs[t]
      /\ \A k \in PubKey : b.pubOuts[k] = s.pubOuts[k] \union OwnedBy(k, {t})
  BY DEF PutInDb, Store, TxnWrapper
<1> HIDE DEF b
<1>2. \A k \in PubKey : UnspentOf(b, k) = UnspentOf(s, k) \union OwnedBy(k, {t})
  <2> SUFFICES ASSUME NEW k \in PubKey, NEW o
               PROVE  o \in UnspentOf(b, k) <=> o \in UnspentOf(s, k) \/ o \in OwnedBy(k, {t})
    OBVIOUS
  <2>1. (o \in UnspentOf(b, k) \/ o \in UnspentOf(s, k) \/ o \in OwnedBy(k, {t}))
           => o = <<o[1], o[2]>>
    BY UnspentMember, OwnedMember
  <2>2. ASSUME o = <<o[1], o[2]>>
        PROVE  o \in UnspentOf(b, k) <=> o \in UnspentOf(s, k) \/ o \in OwnedBy(k, {t})
    <3> DEFINE d == o[1]
               i == o[2]
    <3>1. <<d, i>> \in UnspentOf(b, k) <=>
             d \in DOMAIN b.db /\ i \in b.db[d].utxos /\ k \in KeysOf(Outputs[d][i])
      BY UnspentMember
    <3>2. <<d, i>> \in UnspentOf(s, k) <=>
             d \in DOMAIN s.db /\ i \in s.db[d].utxos /\ k \in KeysOf(Outputs[d][i])
      BY UnspentMember
    <3>3. <<d, i>> \in OwnedBy(k, {t}) <=>
             d \in {t} /\ i \in DOMAIN Outputs[d] /\ k \in KeysOf(Outputs[d][i])
      BY OwnedMember
    <3>4. o = <<d, i>>
      BY <2>2
    <3> HIDE DEF d, i
    <3> QED
      BY <1>1, <3>1, <3>2, <3>3, <3>4
  <2> QED
    BY <2>1, <2>2
<1>3. Indexed(s) => Indexed(b)
  BY <1>1, <1>2 DEF Indexed
<1>4. NoneSpentListed(s) => NoneSpentListed(b)
  BY <1>1, <1>2 DEF NoneSpentListed
<1> QED
  BY <1>3, <1>4 DEF b, KeepsIndexes

\* Putting a transaction into pend keeps the indexes.
LEMMA PutPendIndexed ==
    ASSUME NEW s \in Store, NEW t \in Txn, NEW ts \in Nat
    PROVE  KeepsIndexes(s, PutInPend(s, t, ts))
<1> DEFINE b == PutInPend(s, t, ts)
<1>1. /\ b.db = s.db /\ b.pubOuts = s.pubOuts /\ DOMAIN b.pend = DOMAIN s.pend \union {t}
      /\ \A k \in PubKey : b.pubOutsPend[k] = s.pubOutsPend[k] \union OwnedBy(k, {t})
  BY DEF PutInPend, Store
<1> HIDE DEF b
<1>2. \A k : UnspentOf(b, k) = UnspentOf(s, k)
  BY <1>1 DEF UnspentOf, UnspentOutpoints
<1>3. ASSUME NEW k \in PubKey, s.pubOutsPend[k] = OwnedBy(k, DOMAIN s.pend)
      PROVE  b.pubOutsPend[k] = OwnedBy(k, DOMAIN b.pend)
  <2>1. b.pubOutsPend[k] = OwnedBy(k, DOMAIN s.pend) \union OwnedBy(k, {t})
    BY <1>1, <1>3
  <2>2. OwnedBy(k, DOMAIN s.pend) \union OwnedBy(k, {t}) = OwnedBy(k, DOMAIN s.pend \union {t})
    BY DEF OwnedBy, OutputsOf
  <2> QED
    BY <1>1, <2>1, <2>2
<1>4. Indexed(s) => Indexed(b)
  BY <1>1, <1>2, <1>3 DEF Indexed
<1>5. NoneSpentListed(s) => NoneSpentListed(b)
  BY <1>1, <1>2 DEF NoneSpentListed
<1> QED
  BY <1>4, <1>5 DEF b, KeepsIndexes

\* One change after another.
LEMMA ThenKeeps ==
    ASSUME NEW s, NEW a, NEW b, KeepsIndexes(s, a), KeepsIndexes(a, b)
    PROVE  KeepsIndexes(s, b)
  BY DEF KeepsIndexes

\* write_txn_to_db: the inputs leave the index and the outputs enter it.
LEMMA WriteIndexed ==
    ASSUME NEW s \in Store, NEW t \in Txn \ DOMAIN s.db, NEW ts \in Nat
    PROVE  KeepsIndexes(s, WriteTxnToDb(s, t, ts))
<1> DEFINE a == Spend(s, Inputs[t])
<1>1. a \in Store /\ DOMAIN a.db = DOMAIN s.db /\ KeepsIndexes(s, a)
  BY SpendFields, SpendStore, SpendIndexed
<1>2. WriteTxnToDb(s, t, ts) = PutInDb(a, t, ts)
  BY DEF WriteTxnToDb
<1> HIDE DEF a
<1>3. KeepsIndexes(a, PutInDb(a, t, ts))
  BY <1>1, PutDbIndexed
<1> QED
  BY <1>1, <1>2, <1>3, ThenKeeps

\* process_block's branch for a time-locked transaction.
LEMMA PendIndexed ==
    ASSUME NEW s \in Store, NEW t \in Txn, NEW ts \in Nat
    PROVE  KeepsIndexes(s, WriteTxnToPend(s, t, ts))
<1> DEFINE a == PutInPend(s, t, ts)
<1>1. a \in Store /\ KeepsIndexes(s, a)
  BY PutPendStore, PutPendIndexed
<1>2. WriteTxnToPend(s, t, ts) = Spend(a, Inputs[t])
  BY DEF WriteTxnToPend
<1> HIDE DEF a
<1>3. KeepsIndexes(a, Spend(a, Inputs[t]))
  BY <1>1, SpendIndexed
<1> QED
  BY <1>1, <1>2, <1>3, ThenKeeps

\* A rejected transaction was in neither index.
LEMMA RejectIndexed ==
    ASSUME NEW s \in Store, NEW t PROVE KeepsIndexes(s, Reject(s, t))
  BY RejectFields, IndexedSame

\* One turn of process_block's loop keeps both indexes exact.
LEMMA ProcessIndexed ==
    ASSUME NEW s \in Store, NEW t \in Txn PROVE KeepsIndexes(s, ProcessTxn(s, t))
<1> DEFINE v == DropReplaced(s, t)
           b == Accept(s, t)
<1>1. v \in Store /\ v.db = s.db /\ s.now \in Nat
  BY DropReplacedFields DEF Store
<1>2. KeepsIndexes(s, v)
  <2>1. CASE Conflicts(s, t) = {}
    BY <2>1 DEF DropReplaced, KeepsIndexes
  <2>2. CASE Conflicts(s, t) # {}
    BY <2>2, DelIndexed DEF DropReplaced
  <2> QED
    BY <2>1, <2>2
<1>3. CASE VerifyTxn(s, t, TRUE)
  <2>1. b = IF Timelock[t] > 0 THEN WriteTxnToPend(v, t, s.now) ELSE WriteTxnToDb(v, t, s.now)
    BY DEF Accept
  <2>2. t \in Txn \ DOMAIN v.db /\ b \in Store
    BY <1>1, <1>3, AcceptFields DEF VerifyTxn
  <2>3. ProcessTxn(s, t) = RemoveFromMempool(b, t)
    BY <1>3 DEF ProcessTxn
  <2> HIDE DEF b, v
  <2>4. KeepsIndexes(v, WriteTxnToPend(v, t, s.now))
    BY <1>1, PendIndexed
  <2>5. KeepsIndexes(v, WriteTxnToDb(v, t, s.now))
    BY <1>1, <2>2, WriteIndexed
  <2>6. KeepsIndexes(v, b)
    BY <2>1, <2>4, <2>5
  <2>7. KeepsIndexes(b, RemoveFromMempool(b, t))
    BY <2>2, RemoveFields, IndexedSame
  <2> QED
    BY <1>2, <2>3, <2>6, <2>7, ThenKeeps
<1>4. CASE ~VerifyTxn(s, t, TRUE)
  BY <1>4, RejectIndexed DEF ProcessTxn
<1> QED
  BY <1>3, <1>4

\* One turn of update_pend's loop does too, whatever the snapshot says.
LEMMA MatureIndexed ==
    ASSUME NEW s \in Store, NEW p \in Txn, NEW ts \in Nat
    PROVE  KeepsIndexes(s, MatureTxn(s, p, ts))
<1> DEFINE d == DelFromPending(s, p)
<1>1. d \in Store /\ KeepsIndexes(s, d)
  BY DelStore, DelIndexed
<1>2. CASE ~LockExpired(s, p, ts)
  BY <1>2 DEF MatureTxn, KeepsIndexes
<1>3. CASE LockExpired(s, p, ts) /\ VerifyTxn(d, p, FALSE)
  <2>1. MatureTxn(s, p, ts) = WriteTxnToDb(d, p, ts) /\ p \in Txn \ DOMAIN d.db
    BY <1>3 DEF MatureTxn, VerifyTxn
  <2> HIDE DEF d
  <2> QED
    BY <1>1, <2>1, WriteIndexed, ThenKeeps
<1>4. CASE LockExpired(s, p, ts) /\ ~VerifyTxn(d, p, FALSE)
  <2>1. MatureTxn(s, p, ts) = Reject(d, p)
    BY <1>4 DEF MatureTxn
  <2> HIDE DEF d
  <2> QED
    BY <1>1, <2>1, RejectIndexed, ThenKeeps
<1> QED
  BY <1>2, <1>3, <1>4

-------------------------------------------------------------------------
(***************************************************************************)
(* Sums of amounts.                                                        *)
(***************************************************************************)
Coins == UNION {OutputsOf(t) : t \in Txn}

\* The coins a set of outpoints is made of have amounts.
LEMMA CoinAmount == \A o \in Coins : AmountOf(o) \in Nat
<1> SUFFICES ASSUME NEW t \in Txn, NEW i \in DOMAIN Outputs[t]
             PROVE  AmountOf(<<t, i>>) \in Nat
  BY DEF Coins, OutputsOf
<1>1. Outputs[t] \in Seq(Output)
  BY TxnAssumption
<1>2. Outputs[t][i] \in Output
  BY <1>1
<1> QED
  BY <1>2 DEF AmountOf, Output

\* SumOf is a sum in the sense of module FoldLemmas.
LEMMA SumOfIsSum ==
    ASSUME NEW S \in SUBSET Coins, IsFiniteSet(S)
    PROVE  \E g : IsSum(g, S, [o \in S |-> AmountOf(o)]) /\ SumOf(S) = g[S]
<1> DEFINE w == [o \in S |-> AmountOf(o)]
           Body(f) == [U \in SUBSET S |->
                        IF U = {} THEN 0
                        ELSE AmountOf(CHOOSE x \in U : TRUE) + f[U \ {CHOOSE x \in U : TRUE}]]
           iter == CHOOSE f : f = Body(f)
<1>1. SumOf(S) = iter[S]
  BY DEF SumOf, MapThenSumSet, MapThenFoldSet
<1>2. w \in [S -> Nat]
  BY CoinAmount
<1>3. \A U \in SUBSET S : U # {} => First(U) \in U
  BY DEF First
<1>4. ASSUME NEW g, IsSum(g, S, w) PROVE g = Body(g)
  <2>1. g \in [SUBSET S -> Nat]
    BY <1>4 DEF IsSum
  <2>2. ASSUME NEW U \in SUBSET S
        PROVE  g[U] = IF U = {} THEN 0 ELSE AmountOf(First(U)) + g[U \ {First(U)}]
    <3>1. g[U] = IF U = {} THEN 0 ELSE w[First(U)] + g[U \ {First(U)}]
      BY <1>4 DEF IsSum
    <3> QED
      BY <1>3, <3>1
  <2> QED
    BY <2>1, <2>2 DEF First
<1>5. PICK g : IsSum(g, S, w)
  <2> HIDE DEF w
  <2> QED
    BY <1>2, SumExists
<1>6. iter = Body(iter)
  <2>1. g = Body(g)
    BY <1>4, <1>5
  <2> HIDE DEF Body
  <2> QED
    BY <2>1
<1> HIDE DEF iter
<1>7. \A U \in SUBSET S :
         iter[U] = IF U = {} THEN 0 ELSE AmountOf(First(U)) + iter[U \ {First(U)}]
  BY <1>6 DEF First
<1>8. iter[S] = g[S]
  <2> DEFINE G == {U \in SUBSET S : iter[U] = g[U]}
  <2>1. ASSUME NEW U \in SUBSET S, \A V \in SUBSET U : V # U => V \in G
        PROVE  U \in G
    <3>1. g[U] = IF U = {} THEN 0 ELSE w[First(U)] + g[U \ {First(U)}]
      BY <1>5 DEF IsSum
    <3>2. CASE U = {}
      BY <1>7, <3>1, <3>2
    <3>3. CASE U # {}
      <4>1. First(U) \in U
        BY <1>3, <3>3
      <4>2. U \ {First(U)} \in G
        BY <2>1, <4>1
      <4> QED
        BY <1>7, <3>1, <3>3, <4>1, <4>2
    <3> QED
      BY <3>2, <3>3
  <2>2. G \in SUBSET SUBSET S
    OBVIOUS
  <2>3. G = SUBSET S
    <3> HIDE DEF G
    <3> QED
      BY <2>1, <2>2, SubsetInduction
  <2> QED
    BY <2>3
<1> QED
  BY <1>1, <1>5, <1>8

\* An outpoint more is its amount more.
LEMMA SumOfAdd ==
    ASSUME NEW S \in SUBSET Coins, IsFiniteSet(S)
    PROVE  /\ SumOf(S) \in Nat
           /\ S = {} => SumOf(S) = 0
           /\ \A o \in S : SumOf(S) = AmountOf(o) + SumOf(S \ {o})
<1> DEFINE w(U) == [o \in U |-> AmountOf(o)]
<1>1. PICK g : IsSum(g, S, w(S)) /\ SumOf(S) = g[S]
  BY SumOfIsSum
<1>2. SumOf(S) \in Nat /\ (S = {} => SumOf(S) = 0)
  BY <1>1 DEF IsSum
<1>3. ASSUME NEW o \in S PROVE SumOf(S) = AmountOf(o) + SumOf(S \ {o})
  <2> DEFINE R == S \ {o}
  <2>1. R \in SUBSET Coins /\ IsFiniteSet(R)
    BY FS_Subset
  <2>2. PICK h : IsSum(h, R, w(R)) /\ SumOf(R) = h[R]
    BY <2>1, SumOfIsSum
  <2>3. \A x \in R : w(R)[x] = w(S)[x] /\ w(R)[x] \in Nat
    BY CoinAmount
  <2>4. w(S) \in [S -> Nat] /\ w(S)[o] = AmountOf(o) /\ R \subseteq S
    BY CoinAmount
  <2>5. g[S] = w(S)[o] + g[S \ {o}]
    <3> HIDE DEF w
    <3> QED
      BY <1>1, <2>4, SumRemove
  <2>6. h[R] = g[R]
    <3> HIDE DEF w, R
    <3> QED
      BY <1>1, <2>1, <2>2, <2>3, <2>4, SumUnique
  <2> QED
    BY <1>1, <2>2, <2>4, <2>5, <2>6
<1> QED
  BY <1>2, <1>3

\* Sums of disjoint sets add up.
LEMMA SumOfUnion ==
    ASSUME NEW A \in SUBSET Coins, IsFiniteSet(A), NEW B \in SUBSET Coins, IsFiniteSet(B),
           A \intersect B = {}
    PROVE  SumOf(A \union B) = SumOf(A) + SumOf(B)
<1> DEFINE G == {U \in SUBSET B : SumOf(A \union U) = SumOf(A) + SumOf(U)}
<1>1. ASSUME NEW U \in SUBSET B, \A V \in SUBSET U : V # U => V \in G
      PROVE  U \in G
  <2>1. /\ U \in SUBSET Coins /\ IsFiniteSet(U) /\ SumOf(A) \in Nat
        /\ A \union U \in SUBSET Coins /\ IsFiniteSet(A \union U)
    BY FS_Subset, FS_Union, SumOfAdd
  <2>2. CASE U = {}
    <3>1. SumOf(U) = 0 /\ A \union U = A
      BY <2>1, <2>2, SumOfAdd
    <3> QED
      BY <2>1, <3>1
  <2>3. CASE U # {}
    <3>1. PICK o \in U : TRUE
      BY <2>3
    <3>2. SumOf(A \union U) = AmountOf(o) + SumOf((A \union U) \ {o})
      <4>1. o \in A \union U
        BY <3>1
      <4> QED
        BY <2>1, <4>1, SumOfAdd
    <3>3. SumOf(U) = AmountOf(o) + SumOf(U \ {o})
      BY <2>1, SumOfAdd
    <3>4. U \ {o} \in G
      BY <1>1, <3>1
    <3>5. (A \union U) \ {o} = A \union (U \ {o})
      BY <3>1
    <3>6. AmountOf(o) \in Nat /\ SumOf(U \ {o}) \in Nat
      <4>1. U \ {o} \in SUBSET Coins /\ IsFiniteSet(U \ {o})
        BY <2>1, FS_Subset
      <4> QED
        BY <4>1, <2>1, CoinAmount, SumOfAdd
    <3> QED
      BY <2>1, <3>2, <3>3, <3>4, <3>5, <3>6
  <2> QED
    BY <2>2, <2>3
<1>2. G \in SUBSET SUBSET B
  OBVIOUS
<1>3. G = SUBSET B
  <2> HIDE DEF G
  <2> QED
    BY <1>1, <1>2, SubsetInduction
<1> QED
  BY <1>3

-----------------------------------------------------------------------------
(***************************************************************************)
(* The coins of a store: the unspent outputs of stored transactions and    *)
(* the outputs of pending ones.                                            *)
(***************************************************************************)
PendOutpoints(s) == UNION {OutputsOf(p) : p \in DOMAIN s.pend}

Claimable(s) == UnspentOutpoints(s) \union PendOutpoints(s)

\* What each primitive change does to them.
LEMMA SameCoins ==
    ASSUME NEW s, NEW b, b.db = s.db, b.pend = s.pend
    PROVE  UnspentOutpoints(b) = UnspentOutpoints(s) /\ PendOutpoints(b) = PendOutpoints(s)
  BY DEF UnspentOutpoints, PendOutpoints

\* A forgotten transaction's outputs are gone.
LEMMA DelCoins ==
    ASSUME NEW s \in Store, NEW p
    PROVE  /\ UnspentOutpoints(DelFromPending(s, p)) = UnspentOutpoints(s)
           /\ PendOutpoints(DelFromPending(s, p)) = PendOutpoints(s) \ OutputsOf(p)
<1> DEFINE b == DelFromPending(s, p)
<1>1. b.db = s.db /\ DOMAIN b.pend = DOMAIN s.pend \ {p}
  BY DelFields
<1> HIDE DEF b
<1>2. UnspentOutpoints(b) = UnspentOutpoints(s)
  BY <1>1 DEF UnspentOutpoints
<1>3. PendOutpoints(b) = PendOutpoints(s) \ OutputsOf(p)
  BY <1>1 DEF PendOutpoints, OutputsOf
<1> QED
  BY <1>2, <1>3 DEF b

\* Spent outpoints are gone.
LEMMA SpendCoins ==
    ASSUME NEW s \in Store, NEW O
    PROVE  /\ UnspentOutpoints(Spend(s, O)) = UnspentOutpoints(s) \ O
           /\ PendOutpoints(Spend(s, O)) = PendOutpoints(s)
<1> DEFINE b == Spend(s, O)
<1>1. /\ DOMAIN b.db = DOMAIN s.db /\ b.pend = s.pend
      /\ \A d \in DOMAIN s.db : b.db[d].utxos = {i \in s.db[d].utxos : <<d, i>> \notin O}
  BY SpendFields
<1> HIDE DEF b
<1>2. UnspentOutpoints(b) = UnspentOutpoints(s) \ O
  BY <1>1 DEF UnspentOutpoints
<1>3. PendOutpoints(b) = PendOutpoints(s)
  BY <1>1 DEF PendOutpoints
<1> QED
  BY <1>2, <1>3 DEF b

\* A stored transaction's outputs are there.
LEMMA PutDbCoins ==
    ASSUME NEW s \in Store, NEW t \in Txn \ DOMAIN s.db, NEW ts \in Nat
    PROVE  /\ UnspentOutpoints(PutInDb(s, t, ts)) = UnspentOutpoints(s) \union OutputsOf(t)
           /\ PendOutpoints(PutInDb(s, t, ts)) = PendOutpoints(s)
<1> DEFINE b == PutInDb(s, t, ts)
<1>1. /\ DOMAIN b.db = DOMAIN s.db \union {t} /\ b.pend = s.pend
      /\ \A d \in DOMAIN s.db : b.db[d] = s.db[d]
      /\ b.db[t].utxos = DOMAIN Outputs[t]
  BY DEF PutInDb, Store, TxnWrapper
<1> HIDE DEF b
<1>2. UnspentOutpoints(b) = UnspentOutpoints(s) \union OutputsOf(t)
  BY <1>1 DEF UnspentOutpoints, OutputsOf
<1>3. PendOutpoints(b) = PendOutpoints(s)
  BY <1>1 DEF PendOutpoints
<1> QED
  BY <1>2, <1>3 DEF b

\* So are a pending one's.
LEMMA PutPendCoins ==
    ASSUME NEW s \in Store, NEW t \in Txn, NEW ts \in Nat
    PROVE  /\ UnspentOutpoints(PutInPend(s, t, ts)) = UnspentOutpoints(s)
           /\ PendOutpoints(PutInPend(s, t, ts)) = PendOutpoints(s) \union OutputsOf(t)
<1> DEFINE b == PutInPend(s, t, ts)
<1>1. b.db = s.db /\ DOMAIN b.pend = DOMAIN s.pend \union {t}
  BY DEF PutInPend, Store
<1> HIDE DEF b
<1>2. UnspentOutpoints(b) = UnspentOutpoints(s)
  BY <1>1 DEF UnspentOutpoints
<1>3. PendOutpoints(b) = PendOutpoints(s) \union OutputsOf(t)
  BY <1>1 DEF PendOutpoints
<1> QED
  BY <1>2, <1>3 DEF b

\* write_txn_to_db trades the inputs for the outputs.
LEMMA WriteCoins ==
    ASSUME NEW s \in Store, NEW t \in Txn \ DOMAIN s.db, NEW ts \in Nat
    PROVE  /\ UnspentOutpoints(WriteTxnToDb(s, t, ts)) =
                 (UnspentOutpoints(s) \ Inputs[t]) \union OutputsOf(t)
           /\ PendOutpoints(WriteTxnToDb(s, t, ts)) = PendOutpoints(s)
<1> DEFINE a == Spend(s, Inputs[t])
<1>1. a \in Store /\ DOMAIN a.db = DOMAIN s.db
  BY SpendFields, SpendStore
<1>2. UnspentOutpoints(a) = UnspentOutpoints(s) \ Inputs[t] /\ PendOutpoints(a) = PendOutpoints(s)
  BY SpendCoins
<1>3. WriteTxnToDb(s, t, ts) = PutInDb(a, t, ts)
  BY DEF WriteTxnToDb
<1> HIDE DEF a
<1> QED
  BY <1>1, <1>2, <1>3, PutDbCoins

\* What verify_txn replaces, and its outputs.
ReplacedOutpoints(s, t) == UNION {OutputsOf(r) : r \in Replaced(s, t)}

\* Accepting a transaction trades its inputs and the outputs of what it
\* replaces for its outputs, locked or not.
LEMMA AcceptCoins ==
    ASSUME NEW s \in Store, NEW t \in Txn \ DOMAIN s.db
    PROVE  Claimable(Accept(s, t)) =
               (UnspentOutpoints(s) \ Inputs[t]) \union
               (PendOutpoints(s) \ ReplacedOutpoints(s, t)) \union OutputsOf(t)
<1> DEFINE v == DropReplaced(s, t)
           b == Accept(s, t)
<1>1. v \in Store /\ v.db = s.db /\ s.now \in Nat /\ t \in Txn \ DOMAIN v.db
  BY DropReplacedFields DEF Store
<1>2. /\ UnspentOutpoints(v) = UnspentOutpoints(s)
      /\ PendOutpoints(v) = PendOutpoints(s) \ ReplacedOutpoints(s, t)
  <2>1. CASE Conflicts(s, t) = {}
    BY <2>1 DEF DropReplaced, Replaced, ReplacedOutpoints
  <2>2. CASE Conflicts(s, t) # {}
    <3>1. v = DelFromPending(s, Conflict(s, t))
      BY <2>2 DEF DropReplaced
    <3>2. ReplacedOutpoints(s, t) = OutputsOf(Conflict(s, t))
      BY <2>2 DEF Replaced, ReplacedOutpoints
    <3> QED
      BY <3>1, <3>2, DelCoins
  <2> QED
    BY <2>1, <2>2
<1>3. b = IF Timelock[t] > 0 THEN WriteTxnToPend(v, t, s.now) ELSE WriteTxnToDb(v, t, s.now)
  BY DEF Accept
<1> HIDE DEF b, v
<1>4. CASE Timelock[t] > 0
  <2> DEFINE a == PutInPend(v, t, s.now)
  <2>1. /\ a \in Store
        /\ UnspentOutpoints(a) = UnspentOutpoints(v)
        /\ PendOutpoints(a) = PendOutpoints(v) \union OutputsOf(t)
    BY <1>1, PutPendStore, PutPendCoins
  <2>2. b = Spend(a, Inputs[t])
    BY <1>3, <1>4 DEF WriteTxnToPend
  <2> HIDE DEF a
  <2>3. /\ UnspentOutpoints(b) = UnspentOutpoints(a) \ Inputs[t]
        /\ PendOutpoints(b) = PendOutpoints(a)
    BY <2>1, <2>2, SpendCoins
  <2> QED
    BY <1>2, <2>1, <2>3 DEF Claimable, b
<1>5. CASE ~(Timelock[t] > 0)
  <2>1. /\ UnspentOutpoints(b) = (UnspentOutpoints(v) \ Inputs[t]) \union OutputsOf(t)
        /\ PendOutpoints(b) = PendOutpoints(v)
    BY <1>1, <1>3, <1>5, WriteCoins
  <2> QED
    BY <1>2, <2>1 DEF Claimable, b
<1> QED
  BY <1>4, <1>5

\* The outputs of one transaction.
LEMMA OutputCoins ==
    ASSUME NEW t \in Txn PROVE OutputsOf(t) \in SUBSET Coins /\ IsFiniteSet(OutputsOf(t))
<1>1. OutputsOf(t) \in SUBSET Coins
  BY DEF Coins
<1>2. Outputs[t] \in Seq(Output)
  BY TxnAssumption
<1> DEFINE n == Len(Outputs[t])
           f == [i \in 1 .. n |-> <<t, i>>]
<1>3. n \in Nat /\ DOMAIN Outputs[t] = 1 .. n
  BY <1>2
<1>4. f \in Surjection(1 .. n, OutputsOf(t))
  BY <1>3 DEF Surjection, OutputsOf
<1>5. IsFiniteSet(1 .. n)
  <2> HIDE DEF n
  <2> QED
    BY <1>3, FS_Interval
<1> HIDE DEF f, n
<1> QED
  BY <1>1, <1>4, <1>5, FS_Surjection

\* An entry for an outpoint counts its amount, and each further entry again.
LEMMA CountAgain ==
    ASSUME NEW e \in Nat \ {0}, NEW a \in Nat PROVE e * a \in Nat /\ e * a - a \in Nat
<1> DEFINE k == e - 1
<1>1. k \in Nat /\ e = k + 1
  OBVIOUS
<1> HIDE DEF k
<1>2. k * a \in Nat
  BY <1>1
<1>3. e * a = k * a + a
  BY <1>1
<1> QED
  BY <1>2, <1>3

\* A transaction counts its inputs for what they are worth, and a surplus.
LEMMA Counted ==
    ASSUME NEW t \in Txn, Inputs[t] \in SUBSET Coins
    PROVE  /\ SumOf(Inputs[t]) \in Nat /\ Overcounted(t) \in Nat
           /\ HasCoins(t) = SumOf(Inputs[t]) + Overcounted(t)
           /\ Inputs[t] = {} => Overcounted(t) = 0
<1> DEFINE I == Inputs[t]
           w == [o \in I |-> Entries[t][o] * AmountOf(o)]
           a == [o \in I |-> AmountOf(o)]
           d == [o \in I |-> w[o] - a[o]]
<1>1. IsFiniteSet(I) /\ \A o \in I : Entries[t][o] \in Nat \ {0} /\ AmountOf(o) \in Nat
  BY TxnAssumption, CoinAmount
<1>2. \A o \in I : w[o] \in Nat /\ a[o] \in Nat /\ d[o] \in Nat
  BY <1>1, CountAgain
<1>3. w \in [I -> Nat] /\ a \in [I -> Nat] /\ d \in [I -> Nat] /\ \A o \in I : w[o] = a[o] + d[o]
  <2>1. \A o \in I : w[o] = a[o] + d[o]
    <3> SUFFICES ASSUME NEW o \in I PROVE w[o] = a[o] + d[o]
      OBVIOUS
    <3>1. w[o] \in Nat /\ a[o] \in Nat /\ d[o] = w[o] - a[o]
      BY <1>2
    <3> HIDE DEF w, a, d
    <3> QED
      BY <3>1
  <2> QED
    BY <1>2, <2>1
<1>4. PICK h : IsSum(h, I, a) /\ SumOf(I) = h[I]
  BY <1>1, SumOfIsSum
<1>5. HasCoins(t) = SumFunction(w)
  BY DEF HasCoins
<1> HIDE DEF w, a, d, I
<1>6. PICK g : IsSum(g, I, w) /\ SumFunction(w) = g[I]
  BY <1>1, <1>3, FunctionSum
<1>7. PICK k : IsSum(k, I, d)
  BY <1>1, <1>3, SumExists
<1>8. g[I] = h[I] + k[I]
  BY <1>1, <1>3, <1>4, <1>6, <1>7, SumPlus
<1>9. h[I] \in Nat /\ k[I] \in Nat /\ (I = {} => k[I] = 0)
  BY <1>4, <1>7 DEF IsSum
<1>10. Overcounted(t) = k[I]
  <2>1. Overcounted(t) = HasCoins(t) - SumOf(I)
    BY DEF Overcounted, I
  <2> QED
    BY <2>1, <1>4, <1>5, <1>6, <1>8, <1>9
<1> QED
  BY <1>4, <1>5, <1>6, <1>8, <1>9, <1>10 DEF I

\* Where no outpoint has two entries there is no surplus.
LEMMA CountedOnce ==
    ASSUME NEW t \in Txn, Inputs[t] \in SUBSET Coins, \A o \in Inputs[t] : Entries[t][o] = 1
    PROVE  Overcounted(t) = 0
<1> DEFINE I == Inputs[t]
           w == [o \in I |-> Entries[t][o] * AmountOf(o)]
           a == [o \in I |-> AmountOf(o)]
<1>1. IsFiniteSet(I) /\ \A o \in I : AmountOf(o) \in Nat
  BY TxnAssumption, CoinAmount
<1>2. w = a /\ a \in [I -> Nat]
  BY <1>1
<1>3. PICK h : IsSum(h, I, a) /\ SumOf(I) = h[I]
  BY <1>1, SumOfIsSum
<1>4. HasCoins(t) = SumFunction(w) /\ Overcounted(t) = HasCoins(t) - SumOf(I)
  BY DEF HasCoins, Overcounted
<1> HIDE DEF w, a, I
<1>5. PICK g : IsSum(g, I, a) /\ SumFunction(a) = g[I]
  BY <1>1, <1>2, FunctionSum
<1>6. g[I] = h[I]
  BY <1>1, <1>2, <1>3, <1>5, SumUnique
<1>7. h[I] \in Nat
  BY <1>3 DEF IsSum
<1> QED
  BY <1>2, <1>3, <1>4, <1>5, <1>6, <1>7

\* The surplus of several transactions.
SurplusOf(T) == SumFunction([t \in T |-> Overcounted(t)])

LEMMA SurplusAdd ==
    ASSUME NEW T, IsFiniteSet(T), \A t \in T : Overcounted(t) \in Nat
    PROVE  /\ SurplusOf(T) \in Nat
           /\ \A t \in T : SurplusOf(T) = Overcounted(t) + SurplusOf(T \ {t})
           /\ (\A t \in T : Overcounted(t) = 0) => SurplusOf(T) = 0
<1> DEFINE w(U) == [t \in U |-> Overcounted(t)]
<1>1. ASSUME NEW U \in SUBSET T
      PROVE  IsFiniteSet(U) /\ w(U) \in [U -> Nat] /\ \E g : IsSum(g, U, w(U)) /\ SurplusOf(U) = g[U]
  <2>1. IsFiniteSet(U) /\ w(U) \in [U -> Nat]
    BY FS_Subset
  <2>2. SurplusOf(U) = SumFunction(w(U))
    BY DEF SurplusOf
  <2> HIDE DEF w
  <2> QED
    BY <2>1, <2>2, FunctionSum
<1>2. PICK g : IsSum(g, T, w(T)) /\ SurplusOf(T) = g[T]
  BY <1>1
<1>3. ASSUME NEW t \in T PROVE SurplusOf(T) = Overcounted(t) + SurplusOf(T \ {t})
  <2> DEFINE R == T \ {t}
  <2>1. PICK h : IsSum(h, R, w(R)) /\ SurplusOf(R) = h[R]
    BY <1>1
  <2>2. IsFiniteSet(R) /\ w(T) \in [T -> Nat] /\ w(T)[t] = Overcounted(t)
    BY <1>1
  <2>3. \A x \in R : w(R)[x] = w(T)[x] /\ w(R)[x] \in Nat
    OBVIOUS
  <2>6. R \subseteq T
    OBVIOUS
  <2>4. g[T] = w(T)[t] + g[R]
    <3> HIDE DEF w
    <3> QED
      BY <1>2, <2>2, SumRemove
  <2>5. h[R] = g[R]
    <3> HIDE DEF w, R
    <3> QED
      BY <1>2, <2>1, <2>2, <2>3, <2>6, SumUnique
  <2> QED
    BY <1>2, <2>1, <2>2, <2>4, <2>5
<1>4. ASSUME \A t \in T : Overcounted(t) = 0 PROVE SurplusOf(T) = 0
  <2>1. w(T) \in [T -> Nat] /\ \A t \in T : w(T)[t] = 0
    BY <1>4
  <2> HIDE DEF w
  <2> QED
    BY <1>2, <2>1, SumZero
<1>5. SurplusOf(T) \in Nat
  <2> HIDE DEF w
  <2> QED
    BY <1>2 DEF IsSum
<1> QED
  BY <1>3, <1>4, <1>5

\* What accepted transactions claim are coins, so their surplus is a number.
LEMMA SoundCounts ==
    ASSUME NEW s, Sound(s)
    PROVE  \A t \in Accepted(s) : t \in Txn /\ Inputs[t] \in SUBSET Coins /\ Overcounted(t) \in Nat
<1> SUFFICES ASSUME NEW t \in Accepted(s)
             PROVE  t \in Txn /\ Inputs[t] \in SUBSET Coins /\ Overcounted(t) \in Nat
  OBVIOUS
<1>1. DOMAIN s.db \in SUBSET Txn /\ DOMAIN s.pend \in SUBSET Txn
  BY WrappersElim, StampsElim DEF Sound, Store
<1>2. t \in Txn
  BY <1>1 DEF Accepted
<1>3. \A o \in Inputs[t] : o[1] \in DOMAIN s.db /\ o[2] \in DOMAIN Outputs[o[1]] /\ o = <<o[1], o[2]>>
  BY <1>2, TxnAssumption DEF Sound, ClaimsSpentIn
<1>4. \A o \in Inputs[t] : o \in Coins
  BY <1>1, <1>3 DEF Coins, OutputsOf
<1> QED
  BY <1>2, <1>4, Counted

\* A store whose coins have a sum, and that holds back balanced transactions
\* only.
Solvent(s) ==
    /\ Sound(s)
    /\ IsFiniteSet(Accepted(s))
    /\ Claimable(s) \in SUBSET Coins
    /\ IsFiniteSet(Claimable(s))
    /\ \A p \in DOMAIN s.pend : Balanced(p)

\* The three kinds of coins do not overlap: unspent outputs, outputs of pending
\* transactions, and what pending transactions claim.
LEMMA CoinsApart ==
    ASSUME NEW s, Sound(s)
    PROVE  /\ UnspentOutpoints(s) \intersect PendOutpoints(s) = {}
           /\ \A p \in DOMAIN s.pend : Inputs[p] \intersect UnspentOutpoints(s) = {}
           /\ \A t \in Txn \ Accepted(s) : OutputsOf(t) \intersect Claimable(s) = {}
           /\ \A p \in DOMAIN s.pend : OutputsOf(p) \subseteq PendOutpoints(s)
<1>1. DOMAIN s.db \intersect DOMAIN s.pend = {}
  BY DEF Sound
<1>2. /\ \A o \in UnspentOutpoints(s) : o[1] \in DOMAIN s.db /\ o[2] \in s.db[o[1]].utxos
      /\ \A o \in PendOutpoints(s) : o[1] \in DOMAIN s.pend
      /\ \A t : \A o \in OutputsOf(t) : o[1] = t
  BY DEF UnspentOutpoints, PendOutpoints, OutputsOf
<1>3. \A p \in DOMAIN s.pend : \A o \in Inputs[p] : o[2] \notin s.db[o[1]].utxos
  BY DEF Sound, ClaimsSpentIn, Accepted
<1>4. \A p \in DOMAIN s.pend : OutputsOf(p) \subseteq PendOutpoints(s)
  BY DEF PendOutpoints
<1>5. \A t \in Txn \ Accepted(s) : OutputsOf(t) \intersect Claimable(s) = {}
  BY <1>2 DEF Claimable, Accepted
<1>6. UnspentOutpoints(s) \intersect PendOutpoints(s) = {}
  BY <1>1, <1>2
<1>7. \A p \in DOMAIN s.pend : Inputs[p] \intersect UnspentOutpoints(s) = {}
  BY <1>2, <1>3
<1> QED
  BY <1>4, <1>5, <1>6, <1>7

\* The supply is the sum of all coins.
LEMMA SupplyIsSum ==
    ASSUME NEW s, Solvent(s)
    PROVE  Supply(s) = SumOf(Claimable(s)) /\ Supply(s) \in Nat
<1> DEFINE U == UnspentOutpoints(s)
           P == PendOutpoints(s)
<1>1. U \intersect P = {} /\ Claimable(s) = U \union P
  BY CoinsApart DEF Solvent, Claimable
<1>2. U \in SUBSET Coins /\ IsFiniteSet(U) /\ P \in SUBSET Coins /\ IsFiniteSet(P)
  BY <1>1, FS_Subset DEF Solvent
<1>3. Supply(s) = SumOf(U) + SumOf(P)
  BY DEF Supply, PendOutpoints
<1>4. SumOf(U) \in Nat /\ SumOf(P) \in Nat
  BY <1>2, SumOfAdd
<1> HIDE DEF U, P
<1>5. SumOf(U \union P) = SumOf(U) + SumOf(P)
  BY <1>1, <1>2, SumOfUnion
<1> QED
  BY <1>1, <1>3, <1>4, <1>5

\* Taking coins away takes their sum away.
LEMMA SumOfRest ==
    ASSUME NEW A \in SUBSET Coins, IsFiniteSet(A), NEW B \in SUBSET A
    PROVE  /\ SumOf(A \ B) \in Nat /\ SumOf(B) \in Nat
           /\ SumOf(A) = SumOf(A \ B) + SumOf(B)
<1> DEFINE C == A \ B
<1>1. /\ C \in SUBSET Coins /\ IsFiniteSet(C) /\ B \in SUBSET Coins /\ IsFiniteSet(B)
      /\ C \intersect B = {} /\ C \union B = A
  BY FS_Subset
<1>2. SumOf(C) \in Nat /\ SumOf(B) \in Nat
  BY <1>1, SumOfAdd
<1> HIDE DEF C
<1>3. SumOf(C \union B) = SumOf(C) + SumOf(B)
  BY <1>1, SumOfUnion
<1> QED
  BY <1>1, <1>2, <1>3 DEF C

\* Trading coins for others changes the sum by the difference.
LEMMA SumOfTrade ==
    ASSUME NEW A \in SUBSET Coins, IsFiniteSet(A), NEW B \in SUBSET A,
           NEW C \in SUBSET Coins, IsFiniteSet(C), A \intersect C = {}
    PROVE  /\ (A \ B) \union C \in SUBSET Coins
           /\ IsFiniteSet((A \ B) \union C)
           /\ SumOf((A \ B) \union C) + SumOf(B) = SumOf(A) + SumOf(C)
           /\ SumOf(B) \in Nat /\ SumOf(C) \in Nat
<1> DEFINE D == A \ B
<1>1. SumOf(D) \in Nat /\ SumOf(B) \in Nat /\ SumOf(A) = SumOf(D) + SumOf(B)
  BY SumOfRest
<1>2. D \in SUBSET Coins /\ IsFiniteSet(D) /\ D \intersect C = {} /\ SumOf(C) \in Nat
  BY FS_Subset, SumOfAdd
<1> HIDE DEF D
<1>3. SumOf(D \union C) = SumOf(D) + SumOf(C) /\ IsFiniteSet(D \union C)
  BY <1>2, SumOfUnion, FS_Union
<1> QED
  BY <1>1, <1>2, <1>3 DEF D

\* The supply of b is that of s, except for what its transactions count twice.
Accounts(s, b) ==
    /\ Solvent(b)
    /\ Supply(b) + Surplus(s) <= Supply(s) + Surplus(b)

\* A solvent store's surplus is a number.
LEMMA SurplusFact ==
    ASSUME NEW s, Solvent(s)
    PROVE  /\ Surplus(s) = SurplusOf(Accepted(s)) /\ Surplus(s) \in Nat
           /\ \A t \in Accepted(s) : Overcounted(t) \in Nat
<1>1. Surplus(s) = SurplusOf(Accepted(s))
  BY DEF Surplus, SurplusOf
<1>2. IsFiniteSet(Accepted(s)) /\ \A t \in Accepted(s) : Overcounted(t) \in Nat
  BY SoundCounts DEF Solvent
<1>3. SurplusOf(Accepted(s)) \in Nat
  BY <1>2, SurplusAdd
<1> QED
  BY <1>1, <1>2, <1>3

\* Accepting a verified transaction takes what it replaces away.
LEMMA AcceptAccepted ==
    ASSUME NEW s, Sound(s), NEW t \in Txn \ Genesis, VerifyTxn(s, t, TRUE)
    PROVE  /\ Accepted(Accept(s, t)) = (Accepted(s) \ Replaced(s, t)) \union {t}
           /\ t \notin Accepted(s)
<1>1. s \in Store /\ t \notin Accepted(s) /\ t \in Txn \ DOMAIN s.db
  BY VerifiedIsNew DEF Sound, Accepted
<1>2. Replaced(s, t) \intersect DOMAIN s.db = {}
  <2>1. Replaced(s, t) \subseteq DOMAIN s.pend
    BY ConflictFact DEF Replaced
  <2> QED
    BY <2>1 DEF Sound
<1>3. /\ DOMAIN Accept(s, t).db =
            IF Timelock[t] > 0 THEN DOMAIN s.db ELSE DOMAIN s.db \union {t}
      /\ DOMAIN Accept(s, t).pend =
            IF Timelock[t] > 0 THEN (DOMAIN s.pend \ Replaced(s, t)) \union {t}
                               ELSE DOMAIN s.pend \ Replaced(s, t)
  BY <1>1, AcceptFields
<1>4. CASE Timelock[t] > 0
  BY <1>1, <1>2, <1>3, <1>4 DEF Accepted
<1>5. CASE ~(Timelock[t] > 0)
  BY <1>1, <1>2, <1>3, <1>5 DEF Accepted
<1> QED
  BY <1>1, <1>4, <1>5

\* Accepting a verified transaction creates the coins it counts twice, and
\* destroys none but those a transaction it replaces had counted twice.
LEMMA AcceptSupply ==
    ASSUME NEW s, Solvent(s), NEW t \in Txn \ Genesis, VerifyTxn(s, t, TRUE)
    PROVE  Accounts(s, Accept(s, t))
<1> DEFINE b == Accept(s, t)
           U == UnspentOutpoints(s)
           P == PendOutpoints(s)
           I == Inputs[t]
           C == OutputsOf(t)
           T == Accepted(s)
<1>1. Sound(s) /\ s \in Store /\ t \notin T /\ t \in Txn \ DOMAIN s.db /\ Sound(b)
  BY VerifiedIsNew, AcceptSound DEF Solvent, Sound, Accepted
<1>2. Claimable(b) = (U \ I) \union (P \ ReplacedOutpoints(s, t)) \union C
  BY <1>1, AcceptCoins
<1>3. Balanced(t) /\ Accepted(b) = (T \ Replaced(s, t)) \union {t}
  BY <1>1, AcceptAccepted DEF VerifyTxn
<1>4. C \in SUBSET Coins /\ IsFiniteSet(C) /\ Claimable(s) \intersect C = {}
  BY <1>1, OutputCoins, CoinsApart
<1>5. I \intersect P = {}
  <2>1. \A o \in I : o[1] \in DOMAIN s.db
    BY DEF VerifyTxn, InputsExist
  <2>2. \A o \in P : o[1] \in DOMAIN s.pend
    BY DEF PendOutpoints, OutputsOf
  <2> QED
    BY <1>1, <2>1, <2>2 DEF Sound
<1>6. Claimable(s) = U \union P
  BY DEF Claimable
<1>7. IsFiniteSet(T) /\ \A u \in T : Overcounted(u) \in Nat
  BY SurplusFact DEF Solvent
<1> HIDE DEF b
<1>8. IsFiniteSet(Accepted(b)) /\ Solvent(b)
  <2>1. IsFiniteSet(Accepted(b))
    <3> HIDE DEF T
    <3>1. IsFiniteSet(T \ Replaced(s, t))
      BY <1>7, FS_Difference
    <3> QED
      BY <1>3, <3>1, FS_AddElement
  <2>2. Claimable(b) \in SUBSET Coins /\ IsFiniteSet(Claimable(b))
    <3>1. Claimable(b) \subseteq Claimable(s) \union C
      BY <1>2, <1>6
    <3>2. Claimable(s) \union C \in SUBSET Coins /\ IsFiniteSet(Claimable(s) \union C)
      <4> HIDE DEF C
      <4> QED
        BY <1>4, FS_Union DEF Solvent
    <3> QED
      BY <3>1, <3>2, FS_Subset
  <2>3. \A q \in DOMAIN b.pend : Balanced(q)
    <3>1. DOMAIN b.pend \subseteq DOMAIN s.pend \union {t}
      <4>1. DOMAIN b.pend = IF Timelock[t] > 0 THEN (DOMAIN s.pend \ Replaced(s, t)) \union {t}
                                              ELSE DOMAIN s.pend \ Replaced(s, t)
        BY <1>1, AcceptFields DEF b
      <4> QED
        BY <4>1
    <3> QED
      BY <1>3, <3>1 DEF Solvent
  <2> QED
    BY <1>1, <2>1, <2>2, <2>3 DEF Solvent
<1>9. SurplusOf(Accepted(b)) \in Nat /\ SurplusOf(T) \in Nat /\ Overcounted(t) \in Nat
  <2>1. t \in Accepted(b)
    BY <1>3
  <2> QED
    BY <1>8, <2>1, SurplusFact
<1>10. SurplusOf(Accepted(b)) = Overcounted(t) + SurplusOf(T \ Replaced(s, t))
  <2>1. Accepted(b) \ {t} = T \ Replaced(s, t)
    BY <1>1, <1>3
  <2>2. \A u \in Accepted(b) : Overcounted(u) \in Nat
    BY <1>8, SurplusFact
  <2>3. t \in Accepted(b)
    BY <1>3
  <2> QED
    BY <1>8, <2>1, <2>2, <2>3, SurplusAdd
<1>11. I \in SUBSET Coins /\ SumOf(C) = SumOf(I) + Overcounted(t) /\ SumOf(I) \in Nat
  <2>1. I \in SUBSET Coins
    <3>1. t \in Accepted(b)
      BY <1>3
    <3> QED
      BY <1>8, <3>1, SoundCounts DEF Solvent
  <2>2. t \in Txn
    OBVIOUS
  <2> QED
    BY <1>3, <2>1, <2>2, Counted DEF Balanced
<1>12. \E B \in SUBSET Claimable(s) :
          /\ Claimable(b) = (Claimable(s) \ B) \union C
          /\ SumOf(B) + SurplusOf(Accepted(b)) = SumOf(C) + SurplusOf(T)
  <2>1. CASE Conflicts(s, t) = {}
    <3>1. Unspent(s, t)
      BY <2>1 DEF VerifyTxn, PendAllows
    <3>2. I \subseteq U
      <4> SUFFICES ASSUME NEW o \in I PROVE o \in U
        OBVIOUS
      <4>1. o[1] \in DOMAIN s.db /\ o[2] \in s.db[o[1]].utxos
        BY <3>1 DEF Unspent, VerifyTxn, InputsExist
      <4>2. o = <<o[1], o[2]>>
        BY TxnAssumption
      <4> QED
        BY <4>1, <4>2 DEF UnspentOutpoints
    <3>3. ReplacedOutpoints(s, t) = {} /\ Replaced(s, t) = {}
      BY <2>1 DEF ReplacedOutpoints, Replaced
    <3>4. Claimable(b) = (Claimable(s) \ I) \union C
      <4> HIDE DEF U, P, I, C
      <4> QED
        BY <1>2, <1>5, <1>6, <3>3
    <3>5. SurplusOf(Accepted(b)) = Overcounted(t) + SurplusOf(T)
      <4>1. T \ Replaced(s, t) = T
        BY <3>3
      <4> QED
        BY <1>10, <4>1
    <3>6. SumOf(I) + SurplusOf(Accepted(b)) = SumOf(C) + SurplusOf(T)
      <4> HIDE DEF I, C, T
      <4> QED
        BY <1>9, <1>11, <3>5
    <3> QED
      BY <1>6, <3>2, <3>4, <3>6
  <2>2. CASE Conflicts(s, t) # {}
    <3> DEFINE p == Conflict(s, t)
               B == OutputsOf(p)
    <3>1. p \in DOMAIN s.pend /\ Inputs[p] = I /\ p \in T
      BY <2>2, ConflictFact DEF Accepted
    <3>2. ReplacedOutpoints(s, t) = B /\ Replaced(s, t) = {p}
      BY <2>2 DEF ReplacedOutpoints, Replaced
    <3>3. I \intersect U = {} /\ B \subseteq P /\ U \intersect P = {}
      BY <1>1, <3>1, CoinsApart
    <3>4. Claimable(b) = (Claimable(s) \ B) \union C
      <4> HIDE DEF U, P, I, C, B
      <4> QED
        BY <1>2, <1>6, <3>2, <3>3
    <3>5. SumOf(B) = SumOf(I) + Overcounted(p) /\ Overcounted(p) \in Nat
      <4>1. p \in Txn /\ Inputs[p] \in SUBSET Coins /\ Overcounted(p) \in Nat
        BY <1>1, <3>1, SoundCounts
      <4>2. HasCoins(p) = SumOf(B)
        BY <3>1 DEF Solvent, Balanced
      <4>3. HasCoins(p) = SumOf(Inputs[p]) + Overcounted(p)
        <5> HIDE DEF p
        <5> QED
          BY <4>1, Counted
      <4> QED
        BY <3>1, <4>1, <4>2, <4>3
    <3>6. SurplusOf(T) = Overcounted(p) + SurplusOf(T \ {p}) /\ SurplusOf(T \ {p}) \in Nat
      <4> HIDE DEF p, T
      <4>1. IsFiniteSet(T \ {p}) /\ \A u \in T \ {p} : Overcounted(u) \in Nat
        BY <1>7, FS_Difference
      <4> QED
        BY <1>7, <3>1, <4>1, SurplusAdd
    <3>7. SumOf(B) + SurplusOf(Accepted(b)) = SumOf(C) + SurplusOf(T)
      <4>1. SurplusOf(Accepted(b)) = Overcounted(t) + SurplusOf(T \ {p})
        BY <1>10, <3>2
      <4> HIDE DEF I, C, T, p, B
      <4> QED
        BY <1>9, <1>11, <3>5, <3>6, <4>1
    <3> QED
      BY <1>6, <3>3, <3>4, <3>7
  <2> QED
    BY <2>1, <2>2
<1>13. PICK B \in SUBSET Claimable(s) :
          /\ Claimable(b) = (Claimable(s) \ B) \union C
          /\ SumOf(B) + SurplusOf(Accepted(b)) = SumOf(C) + SurplusOf(T)
  BY <1>12
<1>14. /\ SumOf(Claimable(b)) + SumOf(B) = SumOf(Claimable(s)) + SumOf(C)
       /\ SumOf(B) \in Nat /\ SumOf(C) \in Nat
  <2> HIDE DEF C
  <2>1. Claimable(s) \in SUBSET Coins /\ IsFiniteSet(Claimable(s))
    BY DEF Solvent
  <2> QED
    BY <1>4, <1>13, <2>1, SumOfTrade
<1>15. /\ Supply(b) = SumOf(Claimable(b)) /\ Supply(b) \in Nat
       /\ Supply(s) = SumOf(Claimable(s)) /\ Supply(s) \in Nat
       /\ Surplus(b) = SurplusOf(Accepted(b)) /\ Surplus(s) = SurplusOf(T)
  BY <1>8, SupplyIsSum, SurplusFact
<1>16. Supply(b) + Surplus(s) <= Supply(s) + Surplus(b)
  <2> HIDE DEF C, T
  <2> QED
    BY <1>9, <1>13, <1>14, <1>15
<1> QED
  BY <1>8, <1>16 DEF Accounts, b

\* Stores with the same databases have the same coins.
LEMMA SameSupply ==
    ASSUME NEW s, Solvent(s), NEW b \in Store, b.db = s.db, b.pend = s.pend
    PROVE  Solvent(b) /\ Supply(b) = Supply(s) /\ Surplus(b) = Surplus(s)
<1>1. Sound(b)
  BY SameDatabases DEF Solvent
<1>2. Claimable(b) = Claimable(s)
  BY SameCoins DEF Claimable
<1>3. Accepted(b) = Accepted(s)
  BY DEF Accepted
<1>4. Solvent(b)
  BY <1>1, <1>2, <1>3 DEF Solvent
<1> QED
  BY <1>2, <1>3, <1>4, SupplyIsSum, SurplusFact

\* What holds of the coins of s and b also holds where b's databases are shared.
LEMMA SameAccounts ==
    ASSUME NEW s, NEW b, Accounts(s, b), NEW c \in Store, c.db = b.db, c.pend = b.pend
    PROVE  Accounts(s, c)
<1>1. Solvent(c) /\ Supply(c) = Supply(b) /\ Surplus(c) = Surplus(b)
  BY SameSupply DEF Accounts
<1> QED
  BY <1>1 DEF Accounts

\* A store accounts for its own coins.
LEMMA OwnAccounts ==
    ASSUME NEW s, Solvent(s) PROVE Accounts(s, s)
<1>1. Supply(s) \in Nat /\ Surplus(s) \in Nat
  BY SupplyIsSum, SurplusFact
<1> QED
  BY <1>1 DEF Accounts

\* One turn of process_block's loop creates only what is counted twice.
LEMMA ProcessSupply ==
    ASSUME NEW s, Solvent(s), NEW t \in Txn \ Genesis
    PROVE  Accounts(s, ProcessTxn(s, t))
<1>1. CASE VerifyTxn(s, t, TRUE)
  <2> DEFINE b == Accept(s, t)
  <2>1. Accounts(s, b)
    BY <1>1, AcceptSupply
  <2>2. ProcessTxn(s, t) = RemoveFromMempool(b, t)
    BY <1>1 DEF ProcessTxn
  <2> HIDE DEF b
  <2>3. /\ RemoveFromMempool(b, t) \in Store
        /\ RemoveFromMempool(b, t).db = b.db
        /\ RemoveFromMempool(b, t).pend = b.pend
    BY <2>1, RemoveStore, RemoveFields DEF Accounts, Solvent, Sound
  <2> QED
    BY <2>1, <2>2, <2>3, SameAccounts
<1>2. CASE ~VerifyTxn(s, t, TRUE)
  <2>1. ProcessTxn(s, t) = Reject(s, t)
    BY <1>2 DEF ProcessTxn
  <2>2. /\ Reject(s, t) \in Store
        /\ Reject(s, t).db = s.db
        /\ Reject(s, t).pend = s.pend
    BY RejectStore, RejectFields DEF Solvent, Sound
  <2>3. Accounts(s, s)
    BY OwnAccounts
  <2> QED
    BY <2>1, <2>2, <2>3, SameAccounts
<1> QED
  BY <1>1, <1>2

\* So does one turn of update_pend's loop: where the transaction no longer
\* verifies its outputs are lost, and with them what it counted twice.
LEMMA MatureSupply ==
    ASSUME NEW s, Solvent(s), NEW p \in DOMAIN s.pend, NEW ts \in Nat
    PROVE  Accounts(s, MatureTxn(s, p, ts))
<1> DEFINE d == DelFromPending(s, p)
           b == MatureTxn(s, p, ts)
           B == OutputsOf(p)
           A == Claimable(s)
           T == Accepted(s)
<1>1. /\ Sound(s) /\ s \in Store /\ p \in Txn /\ Sound(b) /\ b \in Store
      /\ A \in SUBSET Coins /\ IsFiniteSet(A) /\ IsFiniteSet(T)
      /\ p \in T /\ p \notin DOMAIN s.db
  BY StampsElim, MatureSound DEF Solvent, Sound, Store, Accepted
<1>2. d \in Store /\ d.db = s.db /\ DOMAIN d.pend = DOMAIN s.pend \ {p}
  BY <1>1, DelStore, DelFields
<1>3. /\ UnspentOutpoints(d) = UnspentOutpoints(s)
      /\ PendOutpoints(d) = PendOutpoints(s) \ B
      /\ Inputs[p] \intersect UnspentOutpoints(s) = {}
      /\ B \subseteq PendOutpoints(s)
      /\ UnspentOutpoints(s) \intersect PendOutpoints(s) = {}
  BY <1>1, DelCoins, CoinsApart
<1>4. DOMAIN b.pend \subseteq DOMAIN s.pend
  BY <1>1, MatureEffect
<1>5. \/ Claimable(b) = A /\ Accepted(b) = T
      \/ Claimable(b) = A \ B /\ Accepted(b) = T \ {p}
  <2>1. CASE ~LockExpired(s, p, ts)
    BY <2>1 DEF MatureTxn
  <2>2. CASE LockExpired(s, p, ts) /\ VerifyTxn(d, p, FALSE)
    <3>1. b = WriteTxnToDb(d, p, ts) /\ p \in Txn \ DOMAIN d.db
      BY <1>1, <2>2 DEF MatureTxn, VerifyTxn
    <3> HIDE DEF d, b, B
    <3>2. /\ UnspentOutpoints(b) = (UnspentOutpoints(d) \ Inputs[p]) \union B
          /\ PendOutpoints(b) = PendOutpoints(d)
      BY <1>2, <3>1, WriteCoins DEF B
    <3>3. Claimable(b) = A
      BY <1>3, <3>2 DEF Claimable
    <3>4. DOMAIN b.db = DOMAIN d.db \union {p} /\ b.pend = d.pend
      BY <1>2, <3>1, WriteFields
    <3>5. Accepted(b) = T
      BY <1>1, <1>2, <3>4 DEF Accepted
    <3> QED
      BY <3>3, <3>5
  <2>3. CASE LockExpired(s, p, ts) /\ ~VerifyTxn(d, p, FALSE)
    <3>1. b = Reject(d, p)
      BY <2>3 DEF MatureTxn
    <3> HIDE DEF d, b, B
    <3>2. b.db = d.db /\ b.pend = d.pend
      BY <1>2, <3>1, RejectFields
    <3>3. UnspentOutpoints(b) = UnspentOutpoints(d) /\ PendOutpoints(b) = PendOutpoints(d)
      BY <3>2, SameCoins
    <3>4. Claimable(b) = A \ B
      BY <1>3, <3>3 DEF Claimable
    <3>5. Accepted(b) = T \ {p}
      BY <1>1, <1>2, <3>2 DEF Accepted
    <3> QED
      BY <3>4, <3>5
  <2> QED
    BY <2>1, <2>2, <2>3
<1>6. B \in SUBSET A
  BY <1>3 DEF Claimable
<1>7. SumOf(B) = SumOf(Inputs[p]) + Overcounted(p) /\ SumOf(Inputs[p]) \in Nat /\ Overcounted(p) \in Nat
  <2>1. Inputs[p] \in SUBSET Coins /\ Overcounted(p) \in Nat
    BY <1>1, SoundCounts
  <2> QED
    BY <1>1, <2>1, Counted DEF Solvent, Balanced
<1> HIDE DEF b, A, B
<1>8. SumOf(A \ B) \in Nat /\ SumOf(B) \in Nat /\ SumOf(A) = SumOf(A \ B) + SumOf(B)
  BY <1>1, <1>6, SumOfRest
<1>9. /\ SurplusOf(T) = Overcounted(p) + SurplusOf(T \ {p})
      /\ SurplusOf(T) \in Nat /\ SurplusOf(T \ {p}) \in Nat
      /\ IsFiniteSet(T \ {p})
  <2>1. \A u \in T : Overcounted(u) \in Nat
    BY SurplusFact
  <2> HIDE DEF T
  <2>2. IsFiniteSet(T \ {p}) /\ \A u \in T \ {p} : Overcounted(u) \in Nat
    BY <1>1, <2>1, FS_Difference
  <2> QED
    BY <1>1, <2>1, <2>2, SurplusAdd
<1>10. Solvent(b)
  <2>1. Claimable(b) \in SUBSET Coins /\ IsFiniteSet(Claimable(b)) /\ IsFiniteSet(Accepted(b))
    BY <1>1, <1>5, <1>9, FS_Subset
  <2> QED
    BY <1>1, <1>4, <2>1 DEF Solvent
<1>11. SumOf(Claimable(b)) + SurplusOf(T) <= SumOf(A) + SurplusOf(Accepted(b))
  <2> HIDE DEF T
  <2>1. CASE Claimable(b) = A /\ Accepted(b) = T
    BY <1>8, <1>9, <2>1
  <2>2. CASE Claimable(b) = A \ B /\ Accepted(b) = T \ {p}
    <3>1. SurplusOf(Accepted(b)) = SurplusOf(T \ {p}) /\ SumOf(Claimable(b)) = SumOf(A \ B)
      BY <2>2
    <3> QED
      BY <1>7, <1>8, <1>9, <3>1
  <2> QED
    BY <1>5, <2>1, <2>2
<1>12. /\ Supply(b) = SumOf(Claimable(b)) /\ Supply(s) = SumOf(A)
       /\ Surplus(b) = SurplusOf(Accepted(b)) /\ Surplus(s) = SurplusOf(T)
  BY <1>10, SupplyIsSum, SurplusFact DEF A
<1> QED
  BY <1>10, <1>11, <1>12 DEF Accounts, b

-----------------------------------------------------------------------------
(***************************************************************************)
(* Balances: what each coin is worth to each key, summed over coins and    *)
(* keys.                                                                   *)
(***************************************************************************)
\* Twice what a balance is worth: a coin of two owners counts half for each.
Doubled(b) == 2 * b.bal + b.partial + 2 * b.htlc

\* Twice what o, of a transaction with timestamp ts, is worth to k.
ShareOf(s, o, k, ts) ==
    LET out == Outputs[o[1]][o[2]]
    IN  IF TimedOut(s, o, ts)
        THEN IF k \notin {out.pubkey, out.pubkey2} THEN 0
             ELSE IF out.pubkey = out.pubkey2 THEN 2 * AmountOf(o) ELSE AmountOf(o)
        ELSE IF k = out.htlcPubkey THEN 2 * AmountOf(o) ELSE 0

OwnedIn(k, O) == {o \in O : k \in KeysOf(Outputs[o[1]][o[2]])}

\* Either the contract of a coin has ended or it has not, and its owners are keys.
LEMMA CoinFacts ==
    ASSUME NEW s, s.now \in Nat, NEW o \in Coins, NEW ts \in Nat
    PROVE  /\ NotTimedOut(s, o, ts) <=> ~TimedOut(s, o, ts)
           /\ Outputs[o[1]][o[2]] \in Output
           /\ AmountOf(o) \in Nat
<1>1. PICK t \in Txn : \E i \in DOMAIN Outputs[t] : o = <<t, i>>
  BY DEF Coins, OutputsOf
<1>2. PICK i \in DOMAIN Outputs[t] : o = <<t, i>>
  BY <1>1
<1>3. Outputs[t] \in Seq(Output)
  BY TxnAssumption
<1>4. Outputs[o[1]][o[2]] \in Output
  BY <1>2, <1>3
<1>5. Outputs[o[1]][o[2]].htlcTimeout \in Nat
  BY <1>4 DEF Output
<1>6. NotTimedOut(s, o, ts) <=> ~TimedOut(s, o, ts)
  BY <1>5 DEF NotTimedOut, TimedOut
<1> QED
  BY <1>4, <1>6, CoinAmount

\* The three parts of a balance, as sets of coins.
WholeCoins(s, k, O, stamp) ==
    {o \in OwnedIn(k, O) : /\ k \in {Outputs[o[1]][o[2]].pubkey, Outputs[o[1]][o[2]].pubkey2}
                          /\ TimedOut(s, o, stamp[o[1]])
                          /\ Outputs[o[1]][o[2]].pubkey = Outputs[o[1]][o[2]].pubkey2}

SharedCoins(s, k, O, stamp) ==
    {o \in OwnedIn(k, O) : /\ k \in {Outputs[o[1]][o[2]].pubkey, Outputs[o[1]][o[2]].pubkey2}
                          /\ TimedOut(s, o, stamp[o[1]])
                          /\ Outputs[o[1]][o[2]].pubkey # Outputs[o[1]][o[2]].pubkey2}

HtlcCoins(s, k, O, stamp) ==
    {o \in OwnedIn(k, O) : /\ k = Outputs[o[1]][o[2]].htlcPubkey
                          /\ NotTimedOut(s, o, stamp[o[1]])}

\* A balance is made of them.
LEMMA BalanceParts ==
    ASSUME NEW s, NEW k, NEW O, NEW stamp
    PROVE  Doubled(GetBalance(s, k, OwnedIn(k, O), stamp))
              = 2 * SumOf(WholeCoins(s, k, O, stamp)) + SumOf(SharedCoins(s, k, O, stamp))
                  + 2 * SumOf(HtlcCoins(s, k, O, stamp))
<1> DEFINE outs == OwnedIn(k, O)
           signed == {o \in outs : /\ k \in {Outputs[o[1]][o[2]].pubkey, Outputs[o[1]][o[2]].pubkey2}
                                   /\ TimedOut(s, o, stamp[o[1]])}
           whole == {o \in signed : Outputs[o[1]][o[2]].pubkey = Outputs[o[1]][o[2]].pubkey2}
<1>1. GetBalance(s, k, outs, stamp) =
         [bal |-> SumOf(whole), partial |-> SumOf(signed \ whole),
          htlc |-> SumOf(HtlcCoins(s, k, O, stamp))]
  BY DEF GetBalance, HtlcCoins
<1>2. whole = WholeCoins(s, k, O, stamp) /\ signed \ whole = SharedCoins(s, k, O, stamp)
  BY DEF WholeCoins, SharedCoins
<1> HIDE DEF outs, signed, whole
<1>3. GetBalance(s, k, outs, stamp) =
         [bal |-> SumOf(WholeCoins(s, k, O, stamp)), partial |-> SumOf(SharedCoins(s, k, O, stamp)),
          htlc |-> SumOf(HtlcCoins(s, k, O, stamp))]
  BY <1>1, <1>2
<1> QED
  BY <1>3 DEF Doubled, outs

\* One more coin in a set of coins that is chosen from.
LEMMA SumChosen ==
    ASSUME NEW O \in SUBSET Coins, IsFiniteSet(O), NEW o \in Coins \ O,
           NEW A \in SUBSET O, NEW B, B = A \/ B = A \union {o}
    PROVE  /\ SumOf(A) \in Nat /\ AmountOf(o) \in Nat
           /\ SumOf(B) = SumOf(A) + (IF o \in B THEN AmountOf(o) ELSE 0)
<1>1. A \in SUBSET Coins /\ IsFiniteSet(A) /\ o \notin A
  BY FS_Subset
<1>2. SumOf(A) \in Nat /\ AmountOf(o) \in Nat
  BY <1>1, SumOfAdd, CoinAmount
<1>3. CASE B = A \union {o}
  <2>1. B \in SUBSET Coins /\ IsFiniteSet(B) /\ o \in B /\ B \ {o} = A
    BY <1>1, <1>3, FS_AddElement
  <2>2. SumOf(B) = AmountOf(o) + SumOf(B \ {o})
    BY <2>1, SumOfAdd
  <2>3. SumOf(B) = AmountOf(o) + SumOf(A)
    BY <2>1, <2>2
  <2>4. SumOf(B) = SumOf(A) + AmountOf(o)
    BY <1>2, <2>3
  <2> QED
    BY <1>2, <2>1, <2>4
<1>4. CASE B = A
  BY <1>1, <1>2, <1>4
<1> QED
  BY <1>2, <1>3, <1>4

\* A coin more is its share more.
LEMMA BalanceAdd ==
    ASSUME NEW s, s.now \in Nat, NEW stamp, NEW O \in SUBSET Coins, IsFiniteSet(O),
           NEW o \in Coins \ O, stamp[o[1]] \in Nat, NEW k
    PROVE  /\ Doubled(GetBalance(s, k, OwnedIn(k, O), stamp)) \in Nat
           /\ ShareOf(s, o, k, stamp[o[1]]) \in Nat
           /\ Doubled(GetBalance(s, k, OwnedIn(k, O \union {o}), stamp))
                = Doubled(GetBalance(s, k, OwnedIn(k, O), stamp)) + ShareOf(s, o, k, stamp[o[1]])
<1> DEFINE R == O \union {o}
           out == Outputs[o[1]][o[2]]
           a == AmountOf(o)
           ts == stamp[o[1]]
           W == WholeCoins(s, k, O, stamp)
           W2 == WholeCoins(s, k, R, stamp)
           P == SharedCoins(s, k, O, stamp)
           P2 == SharedCoins(s, k, R, stamp)
           H == HtlcCoins(s, k, O, stamp)
           H2 == HtlcCoins(s, k, R, stamp)
<1>1. (NotTimedOut(s, o, ts) <=> ~TimedOut(s, o, ts)) /\ a \in Nat
  BY CoinFacts
<1>2. /\ W \in SUBSET O /\ (W2 = W \/ W2 = W \union {o})
      /\ P \in SUBSET O /\ (P2 = P \/ P2 = P \union {o})
      /\ H \in SUBSET O /\ (H2 = H \/ H2 = H \union {o})
  BY DEF WholeCoins, SharedCoins, HtlcCoins, OwnedIn
<1>3. /\ o \in W2 <=> k \in {out.pubkey, out.pubkey2} /\ TimedOut(s, o, ts)
                        /\ out.pubkey = out.pubkey2
      /\ o \in P2 <=> k \in {out.pubkey, out.pubkey2} /\ TimedOut(s, o, ts)
                        /\ out.pubkey # out.pubkey2
      /\ o \in H2 <=> k = out.htlcPubkey /\ NotTimedOut(s, o, ts)
  BY DEF WholeCoins, SharedCoins, HtlcCoins, OwnedIn, KeysOf
<1>4. /\ Doubled(GetBalance(s, k, OwnedIn(k, O), stamp)) = 2 * SumOf(W) + SumOf(P) + 2 * SumOf(H)
      /\ Doubled(GetBalance(s, k, OwnedIn(k, R), stamp)) = 2 * SumOf(W2) + SumOf(P2) + 2 * SumOf(H2)
  BY BalanceParts
<1>5. ShareOf(s, o, k, ts) =
         IF TimedOut(s, o, ts)
         THEN IF k \notin {out.pubkey, out.pubkey2} THEN 0
              ELSE IF out.pubkey = out.pubkey2 THEN 2 * a ELSE a
         ELSE IF k = out.htlcPubkey THEN 2 * a ELSE 0
  BY DEF ShareOf
<1> HIDE DEF W, W2, P, P2, H, H2, a
<1>6. /\ SumOf(W) \in Nat /\ SumOf(W2) = SumOf(W) + (IF o \in W2 THEN a ELSE 0)
      /\ SumOf(P) \in Nat /\ SumOf(P2) = SumOf(P) + (IF o \in P2 THEN a ELSE 0)
      /\ SumOf(H) \in Nat /\ SumOf(H2) = SumOf(H) + (IF o \in H2 THEN a ELSE 0)
  BY <1>2, SumChosen DEF a
<1> DEFINE w == SumOf(W)
           p == SumOf(P)
           h == SumOf(H)
<1> HIDE DEF w, p, h, out, ts
<1>7. CASE TimedOut(s, o, ts)
  <2>1. CASE k \notin {out.pubkey, out.pubkey2}
    BY <1>1, <1>3, <1>4, <1>5, <1>6, <1>7, <2>1 DEF R, ts
  <2>2. CASE k \in {out.pubkey, out.pubkey2} /\ out.pubkey = out.pubkey2
    BY <1>1, <1>3, <1>4, <1>5, <1>6, <1>7, <2>2 DEF R, ts
  <2>3. CASE k \in {out.pubkey, out.pubkey2} /\ out.pubkey # out.pubkey2
    BY <1>1, <1>3, <1>4, <1>5, <1>6, <1>7, <2>3 DEF R, ts
  <2> QED
    BY <2>1, <2>2, <2>3
<1>8. CASE ~TimedOut(s, o, ts)
  BY <1>1, <1>3, <1>4, <1>5, <1>6, <1>8 DEF R, ts
<1> QED
  BY <1>7, <1>8

\* The shares of a coin add up to the coin.
LEMMA SharesAddUp ==
    ASSUME IsFiniteSet(PubKey), NEW s, s.now \in Nat, NEW o \in Coins, NEW ts \in Nat, NEW g,
           IsSum(g, PubKey, [k \in PubKey |-> ShareOf(s, o, k, ts)])
    PROVE  g[PubKey] = 2 * AmountOf(o)
<1> DEFINE w == [k \in PubKey |-> ShareOf(s, o, k, ts)]
           out == Outputs[o[1]][o[2]]
           a == AmountOf(o)
<1>1. a \in Nat /\ out \in Output
  BY CoinFacts
<1>2. out.pubkey \in PubKey /\ out.pubkey2 \in PubKey /\ out.htlcPubkey \in PubKey
  BY <1>1 DEF Output
<1>3. \A k \in PubKey : w[k] = IF TimedOut(s, o, ts)
                               THEN IF k \notin {out.pubkey, out.pubkey2} THEN 0
                                    ELSE IF out.pubkey = out.pubkey2 THEN 2 * a ELSE a
                               ELSE IF k = out.htlcPubkey THEN 2 * a ELSE 0
  BY DEF ShareOf
<1> HIDE DEF out, a
<1>4. 0 \in Nat /\ 2 * a \in Nat
  BY <1>1
<1>5. w \in [PubKey -> Nat]
  BY <1>1, <1>3, <1>4
<1>6. IsSum(g, PubKey, w)
  OBVIOUS
<1> HIDE DEF w
<1>7. CASE ~TimedOut(s, o, ts)
  <2>1. w[out.htlcPubkey] = 2 * a /\ \A k \in PubKey \ {out.htlcPubkey} : w[k] = 0
    BY <1>2, <1>3, <1>7
  <2>2. g[PubKey] = w[out.htlcPubkey]
    BY <1>2, <1>5, <1>6, <2>1, SumOfOne
  <2> QED
    BY <2>1, <2>2 DEF a
<1>8. CASE TimedOut(s, o, ts) /\ out.pubkey = out.pubkey2
  <2>1. w[out.pubkey] = 2 * a /\ \A k \in PubKey \ {out.pubkey} : w[k] = 0
    BY <1>2, <1>3, <1>8
  <2>2. g[PubKey] = w[out.pubkey]
    BY <1>2, <1>5, <1>6, <2>1, SumOfOne
  <2> QED
    BY <2>1, <2>2 DEF a
<1>9. CASE TimedOut(s, o, ts) /\ out.pubkey # out.pubkey2
  <2>1. /\ w[out.pubkey] = a /\ w[out.pubkey2] = a
        /\ \A k \in PubKey \ {out.pubkey, out.pubkey2} : w[k] = 0
    BY <1>2, <1>3, <1>9
  <2>2. g[PubKey] = w[out.pubkey] + w[out.pubkey2]
    BY <1>2, <1>5, <1>6, <1>9, <2>1, SumOfTwo
  <2>3. a + a = 2 * a
    BY <1>1
  <2> QED
    BY <2>1, <2>2, <2>3 DEF a
<1> QED
  BY <1>7, <1>8, <1>9

\* What the coins O are worth to k, twice.
DoubledWorth(s, O, stamp) == [k \in PubKey |-> Doubled(GetBalance(s, k, OwnedIn(k, O), stamp))]

\* No coins are worth nothing.
LEMMA NoWorth ==
    ASSUME NEW s, NEW stamp PROVE \A k \in PubKey : DoubledWorth(s, {}, stamp)[k] = 0
<1> SUFFICES ASSUME NEW k \in PubKey PROVE Doubled(GetBalance(s, k, OwnedIn(k, {}), stamp)) = 0
  BY DEF DoubledWorth
<1>1. /\ WholeCoins(s, k, {}, stamp) = {} /\ SharedCoins(s, k, {}, stamp) = {}
      /\ HtlcCoins(s, k, {}, stamp) = {}
  BY DEF WholeCoins, SharedCoins, HtlcCoins, OwnedIn
<1>2. SumOf({}) = 0
  BY SumOfAdd, FS_EmptySet
<1> QED
  BY <1>1, <1>2, BalanceParts

\* What the coins O are worth to all keys is what they are worth.
LEMMA WorthAddsUp ==
    ASSUME IsFiniteSet(PubKey), NEW s, s.now \in Nat, NEW stamp,
           NEW O \in SUBSET Coins, IsFiniteSet(O), \A o \in O : stamp[o[1]] \in Nat
    PROVE  /\ DoubledWorth(s, O, stamp) \in [PubKey -> Nat]
           /\ \A g : IsSum(g, PubKey, DoubledWorth(s, O, stamp)) => g[PubKey] = 2 * SumOf(O)
<1> DEFINE W(U) == DoubledWorth(s, U, stamp)
           G == {U \in SUBSET O : /\ W(U) \in [PubKey -> Nat]
                                  /\ \A g : IsSum(g, PubKey, W(U)) => g[PubKey] = 2 * SumOf(U)}
<1>1. ASSUME NEW U \in SUBSET O, \A V \in SUBSET U : V # U => V \in G
      PROVE  U \in G
  <2>1. CASE U = {}
    <3>1. W(U) \in [PubKey -> Nat] /\ \A k \in PubKey : W(U)[k] = 0
      <4>1. \A k \in PubKey : W(U)[k] = 0
        BY <2>1, NoWorth
      <4>2. \A k \in PubKey : W(U)[k] \in Nat
        BY <4>1
      <4> QED
        BY <4>1, <4>2 DEF DoubledWorth
    <3>2. SumOf(U) = 0
      BY <2>1, SumOfAdd, FS_EmptySet
    <3>3. ASSUME NEW g, IsSum(g, PubKey, W(U)) PROVE g[PubKey] = 0
      <4> HIDE DEF W
      <4> QED
        BY <3>1, <3>3, SumZero
    <3> QED
      BY <3>1, <3>2, <3>3
  <2>2. CASE U # {}
    <3>1. PICK o \in U : TRUE
      BY <2>2
    <3> DEFINE R == U \ {o}
               ts == stamp[o[1]]
               sh == [k \in PubKey |-> ShareOf(s, o, k, ts)]
    <3>2. /\ R \in SUBSET Coins /\ IsFiniteSet(R) /\ o \in Coins \ R /\ ts \in Nat
          /\ U = R \union {o} /\ U \in SUBSET Coins /\ IsFiniteSet(U) /\ R \in G
      <4>1. R \in SUBSET U /\ R # U /\ U \in SUBSET Coins
        BY <3>1
      <4>2. R \in G
        BY <1>1, <4>1
      <4> QED
        BY <3>1, <4>1, <4>2, FS_Subset
    <3>3. \A k \in PubKey : /\ W(R)[k] \in Nat /\ sh[k] \in Nat
                            /\ W(U)[k] = W(R)[k] + sh[k]
      <4> SUFFICES ASSUME NEW k \in PubKey
                   PROVE  /\ W(R)[k] \in Nat /\ sh[k] \in Nat
                          /\ W(U)[k] = W(R)[k] + sh[k]
        OBVIOUS
      <4> HIDE DEF R
      <4>1. /\ Doubled(GetBalance(s, k, OwnedIn(k, R), stamp)) \in Nat
            /\ ShareOf(s, o, k, stamp[o[1]]) \in Nat
            /\ Doubled(GetBalance(s, k, OwnedIn(k, R \union {o}), stamp))
                 = Doubled(GetBalance(s, k, OwnedIn(k, R), stamp)) + ShareOf(s, o, k, stamp[o[1]])
        BY <3>2, BalanceAdd
      <4> QED
        BY <3>2, <4>1 DEF DoubledWorth
    <3>4. sh \in [PubKey -> Nat] /\ W(R) \in [PubKey -> Nat] /\ W(U) \in [PubKey -> Nat]
      <4>1. \A k \in PubKey : W(U)[k] \in Nat
        <5> HIDE DEF W, R, sh
        <5> QED
          BY <3>3
      <4> QED
        BY <3>3, <4>1 DEF DoubledWorth
    <3>5. SumOf(U) = AmountOf(o) + SumOf(R) /\ SumOf(R) \in Nat /\ AmountOf(o) \in Nat
      BY <3>1, <3>2, SumOfAdd, CoinAmount
    <3>6. ASSUME NEW g, IsSum(g, PubKey, W(U)) PROVE g[PubKey] = 2 * SumOf(U)
      <4>1. PICK h : IsSum(h, PubKey, sh)
        <5> HIDE DEF sh
        <5> QED
          BY <3>4, SumExists
      <4>2. PICK f : IsSum(f, PubKey, W(R))
        <5> HIDE DEF W, R
        <5> QED
          BY <3>4, SumExists
      <4>3. h[PubKey] = 2 * AmountOf(o)
        <5> HIDE DEF R, W
        <5> QED
          BY <3>2, <4>1, SharesAddUp
      <4>4. f[PubKey] = 2 * SumOf(R)
        BY <3>2, <4>2
      <4>5. g[PubKey] = f[PubKey] + h[PubKey]
        <5> HIDE DEF W, R, sh
        <5> QED
          BY <3>3, <3>4, <3>6, <4>1, <4>2, SumPlus
      <4> DEFINE a == AmountOf(o)
                 r == SumOf(R)
                 u == SumOf(U)
      <4>6. g[PubKey] = 2 * r + 2 * a /\ u = a + r /\ r \in Nat /\ a \in Nat
        BY <3>5, <4>3, <4>4, <4>5
      <4> HIDE DEF a, r, u
      <4>7. g[PubKey] = 2 * u
        BY <4>6
      <4> QED
        BY <4>7 DEF u
    <3> HIDE DEF W
    <3> QED
      BY <3>4, <3>6
  <2> QED
    BY <2>1, <2>2
<1>2. G \in SUBSET SUBSET O
  OBVIOUS
<1>3. G = SUBSET O
  <2> HIDE DEF G
  <2> QED
    BY <1>1, <1>2, SubsetInduction
<1>4. O \in G
  BY <1>3
<1> QED
  BY <1>4

\* The sum over all keys, as BalancesAddUp takes it.
TotalWorth(s) ==
    MapThenSumSet(LAMBDA k : Doubled(Balance(s, k)) + Doubled(BalancePend(s, k)), PubKey)

LEMMA TotalIsSum ==
    ASSUME IsFiniteSet(PubKey), NEW s,
           NEW w \in [PubKey -> Nat],
           \A k \in PubKey : w[k] = Doubled(Balance(s, k)) + Doubled(BalancePend(s, k))
    PROVE  \E g : IsSum(g, PubKey, w) /\ g[PubKey] = TotalWorth(s)
<1> DEFINE E(k) == Doubled(Balance(s, k)) + Doubled(BalancePend(s, k))
           Body(f) == [U \in SUBSET PubKey |->
                        IF U = {} THEN 0
                        ELSE E(CHOOSE x \in U : TRUE) + f[U \ {CHOOSE x \in U : TRUE}]]
           iter == CHOOSE f : f = Body(f)
<1>1. TotalWorth(s) = iter[PubKey]
  BY DEF TotalWorth, MapThenSumSet, MapThenFoldSet
<1>2. \A k \in PubKey : w[k] = E(k)
  OBVIOUS
<1> HIDE DEF E
<1>3. \A U \in SUBSET PubKey : U # {} => First(U) \in U
  BY DEF First
<1>4. PICK g : IsSum(g, PubKey, w)
  BY SumExists
<1>5. g = Body(g)
  <2>1. g \in [SUBSET PubKey -> Nat]
    BY <1>4 DEF IsSum
  <2>2. ASSUME NEW U \in SUBSET PubKey
        PROVE  g[U] = IF U = {} THEN 0 ELSE E(First(U)) + g[U \ {First(U)}]
    <3>1. g[U] = IF U = {} THEN 0 ELSE w[First(U)] + g[U \ {First(U)}]
      BY <1>4 DEF IsSum
    <3> QED
      BY <1>2, <1>3, <3>1
  <2> QED
    BY <2>1, <2>2 DEF First
<1>6. iter = Body(iter)
  <2> HIDE DEF Body
  <2> QED
    BY <1>5
<1> HIDE DEF iter
<1>7. Adds(iter, PubKey, w)
  <2>1. \A U \in SUBSET PubKey :
           iter[U] = IF U = {} THEN 0 ELSE E(First(U)) + iter[U \ {First(U)}]
    BY <1>6 DEF First
  <2> HIDE DEF Body
  <2> QED
    BY <1>2, <1>3, <2>1 DEF Adds
<1>8. iter[PubKey] = g[PubKey]
  <2> HIDE DEF Body
  <2> QED
    BY <1>4, <1>7, SumFixpoint
<1> QED
  BY <1>1, <1>4, <1>8

\* Finitely many transactions have finitely many outputs.
LEMMA FiniteOutputs ==
    ASSUME NEW T \in SUBSET Txn, IsFiniteSet(T)
    PROVE  UNION {OutputsOf(t) : t \in T} \in SUBSET Coins
           /\ IsFiniteSet(UNION {OutputsOf(t) : t \in T})
<1> DEFINE f == [t \in T |-> OutputsOf(t)]
           M == {OutputsOf(t) : t \in T}
<1>1. f \in Surjection(T, M)
  BY DEF Surjection
<1>2. \A C \in M : IsFiniteSet(C) /\ C \subseteq Coins
  BY OutputCoins
<1> HIDE DEF f, M
<1>3. IsFiniteSet(M)
  BY <1>1, FS_Surjection
<1>4. IsFiniteSet(UNION M) /\ UNION M \in SUBSET Coins
  BY <1>2, <1>3, FS_UNION
<1> QED
  BY <1>4 DEF M

\* With exact indexes the balances of all keys add up to the supply.
LEMMA BalancesOfStore ==
    ASSUME IsFiniteSet(PubKey), NEW s \in Store, Indexed(s), NoneSpentListed(s),
           IsFiniteSet(Accepted(s))
    PROVE  TotalWorth(s) = 2 * Supply(s)
<1> DEFINE U == UnspentOutpoints(s)
           P == PendOutpoints(s)
           D == UNION {OutputsOf(t) : t \in DOMAIN s.db}
           stamp == [t \in DOMAIN s.db |-> s.db[t].ts]
<1>1. /\ DOMAIN s.db \in SUBSET Txn /\ DOMAIN s.pend \in SUBSET Txn /\ s.now \in Nat
      /\ \A t \in DOMAIN s.db : s.db[t].ts \in Nat
      /\ \A p \in DOMAIN s.pend : s.pend[p] \in Nat
  <2>1. s.db \in Wrappers /\ s.pend \in Stamps /\ s.now \in Nat
    BY DEF Store
  <2>2. /\ DOMAIN s.db \in SUBSET Txn /\ \A t \in DOMAIN s.db : s.db[t] \in Wrapper
        /\ DOMAIN s.pend \in SUBSET Txn /\ \A p \in DOMAIN s.pend : s.pend[p] \in Nat
    BY <2>1, WrappersElim, StampsElim
  <2> QED
    BY <2>1, <2>2 DEF Wrapper
<1>2. IsFiniteSet(DOMAIN s.db) /\ IsFiniteSet(DOMAIN s.pend)
  BY FS_Subset DEF Accepted
<1>3. P \in SUBSET Coins /\ IsFiniteSet(P) /\ \A o \in P : o[1] \in DOMAIN s.pend
  <2>1. P \in SUBSET Coins /\ IsFiniteSet(P)
    BY <1>1, <1>2, FiniteOutputs DEF PendOutpoints
  <2>2. \A o \in P : o[1] \in DOMAIN s.pend
    BY DEF PendOutpoints, OutputsOf
  <2> QED
    BY <2>1, <2>2
<1>4. U \in SUBSET Coins /\ IsFiniteSet(U) /\ \A o \in U : o[1] \in DOMAIN s.db
  <2>1. D \in SUBSET Coins /\ IsFiniteSet(D)
    BY <1>1, <1>2, FiniteOutputs
  <2>2. U \subseteq D /\ \A o \in U : o[1] \in DOMAIN s.db
    BY DEF Indexed, UnspentOutpoints, OutputsOf
  <2> HIDE DEF U, D
  <2> QED
    BY <2>1, <2>2, FS_Subset
<1>5. \A k \in PubKey : /\ Balance(s, k) = GetBalance(s, k, OwnedIn(k, U), stamp)
                        /\ BalancePend(s, k) = GetBalance(s, k, OwnedIn(k, P), s.pend)
  <2> SUFFICES ASSUME NEW k \in PubKey
               PROVE  /\ s.pubOuts[k] = OwnedIn(k, U) /\ s.pubOutsPend[k] = OwnedIn(k, P)
    BY DEF Balance, BalancePend
  <2>1. s.pubOuts[k] = UnspentOf(s, k) /\ s.pubOutsPend[k] = OwnedBy(k, DOMAIN s.pend)
    BY DEF Indexed, NoneSpentListed
  <2> QED
    BY <2>1 DEF UnspentOf, OwnedBy, OwnedIn, PendOutpoints
<1> DEFINE v == DoubledWorth(s, U, stamp)
           w == DoubledWorth(s, P, s.pend)
           both == [k \in PubKey |-> v[k] + w[k]]
<1>6. /\ v \in [PubKey -> Nat]
      /\ \A g : IsSum(g, PubKey, v) => g[PubKey] = 2 * SumOf(U)
  <2>1. \A o \in U : stamp[o[1]] \in Nat
    BY <1>1, <1>4
  <2> HIDE DEF U, stamp
  <2> QED
    BY <1>1, <1>4, <2>1, WorthAddsUp
<1>7. /\ w \in [PubKey -> Nat]
      /\ \A g : IsSum(g, PubKey, w) => g[PubKey] = 2 * SumOf(P)
  <2>1. \A o \in P : s.pend[o[1]] \in Nat
    BY <1>1, <1>3
  <2> HIDE DEF P
  <2> QED
    BY <1>1, <1>3, <2>1, WorthAddsUp
<1>8. \A k \in PubKey : both[k] = Doubled(Balance(s, k)) + Doubled(BalancePend(s, k))
  <2> HIDE DEF U, P, stamp
  <2> QED
    BY <1>5 DEF DoubledWorth
<1>9. SumOf(U) \in Nat /\ SumOf(P) \in Nat /\ Supply(s) = SumOf(U) + SumOf(P)
  <2>1. Supply(s) = SumOf(U) + SumOf(P)
    BY DEF Supply, PendOutpoints
  <2> HIDE DEF U, P
  <2> QED
    BY <1>3, <1>4, <2>1, SumOfAdd
<1> HIDE DEF v, w
<1>10. both \in [PubKey -> Nat] /\ \A k \in PubKey : both[k] = v[k] + w[k]
  BY <1>6, <1>7
<1> HIDE DEF both, U, P
<1>11. PICK g : IsSum(g, PubKey, v)
  BY <1>6, SumExists
<1>12. PICK h : IsSum(h, PubKey, w)
  BY <1>7, SumExists
<1>13. PICK f : IsSum(f, PubKey, both) /\ f[PubKey] = TotalWorth(s)
  BY <1>8, <1>10, TotalIsSum
<1>14. f[PubKey] = g[PubKey] + h[PubKey]
  BY <1>6, <1>7, <1>10, <1>11, <1>12, <1>13, SumPlus
<1>15. g[PubKey] = 2 * SumOf(U) /\ h[PubKey] = 2 * SumOf(P)
  BY <1>6, <1>7, <1>11, <1>12
<1>16. f[PubKey] = 2 * Supply(s)
  BY <1>9, <1>14, <1>15
<1> QED
  BY <1>13, <1>16

\* A turn accepts one transaction at most.
LEMMA ProcessAccepts ==
    ASSUME NEW s \in Store, NEW t \in Txn
    PROVE  Accepted(ProcessTxn(s, t)) \subseteq Accepted(s) \union {t}
<1>1. CASE VerifyTxn(s, t, TRUE)
  <2> DEFINE b == Accept(s, t)
  <2>1. t \in Txn \ DOMAIN s.db
    BY <1>1 DEF VerifyTxn
  <2>2. /\ DOMAIN b.db \subseteq DOMAIN s.db \union {t}
        /\ DOMAIN b.pend \subseteq DOMAIN s.pend \union {t}
    BY <2>1, AcceptFields
  <2>3. ProcessTxn(s, t) = RemoveFromMempool(b, t)
    BY <1>1 DEF ProcessTxn
  <2>4. b \in Store
    BY <2>1, AcceptFields
  <2> HIDE DEF b
  <2>5. RemoveFromMempool(b, t).db = b.db /\ RemoveFromMempool(b, t).pend = b.pend
    BY <2>4, RemoveFields
  <2> QED
    BY <2>2, <2>3, <2>5 DEF Accepted
<1>2. CASE ~VerifyTxn(s, t, TRUE)
  BY <1>2, RejectFields DEF ProcessTxn, Accepted
<1> QED
  BY <1>1, <1>2

\* The one that matures at most.
LEMMA MatureAccepts ==
    ASSUME NEW s \in Store, NEW p \in Txn, NEW ts \in Nat
    PROVE  Accepted(MatureTxn(s, p, ts)) \subseteq Accepted(s) \union {p}
<1> DEFINE d == DelFromPending(s, p)
<1>1. d \in Store /\ d.db = s.db /\ DOMAIN d.pend \subseteq DOMAIN s.pend
  <2>1. d \in Store
    BY DelStore
  <2>2. d.db = s.db /\ DOMAIN d.pend = DOMAIN s.pend \ {p}
    BY DelFields
  <2> QED
    BY <2>1, <2>2
<1>2. CASE ~LockExpired(s, p, ts)
  BY <1>2 DEF MatureTxn
<1>3. CASE LockExpired(s, p, ts) /\ VerifyTxn(d, p, FALSE)
  <2>1. MatureTxn(s, p, ts) = WriteTxnToDb(d, p, ts) /\ p \in Txn \ DOMAIN d.db
    BY <1>3 DEF MatureTxn, VerifyTxn
  <2> HIDE DEF d
  <2>2. /\ WriteTxnToDb(d, p, ts).pend = d.pend
        /\ DOMAIN WriteTxnToDb(d, p, ts).db = DOMAIN d.db \union {p}
    BY <1>1, <2>1, WriteFields
  <2> QED
    BY <1>1, <2>1, <2>2 DEF Accepted
<1>4. CASE LockExpired(s, p, ts) /\ ~VerifyTxn(d, p, FALSE)
  <2>1. MatureTxn(s, p, ts) = Reject(d, p)
    BY <1>4 DEF MatureTxn
  <2> HIDE DEF d
  <2>2. Reject(d, p).db = d.db /\ Reject(d, p).pend = d.pend
    BY <1>1, RejectFields
  <2> QED
    BY <1>1, <2>1, <2>2 DEF Accepted
<1> QED
  BY <1>2, <1>3, <1>4
=============================================================================
