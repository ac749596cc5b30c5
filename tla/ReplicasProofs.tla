--------------------------- MODULE ReplicasProofs ---------------------------
(***************************************************************************)
(* Proofs about module Replicas, for every set of nodes and transactions   *)
(* and every bound: nodes that keep up go through the states of one        *)
(* sequential execution of the log, which is what module SharedLedger      *)
(* promises, and can answer for the transactions that they processed.      *)
(***************************************************************************)
EXTENDS Replicas, TxnStoreProofs

(***************************************************************************)
(* What an execution depends on: the time and the two databases.  The      *)
(* mempool, the invalid transactions and the indexes decide nothing.       *)
(***************************************************************************)
Alike(a, b) == a.now = b.now /\ a.db = b.db /\ a.pend = b.pend

\* verify_txn looks at nothing else.
LEMMA VerifyAlike ==
    ASSUME NEW a, NEW b, Alike(a, b), NEW t
    PROVE  /\ Conflicts(a, t) = Conflicts(b, t)
           /\ Conflict(a, t) = Conflict(b, t)
           /\ VerifyTxn(a, t, TRUE) <=> VerifyTxn(b, t, TRUE)
           /\ VerifyTxn(a, t, FALSE) <=> VerifyTxn(b, t, FALSE)
<1>1. Conflicts(a, t) = Conflicts(b, t)
  BY DEF Alike, Conflicts
<1>2. Conflict(a, t) = Conflict(b, t)
  BY <1>1 DEF Conflict
<1>3. InputsExist(a, t) <=> InputsExist(b, t)
  BY DEF Alike, InputsExist
<1>4. Authorised(a, t) <=> Authorised(b, t)
  BY DEF Alike, Authorised, HtlcTimedOut
<1>5. PendAllows(a, t) <=> PendAllows(b, t)
  <2>1. Unspent(a, t) <=> Unspent(b, t)
    BY DEF Alike, Unspent
  <2>2. \A p : MayReplace(a, t, p) <=> MayReplace(b, t, p)
    BY DEF Alike, MayReplace, LockExpired
  <2> QED
    BY <1>1, <1>2, <2>1, <2>2 DEF PendAllows
<1> QED
  BY <1>1, <1>2, <1>3, <1>4, <1>5 DEF VerifyTxn, Alike

\* Every primitive change does the same to stores that are alike.
LEMMA ChangesAlike ==
    ASSUME NEW a \in Store, NEW b \in Store, Alike(a, b), NEW t
    PROVE  /\ Alike(Reject(a, t), Reject(b, t))
           /\ Alike(RemoveFromMempool(a, t), RemoveFromMempool(b, t))
           /\ Alike(DelFromPending(a, t), DelFromPending(b, t))
           /\ \A O : Alike(Spend(a, O), Spend(b, O))
           /\ \A ts : Alike(PutInDb(a, t, ts), PutInDb(b, t, ts))
           /\ \A ts : Alike(PutInPend(a, t, ts), PutInPend(b, t, ts))
<1>1. Alike(Reject(a, t), Reject(b, t)) /\ Alike(RemoveFromMempool(a, t), RemoveFromMempool(b, t))
  BY DEF Alike, Store, Reject, RemoveFromMempool
<1>2. Alike(DelFromPending(a, t), DelFromPending(b, t))
  BY DEF Alike, Store, DelFromPending
<1>3. \A O : Alike(Spend(a, O), Spend(b, O))
  BY DEF Alike, Store, Spend
<1>4. \A ts : Alike(PutInDb(a, t, ts), PutInDb(b, t, ts))
  BY DEF Alike, Store, PutInDb
<1>5. \A ts : Alike(PutInPend(a, t, ts), PutInPend(b, t, ts))
  BY DEF Alike, Store, PutInPend
<1> QED
  BY <1>1, <1>2, <1>3, <1>4, <1>5

\* So do the two ways of writing a transaction.
LEMMA WritesAlike ==
    ASSUME NEW a \in Store, NEW b \in Store, Alike(a, b), NEW t \in Txn, NEW ts \in Nat
    PROVE  /\ Alike(WriteTxnToDb(a, t, ts), WriteTxnToDb(b, t, ts))
           /\ Alike(WriteTxnToPend(a, t, ts), WriteTxnToPend(b, t, ts))
<1> DEFINE I == Inputs[t]
<1>1. Alike(WriteTxnToDb(a, t, ts), WriteTxnToDb(b, t, ts))
  <2> DEFINE x == Spend(a, I)
             y == Spend(b, I)
  <2>1. x \in Store /\ y \in Store /\ Alike(x, y)
    BY SpendStore, ChangesAlike
  <2>2. WriteTxnToDb(a, t, ts) = PutInDb(x, t, ts) /\ WriteTxnToDb(b, t, ts) = PutInDb(y, t, ts)
    BY DEF WriteTxnToDb
  <2> HIDE DEF x, y
  <2> QED
    BY <2>1, <2>2, ChangesAlike
<1>2. Alike(WriteTxnToPend(a, t, ts), WriteTxnToPend(b, t, ts))
  <2> DEFINE x == PutInPend(a, t, ts)
             y == PutInPend(b, t, ts)
  <2>1. x \in Store /\ y \in Store /\ Alike(x, y)
    BY PutPendStore, ChangesAlike
  <2>2. WriteTxnToPend(a, t, ts) = Spend(x, I) /\ WriteTxnToPend(b, t, ts) = Spend(y, I)
    BY DEF WriteTxnToPend
  <2> HIDE DEF x, y, I
  <2> QED
    BY <2>1, <2>2, ChangesAlike
<1> QED
  BY <1>1, <1>2

\* So does one turn of process_block's loop.
LEMMA ProcessAlike ==
    ASSUME NEW a \in Store, NEW b \in Store, Alike(a, b), NEW t \in Txn
    PROVE  Alike(ProcessTxn(a, t), ProcessTxn(b, t))
<1> DEFINE x == DropReplaced(a, t)
           y == DropReplaced(b, t)
<1>1. x \in Store /\ y \in Store /\ x.now = a.now /\ a.now \in Nat /\ a.now = b.now
  BY DropReplacedFields DEF Store, Alike
<1>2. Alike(x, y)
  BY VerifyAlike, ChangesAlike DEF DropReplaced
<1> HIDE DEF x, y
<1>3. CASE VerifyTxn(a, t, TRUE)
  <2>1. VerifyTxn(b, t, TRUE)
    BY <1>3, VerifyAlike
  <2>2. t \in Txn \ DOMAIN a.db /\ t \in Txn \ DOMAIN b.db
    BY <1>3, <2>1 DEF VerifyTxn
  <2> DEFINE u == Accept(a, t)
             v == Accept(b, t)
  <2>3. u \in Store /\ v \in Store
    BY <2>2, AcceptFields
  <2>4. /\ u = IF Timelock[t] > 0 THEN WriteTxnToPend(x, t, a.now) ELSE WriteTxnToDb(x, t, a.now)
        /\ v = IF Timelock[t] > 0 THEN WriteTxnToPend(y, t, b.now) ELSE WriteTxnToDb(y, t, b.now)
    BY DEF Accept, x, y
  <2> HIDE DEF u, v
  <2>5. Alike(u, v)
    <3>1. /\ Alike(WriteTxnToPend(x, t, a.now), WriteTxnToPend(y, t, b.now))
          /\ Alike(WriteTxnToDb(x, t, a.now), WriteTxnToDb(y, t, b.now))
      BY <1>1, <1>2, WritesAlike
    <3> QED
      BY <2>4, <3>1
  <2>6. ProcessTxn(a, t) = RemoveFromMempool(u, t) /\ ProcessTxn(b, t) = RemoveFromMempool(v, t)
    BY <1>3, <2>1 DEF ProcessTxn, u, v
  <2> QED
    BY <2>3, <2>5, <2>6, ChangesAlike
<1>4. CASE ~VerifyTxn(a, t, TRUE)
  <2>1. ProcessTxn(a, t) = Reject(a, t) /\ ProcessTxn(b, t) = Reject(b, t)
    BY <1>4, VerifyAlike DEF ProcessTxn
  <2> QED
    BY <2>1, ChangesAlike
<1> QED
  BY <1>3, <1>4

\* And one of update_pend's.
LEMMA MatureAlike ==
    ASSUME NEW a \in Store, NEW b \in Store, Alike(a, b), NEW p \in Txn, NEW ts \in Nat
    PROVE  Alike(MatureTxn(a, p, ts), MatureTxn(b, p, ts))
<1> DEFINE x == DelFromPending(a, p)
           y == DelFromPending(b, p)
<1>1. x \in Store /\ y \in Store /\ Alike(x, y)
  BY DelStore, ChangesAlike
<1>2. LockExpired(a, p, ts) <=> LockExpired(b, p, ts)
  BY DEF LockExpired, Alike
<1>3. /\ MatureTxn(a, p, ts) = IF ~LockExpired(a, p, ts) THEN a
                               ELSE IF VerifyTxn(x, p, FALSE) THEN WriteTxnToDb(x, p, ts)
                               ELSE Reject(x, p)
      /\ MatureTxn(b, p, ts) = IF ~LockExpired(b, p, ts) THEN b
                               ELSE IF VerifyTxn(y, p, FALSE) THEN WriteTxnToDb(y, p, ts)
                               ELSE Reject(y, p)
  BY DEF MatureTxn
<1> HIDE DEF x, y
<1>4. /\ VerifyTxn(x, p, FALSE) <=> VerifyTxn(y, p, FALSE)
      /\ Alike(WriteTxnToDb(x, p, ts), WriteTxnToDb(y, p, ts))
      /\ Alike(Reject(x, p), Reject(y, p))
  BY <1>1, VerifyAlike, WritesAlike, ChangesAlike
<1> QED
  BY <1>2, <1>3, <1>4

\* process_block's loop does not move time.
LEMMA ProcessNow ==
    ASSUME NEW s \in Store, NEW t \in Txn PROVE ProcessTxn(s, t).now = s.now
<1>1. CASE VerifyTxn(s, t, TRUE)
  <2> DEFINE b == Accept(s, t)
  <2>1. t \in Txn \ DOMAIN s.db
    BY <1>1 DEF VerifyTxn
  <2>2. b \in Store /\ b.now = s.now
    BY <2>1, AcceptFields
  <2>3. ProcessTxn(s, t) = RemoveFromMempool(b, t)
    BY <1>1 DEF ProcessTxn
  <2> HIDE DEF b
  <2> QED
    BY <2>2, <2>3, RemoveFields
<1>2. CASE ~VerifyTxn(s, t, TRUE)
  BY <1>2, RejectFields DEF ProcessTxn
<1> QED
  BY <1>1, <1>2

\* Neither does update_pend's.
LEMMA MatureNow ==
    ASSUME NEW s \in Store, NEW p \in Txn, NEW ts \in Nat
    PROVE  MatureTxn(s, p, ts).now = s.now
<1> DEFINE d == DelFromPending(s, p)
<1>1. d \in Store /\ d.now = s.now
  BY DelStore, DelFields
<1>2. CASE ~LockExpired(s, p, ts)
  BY <1>2 DEF MatureTxn
<1>3. CASE LockExpired(s, p, ts) /\ VerifyTxn(d, p, FALSE)
  <2>1. MatureTxn(s, p, ts) = WriteTxnToDb(d, p, ts) /\ p \in Txn \ DOMAIN d.db
    BY <1>3 DEF MatureTxn, VerifyTxn
  <2> HIDE DEF d
  <2> QED
    BY <1>1, <2>1, WriteFields
<1>4. CASE LockExpired(s, p, ts) /\ ~VerifyTxn(d, p, FALSE)
  <2>1. MatureTxn(s, p, ts) = Reject(d, p)
    BY <1>4 DEF MatureTxn
  <2> HIDE DEF d
  <2> QED
    BY <1>1, <2>1, RejectFields
<1> QED
  BY <1>2, <1>3, <1>4

-----------------------------------------------------------------------------
(***************************************************************************)
(* update_pend as a whole: acc[U] is the store after the entries U of the  *)
(* snapshot.                                                               *)
(***************************************************************************)
FiniteStore == {s \in Store : IsFiniteSet(DOMAIN s.pend)}

IsSweep(acc, s) ==
    /\ acc \in [SUBSET DOMAIN s.pend -> Store]
    /\ \A U \in SUBSET DOMAIN s.pend :
          acc[U] = IF U = {} THEN s
                   ELSE MatureTxn(acc[U \ {First(U)}], First(U), s.pend[First(U)])

\* The fold that defines update_pend is such a sweep.
LEMMA UpdatePendSweeps ==
    ASSUME NEW s \in FiniteStore
    PROVE  \E acc : IsSweep(acc, s) /\ UpdatePend(s) = acc[DOMAIN s.pend]
<1> DEFINE S == DOMAIN s.pend
           Body(f) == [U \in SUBSET S |->
                         IF U = {} THEN s
                         ELSE MatureTxn(f[U \ {CHOOSE x \in U : TRUE}], CHOOSE x \in U : TRUE,
                                        s.pend[CHOOSE x \in U : TRUE])]
           iter == CHOOSE f : f = Body(f)
           c == [U \in SUBSET S |-> First(U)]
           step == [x \in S |-> [v \in Store |-> MatureTxn(v, x, s.pend[x])]]
<1>1. UpdatePend(s) = iter[S]
  BY DEF UpdatePend, FoldSet, MapThenFoldSet
<1>2. IsFiniteSet(S) /\ s \in Store /\ \A x \in S : x \in Txn /\ s.pend[x] \in Nat
  BY StampsElim DEF FiniteStore, Store
<1>3. \A x \in S, v \in Store : step[x][v] = MatureTxn(v, x, s.pend[x]) /\ step[x][v] \in Store
  <2> SUFFICES ASSUME NEW x \in S, NEW v \in Store
               PROVE  step[x][v] = MatureTxn(v, x, s.pend[x]) /\ step[x][v] \in Store
    OBVIOUS
  <2>1. MatureTxn(v, x, s.pend[x]) \in Store
    BY <1>2, MatureEffect
  <2> QED
    BY <2>1
<1>4. \A U \in SUBSET S : U # {} => First(U) \in U
  BY DEF First
<1>5. \A U \in SUBSET S : c[U] = First(U)
  OBVIOUS
<1>6. IsChoice(c, S)
  BY <1>4 DEF IsChoice
<1>7. CanFold(S, Store, s, c, step)
  <2> HIDE DEF c, S, step
  <2> QED
    BY <1>2, <1>3, <1>6 DEF CanFold
<1>8. PICK f : IsFold(f, S, Store, s, c, step)
  <2> HIDE DEF c, S, step
  <2> QED
    BY <1>7, FoldExists
<1>9. f \in [SUBSET S -> Store]
  BY <1>8 DEF IsFold
<1>10. ASSUME NEW U \in SUBSET S
       PROVE  f[U] = IF U = {} THEN s ELSE MatureTxn(f[U \ {First(U)}], First(U), s.pend[First(U)])
  <2>1. f[U] = IF U = {} THEN s ELSE step[c[U]][f[U \ {c[U]}]]
    BY <1>8 DEF IsFold
  <2>2. CASE U = {}
    BY <2>1, <2>2
  <2>3. CASE U # {}
    <3>1. First(U) \in S /\ f[U \ {First(U)}] \in Store
      BY <1>4, <1>9, <2>3
    <3> HIDE DEF c, S, step
    <3> QED
      BY <1>3, <1>5, <2>1, <2>3, <3>1
  <2> QED
    BY <2>2, <2>3
<1>11. f = Body(f)
  <2> HIDE DEF S
  <2> QED
    BY <1>9, <1>10 DEF First
<1>12. iter = Body(iter)
  <2> HIDE DEF Body
  <2> QED
    BY <1>11
<1> HIDE DEF iter
<1>13. iter = [U \in SUBSET S |-> iter[U]]
  BY <1>12
<1>14. \A U \in SUBSET S :
          iter[U] = IF U = {} THEN s ELSE MatureTxn(iter[U \ {First(U)}], First(U), s.pend[First(U)])
  BY <1>12 DEF First
<1>15. {U \in SUBSET S : iter[U] \in Store} = SUBSET S
  <2> DEFINE G == {U \in SUBSET S : iter[U] \in Store}
  <2>1. ASSUME NEW U \in SUBSET S, \A V \in SUBSET U : V # U => V \in G
        PROVE  U \in G
    <3>1. CASE U = {}
      BY <1>2, <1>14, <3>1
    <3>2. CASE U # {}
      <4>1. First(U) \in U /\ U \ {First(U)} \in G
        BY <1>4, <2>1, <3>2
      <4>2. MatureTxn(iter[U \ {First(U)}], First(U), s.pend[First(U)]) \in Store
        BY <1>2, <4>1, MatureEffect
      <4> QED
        BY <1>14, <3>2, <4>2
    <3> QED
      BY <3>1, <3>2
  <2>2. G \in SUBSET SUBSET S
    OBVIOUS
  <2> HIDE DEF G, S
  <2>3. G = SUBSET S
    BY <1>2, <2>1, <2>2, SubsetInduction
  <2> QED
    BY <2>3 DEF G
<1>16. iter \in [SUBSET S -> Store]
  <2> HIDE DEF S
  <2> QED
    BY <1>13, <1>15
<1>17. IsSweep(iter, s)
  BY <1>14, <1>16 DEF IsSweep
<1> QED
  BY <1>1, <1>17

\* It keeps a store well formed and its time, adds nothing to pend, and keeps
\* it sound: every entry is still pending when its turn comes.
LEMMA UpdatePendEffect ==
    ASSUME NEW s \in FiniteStore
    PROVE  /\ UpdatePend(s) \in FiniteStore
           /\ UpdatePend(s).now = s.now
           /\ Sound(s) => Sound(UpdatePend(s))
<1> DEFINE S == DOMAIN s.pend
<1>1. PICK acc : IsSweep(acc, s) /\ UpdatePend(s) = acc[S]
  BY UpdatePendSweeps
<1>2. IsFiniteSet(S) /\ s \in Store /\ \A x \in S : x \in Txn /\ s.pend[x] \in Nat
  BY StampsElim DEF FiniteStore, Store
<1> DEFINE Good(a, U) == /\ a \in Store /\ a.now = s.now
                         /\ DOMAIN a.pend \subseteq S
                         /\ S \ U \subseteq DOMAIN a.pend
                         /\ Sound(s) => Sound(a)
           G == {U \in SUBSET S : Good(acc[U], U)}
<1>3. ASSUME NEW U \in SUBSET S, \A V \in SUBSET U : V # U => V \in G
      PROVE  U \in G
  <2>1. CASE U = {}
    <3>1. acc[U] = s
      BY <1>1, <2>1 DEF IsSweep
    <3> QED
      BY <1>2, <2>1, <3>1
  <2>2. CASE U # {}
    <3> DEFINE p == First(U)
               a == acc[U \ {p}]
               b == acc[U]
    <3>1. p \in U /\ p \in S
      BY <2>2 DEF First
    <3>2. Good(a, U \ {p})
      BY <1>3, <3>1
    <3>3. b = MatureTxn(a, p, s.pend[p])
      BY <1>1, <2>2 DEF IsSweep
    <3> HIDE DEF p, a, b
    <3>4. p \in Txn /\ s.pend[p] \in Nat /\ p \in DOMAIN a.pend
      BY <1>2, <3>1, <3>2
    <3>5. b \in Store /\ DOMAIN a.pend \ {p} \subseteq DOMAIN b.pend /\ DOMAIN b.pend \subseteq DOMAIN a.pend
      BY <3>2, <3>3, <3>4, MatureEffect
    <3>6. b.now = a.now
      BY <3>2, <3>3, <3>4, MatureNow
    <3>7. Sound(a) => Sound(b)
      BY <3>3, <3>4, MatureSound
    <3>8. Good(b, U)
      BY <3>1, <3>2, <3>5, <3>6, <3>7
    <3> QED
      BY <3>8 DEF b
  <2> QED
    BY <2>1, <2>2
<1>4. G \in SUBSET SUBSET S
  OBVIOUS
<1>5. G = SUBSET S
  <2> HIDE DEF G, S
  <2> QED
    BY <1>2, <1>3, <1>4, SubsetInduction
<1>6. Good(acc[S], S)
  BY <1>5
<1> QED
  BY <1>1, <1>2, <1>6, FS_Subset DEF FiniteStore

\* It does the same to stores that are alike.
LEMMA UpdatePendAlike ==
    ASSUME NEW a \in FiniteStore, NEW b \in FiniteStore, Alike(a, b)
    PROVE  Alike(UpdatePend(a), UpdatePend(b))
<1> DEFINE S == DOMAIN a.pend
<1>1. a.pend = b.pend /\ IsFiniteSet(S) /\ \A x \in S : x \in Txn /\ a.pend[x] \in Nat
  BY StampsElim DEF FiniteStore, Store, Alike
<1>2. PICK f : IsSweep(f, a) /\ UpdatePend(a) = f[S]
  BY UpdatePendSweeps
<1>3. PICK g : IsSweep(g, b) /\ UpdatePend(b) = g[S]
  BY <1>1, UpdatePendSweeps
<1> DEFINE G == {U \in SUBSET S : Alike(f[U], g[U])}
<1>4. ASSUME NEW U \in SUBSET S, \A V \in SUBSET U : V # U => V \in G
      PROVE  U \in G
  <2> DEFINE p == First(U)
             x == f[U \ {p}]
             y == g[U \ {p}]
  <2>1. /\ f[U] = IF U = {} THEN a ELSE MatureTxn(x, p, a.pend[p])
        /\ g[U] = IF U = {} THEN b ELSE MatureTxn(y, p, a.pend[p])
        /\ x \in Store /\ y \in Store
    BY <1>1, <1>2, <1>3 DEF IsSweep
  <2>2. CASE U = {}
    BY <2>1, <2>2
  <2>3. CASE U # {}
    <3>1. p \in S /\ U \ {p} \in G
      BY <1>4, <2>3 DEF First
    <3>2. Alike(x, y) /\ p \in Txn /\ a.pend[p] \in Nat
      BY <1>1, <3>1
    <3> HIDE DEF x, y, p
    <3>3. Alike(MatureTxn(x, p, a.pend[p]), MatureTxn(y, p, a.pend[p]))
      BY <2>1, <3>2, MatureAlike
    <3> QED
      BY <2>1, <2>3, <3>3
  <2> QED
    BY <2>2, <2>3
<1>5. G \in SUBSET SUBSET S
  OBVIOUS
<1>6. G = SUBSET S
  <2> HIDE DEF G, S
  <2> QED
    BY <1>1, <1>4, <1>5, SubsetInduction
<1> QED
  BY <1>2, <1>3, <1>6

-----------------------------------------------------------------------------
(***************************************************************************)
(* process_block on a block.                                               *)
(***************************************************************************)

\* A block's list names transactions that are not the coinbase's.
LEMMA BlockFields ==
    ASSUME NEW b \in Block
    PROVE  /\ b.time \in 0 .. MaxTime /\ b.time \in Nat
           /\ b.txns \in Seq(Txn \ Genesis) /\ Range(b.txns) \subseteq Txn \ Genesis
<1>1. b.time \in 0 .. MaxTime /\ b.txns \in SeqOf(Txn \ Genesis, BlockSize)
  BY DEF Block
<1>2. b.txns \in Seq(Txn \ Genesis)
  BY <1>1 DEF SeqOf
<1> QED
  BY <1>1, <1>2, ReplicasAssumption DEF Range

\* The largest of the first numbers.
LEMMA MaxUpTo == \A k \in Nat \ {0} : Max(1 .. k) = k
<1> SUFFICES ASSUME NEW k \in Nat \ {0} PROVE Max(1 .. k) = k
  OBVIOUS
<1>1. Max(1 .. k) \in 1 .. k /\ \A y \in 1 .. k : Max(1 .. k) >= y
  <2>1. k \in 1 .. k /\ \A y \in 1 .. k : k >= y
    OBVIOUS
  <2> QED
    BY <2>1 DEF Max
<1>2. Max(1 .. k) >= k
  BY <1>1
<1> QED
  BY <1>1, <1>2

\* The stores that the turns of process_block's loop go through.
IsTurns(f, s, list) ==
    /\ f \in [0 .. Len(list) -> Store]
    /\ f[0] = s
    /\ \A k \in 1 .. Len(list) : f[k] = ProcessTxn(f[k - 1], list[k])

\* The fold that defines process_block takes one turn after the other.
LEMMA BlockTurns ==
    ASSUME NEW s \in Store, NEW list \in Seq(Txn \ Genesis)
    PROVE  \E f : IsTurns(f, s, list) /\ FoldLeft(ProcessTxn, s, list) = f[Len(list)]
<1> DEFINE n == Len(list)
           S == DOMAIN list
           Body(f) == [U \in SUBSET S |->
                         IF U = {} THEN s ELSE ProcessTxn(f[U \ {Max(U)}], list[Max(U)])]
           iter == CHOOSE f : f = Body(f)
           c == [U \in SUBSET S |-> Max(U)]
           step == [x \in S |-> [v \in Store |-> ProcessTxn(v, list[x])]]
<1>1. FoldLeft(ProcessTxn, s, list) = iter[S]
  BY DEF FoldLeft, MapThenFoldSet
<1>2. n \in Nat /\ S = 1 .. n /\ IsFiniteSet(S) /\ \A x \in S : list[x] \in Txn \ Genesis
  BY FS_Interval
<1>3. \A x \in S, v \in Store : step[x][v] = ProcessTxn(v, list[x]) /\ step[x][v] \in Store
  <2> SUFFICES ASSUME NEW x \in S, NEW v \in Store
               PROVE  step[x][v] = ProcessTxn(v, list[x]) /\ step[x][v] \in Store
    OBVIOUS
  <2>1. ProcessTxn(v, list[x]) \in Store
    BY <1>2, ProcessEffect
  <2> QED
    BY <2>1
<1>4. \A U \in SUBSET S : U # {} => Max(U) \in U
  <2> SUFFICES ASSUME NEW U \in SUBSET S, U # {} PROVE Max(U) \in U
    OBVIOUS
  <2>1. U \in SUBSET (1 .. n) /\ 1 \in Nat
    BY <1>2
  <2> QED
    BY <1>2, <2>1, MaxOfInterval
<1>5. \A U \in SUBSET S : c[U] = Max(U)
  OBVIOUS
<1>6. IsChoice(c, S)
  BY <1>4 DEF IsChoice
<1>7. CanFold(S, Store, s, c, step)
  <2> HIDE DEF c, S, step
  <2> QED
    BY <1>2, <1>3, <1>6 DEF CanFold
<1>8. PICK g : IsFold(g, S, Store, s, c, step)
  <2> HIDE DEF c, S, step
  <2> QED
    BY <1>7, FoldExists
<1>9. g \in [SUBSET S -> Store]
  BY <1>8 DEF IsFold
<1>10. ASSUME NEW U \in SUBSET S
       PROVE  g[U] = IF U = {} THEN s ELSE ProcessTxn(g[U \ {Max(U)}], list[Max(U)])
  <2>1. g[U] = IF U = {} THEN s ELSE step[c[U]][g[U \ {c[U]}]]
    BY <1>8 DEF IsFold
  <2>2. CASE U = {}
    BY <2>1, <2>2
  <2>3. CASE U # {}
    <3>1. Max(U) \in S /\ g[U \ {Max(U)}] \in Store
      BY <1>4, <1>9, <2>3
    <3> HIDE DEF c, S, step
    <3> QED
      BY <1>3, <1>5, <2>1, <2>3, <3>1
  <2> QED
    BY <2>2, <2>3
<1>11. g = Body(g)
  <2> HIDE DEF S
  <2> QED
    BY <1>9, <1>10
<1>12. iter = Body(iter)
  <2> HIDE DEF Body
  <2> QED
    BY <1>11
<1> HIDE DEF iter, c, step
<1>13. \A U \in SUBSET S :
          iter[U] = IF U = {} THEN s ELSE ProcessTxn(iter[U \ {Max(U)}], list[Max(U)])
  BY <1>12
<1> DEFINE f == [k \in 0 .. n |-> iter[1 .. k]]
<1>14. f[0] = s
  <2>1. 1 .. 0 = {} /\ {} \in SUBSET S
    OBVIOUS
  <2>2. iter[{}] = s
    BY <1>13, <2>1
  <2> QED
    BY <1>2, <2>1, <2>2
<1>15. ASSUME NEW k \in 1 .. n PROVE f[k] = ProcessTxn(f[k - 1], list[k])
  <2>1. 1 .. k \in SUBSET S /\ 1 .. k # {} /\ (1 .. k) \ {k} = 1 .. k - 1 /\ k - 1 \in 0 .. n
        /\ k \in 0 .. n
    <3> HIDE DEF S, n
    <3>1. 1 .. k \in SUBSET S
      BY <1>2
    <3>2. 1 .. k # {} /\ k - 1 \in 0 .. n /\ k \in 0 .. n
      <4>1. k \in Nat /\ 1 \in 1 .. k /\ k <= n /\ n \in Nat
        BY <1>2
      <4>2. k - 1 \in 0 .. n /\ k \in 0 .. n
        BY <4>1
      <4>3. 1 .. k # {}
        BY <4>1
      <4> QED
        BY <4>2, <4>3
    <3>3. (1 .. k) \ {k} = 1 .. k - 1
      <4>1. k \in Nat
        BY <1>2
      <4> QED
        BY <4>1
    <3> QED
      BY <3>1, <3>2, <3>3
  <2>2. Max(1 .. k) = k
    BY MaxUpTo
  <2>3. iter[1 .. k] = ProcessTxn(iter[1 .. k - 1], list[k])
    BY <1>13, <2>1, <2>2
  <2> QED
    BY <2>1, <2>3
<1>16. f \in [0 .. n -> Store]
  <2> DEFINE G == {k \in Nat : k <= n => f[k] \in Store}
  <2>1. 0 \in G
    BY <1>14
  <2>2. ASSUME NEW k \in G PROVE k + 1 \in G
    <3> SUFFICES ASSUME k + 1 <= n PROVE f[k + 1] \in Store
      OBVIOUS
    <3>1. k + 1 \in 1 .. n /\ (k + 1) - 1 = k /\ f[k] \in Store
      BY <1>2, <2>2
    <3>2. f[k + 1] = ProcessTxn(f[k], list[k + 1]) /\ list[k + 1] \in Txn \ Genesis
      BY <1>2, <1>15, <3>1
    <3> HIDE DEF f
    <3> QED
      BY <3>1, <3>2, ProcessEffect
  <2>3. G \in SUBSET Nat
    OBVIOUS
  <2> HIDE DEF G
  <2>4. G = Nat
    BY <2>1, <2>2, <2>3, NatSetInduction
  <2>5. \A k \in 0 .. n : f[k] \in Store
    <3> SUFFICES ASSUME NEW k \in 0 .. n PROVE f[k] \in Store
      OBVIOUS
    <3>1. k \in G /\ k <= n
      BY <1>2, <2>4
    <3> HIDE DEF f
    <3> QED
      BY <3>1 DEF G
  <2> QED
    BY <2>5
<1>17. IsTurns(f, s, list) /\ FoldLeft(ProcessTxn, s, list) = f[n]
  <2>1. n \in 0 .. n /\ iter[S] = iter[1 .. n]
    BY <1>2
  <2>2. f[n] = iter[S]
    BY <2>1
  <2> HIDE DEF f, S
  <2> QED
    BY <1>1, <1>14, <1>15, <1>16, <2>2 DEF IsTurns
<1> QED
  BY <1>17

\* The store that process_block starts from.
Begun(s, b) == [s EXCEPT !.now = b.time, !.mempool = @ \union Range(b.txns)]

\* process_block is the turns of its loop.
LEMMA BlockIsTurns ==
    ASSUME NEW s \in FiniteStore, NEW b \in Block
    PROVE  /\ \E f : IsTurns(f, Begun(s, b), b.txns) /\ ProcessBlock(s, b) = f[Len(b.txns)]
           /\ Begun(s, b) \in Store
           /\ Begun(s, b).now = b.time
           /\ Begun(s, b).db = s.db
           /\ Begun(s, b).pend = s.pend
           /\ Begun(s, b).invalid = s.invalid
<1>1. ProcessBlock(s, b) = FoldLeft(ProcessTxn, Begun(s, b), b.txns)
  BY DEF ProcessBlock, Begun
<1>2. b.time \in Nat /\ Range(b.txns) \subseteq Txn /\ b.txns \in Seq(Txn \ Genesis)
  BY BlockFields
<1>3. /\ Begun(s, b) \in Store
      /\ Begun(s, b).now = b.time
      /\ Begun(s, b).db = s.db
      /\ Begun(s, b).pend = s.pend
      /\ Begun(s, b).invalid = s.invalid
  BY <1>2 DEF Begun, FiniteStore, Store
<1> QED
  BY <1>1, <1>2, <1>3, BlockTurns

\* One turn keeps pend finite.
LEMMA TurnFinite ==
    ASSUME NEW a \in FiniteStore, NEW t \in Txn \ Genesis
    PROVE  ProcessTxn(a, t) \in FiniteStore
<1> DEFINE c == ProcessTxn(a, t)
<1>1. a \in Store /\ c \in Store
  BY ProcessEffect DEF FiniteStore
<1>2. IsFiniteSet(DOMAIN a.pend) /\ IsFiniteSet(DOMAIN a.pend \union {t})
  BY FS_Singleton, FS_Union DEF FiniteStore
<1>3. DOMAIN c.pend \subseteq DOMAIN a.pend \union {t}
  <2>1. CASE VerifyTxn(a, t, TRUE)
    <3> DEFINE u == Accept(a, t)
    <3>1. t \in Txn \ DOMAIN a.db
      BY <2>1 DEF VerifyTxn
    <3>2. u \in Store
      BY <1>1, <3>1, AcceptFields
    <3>3. DOMAIN u.pend = IF Timelock[t] > 0 THEN (DOMAIN a.pend \ Replaced(a, t)) \union {t}
                                             ELSE DOMAIN a.pend \ Replaced(a, t)
      BY <1>1, <3>1, AcceptFields
    <3>4. c = RemoveFromMempool(u, t)
      BY <2>1 DEF ProcessTxn
    <3> HIDE DEF u, c
    <3>5. c.pend = u.pend
      BY <3>2, <3>4, RemoveFields
    <3> QED
      BY <3>3, <3>5
  <2>2. CASE ~VerifyTxn(a, t, TRUE)
    <3>1. c = Reject(a, t)
      BY <2>2 DEF ProcessTxn
    <3> QED
      BY <1>1, <3>1, RejectFields
  <2> QED
    BY <2>1, <2>2
<1>4. IsFiniteSet(DOMAIN c.pend)
  BY <1>2, <1>3, FS_Subset
<1> QED
  BY <1>1, <1>4 DEF FiniteStore

\* What the turns of a block do, from whatever store.
LEMMA TurnsEffect ==
    ASSUME NEW s \in FiniteStore, NEW list \in Seq(Txn \ Genesis), NEW f, IsTurns(f, s, list)
    PROVE  /\ f[Len(list)] \in FiniteStore
           /\ f[Len(list)].now = s.now
           /\ Sound(s) => Sound(f[Len(list)])
<1> DEFINE n == Len(list)
           Good(v) == v \in FiniteStore /\ v.now = s.now /\ (Sound(s) => Sound(v))
           G == {k \in Nat : k <= n => Good(f[k])}
<1>1. 0 \in G
  BY DEF IsTurns
<1>2. ASSUME NEW k \in G PROVE k + 1 \in G
  <2> SUFFICES ASSUME k + 1 <= n PROVE Good(f[k + 1])
    OBVIOUS
  <2>1. k + 1 \in 1 .. n /\ (k + 1) - 1 = k /\ Good(f[k])
    BY <1>2
  <2>2. f[k + 1] = ProcessTxn(f[k], list[k + 1]) /\ list[k + 1] \in Txn \ Genesis
    BY <2>1 DEF IsTurns
  <2>3. f[k] \in FiniteStore /\ f[k] \in Store
    BY <2>1 DEF FiniteStore
  <2>4. f[k + 1] \in FiniteStore
    BY <2>2, <2>3, TurnFinite
  <2>5. f[k + 1].now = f[k].now
    BY <2>2, <2>3, ProcessNow
  <2>6. Sound(f[k]) => Sound(f[k + 1])
    BY <2>2, ProcessSound
  <2> QED
    BY <2>1, <2>4, <2>5, <2>6
<1>3. G \in SUBSET Nat /\ n \in Nat
  OBVIOUS
<1>4. G = Nat
  <2> HIDE DEF G
  <2> QED
    BY <1>1, <1>2, <1>3, NatSetInduction
<1>5. Good(f[n])
  <2> HIDE DEF Good
  <2> QED
    BY <1>3, <1>4
<1> QED
  BY <1>5

\* They do the same to stores that are alike.
LEMMA TurnsAlike ==
    ASSUME NEW a, NEW b, Alike(a, b), NEW list \in Seq(Txn \ Genesis),
           NEW f, NEW g, IsTurns(f, a, list), IsTurns(g, b, list)
    PROVE  Alike(f[Len(list)], g[Len(list)])
<1> DEFINE n == Len(list)
           G == {k \in Nat : k <= n => Alike(f[k], g[k])}
<1>1. 0 \in G
  BY DEF IsTurns
<1>2. ASSUME NEW k \in G PROVE k + 1 \in G
  <2> SUFFICES ASSUME k + 1 <= n PROVE Alike(f[k + 1], g[k + 1])
    OBVIOUS
  <2>1. k + 1 \in 1 .. n /\ (k + 1) - 1 = k /\ k \in 0 .. n /\ Alike(f[k], g[k])
    BY <1>2
  <2>2. /\ f[k + 1] = ProcessTxn(f[k], list[k + 1]) /\ g[k + 1] = ProcessTxn(g[k], list[k + 1])
        /\ f[k] \in Store /\ g[k] \in Store /\ list[k + 1] \in Txn
    BY <2>1 DEF IsTurns
  <2>3. Alike(ProcessTxn(f[k], list[k + 1]), ProcessTxn(g[k], list[k + 1]))
    BY <2>1, <2>2, ProcessAlike
  <2> QED
    BY <2>2, <2>3
<1>3. G \in SUBSET Nat /\ n \in Nat
  OBVIOUS
<1>4. G = Nat
  <2> HIDE DEF G
  <2> QED
    BY <1>1, <1>2, <1>3, NatSetInduction
<1> QED
  BY <1>3, <1>4

\* process_block keeps a store well formed and sound, and sets its time.
LEMMA ProcessBlockEffect ==
    ASSUME NEW s \in FiniteStore, NEW b \in Block
    PROVE  /\ ProcessBlock(s, b) \in FiniteStore
           /\ ProcessBlock(s, b).now = b.time
           /\ Sound(s) => Sound(ProcessBlock(s, b))
<1> DEFINE a == Begun(s, b)
<1>1. PICK f : IsTurns(f, a, b.txns) /\ ProcessBlock(s, b) = f[Len(b.txns)]
  BY BlockIsTurns
<1>2. a \in Store /\ a.now = b.time /\ a.db = s.db /\ a.pend = s.pend
  BY BlockIsTurns
<1> HIDE DEF a
<1>3. a \in FiniteStore
  BY <1>2 DEF FiniteStore
<1>4. Sound(s) => Sound(a)
  BY <1>2, SameDatabases
<1>5. b.txns \in Seq(Txn \ Genesis)
  BY BlockFields
<1> QED
  BY <1>1, <1>2, <1>3, <1>4, <1>5, TurnsEffect

\* SharedLedger's transactions are this module's.
LEMMA SharedTurn == \A s, t : Shared!ProcessTxn(s, t) = ProcessTxn(s, t)
<1>1. \A s, t : Shared!DropReplaced(s, t) = DropReplaced(s, t)
  BY DEF DropReplaced, Shared!DropReplaced, DelFromPending, Shared!DelFromPending,
     OwnedBy, Shared!OwnedBy, OutputsOf, Shared!OutputsOf, KeysOf, Shared!KeysOf,
     Conflicts, Shared!Conflicts, Conflict, Shared!Conflict
<1>2. \A s, t : Shared!VerifyTxn(s, t, TRUE) = VerifyTxn(s, t, TRUE)
  BY DEF VerifyTxn, Shared!VerifyTxn, InputsExist, Shared!InputsExist,
     Authorised, Shared!Authorised, HtlcTimedOut, Shared!HtlcTimedOut,
     Balanced, Shared!Balanced, PendAllows, Shared!PendAllows, Conflicts, Shared!Conflicts,
     Conflict, Shared!Conflict, MayReplace, Shared!MayReplace, LockExpired, Shared!LockExpired,
     Unspent, Shared!Unspent, SumOf, Shared!SumOf, OutputsOf, Shared!OutputsOf,
     MapThenSumSet, Shared!MapThenSumSet, MapThenFoldSet, Shared!MapThenFoldSet,
     AmountOf, Shared!AmountOf, HasCoins, Shared!HasCoins, SumFunction, Shared!SumFunction,
     SumFunctionOnSet, Shared!SumFunctionOnSet, FoldFunctionOnSet, Shared!FoldFunctionOnSet
<1>3. \A s, t, ts : Shared!WriteTxnToPend(s, t, ts) = WriteTxnToPend(s, t, ts)
  BY DEF WriteTxnToPend, Shared!WriteTxnToPend, PutInPend, Shared!PutInPend,
     Spend, Shared!Spend, OwnedBy, Shared!OwnedBy, OutputsOf, Shared!OutputsOf,
     KeysOf, Shared!KeysOf
<1>4. \A s, t, ts : Shared!WriteTxnToDb(s, t, ts) = WriteTxnToDb(s, t, ts)
  BY DEF WriteTxnToDb, Shared!WriteTxnToDb, PutInDb, Shared!PutInDb, Spend, Shared!Spend,
     TxnWrapper, Shared!TxnWrapper, OwnedBy, Shared!OwnedBy, OutputsOf, Shared!OutputsOf,
     KeysOf, Shared!KeysOf
<1>5. \A s, t : Shared!Accept(s, t) = Accept(s, t)
  BY <1>1, <1>3, <1>4 DEF Accept, Shared!Accept
<1> QED
  BY <1>2, <1>5 DEF ProcessTxn, Shared!ProcessTxn, Reject, Shared!Reject,
     RemoveFromMempool, Shared!RemoveFromMempool

\* So are their folds.
LEMMA SharedFold ==
    \A s, list : Shared!FoldLeft(Shared!ProcessTxn, s, list) = FoldLeft(ProcessTxn, s, list)
<1> SUFFICES ASSUME NEW s, NEW list
             PROVE  Shared!FoldLeft(Shared!ProcessTxn, s, list) = FoldLeft(ProcessTxn, s, list)
  OBVIOUS
<1> DEFINE Body(f) == [U \in SUBSET DOMAIN list |->
                         IF U = {} THEN s ELSE ProcessTxn(f[U \ {Max(U)}], list[Max(U)])]
           Their(f) == [U \in SUBSET DOMAIN list |->
                          IF U = {} THEN s
                          ELSE Shared!ProcessTxn(f[U \ {Shared!Max(U)}], list[Shared!Max(U)])]
<1>1. FoldLeft(ProcessTxn, s, list) = (CHOOSE f : f = Body(f))[DOMAIN list]
  BY DEF FoldLeft, MapThenFoldSet
<1>2. Shared!FoldLeft(Shared!ProcessTxn, s, list) = (CHOOSE f : f = Their(f))[DOMAIN list]
  BY DEF Shared!FoldLeft, Shared!MapThenFoldSet
<1>3. \A U : Shared!Max(U) = Max(U)
  BY DEF Max, Shared!Max
<1>4. \A f : Body(f) = Their(f)
  BY <1>3, SharedTurn
<1>5. (CHOOSE f : f = Body(f)) = (CHOOSE f : f = Their(f))
  <2> HIDE DEF Body, Their
  <2> QED
    BY <1>4
<1> HIDE DEF Body, Their
<1> QED
  BY <1>1, <1>2, <1>5

\* SharedLedger's execution of a block is the turns of the loop.
LEMMA SharedProcess ==
    \A s, b : Shared!Execute(s, b) = FoldLeft(ProcessTxn, [s EXCEPT !.now = b.time], b.txns)
  BY SharedFold DEF Shared!Execute

\* Its update_pend is this module's.
LEMMA SharedMature == \A s : Shared!Mature(s) = UpdatePend(s)
  BY DEF UpdatePend, Shared!Mature, FoldSet, Shared!FoldSet, MapThenFoldSet,
     Shared!MapThenFoldSet, MatureTxn, Shared!MatureTxn, DelFromPending, Shared!DelFromPending,
     Reject, Shared!Reject, OwnedBy, Shared!OwnedBy, KeysOf, Shared!KeysOf,
     WriteTxnToDb, Shared!WriteTxnToDb, Spend, Shared!Spend, PutInDb, Shared!PutInDb,
     TxnWrapper, Shared!TxnWrapper, VerifyTxn, Shared!VerifyTxn,
     InputsExist, Shared!InputsExist, Authorised, Shared!Authorised,
     HtlcTimedOut, Shared!HtlcTimedOut, Balanced, Shared!Balanced,
     PendAllows, Shared!PendAllows, Conflicts, Shared!Conflicts, Conflict, Shared!Conflict,
     MayReplace, Shared!MayReplace, LockExpired, Shared!LockExpired, Unspent, Shared!Unspent,
     SumOf, Shared!SumOf, OutputsOf, Shared!OutputsOf, MapThenSumSet, Shared!MapThenSumSet,
     AmountOf, Shared!AmountOf, HasCoins, Shared!HasCoins, SumFunction, Shared!SumFunction,
     SumFunctionOnSet, Shared!SumFunctionOnSet, FoldFunctionOnSet, Shared!FoldFunctionOnSet

\* Its store begins with the same coinbase, and its blocks are the same.
LEMMA SharedBegins == Shared!EmptyStore = EmptyStore /\ Shared!Block = Block
  BY DEF EmptyStore, Shared!EmptyStore, TxnWrapper, Shared!TxnWrapper, OwnedBy, Shared!OwnedBy,
     OutputsOf, Shared!OutputsOf, KeysOf, Shared!KeysOf, Block, Shared!Block,
     SeqOf, Shared!SeqOf, IsInjective, Shared!IsInjective

\* SharedLedger's execution of a block does the same, whatever the time was.
LEMMA ExecuteAlike ==
    ASSUME NEW s \in FiniteStore, NEW a \in FiniteStore, s.db = a.db, s.pend = a.pend,
           NEW b \in Block
    PROVE  Alike(ProcessBlock(s, b), Shared!Execute(a, b)) /\ Shared!Execute(a, b) \in FiniteStore
<1> DEFINE c == [a EXCEPT !.now = b.time]
           d == Begun(s, b)
<1>1. b.txns \in Seq(Txn \ Genesis) /\ b.time \in Nat
  BY BlockFields
<1>2. c \in FiniteStore /\ c \in Store /\ c.now = b.time /\ c.db = a.db /\ c.pend = a.pend
  BY <1>1 DEF FiniteStore, Store
<1>3. Shared!Execute(a, b) = FoldLeft(ProcessTxn, c, b.txns)
  BY SharedProcess
<1>4. d.now = b.time /\ d.db = s.db /\ d.pend = s.pend
  BY BlockIsTurns
<1>5. PICK f : IsTurns(f, d, b.txns) /\ ProcessBlock(s, b) = f[Len(b.txns)]
  BY BlockIsTurns
<1> HIDE DEF c, d
<1>6. PICK g : IsTurns(g, c, b.txns) /\ Shared!Execute(a, b) = g[Len(b.txns)]
  BY <1>1, <1>2, <1>3, BlockTurns
<1>7. Alike(d, c)
  BY <1>2, <1>4 DEF Alike
<1>8. Alike(f[Len(b.txns)], g[Len(b.txns)])
  BY <1>1, <1>5, <1>6, <1>7, TurnsAlike
<1>9. g[Len(b.txns)] \in FiniteStore
  BY <1>1, <1>2, <1>6, TurnsEffect
<1> QED
  BY <1>5, <1>6, <1>8, <1>9

-----------------------------------------------------------------------------
(***************************************************************************)
(* The states of the sequential execution.                                 *)
(***************************************************************************)

\* What the k-th step of the execution of a log does to a store: a block takes
\* two, and the first is update_pend.
Stage(blocks, k, s) ==
    IF k % 2 = 1 THEN UpdatePend(s) ELSE Shared!Execute(s, blocks[k \div 2])

\* A store stays a store.
LEMMA StageType ==
    ASSUME NEW blocks \in Seq(Block), NEW k \in 1 .. 2 * Len(blocks), NEW s \in FiniteStore
    PROVE  Stage(blocks, k, s) \in FiniteStore
<1>1. CASE k % 2 = 1
  BY <1>1, UpdatePendEffect DEF Stage
<1>2. CASE k % 2 # 1
  <2>1. k \div 2 \in 1 .. Len(blocks)
    BY <1>2
  <2>2. blocks[k \div 2] \in Block
    BY <2>1
  <2> QED
    BY <1>2, <2>2, ExecuteAlike DEF Stage
<1> QED
  BY <1>1, <1>2

\* The execution of a log exists: it starts from the coinbase and takes one
\* step after the other.
LEMMA ExecutionSteps ==
    ASSUME NEW blocks \in Seq(Block)
    PROVE  /\ \A k \in 0 .. 2 * Len(blocks) : Shared!Execution(blocks)[k] \in FiniteStore
           /\ Shared!Execution(blocks)[0] = EmptyStore
           /\ \A k \in 1 .. 2 * Len(blocks) : Shared!Execution(blocks)[k] =
                 Stage(blocks, k, Shared!Execution(blocks)[k - 1])
<1> DEFINE N == 2 * Len(blocks)
           Body(f) == [k \in 0 .. N |->
                         IF k = 0 THEN Shared!EmptyStore
                         ELSE IF k % 2 = 1 THEN Shared!Mature(f[k - 1])
                         ELSE Shared!Execute(f[k - 1], blocks[k \div 2])]
           E == CHOOSE f : f = Body(f)
           Runs(f, n) == /\ f[0] = EmptyStore
                         /\ \A k \in 1 .. n : f[k] = Stage(blocks, k, f[k - 1])
           G == {n \in Nat : n <= N => \E f \in [0 .. n -> FiniteStore] : Runs(f, n)}
<1>1. Shared!Execution(blocks) = E
  BY DEF Shared!Execution
<1>2. N \in Nat
  OBVIOUS
<1>3. EmptyStore \in FiniteStore
  <2>1. DOMAIN EmptyStore.pend = {}
    BY DEF EmptyStore
  <2> QED
    BY <2>1, EmptyStoreType, FS_EmptySet DEF FiniteStore
<1>4. 0 \in G
  <2> DEFINE f == [k \in 0 .. 0 |-> EmptyStore]
  <2>1. f \in [0 .. 0 -> FiniteStore] /\ Runs(f, 0)
    BY <1>3
  <2> QED
    BY <2>1
<1>5. ASSUME NEW n \in G PROVE n + 1 \in G
  <2> SUFFICES ASSUME n + 1 <= N
               PROVE  \E f \in [0 .. n + 1 -> FiniteStore] : Runs(f, n + 1)
    OBVIOUS
  <2>1. PICK f \in [0 .. n -> FiniteStore] : Runs(f, n)
    BY <1>2, <1>5
  <2> DEFINE v == Stage(blocks, n + 1, f[n])
             g == [k \in 0 .. n + 1 |-> IF k = n + 1 THEN v ELSE f[k]]
  <2>2. v \in FiniteStore
    <3>1. f[n] \in FiniteStore /\ n + 1 \in 1 .. N
      BY <1>2
    <3> QED
      BY <3>1, StageType
  <2> HIDE DEF v
  <2>3. \A k \in 0 .. n : g[k] = f[k]
    OBVIOUS
  <2>4. g[n + 1] = v /\ g[0] = EmptyStore
    BY <2>1
  <2>5. g \in [0 .. n + 1 -> FiniteStore]
    <3> SUFFICES ASSUME NEW k \in 0 .. n + 1 PROVE g[k] \in FiniteStore
      OBVIOUS
    <3>1. CASE k = n + 1
      BY <2>2, <3>1
    <3>2. CASE k # n + 1
      <4>1. k \in 0 .. n
        BY <3>2
      <4> QED
        BY <2>3, <4>1
    <3> QED
      BY <3>1, <3>2
  <2>6. ASSUME NEW k \in 1 .. n + 1 PROVE g[k] = Stage(blocks, k, g[k - 1])
    <3>1. g[k - 1] = f[k - 1]
      BY <2>3
    <3>2. CASE k = n + 1
      BY <2>4, <3>1, <3>2 DEF v
    <3>3. CASE k # n + 1
      <4>1. k \in 0 .. n /\ k \in 1 .. n
        BY <3>3
      <4>2. f[k] = Stage(blocks, k, f[k - 1])
        BY <2>1, <4>1
      <4> QED
        BY <2>3, <3>1, <4>1, <4>2
    <3> QED
      BY <3>2, <3>3
  <2> HIDE DEF g
  <2> QED
    BY <2>4, <2>5, <2>6
<1>6. G = Nat
  <2>1. G \in SUBSET Nat
    OBVIOUS
  <2> HIDE DEF G
  <2> QED
    BY <1>4, <1>5, <2>1, NatSetInduction
<1>7. PICK f \in [0 .. N -> FiniteStore] : Runs(f, N)
  <2>1. N \in G
    BY <1>2, <1>6
  <2> HIDE DEF N
  <2> QED
    BY <1>2, <2>1
<1>8. f = Body(f)
  <2>1. ASSUME NEW k \in 0 .. N
        PROVE  f[k] = IF k = 0 THEN Shared!EmptyStore
                      ELSE IF k % 2 = 1 THEN Shared!Mature(f[k - 1])
                      ELSE Shared!Execute(f[k - 1], blocks[k \div 2])
    <3>1. CASE k = 0
      BY <1>7, <3>1, SharedBegins
    <3>2. CASE k # 0
      <4>1. k \in 1 .. N
        BY <1>2, <3>2
      <4>2. f[k] = Stage(blocks, k, f[k - 1])
        BY <1>7, <4>1
      <4> QED
        BY <3>2, <4>2, SharedMature DEF Stage
    <3> QED
      BY <3>1, <3>2
  <2> HIDE DEF N
  <2> QED
    BY <1>7, <2>1
<1>9. E = Body(E)
  <2> HIDE DEF Body
  <2> QED
    BY <1>8
<1> HIDE DEF E
<1>10. E[0] = EmptyStore
  BY <1>2, <1>9, SharedBegins
<1>11. ASSUME NEW k \in 1 .. N PROVE E[k] = Stage(blocks, k, E[k - 1])
  <2>1. k \in 0 .. N /\ k # 0
    BY <1>2
  <2> HIDE DEF N
  <2>2. E[k] = IF k = 0 THEN Shared!EmptyStore
               ELSE IF k % 2 = 1 THEN Shared!Mature(E[k - 1])
               ELSE Shared!Execute(E[k - 1], blocks[k \div 2])
    BY <1>9, <2>1
  <2> QED
    BY <2>1, <2>2, SharedMature DEF Stage
<1> DEFINE H == {n \in Nat : n <= N => E[n] \in FiniteStore}
<1>12. H = Nat
  <2>1. 0 \in H
    BY <1>3, <1>10
  <2>2. ASSUME NEW n \in H PROVE n + 1 \in H
    <3> SUFFICES ASSUME n + 1 <= N PROVE E[n + 1] \in FiniteStore
      OBVIOUS
    <3>1. n + 1 \in 1 .. N /\ (n + 1) - 1 = n /\ n <= N
      BY <1>2
    <3>2. E[n + 1] = Stage(blocks, n + 1, E[n])
      BY <1>11, <3>1
    <3> QED
      BY <3>1, <3>2, StageType
  <2>3. H \in SUBSET Nat
    OBVIOUS
  <2> HIDE DEF H
  <2> QED
    BY <2>1, <2>2, <2>3, NatSetInduction
<1>13. \A k \in 0 .. N : E[k] \in FiniteStore
  BY <1>2, <1>12
<1> QED
  BY <1>1, <1>10, <1>11, <1>13

\* A longer log is executed alike as far as the shorter one goes.
LEMMA ExecutionPrefix ==
    ASSUME NEW blocks \in Seq(Block), NEW b \in Block
    PROVE  \A k \in 0 .. 2 * Len(blocks) :
              Shared!Execution(Append(blocks, b))[k] = Shared!Execution(blocks)[k]
<1> DEFINE more == Append(blocks, b)
           N == 2 * Len(blocks)
           D == Shared!Execution(more)
           E == Shared!Execution(blocks)
<1>1. more \in Seq(Block) /\ Len(more) = Len(blocks) + 1 /\ N \in Nat
      /\ \A i \in 1 .. Len(blocks) : more[i] = blocks[i]
  OBVIOUS
<1>2. /\ D[0] = EmptyStore
      /\ \A k \in 1 .. 2 * Len(more) : D[k] = Stage(more, k, D[k - 1])
  BY <1>1, ExecutionSteps
<1>3. /\ E[0] = EmptyStore
      /\ \A k \in 1 .. N : E[k] = Stage(blocks, k, E[k - 1])
  BY ExecutionSteps
<1> HIDE DEF D, E, more
<1> DEFINE G == {n \in Nat : n <= N => D[n] = E[n]}
<1>4. 0 \in G
  BY <1>2, <1>3
<1>5. ASSUME NEW n \in G PROVE n + 1 \in G
  <2> SUFFICES ASSUME n + 1 <= N PROVE D[n + 1] = E[n + 1]
    OBVIOUS
  <2>1. n + 1 \in 1 .. N /\ n + 1 \in 1 .. 2 * Len(more) /\ (n + 1) - 1 = n /\ D[n] = E[n]
    BY <1>1
  <2>2. D[n + 1] = Stage(more, n + 1, D[n]) /\ E[n + 1] = Stage(blocks, n + 1, E[n])
    BY <1>2, <1>3, <2>1
  <2>3. (n + 1) % 2 # 1 => more[(n + 1) \div 2] = blocks[(n + 1) \div 2]
    <3>1. (n + 1) % 2 # 1 => (n + 1) \div 2 \in 1 .. Len(blocks)
      BY <2>1
    <3> QED
      BY <1>1, <3>1
  <2> QED
    BY <2>1, <2>2, <2>3 DEF Stage
<1>6. G = Nat
  <2>1. G \in SUBSET Nat
    OBVIOUS
  <2> HIDE DEF G
  <2> QED
    BY <1>4, <1>5, <2>1, NatSetInduction
<1>7. \A k \in 0 .. N : D[k] = E[k]
  BY <1>1, <1>6
<1> QED
  BY <1>7 DEF D, E, more

-----------------------------------------------------------------------------
(***************************************************************************)
(* The cluster.  Every node holds a sound store; a steady one, the one     *)
(* that the execution of the log has reached after as many steps.          *)
(***************************************************************************)
Holds(s) == s \in FiniteStore /\ Sound(s) /\ s.now \in 0 .. MaxTime

ClusterInv ==
    /\ log \in Seq(Block)
    /\ store \in [Node -> FiniteStore] /\ \A n \in Node : Holds(store[n])
    /\ applied \in [Node -> Nat] /\ processed \in [Node -> Nat]
    /\ \A n \in Node : processed[n] <= applied[n] /\ applied[n] <= Len(log)
    /\ restarts \in 0 .. MaxRestarts
    /\ steady \subseteq Node

\* s is where the execution is after a + p steps; only while no block is under
\* way is its time the execution's.
Reaches(s, a, p) ==
    LET e == Shared!Execution(log)[a + p]
    IN  /\ s.db = e.db /\ s.pend = e.pend
        /\ a = p => s.now = e.now

Follows == \A n \in steady : /\ applied[n] <= processed[n] + 1
                             /\ Reaches(store[n], applied[n], processed[n])

\* A new store.
LEMMA EmptyHolds == Holds(EmptyStore)
<1>1. EmptyStore.now = 0 /\ DOMAIN EmptyStore.pend = {}
  BY DEF EmptyStore
<1> QED
  BY <1>1, EmptySound, FS_EmptySet, ReplicasAssumption DEF Holds, FiniteStore, Sound

\* What the handlers do to one node's store.
LEMMA HandlersHold ==
    ASSUME NEW s, Holds(s)
    PROVE  /\ Holds(UpdatePend(s))
           /\ Holds(Reopen(s))
           /\ \A b \in Block : Holds(ProcessBlock(s, b))
           /\ \A b \in Block : Holds([s EXCEPT !.now = b.time])
<1>1. s \in FiniteStore /\ s \in Store /\ Sound(s) /\ s.now \in 0 .. MaxTime
  BY DEF Holds, FiniteStore
<1>2. Holds(UpdatePend(s))
  BY <1>1, UpdatePendEffect DEF Holds
<1>3. ASSUME NEW b \in Store, b.db = s.db, b.pend = s.pend, b.now \in 0 .. MaxTime
      PROVE  Holds(b)
  BY <1>1, <1>3, SameDatabases DEF Holds, FiniteStore
<1>4. Holds(Reopen(s))
  <2>1. Reopen(s).now = 0
    BY <1>1 DEF Reopen, Store
  <2> QED
    BY <1>1, <1>3, <2>1, ReopenType, ReplicasAssumption
<1>5. ASSUME NEW b \in Block PROVE Holds(ProcessBlock(s, b))
  BY <1>1, ProcessBlockEffect, BlockFields DEF Holds
<1>6. ASSUME NEW b \in Block PROVE Holds([s EXCEPT !.now = b.time])
  <2>1. b.time \in Nat /\ b.time \in 0 .. MaxTime
    BY BlockFields
  <2>2. [s EXCEPT !.now = b.time].now = b.time
    BY <1>1 DEF Store
  <2> QED
    BY <1>1, <1>3, <2>1, <2>2, RetimeType
<1> QED
  BY <1>2, <1>4, <1>5, <1>6

\* The two steps that the execution takes for the block p + 1.
LEMMA Places ==
    ASSUME NEW p \in Nat, NEW N \in Nat, p < N
    PROVE  /\ p + p \in 0 .. 2 * N /\ (p + p) + 1 \in 1 .. 2 * N
           /\ ((p + p) + 1) - 1 = p + p /\ ((p + p) + 1) % 2 = 1
           /\ (p + 1) + p \in 0 .. 2 * N /\ ((p + 1) + p) + 1 \in 1 .. 2 * N
           /\ (((p + 1) + p) + 1) - 1 = (p + 1) + p /\ (((p + 1) + p) + 1) % 2 # 1
           /\ (((p + 1) + p) + 1) \div 2 = p + 1
           /\ (p + 1) + (p + 1) = ((p + 1) + p) + 1
           /\ (p + p) + 1 = (p + 1) + p
           /\ p + 1 \in 1 .. N /\ p + 1 <= p + 1 /\ p + 1 <= (p + 1) + 1
  OBVIOUS

\* The first state.
LEMMA ClusterInit == Init => ClusterInv /\ Follows
<1> SUFFICES ASSUME Init PROVE ClusterInv /\ Follows
  OBVIOUS
<1>1. EmptyStore \in FiniteStore
  BY EmptyHolds DEF Holds
<1>2. << >> \in Seq(Block) /\ Len(<< >>) = 0
  OBVIOUS
<1>3. Shared!Execution(log)[0 + 0] = EmptyStore
  <2>1. log \in Seq(Block)
    BY <1>2 DEF Init
  <2>2. Shared!Execution(log)[0] = EmptyStore
    BY <2>1, ExecutionSteps
  <2> QED
    BY <2>2
<1>4. ClusterInv
  BY <1>1, <1>2, EmptyHolds, ReplicasAssumption DEF Init, ClusterInv
<1>5. Follows
  <2> SUFFICES ASSUME NEW n \in steady
               PROVE  applied[n] <= processed[n] + 1 /\ Reaches(store[n], applied[n], processed[n])
    BY DEF Follows
  <2>1. store[n] = EmptyStore /\ applied[n] = 0 /\ processed[n] = 0
    BY DEF Init
  <2> QED
    BY <1>3, <2>1 DEF Reaches
<1> QED
  BY <1>4, <1>5

\* A step of one node n that gives it the store s.
LEMMA OneNodeStep ==
    ASSUME ClusterInv, NEW n \in Node, NEW s, Holds(s), store' = [store EXCEPT ![n] = s]
    PROVE  /\ store' \in [Node -> FiniteStore] /\ \A m \in Node : Holds(store'[m])
           /\ store'[n] = s
           /\ \A m \in Node : m # n => store'[m] = store[m]
<1>1. s \in FiniteStore /\ store \in [Node -> FiniteStore] /\ \A m \in Node : Holds(store[m])
  BY DEF Holds, ClusterInv
<1>2. store'[n] = s /\ \A m \in Node : m # n => store'[m] = store[m]
  BY <1>1
<1>3. store' \in [Node -> FiniteStore]
  BY <1>1
<1>4. \A m \in Node : Holds(store'[m])
  BY <1>1, <1>2
<1> QED
  BY <1>2, <1>3, <1>4

\* Every step keeps the nodes' stores sound and their places in the log.
LEMMA ClusterStep == ClusterInv /\ [Next]_vars => ClusterInv'
<1> SUFFICES ASSUME ClusterInv, [Next]_vars PROVE ClusterInv'
  OBVIOUS
<1> USE ReplicasAssumption
<1>0. \A n \in Node : Holds(store[n]) /\ applied[n] \in Nat /\ processed[n] \in Nat
  BY DEF ClusterInv
<1>1. ASSUME NEW b \in Block, Commit(b) PROVE ClusterInv'
  <2>1. log' \in Seq(Block) /\ Len(log') = Len(log) + 1 /\ Len(log) \in Nat
    BY <1>1 DEF ClusterInv, Commit
  <2>2. \A n \in Node : applied[n] <= Len(log')
    BY <1>0, <2>1 DEF ClusterInv
  <2> QED
    BY <1>1, <2>1, <2>2 DEF ClusterInv, Commit
<1>2. ASSUME NEW n \in Node, Apply(n) PROVE ClusterInv'
  <2> DEFINE s == UpdatePend(store[n])
  <2>1. Holds(s) /\ store' = [store EXCEPT ![n] = s]
    BY <1>0, <1>2, HandlersHold DEF Apply
  <2> HIDE DEF s
  <2>2. store' \in [Node -> FiniteStore] /\ \A m \in Node : Holds(store'[m])
    BY <2>1, OneNodeStep
  <2>3. applied' = [applied EXCEPT ![n] = applied[n] + 1] /\ applied[n] < Len(log) /\ Len(log) \in Nat
    BY <1>2 DEF Apply, ClusterInv
  <2>4. /\ applied' \in [Node -> Nat]
        /\ \A m \in Node : applied[m] <= applied'[m] /\ applied'[m] <= Len(log)
    BY <1>0, <2>3 DEF ClusterInv
  <2>5. \A m \in Node : processed[m] <= applied'[m]
    BY <1>0, <2>4 DEF ClusterInv
  <2>6. steady' \subseteq Node /\ UNCHANGED <<log, processed, restarts>>
    BY <1>2 DEF Apply, ClusterInv
  <2> QED
    BY <2>2, <2>4, <2>5, <2>6 DEF ClusterInv
<1>3. ASSUME NEW n \in Node, Backoff(n) PROVE ClusterInv'
  <2> DEFINE s == [store[n] EXCEPT !.now = log[processed[n] + 1].time]
  <2>1. log[processed[n] + 1] \in Block
    <3>1. processed[n] + 1 \in 1 .. Len(log)
      BY <1>0, <1>3 DEF Backoff, ClusterInv
    <3> QED
      BY <3>1 DEF ClusterInv
  <2>2. Holds(s) /\ store' = [store EXCEPT ![n] = s]
    BY <1>0, <1>3, <2>1, HandlersHold DEF Backoff
  <2> HIDE DEF s
  <2>3. store' \in [Node -> FiniteStore] /\ \A m \in Node : Holds(store'[m])
    BY <2>2, OneNodeStep
  <2> QED
    BY <1>3, <2>3 DEF ClusterInv, Backoff
<1>4. ASSUME NEW n \in Node, Process(n) PROVE ClusterInv'
  <2> DEFINE s == ProcessBlock(store[n], log[processed[n] + 1])
  <2>1. log[processed[n] + 1] \in Block
    <3>1. processed[n] + 1 \in 1 .. Len(log)
      BY <1>0, <1>4 DEF Process, ClusterInv
    <3> QED
      BY <3>1 DEF ClusterInv
  <2>2. Holds(s) /\ store' = [store EXCEPT ![n] = s]
    BY <1>0, <1>4, <2>1, HandlersHold DEF Process
  <2> HIDE DEF s
  <2>3. store' \in [Node -> FiniteStore] /\ \A m \in Node : Holds(store'[m])
    BY <2>2, OneNodeStep
  <2>4. processed' = [processed EXCEPT ![n] = processed[n] + 1] /\ processed[n] < applied[n]
    BY <1>4 DEF Process
  <2>5. processed' \in [Node -> Nat] /\ \A m \in Node : processed'[m] <= applied[m]
    BY <1>0, <2>4 DEF ClusterInv
  <2> QED
    BY <1>4, <2>3, <2>5 DEF ClusterInv, Process
<1>5. ASSUME NEW n \in Node, Restart(n) PROVE ClusterInv'
  <2> DEFINE s == Reopen(store[n])
  <2>1. Holds(s) /\ store' = [store EXCEPT ![n] = s]
    BY <1>0, <1>5, HandlersHold DEF Restart
  <2> HIDE DEF s
  <2>2. store' \in [Node -> FiniteStore] /\ \A m \in Node : Holds(store'[m])
    BY <2>1, OneNodeStep
  <2>3. /\ applied' = [applied EXCEPT ![n] = 0] /\ processed' = [processed EXCEPT ![n] = 0]
        /\ log' = log /\ Len(log) \in Nat
    BY <1>5 DEF Restart, ClusterInv
  <2>4. /\ applied' \in [Node -> Nat] /\ processed' \in [Node -> Nat]
        /\ \A m \in Node : processed'[m] <= applied'[m] /\ applied'[m] <= Len(log')
    BY <1>0, <2>3 DEF ClusterInv
  <2>5. restarts' \in 0 .. MaxRestarts /\ steady' \subseteq Node
    BY <1>5 DEF Restart, ClusterInv
  <2> QED
    BY <2>2, <2>3, <2>4, <2>5 DEF ClusterInv
<1>6. CASE UNCHANGED vars
  BY <1>6 DEF ClusterInv, vars
<1> QED
  BY <1>1, <1>2, <1>3, <1>4, <1>5, <1>6 DEF Next

\* Every step takes a steady node one step of the execution further, or leaves
\* it where it is, or makes it leave.
LEMMA FollowStep == ClusterInv /\ Follows /\ [Next]_vars => Follows'
<1> SUFFICES ASSUME ClusterInv, Follows, [Next]_vars PROVE Follows'
  OBVIOUS
<1>0. \A n \in Node : /\ Holds(store[n]) /\ applied[n] \in Nat /\ processed[n] \in Nat
                      /\ processed[n] <= applied[n] /\ applied[n] <= Len(log)
                      /\ Len(log) \in Nat
  BY DEF ClusterInv
<1>1. \A n \in steady : /\ n \in Node /\ applied[n] <= processed[n] + 1
                        /\ Reaches(store[n], applied[n], processed[n])
  BY DEF Follows, ClusterInv
<1>2. ASSUME NEW n \in steady, log' = log, store'[n] = store[n], applied'[n] = applied[n],
             processed'[n] = processed[n]
      PROVE  /\ applied'[n] <= processed'[n] + 1
             /\ Reaches(store[n], applied[n], processed[n])'
  BY <1>1, <1>2 DEF Reaches
<1>3. ASSUME NEW b \in Block, Commit(b) PROVE Follows'
  <2> SUFFICES ASSUME NEW n \in steady PROVE Reaches(store[n], applied[n], processed[n])'
    BY <1>1, <1>3 DEF Follows, Commit
  <2>1. applied[n] + processed[n] \in 0 .. 2 * Len(log)
    BY <1>0, <1>1
  <2>2. log' = Append(log, b) /\ log \in Seq(Block) /\ UNCHANGED <<store, applied, processed>>
    BY <1>3 DEF Commit, ClusterInv
  <2>3. Shared!Execution(log')[applied[n] + processed[n]]
            = Shared!Execution(log)[applied[n] + processed[n]]
    BY <2>1, <2>2, ExecutionPrefix
  <2> QED
    BY <1>1, <2>2, <2>3 DEF Reaches
<1>4. ASSUME NEW n \in Node, Apply(n) PROVE Follows'
  <2>1. /\ store' = [store EXCEPT ![n] = UpdatePend(store[n])]
        /\ applied' = [applied EXCEPT ![n] = applied[n] + 1]
        /\ steady' = {m \in steady : applied'[m] - processed[m] <= 1}
        /\ applied[n] < Len(log)
        /\ log' = log /\ processed' = processed
    BY <1>4 DEF Apply
  <2>2. store \in [Node -> FiniteStore] /\ applied \in [Node -> Nat]
    BY DEF ClusterInv
  <2> SUFFICES ASSUME NEW m \in steady'
               PROVE  /\ applied'[m] <= processed'[m] + 1
                      /\ Reaches(store[m], applied[m], processed[m])'
    BY DEF Follows
  <2>3. m \in steady /\ m \in Node /\ applied'[m] - processed[m] <= 1
    BY <1>1, <2>1
  <2>4. CASE m # n
    BY <1>2, <2>1, <2>2, <2>3, <2>4
  <2>5. CASE m = n
    <3> DEFINE s == store[n]
               k == applied[n] + processed[n]
               e == Shared!Execution(log)[k]
    <3>1. applied'[n] = applied[n] + 1 /\ store'[n] = UpdatePend(s) /\ applied[n] = processed[n]
      BY <1>0, <2>1, <2>2, <2>3, <2>5
    <3>2. s.db = e.db /\ s.pend = e.pend /\ s.now = e.now
      BY <1>1, <2>3, <2>5, <3>1 DEF Reaches
    <3>3. /\ k \in 0 .. 2 * Len(log) /\ k + 1 \in 1 .. 2 * Len(log)
          /\ (k + 1) - 1 = k /\ (k + 1) % 2 = 1
      BY <1>0, <2>1, <3>1, Places
    <3>4. e \in FiniteStore /\ Shared!Execution(log)[k + 1] = UpdatePend(e)
      BY <3>3, ExecutionSteps DEF ClusterInv, Stage
    <3>5. s \in FiniteStore
      BY <1>0 DEF Holds
    <3> HIDE DEF s, e
    <3>6. Alike(UpdatePend(s), UpdatePend(e))
      BY <3>2, <3>4, <3>5, UpdatePendAlike DEF Alike
    <3>7. applied'[n] + processed'[n] = k + 1 /\ applied'[n] <= processed'[n] + 1
      BY <1>0, <2>1, <3>1
    <3> HIDE DEF k
    <3> QED
      BY <2>1, <2>5, <3>1, <3>4, <3>6, <3>7 DEF Reaches, Alike
  <2> QED
    BY <2>4, <2>5
<1>5. ASSUME NEW n \in Node, Backoff(n) PROVE Follows'
  <2>1. /\ store' = [store EXCEPT ![n] = [store[n] EXCEPT !.now = log[processed[n] + 1].time]]
        /\ processed[n] < applied[n]
        /\ UNCHANGED <<log, applied, processed, steady>>
        /\ store \in [Node -> FiniteStore]
    BY <1>5 DEF Backoff, ClusterInv
  <2> SUFFICES ASSUME NEW m \in steady
               PROVE  /\ applied'[m] <= processed'[m] + 1
                      /\ Reaches(store[m], applied[m], processed[m])'
    BY <2>1 DEF Follows
  <2>2. m \in Node
    BY <1>1
  <2>3. CASE m # n
    BY <1>2, <2>1, <2>2, <2>3
  <2>4. CASE m = n
    <3>1. store'[n].db = store[n].db /\ store'[n].pend = store[n].pend
      <4>1. store[n] \in Store
        BY <1>0 DEF Holds, FiniteStore
      <4> QED
        BY <2>1, <4>1 DEF Store
    <3>2. processed[n] # applied[n]
      BY <1>0, <2>1
    <3> QED
      BY <1>1, <2>1, <2>4, <3>1, <3>2 DEF Reaches
  <2> QED
    BY <2>3, <2>4
<1>6. ASSUME NEW n \in Node, Process(n) PROVE Follows'
  <2>1. /\ store' = [store EXCEPT ![n] = ProcessBlock(store[n], log[processed[n] + 1])]
        /\ processed' = [processed EXCEPT ![n] = processed[n] + 1]
        /\ processed[n] < applied[n]
        /\ UNCHANGED <<log, applied, steady>>
    BY <1>6 DEF Process
  <2>2. store \in [Node -> FiniteStore] /\ processed \in [Node -> Nat]
    BY DEF ClusterInv
  <2> SUFFICES ASSUME NEW m \in steady
               PROVE  /\ applied'[m] <= processed'[m] + 1
                      /\ Reaches(store[m], applied[m], processed[m])'
    BY <2>1 DEF Follows
  <2>3. m \in Node
    BY <1>1
  <2>4. CASE m # n
    BY <1>2, <2>1, <2>2, <2>3, <2>4
  <2>5. CASE m = n
    <3> DEFINE s == store[n]
               k == applied[n] + processed[n]
               e == Shared!Execution(log)[k]
               b == log[processed[n] + 1]
    <3>1. /\ processed'[n] = processed[n] + 1 /\ store'[n] = ProcessBlock(s, b)
          /\ applied[n] = processed[n] + 1
      BY <1>0, <1>1, <2>1, <2>2, <2>5
    <3>2. s.db = e.db /\ s.pend = e.pend
      BY <1>1, <2>5 DEF Reaches
    <3>3. /\ k \in 0 .. 2 * Len(log) /\ k + 1 \in 1 .. 2 * Len(log)
          /\ (k + 1) - 1 = k /\ (k + 1) % 2 # 1 /\ (k + 1) \div 2 = processed[n] + 1
          /\ processed[n] + 1 \in 1 .. Len(log)
      <4>1. /\ processed[n] \in Nat /\ Len(log) \in Nat /\ processed[n] < Len(log)
            /\ k = (processed[n] + 1) + processed[n]
        BY <1>0, <2>1, <3>1
      <4> HIDE DEF k
      <4> QED
        BY <4>1, Places
    <3>4. b \in Block
      <4>1. log \in Seq(Block)
        BY DEF ClusterInv
      <4> QED
        BY <3>3, <4>1
    <3>5. e \in FiniteStore /\ Shared!Execution(log)[k + 1] = Shared!Execute(e, b)
      BY <3>3, ExecutionSteps DEF ClusterInv, Stage
    <3>6. s \in FiniteStore
      BY <1>0 DEF Holds
    <3> HIDE DEF s, e, b
    <3>7. Alike(ProcessBlock(s, b), Shared!Execute(e, b))
      BY <3>2, <3>4, <3>5, <3>6, ExecuteAlike
    <3>8. applied'[n] + processed'[n] = k + 1 /\ applied'[n] <= processed'[n] + 1
      BY <1>0, <2>1, <3>1, Places
    <3> HIDE DEF k
    <3> QED
      BY <2>1, <2>5, <3>1, <3>5, <3>7, <3>8 DEF Reaches, Alike
  <2> QED
    BY <2>4, <2>5
<1>7. ASSUME NEW n \in Node, Restart(n) PROVE Follows'
  <2>1. /\ \E s : store' = [store EXCEPT ![n] = s]
        /\ applied' = [applied EXCEPT ![n] = 0]
        /\ processed' = [processed EXCEPT ![n] = 0]
        /\ steady' = steady \ {n}
        /\ log' = log
    BY <1>7 DEF Restart
  <2>2. store \in [Node -> FiniteStore] /\ processed \in [Node -> Nat] /\ applied \in [Node -> Nat]
    BY DEF ClusterInv
  <2> SUFFICES ASSUME NEW m \in steady \ {n}
               PROVE  /\ applied'[m] <= processed'[m] + 1
                      /\ Reaches(store[m], applied[m], processed[m])'
    BY <2>1 DEF Follows
  <2>3. m \in Node /\ m # n
    BY <1>1
  <2> QED
    BY <1>2, <2>1, <2>2, <2>3
<1>8. CASE UNCHANGED vars
  BY <1>1, <1>2, <1>8 DEF vars, Follows
<1> QED
  BY <1>3, <1>4, <1>5, <1>6, <1>7, <1>8 DEF Next
-----------------------------------------------------------------------------
(***************************************************************************)
(* The theorems.                                                           *)
(***************************************************************************)

\* Every reachable state has both.
LEMMA ClusterInvariant == Spec => [](ClusterInv /\ Follows)
  BY ClusterInit, ClusterStep, FollowStep, PTL DEF Spec

\* Every node's databases hold transactions, its time is a block's, and nobody
\* is ahead of the log or of itself, whatever the nodes, the transactions, the
\* pace of the threads and the restarts.
THEOREM ReplicaTypes == Spec => []TypeOK
<1>1. ClusterInv => TypeOK
  <2> SUFFICES ASSUME ClusterInv PROVE TypeOK
    OBVIOUS
  <2>1. ASSUME NEW n \in Node
        PROVE  /\ store[n].now \in 0 .. MaxTime
               /\ DOMAIN store[n].db \subseteq Txn
               /\ DOMAIN store[n].pend \subseteq Txn
               /\ store[n].mempool \union store[n].invalid \subseteq Txn
    <3>1. store[n] \in Store /\ store[n].now \in 0 .. MaxTime
      BY DEF ClusterInv, Holds, FiniteStore
    <3>2. store[n].db \in Wrappers /\ store[n].pend \in Stamps
      BY <3>1 DEF Store
    <3> QED
      BY <3>1, <3>2, WrappersElim, StampsElim DEF Store
  <2> QED
    BY <2>1 DEF TypeOK, ClusterInv
<1> QED
  BY <1>1, ClusterInvariant, PTL

\* Two nodes that process each block before they apply the next, and have come
\* equally far, hold the same transactions with the same timestamps and flags.
\* They need not have gone through the same states: update_pend may have taken
\* the pending transactions in different orders.
THEOREM ReplicasAgree == Spec => []Agreement
<1>1. ClusterInv /\ Follows => Agreement
  BY DEF ClusterInv, Follows, Reaches, Agreement
<1> QED
  BY <1>1, ClusterInvariant, PTL

-----------------------------------------------------------------------------
(***************************************************************************)
(* The steps of the cluster as steps of the one ledger.                    *)
(***************************************************************************)

\* The first state is the ledger's.
LEMMA LedgerInit == Init => Shared!Init
<1> SUFFICES ASSUME Init PROVE Shared!Init
  OBVIOUS
<1>1. [n \in steady |-> applied[n] + processed[n]] = [n \in Node |-> 0]
  BY DEF Init
<1>2. [n \in steady |-> [db |-> store[n].db, pend |-> store[n].pend]]
          = [n \in Node |-> Shared!Databases(Shared!EmptyStore)]
  BY SharedBegins DEF Init, Shared!Databases
<1> QED
  BY <1>1, <1>2 DEF Init, Shared!Init

\* What the ledger does not see.
LEMMA Unseen ==
    ASSUME log' = log, steady' = steady,
           \A m \in steady : /\ applied'[m] + processed'[m] = applied[m] + processed[m]
                             /\ store'[m].db = store[m].db /\ store'[m].pend = store[m].pend
    PROVE  UNCHANGED Shared!vars
  BY DEF Shared!vars

\* A node that was steady and is no longer stops following.
LEMMA Leaves ==
    ASSUME NEW n \in steady, log' = log, steady' = steady \ {n},
           \A m \in steady \ {n} :
               /\ applied'[m] + processed'[m] = applied[m] + processed[m]
               /\ store'[m].db = store[m].db /\ store'[m].pend = store[m].pend
    PROVE  Shared!Leave(n)
  BY DEF Shared!Leave

\* A node that takes a step of the execution follows it.
LEMMA Advances ==
    ASSUME NEW n \in steady, log' = log, steady' = steady,
           \A m \in steady \ {n} :
               /\ applied'[m] + processed'[m] = applied[m] + processed[m]
               /\ store'[m].db = store[m].db /\ store'[m].pend = store[m].pend,
           applied[n] + processed[n] < 2 * Len(log),
           applied'[n] + processed'[n] = applied[n] + processed[n] + 1,
           Reaches(store'[n], applied'[n], processed'[n])
    PROVE  Shared!Advance(n)
<1> DEFINE e == Shared!Execution(log)[applied[n] + processed[n] + 1]
           At == [m \in steady |-> applied[m] + processed[m]]
           Seen == [m \in steady |-> [db |-> store[m].db, pend |-> store[m].pend]]
           AtNext == [m \in steady' |-> applied'[m] + processed'[m]]
           SeenNext == [m \in steady' |-> [db |-> store'[m].db, pend |-> store'[m].pend]]
<1>1. store'[n].db = e.db /\ store'[n].pend = e.pend
  BY DEF Reaches
<1> HIDE DEF e
<1>2. AtNext = [At EXCEPT ![n] = At[n] + 1] /\ At[n] = applied[n] + processed[n]
  OBVIOUS
<1>3. SeenNext = [Seen EXCEPT ![n] = [db |-> e.db, pend |-> e.pend]]
  BY <1>1
<1> QED
  BY <1>2, <1>3 DEF e, Shared!Advance, Shared!Databases

\* Every step of the cluster is a step of the ledger or is not seen.
LEMMA LedgerStep ==
    ClusterInv /\ Follows /\ Follows' /\ [Next]_vars => [Shared!Next]_(Shared!vars)
<1> SUFFICES ASSUME ClusterInv, Follows, Follows', [Next]_vars
             PROVE  Shared!Next \/ UNCHANGED Shared!vars
  BY DEF Shared!vars
<1>0. \A n \in Node : /\ applied[n] \in Nat /\ processed[n] \in Nat /\ Len(log) \in Nat
                      /\ processed[n] <= applied[n] /\ applied[n] <= Len(log)
                      /\ store[n] \in Store
  BY DEF ClusterInv, Holds, FiniteStore
<1>1. \A n \in steady : n \in Node /\ applied[n] <= processed[n] + 1
  BY DEF Follows, ClusterInv
<1>2. \A n \in steady' : Reaches(store[n], applied[n], processed[n])'
  BY DEF Follows
<1>3. ASSUME NEW b \in Block, Commit(b) PROVE Shared!Extend
  BY <1>3, SharedBegins DEF Commit, Shared!Extend
<1>4. ASSUME NEW n \in Node, Apply(n) PROVE Shared!Next \/ UNCHANGED Shared!vars
  <2>1. /\ \E s : store' = [store EXCEPT ![n] = s]
        /\ applied' = [applied EXCEPT ![n] = applied[n] + 1]
        /\ steady' = {m \in steady : applied'[m] - processed[m] <= 1}
        /\ applied[n] < Len(log)
        /\ log' = log /\ processed' = processed
        /\ applied \in [Node -> Nat] /\ store \in [Node -> FiniteStore]
    BY <1>4 DEF Apply, ClusterInv
  <2>2. \A m \in steady \ {n} : /\ store'[m] = store[m] /\ applied'[m] = applied[m]
                                /\ processed'[m] = processed[m] /\ m \in steady'
    BY <1>0, <1>1, <2>1
  <2>3. CASE n \notin steady
    BY <2>1, <2>2, <2>3, Unseen
  <2>4. CASE n \in steady /\ n \notin steady'
    <3>1. steady' = steady \ {n}
      BY <2>1, <2>2, <2>4
    <3> QED
      BY <2>1, <2>2, <2>4, <3>1, Leaves DEF Shared!Next
  <2>5. CASE n \in steady /\ n \in steady'
    <3>1. steady' = steady
      BY <2>1, <2>2, <2>5
    <3>2. /\ applied[n] + processed[n] < 2 * Len(log)
          /\ applied'[n] + processed'[n] = applied[n] + processed[n] + 1
      BY <1>0, <2>1
    <3>3. Reaches(store'[n], applied'[n], processed'[n])
      BY <1>2, <2>1, <2>5 DEF Reaches
    <3> QED
      BY <2>1, <2>2, <2>5, <3>1, <3>2, <3>3, Advances DEF Shared!Next
  <2> QED
    BY <2>3, <2>4, <2>5
<1>5. ASSUME NEW n \in Node, Backoff(n) PROVE UNCHANGED Shared!vars
  <2>1. /\ store' = [store EXCEPT ![n] = [store[n] EXCEPT !.now = log[processed[n] + 1].time]]
        /\ UNCHANGED <<log, applied, processed, steady>>
        /\ store \in [Node -> FiniteStore]
    BY <1>5 DEF Backoff, ClusterInv
  <2>2. store'[n].db = store[n].db /\ store'[n].pend = store[n].pend
    BY <1>0, <2>1 DEF Store
  <2>3. \A m \in steady : store'[m].db = store[m].db /\ store'[m].pend = store[m].pend
    BY <1>1, <2>1, <2>2
  <2> QED
    BY <2>1, <2>3, Unseen
<1>6. ASSUME NEW n \in Node, Process(n) PROVE Shared!Next \/ UNCHANGED Shared!vars
  <2>1. /\ \E s : store' = [store EXCEPT ![n] = s]
        /\ processed' = [processed EXCEPT ![n] = processed[n] + 1]
        /\ processed[n] < applied[n]
        /\ UNCHANGED <<log, applied, steady>>
        /\ processed \in [Node -> Nat] /\ store \in [Node -> FiniteStore]
    BY <1>6 DEF Process, ClusterInv
  <2>2. \A m \in steady \ {n} : /\ store'[m] = store[m] /\ applied'[m] = applied[m]
                                /\ processed'[m] = processed[m]
    BY <1>1, <2>1
  <2>3. CASE n \notin steady
    BY <2>1, <2>2, <2>3, Unseen
  <2>4. CASE n \in steady
    <3>1. /\ applied[n] + processed[n] < 2 * Len(log)
          /\ applied'[n] + processed'[n] = applied[n] + processed[n] + 1
      <4>1. applied'[n] = applied[n] /\ processed'[n] = processed[n] + 1
        BY <2>1
      <4>2. /\ applied[n] \in Nat /\ processed[n] \in Nat /\ Len(log) \in Nat
            /\ processed[n] < applied[n] /\ applied[n] <= Len(log)
        BY <1>0, <2>1
      <4>3. \A i, j, l \in Nat : j < i /\ i <= l => i + j < 2 * l /\ i + (j + 1) = i + j + 1
        OBVIOUS
      <4> QED
        BY <4>1, <4>2, <4>3
    <3>2. Reaches(store'[n], applied'[n], processed'[n])
      BY <1>2, <2>1, <2>4 DEF Reaches
    <3> QED
      BY <2>1, <2>2, <2>4, <3>1, <3>2, Advances DEF Shared!Next
  <2> QED
    BY <2>3, <2>4
<1>7. ASSUME NEW n \in Node, Restart(n) PROVE Shared!Next \/ UNCHANGED Shared!vars
  <2>1. /\ \E s : store' = [store EXCEPT ![n] = s]
        /\ applied' = [applied EXCEPT ![n] = 0]
        /\ processed' = [processed EXCEPT ![n] = 0]
        /\ steady' = steady \ {n}
        /\ log' = log
    BY <1>7 DEF Restart
  <2>2. /\ store \in [Node -> FiniteStore] /\ processed \in [Node -> Nat]
        /\ applied \in [Node -> Nat]
    BY DEF ClusterInv
  <2>3. \A m \in steady \ {n} : /\ store'[m] = store[m] /\ applied'[m] = applied[m]
                                /\ processed'[m] = processed[m]
    BY <1>1, <2>1, <2>2
  <2>4. CASE n \in steady
    BY <2>1, <2>3, <2>4, Leaves DEF Shared!Next
  <2>5. CASE n \notin steady
    <3>1. steady' = steady
      BY <2>1, <2>5
    <3> QED
      BY <2>1, <2>3, <2>5, <3>1, Unseen
  <2> QED
    BY <2>4, <2>5
<1>8. CASE UNCHANGED vars
  <2>1. /\ log' = log /\ steady' = steady /\ store' = store
        /\ applied' = applied /\ processed' = processed
    BY <1>8 DEF vars
  <2> QED
    BY <2>1, Unseen
<1> QED
  BY <1>3, <1>4, <1>5, <1>6, <1>7, <1>8 DEF Next, Shared!Next

\* The nodes that process each block before they apply the next are
\* indistinguishable from readers of one ledger, which executes the log once,
\* in order: the refinement of SharedLedger.
THEOREM FollowsOneLedger == Spec => OneLedger
<1>1. Init => Shared!Init
  BY LedgerInit
<1>2. ClusterInv /\ Follows /\ ClusterInv' /\ Follows' /\ [Next]_vars
          => [Shared!Next]_(Shared!vars)
  BY LedgerStep
<1> QED
  BY <1>1, <1>2, ClusterInvariant, PTL DEF Spec, OneLedger, Shared!Spec

-----------------------------------------------------------------------------
(***************************************************************************)
(* What a node remembers of the blocks it has processed.                   *)
(***************************************************************************)
Known(s) == Accepted(s) \union s.invalid

\* s has an answer about t: it knows t, or a newer version of it.
Answers(s, t) ==
    \/ t \in Known(s)
    \/ \E q \in Known(s) : Inputs[q] = Inputs[t] /\ SeqNo[q] > SeqNo[t]

Remembers(s, b) == \A t \in Txn : Answers(s, t) => Answers(b, t)

\* A change that gives up a transaction only for a newer version of it forgets
\* no answer.
LEMMA RememberAll ==
    ASSUME NEW s \in Store, NEW b \in Store, \A p \in Known(s) : Answers(b, p)
    PROVE  Remembers(s, b)
<1> SUFFICES ASSUME NEW t \in Txn, Answers(s, t) PROVE Answers(b, t)
  BY DEF Remembers
<1>1. \A x \in {s, b} : Known(x) \subseteq Txn
  BY WrappersElim, StampsElim DEF Known, Accepted, Store
<1>2. CASE t \in Known(s)
  BY <1>2
<1>3. CASE t \notin Known(s)
  <2>1. PICK q \in Known(s) : Inputs[q] = Inputs[t] /\ SeqNo[q] > SeqNo[t]
    BY <1>3 DEF Answers
  <2>2. q \in Txn /\ Answers(b, q)
    BY <1>1
  <2>3. CASE q \in Known(b)
    BY <2>1, <2>3 DEF Answers
  <2>4. CASE q \notin Known(b)
    <3>1. PICK r \in Known(b) : Inputs[r] = Inputs[q] /\ SeqNo[r] > SeqNo[q]
      BY <2>2, <2>4 DEF Answers
    <3>2. r \in Txn
      BY <1>1
    <3>3. SeqNo[t] \in Nat /\ SeqNo[q] \in Nat /\ SeqNo[r] \in Nat
      BY <2>2, <3>2, TxnAssumption
    <3>4. SeqNo[r] > SeqNo[t] /\ Inputs[r] = Inputs[t]
      BY <2>1, <3>1, <3>3
    <3> QED
      BY <3>4 DEF Answers
  <2> QED
    BY <2>3, <2>4
<1> QED
  BY <1>2, <1>3

\* Accepting a transaction calls no other one invalid, and forgets no verdict.
LEMMA InvalidKept ==
    ASSUME NEW s \in Store, NEW t
    PROVE  /\ Accept(s, t).invalid = s.invalid
           /\ \A ts : WriteTxnToDb(s, t, ts).invalid = s.invalid
           /\ Reject(s, t).db = s.db
           /\ s.invalid \subseteq Reject(s, t).invalid
           /\ t \in DOMAIN s.db \union Reject(s, t).invalid
<1>1. DropReplaced(s, t) \in Store /\ DropReplaced(s, t).invalid = s.invalid
  <2>1. DropReplaced(s, t).invalid = s.invalid
    BY DelFields DEF DropReplaced
  <2> QED
    BY <2>1, DropReplacedFields
<1>2. ASSUME NEW v \in Store, NEW ts
      PROVE  WriteTxnToDb(v, t, ts).invalid = v.invalid /\ WriteTxnToPend(v, t, ts).invalid = v.invalid
  <2>1. Spend(v, Inputs[t]) \in Store /\ Spend(v, Inputs[t]).invalid = v.invalid
    BY SpendFields, SpendStore
  <2>2. PutInDb(Spend(v, Inputs[t]), t, ts).invalid = Spend(v, Inputs[t]).invalid
    BY <2>1 DEF PutInDb, Store
  <2>3. Spend(PutInPend(v, t, ts), Inputs[t]).invalid = v.invalid
    BY DEF Spend, PutInPend, Store
  <2> QED
    BY <2>1, <2>2, <2>3 DEF WriteTxnToDb, WriteTxnToPend
<1>3. Accept(s, t).invalid = s.invalid
  BY <1>1, <1>2 DEF Accept
<1>4. /\ Reject(s, t).db = s.db
      /\ s.invalid \subseteq Reject(s, t).invalid
      /\ t \in DOMAIN s.db \union Reject(s, t).invalid
  BY DEF Reject, Store
<1> QED
  BY <1>2, <1>3, <1>4

\* process_block's turn forgets nothing, and has an answer about its transaction.
LEMMA ProcessRemembers ==
    ASSUME NEW s, Sound(s), NEW t \in Txn \ Genesis
    PROVE  Remembers(s, ProcessTxn(s, t)) /\ Answers(ProcessTxn(s, t), t)
<1> DEFINE b == ProcessTxn(s, t)
<1>1. s \in Store /\ b \in Store /\ DOMAIN s.db \subseteq DOMAIN b.db
  BY ProcessEffect DEF Sound, Keeps
<1>2. s.invalid \subseteq b.invalid /\ t \in Known(b)
  <2>1. CASE VerifyTxn(s, t, TRUE)
    <3> DEFINE a == Accept(s, t)
    <3>1. t \in Txn \ DOMAIN s.db
      BY <2>1 DEF VerifyTxn
    <3>2. a \in Store /\ a.invalid = s.invalid
      BY <1>1, <3>1, AcceptFields, InvalidKept
    <3>3. t \in DOMAIN a.db \union DOMAIN a.pend
      <4>1. CASE Timelock[t] > 0
        <5>1. DOMAIN a.pend = (DOMAIN s.pend \ Replaced(s, t)) \union {t}
          BY <1>1, <3>1, <4>1, AcceptFields
        <5> QED
          BY <5>1
      <4>2. CASE ~(Timelock[t] > 0)
        <5>1. DOMAIN a.db = DOMAIN s.db \union {t}
          BY <1>1, <3>1, <4>2, AcceptFields
        <5> QED
          BY <5>1
      <4> QED
        BY <4>1, <4>2
    <3>4. b = RemoveFromMempool(a, t)
      BY <2>1 DEF ProcessTxn
    <3> HIDE DEF a, b
    <3>5. b.invalid = a.invalid /\ b.db = a.db /\ b.pend = a.pend
      BY <3>2, <3>4, RemoveFields
    <3> QED
      BY <3>2, <3>3, <3>5 DEF Known, Accepted
  <2>2. CASE ~VerifyTxn(s, t, TRUE)
    <3>1. b = Reject(s, t)
      BY <2>2 DEF ProcessTxn
    <3> HIDE DEF b
    <3>2. b.db = s.db /\ s.invalid \subseteq b.invalid /\ t \in DOMAIN s.db \union b.invalid
      BY <1>1, <3>1, InvalidKept
    <3> QED
      BY <3>2 DEF Known, Accepted
  <2> QED
    BY <2>1, <2>2
<1>3. ASSUME NEW p \in Known(s) PROVE Answers(b, p)
  <2>1. CASE p \in Known(b)
    BY <2>1 DEF Answers
  <2>2. CASE p \notin Known(b)
    <3>1. p \in DOMAIN s.pend \ DOMAIN b.pend
      BY <1>1, <1>2, <2>2 DEF Known, Accepted
    <3>2. Inputs[t] = Inputs[p] /\ SeqNo[t] > SeqNo[p]
      BY <3>1, ProcessDisplaces
    <3> HIDE DEF b
    <3> QED
      BY <1>2, <3>2 DEF Answers
  <2> QED
    BY <2>1, <2>2
<1> HIDE DEF b
<1>4. Remembers(s, b) /\ Answers(b, t)
  BY <1>1, <1>2, <1>3, RememberAll DEF Answers
<1> QED
  BY <1>4 DEF b

\* Nor does update_pend's turn: what cannot be stored is called invalid.
LEMMA MatureRemembers ==
    ASSUME NEW s \in Store, NEW p \in Txn, NEW ts \in Nat
    PROVE  Remembers(s, MatureTxn(s, p, ts))
<1> DEFINE b == MatureTxn(s, p, ts)
           d == DelFromPending(s, p)
<1>1. /\ b \in Store /\ DOMAIN s.pend \ {p} \subseteq DOMAIN b.pend
      /\ d \in Store /\ d.db = s.db /\ d.invalid = s.invalid
  BY MatureEffect, DelStore, DelFields
<1>2. CASE ~LockExpired(s, p, ts)
  BY <1>2 DEF MatureTxn, Remembers
<1>3. CASE LockExpired(s, p, ts)
  <2>1. DOMAIN s.db \subseteq DOMAIN b.db /\ s.invalid \subseteq b.invalid /\ p \in DOMAIN b.db \union b.invalid
    <3>1. CASE VerifyTxn(d, p, FALSE)
      <4>1. b = WriteTxnToDb(d, p, ts) /\ p \in Txn \ DOMAIN d.db
        BY <1>3, <3>1 DEF MatureTxn, VerifyTxn
      <4> HIDE DEF b, d
      <4>2. DOMAIN b.db = DOMAIN d.db \union {p} /\ b.invalid = d.invalid
        <5>1. DOMAIN b.db = DOMAIN d.db \union {p}
          BY <1>1, <4>1, WriteFields
        <5>2. b.invalid = d.invalid
          BY <1>1, <4>1, InvalidKept
        <5> QED
          BY <5>1, <5>2
      <4> QED
        BY <1>1, <4>2
    <3>2. CASE ~VerifyTxn(d, p, FALSE)
      <4>1. b = Reject(d, p)
        BY <1>3, <3>2 DEF MatureTxn
      <4> HIDE DEF b, d
      <4>2. b.db = d.db /\ d.invalid \subseteq b.invalid /\ p \in DOMAIN d.db \union b.invalid
        BY <1>1, <4>1, InvalidKept
      <4> QED
        BY <1>1, <4>2
    <3> QED
      BY <3>1, <3>2
  <2> HIDE DEF b, d
  <2>2. \A q \in Known(s) : Answers(b, q)
    BY <1>1, <2>1 DEF Known, Accepted, Answers
  <2>3. Remembers(s, b)
    BY <1>1, <2>2, RememberAll
  <2> QED
    BY <2>3 DEF b
<1> QED
  BY <1>2, <1>3

\* Nor update_pend as a whole.
LEMMA UpdatePendRemembers ==
    ASSUME NEW s \in FiniteStore PROVE Remembers(s, UpdatePend(s))
<1> DEFINE S == DOMAIN s.pend
<1>1. PICK acc : IsSweep(acc, s) /\ UpdatePend(s) = acc[S]
  BY UpdatePendSweeps
<1>2. IsFiniteSet(S) /\ s \in Store /\ \A x \in S : x \in Txn /\ s.pend[x] \in Nat
  BY StampsElim DEF FiniteStore, Store
<1> DEFINE G == {U \in SUBSET S : Remembers(s, acc[U])}
<1>3. ASSUME NEW U \in SUBSET S, \A V \in SUBSET U : V # U => V \in G
      PROVE  U \in G
  <2>1. CASE U = {}
    BY <1>1, <2>1 DEF IsSweep, Remembers
  <2>2. CASE U # {}
    <3> DEFINE p == First(U)
               a == acc[U \ {p}]
               b == acc[U]
    <3>1. p \in U /\ p \in S
      BY <2>2 DEF First
    <3>2. Remembers(s, a)
      BY <1>3, <3>1
    <3>3. b = MatureTxn(a, p, s.pend[p]) /\ a \in Store
      BY <1>1, <2>2 DEF IsSweep
    <3> HIDE DEF p, a, b
    <3>4. Remembers(a, b)
      BY <1>2, <3>1, <3>3, MatureRemembers
    <3>5. Remembers(s, b)
      BY <3>2, <3>4 DEF Remembers
    <3> QED
      BY <3>5 DEF b
  <2> QED
    BY <2>1, <2>2
<1>4. G \in SUBSET SUBSET S
  OBVIOUS
<1>5. G = SUBSET S
  <2> HIDE DEF G, S
  <2> QED
    BY <1>2, <1>3, <1>4, SubsetInduction
<1> QED
  BY <1>1, <1>5

\* Neither does process_block, and it has an answer about each of its list.
LEMMA TurnsRemember ==
    ASSUME NEW s, Sound(s), NEW list \in Seq(Txn \ Genesis), NEW f, IsTurns(f, s, list)
    PROVE  /\ Remembers(s, f[Len(list)])
           /\ \A t \in Range(list) : Answers(f[Len(list)], t)
<1> DEFINE n == Len(list)
           Good(k) == /\ Sound(f[k]) /\ Remembers(s, f[k])
                      /\ \A i \in 1 .. k : Answers(f[k], list[i])
           G == {k \in Nat : k <= n => Good(k)}
<1>1. 0 \in G
  BY DEF IsTurns, Remembers
<1>2. ASSUME NEW k \in G PROVE k + 1 \in G
  <2> SUFFICES ASSUME k + 1 <= n PROVE Good(k + 1)
    OBVIOUS
  <2>1. k + 1 \in 1 .. n /\ (k + 1) - 1 = k /\ k \in 0 .. n /\ Good(k)
    BY <1>2
  <2>2. /\ f[k + 1] = ProcessTxn(f[k], list[k + 1]) /\ list[k + 1] \in Txn \ Genesis
        /\ \A i \in 1 .. k : list[i] \in Txn
    BY <2>1 DEF IsTurns
  <2>3. Sound(f[k + 1])
    BY <2>1, <2>2, ProcessSound
  <2>4. Remembers(f[k], f[k + 1]) /\ Answers(f[k + 1], list[k + 1])
    BY <2>1, <2>2, ProcessRemembers
  <2>5. Remembers(s, f[k + 1])
    BY <2>1, <2>4 DEF Remembers
  <2>6. \A i \in 1 .. k : Answers(f[k + 1], list[i])
    BY <2>1, <2>2, <2>4 DEF Remembers
  <2>7. \A i \in 1 .. k + 1 : i \in 1 .. k \/ i = k + 1
    OBVIOUS
  <2> QED
    BY <2>3, <2>4, <2>5, <2>6, <2>7
<1>3. G \in SUBSET Nat /\ n \in Nat
  OBVIOUS
<1>4. G = Nat
  <2> HIDE DEF G
  <2> QED
    BY <1>1, <1>2, <1>3, NatSetInduction
<1>5. Good(n)
  <2> HIDE DEF Good
  <2> QED
    BY <1>3, <1>4
<1>6. \A t \in Range(list) : \E i \in 1 .. n : t = list[i]
  BY DEF Range
<1> QED
  BY <1>5, <1>6

\* What a steady node has processed, it can answer for.
Remembered ==
    \A n \in steady : \A i \in 1 .. processed[n] : \A t \in Range(log[i].txns) :
        Answers(store[n], t)

\* Every step of the cluster keeps the answers.
LEMMA RememberedStep == ClusterInv /\ Remembered /\ [Next]_vars => Remembered'
<1> SUFFICES ASSUME ClusterInv, Remembered, [Next]_vars PROVE Remembered'
  OBVIOUS
<1>0. /\ log \in Seq(Block) /\ Len(log) \in Nat /\ steady \subseteq Node
      /\ \A n \in Node : /\ store[n] \in FiniteStore /\ store[n] \in Store /\ Sound(store[n])
                         /\ applied[n] \in Nat /\ processed[n] \in Nat
                         /\ processed[n] <= applied[n] /\ applied[n] <= Len(log)
  BY DEF ClusterInv, Holds, FiniteStore
<1>1. ASSUME log' = log, processed' = processed, steady' \subseteq steady,
             \A n \in steady' : Remembers(store[n], store'[n])
      PROVE  Remembered'
  <2> SUFFICES ASSUME NEW n \in steady', NEW i \in 1 .. processed[n], NEW t \in Range(log[i].txns)
               PROVE  Answers(store'[n], t)
    BY <1>1 DEF Remembered
  <2>1. n \in steady /\ Answers(store[n], t)
    BY <1>1 DEF Remembered
  <2>2. i \in 1 .. Len(log)
    BY <1>0, <2>1
  <2>3. log[i] \in Block
    BY <1>0, <2>2
  <2>4. t \in Txn
    BY <2>3, BlockFields
  <2> QED
    BY <1>1, <2>1, <2>4 DEF Remembers
<1>2. ASSUME NEW b \in Block, Commit(b) PROVE Remembered'
  <2>1. /\ log' = Append(log, b) /\ UNCHANGED <<store, processed, steady>>
    BY <1>2 DEF Commit
  <2>2. \A n \in steady : \A i \in 1 .. processed[n] : log'[i] = log[i]
    BY <1>0, <2>1
  <2> QED
    BY <2>1, <2>2 DEF Remembered
<1>3. ASSUME NEW n \in Node, Apply(n) PROVE Remembered'
  <2>1. /\ store' = [store EXCEPT ![n] = UpdatePend(store[n])]
        /\ steady' \subseteq steady /\ log' = log /\ processed' = processed
        /\ store \in [Node -> FiniteStore]
    BY <1>3 DEF Apply, ClusterInv
  <2>2. Remembers(store[n], UpdatePend(store[n]))
    BY <1>0, UpdatePendRemembers
  <2>3. \A m \in steady' : Remembers(store[m], store'[m])
    <3> SUFFICES ASSUME NEW m \in steady' PROVE Remembers(store[m], store'[m])
      OBVIOUS
    <3>1. CASE m = n
      BY <2>1, <2>2, <3>1
    <3>2. CASE m # n
      <4>1. store'[m] = store[m]
        BY <1>0, <2>1, <3>2
      <4> QED
        BY <4>1 DEF Remembers
    <3> QED
      BY <3>1, <3>2
  <2> QED
    BY <1>1, <2>1, <2>3
<1>4. ASSUME NEW n \in Node, Backoff(n) PROVE Remembered'
  <2>1. /\ store' = [store EXCEPT ![n] = [store[n] EXCEPT !.now = log[processed[n] + 1].time]]
        /\ UNCHANGED <<log, processed, steady>>
        /\ store \in [Node -> FiniteStore]
    BY <1>4 DEF Backoff, ClusterInv
  <2>2. \A m \in steady : /\ store'[m].db = store[m].db /\ store'[m].pend = store[m].pend
                          /\ store'[m].invalid = store[m].invalid
    BY <1>0, <2>1 DEF Store
  <2>3. \A m \in steady : Remembers(store[m], store'[m])
    BY <2>2 DEF Remembers, Answers, Known, Accepted
  <2> QED
    BY <1>1, <2>1, <2>3
<1>5. ASSUME NEW n \in Node, Process(n) PROVE Remembered'
  <2> DEFINE s == store[n]
             b == log[processed[n] + 1]
  <2>1. /\ store' = [store EXCEPT ![n] = ProcessBlock(s, b)]
        /\ processed' = [processed EXCEPT ![n] = processed[n] + 1]
        /\ processed[n] < applied[n]
        /\ log' = log /\ steady' = steady
        /\ store \in [Node -> FiniteStore] /\ processed \in [Node -> Nat]
    BY <1>5 DEF Process, ClusterInv
  <2>2. b \in Block
    <3>1. processed[n] + 1 \in 1 .. Len(log)
      BY <1>0, <2>1
    <3> QED
      BY <1>0, <3>1
  <2>3. b.txns \in Seq(Txn \ Genesis) /\ Range(b.txns) \subseteq Txn
    BY <2>2, BlockFields
  <2> DEFINE a == Begun(s, b)
             c == ProcessBlock(s, b)
  <2>4. a \in Store /\ a.db = s.db /\ a.pend = s.pend /\ a.invalid = s.invalid
    BY <1>0, <2>2, BlockIsTurns
  <2>5. PICK f : IsTurns(f, a, b.txns) /\ c = f[Len(b.txns)]
    BY <1>0, <2>2, BlockIsTurns
  <2>6. Sound(a)
    BY <1>0, <2>4, SameDatabases
  <2>7. s \in Store /\ store'[n] = c
    BY <1>0, <2>1
  <2> HIDE DEF a, b, c, s
  <2>8. Remembers(a, c) /\ \A t \in Range(b.txns) : Answers(c, t)
    BY <2>3, <2>5, <2>6, TurnsRemember
  <2>9. Remembers(s, c)
    BY <2>4, <2>8 DEF Remembers, Answers, Known, Accepted
  <2> SUFFICES ASSUME NEW m \in steady, NEW i \in 1 .. processed'[m], NEW t \in Range(log[i].txns)
               PROVE  Answers(store'[m], t)
    BY <2>1 DEF Remembered
  <2>10. m \in Node
    BY <1>0
  <2>11. CASE m # n
    <3>1. store'[m] = store[m] /\ processed'[m] = processed[m]
      BY <2>1, <2>10, <2>11
    <3> QED
      BY <3>1 DEF Remembered
  <2>12. CASE m = n /\ i # processed[n] + 1
    <3>1. i \in 1 .. processed[n] /\ i \in 1 .. Len(log)
      BY <1>0, <2>1, <2>12
    <3>2. Answers(s, t)
      BY <2>12, <3>1 DEF Remembered, s
    <3>3. t \in Txn
      <4>1. log[i] \in Block
        BY <1>0, <3>1
      <4> QED
        BY <4>1, BlockFields
    <3> QED
      BY <2>7, <2>9, <2>12, <3>2, <3>3 DEF Remembers
  <2>13. CASE m = n /\ i = processed[n] + 1
    BY <2>7, <2>8, <2>13 DEF b
  <2> QED
    BY <2>11, <2>12, <2>13
<1>6. ASSUME NEW n \in Node, Restart(n) PROVE Remembered'
  <2>1. /\ store' = [store EXCEPT ![n] = Reopen(store[n])]
        /\ processed' = [processed EXCEPT ![n] = 0]
        /\ steady' = steady \ {n} /\ log' = log
        /\ store \in [Node -> FiniteStore] /\ processed \in [Node -> Nat]
    BY <1>6 DEF Restart, ClusterInv
  <2>2. \A m \in steady \ {n} : store'[m] = store[m] /\ processed'[m] = processed[m]
    BY <1>0, <2>1
  <2> QED
    BY <2>1, <2>2 DEF Remembered
<1>7. CASE UNCHANGED vars
  BY <1>7 DEF vars, Remembered
<1> QED
  BY <1>2, <1>3, <1>4, <1>5, <1>6, <1>7 DEF Next

\* A node that was never restarted and keeps up answers "unknown" to a request
\* for a transaction of a block it has processed only if a newer version has
\* displaced it (jsonrpc_req_txn, against process_block and update_pend).
THEOREM ForgetsOnlyTheReplaced == Spec => []ForgottenOnlyWhenReplaced
<1>1. Init => Remembered
  BY DEF Init, Remembered
<1>2. ClusterInv /\ Remembered => ForgottenOnlyWhenReplaced
  <2> SUFFICES ASSUME ClusterInv, Remembered,
                      NEW n \in steady, NEW i \in 1 .. processed[n], NEW t \in Range(log[i].txns),
                      ReqTxn(store[n], t) = "unknown"
               PROVE  \E q \in Accepted(store[n]) \union store[n].invalid :
                          Inputs[q] = Inputs[t] /\ SeqNo[q] > SeqNo[t]
    BY DEF ForgottenOnlyWhenReplaced
  <2>1. n \in Node /\ i \in 1 .. Len(log)
    BY DEF ClusterInv
  <2>2. log[i] \in Block
    <3>1. log \in Seq(Block)
      BY DEF ClusterInv
    <3> QED
      BY <2>1, <3>1
  <2>5. Answers(store[n], t)
    BY DEF Remembered
  <2>6. t \notin Known(store[n])
    BY DEF ReqTxn, Known, Accepted
  <2> QED
    BY <2>5, <2>6 DEF Answers, Known
<1> QED
  BY <1>1, <1>2, RememberedStep, ClusterInvariant, PTL DEF Spec
=============================================================================
