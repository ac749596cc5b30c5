-------------------------- MODULE BlockFetchProofs --------------------------
(***************************************************************************)
(* Theorems about module BlockFetch, for all transactions, peers, block    *)
(* sizes and numbers of blocks: the types of its variables, that no block  *)
(* is processed twice or out of turn, and that what a block lacks is       *)
(* listed as missing unless it has a time lock; and, for blocks of at most *)
(* one transaction (BLOCK_SIZE = 1), that no request outlives its block,   *)
(* so that the log is followed exactly.                                    *)
(***************************************************************************)
EXTENDS BlockFetch, SequenceTheorems, TLAPS

-----------------------------------------------------------------------------
(***************************************************************************)
(* The bag of requests.                                                    *)
(***************************************************************************)
LEMMA BagDomains ==
  ASSUME NEW B, NEW C, NEW S
  PROVE  /\ BagToSet(SetToBag(S)) = S
         /\ BagToSet(B (+) C) = BagToSet(B) \union BagToSet(C)
         /\ BagToSet(B (-) C) \subseteq BagToSet(B)
         /\ BagToSet(EmptyBag) = {}
BY DEF BagToSet, SetToBag, (+), (-), EmptyBag

\* Taking the only request out of a bag leaves none.
LEMMA LastRequest ==
  ASSUME NEW r
  PROVE  SetToBag({r}) (-) SetToBag({r}) = EmptyBag
BY DEF SetToBag, (-), EmptyBag

\* Adding to an empty bag.
LEMMA FirstRequest ==
  ASSUME NEW S
  PROVE  EmptyBag (+) SetToBag(S) = SetToBag(S)
BY DEF SetToBag, (+), EmptyBag

-----------------------------------------------------------------------------
(***************************************************************************)
(* Types.                                                                  *)
(***************************************************************************)
LEMMA BlocksHoldTxns ==
  ASSUME NEW b \in Blocks
  PROVE  TxnsOf(b) \subseteq Txn /\ \A pool : Reached(b, pool) \subseteq TxnsOf(b)
<1>1. \A i \in DOMAIN b : b[i] \in Txn
  BY DEF Blocks
<1> QED  BY <1>1 DEF TxnsOf, Reached

\* The mempool may have been empty when a block was made.
LEMMA EmptyBlock == << >> \in Blocks /\ TxnsOf(<< >>) = {}
<1>1. 0 \in 0 .. BlockSize
  BY FetchAssumption DEF FetchAssumption
<1>2. << >> \in [1 .. 0 -> Txn]
  OBVIOUS
<1>3. \A i, j \in 1 .. 0 : i = j
  OBVIOUS
<1> QED  BY <1>1, <1>2, <1>3 DEF Blocks, TxnsOf

\* The counter of a request stays below Cycle.
LEMMA RequestTypes ==
  ASSUME FetchAssumption, NEW r \in Request
  PROVE  /\ r.txn \in Txn
         /\ NextTry(r) \in 0 .. Cycle - 1
         /\ [txn |-> r.txn, i |-> NextTry(r)] \in Request
<1>1. Peers \in Nat /\ Peers > 0 /\ RecheckEvery \in Nat /\ RecheckEvery > 0
  BY DEF FetchAssumption
<1>2. Peers * RecheckEvery \in Nat /\ Peers * RecheckEvery > 0
  BY <1>1, SMTT(30)
<1>3. Cycle \in Nat /\ Cycle > 0
  BY <1>2 DEF Cycle
<1>4. r.i \in Nat /\ r.txn \in Txn
  BY <1>3 DEF Request
<1>5. NextTry(r) \in 0 .. Cycle - 1
  <2>1. (r.i + 1) % Cycle \in 0 .. Cycle - 1
    BY <1>3, <1>4
  <2> QED  BY <2>1 DEF NextTry
<1> QED  BY <1>4, <1>5 DEF Request

\* What a call of process_block, or none, leaves well typed.
Work ==
    /\ mempool \subseteq Txn
    /\ pend \subseteq Timelocked
    /\ blockQueue \in Seq(Blocks)
    /\ currentBlock \in Blocks
    /\ processing \in BOOLEAN
    /\ processingBlock \in BOOLEAN
    /\ finished \in Seq(Blocks)

\* Processing a block, to its end or not, or none, keeps the work's types.
LEMMA ProcessTypes ==
  ASSUME Work, NEW b \in Blocks, NEW pool \in SUBSET Txn,
         \/ Completes(b, pool) /\ ProcessBlock(b, pool)
         \/ ProcessRaises(b, pool)
         \/ NoProcessing(pool)
  PROVE  Work'
<1>1. CASE Completes(b, pool) /\ ProcessBlock(b, pool)
  <2>1. blockQueue' \in Seq(Blocks)
    BY <1>1 DEF Completes, ProcessBlock, Work
  <2>2. finished' \in Seq(Blocks)
    BY <1>1 DEF ProcessBlock, Work
  <2> QED  BY <1>1, <2>1, <2>2, EmptyBlock DEF ProcessBlock, Pends, Work
<1>2. CASE ProcessRaises(b, pool)
  BY <1>2 DEF ProcessRaises, Pends, Work
<1>3. CASE NoProcessing(pool)
  BY <1>3 DEF NoProcessing, Work
<1> QED  BY <1>1, <1>2, <1>3

\* A request that is asked again keeps the bag well typed.
LEMMA AgainTypes ==
  ASSUME FetchAssumption, BagToSet(requests) \subseteq Request, NEW r \in BagToSet(requests)
  PROVE  /\ BagToSet(WithoutRequest(r)) \subseteq Request
         /\ BagToSet(WithoutRequest(r) (+) Again(r.txn, NextTry(r))) \subseteq Request
<1>1. [txn |-> r.txn, i |-> NextTry(r)] \in Request
  BY RequestTypes
<1>2. BagToSet(WithoutRequest(r)) \subseteq BagToSet(requests)
  BY BagDomains DEF WithoutRequest
<1>3. BagToSet(Again(r.txn, NextTry(r))) = {[txn |-> r.txn, i |-> NextTry(r)]}
  BY BagDomains DEF Again
<1>4. BagToSet(WithoutRequest(r) (+) Again(r.txn, NextTry(r)))
        = BagToSet(WithoutRequest(r)) \union BagToSet(Again(r.txn, NextTry(r)))
  BY BagDomains
<1> QED  BY <1>1, <1>2, <1>3, <1>4

\* An answer that names a missing transaction again keeps the types.
LEMMA RequestMissingTypes ==
  ASSUME FetchAssumption, TypeOK, NEW r \in BagToSet(requests), NEW goesOn \in BOOLEAN,
         RequestMissing(r.txn, NextTry(r), mempool, WithoutRequest(r), goesOn),
         UNCHANGED <<peer, missedCounter, committed>>
  PROVE  TypeOK'
<1>1. Work
  BY DEF TypeOK, Work
<1>2. \/ Completes(currentBlock, mempool) /\ ProcessBlock(currentBlock, mempool)
      \/ ProcessRaises(currentBlock, mempool)
      \/ NoProcessing(mempool)
  BY DEF RequestMissing
<1>3. Work'
  BY <1>1, <1>2, ProcessTypes DEF Work
<1>4. missing' \subseteq Txn
  BY DEF RequestMissing, TypeOK
<1>5. BagToSet(requests') \subseteq Request
  <2>1. /\ BagToSet(WithoutRequest(r)) \subseteq Request
        /\ BagToSet(WithoutRequest(r) (+) Again(r.txn, NextTry(r))) \subseteq Request
    BY AgainTypes DEF TypeOK
  <2>2. \/ requests' = WithoutRequest(r)
        \/ requests' = WithoutRequest(r) (+) Again(r.txn, NextTry(r))
    BY DEF RequestMissing
  <2> QED  BY <2>1, <2>2
<1> QED  BY <1>3, <1>4, <1>5 DEF TypeOK, Work

\* So does every step.
LEMMA TypesStep ==
  ASSUME FetchAssumption, TypeOK, [Next]_vars
  PROVE  TypeOK'
<1>1. ASSUME NEW t \in Txn, PutTxn(t)  PROVE TypeOK'
  BY <1>1 DEF PutTxn, TypeOK
<1>2. ASSUME NEW b \in Blocks, AddBlockToQueue(b)  PROVE TypeOK'
  <2>1. committed' \in Seq(Blocks) /\ blockQueue' \in Seq(Blocks)
    BY <1>2 DEF AddBlockToQueue, TypeOK
  <2> QED  BY <1>2, <2>1 DEF AddBlockToQueue, TypeOK
<1>3. ASSUME NEW n \in 0 .. Peers - 1, NEW t \in Txn, PeerLearns(n, t)  PROVE TypeOK'
  <2>1. peer' \in [0 .. Peers - 1 -> [Txn -> Reply]]
    <3>1. "txn" \in Reply
      BY DEF Reply
    <3>2. peer \in [0 .. Peers - 1 -> [Txn -> Reply]]
      BY DEF TypeOK
    <3>3. [peer[n] EXCEPT ![t] = "txn"] \in [Txn -> Reply]
      BY <3>1, <3>2
    <3>4. peer' = [peer EXCEPT ![n] = [peer[n] EXCEPT ![t] = "txn"]]
      BY <1>3 DEF PeerLearns
    <3> QED  BY <3>2, <3>3, <3>4
  <2> QED  BY <1>3, <2>1 DEF PeerLearns, TypeOK
<1>4. ASSUME TryProcess  PROVE TypeOK'
  <2>1. Head(blockQueue) \in Blocks
    BY <1>4 DEF TryProcess, TypeOK
  <2>2. Work
    BY DEF TypeOK, Work
  <2>3. Work'
    BY <1>4, <2>1, <2>2, ProcessTypes DEF TryProcess, TypeOK
  <2> QED  BY <1>4, <2>3 DEF TryProcess, TypeOK, Work
<1>5. ASSUME TryProcessRaises  PROVE TypeOK'
  <2>1. Head(blockQueue) \in Blocks
    BY <1>5 DEF TryProcessRaises, TypeOK
  <2> QED  BY <1>5, <2>1 DEF TryProcessRaises, Pends, TypeOK
<1>6. ASSUME TryProcessBackoff  PROVE TypeOK'
  <2>1. Head(blockQueue) \in Blocks
    BY <1>6 DEF TryProcessBackoff, TypeOK
  <2>2. MissingOf(Head(blockQueue)) \subseteq Txn
    BY <2>1, BlocksHoldTxns DEF MissingOf
  <2>3. missedCounter' \in 0 .. BackoffAmount
    BY <1>6 DEF TryProcessBackoff, TypeOK, FetchAssumption
  <2> QED  BY <1>6, <2>1, <2>2, <2>3 DEF TryProcessBackoff, TypeOK
<1>7. ASSUME TryProcessRequest  PROVE TypeOK'
  <2>1. Head(blockQueue) \in Blocks
    BY <1>7 DEF TryProcessRequest, TypeOK
  <2>2. MissingOf(Head(blockQueue)) \subseteq Txn
    BY <2>1, BlocksHoldTxns DEF MissingOf
  <2>3. missedCounter' \in 0 .. BackoffAmount
    BY <1>7 DEF TryProcessRequest, FetchAssumption
  <2>4. BagToSet(requests') \subseteq Request
    <3> DEFINE Asked == {[txn |-> t, i |-> 0] : t \in MissingOf(Head(blockQueue))}
    <3>1. Asked \subseteq Request
      <4>1. Peers \in Nat /\ Peers > 0 /\ RecheckEvery \in Nat /\ RecheckEvery > 0
        BY DEF FetchAssumption
      <4>2. Peers * RecheckEvery \in Nat /\ Peers * RecheckEvery > 0
        BY <4>1, SMTT(30)
      <4>3. 0 \in 0 .. Cycle - 1
        BY <4>2 DEF Cycle
      <4> QED  BY <2>2, <4>3 DEF Request
    <3>2. requests' = requests (+) SetToBag(Asked)
      BY <1>7 DEF TryProcessRequest
    <3> HIDE DEF Asked
    <3>3. BagToSet(requests') = BagToSet(requests) \union Asked
      BY <3>2, BagDomains
    <3> QED  BY <3>1, <3>3 DEF TypeOK
  <2> QED  BY <1>7, <2>1, <2>2, <2>3, <2>4 DEF TryProcessRequest, TypeOK
<1>8. ASSUME NEW r \in BagToSet(requests), Unknown(r)  PROVE TypeOK'
  BY <1>8, RequestMissingTypes DEF Unknown
<1>9. ASSUME NEW r \in BagToSet(requests), Failed(r)  PROVE TypeOK'
  BY <1>9, RequestMissingTypes DEF Failed
<1>10. ASSUME NEW r \in BagToSet(requests), Received(r)  PROVE TypeOK'
  <2> DEFINE pool == mempool \union {r.txn}
  <2>1. r.txn \in Txn
    BY RequestTypes DEF TypeOK
  <2>2. pool \in SUBSET Txn
    BY <2>1 DEF TypeOK
  <2>3. \/ Completes(currentBlock, pool) /\ ProcessBlock(currentBlock, pool)
        \/ ProcessRaises(currentBlock, pool)
        \/ NoProcessing(pool)
    BY <1>10 DEF Received
  <2>4. Work
    BY DEF TypeOK, Work
  <2> HIDE DEF pool
  <2>5. Work'
    BY <2>2, <2>3, <2>4, ProcessTypes DEF Work
  <2>6. missing' \subseteq Txn
    BY <1>10 DEF Received, TypeOK
  <2>7. BagToSet(requests') \subseteq Request
    <3>1. /\ BagToSet(WithoutRequest(r)) \subseteq Request
          /\ BagToSet(WithoutRequest(r) (+) Again(r.txn, NextTry(r))) \subseteq Request
      BY AgainTypes DEF TypeOK
    <3>2. \/ requests' = WithoutRequest(r)
          \/ requests' = WithoutRequest(r) (+) Again(r.txn, NextTry(r))
      BY <1>10 DEF Received
    <3> QED  BY <3>1, <3>2
  <2>8. UNCHANGED <<peer, missedCounter, committed>>
    BY <1>10 DEF Received
  <2> QED  BY <2>5, <2>6, <2>7, <2>8 DEF TypeOK, Work
<1>11. CASE UNCHANGED vars
  BY <1>11 DEF TypeOK, vars
<1> QED  BY <1>1, <1>2, <1>3, <1>4, <1>5, <1>6, <1>7, <1>8, <1>9, <1>10, <1>11 DEF Next

\* The first state is well typed.
LEMMA TypesInit ==
  ASSUME FetchAssumption, Init
  PROVE  TypeOK
<1>1. BagToSet(requests) \subseteq Request
  BY BagDomains DEF Init
<1>2. peer \in [0 .. Peers - 1 -> [Txn -> Reply]]
  BY DEF Init, FetchAssumption
<1>3. missedCounter \in 0 .. BackoffAmount
  BY DEF Init, FetchAssumption
<1>4. << >> \in Seq(Blocks)
  OBVIOUS
<1> QED  BY <1>1, <1>2, <1>3, <1>4, EmptyBlock DEF Init, TypeOK

\* The variables keep their types (all handlers of the reactor thread).
THEOREM FetchTypes == Spec => []TypeOK
<1>1. Init => TypeOK
  BY FetchAssumption, TypesInit
<1>2. TypeOK /\ [Next]_vars => TypeOK'
  BY FetchAssumption, TypesStep
<1> QED  BY <1>1, <1>2, PTL DEF Spec

-----------------------------------------------------------------------------
(***************************************************************************)
(* No block is processed twice or out of turn.  What waits in block_queue  *)
(* is the rest of what was committed, and current_block, when it is set,   *)
(* is the head of the queue.  A stray answer that finds current_block      *)
(* reset processes no transactions, but uses up the turn of a block.       *)
(***************************************************************************)
Serving == currentBlock = << >> \/ (blockQueue # << >> /\ currentBlock = Head(blockQueue))

RestWaits ==
    /\ Len(committed) = Len(finished) + Len(blockQueue)
    /\ \A k \in DOMAIN blockQueue : blockQueue[k] = committed[Len(finished) + k]

Turn == RestWaits /\ InTurn /\ Serving

\* A completed process_block on the head of the queue or on nothing.
LEMMA TurnProcess ==
  ASSUME TypeOK, Turn, NEW b, b \in {Head(blockQueue), << >>}, NEW pool,
         Completes(b, pool), ProcessBlock(b, pool), committed' = committed
  PROVE  Turn'
<1>1. /\ blockQueue \in Seq(Blocks) /\ blockQueue # << >>
      /\ finished \in Seq(Blocks)
      /\ committed \in Seq(Blocks)
  BY DEF TypeOK, Completes
<1>2. Head(blockQueue) = committed[Len(finished) + 1]
  BY <1>1 DEF Turn, RestWaits
<1>3. finished' = Append(finished, b) /\ blockQueue' = Tail(blockQueue) /\ currentBlock' = << >>
  BY DEF ProcessBlock
<1>4. b \in Blocks
  BY <1>1, EmptyBlock
<1>5. RestWaits'
  <2>1. Len(finished') = Len(finished) + 1 /\ Len(blockQueue') = Len(blockQueue) - 1
    BY <1>1, <1>3, <1>4
  <2>2. ASSUME NEW k \in DOMAIN blockQueue'
        PROVE  blockQueue'[k] = committed'[Len(finished') + k]
    <3>1. k \in Nat /\ k + 1 \in DOMAIN blockQueue /\ blockQueue'[k] = blockQueue[k + 1]
      BY <1>1, <1>3, <2>2
    <3>2. blockQueue[k + 1] = committed[Len(finished) + (k + 1)]
      BY <3>1 DEF Turn, RestWaits
    <3>3. Len(finished) \in Nat
      BY <1>1
    <3> QED  BY <2>1, <3>1, <3>2, <3>3
  <2>3. Len(committed) = Len(finished) + Len(blockQueue)
    BY DEF Turn, RestWaits
  <2>4. Len(committed') = Len(finished') + Len(blockQueue')
    BY <1>1, <2>1, <2>3
  <2> QED  BY <2>2, <2>4 DEF RestWaits
<1>6. InTurn'
  <2> SUFFICES ASSUME NEW k \in DOMAIN finished'
               PROVE  finished'[k] \in {committed[k], << >>}
    BY DEF InTurn
  <2>1. CASE k \in DOMAIN finished
    BY <1>1, <1>3, <1>4, <2>1 DEF Turn, InTurn
  <2>2. CASE k \notin DOMAIN finished
    <3>1. k = Len(finished) + 1 /\ finished'[k] = b
      BY <1>1, <1>3, <1>4, <2>2
    <3> QED  BY <1>2, <3>1
  <2> QED  BY <2>1, <2>2
<1> QED  BY <1>3, <1>5, <1>6 DEF Turn, Serving

\* process_block that raises, or is not called, keeps the turn.
LEMMA TurnKeepsStill ==
  ASSUME Turn, UNCHANGED <<blockQueue, currentBlock, finished, committed>>
  PROVE  Turn'
BY DEF Turn, RestWaits, InTurn, Serving

\* The reactor thread's work on the current block keeps the blocks' turn.
LEMMA TurnAnswer ==
  ASSUME TypeOK, Turn, NEW pool, committed' = committed,
         \/ Completes(currentBlock, pool) /\ ProcessBlock(currentBlock, pool)
         \/ ProcessRaises(currentBlock, pool)
         \/ NoProcessing(pool)
  PROVE  Turn'
<1>1. CASE Completes(currentBlock, pool) /\ ProcessBlock(currentBlock, pool)
  <2>1. currentBlock \in {Head(blockQueue), << >>}
    BY DEF Turn, Serving
  <2> QED  BY <1>1, <2>1, TurnProcess
<1>2. CASE ProcessRaises(currentBlock, pool)
  BY <1>2, TurnKeepsStill DEF ProcessRaises
<1>3. CASE NoProcessing(pool)
  BY <1>3, TurnKeepsStill DEF NoProcessing
<1> QED  BY <1>1, <1>2, <1>3

\* try_process that sets current_block and does not complete the block.
LEMMA TurnLooks ==
  ASSUME Turn, blockQueue # << >>, currentBlock' = Head(blockQueue),
         UNCHANGED <<blockQueue, finished, committed>>
  PROVE  Turn'
BY DEF Turn, RestWaits, InTurn, Serving

\* A block that raft hands over goes behind the others.
LEMMA TurnAppend ==
  ASSUME TypeOK, Turn, NEW b \in Blocks, AddBlockToQueue(b)
  PROVE  Turn'
<1>1. /\ blockQueue \in Seq(Blocks) /\ finished \in Seq(Blocks)
      /\ committed \in Seq(Blocks)
  BY DEF TypeOK
<1>2. /\ committed' = Append(committed, b) /\ blockQueue' = Append(blockQueue, b)
      /\ finished' = finished /\ currentBlock' = currentBlock
  BY DEF AddBlockToQueue
<1>3. Len(committed) = Len(finished) + Len(blockQueue)
  BY DEF Turn, RestWaits
<1>4. Len(finished) \in Nat /\ Len(blockQueue) \in Nat /\ Len(committed) \in Nat
  BY <1>1
<1>5. RestWaits'
  <2>1. Len(committed') = Len(finished') + Len(blockQueue')
    BY <1>1, <1>2, <1>3
  <2>2. ASSUME NEW k \in DOMAIN blockQueue'
        PROVE  blockQueue'[k] = committed'[Len(finished') + k]
    <3>1. CASE k \in DOMAIN blockQueue
      <4>1. blockQueue'[k] = blockQueue[k] /\ k \in 1 .. Len(blockQueue)
        BY <1>1, <1>2, <3>1
      <4>2. Len(finished) + k \in 1 .. Len(committed)
        BY <1>3, <1>4, <4>1
      <4>3. committed'[Len(finished) + k] = committed[Len(finished) + k]
        BY <1>1, <1>2, <4>2
      <4> QED  BY <1>2, <3>1, <4>1, <4>3 DEF Turn, RestWaits
    <3>2. CASE k \notin DOMAIN blockQueue
      <4>1. k = Len(blockQueue) + 1 /\ blockQueue'[k] = b
        BY <1>1, <1>2, <3>2
      <4>2. Len(finished) + k = Len(committed) + 1
        BY <1>3, <1>4, <4>1
      <4> QED  BY <1>1, <1>2, <4>1, <4>2
    <3> QED  BY <3>1, <3>2
  <2> QED  BY <2>1, <2>2 DEF RestWaits
<1>6. InTurn'
  <2> SUFFICES ASSUME NEW k \in DOMAIN finished
               PROVE  finished[k] \in {committed'[k], << >>}
    BY <1>2 DEF InTurn
  <2>1. k \in 1 .. Len(finished)
    BY <1>1
  <2>2. k \in 1 .. Len(committed)
    BY <1>3, <1>4, <2>1
  <2>3. committed'[k] = committed[k]
    BY <1>1, <1>2, <2>2
  <2> QED  BY <2>3 DEF Turn, InTurn
<1>7. Serving'
  <2>1. CASE currentBlock = << >>
    BY <1>2, <2>1 DEF Serving
  <2>2. CASE currentBlock # << >>
    <3>1. blockQueue # << >> /\ currentBlock = Head(blockQueue)
      BY <2>2 DEF Turn, Serving
    <3>2. Head(blockQueue') = Head(blockQueue) /\ blockQueue' # << >>
      BY <1>1, <1>2, <3>1
    <3> QED  BY <1>2, <3>1, <3>2 DEF Serving
  <2> QED  BY <2>1, <2>2
<1> QED  BY <1>5, <1>6, <1>7 DEF Turn

\* Every step keeps the blocks' turn.
LEMMA TurnStep ==
  ASSUME TypeOK, Turn, [Next]_vars
  PROVE  Turn'
<1>1. ASSUME NEW t \in Txn, PutTxn(t)  PROVE Turn'
  BY <1>1, TurnKeepsStill DEF PutTxn
<1>2. ASSUME NEW b \in Blocks, AddBlockToQueue(b)  PROVE Turn'
  BY <1>2, TurnAppend
<1>3. ASSUME NEW n \in 0 .. Peers - 1, NEW t \in Txn, PeerLearns(n, t)  PROVE Turn'
  BY <1>3, TurnKeepsStill DEF PeerLearns
<1>4. ASSUME TryProcess  PROVE Turn'
  BY <1>4, TurnProcess DEF TryProcess
<1>5. ASSUME TryProcessRaises  PROVE Turn'
  BY <1>5, TurnLooks DEF TryProcessRaises
<1>6. ASSUME TryProcessBackoff  PROVE Turn'
  BY <1>6, TurnLooks DEF TryProcessBackoff
<1>7. ASSUME TryProcessRequest  PROVE Turn'
  BY <1>7, TurnLooks DEF TryProcessRequest
<1>8. ASSUME NEW r \in BagToSet(requests), Unknown(r)  PROVE Turn'
  BY <1>8, TurnAnswer DEF Unknown, RequestMissing
<1>9. ASSUME NEW r \in BagToSet(requests), Failed(r)  PROVE Turn'
  BY <1>9, TurnAnswer DEF Failed, RequestMissing
<1>10. ASSUME NEW r \in BagToSet(requests), Received(r)  PROVE Turn'
  BY <1>10, TurnAnswer DEF Received
<1>11. CASE UNCHANGED vars
  BY <1>11, TurnKeepsStill DEF vars
<1> QED  BY <1>1, <1>2, <1>3, <1>4, <1>5, <1>6, <1>7, <1>8, <1>9, <1>10, <1>11 DEF Next

\* Each completed process_block ran on the committed block whose turn it was,
\* or on no transactions at all (process_block, try_process and the callbacks
\* of req_txn).
THEOREM BlocksInTurn == Spec => []InTurn
<1>1. Init => TypeOK /\ Turn
  <2>1. Init => TypeOK
    BY FetchAssumption, TypesInit
  <2>2. Init => Turn
    BY DEF Init, Turn, RestWaits, InTurn, Serving
  <2> QED  BY <2>1, <2>2
<1>2. (TypeOK /\ Turn) /\ [Next]_vars => (TypeOK /\ Turn)'
  BY FetchAssumption, TypesStep, TurnStep
<1>3. TypeOK /\ Turn => InTurn
  BY DEF Turn
<1> QED  BY <1>1, <1>2, <1>3, PTL DEF Spec

-----------------------------------------------------------------------------
(***************************************************************************)
(* What a block lacks is listed as missing, unless it has a time lock.     *)
(* The invariant is inductive with what pend holds.                        *)
(***************************************************************************)
LEMMA ListedStill ==
  ASSUME UnlockedListed, mempool \ Timelocked \subseteq mempool', missing \subseteq missing',
         UNCHANGED <<currentBlock, processingBlock>>
  PROVE  UnlockedListed'
BY DEF UnlockedListed

\* The callback takes t off the list when t is in the mempool it leaves.
LEMMA ListedWork ==
  ASSUME UnlockedListed, NEW t, NEW pool, mempool \subseteq pool,
         missing' \in {missing, missing \ {t}}, missing' # missing => t \in pool,
         \/ ProcessBlock(currentBlock, pool)
         \/ ProcessRaises(currentBlock, pool)
         \/ NoProcessing(pool)
  PROVE  UnlockedListed'
<1>1. CASE ProcessBlock(currentBlock, pool)
  BY <1>1, EmptyBlock DEF ProcessBlock, UnlockedListed
<1>2. CASE ProcessRaises(currentBlock, pool)
  BY <1>2 DEF ProcessRaises, UnlockedListed
<1>3. CASE NoProcessing(pool)
  <2>1. missing \subseteq missing' \union pool
    OBVIOUS
  <2>2. mempool' = pool /\ UNCHANGED <<currentBlock, processingBlock>>
    BY <1>3 DEF NoProcessing
  <2> QED  BY <2>1, <2>2 DEF UnlockedListed
<1> QED  BY <1>1, <1>2, <1>3

\* Every step leaves the missing transactions of the current block listed.
LEMMA ListedStep ==
  ASSUME UnlockedListed, pend \subseteq Timelocked, [Next]_vars
  PROVE  UnlockedListed'
<1>1. ASSUME NEW t \in Txn, PutTxn(t)  PROVE UnlockedListed'
  BY <1>1, ListedStill DEF PutTxn
<1>2. ASSUME NEW b \in Blocks, AddBlockToQueue(b)  PROVE UnlockedListed'
  BY <1>2, ListedStill DEF AddBlockToQueue
<1>3. ASSUME NEW n \in 0 .. Peers - 1, NEW t \in Txn, PeerLearns(n, t)  PROVE UnlockedListed'
  BY <1>3, ListedStill DEF PeerLearns
<1>4. ASSUME TryProcess  PROVE UnlockedListed'
  BY <1>4, EmptyBlock DEF TryProcess, ProcessBlock, UnlockedListed
<1>5. ASSUME TryProcessRaises  PROVE UnlockedListed'
  BY <1>5 DEF TryProcessRaises, UnlockedListed
<1>6. ASSUME TryProcessBackoff  PROVE UnlockedListed'
  BY <1>6 DEF TryProcessBackoff, UnlockedListed, MissingOf
<1>7. ASSUME TryProcessRequest  PROVE UnlockedListed'
  BY <1>7 DEF TryProcessRequest, UnlockedListed, MissingOf
<1>8. ASSUME NEW r \in BagToSet(requests), Unknown(r)  PROVE UnlockedListed'
  BY <1>8, ListedWork DEF Unknown, RequestMissing, Recheck
<1>9. ASSUME NEW r \in BagToSet(requests), Failed(r)  PROVE UnlockedListed'
  BY <1>9, ListedWork DEF Failed, RequestMissing, Recheck
<1>10. ASSUME NEW r \in BagToSet(requests), Received(r)  PROVE UnlockedListed'
  BY <1>10, ListedWork DEF Received
<1>11. CASE UNCHANGED vars
  BY <1>11, ListedStill DEF vars
<1> QED  BY <1>1, <1>2, <1>3, <1>4, <1>5, <1>6, <1>7, <1>8, <1>9, <1>10, <1>11 DEF Next

\* Until process_block has raised, every transaction of current_block that has no
\* time lock is in the mempool or on the list of missing ones, so that
\* process_block finds it (try_process, transaction_received,
\* request_missing_transaction, update_pend).
THEOREM LackIsListed == Spec => []UnlockedListed
<1>1. Init => UnlockedListed
  BY EmptyBlock DEF Init, UnlockedListed
<1>2. TypeOK /\ UnlockedListed /\ [Next]_vars => UnlockedListed'
  BY ListedStep DEF TypeOK
<1> QED  BY <1>1, <1>2, FetchTypes, PTL DEF Spec

-----------------------------------------------------------------------------
(***************************************************************************)
(* Blocks that lack one transaction at most when try_process gives up      *)
(* waiting.  Then there is one chain of requests while the node is stopped *)
(* at a block and none otherwise, so that every answer is about the block  *)
(* at the head of the queue.  Two missing transactions are enough to break *)
(* this (run fetch_two_missing), and so is a transaction that update_pend  *)
(* takes from under the block (run fetch_update_pend).                     *)
(***************************************************************************)
OneLacking == TryProcessRequest => \E t : MissingOf(Head(blockQueue)) = {t}

KeepsOthers ==
    processing /\ ~processingBlock /\ committed' # committed
        => TxnsOf(currentBlock) \subseteq missing \union mempool'

NothingAsked == ~processing /\ ~processingBlock /\ requests = EmptyBag

OneAsked(r) ==
    /\ processing /\ ~processingBlock
    /\ blockQueue # << >> /\ currentBlock = Head(blockQueue)
    /\ requests = SetToBag({r}) /\ missing = {r.txn}
    /\ r.txn \in TxnsOf(currentBlock) /\ TxnsOf(currentBlock) \subseteq missing \union mempool

Raised == processing /\ processingBlock /\ TxnsOf(currentBlock) \intersect Raising # {}

OneChain == NothingAsked \/ (\E r : OneAsked(r)) \/ Raised

\* Removing the head of the queue and adding it to what is finished.
LEMMA HeadMoves ==
  ASSUME NEW S, NEW done \in Seq(S), NEW queue \in Seq(S), queue # << >>
  PROVE  Append(done, Head(queue)) \o Tail(queue) = done \o queue
<1> DEFINE one == Append(done, Head(queue)) \o Tail(queue)
           two == done \o queue
<1>1. Head(queue) \in S /\ Tail(queue) \in Seq(S)
  OBVIOUS
<1>2. one \in Seq(S) /\ two \in Seq(S)
  BY <1>1
<1>3. Len(one) = Len(two)
  BY <1>1
<1>4. ASSUME NEW k \in 1 .. Len(one)  PROVE one[k] = two[k]
  <2>1. CASE k <= Len(done)
    BY <1>1, <2>1
  <2>2. CASE k = Len(done) + 1
    BY <1>1, <2>2
  <2>3. CASE k > Len(done) + 1
    BY <1>1, <2>3
  <2> QED  BY <2>1, <2>2, <2>3
<1> HIDE DEF one, two
<1>5. one = two
  BY <1>2, <1>3, <1>4, SeqEqual
<1> QED  BY <1>5 DEF one, two

\* A block that completes moves from the queue to what is finished.
LEMMA BlockMoves ==
  ASSUME TypeOK, InLogOrder, NEW pool, Completes(Head(blockQueue), pool),
         ProcessBlock(Head(blockQueue), pool), committed' = committed
  PROVE  InLogOrder'
<1>1. /\ blockQueue \in Seq(Blocks) /\ blockQueue # << >>
      /\ finished \in Seq(Blocks)
  BY DEF TypeOK, Completes
<1>2. Append(finished, Head(blockQueue)) \o Tail(blockQueue) = finished \o blockQueue
  BY <1>1, HeadMoves
<1> QED  BY <1>2 DEF InLogOrder, ProcessBlock

\* A new block goes to the end of both.
LEMMA BlockJoins ==
  ASSUME TypeOK, InLogOrder, NEW b \in Blocks, AddBlockToQueue(b)
  PROVE  InLogOrder'
<1> DEFINE S == Blocks
           one == Append(committed, b)
           two == finished \o Append(blockQueue, b)
<1>1. /\ committed \in Seq(S) /\ blockQueue \in Seq(S) /\ finished \in Seq(S) /\ b \in S
      /\ committed = finished \o blockQueue
  BY DEF TypeOK, InLogOrder
<1> HIDE DEF S
<1>2. one \in Seq(S) /\ two \in Seq(S)
  BY <1>1
<1>3. Len(one) = Len(two)
  BY <1>1
<1>4. ASSUME NEW k \in 1 .. Len(one)  PROVE one[k] = two[k]
  <2>1. CASE k <= Len(finished)
    BY <1>1, <2>1
  <2>2. CASE k > Len(finished) /\ k <= Len(committed)
    BY <1>1, <2>2
  <2>3. CASE k > Len(committed)
    BY <1>1, <2>3
  <2>4. k \in Nat /\ Len(finished) \in Nat /\ Len(committed) \in Nat
    BY <1>1
  <2> HIDE DEF one, two
  <2> QED  BY <2>1, <2>2, <2>3, <2>4
<1> HIDE DEF one, two
<1>5. one = two
  BY <1>2, <1>3, <1>4, SeqEqual
<1> QED  BY <1>5 DEF one, two, AddBlockToQueue, InLogOrder

\* The order speaks of no other variable.
LEMMA OrderStill ==
  ASSUME InLogOrder, UNCHANGED <<blockQueue, finished, committed>>
  PROVE  InLogOrder'
BY DEF InLogOrder

\* What the callbacks do to one chain of requests.
LEMMA ChainAnswer ==
  ASSUME TypeOK, InLogOrder, NEW r, OneAsked(r), NEW s, s.txn = r.txn, NEW pool,
         committed' = committed, mempool \subseteq pool,
         \/ /\ Completes(currentBlock, pool) /\ ProcessBlock(currentBlock, pool)
            /\ requests' = EmptyBag
         \/ ~Completes(currentBlock, pool) /\ ProcessRaises(currentBlock, pool) /\ r.txn \in pool
         \/ NoProcessing(pool) /\ missing' = missing /\ requests' = SetToBag({s})
  PROVE  InLogOrder' /\ OneChain'
<1>1. CASE /\ Completes(currentBlock, pool) /\ ProcessBlock(currentBlock, pool)
           /\ requests' = EmptyBag
  <2>1. NothingAsked'
    BY <1>1 DEF ProcessBlock, NothingAsked
  <2>2. InLogOrder'
    BY <1>1, BlockMoves DEF OneAsked
  <2> QED  BY <2>1, <2>2 DEF OneChain
<1>2. CASE ~Completes(currentBlock, pool) /\ ProcessRaises(currentBlock, pool) /\ r.txn \in pool
  <2>1. TxnsOf(currentBlock) \intersect Raising # {}
    BY <1>2 DEF Completes, OneAsked
  <2>2. Raised'
    BY <1>2, <2>1 DEF ProcessRaises, OneAsked, Raised
  <2>3. InLogOrder'
    BY <1>2, OrderStill DEF ProcessRaises
  <2> QED  BY <2>2, <2>3 DEF OneChain
<1>3. CASE NoProcessing(pool) /\ missing' = missing /\ requests' = SetToBag({s})
  <2>1. OneAsked(s)'
    BY <1>3 DEF NoProcessing, OneAsked
  <2>2. InLogOrder'
    BY <1>3, OrderStill DEF NoProcessing
  <2> QED  BY <2>1, <2>2 DEF OneChain
<1> QED  BY <1>1, <1>2, <1>3

\* After process_block has raised the callbacks leave the block alone.
LEMMA RaisedStays ==
  ASSUME InLogOrder, Raised, NEW pool, NoProcessing(pool), committed' = committed
  PROVE  InLogOrder' /\ OneChain'
<1>1. Raised'
  BY DEF Raised, NoProcessing
<1> QED  BY <1>1, OrderStill DEF OneChain, NoProcessing

\* An answer can only come when there is something asked.
LEMMA WhoseAnswer ==
  ASSUME OneChain, NEW r \in BagToSet(requests)
  PROVE  OneAsked(r) \/ Raised
<1>1. CASE NothingAsked
  BY <1>1, BagDomains DEF NothingAsked
<1>2. ASSUME NEW s, OneAsked(s)  PROVE OneAsked(r)
  <2>1. BagToSet(requests) = {s}
    BY <1>2, BagDomains DEF OneAsked
  <2> QED  BY <1>2, <2>1
<1> QED  BY <1>1, <1>2 DEF OneChain

\* A request that is repeated keeps the order and the chain.
LEMMA ChainMissing ==
  ASSUME TypeOK, InLogOrder, OneChain, NEW r \in BagToSet(requests), NEW goesOn \in BOOLEAN,
         RequestMissing(r.txn, NextTry(r), mempool, WithoutRequest(r), goesOn),
         committed' = committed
  PROVE  InLogOrder' /\ OneChain'
<1> DEFINE s == [txn |-> r.txn, i |-> NextTry(r)]
<1>1. CASE OneAsked(r)
  <2>1. WithoutRequest(r) = EmptyBag
    BY <1>1, LastRequest DEF OneAsked, WithoutRequest
  <2>2. WithoutRequest(r) (+) Again(r.txn, NextTry(r)) = SetToBag({s})
    BY <2>1, FirstRequest DEF Again
  <2>3. missing = {r.txn} /\ ~processingBlock
    BY <1>1 DEF OneAsked
  <2>4. \/ /\ Completes(currentBlock, mempool) /\ ProcessBlock(currentBlock, mempool)
           /\ requests' = EmptyBag
        \/ /\ ~Completes(currentBlock, mempool) /\ ProcessRaises(currentBlock, mempool)
           /\ r.txn \in mempool
        \/ NoProcessing(mempool) /\ missing' = missing /\ requests' = SetToBag({s})
    <3>1. ASSUME ~StopsAsking(r.txn, NextTry(r), mempool)
          PROVE  ~Recheck(r.txn, NextTry(r), mempool)
      BY <2>3, <3>1 DEF StopsAsking
    <3>2. StopsAsking(r.txn, NextTry(r), mempool) => r.txn \in mempool
      BY DEF StopsAsking, Recheck
    <3> QED  BY <2>1, <2>2, <3>1, <3>2 DEF RequestMissing
  <2>5. s.txn = r.txn
    OBVIOUS
  <2> HIDE DEF s
  <2> QED  BY <1>1, <2>4, <2>5, ChainAnswer
<1>2. CASE Raised
  <2>1. NoProcessing(mempool)
    BY <1>2 DEF RequestMissing, StopsAsking, Raised
  <2> QED  BY <1>2, <2>1, RaisedStays
<1> QED  BY <1>1, <1>2, WhoseAnswer

\* So does one that is answered.
LEMMA ChainReceived ==
  ASSUME TypeOK, InLogOrder, OneChain, NEW r \in BagToSet(requests), Received(r)
  PROVE  InLogOrder' /\ OneChain'
<1> DEFINE pool == mempool \union {r.txn}
<1>1. missing' = missing \ {r.txn} /\ committed' = committed
  BY DEF Received
<1>2. CASE OneAsked(r)
  <2>1. WithoutRequest(r) = EmptyBag
    BY <1>2, LastRequest DEF OneAsked, WithoutRequest
  <2>2. missing' = {} /\ ~processingBlock
    BY <1>1, <1>2 DEF OneAsked
  <2>3. \/ /\ Completes(currentBlock, pool) /\ ProcessBlock(currentBlock, pool)
           /\ requests' = EmptyBag
        \/ ~Completes(currentBlock, pool) /\ ProcessRaises(currentBlock, pool) /\ r.txn \in pool
    BY <2>1, <2>2 DEF Received
  <2>4. mempool \subseteq pool
    OBVIOUS
  <2> HIDE DEF pool
  <2> QED  BY <1>1, <1>2, <2>3, <2>4, ChainAnswer
<1>3. CASE Raised
  <2>1. NoProcessing(pool)
    BY <1>3 DEF Received, Raised
  <2> HIDE DEF pool
  <2> QED  BY <1>1, <1>3, <2>1, RaisedStays
<1> QED  BY <1>2, <1>3, WhoseAnswer

\* What does not touch the block under work.
LEMMA ChainStill ==
  ASSUME InLogOrder, OneChain, mempool \subseteq mempool',
         UNCHANGED <<blockQueue, currentBlock, processing, processingBlock, missing,
                     requests, committed, finished>>
  PROVE  InLogOrder' /\ OneChain'
<1>1. ASSUME NEW r, OneAsked(r)  PROVE OneAsked(r)'
  BY <1>1 DEF OneAsked
<1>2. NothingAsked => NothingAsked'
  BY DEF NothingAsked
<1>3. Raised => Raised'
  BY DEF Raised
<1> QED  BY <1>1, <1>2, <1>3, OrderStill DEF OneChain

\* And so does every step that leaves at most one transaction lacking.
LEMMA ChainStep ==
  ASSUME TypeOK, InLogOrder, OneChain, [Next]_vars, [OneLacking /\ KeepsOthers]_vars
  PROVE  InLogOrder' /\ OneChain'
<1>1. ASSUME NEW t \in Txn, PutTxn(t)  PROVE InLogOrder' /\ OneChain'
  BY <1>1, ChainStill DEF PutTxn
<1>2. ASSUME NEW b \in Blocks, AddBlockToQueue(b)  PROVE InLogOrder' /\ OneChain'
  <2>1. /\ committed' = Append(committed, b) /\ blockQueue' = Append(blockQueue, b)
        /\ UNCHANGED <<currentBlock, processing, processingBlock, missing, requests, finished>>
        /\ committed' # committed
    BY <1>2 DEF AddBlockToQueue, TypeOK
  <2>2. InLogOrder'
    BY <1>2, BlockJoins
  <2>3. ASSUME NEW r, OneAsked(r)  PROVE OneAsked(r)'
    <3>1. Head(blockQueue') = Head(blockQueue) /\ blockQueue' # << >>
      BY <2>1, <2>3 DEF OneAsked, TypeOK
    <3>2. TxnsOf(currentBlock) \subseteq missing \union mempool'
      BY <2>1, <2>3 DEF OneAsked, KeepsOthers, vars
    <3> QED  BY <2>1, <2>3, <3>1, <3>2 DEF OneAsked
  <2>4. (NothingAsked => NothingAsked') /\ (Raised => Raised')
    BY <2>1 DEF NothingAsked, Raised
  <2> QED  BY <2>2, <2>3, <2>4 DEF OneChain
<1>3. ASSUME NEW n \in 0 .. Peers - 1, NEW t \in Txn, PeerLearns(n, t)
      PROVE  InLogOrder' /\ OneChain'
  BY <1>3, ChainStill DEF PeerLearns
<1>4. ASSUME TryProcess  PROVE InLogOrder' /\ OneChain'
  <2>1. NothingAsked
    BY <1>4 DEF TryProcess, OneChain, OneAsked, Raised
  <2>2. NothingAsked'
    BY <1>4, <2>1 DEF TryProcess, ProcessBlock, NothingAsked
  <2>3. InLogOrder'
    BY <1>4, BlockMoves DEF TryProcess
  <2> QED  BY <2>2, <2>3 DEF OneChain
<1>5. ASSUME TryProcessRaises  PROVE InLogOrder' /\ OneChain'
  <2>1. Raised'
    BY <1>5 DEF TryProcessRaises, Completes, MissingOf, Raised
  <2> QED  BY <1>5, <2>1, OrderStill DEF TryProcessRaises, OneChain
<1>6. ASSUME TryProcessBackoff  PROVE InLogOrder' /\ OneChain'
  <2>1. NothingAsked
    BY <1>6 DEF TryProcessBackoff, OneChain, OneAsked, Raised
  <2>2. NothingAsked'
    BY <1>6, <2>1 DEF TryProcessBackoff, NothingAsked
  <2> QED  BY <1>6, <2>2, OrderStill DEF TryProcessBackoff, OneChain
<1>7. ASSUME TryProcessRequest  PROVE InLogOrder' /\ OneChain'
  <2>1. NothingAsked
    BY <1>7 DEF TryProcessRequest, OneChain, OneAsked, Raised
  <2>2. processing' # processing
    BY <1>7 DEF TryProcessRequest
  <2>3. OneLacking
    BY <2>2 DEF vars
  <2>4. PICK t : MissingOf(Head(blockQueue)) = {t}
    BY <1>7, <2>3 DEF OneLacking
  <2> DEFINE r == [txn |-> t, i |-> 0]
  <2>5. {[txn |-> u, i |-> 0] : u \in MissingOf(Head(blockQueue))} = {r}
    BY <2>4
  <2>6. requests' = EmptyBag (+) SetToBag({r})
    BY <1>7, <2>1, <2>5 DEF TryProcessRequest, NothingAsked
  <2>7. missing' = {r.txn}
    BY <1>7, <2>4 DEF TryProcessRequest
  <2> HIDE DEF r
  <2>8. requests' = SetToBag({r})
    BY <2>6, FirstRequest
  <2>9. t \in TxnsOf(Head(blockQueue)) /\ TxnsOf(Head(blockQueue)) \subseteq {t} \union mempool
    BY <2>4 DEF MissingOf
  <2>11. r.txn = t
    BY DEF r
  <2>10. OneAsked(r)'
    BY <1>7, <2>1, <2>7, <2>8, <2>9, <2>11 DEF TryProcessRequest, NothingAsked, OneAsked
  <2> QED  BY <1>7, <2>10, OrderStill DEF TryProcessRequest, OneChain
<1>8. ASSUME NEW r \in BagToSet(requests), Unknown(r)  PROVE InLogOrder' /\ OneChain'
  BY <1>8, ChainMissing DEF Unknown
<1>9. ASSUME NEW r \in BagToSet(requests), Failed(r)  PROVE InLogOrder' /\ OneChain'
  BY <1>9, ChainMissing DEF Failed
<1>10. ASSUME NEW r \in BagToSet(requests), Received(r)  PROVE InLogOrder' /\ OneChain'
  BY <1>10, ChainReceived
<1>11. CASE UNCHANGED vars
  BY <1>11, ChainStill DEF vars
<1> QED  BY <1>1, <1>2, <1>3, <1>4, <1>5, <1>6, <1>7, <1>8, <1>9, <1>10, <1>11 DEF Next

\* What one chain of requests means for the properties.
LEMMA ChainMeans ==
  ASSUME OneChain
  PROVE  NoStrayRequests /\ StillAsking
<1>1. CASE NothingAsked
  BY <1>1, BagDomains DEF NothingAsked, NoStrayRequests, StillAsking
<1>2. ASSUME NEW r, OneAsked(r)  PROVE NoStrayRequests /\ StillAsking
  <2>1. r \in BagToSet(requests)
    BY <1>2, BagDomains DEF OneAsked
  <2> QED  BY <1>2, <2>1 DEF OneAsked, NoStrayRequests, StillAsking
<1>3. CASE Raised
  BY <1>3 DEF Raised, NoStrayRequests, StillAsking
<1> QED  BY <1>1, <1>2, <1>3 DEF OneChain

\* As long as no block that lacks two transactions has them asked for, and
\* update_pend takes no other transaction of the block from the mempool meanwhile,
\* every committed block is processed once in the order of the log, no request
\* outlives its block, and a node stopped at a block keeps asking for what it
\* lacks (find_missing_transactions and the callbacks of req_txn).
THEOREM OneChainSuffices ==
  Spec /\ [][OneLacking /\ KeepsOthers]_vars
    => [](InLogOrder /\ NoStrayRequests /\ StillAsking)
<1>1. Init => TypeOK /\ InLogOrder /\ OneChain
  BY FetchAssumption, TypesInit DEF Init, InLogOrder, OneChain, NothingAsked
<1>2. (TypeOK /\ InLogOrder /\ OneChain) /\ [Next]_vars /\ [OneLacking /\ KeepsOthers]_vars
        => (TypeOK /\ InLogOrder /\ OneChain)'
  BY FetchAssumption, TypesStep, ChainStep
<1>3. TypeOK /\ InLogOrder /\ OneChain => InLogOrder /\ NoStrayRequests /\ StillAsking
  BY ChainMeans
<1> QED  BY <1>1, <1>2, <1>3, PTL DEF Spec

\* A block of at most one transaction.
LEMMA SingleBlock ==
  ASSUME NEW b \in Blocks, Len(b) <= 1, NEW t \in TxnsOf(b)
  PROVE  TxnsOf(b) = {t}
<1>1. PICK n \in 0 .. BlockSize : b \in [1 .. n -> Txn]
  BY DEF Blocks
<1>2. n \in Nat /\ Len(b) = n
  BY <1>1, FetchAssumption
<1>3. \A i \in DOMAIN b : i = 1
  BY <1>1, <1>2
<1> QED  BY <1>3 DEF TxnsOf

\* The block that waits at the head of the queue is one of the log.
LEMMA HeadCommitted ==
  ASSUME TypeOK, InLogOrder, Singles, blockQueue # << >>
  PROVE  Head(blockQueue) \in Blocks /\ Len(Head(blockQueue)) <= 1
<1> DEFINE k == Len(finished) + 1
<1>1. blockQueue \in Seq(Blocks) /\ finished \in Seq(Blocks) /\ committed \in Seq(Blocks)
  BY DEF TypeOK
<1>2. k \in 1 .. Len(finished \o blockQueue) /\ (finished \o blockQueue)[k] = Head(blockQueue)
  BY <1>1
<1>3. k \in DOMAIN committed /\ committed[k] = Head(blockQueue)
  BY <1>1, <1>2 DEF InLogOrder
<1> QED  BY <1>1, <1>3 DEF Singles

\* With such blocks try_process asks for one transaction at a time, and update_pend
\* can only take what is asked for.
LEMMA SinglesLackOne ==
  ASSUME TypeOK, InLogOrder, Singles, OneChain
  PROVE  OneLacking /\ KeepsOthers
<1>1. ASSUME TryProcessRequest  PROVE \E t : MissingOf(Head(blockQueue)) = {t}
  <2>1. Head(blockQueue) \in Blocks /\ Len(Head(blockQueue)) <= 1
    BY <1>1, HeadCommitted DEF TryProcessRequest
  <2>2. PICK t : t \in MissingOf(Head(blockQueue))
    BY <1>1 DEF TryProcessRequest
  <2>3. TxnsOf(Head(blockQueue)) = {t}
    BY <2>1, <2>2, SingleBlock DEF MissingOf
  <2> QED  BY <2>2, <2>3 DEF MissingOf
<1>2. ASSUME processing, ~processingBlock  PROVE TxnsOf(currentBlock) \subseteq missing
  <2>1. PICK r : OneAsked(r)
    BY <1>2 DEF OneChain, NothingAsked, Raised
  <2>2. currentBlock \in Blocks /\ Len(currentBlock) <= 1
    BY <2>1, HeadCommitted DEF OneAsked
  <2>3. TxnsOf(currentBlock) = {r.txn} /\ missing = {r.txn}
    BY <2>1, <2>2, SingleBlock DEF OneAsked
  <2> QED  BY <2>3
<1> QED  BY <1>1, <1>2 DEF OneLacking, KeepsOthers

\* A block once committed stays so.
LEMMA SinglesBefore ==
  ASSUME TypeOK, [Next]_vars, Singles'
  PROVE  Singles
<1>1. CASE committed' = committed
  BY <1>1 DEF Singles
<1>2. ASSUME NEW b \in Blocks, AddBlockToQueue(b)  PROVE Singles
  <2>1. committed \in Seq(Blocks) /\ committed' = Append(committed, b)
    BY <1>2 DEF AddBlockToQueue, TypeOK
  <2>2. ASSUME NEW k \in DOMAIN committed  PROVE k \in DOMAIN committed' /\ committed'[k] = committed[k]
    BY <2>1, <2>2
  <2> QED  BY <2>2 DEF Singles
<1>3. committed' = committed \/ \E b \in Blocks : AddBlockToQueue(b)
  BY DEF Next, vars, PutTxn, PeerLearns, TryProcess, TryProcessRaises, TryProcessBackoff,
         TryProcessRequest, Unknown, Failed, Received, RequestMissing, ProcessBlock,
         ProcessRaises, NoProcessing
<1> QED  BY <1>1, <1>2, <1>3

\* So there is one chain of requests at most.
LEMMA SinglesChain == Spec => [](SinglesInOrder /\ SinglesNoStray /\ SinglesAsking)
<1> DEFINE IInv == TypeOK /\ (Singles => InLogOrder /\ OneChain)
<1>1. Init => IInv
  <2>1. Init => InLogOrder /\ NothingAsked
    BY DEF Init, InLogOrder, NothingAsked
  <2> QED  BY <2>1, FetchAssumption, TypesInit DEF OneChain
<1>2. IInv /\ [Next]_vars => IInv'
  <2> SUFFICES ASSUME IInv, [Next]_vars  PROVE IInv'
    OBVIOUS
  <2>1. TypeOK'
    BY FetchAssumption, TypesStep
  <2>2. ASSUME Singles'  PROVE InLogOrder' /\ OneChain'
    <3>1. Singles /\ InLogOrder /\ OneChain
      BY <2>2, SinglesBefore
    <3>2. [OneLacking /\ KeepsOthers]_vars
      BY <3>1, SinglesLackOne
    <3> QED  BY <3>1, <3>2, FetchAssumption, ChainStep
  <2> QED  BY <2>1, <2>2
<1>3. IInv => SinglesInOrder /\ SinglesNoStray /\ SinglesAsking
  BY ChainMeans DEF SinglesInOrder, SinglesNoStray, SinglesAsking
<1> QED  BY <1>1, <1>2, <1>3, PTL DEF Spec

\* As long as no committed block has more than one transaction, every block is
\* processed exactly once and in the order of the log (try_process, process_block).
THEOREM SinglesInLogOrder == Spec => []SinglesInOrder
BY SinglesChain, PTL

\* ... no request is left when there is nothing more to be done for its block
\* (transaction_received, request_missing_transaction).
THEOREM SinglesLeaveNoRequests == Spec => []SinglesNoStray
BY SinglesChain, PTL

\* ... and a node that is stopped at a block is still asking for what it waits for,
\* unless process_block has raised on it (transaction_received and
\* transaction_receive_error).
THEOREM SinglesKeepAsking == Spec => []SinglesAsking
BY SinglesChain, PTL

=============================================================================
