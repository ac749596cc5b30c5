--------------------------- MODULE ProposerProofs ---------------------------
(***************************************************************************)
(* Theorems about module Proposer, for all transactions, timelocks, block  *)
(* sizes, numbers of blocks, puts and restarts: the types of its variables *)
(* and what the queue holds; and, for threads that do not interrupt each   *)
(* other, that the list names what the mempool database holds, and that a  *)
(* leader that inherits no block and loses no transaction to update_pend   *)
(* proposes a transaction no more often than it was put.                   *)
(***************************************************************************)
EXTENDS Proposer, FoldLemmas, SequenceTheorems

Distinct(list) == \A i, j \in DOMAIN list : list[i] = list[j] => i = j

-----------------------------------------------------------------------------
(***************************************************************************)
(* Adding to the list and removing from it.                                *)
(***************************************************************************)
\* list.remove: the first occurrence goes, the others keep their order.
LEMMA RemoveFirstMeans ==
  ASSUME NEW S, NEW list \in Seq(S), NEW e
  PROVE  /\ RemoveFirst(list, e) \in Seq(S)
         /\ Distinct(list) => /\ ToSet(RemoveFirst(list, e)) = ToSet(list) \ {e}
                              /\ Distinct(RemoveFirst(list, e))
<1> DEFINE I == {i \in 1 .. Len(list) : list[i] = e}
<1>1. CASE I = {}
  <2>1. RemoveFirst(list, e) = list
    BY <1>1 DEF RemoveFirst
  <2>2. e \notin ToSet(list)
    BY <1>1 DEF ToSet
  <2> QED  BY <2>1, <2>2
<1>2. CASE I # {}
  <2> DEFINE m == Min(I)
             less == RemoveAt(list, m)
  <2>2. m \in I
    <3>1. I \in SUBSET (1 .. Len(list)) /\ Len(list) \in Nat /\ 1 \in Nat
      OBVIOUS
    <3> HIDE DEF I
    <3> QED  BY <1>2, <3>1, MinOfInterval
  <2>3. RemoveFirst(list, e) = less
    <3>1. SelectInSeq(list, LAMBDA v : v = e) = m
      BY <1>2 DEF SelectInSeq
    <3>2. \E i \in 1 .. Len(list) : list[i] = e
      BY <1>2
    <3> HIDE DEF m
    <3> QED  BY <3>1, <3>2 DEF RemoveFirst
  <2>4. m \in 1 .. Len(list) /\ list[m] = e
    BY <2>2
  <2> HIDE DEF m, I
  <2>5. less = SubSeq(list, 1, m - 1) \o SubSeq(list, m + 1, Len(list))
    BY DEF RemoveAt
  <2>6. /\ less \in Seq(S) /\ Len(less) = Len(list) - 1
        /\ \A k \in 1 .. Len(list) - 1 : less[k] = IF k < m THEN list[k] ELSE list[k + 1]
    <3> DEFINE l == SubSeq(list, 1, m - 1)
               r == SubSeq(list, m + 1, Len(list))
    <3>1. /\ l \in Seq(S) /\ Len(l) = m - 1
          /\ \A k \in 1 .. m - 1 : l[k] = list[k]
      BY <2>4
    <3>2. /\ r \in Seq(S) /\ Len(r) = Len(list) - m
          /\ \A k \in 1 .. Len(list) - m : r[k] = list[m + k]
      BY <2>4
    <3>3. less = l \o r
      BY <2>5
    <3> HIDE DEF l, r, less
    <3>4. less \in Seq(S) /\ Len(less) = Len(l) + Len(r)
      BY <3>1, <3>2, <3>3, ConcatProperties
    <3>5. \A k \in 1 .. Len(l) + Len(r) : less[k] = IF k <= Len(l) THEN l[k] ELSE r[k - Len(l)]
      <4>1. l \in Seq(S) /\ r \in Seq(S)
        BY <3>1, <3>2
      <4> QED  BY <4>1, <3>3
    <3>6. ASSUME NEW k \in 1 .. Len(list) - 1
          PROVE  less[k] = IF k < m THEN list[k] ELSE list[k + 1]
      <4>1. k \in 1 .. Len(l) + Len(r) /\ Len(l) = m - 1 /\ Len(list) \in Nat
        BY <2>4, <3>1, <3>2
      <4>2. less[k] = IF k <= Len(l) THEN l[k] ELSE r[k - Len(l)]
        BY <3>5, <4>1
      <4>3. CASE k < m
        <5>1. k \in 1 .. m - 1 /\ k <= Len(l)
          BY <2>4, <4>1, <4>3
        <5> QED  BY <3>1, <4>2, <4>3, <5>1
      <4>4. CASE k >= m
        <5>1. k - (m - 1) \in 1 .. Len(list) - m /\ ~(k <= Len(l)) /\ m + (k - (m - 1)) = k + 1
          BY <2>4, <4>1, <4>4
        <5> QED  BY <2>4, <3>2, <4>1, <4>2, <4>4, <5>1
      <4> QED  BY <2>4, <4>3, <4>4
    <3> QED  BY <2>4, <3>1, <3>2, <3>4, <3>6
  <2> HIDE DEF less
  <2>7. ASSUME Distinct(list)
        PROVE  ToSet(less) = ToSet(list) \ {e} /\ Distinct(less)
    <3> DEFINE old(k) == IF k < m THEN k ELSE k + 1
    <3>1. DOMAIN less = 1 .. Len(list) - 1 /\ DOMAIN list = 1 .. Len(list) /\ Len(list) \in Nat
      BY <2>6
    <3>2. \A k \in DOMAIN less : less[k] = list[old(k)] /\ old(k) \in DOMAIN list /\ old(k) # m
      BY <2>4, <2>6, <3>1
    <3>3. \A i \in DOMAIN list : i # m => \E k \in DOMAIN less : i = old(k)
      <4> SUFFICES ASSUME NEW i \in DOMAIN list, i # m  PROVE \E k \in DOMAIN less : i = old(k)
        OBVIOUS
      <4>1. CASE i < m
        BY <2>4, <3>1, <4>1
      <4>2. CASE i > m
        <5>1. i - 1 \in DOMAIN less /\ i = old(i - 1)
          BY <2>4, <3>1, <4>2
        <5> QED  BY <5>1
      <4> QED  BY <2>4, <3>1, <4>1, <4>2
    <3>4. \A j, k \in DOMAIN less : old(j) = old(k) => j = k
      BY <2>4, <3>1
    <3> HIDE DEF old
    <3>5. Distinct(less)
      BY <2>7, <3>2, <3>4 DEF Distinct
    <3>6. ASSUME NEW x \in ToSet(less)  PROVE x \in ToSet(list) /\ x # e
      <4>1. PICK k \in DOMAIN less : x = less[k]
        BY DEF ToSet
      <4> QED  BY <2>4, <2>7, <3>1, <3>2, <4>1 DEF ToSet, Distinct
    <3>7. ASSUME NEW x \in ToSet(list), x # e  PROVE x \in ToSet(less)
      <4>1. PICK i \in DOMAIN list : x = list[i]
        BY DEF ToSet
      <4>2. i # m
        BY <2>4, <3>7, <4>1
      <4> QED  BY <3>2, <3>3, <4>1, <4>2 DEF ToSet
    <3> QED  BY <3>5, <3>6, <3>7
  <2> QED  BY <2>3, <2>6, <2>7
<1> QED  BY <1>1, <1>2

\* A list without duplicates is as long as the set of its elements is large.
LEMMA DistinctLength ==
  ASSUME NEW S, NEW list \in Seq(S), Distinct(list)
  PROVE  Len(list) = Cardinality(ToSet(list))
<1>1. list \in [1 .. Len(list) -> ToSet(list)]
  BY DEF ToSet
<1>2. \A a, b \in 1 .. Len(list) : list[a] = list[b] => a = b
  BY DEF Distinct
<1>3. \A t \in ToSet(list) : \E a \in 1 .. Len(list) : list[a] = t
  BY DEF ToSet
<1>4. list \in Bijection(1 .. Len(list), ToSet(list))
  BY <1>1, <1>2, <1>3 DEF Bijection, Injection, Surjection, IsInjective
<1>5. ExistsBijection(1 .. Len(list), ToSet(list)) /\ Len(list) \in Nat
  BY <1>4 DEF ExistsBijection
<1> QED  BY <1>5, FS_CountingElements

\* A list with one more transaction.
LEMMA AppendMeans ==
  ASSUME NEW S, NEW list \in Seq(S), NEW e \in S
  PROVE  /\ Append(list, e) \in Seq(S)
         /\ ToSet(Append(list, e)) = ToSet(list) \union {e}
         /\ Distinct(list) /\ e \notin ToSet(list) => Distinct(Append(list, e))
<1> DEFINE more == Append(list, e)
<1>1. /\ more \in Seq(S) /\ DOMAIN more = DOMAIN list \union {Len(list) + 1}
      /\ Len(list) + 1 \notin DOMAIN list
  OBVIOUS
<1>2. (\A k \in DOMAIN list : more[k] = list[k]) /\ more[Len(list) + 1] = e
  OBVIOUS
<1> HIDE DEF more
<1>3. ToSet(more) = ToSet(list) \union {e}
  BY <1>1, <1>2 DEF ToSet
<1>4. Distinct(list) /\ e \notin ToSet(list) => Distinct(more)
  BY <1>1, <1>2 DEF ToSet, Distinct
<1> QED  BY <1>1, <1>3, <1>4 DEF more

\* Nothing is listed in an empty list.
LEMMA EmptyList ==
  /\ << >> \in Seq(All) /\ Distinct(<< >>) /\ ToSet(<< >>) = {}
BY DEF Distinct, ToSet

-----------------------------------------------------------------------------
(***************************************************************************)
(* The kinds of values of the variables.                                   *)
(***************************************************************************)
Stores ==
    /\ mempool \subseteq All /\ mempoolList \in Seq(All)
    /\ arriving \subseteq All /\ leaving \subseteq All /\ missing \subseteq All
    /\ puts \in [All -> 0 .. MaxPuts]
    /\ pend \subseteq Timelocked /\ due \subseteq Timelocked
    /\ txs \in Seq(All)

\* Where the loops over the block are.
Places ==
    /\ currentBlock \in Seq(All)
    /\ at \in 1 .. Len(currentBlock) + 1
    /\ reactor \in {"unlist", "unlistInvalid"} => at <= Len(currentBlock)
    /\ reactor \in {"idle", "current", "processing", "waiting", "reset"} => at = 1

Flags ==
    /\ lost \in BOOLEAN /\ processing \in BOOLEAN /\ addingBlock \in BOOLEAN
    /\ restarts \in Nat
    /\ tick \in {"idle", "size", "notProcessing", "mayAdd", "sendBlock", "taken",
                 "updatePend", "unlist"}
    /\ reactor \in {"idle", "current", "processing", "added", "waiting", "process",
                    "unlistInvalid", "unlist", "reset", "stopped"}

Processed == committed - Len(blockQueue)

\* The queue holds the newest of the committed blocks, and try_process works on
\* its head.
Queue ==
    /\ log \in Seq(Seq(All))
    /\ blockQueue \in Seq(Seq(All))
    /\ inherited \in 0 .. Len(log)
    /\ committed \in 0 .. Len(log)
    /\ Len(blockQueue) <= committed
    /\ \A k \in 1 .. Len(blockQueue) : blockQueue[k] = log[Processed + k]
    /\ reactor \in {"current", "processing", "added", "waiting", "process", "unlistInvalid", "unlist"}
           => blockQueue # << >>
    /\ tick \in {"updatePend", "unlist"} => committed < Len(log)

Sound == Stores /\ Places /\ Flags /\ Queue

\* The block at the head of the queue is the next one of the log.
LEMMA QueueHead ==
  ASSUME Queue, blockQueue # << >>
  PROVE  /\ Head(blockQueue) = log[Processed + 1] /\ Head(blockQueue) \in Seq(All)
         /\ Processed \in Nat /\ Processed < committed
<1>1. blockQueue \in Seq(Seq(All)) /\ Len(blockQueue) \in Nat /\ 1 \in 1 .. Len(blockQueue)
  BY DEF Queue
<1>2. Head(blockQueue) = blockQueue[1] /\ blockQueue[1] \in Seq(All)
  BY <1>1
<1>3. blockQueue[1] = log[Processed + 1]
  BY <1>1 DEF Queue
<1>4. Processed \in Nat /\ Processed < committed
  BY <1>1 DEF Queue, Processed
<1> QED  BY <1>2, <1>3, <1>4

\* The invariant has the types in it.
LEMMA SoundTypes ==
  ASSUME Sound
  PROVE  TypeOK
<1>1. blockQueue = SubSeq(log, committed - Len(blockQueue) + 1, committed)
  <2> DEFINE p == committed - Len(blockQueue)
             rest == SubSeq(log, p + 1, committed)
  <2>1. /\ log \in Seq(Seq(All)) /\ blockQueue \in Seq(Seq(All))
        /\ committed \in Nat /\ committed <= Len(log) /\ p \in Nat /\ p <= committed
        /\ Len(blockQueue) = committed - p
        /\ \A k \in 1 .. Len(blockQueue) : blockQueue[k] = log[p + k]
    BY DEF Sound, Queue, Processed
  <2> HIDE DEF p
  <2>2. rest \in Seq(Seq(All)) /\ Len(rest) = committed - p
    BY <2>1
  <2>3. \A k \in 1 .. committed - p : rest[k] = log[p + k]
    BY <2>1
  <2> HIDE DEF rest
  <2>4. blockQueue = rest
    BY <2>1, <2>2, <2>3, SeqEqual
  <2> QED  BY <2>4 DEF rest, p
<1> QED  BY <1>1 DEF Sound, Stores, Places, Flags, Queue, TypeOK

\* Every step keeps the kinds of what the databases, the list and the threads'
\* local variables hold.
LEMMA StoresStep ==
  ASSUME Sound, [Next]_vars
  PROVE  Stores'
<1> USE DEF Stores
<1>0. Stores /\ Places /\ Flags
  BY DEF Sound
<1>1. ASSUME NEW t \in All, PutTxn(t)  PROVE Stores'
  <2>1. puts[t] < MaxPuts /\ puts' = [puts EXCEPT ![t] = @ + 1] /\ MaxPuts \in Nat
    BY <1>1, ProposerAssumption DEF PutTxn, ProposerAssumption
  <2>2. puts' \in [All -> 0 .. MaxPuts]
    BY <1>0, <2>1
  <2> QED  BY <1>0, <1>1, <2>2 DEF PutTxn, raftVars
<1>2. CASE Apply
  <2>1. ASSUME NEW over \in SUBSET pend, UpdatePend(over)  PROVE Stores'
    BY <1>0, <2>1 DEF UpdatePend, storeVars, reactorVars
  <2>2. ASSUME NEW t \in due, UpdatePendAccept(t) \/ UpdatePendReject(t)  PROVE Stores'
    <3>1. t \in All
      BY <1>0, ProposerAssumption DEF ProposerAssumption, All
    <3> QED  BY <1>0, <2>2, <3>1 DEF UpdatePendAccept, UpdatePendReject, reactorVars
  <2>3. CASE UpdatePendUnlist
    <3>1. PICK t \in leaving : mempoolList' = RemoveFirst(mempoolList, t)
      BY <2>3 DEF UpdatePendUnlist
    <3>2. mempoolList' \in Seq(All)
      BY <1>0, <3>1, RemoveFirstMeans
    <3> QED  BY <1>0, <2>3, <3>2 DEF UpdatePendUnlist, reactorVars
  <2>4. CASE AddBlockToQueue
    BY <1>0, <2>4 DEF AddBlockToQueue, storeVars, reactorVars
  <2> QED  BY <1>2, <2>1, <2>2, <2>3, <2>4 DEF Apply
<1>3. CASE Tick
  <2>1. CASE \/ \E timeout \in BOOLEAN : TickSize(timeout)
             \/ TickProcessing \/ TickAdding \/ TickAdd
    BY <1>0, <2>1 DEF TickSize, TickProcessing, TickAdding, TickAdd, tickVars, storeVars, reactorVars
  <2>2. CASE SendBlockTake
    <3>1. /\ txs' = SubSeq(mempoolList, 1, IF Len(mempoolList) < BlockSize
                                           THEN Len(mempoolList) ELSE BlockSize)
          /\ BlockSize \in Nat
      BY <2>2, ProposerAssumption DEF SendBlockTake, ProposerAssumption
    <3>2. txs' \in Seq(All)
      BY <1>0, <3>1
    <3> QED  BY <1>0, <2>2, <3>2 DEF SendBlockTake, tickVars, storeVars, reactorVars
  <2>3. CASE SendBlock
    BY <1>0, <2>3, EmptyList DEF SendBlock, tickVars, storeVars, reactorVars
  <2> QED  BY <1>3, <2>1, <2>2, <2>3 DEF Tick
<1>4. CASE Reactor
  <2>1. CASE ListTxn
    <3>1. PICK t \in arriving : mempoolList' = Append(mempoolList, t)
      BY <2>1 DEF ListTxn
    <3>2. mempoolList' \in Seq(All)
      BY <1>0, <3>1, AppendMeans
    <3> QED  BY <1>0, <2>1, <3>2 DEF ListTxn, raftVars
  <2>2. CASE \/ TryProcess \/ TryProcessLock \/ TryProcessAdded \/ TryProcessBackoff
             \/ TryProcessRequest \/ TryProcessComplete \/ ProcessBlockRaise
             \/ ProcessBlockReset \/ ProcessBlockUnlock
    BY <1>0, <2>2 DEF TryProcess, TryProcessLock, TryProcessAdded, TryProcessBackoff,
                      TryProcessRequest, TryProcessComplete, ProcessBlockRaise, Processing,
                      ProcessBlockReset, ProcessBlockUnlock, storeVars, raftVars
  <2>3. CASE TryProcessScan
    <3>1. currentBlock[at] \in All
      BY <1>0, <2>3 DEF TryProcessScan, Places
    <3> QED  BY <1>0, <2>3, <3>1 DEF TryProcessScan, storeVars, raftVars
  <2>4. ASSUME NEW t \in missing, Received(t)  PROVE Stores'
    BY <1>0, <2>4 DEF Received, raftVars
  <2>5. ASSUME NEW replaced, ProcessBlockAccept(replaced)  PROVE Stores'
    BY <1>0, <2>5 DEF ProcessBlockAccept, raftVars
  <2>6. CASE ProcessBlockReject
    BY <1>0, <2>6 DEF ProcessBlockReject, raftVars
  <2>7. CASE ProcessBlockUnlistInvalid \/ ProcessBlockUnlist
    <3>1. mempoolList' = RemoveFirst(mempoolList, currentBlock[at])
      BY <2>7 DEF ProcessBlockUnlistInvalid, ProcessBlockUnlist
    <3>2. mempoolList' \in Seq(All)
      BY <1>0, <3>1, RemoveFirstMeans
    <3> QED  BY <1>0, <2>7, <3>2 DEF ProcessBlockUnlistInvalid, ProcessBlockUnlist, raftVars
  <2> QED  BY <1>4, <2>1, <2>2, <2>3, <2>4, <2>5, <2>6, <2>7 DEF Reactor, ProcessBlock
<1>5. ASSUME NEW kept, Restart(kept)  PROVE Stores'
  BY <1>0, <1>5, EmptyList DEF Restart
<1>6. CASE UNCHANGED vars
  BY <1>0, <1>6 DEF vars, storeVars, reactorVars, raftVars
<1> QED  BY <1>1, <1>2, <1>3, <1>4, <1>5, <1>6 DEF Next

\* Every step of the raft thread leaves the reactor thread where it is.
LEMMA RaftThread ==
  ASSUME Apply \/ Tick
  PROVE  /\ UNCHANGED <<reactorVars, currentBlock, processing, inherited, restarts, puts>>
         /\ TickMayRun
<1>1. CASE Apply
  BY <1>1 DEF Apply, UpdatePend, UpdatePendAccept, UpdatePendReject, UpdatePendUnlist,
              AddBlockToQueue, storeVars, blockVars
<1>2. CASE Tick
  BY <1>2 DEF Tick, TickSize, TickProcessing, TickAdding, TickAdd, SendBlockTake, SendBlock,
              tickVars, storeVars
<1> QED  BY <1>1, <1>2

\* Every step of the reactor thread leaves the raft thread where it is.
LEMMA ReactorThread ==
  ASSUME Reactor \/ \E t \in All : PutTxn(t)
  PROVE  UNCHANGED raftVars /\ (Serial => tick = "idle")
BY DEF Reactor, PutTxn, ListTxn, TryProcess, TryProcessLock, TryProcessAdded, TryProcessScan,
       TryProcessBackoff, TryProcessRequest, TryProcessComplete, Received, ProcessBlock,
       ProcessBlockRaise, ProcessBlockAccept, ProcessBlockReject, ProcessBlockUnlistInvalid,
       ProcessBlockUnlist, ProcessBlockReset, ProcessBlockUnlock, Processing, ReactorMayRun

\* Every step keeps the loops over the block within it.
LEMMA PlacesStep ==
  ASSUME Sound, [Next]_vars
  PROVE  Places'
<1> USE DEF Places
<1>0. Places /\ Flags /\ Queue
  BY DEF Sound
<1>1. ASSUME NEW t \in All, PutTxn(t)  PROVE Places'
  BY <1>0, <1>1 DEF PutTxn, blockVars
<1>2. CASE Apply \/ Tick
  BY <1>0, <1>2, RaftThread DEF reactorVars
<1>3. CASE Reactor
  <2>1. CASE ListTxn
    BY <1>0, <2>1 DEF ListTxn, blockVars
  <2>2. CASE TryProcess
    <3>1. Head(blockQueue) \in Seq(All)
      BY <1>0, <2>2, QueueHead DEF TryProcess
    <3> QED  BY <1>0, <2>2, <3>1 DEF TryProcess
  <2>3. CASE TryProcessLock \/ TryProcessAdded
    BY <1>0, <2>3 DEF TryProcessLock, TryProcessAdded
  <2>4. CASE TryProcessScan
    BY <1>0, <2>4 DEF TryProcessScan, blockVars
  <2>5. CASE TryProcessBackoff \/ TryProcessRequest \/ TryProcessComplete
    BY <1>0, <2>5 DEF TryProcessBackoff, TryProcessRequest, TryProcessComplete, blockVars
  <2>6. ASSUME NEW t \in missing, Received(t)  PROVE Places'
    BY <1>0, <2>6 DEF Received, blockVars
  <2>7. CASE ProcessBlockRaise
    BY <1>0, <2>7 DEF ProcessBlockRaise, Processing, blockVars
  <2>8. ASSUME NEW replaced, ProcessBlockAccept(replaced)  PROVE Places'
    BY <1>0, <2>8 DEF ProcessBlockAccept, Processing, blockVars
  <2>9. CASE ProcessBlockReject
    BY <1>0, <2>9 DEF ProcessBlockReject, Processing, blockVars
  <2>10. CASE ProcessBlockUnlistInvalid \/ ProcessBlockUnlist
    BY <1>0, <2>10 DEF ProcessBlockUnlistInvalid, ProcessBlockUnlist, blockVars
  <2>11. CASE ProcessBlockReset \/ ProcessBlockUnlock
    <3>1. Len(<< >>) = 0 /\ 1 \in 1 .. 0 + 1
      OBVIOUS
    <3>2. CASE ProcessBlockReset
      <4>1. currentBlock' = << >> /\ at' = 1 /\ reactor' = "reset"
        BY <3>2 DEF ProcessBlockReset
      <4> QED  BY <3>1, <4>1, EmptyList
    <3>3. CASE ProcessBlockUnlock
      BY <1>0, <3>3 DEF ProcessBlockUnlock
    <3> QED  BY <2>11, <3>2, <3>3
  <2> QED  BY <1>3, <2>1, <2>2, <2>3, <2>4, <2>5, <2>6, <2>7, <2>8, <2>9, <2>10, <2>11
           DEF Reactor, ProcessBlock
<1>4. ASSUME NEW kept, Restart(kept)  PROVE Places'
  <2>1. currentBlock' = << >> /\ at' = 1 /\ reactor' = "idle"
    BY <1>4 DEF Restart
  <2>2. Len(<< >>) = 0 /\ 1 \in 1 .. 0 + 1
    OBVIOUS
  <2> QED  BY <2>1, <2>2, EmptyList
<1>5. CASE UNCHANGED vars
  BY <1>0, <1>5 DEF vars, blockVars, reactorVars
<1> QED  BY <1>1, <1>2, <1>3, <1>4, <1>5 DEF Next

\* Every step keeps the flags and the places in the code what they can be.
LEMMA FlagsStep ==
  ASSUME Sound, [Next]_vars
  PROVE  Flags'
<1> USE DEF Flags
<1>0. Flags
  BY DEF Sound
<1>1. ASSUME NEW t \in All, PutTxn(t)  PROVE Flags'
  BY <1>0, <1>1 DEF PutTxn, blockVars, raftVars
<1>2. CASE Apply
  BY <1>0, <1>2 DEF Apply, UpdatePend, UpdatePendAccept, UpdatePendReject, UpdatePendUnlist,
                    AddBlockToQueue, storeVars, blockVars, reactorVars
<1>3. CASE Tick
  BY <1>0, <1>3 DEF Tick, TickSize, TickProcessing, TickAdding, TickAdd, SendBlockTake, SendBlock,
                    tickVars, storeVars, reactorVars
<1>4. CASE Reactor
  <2>1. UNCHANGED <<tick, restarts>>
    BY <1>4, ReactorThread DEF raftVars
  <2>2. UNCHANGED lost
    BY <1>4 DEF Reactor, ListTxn, TryProcess, TryProcessLock, TryProcessAdded, TryProcessScan,
                TryProcessBackoff, TryProcessRequest, TryProcessComplete, Received, ProcessBlock,
                ProcessBlockRaise, ProcessBlockAccept, ProcessBlockReject,
                ProcessBlockUnlistInvalid, ProcessBlockUnlist, ProcessBlockReset,
                ProcessBlockUnlock, storeVars
  <2>3. /\ processing' \in {processing, TRUE, FALSE} /\ addingBlock' \in {addingBlock, FALSE}
        /\ \/ reactor' = reactor
           \/ reactor' \in {"idle", "current", "processing", "added", "waiting", "process",
                            "unlistInvalid", "unlist", "reset", "stopped"}
    BY <1>4 DEF Reactor, ListTxn, TryProcess, TryProcessLock, TryProcessAdded, TryProcessScan,
                TryProcessBackoff, TryProcessRequest, TryProcessComplete, Received, ProcessBlock,
                ProcessBlockRaise, ProcessBlockAccept, ProcessBlockReject,
                ProcessBlockUnlistInvalid, ProcessBlockUnlist, ProcessBlockReset,
                ProcessBlockUnlock, blockVars
  <2> QED  BY <1>0, <2>1, <2>2, <2>3
<1>5. ASSUME NEW kept, Restart(kept)  PROVE Flags'
  <2>1. /\ restarts' = restarts + 1 /\ lost' = lost /\ processing' = FALSE /\ addingBlock' = FALSE
        /\ tick' = "idle" /\ reactor' = "idle"
    BY <1>5 DEF Restart
  <2>2. restarts' \in Nat
    BY <1>0, <2>1
  <2>3. lost' \in BOOLEAN /\ processing' \in BOOLEAN /\ addingBlock' \in BOOLEAN
    BY <1>0, <2>1, Zenon
  <2> QED  BY <2>1, <2>2, <2>3
<1>6. CASE UNCHANGED vars
  BY <1>0, <1>6 DEF vars, storeVars, blockVars, reactorVars, raftVars
<1> QED  BY <1>1, <1>2, <1>3, <1>4, <1>5, <1>6 DEF Next

\* What leaves the log and the queue alone.
LEMMA QueueStill ==
  ASSUME Queue, UNCHANGED <<log, blockQueue, inherited, committed>>,
         \/ reactor' \in {"idle", "reset", "stopped"} \/ reactor' = reactor
         \/ reactor \in {"current", "processing", "added", "waiting", "process",
                         "unlistInvalid", "unlist"}
         \/ blockQueue # << >>,
         tick' \in {"updatePend", "unlist"} =>
             tick \in {"updatePend", "unlist"} \/ committed < Len(log)
  PROVE  Queue'
BY DEF Queue, Processed

\* Every step keeps the queue a stretch of the log.
LEMMA QueueStep ==
  ASSUME Sound, [Next]_vars
  PROVE  Queue'
<1>0. Queue /\ Flags /\ Stores
  BY DEF Sound
<1>1. ASSUME NEW t \in All, PutTxn(t)  PROVE Queue'
  BY <1>0, <1>1, QueueStill DEF PutTxn, blockVars, raftVars
<1>2. CASE Apply
  <2>1. CASE \/ \E over \in SUBSET pend : UpdatePend(over)
             \/ \E t \in due : UpdatePendAccept(t) \/ UpdatePendReject(t)
             \/ UpdatePendUnlist
    <3>1. /\ UNCHANGED <<log, blockQueue, inherited, committed, reactor>>
          /\ tick' \in {"updatePend", "unlist"} =>
                 tick \in {"updatePend", "unlist"} \/ committed < Len(log)
      BY <2>1 DEF UpdatePend, UpdatePendAccept, UpdatePendReject, UpdatePendUnlist, blockVars,
                  reactorVars
    <3> QED  BY <1>0, <3>1, QueueStill
  <2>2. CASE AddBlockToQueue
    <3>1. /\ committed' = committed + 1 /\ blockQueue' = Append(blockQueue, log[committed + 1])
          /\ committed < Len(log) /\ UNCHANGED <<log, inherited, reactor>> /\ tick' = "idle"
      BY <1>0, <2>2 DEF AddBlockToQueue, reactorVars, Queue
    <3>2. /\ log \in Seq(Seq(All)) /\ blockQueue \in Seq(Seq(All)) /\ committed \in Nat
      BY <1>0 DEF Queue
    <3>3. log[committed + 1] \in Seq(All)
      BY <3>1, <3>2
    <3>4. /\ blockQueue' \in Seq(Seq(All)) /\ Len(blockQueue') = Len(blockQueue) + 1
          /\ Len(blockQueue) \in Nat
      BY <3>1, <3>2, <3>3
    <3>5. Processed' = Processed
      BY <3>1, <3>2, <3>4 DEF Processed
    <3>6. ASSUME NEW k \in 1 .. Len(blockQueue')
          PROVE  blockQueue'[k] = log'[Processed' + k]
      <4>1. CASE k <= Len(blockQueue)
        <5>1. blockQueue'[k] = blockQueue[k] /\ k \in 1 .. Len(blockQueue)
          BY <3>1, <3>2, <3>3, <3>6, <4>1
        <5> QED  BY <1>0, <3>1, <3>5, <5>1 DEF Queue
      <4>2. CASE k = Len(blockQueue) + 1
        <5>1. blockQueue'[k] = log[committed + 1]
          BY <3>1, <3>2, <3>3, <4>2
        <5>2. Processed + k = committed + 1
          BY <3>2, <3>4, <4>2 DEF Processed
        <5> QED  BY <3>1, <3>5, <5>1, <5>2
      <4> QED  BY <3>4, <3>6, <4>1, <4>2
    <3>7. blockQueue' # << >>
      BY <3>1, <3>2, <3>3
    <3>8. committed' \in 0 .. Len(log') /\ Len(blockQueue') <= committed'
      BY <1>0, <3>1, <3>2, <3>4 DEF Queue
    <3> QED  BY <1>0, <3>1, <3>4, <3>6, <3>7, <3>8 DEF Queue
  <2> QED  BY <1>2, <2>1, <2>2 DEF Apply
<1>3. CASE Tick
  <2>1. CASE \/ \E timeout \in BOOLEAN : TickSize(timeout)
             \/ TickProcessing \/ TickAdding \/ TickAdd \/ SendBlockTake
    <3>1. /\ UNCHANGED <<log, blockQueue, inherited, committed, reactor>>
          /\ tick' \notin {"updatePend", "unlist"}
      BY <2>1 DEF TickSize, TickProcessing, TickAdding, TickAdd, SendBlockTake, tickVars,
                  reactorVars
    <3> QED  BY <1>0, <3>1, QueueStill
  <2>2. CASE SendBlock
    <3>1. UNCHANGED <<blockQueue, inherited, committed, reactor>> /\ tick' = "idle"
      BY <2>2 DEF SendBlock, tickVars, reactorVars
    <3>2. log' = log \/ log' = Append(log, txs)
      BY <2>2 DEF SendBlock
    <3>3. txs \in Seq(All)
      BY <1>0 DEF Stores
    <3>4. CASE log' = log
      BY <1>0, <3>1, <3>4, QueueStill
    <3>5. CASE log' = Append(log, txs)
      <4>1. /\ log' \in Seq(Seq(All)) /\ Len(log') = Len(log) + 1
            /\ \A k \in 1 .. Len(log) : log'[k] = log[k]
        BY <1>0, <3>3, <3>5 DEF Queue
      <4>2. \A k \in 1 .. Len(blockQueue) : Processed + k \in 1 .. Len(log)
        BY <1>0 DEF Queue, Processed
      <4>3. Processed' = Processed
        BY <3>1 DEF Processed
      <4>4. \A k \in 1 .. Len(blockQueue') : blockQueue'[k] = log'[Processed' + k]
        BY <1>0, <3>1, <4>1, <4>2, <4>3 DEF Queue
      <4> QED  BY <1>0, <3>1, <4>1, <4>4 DEF Queue
    <3> QED  BY <3>2, <3>4, <3>5
  <2> QED  BY <1>3, <2>1, <2>2 DEF Tick
<1>4. CASE Reactor
  <2>1. /\ UNCHANGED <<log, inherited, committed, tick>>
    BY <1>4, ReactorThread DEF raftVars
  <2>2. CASE ~ProcessBlockReset
    <3>1. /\ UNCHANGED blockQueue
          /\ \/ reactor' \in {"idle", "reset", "stopped"} \/ reactor' = reactor
             \/ reactor \in {"current", "processing", "added", "waiting", "process",
                             "unlistInvalid", "unlist"}
             \/ blockQueue # << >>
      BY <1>4, <2>2 DEF Reactor, ListTxn, TryProcess, TryProcessLock, TryProcessAdded,
                TryProcessScan, TryProcessBackoff, TryProcessRequest, TryProcessComplete, Received,
                ProcessBlock, ProcessBlockRaise, ProcessBlockAccept, ProcessBlockReject,
                ProcessBlockUnlistInvalid, ProcessBlockUnlist, ProcessBlockUnlock, Processing,
                blockVars
    <3> QED  BY <1>0, <2>1, <3>1, QueueStill
  <2>3. CASE ProcessBlockReset
    <3>1. /\ blockQueue' = Tail(blockQueue) /\ reactor' = "reset" /\ blockQueue # << >>
      BY <1>0, <2>3 DEF ProcessBlockReset, Queue
    <3>2. /\ blockQueue' \in Seq(Seq(All)) /\ Len(blockQueue') = Len(blockQueue) - 1
          /\ Len(blockQueue) \in Nat /\ Len(blockQueue) > 0
          /\ \A k \in 1 .. Len(blockQueue') : blockQueue'[k] = blockQueue[k + 1]
      BY <1>0, <3>1 DEF Queue
    <3>3. Processed' = Processed + 1 /\ Processed \in Nat
      BY <1>0, <2>1, <3>2 DEF Processed, Queue
    <3>4. \A k \in 1 .. Len(blockQueue') :
             k + 1 \in 1 .. Len(blockQueue) /\ (Processed + 1) + k = Processed + (k + 1)
      BY <3>2, <3>3
    <3>5. \A k \in 1 .. Len(blockQueue') : blockQueue'[k] = log'[Processed' + k]
      BY <1>0, <2>1, <3>2, <3>3, <3>4 DEF Queue
    <3> QED  BY <1>0, <2>1, <3>1, <3>2, <3>5 DEF Queue
  <2> QED  BY <2>2, <2>3
<1>5. ASSUME NEW kept, Restart(kept)  PROVE Queue'
  <2>1. /\ kept \in committed .. Len(log) /\ log' = SubSeq(log, 1, kept) /\ inherited' = kept
        /\ committed' = 0 /\ blockQueue' = << >> /\ reactor' = "idle" /\ tick' = "idle"
    BY <1>5 DEF Restart
  <2>2. log' \in Seq(Seq(All)) /\ Len(log') = kept /\ kept \in Nat
    BY <1>0, <2>1 DEF Queue
  <2> QED  BY <2>1, <2>2 DEF Queue
<1>6. CASE UNCHANGED vars
  BY <1>0, <1>6, QueueStill DEF vars, blockVars, reactorVars, raftVars
<1> QED  BY <1>1, <1>2, <1>3, <1>4, <1>5, <1>6 DEF Next

\* The first state.
LEMMA SoundInit ==
  ASSUME Init
  PROVE  Sound
<1>1. Stores /\ Places /\ Flags
  <2>1. puts \in [All -> 0 .. MaxPuts]
    BY ProposerAssumption DEF Init, ProposerAssumption
  <2>2. Stores
    BY <2>1, EmptyList DEF Init, Stores
  <2>3. Len(<< >>) = 0 /\ 1 \in 1 .. 0 + 1
    OBVIOUS
  <2>4. Places
    BY <2>3, EmptyList DEF Init, Places
  <2>5. Flags
    BY DEF Init, Flags
  <2> QED  BY <2>2, <2>4, <2>5
<1>2. Queue
  <2>1. log \in Seq(Seq(All))
    <3>1. \A t \in Strangers : <<t>> \in Seq(All)
      BY DEF All
    <3>2. << >> \in Seq(Seq(All)) /\ \A t \in Strangers : << <<t>> >> \in Seq(Seq(All))
      BY <3>1
    <3> QED  BY <3>2 DEF Init
  <2>2. Len(log) \in Nat
    BY <2>1
  <2> QED  BY <2>1, <2>2 DEF Init, Queue
<1> QED  BY <1>1, <1>2 DEF Sound

\* Every step.
LEMMA SoundStep ==
  ASSUME Sound, [Next]_vars
  PROVE  Sound'
BY StoresStep, PlacesStep, FlagsStep, QueueStep DEF Sound

\* The variables keep their types, and block_queue holds the newest of the
\* committed blocks: those that process_block has not finished yet.
THEOREM ProposerTypes == Spec => []TypeOK
<1>1. Init => Sound
  BY SoundInit
<1>2. Sound /\ [Next]_vars => Sound'
  BY SoundStep
<1>3. Sound => TypeOK
  BY SoundTypes
<1> QED  BY <1>1, <1>2, <1>3, PTL DEF Spec

-----------------------------------------------------------------------------
(***************************************************************************)
(* The list and the mempool database, for threads that do not interrupt    *)
(* each other.  Between the two halves of add_to_mempool the database      *)
(* holds what the list does not (arriving), between those of               *)
(* remove_from_mempool the list names what the database has lost (Going).  *)
(***************************************************************************)
Listings == ToSet(mempoolList)

Unlisting == reactor \in {"unlist", "unlistInvalid"}

Going == leaving \union (IF Unlisting THEN {currentBlock[at]} ELSE {})

Listed ==
    /\ Distinct(mempoolList)
    /\ arriving \subseteq mempool /\ arriving \intersect Listings = {}
    /\ Going \intersect mempool = {}
    /\ Listings \subseteq mempool \union Going
    /\ restarts = 0 => mempool \subseteq Listings \union arriving

\* One of the two threads is between two handlers, or waits for an answer.
InTurn ==
    /\ tick # "idle" => reactor \in {"idle", "waiting", "stopped"} /\ arriving = {}
    /\ arriving # {} => ~Unlisting
    /\ leaving # {} => tick = "unlist"
    /\ \E t : leaving \subseteq {t}
    /\ \E t : arriving \subseteq {t}

\* What the invariant needs of a step that changes neither list nor database.
LEMMA ListedStill ==
  ASSUME Listed, UNCHANGED <<mempool, mempoolList, arriving, restarts>>, Going' = Going
  PROVE  Listed'
BY DEF Listed, Listings

\* While the raft thread is idle and the reactor thread not unlisting, nothing
\* is half removed.
LEMMA NothingGoing ==
  ASSUME InTurn, tick = "idle", ~Unlisting
  PROVE  Going = {} /\ leaving = {}
BY DEF InTurn, Going

\* A step of the raft thread.
LEMMA RaftListed ==
  ASSUME Serial, Sound, Listed, InTurn, Apply \/ Tick
  PROVE  Listed' /\ InTurn'
<1>1. /\ UNCHANGED <<arriving, reactor, currentBlock, at, restarts>>
      /\ reactor \in {"idle", "waiting", "stopped"} /\ arriving = {}
  BY RaftThread DEF reactorVars, TickMayRun
<1>2. ~Unlisting /\ ~Unlisting' /\ Going = leaving /\ Going' = leaving'
  BY <1>1 DEF Unlisting, Going
<1>3. CASE UNCHANGED <<mempool, mempoolList, leaving>> /\ (leaving = {} \/ tick' = tick)
  BY <1>1, <1>2, <1>3, ListedStill DEF InTurn
<1>4. ASSUME NEW t \in due, UpdatePendReject(t)  PROVE Listed' /\ InTurn'
  <2>1. /\ mempool' = mempool \ {t} /\ leaving' = {t} /\ tick' = "unlist" /\ tick = "updatePend"
        /\ mempoolList' = mempoolList
    BY <1>4 DEF UpdatePendReject
  <2>2. leaving = {} /\ Listings' = Listings
    BY <2>1 DEF InTurn, Listings
  <2>3. Listed'
    BY <1>1, <1>2, <2>1, <2>2 DEF Listed
  <2> QED  BY <1>1, <1>2, <2>1, <2>3 DEF InTurn
<1>5. CASE UpdatePendUnlist
  <2>1. PICK t \in leaving : mempoolList' = RemoveFirst(mempoolList, t)
    BY <1>5 DEF UpdatePendUnlist
  <2>2. mempool' = mempool /\ leaving' = {}
    BY <1>5 DEF UpdatePendUnlist
  <2>3. leaving = {t}
    BY <2>1 DEF InTurn
  <2>4. Listings' = Listings \ {t} /\ Distinct(mempoolList')
    BY <2>1, RemoveFirstMeans DEF Sound, Stores, Listed, Listings
  <2>5. Listed'
    BY <1>1, <1>2, <2>2, <2>3, <2>4 DEF Listed
  <2> QED  BY <1>1, <1>2, <2>2, <2>5 DEF InTurn
<1>6. CASE ~UpdatePendUnlist /\ ~\E t \in due : UpdatePendReject(t)
  <2>1. UNCHANGED <<mempool, mempoolList, leaving>>
    BY <1>6 DEF Apply, UpdatePend, UpdatePendAccept, AddBlockToQueue, Tick, TickSize,
                TickProcessing, TickAdding, TickAdd, SendBlockTake, SendBlock, tickVars, storeVars
  <2>2. leaving = {} \/ tick' = tick
    BY <1>6 DEF InTurn, Apply, UpdatePend, UpdatePendAccept, AddBlockToQueue, Tick, TickSize,
                TickProcessing, TickAdding, TickAdd, SendBlockTake, SendBlock
  <2> QED  BY <1>3, <2>1, <2>2
<1> QED  BY <1>4, <1>5, <1>6

\* A step of the reactor thread that changes neither the list nor the database.
LEMMA TryListed ==
  ASSUME Serial, Sound, Listed, InTurn,
         \/ TryProcess \/ TryProcessLock \/ TryProcessAdded \/ TryProcessScan \/ TryProcessBackoff
         \/ TryProcessRequest \/ TryProcessComplete \/ ProcessBlockRaise \/ ProcessBlockReset
         \/ ProcessBlockUnlock
  PROVE  Listed' /\ InTurn'
<1>1. /\ UNCHANGED <<mempool, mempoolList, arriving, restarts, leaving, tick>> /\ arriving = {}
      /\ tick = "idle" /\ ~Unlisting /\ ~Unlisting'
  BY DEF TryProcess, TryProcessLock, TryProcessAdded, TryProcessScan, TryProcessBackoff,
         TryProcessRequest, TryProcessComplete, ProcessBlockRaise, ProcessBlockReset,
         ProcessBlockUnlock, Processing, ReactorMayRun, storeVars, raftVars, Unlisting
<1>2. Going' = Going
  BY <1>1 DEF Going
<1> QED  BY <1>1, <1>2, ListedStill DEF InTurn

\* A transaction comes to the database, and to the list.
LEMMA AddListed ==
  ASSUME Serial, Sound, Listed, InTurn,
         \/ \E t \in All : PutTxn(t)
         \/ \E t \in missing : Received(t)
         \/ ListTxn
  PROVE  Listed' /\ InTurn'
<1>1. UNCHANGED <<leaving, tick, restarts, currentBlock, at>> /\ tick = "idle"
  BY DEF PutTxn, Received, ListTxn, raftVars, blockVars, ReactorMayRun
<1>2. ASSUME NEW t, PutTxn(t) \/ Received(t)  PROVE Listed' /\ InTurn'
  <2>1. /\ arriving = {} /\ mempool' = mempool \union {t} /\ arriving' = {t} \ mempool
        /\ mempoolList' = mempoolList /\ ~Unlisting /\ ~Unlisting'
    BY <1>2 DEF PutTxn, Received, ReactorMayRun, Unlisting
  <2>2. Going = {} /\ Going' = {} /\ Listings' = Listings
    BY <1>1, <2>1, NothingGoing DEF Going, Listings
  <2>3. Listed'
    BY <1>1, <2>1, <2>2 DEF Listed
  <2> QED  BY <1>1, <2>1, <2>3 DEF InTurn
<1>3. CASE ListTxn
  <2>1. PICK t \in arriving : mempoolList' = Append(mempoolList, t)
    BY <1>3 DEF ListTxn
  <2>2. arriving = {t} /\ arriving' = {} /\ mempool' = mempool /\ reactor' = reactor
    BY <1>3, <2>1 DEF InTurn, ListTxn
  <2>3. t \notin Listings /\ t \in All
    BY <2>2 DEF Listed, Sound, Stores
  <2>4. Listings' = Listings \union {t} /\ Distinct(mempoolList')
    BY <2>1, <2>3, AppendMeans DEF Sound, Stores, Listed, Listings
  <2>5. Going' = Going /\ (Unlisting' <=> Unlisting)
    BY <1>1, <2>2 DEF Going, Unlisting
  <2>6. Listed'
    BY <1>1, <2>2, <2>4, <2>5 DEF Listed
  <2> QED  BY <1>1, <2>2, <2>5, <2>6 DEF InTurn
<1> QED  BY <1>2, <1>3

\* A transaction of the block leaves the database, and the list.
LEMMA ProcessListed ==
  ASSUME Serial, Sound, Listed, InTurn,
         \/ \E replaced : ProcessBlockAccept(replaced)
         \/ ProcessBlockReject \/ ProcessBlockUnlistInvalid \/ ProcessBlockUnlist
  PROVE  Listed' /\ InTurn'
<1> DEFINE t == currentBlock[at]
<1>1. /\ UNCHANGED <<leaving, tick, restarts, currentBlock, arriving>> /\ tick = "idle" /\ arriving = {}
  BY DEF ProcessBlockAccept, ProcessBlockReject, ProcessBlockUnlistInvalid, ProcessBlockUnlist,
         Processing, ReactorMayRun, raftVars, blockVars
<1>2. leaving = {}
  BY <1>1 DEF InTurn
<1>3. CASE (\E replaced : ProcessBlockAccept(replaced)) \/ ProcessBlockReject
  <2>1. /\ mempool' = mempool \ {t} /\ mempoolList' = mempoolList /\ ~Unlisting /\ Unlisting'
        /\ at' = at
    BY <1>3 DEF ProcessBlockAccept, ProcessBlockReject, Processing, Unlisting
  <2>2. Going = {} /\ Going' = {t} /\ Listings' = Listings
    BY <1>1, <1>2, <2>1 DEF Going, Listings
  <2> HIDE DEF t
  <2>3. Listed'
    BY <1>1, <2>1, <2>2 DEF Listed
  <2> QED  BY <1>1, <1>2, <2>3 DEF InTurn
<1>4. CASE ProcessBlockUnlistInvalid \/ ProcessBlockUnlist
  <2>1. mempool' = mempool /\ mempoolList' = RemoveFirst(mempoolList, t) /\ Unlisting
    BY <1>4 DEF ProcessBlockUnlistInvalid, ProcessBlockUnlist, Unlisting
  <2>2. Going = {t} /\ Going' \subseteq {t}
    <3>1. ProcessBlockUnlistInvalid => at' = at
      BY DEF ProcessBlockUnlistInvalid
    <3>2. ProcessBlockUnlist => ~Unlisting'
      BY DEF ProcessBlockUnlist, Unlisting
    <3> QED  BY <1>1, <1>2, <1>4, <2>1, <3>1, <3>2 DEF Going
  <2>3. Listings' = Listings \ {t} /\ Distinct(mempoolList')
    BY <2>1, RemoveFirstMeans DEF Sound, Stores, Listed, Listings
  <2> HIDE DEF t
  <2>4. Listed'
    BY <1>1, <2>1, <2>2, <2>3 DEF Listed
  <2> QED  BY <1>1, <1>2, <2>4 DEF InTurn
<1> QED  BY <1>3, <1>4

\* Nothing is listed, and nothing half done, after a start.
LEMMA StartListed ==
  ASSUME Sound, NEW kept, Restart(kept)
  PROVE  Listed' /\ InTurn'
<1>1. /\ mempoolList' = << >> /\ arriving' = {} /\ leaving' = {} /\ reactor' = "idle" /\ tick' = "idle"
      /\ restarts' = restarts + 1
  BY DEF Restart
<1>2. ~Unlisting' /\ Going' = {} /\ Listings' = {} /\ Distinct(mempoolList')
  BY <1>1, EmptyList DEF Unlisting, Going, Listings
<1>3. restarts' # 0
  BY <1>1 DEF Sound, Flags
<1> QED  BY <1>1, <1>2, <1>3 DEF Listed, InTurn

\* Every step keeps the list and the mempool in step.
LEMMA ListedStep ==
  ASSUME Serial, Sound, Listed, InTurn, [Next]_vars
  PROVE  Listed' /\ InTurn'
<1>1. CASE Apply \/ Tick
  BY <1>1, RaftListed
<1>2. CASE Reactor
  BY <1>2, TryListed, AddListed, ProcessListed DEF Reactor, ProcessBlock
<1>3. CASE UNCHANGED vars
  <2>1. UNCHANGED <<mempool, mempoolList, arriving, restarts, leaving, tick, reactor, currentBlock, at>>
    BY <1>3 DEF vars, storeVars, blockVars, reactorVars, raftVars
  <2>2. Going' = Going /\ (Unlisting' <=> Unlisting)
    BY <2>1 DEF Going, Unlisting
  <2> QED  BY <2>1, <2>2, ListedStill DEF InTurn
<1> QED  BY <1>1, <1>2, <1>3, AddListed, StartListed DEF Next

\* The first state.
LEMMA ListedInit ==
  ASSUME Init
  PROVE  Listed /\ InTurn
<1>1. ~Unlisting /\ Going = {} /\ Listings = {} /\ Distinct(mempoolList)
  BY EmptyList DEF Init, Unlisting, Going, Listings
<1> QED  BY <1>1 DEF Init, Listed, InTurn

\* Between two handlers, the list never names a transaction that the mempool
\* database does not hold, names none twice, and names all of them until the
\* first restart (add_to_mempool, remove_from_mempool, process_block,
\* update_pend), if the threads do not interrupt each other.
THEOREM ListNamesMempool ==
  ASSUME Serial
  PROVE  Spec => []ListIsMempool
<1>1. Init => Sound /\ Listed /\ InTurn
  BY SoundInit, ListedInit
<1>2. (Sound /\ Listed /\ InTurn) /\ [Next]_vars => (Sound /\ Listed /\ InTurn)'
  BY SoundStep, ListedStep
<1>3. Sound /\ Listed /\ InTurn => ListIsMempool
  <2> SUFFICES ASSUME Sound, Listed, Settled
               PROVE  /\ Listings \subseteq mempool
                      /\ Len(mempoolList) = Cardinality(Listings)
                      /\ restarts = 0 => Listings = mempool
    BY DEF ListIsMempool, Listings
  <2>1. Going = {} /\ arriving = {}
    BY DEF Settled, Going, Unlisting
  <2>2. Len(mempoolList) = Cardinality(Listings)
    BY DistinctLength DEF Sound, Stores, Listed, Listings
  <2> QED  BY <2>1, <2>2 DEF Listed
<1> QED  BY <1>1, <1>2, <1>3, PTL DEF Spec

-----------------------------------------------------------------------------
(***************************************************************************)
(* A leader that inherits no block and loses no transaction to update_pend *)
(* has one block under way at most, if its threads do not interrupt each   *)
(* other: adding_block is set from the proposal until try_process has      *)
(* taken the block out of the queue, and the mempool holds all of its own  *)
(* blocks, so that it never backs off in between.  What the list names     *)
(* besides the block under way was put and is not proposed yet (Fresh).    *)
(***************************************************************************)
UnderWay == Processed < Len(log)

Waiting == IF UnderWay THEN ToSet(log[Len(log)]) ELSE {}

Fresh == (Listings \union arriving) \ Waiting

\* A transaction that may still be proposed has a put to spare.
Counted ==
    \A t \in All : Cardinality(Proposals(t)) + (IF t \in Fresh THEN 1 ELSE 0) <= puts[t]

InProcess == reactor \in {"process", "unlistInvalid", "unlist"}

Through(k) == InProcess /\ k < at

Ahead(k) == ~InProcess \/ k > at \/ (k = at /\ reactor = "process")

\* The block under way is the last one; the list holds its transactions until
\* process_block has been through them.
LastBlock ==
    /\ Len(log) <= Processed + 1
    /\ UnderWay =>
        /\ Distinct(log[Len(log)])
        /\ \A k \in DOMAIN log[Len(log)] :
              /\ Through(k) => log[Len(log)][k] \notin Listings
              /\ Ahead(k) => log[Len(log)][k] \in Listings

\* Where the threads are.
Threads ==
    /\ reactor \notin {"waiting", "stopped"} /\ (arriving # {} => reactor = "idle")
    /\ reactor \in {"current", "processing", "added", "process", "unlistInvalid", "unlist"}
           => currentBlock = log[Processed + 1]
    /\ reactor = "added" => missing = {}
    /\ UnderWay => addingBlock \/ reactor \in {"added", "process", "unlistInvalid", "unlist"}
    /\ tick = "mayAdd" => ~addingBlock
    /\ tick \in {"sendBlock", "taken"} => ~UnderWay /\ addingBlock
    /\ tick = "taken" => ToSet(txs) \subseteq Listings /\ Distinct(txs)
    /\ leaving \intersect Listings = {}

OneUnderWay == inherited = 0 /\ ~lost => Counted /\ LastBlock /\ Threads

\* What the proofs of the steps assume.
Before ==
    /\ Serial /\ Sound /\ Listed /\ InTurn
    /\ inherited = 0 /\ ~lost /\ Counted /\ LastBlock /\ Threads

\* The blocks that name a transaction can be counted.
LEMMA ProposalsCount ==
  ASSUME Queue, NEW t
  PROVE  /\ Proposals(t) \subseteq 1 .. Len(log) /\ Len(log) \in Nat
         /\ IsFiniteSet(Proposals(t)) /\ Cardinality(Proposals(t)) \in Nat
<1>1. Proposals(t) \subseteq 1 .. Len(log) /\ Len(log) \in Nat
  BY DEF Queue, Proposals
<1>2. IsFiniteSet(Proposals(t))
  <2>1. IsFiniteSet(1 .. Len(log))
    BY <1>1, FS_Interval
  <2> QED  BY <1>1, <2>1, FS_Subset
<1> QED  BY <1>1, <1>2, FS_CardinalityType

\* Nothing new to propose, and nothing proposed.
LEMMA CountStill ==
  ASSUME Sound, Counted, UNCHANGED <<log, puts>>, Fresh' \subseteq Fresh
  PROVE  Counted'
<1> SUFFICES ASSUME NEW t \in All
             PROVE  Cardinality(Proposals(t)) + (IF t \in Fresh' THEN 1 ELSE 0) <= puts[t]
  BY DEF Counted, Proposals
<1>1. Cardinality(Proposals(t)) \in Nat /\ puts[t] \in Nat
  BY ProposalsCount, ProposerAssumption DEF Sound, Stores, ProposerAssumption
<1>2. Cardinality(Proposals(t)) + (IF t \in Fresh THEN 1 ELSE 0) <= puts[t]
  BY DEF Counted
<1> QED  BY <1>1, <1>2

\* What leaves the log, the queue, the list and the loop over the block alone.
LEMMA LastStill ==
  ASSUME LastBlock, UNCHANGED <<log, Processed, Listings>>,
         \A k \in DOMAIN log[Len(log)] : (Through(k)' => Through(k)) /\ (Ahead(k)' => Ahead(k))
  PROVE  LastBlock'
<1>1. UnderWay' <=> UnderWay
  BY DEF UnderWay
<1> QED  BY <1>1 DEF LastBlock

\* A step of _onTick before the proposal.
LEMMA TickApart ==
  ASSUME Before,
         \/ \E timeout \in BOOLEAN : TickSize(timeout)
         \/ TickProcessing \/ TickAdding \/ TickAdd \/ SendBlockTake
  PROVE  Counted' /\ LastBlock' /\ Threads'
<1>1. UNCHANGED <<log, blockQueue, committed, inherited, mempoolList, arriving, puts, reactor, at,
                  currentBlock, missing, leaving>>
  BY DEF TickSize, TickProcessing, TickAdding, TickAdd, SendBlockTake, tickVars, storeVars,
         reactorVars
<1>2. UNCHANGED <<Processed, Listings, UnderWay, Waiting, Fresh>>
  BY <1>1 DEF Processed, Listings, UnderWay, Waiting, Fresh
<1>3. Counted' /\ LastBlock'
  BY <1>1, <1>2, CountStill, LastStill DEF Before, Through, Ahead, InProcess
<1>4. tick = "mayAdd" => reactor = "idle"
  BY DEF Before, InTurn, Threads
<1>5. Threads'
  <2>1. CASE \/ \E timeout \in BOOLEAN : TickSize(timeout)
             \/ TickProcessing \/ TickAdding
    BY <1>1, <1>2, <2>1 DEF Before, TickSize, TickProcessing, TickAdding, Threads, tickVars
  <2>2. CASE TickAdd
    <3>1. ~UnderWay
      BY <1>4, <2>2 DEF Before, TickAdd, Threads
    <3> QED  BY <1>1, <1>2, <2>2, <3>1 DEF Before, TickAdd, Threads
  <2>3. CASE SendBlockTake
    <3>1. ToSet(txs') \subseteq Listings /\ Distinct(txs')
      <4> DEFINE n == IF Len(mempoolList) < BlockSize THEN Len(mempoolList) ELSE BlockSize
      <4>1. n \in Nat /\ n <= Len(mempoolList) /\ mempoolList \in Seq(All)
        BY ProposerAssumption DEF ProposerAssumption, Before, Sound, Stores
      <4>2. txs' = SubSeq(mempoolList, 1, n)
        BY <2>3 DEF SendBlockTake
      <4> HIDE DEF n
      <4>3. DOMAIN txs' = 1 .. n /\ \A k \in 1 .. n : txs'[k] = mempoolList[k] /\ k \in DOMAIN mempoolList
        BY <4>1, <4>2
      <4> QED  BY <4>3 DEF ToSet, Listings, Distinct, Before, Listed
    <3> QED  BY <1>1, <1>2, <2>3, <3>1 DEF Before, SendBlockTake, Threads
  <2> QED  BY <2>1, <2>2, <2>3
<1> QED  BY <1>3, <1>5

\* A proposal takes transactions that have a put to spare.
LEMMA SendApart ==
  ASSUME Before, SendBlock
  PROVE  Counted' /\ LastBlock' /\ Threads'
<1>1. /\ UNCHANGED <<blockQueue, committed, inherited, mempoolList, arriving, puts, reactor, at,
                     currentBlock, missing, leaving, addingBlock>>
      /\ tick = "taken" /\ tick' = "idle"
  BY DEF SendBlock, tickVars, storeVars, reactorVars
<1>2. /\ ~UnderWay /\ addingBlock /\ ToSet(txs) \subseteq Listings /\ Distinct(txs)
      /\ reactor = "idle"
  BY <1>1 DEF Before, Threads, InTurn
<1>3. log \in Seq(Seq(All)) /\ Processed \in Nat /\ Processed = Len(log) /\ txs \in Seq(All)
  BY <1>2 DEF Before, Sound, Stores, Queue, Processed, UnderWay
<1>4. UNCHANGED <<Processed, Listings>>
  BY <1>1 DEF Processed, Listings
<1>5. CASE log' = log
  <2>1. UNCHANGED <<UnderWay, Waiting, Fresh>>
    BY <1>1, <1>4, <1>5 DEF UnderWay, Waiting, Fresh
  <2>2. Counted' /\ LastBlock'
    BY <1>1, <1>4, <1>5, <2>1, CountStill, LastStill DEF Before, Through, Ahead, InProcess
  <2>3. Threads'
    BY <1>1, <1>2, <1>4, <1>5, <2>1 DEF Before, Threads
  <2> QED  BY <2>2, <2>3
<1>6. CASE log' = Append(log, txs)
  <2>1. /\ log' \in Seq(Seq(All)) /\ Len(log') = Len(log) + 1 /\ log'[Len(log')] = txs
        /\ Len(log) \in Nat
        /\ \A k \in 1 .. Len(log) : log'[k] = log[k]
        /\ DOMAIN log = 1 .. Len(log) /\ DOMAIN log' = 1 .. Len(log) + 1
    BY <1>3, <1>6
  <2>2. UnderWay' /\ Waiting' = ToSet(txs) /\ Waiting = {}
    BY <1>2, <1>3, <1>4, <2>1 DEF UnderWay, Waiting
  <2>3. Counted'
    <3> SUFFICES ASSUME NEW t \in All
                 PROVE  Cardinality(Proposals(t)') + (IF t \in Fresh' THEN 1 ELSE 0) <= puts[t]
      BY <1>1 DEF Counted
    <3>1. /\ Proposals(t) \subseteq 1 .. Len(log) /\ IsFiniteSet(Proposals(t))
          /\ Cardinality(Proposals(t)) \in Nat /\ puts[t] \in Nat
      BY ProposalsCount, ProposerAssumption DEF Before, Sound, Stores, ProposerAssumption
    <3>2. Cardinality(Proposals(t)) + (IF t \in Fresh THEN 1 ELSE 0) <= puts[t]
      BY DEF Before, Counted
    <3>3. Fresh = Listings \union arriving /\ Fresh' = Fresh \ ToSet(txs)
      BY <1>1, <1>4, <2>2 DEF Fresh
    <3>4. CASE t \in ToSet(txs)
      <4>1. Proposals(t)' = Proposals(t) \union {Len(log) + 1}
        BY <2>1, <3>4 DEF Proposals
      <4>2. Len(log) + 1 \notin Proposals(t)
        BY <2>1, <3>1
      <4>3. Cardinality(Proposals(t)') = Cardinality(Proposals(t)) + 1
        BY <3>1, <4>1, <4>2, FS_AddElement
      <4>4. t \in Fresh /\ t \notin Fresh'
        BY <1>2, <3>3, <3>4
      <4> QED  BY <3>1, <3>2, <4>3, <4>4
    <3>5. CASE t \notin ToSet(txs)
      <4>1. Proposals(t)' = Proposals(t)
        BY <2>1, <3>5 DEF Proposals
      <4> QED  BY <3>1, <3>2, <3>3, <4>1
    <3> QED  BY <3>4, <3>5
  <2>4. LastBlock'
    <3>1. \A k \in DOMAIN txs : txs[k] \in Listings
      BY <1>2 DEF ToSet
    <3>2. ~InProcess'
      BY <1>1, <1>2 DEF InProcess
    <3> QED  BY <1>2, <1>3, <1>4, <2>1, <2>2, <3>1, <3>2 DEF LastBlock, Through
  <2>5. Threads'
    BY <1>1, <1>2, <1>3, <1>4, <2>1, <2>2 DEF Before, Threads
  <2> QED  BY <2>3, <2>4, <2>5
<1> QED  BY <1>5, <1>6 DEF SendBlock

\* add_block_to_queue changes nothing of that, unless a transaction is lost.
LEMMA ApplyApart ==
  ASSUME Before, Apply, ~lost'
  PROVE  Counted' /\ LastBlock' /\ Threads'
<1>1. UNCHANGED <<arriving, reactor, at, missing, currentBlock, puts>>
  BY RaftThread DEF reactorVars
<1>2. UNCHANGED <<log, addingBlock>> /\ tick' \in {"updatePend", "unlist", "idle"}
  BY DEF Apply, UpdatePend, UpdatePendAccept, UpdatePendReject, UpdatePendUnlist, AddBlockToQueue,
         blockVars
<1>3. Listings' = Listings /\ leaving' \intersect Listings' = {}
  <2>1. ASSUME NEW t \in due, UpdatePendReject(t)  PROVE Listings' = Listings /\ t \notin Listings
    <3>1. mempoolList' = mempoolList /\ t \notin mempool /\ tick = "updatePend"
      BY <2>1 DEF UpdatePendReject
    <3>2. leaving = {} /\ ~Unlisting
      BY <3>1 DEF Before, InTurn, Unlisting
    <3> QED  BY <3>1, <3>2 DEF Before, Listed, Going, Listings
  <2>2. CASE UpdatePendUnlist
    <3>1. PICK t \in leaving : mempoolList' = RemoveFirst(mempoolList, t)
      BY <2>2 DEF UpdatePendUnlist
    <3>2. Listings' = Listings \ {t}
      BY <3>1, RemoveFirstMeans DEF Before, Sound, Stores, Listed, Listings
    <3>3. t \notin Listings /\ leaving' = {}
      BY <2>2, <3>1 DEF Before, Threads, UpdatePendUnlist
    <3> QED  BY <3>2, <3>3
  <2>3. CASE ~UpdatePendUnlist /\ ~\E t \in due : UpdatePendReject(t)
    <3>1. UNCHANGED <<mempoolList, leaving>>
      BY <2>3 DEF Apply, UpdatePend, UpdatePendAccept, AddBlockToQueue, storeVars
    <3> QED  BY <3>1 DEF Before, Threads, Listings
  <2> QED  BY <2>1, <2>2, <2>3 DEF UpdatePendReject
<1>4. Processed' = Processed
  <2>1. CASE AddBlockToQueue
    <3>1. /\ committed' = committed + 1 /\ blockQueue' = Append(blockQueue, log[committed + 1])
          /\ committed \in Nat /\ blockQueue \in Seq(Seq(All)) /\ log[committed + 1] \in Seq(All)
      BY <2>1 DEF AddBlockToQueue, Before, Sound, Queue
    <3> QED  BY <3>1 DEF Processed
  <2>2. CASE ~AddBlockToQueue
    BY <2>2 DEF Apply, UpdatePend, UpdatePendAccept, UpdatePendReject, UpdatePendUnlist, blockVars,
                Processed
  <2> QED  BY <2>1, <2>2
<1>5. UNCHANGED <<UnderWay, Waiting, Fresh>>
  BY <1>1, <1>2, <1>3, <1>4 DEF UnderWay, Waiting, Fresh
<1>6. Counted' /\ LastBlock'
  BY <1>1, <1>2, <1>3, <1>4, <1>5, CountStill, LastStill DEF Before, Through, Ahead, InProcess
<1>7. Threads'
  BY <1>1, <1>2, <1>3, <1>4, <1>5 DEF Before, Threads
<1> QED  BY <1>6, <1>7

\* What is put has a put to spare.
LEMMA PutApart ==
  ASSUME Before, \/ \E t \in All : PutTxn(t)
                 \/ ListTxn
  PROVE  Counted' /\ LastBlock' /\ Threads'
<1>1. UNCHANGED <<log, blockQueue, committed, inherited, reactor, at, missing, currentBlock,
                  addingBlock, tick, txs, leaving>> /\ tick = "idle"
  BY DEF Before, PutTxn, ListTxn, blockVars, raftVars, ReactorMayRun
<1>2. UNCHANGED <<Processed, UnderWay, Waiting>>
  BY <1>1 DEF Processed, UnderWay, Waiting
<1>3. ASSUME NEW t \in All, PutTxn(t)  PROVE Counted' /\ LastBlock' /\ Threads'
  <2>1. /\ mempoolList' = mempoolList /\ arriving = {} /\ arriving' = {t} /\ t \notin mempool
        /\ puts' = [puts EXCEPT ![t] = @ + 1] /\ ~Unlisting /\ reactor = "idle"
    BY <1>3 DEF PutTxn, ReactorMayRun, Unlisting, Before, Threads
  <2>2. Listings' = Listings
    BY <2>1 DEF Listings
  <2>3. t \notin Listings
    BY <1>1, <2>1, NothingGoing DEF Before, Listed
  <2>4. Counted'
    <3> SUFFICES ASSUME NEW u \in All
                 PROVE  Cardinality(Proposals(u)) + (IF u \in Fresh' THEN 1 ELSE 0) <= puts'[u]
      BY <1>1 DEF Counted, Proposals
    <3>1. Cardinality(Proposals(u)) \in Nat /\ puts \in [All -> 0 .. MaxPuts] /\ puts[u] \in Nat
      BY ProposalsCount, ProposerAssumption DEF Before, Sound, Stores, ProposerAssumption
    <3>2. Cardinality(Proposals(u)) + (IF u \in Fresh THEN 1 ELSE 0) <= puts[u]
      BY DEF Before, Counted
    <3>3. puts'[u] = IF u = t THEN puts[u] + 1 ELSE puts[u]
      BY <2>1, <3>1
    <3>4. u \in Fresh' => u \in Fresh \/ u = t
      BY <1>2, <2>1, <2>2 DEF Fresh
    <3>5. t \notin Fresh
      BY <2>1, <2>3 DEF Fresh
    <3> QED  BY <3>1, <3>2, <3>3, <3>4, <3>5
  <2>5. LastBlock'
    BY <1>1, <1>2, <2>2, LastStill DEF Before, Through, Ahead, InProcess
  <2> QED  BY <1>1, <1>2, <2>1, <2>2, <2>4, <2>5 DEF Before, Threads
<1>4. CASE ListTxn
  <2>1. PICK t \in arriving : mempoolList' = Append(mempoolList, t)
    BY <1>4 DEF ListTxn
  <2>2. arriving = {t} /\ arriving' = {} /\ puts' = puts
    BY <1>4, <2>1 DEF Before, InTurn, ListTxn
  <2>3. Listings' = Listings \union {t} /\ t \in mempool /\ t \notin Listings
    BY <2>1, <2>2, AppendMeans DEF Before, Sound, Stores, Listed, Listings
  <2>4. Fresh' = Fresh
    BY <1>2, <2>2, <2>3 DEF Fresh
  <2>5. Counted'
    BY <1>1, <2>2, <2>4, CountStill DEF Before
  <2>6. ~InProcess
    BY <2>2 DEF Before, Threads, InProcess
  <2>7. LastBlock'
    BY <1>1, <1>2, <2>3, <2>6 DEF Before, LastBlock, UnderWay, Through, Ahead, InProcess
  <2>8. leaving = {}
    BY <1>1 DEF Before, InTurn
  <2> QED  BY <1>1, <1>2, <2>2, <2>3, <2>5, <2>7, <2>8 DEF Before, Threads
<1> QED  BY <1>3, <1>4

\* Nothing is missing from the leader's own block, so that try_process goes on
\* to process_block, and process_block to the end.
LEMMA OwnBlock ==
  ASSUME Before, reactor \in {"added", "process", "unlistInvalid", "unlist"}
  PROVE  /\ UnderWay /\ currentBlock = log[Len(log)] /\ Processed + 1 = Len(log)
         /\ missing = {} \/ reactor # "added"
         /\ \A k \in DOMAIN currentBlock : Ahead(k) => currentBlock[k] \in mempool \union Going
<1>1. /\ Processed + 1 <= committed /\ committed <= Len(log) /\ Processed \in Nat
      /\ committed \in Nat /\ Len(log) \in Nat
  BY QueueHead DEF Before, Sound, Queue
<1>2. Processed + 1 = Len(log)
  <2>1. Len(log) <= Processed + 1
    BY DEF Before, LastBlock
  <2> QED  BY <1>1, <2>1
<1>3. currentBlock = log[Len(log)] /\ UnderWay
  BY <1>1, <1>2 DEF Before, Threads, UnderWay
<1>4. \A k \in DOMAIN currentBlock : Ahead(k) => currentBlock[k] \in mempool \union Going
  BY <1>3 DEF Before, LastBlock, Listed
<1> QED  BY <1>2, <1>3, <1>4 DEF Before, Threads

\* The steps of try_process, and the last one of process_block.
LEMMA TryApart ==
  ASSUME Before,
         \/ TryProcess \/ TryProcessLock \/ TryProcessAdded \/ TryProcessScan
         \/ TryProcessComplete \/ ProcessBlockUnlock
  PROVE  Counted' /\ LastBlock' /\ Threads'
<1>1. /\ UNCHANGED <<log, blockQueue, committed, inherited, mempoolList, arriving, puts, tick, txs,
                     leaving>>
      /\ tick = "idle" /\ arriving = {}
  BY DEF Before, TryProcess, TryProcessLock, TryProcessAdded, TryProcessScan, TryProcessComplete,
         ProcessBlockUnlock, storeVars, blockVars, raftVars, ReactorMayRun
<1>2. UNCHANGED <<Processed, Listings, UnderWay, Waiting, Fresh>>
  BY <1>1 DEF Processed, Listings, UnderWay, Waiting, Fresh
<1>3. Counted'
  BY <1>1, <1>2, CountStill DEF Before
<1>4. ~InProcess
  BY DEF TryProcess, TryProcessLock, TryProcessAdded, TryProcessScan, TryProcessComplete,
         ProcessBlockUnlock, InProcess
<1>5. \A k \in DOMAIN log[Len(log)] : (Through(k)' => Through(k)) /\ (Ahead(k)' => Ahead(k))
  <2>1. CASE TryProcessComplete
    <3>1. at' = 1
      BY <2>1 DEF TryProcessComplete
    <3>2. \A k \in DOMAIN log[Len(log)] : ~(k < 1)
      <4>1. CASE log = << >>
        <5>1. reactor = "added"
          BY <2>1 DEF TryProcessComplete
        <5> QED  BY <4>1, <5>1, OwnBlock DEF UnderWay, Before, Sound, Queue
      <4>2. CASE log # << >>
        <5>1. log[Len(log)] \in Seq(All)
          BY <4>2 DEF Before, Sound, Queue
        <5> QED  BY <5>1
      <4> QED  BY <4>1, <4>2
    <3> QED  BY <1>4, <3>1, <3>2 DEF Through, Ahead
  <2>2. CASE ~TryProcessComplete
    <3>1. ~InProcess'
      BY <2>2 DEF TryProcess, TryProcessLock, TryProcessAdded, TryProcessScan,
                  ProcessBlockUnlock, InProcess
    <3> QED  BY <1>4, <3>1 DEF Through, Ahead
  <2> QED  BY <2>1, <2>2
<1>6. LastBlock'
  BY <1>1, <1>2, <1>5, LastStill DEF Before
<1>7. Threads'
  <2>1. CASE TryProcess
    <3>1. Head(blockQueue) = log[Processed + 1]
      BY <2>1, QueueHead DEF TryProcess, Before, Sound
    <3> QED  BY <1>1, <1>2, <2>1, <3>1 DEF TryProcess, Before, Threads
  <2>2. CASE TryProcessLock
    BY <1>1, <1>2, <2>2 DEF TryProcessLock, Before, Threads
  <2>3. CASE TryProcessAdded
    BY <1>1, <1>2, <2>3 DEF TryProcessAdded, Before, Threads
  <2>4. CASE TryProcessScan
    <3>1. at \in DOMAIN currentBlock /\ reactor = "added"
      BY <2>4 DEF TryProcessScan, Before, Sound, Places
    <3>2. Going = {} /\ Ahead(at)
      BY <1>1, <1>4, <3>1, NothingGoing DEF Before, Unlisting, Ahead
    <3>3. currentBlock[at] \in mempool /\ missing = {}
      BY <3>1, <3>2, OwnBlock
    <3>4. missing' = {} /\ UNCHANGED <<reactor, currentBlock, addingBlock>>
      BY <2>4, <3>3 DEF TryProcessScan, blockVars
    <3> QED  BY <1>1, <1>2, <3>4 DEF Before, Threads
  <2>5. CASE TryProcessComplete
    BY <1>1, <1>2, <2>5 DEF TryProcessComplete, Before, Threads, blockVars
  <2>6. CASE ProcessBlockUnlock
    BY <1>1, <1>2, <2>6 DEF ProcessBlockUnlock, Before, Threads
  <2> QED  BY <2>1, <2>2, <2>3, <2>4, <2>5, <2>6
<1> QED  BY <1>3, <1>6, <1>7

\* The processed transaction leaves the mempool and the list.
LEMMA ProcessApart ==
  ASSUME Before,
         \/ \E replaced : ProcessBlockAccept(replaced)
         \/ ProcessBlockReject \/ ProcessBlockUnlistInvalid \/ ProcessBlockUnlist
  PROVE  Counted' /\ LastBlock' /\ Threads'
<1>1. /\ UNCHANGED <<log, blockQueue, committed, inherited, arriving, puts, tick, txs, leaving,
                     currentBlock, addingBlock, missing>>
      /\ tick = "idle" /\ arriving = {}
      /\ reactor \in {"process", "unlistInvalid", "unlist"}
      /\ reactor' \in {"process", "unlistInvalid", "unlist"}
  BY DEF Before, ProcessBlockAccept, ProcessBlockReject, ProcessBlockUnlistInvalid,
         ProcessBlockUnlist, Processing, blockVars, raftVars, ReactorMayRun
<1>2. UNCHANGED <<Processed, UnderWay, Waiting>>
  BY <1>1 DEF Processed, UnderWay, Waiting
<1>3. /\ UnderWay /\ currentBlock = log[Len(log)] /\ at \in Nat
      /\ currentBlock \in Seq(All) /\ DOMAIN currentBlock \subseteq Nat
  BY <1>1, OwnBlock DEF Before, Sound, Places
<1>4. leaving = {}
  BY <1>1 DEF Before, InTurn
<1>5. InProcess /\ InProcess'
  BY <1>1 DEF InProcess
<1>6. CASE (\E replaced : ProcessBlockAccept(replaced)) \/ ProcessBlockReject
  <2>1. mempoolList' = mempoolList /\ at' = at /\ reactor = "process" /\ reactor' # "process"
    BY <1>6 DEF ProcessBlockAccept, ProcessBlockReject, Processing
  <2>2. Listings' = Listings /\ Fresh' = Fresh
    BY <1>1, <1>2, <2>1 DEF Listings, Fresh
  <2>3. \A k \in DOMAIN log[Len(log)] : (Through(k)' => Through(k)) /\ (Ahead(k)' => Ahead(k))
    BY <1>5, <2>1 DEF Through, Ahead
  <2>4. Counted' /\ LastBlock'
    BY <1>1, <1>2, <2>2, <2>3, CountStill, LastStill DEF Before
  <2> QED  BY <1>1, <1>2, <1>4, <2>2, <2>4 DEF Before, Threads
<1>7. CASE ProcessBlockUnlistInvalid \/ ProcessBlockUnlist
  <2> DEFINE t == currentBlock[at]
  <2>1. mempoolList' = RemoveFirst(mempoolList, t) /\ at \in DOMAIN currentBlock
    BY <1>7 DEF ProcessBlockUnlistInvalid, ProcessBlockUnlist, Before, Sound, Places
  <2>2. Listings' = Listings \ {t}
    BY <2>1, RemoveFirstMeans DEF Before, Sound, Stores, Listed, Listings
  <2>3. Fresh' \subseteq Fresh
    BY <1>1, <1>2, <2>2 DEF Fresh
  <2>4. Counted'
    BY <1>1, <2>3, CountStill DEF Before
  <2>5. Distinct(currentBlock)
    BY <1>3 DEF Before, LastBlock
  <2>6. \A k \in DOMAIN currentBlock : k # at => currentBlock[k] # t
    BY <2>1, <2>5 DEF Distinct
  <2>7. \A k \in DOMAIN currentBlock : /\ Through(k)' => Through(k) \/ k = at
                                       /\ Ahead(k)' => Ahead(k) /\ k # at
    <3>1. CASE ProcessBlockUnlistInvalid
      <4>1. at' = at /\ reactor' = "unlist" /\ reactor = "unlistInvalid"
        BY <3>1 DEF ProcessBlockUnlistInvalid
      <4> QED  BY <1>3, <1>5, <4>1 DEF Through, Ahead
    <3>2. CASE ProcessBlockUnlist
      <4>1. at' = at + 1 /\ reactor' = "process" /\ reactor = "unlist"
        BY <3>2 DEF ProcessBlockUnlist
      <4> QED  BY <1>3, <1>5, <4>1 DEF Through, Ahead
    <3> QED  BY <1>7, <3>1, <3>2
  <2> HIDE DEF t
  <2>8. currentBlock[at] = t
    BY DEF t
  <2>9. ASSUME NEW k \in DOMAIN currentBlock
        PROVE  /\ Through(k)' => currentBlock[k] \notin Listings'
               /\ Ahead(k)' => currentBlock[k] \in Listings'
    <3>1. /\ Through(k) => currentBlock[k] \notin Listings
          /\ Ahead(k) => currentBlock[k] \in Listings
      BY <1>3 DEF Before, LastBlock
    <3>2. /\ Through(k)' => Through(k) \/ k = at
          /\ Ahead(k)' => Ahead(k) /\ k # at
      BY <2>7
    <3> QED  BY <2>2, <2>6, <2>8, <3>1, <3>2
  <2>10. LastBlock'
    <3>1. Len(log) <= Processed + 1 /\ Distinct(log[Len(log)])
      BY <1>3 DEF Before, LastBlock
    <3>2. currentBlock = log[Len(log)] /\ log' = log /\ UNCHANGED <<Processed, UnderWay>>
      BY <1>1, <1>2, <1>3
    <3> QED  BY <2>9, <3>1, <3>2 DEF LastBlock
  <2> QED  BY <1>1, <1>2, <1>4, <2>4, <2>10 DEF Before, Threads
<1> QED  BY <1>6, <1>7

\* After that the next proposal may be made.
LEMMA ResetApart ==
  ASSUME Before, ProcessBlockReset
  PROVE  Counted' /\ LastBlock' /\ Threads'
<1>1. /\ UNCHANGED <<log, committed, inherited, mempoolList, arriving, puts, tick, txs, leaving,
                     addingBlock>>
      /\ tick = "idle" /\ arriving = {} /\ reactor = "process" /\ reactor' = "reset"
      /\ blockQueue' = Tail(blockQueue)
  BY DEF Before, ProcessBlockReset, storeVars, raftVars, ReactorMayRun
<1>2. /\ Processed \in Nat /\ committed \in Nat /\ Len(log) \in Nat /\ Processed + 1 = Len(log)
      /\ UnderWay /\ currentBlock = log[Len(log)] /\ at > Len(currentBlock)
      /\ currentBlock \in Seq(All) /\ at \in Nat
  BY <1>1, QueueHead, OwnBlock DEF Before, Sound, Queue, Places, ProcessBlockReset
<1>3. Processed' = Processed + 1 /\ ~UnderWay' /\ Waiting' = {}
  <2>1. Len(blockQueue') = Len(blockQueue) - 1 /\ Len(blockQueue) \in Nat
    <3>1. blockQueue # << >> /\ blockQueue \in Seq(Seq(All))
      BY <1>1 DEF Before, Sound, Queue
    <3> QED  BY <1>1, <3>1
  <2>2. Processed' = Processed + 1
    <3>1. committed' = committed /\ committed \in Nat
      BY <1>1, <1>2
    <3>2. Processed' = committed' - Len(blockQueue') /\ Processed = committed - Len(blockQueue)
      BY DEF Processed
    <3> QED  BY <2>1, <3>1, <3>2
  <2> QED  BY <1>1, <1>2, <2>2 DEF UnderWay, Waiting
<1>4. Waiting \intersect Listings = {}
  <2> SUFFICES ASSUME NEW k \in DOMAIN currentBlock  PROVE currentBlock[k] \notin Listings
    BY <1>2 DEF Waiting, ToSet
  <2>1. Through(k)
    BY <1>1, <1>2 DEF Through, InProcess
  <2> QED  BY <1>2, <2>1 DEF Before, LastBlock
<1>5. Listings' = Listings /\ Fresh' \subseteq Fresh
  BY <1>1, <1>3, <1>4 DEF Listings, Fresh
<1>6. Counted'
  BY <1>1, <1>5, CountStill DEF Before
<1>7. LastBlock'
  BY <1>1, <1>2, <1>3 DEF LastBlock
<1>8. Threads'
  BY <1>1, <1>3, <1>5 DEF Before, Threads
<1> QED  BY <1>6, <1>7, <1>8

\* A leader that starts without a block has proposed nothing and lists nothing.
LEMMA StartApart ==
  ASSUME Sound', log' = << >>, committed' = 0, blockQueue' = << >>, mempoolList' = << >>,
         arriving' = {}, leaving' = {}, reactor' = "idle", tick' = "idle"
  PROVE  Counted' /\ LastBlock' /\ Threads'
<1>1. Len(log') = 0 /\ Processed' = 0 /\ ~UnderWay' /\ Listings' = {}
  <2>1. Len(log') = 0 /\ Len(blockQueue') = 0 /\ committed' = 0
    OBVIOUS
  <2>2. Processed' = 0
    <3>1. Processed' = committed' - Len(blockQueue')
      BY DEF Processed
    <3> QED  BY <2>1, <3>1
  <2> QED  BY <2>1, <2>2, EmptyList DEF UnderWay, Listings
<1>2. Counted'
  <2> SUFFICES ASSUME NEW t \in All
               PROVE  Cardinality(Proposals(t)') + (IF t \in Fresh' THEN 1 ELSE 0) <= puts'[t]
    BY DEF Counted
  <2>1. DOMAIN log' = {}
    OBVIOUS
  <2>2. Proposals(t)' = {}
    BY <2>1 DEF Proposals
  <2>3. Cardinality(Proposals(t)') = 0
    BY <2>2, FS_EmptySet
  <2>4. puts'[t] \in Nat
    BY ProposerAssumption DEF ProposerAssumption, Sound, Stores
  <2>5. Fresh' = {}
    BY <1>1 DEF Fresh
  <2> QED  BY <2>3, <2>4, <2>5
<1> QED  BY <1>1, <1>2 DEF LastBlock, Threads

\* Every step keeps at most one block under way, and its transactions put.
LEMMA OnceStep ==
  ASSUME Serial, Sound, Listed, InTurn, OneUnderWay, [Next]_vars
  PROVE  OneUnderWay'
<1> SUFFICES ASSUME inherited' = 0, ~lost'  PROVE Counted' /\ LastBlock' /\ Threads'
  BY DEF OneUnderWay
<1>1. ASSUME NEW kept \in 0 .. MaxLog, Restart(kept)  PROVE Counted' /\ LastBlock' /\ Threads'
  <2>1. /\ log' = SubSeq(log, 1, kept) /\ kept = 0 /\ committed' = 0 /\ blockQueue' = << >>
        /\ mempoolList' = << >> /\ arriving' = {} /\ leaving' = {} /\ reactor' = "idle"
        /\ tick' = "idle"
    BY <1>1 DEF Restart
  <2>2. log' = << >>
    BY <2>1 DEF Sound, Queue
  <2>3. Sound'
    BY SoundStep
  <2> QED  BY <2>1, <2>2, <2>3, StartApart
<1>2. CASE ~\E kept \in 0 .. MaxLog : Restart(kept)
  <2>1. inherited = 0
    BY <1>2, RaftThread, ReactorThread DEF Next, vars, raftVars
  <2>2. ~lost
    <3>1. CASE Apply
      BY <3>1 DEF Apply, UpdatePend, UpdatePendAccept, UpdatePendReject, UpdatePendUnlist,
                  AddBlockToQueue, storeVars
    <3>2. CASE Tick
      BY <3>2 DEF Tick, TickSize, TickProcessing, TickAdding, TickAdd, SendBlockTake, SendBlock,
                  tickVars, storeVars
    <3>3. CASE Reactor \/ \E t \in All : PutTxn(t)
      BY <3>3 DEF Reactor, PutTxn, ListTxn, TryProcess, TryProcessLock, TryProcessAdded,
                  TryProcessScan, TryProcessBackoff, TryProcessRequest, TryProcessComplete,
                  Received, ProcessBlock, ProcessBlockRaise, ProcessBlockAccept,
                  ProcessBlockReject, ProcessBlockUnlistInvalid, ProcessBlockUnlist,
                  ProcessBlockReset, ProcessBlockUnlock, storeVars
    <3>4. CASE UNCHANGED vars
      BY <3>4 DEF vars, storeVars
    <3> QED  BY <1>2, <3>1, <3>2, <3>3, <3>4 DEF Next
  <2>3. Before
    BY <2>1, <2>2 DEF Before, OneUnderWay
  <2>4. CASE Tick
    BY <2>3, <2>4, TickApart, SendApart DEF Tick
  <2>5. CASE Apply
    BY <2>3, <2>5, ApplyApart
  <2>6. CASE (\E t \in All : PutTxn(t)) \/ ListTxn
    BY <2>3, <2>6, PutApart
  <2>7. CASE Reactor /\ ~ListTxn
    <3>1. CASE \/ TryProcess \/ TryProcessLock \/ TryProcessAdded \/ TryProcessScan
               \/ TryProcessComplete \/ ProcessBlockUnlock
      BY <2>3, <3>1, TryApart
    <3>2. CASE TryProcessBackoff \/ TryProcessRequest
      BY <2>3, <3>2 DEF Before, Threads, TryProcessBackoff, TryProcessRequest
    <3>3. ASSUME NEW t \in missing, Received(t)  PROVE Counted' /\ LastBlock' /\ Threads'
      BY <2>3, <3>3 DEF Before, Threads, Received
    <3>4. CASE ProcessBlockRaise
      <4>1. reactor = "process" /\ at \in DOMAIN currentBlock /\ currentBlock[at] \notin mempool
            /\ tick = "idle"
        BY <2>3, <3>4 DEF ProcessBlockRaise, Processing, ReactorMayRun, Before, Sound, Places
      <4>2. Ahead(at) /\ Going = {}
        BY <2>3, <4>1, NothingGoing DEF Ahead, Before, Unlisting
      <4> QED  BY <2>3, <4>1, <4>2, OwnBlock
    <3>5. CASE \/ \E replaced : ProcessBlockAccept(replaced)
               \/ ProcessBlockReject \/ ProcessBlockUnlistInvalid \/ ProcessBlockUnlist
      BY <2>3, <3>5, ProcessApart
    <3>6. CASE ProcessBlockReset
      BY <2>3, <3>6, ResetApart
    <3> QED  BY <2>7, <3>1, <3>2, <3>3, <3>4, <3>5, <3>6 DEF Reactor, ProcessBlock
  <2>8. CASE UNCHANGED vars
    <3>1. UNCHANGED <<log, blockQueue, committed, mempoolList, arriving, puts, tick, txs, leaving,
                      addingBlock, reactor, at, currentBlock, missing>>
      BY <2>8 DEF vars, storeVars, blockVars, reactorVars, raftVars
    <3>2. UNCHANGED <<Processed, Listings, UnderWay, Waiting, Fresh>>
      BY <3>1 DEF Processed, Listings, UnderWay, Waiting, Fresh
    <3>3. Counted' /\ LastBlock'
      BY <2>3, <3>1, <3>2, CountStill, LastStill DEF Before, Through, Ahead, InProcess
    <3> QED  BY <2>3, <3>1, <3>2, <3>3 DEF Before, Threads
  <2> QED  BY <1>2, <2>4, <2>5, <2>6, <2>7, <2>8 DEF Next
<1> QED  BY <1>1, <1>2

\* At first there is none.
LEMMA OnceInit ==
  ASSUME Init
  PROVE  OneUnderWay
<1> SUFFICES ASSUME inherited = 0  PROVE Counted /\ LastBlock /\ Threads
  BY DEF OneUnderWay
<1>1. log = << >>
  <2>1. \A t \in Strangers : Len(<< <<t>> >>) = 1
    OBVIOUS
  <2>2. log = << >> \/ \E t \in Strangers : log = << <<t>> >>
    BY DEF Init
  <2>3. Len(log) = 0
    BY DEF Init
  <2> QED  BY <2>1, <2>2, <2>3
<1>2. Len(log) = 0 /\ Processed = 0 /\ ~UnderWay /\ Listings = {}
  <2>1. Len(log) = 0 /\ Len(blockQueue) = 0 /\ committed = 0 /\ mempoolList = << >>
    BY <1>1 DEF Init
  <2>2. Processed = 0
    BY <2>1 DEF Processed
  <2> QED  BY <2>1, <2>2, EmptyList DEF UnderWay, Listings
<1>3. Counted
  <2> SUFFICES ASSUME NEW t \in All
               PROVE  Cardinality(Proposals(t)) + (IF t \in Fresh THEN 1 ELSE 0) <= puts[t]
    BY DEF Counted
  <2>1. Proposals(t) = {}
    BY <1>1 DEF Proposals
  <2>2. Cardinality(Proposals(t)) = 0 /\ puts[t] = 0 /\ Fresh = {}
    BY <1>2, <2>1, FS_EmptySet DEF Init, Fresh
  <2> QED  BY <2>2
<1> QED  BY <1>2, <1>3 DEF Init, LastBlock, Threads

\* A leader whose threads do not interrupt each other, who inherits no block and
\* loses no transaction to update_pend, proposes a transaction no more often than
\* it was put (_onTick, send_block, try_process, process_block, add_to_mempool).
THEOREM NoneProposedUnasked ==
  ASSUME Serial
  PROVE  Spec => []ProposedOncePerPut
<1>1. Init => Sound /\ Listed /\ InTurn /\ OneUnderWay
  BY SoundInit, ListedInit, OnceInit
<1>2. (Sound /\ Listed /\ InTurn /\ OneUnderWay) /\ [Next]_vars
          => (Sound /\ Listed /\ InTurn /\ OneUnderWay)'
  BY SoundStep, ListedStep, OnceStep
<1>3. Sound /\ OneUnderWay => ProposedOncePerPut
  <2> SUFFICES ASSUME Sound, Counted, NEW t \in All
               PROVE  Cardinality(Proposals(t)) <= puts[t]
    BY DEF OneUnderWay, ProposedOncePerPut
  <2>1. Cardinality(Proposals(t)) \in Nat /\ puts[t] \in Nat
    BY ProposalsCount, ProposerAssumption DEF Sound, Stores, ProposerAssumption
  <2> QED  BY <2>1 DEF Counted
<1> QED  BY <1>1, <1>2, <1>3, PTL DEF Spec

=============================================================================
