------------------------------ MODULE RaftProofs ------------------------------
(***************************************************************************)
(* Theorems about module Raft, for every set of nodes and commands and     *)
(* every value of the bounds: the types of its variables; for a cluster    *)
(* whose membership does not change and whose nodes do not restart,        *)
(* ElectionSafety and LogMatching; whatever happens, AppliedOnce; unless a *)
(* thread has ended with the assertion on an answer, CallbackKept; and if  *)
(* no node is the subject of two changes, OthersFollowLog.                 *)
(*                                                                         *)
(* An action is the composition of a few elementary moves: a node steps    *)
(* back, campaigns, votes, counts a vote, leads, appends to its log or     *)
(* overwrites it, and messages are sent, taken or lost.  The invariant is  *)
(* therefore an operator of what the nodes and the net may be, Sound, that *)
(* each move preserves; that an action preserves it follows move by move.  *)
(***************************************************************************)
EXTENDS Raft, FoldLemmas, SequenceTheorems

-----------------------------------------------------------------------------
(***************************************************************************)
(* The states of one node, and the messages.                               *)
(***************************************************************************)
Reasons == {"SUCCESS", "LEADER_CHANGED", "REQUEST_DENIED", "NOT_LEADER", "QUEUE_FULL", "DISCARDED"}

State == {"FOLLOWER", "CANDIDATE", "LEADER", "ENDED"}

Term == 0 .. MaxTerm

Somebody == Node \union {Nobody}

Log == Seq(Entry)

Positions == [Node -> Nat]

Queue == Seq([cmd : Submittable, from : Somebody, id : Nat])

Replies == SUBSET [id : Nat, cmd : Submittable]

Waits == SUBSET [idx : Nat, term : Term, cmd : Submittable]

Calls == SUBSET [cmd : Submittable, reason : Reasons]

Others == SUBSET Node

Fields ==
    [state : State, term : Term, votedFor : Somebody, votes : Nat, leader : Somebody,
     log : Log, commit : Nat, next : Positions, match : Positions, noop : Nat,
     others : Others, queue : Queue, done : Log, counter : Nat,
     reply : Replies, waits : Waits, called : Calls]

\* What ties the fields of node n together: every log begins with the entry of
\* term 0 that the code puts there, which next never falls back on.
Wellformed(n, r) ==
    /\ r \in Fields
    /\ r.commit \in 1 .. Len(r.log)
    /\ r.log[1].term = 0
    /\ \A m \in Node : r.next[m] >= 2
    /\ r.others \subseteq Peers(n)

\* The first entry of a log is known to everybody.
Placed(q) == q.prevLogIdx = 1 => q.prevLogTerm = 0

RequestVotes == [type : {"request_vote"}, term : Term, lastLogIdx : Nat, lastLogTerm : Term]

ResponseVotes == [type : {"response_vote"}, term : Term]

Appends ==
    {q \in [type : {"append_entries"}, term : Term, commit : Nat \ {0},
            prevLogIdx : Nat, prevLogTerm : Term, entries : Log] : Placed(q)}

Positioned == [type : {"next_node_idx"}, next : Nat \ {0, 1}, reset : BOOLEAN, success : BOOLEAN]

Forwarded == [type : {"apply_command"}, cmd : Submittable, id : Nat]

Responses ==
    [type : {"apply_command_response"}, id : Nat, reason : Reasons, idx : Nat, term : Term]

Message ==
    UNION {RequestVotes, ResponseVotes, Appends, Positioned, Forwarded, Responses}

\* What elections and logs depend on is the same in r and s.
Alike(r, s) ==
    /\ s.state = r.state /\ s.term = r.term /\ s.votedFor = r.votedFor /\ s.votes = r.votes
    /\ s.log = r.log /\ s.others = r.others

-----------------------------------------------------------------------------
(***************************************************************************)
(* The smaller of two numbers.                                             *)
(***************************************************************************)
LEMMA MinOfTwo ==
  ASSUME NEW a \in Int, NEW b \in Int
  PROVE  Min({a, b}) = IF a <= b THEN a ELSE b
BY DEF Min

-----------------------------------------------------------------------------
(***************************************************************************)
(* The operators that a tick is made of.                                   *)
(***************************************************************************)
LEMMA FollowerType ==
  ASSUME NEW n \in Node, NEW r, Wellformed(n, r)
  PROVE  LET s == Follower(r)
         IN  /\ Wellformed(n, s)
             /\ s.state = "FOLLOWER" /\ s.term = r.term /\ s.votedFor = r.votedFor /\ s.votes = 0
             /\ s.log = r.log /\ s.others = r.others /\ s.commit = r.commit /\ s.done = r.done
<1>1. r \in Fields
  BY DEF Wellformed
<1>2. "FOLLOWER" \in State /\ [m \in Node |-> 2] \in Positions /\ [m \in Node |-> 0] \in Positions
  BY DEF State, Positions
<1>3. Follower(r) \in Fields
  BY <1>1, <1>2, Zenon DEF Fields, Follower
<1>4. LET s == Follower(r)
      IN  /\ s.state = "FOLLOWER" /\ s.term = r.term /\ s.votedFor = r.votedFor /\ s.votes = 0
          /\ s.log = r.log /\ s.others = r.others /\ s.commit = r.commit /\ s.done = r.done
          /\ s.next = [m \in Node |-> 2]
  BY <1>1 DEF Fields, Follower
<1> QED BY <1>3, <1>4 DEF Wellformed

\* A log with one more entry.
LEMMA AppendType ==
  ASSUME NEW S, NEW log \in Seq(S), log # << >>, NEW e \in S
  PROVE  /\ Append(log, e) \in Seq(S) /\ Len(Append(log, e)) = Len(log) + 1
         /\ \A i \in 1 .. Len(log) : Append(log, e)[i] = log[i]
         /\ Append(log, e)[Len(log) + 1] = e
         /\ Len(log) \in Nat \ {0}
BY AppendProperties, LenProperties, EmptySeq

\* The log of a well-formed node.
LEMMA WellformedLog ==
  ASSUME NEW n \in Node, NEW r, Wellformed(n, r)
  PROVE  /\ r.log \in Seq(Entry) /\ r.log # << >> /\ Len(r.log) \in Nat \ {0}
         /\ DOMAIN r.log = 1 .. Len(r.log)
         /\ \A i \in 1 .. Len(r.log) : r.log[i] \in Entry /\ r.log[i].term \in Term
         /\ r.term \in Term /\ r.commit \in 1 .. Len(r.log) /\ r.log[1].term = 0
         /\ r.done \in Seq(Entry) /\ Len(r.done) \in Nat
<1>1. r.log \in Seq(Entry) /\ r.commit \in 1 .. Len(r.log) /\ r.log[1].term = 0 /\ r.term \in Term
      /\ r.done \in Seq(Entry)
  BY DEF Wellformed, Fields, Log
<1>2. Len(r.log) \in Nat \ {0} /\ r.log # << >>
  BY <1>1, LenProperties, EmptySeq
<1>3. \A i \in 1 .. Len(r.log) : r.log[i] \in Entry
  BY <1>1, ElementOfSeq
<1> QED BY <1>1, <1>2, <1>3, LenProperties DEF Entry, Term

\* A new leader appends its no-op and nothing else of interest changes.
LEMMA BecomeLeaderType ==
  ASSUME NEW n \in Node, NEW r, Wellformed(n, r)
  PROVE  LET s == BecomeLeader(r, n)
         IN  /\ Wellformed(n, s)
             /\ s.state = "LEADER" /\ s.term = r.term /\ s.votedFor = r.votedFor
             /\ s.votes = r.votes /\ s.others = r.others /\ s.commit = r.commit /\ s.done = r.done
             /\ s.log = Append(r.log, [cmd |-> NoOp, term |-> r.term])
<1>1. r \in Fields /\ r.log # << >>
  BY WellformedLog DEF Wellformed
<1> DEFINE e == [cmd |-> NoOp, term |-> r.term]
<1>2. e \in Entry
  BY <1>1, WellformedLog DEF Entry, Term
<1>3. /\ Append(r.log, e) \in Log
      /\ Len(Append(r.log, e)) = Len(r.log) + 1
      /\ Append(r.log, e)[1] = r.log[1]
      /\ Len(r.log) \in Nat \ {0}
  BY <1>1, <1>2, WellformedLog, AppendType DEF Log
<1>4. /\ "LEADER" \in State /\ n \in Somebody /\ Len(r.log) + 1 \in Nat
      /\ [m \in Node |-> Len(r.log) + 1] \in Positions /\ [m \in Node |-> 0] \in Positions
  BY <1>3 DEF State, Positions, Somebody
<1>5. BecomeLeader(r, n) \in Fields
  BY <1>1, <1>3, <1>4, Zenon DEF Fields, BecomeLeader
<1>6. LET s == BecomeLeader(r, n)
      IN  /\ s.state = "LEADER" /\ s.term = r.term /\ s.votedFor = r.votedFor
          /\ s.votes = r.votes /\ s.others = r.others /\ s.commit = r.commit /\ s.done = r.done
          /\ s.log = Append(r.log, e)
          /\ s.next = [m \in Node |-> Len(r.log) + 1]
  BY <1>1 DEF Fields, BecomeLeader
<1>7. \A m \in Node : BecomeLeader(r, n).next[m] >= 2
  BY <1>3, <1>6
<1> HIDE DEF e
<1> QED BY <1>3, <1>5, <1>6, <1>7 DEF Wellformed, e

\* Calling callbacks leaves term, vote and log alone.
LEMMA CallType ==
  ASSUME NEW n \in Node, NEW r, Wellformed(n, r),
         NEW callbacks \in SUBSET Submittable, NEW reason \in Reasons
  PROVE  LET s == Call(r, callbacks, reason)
         IN  Wellformed(n, s) /\ Alike(r, s)
<1>1. r \in Fields
  BY DEF Wellformed
<1> DEFINE called == r.called \union {[cmd |-> c, reason |-> reason] : c \in callbacks}
<1>2. called \in Calls
  BY <1>1 DEF Fields, Calls
<1>3. Call(r, callbacks, reason) = [r EXCEPT !.called = called]
  BY DEF Call
<1> HIDE DEF called
<1>4. [r EXCEPT !.called = called] \in Fields
  BY <1>1, <1>2, Zenon DEF Fields
<1>5. LET s == [r EXCEPT !.called = called]
      IN  Alike(r, s) /\ s.commit = r.commit /\ s.next = r.next
  BY <1>1 DEF Alike, Fields
<1> QED BY <1>3, <1>4, <1>5 DEF Wellformed, Alike

\* So does telling the callbacks that the leader is gone.
LEMMA LeaderChangedType ==
  ASSUME NEW n \in Node, NEW r, Wellformed(n, r)
  PROVE  LET s == LeaderChanged(r)
         IN  Wellformed(n, s) /\ Alike(r, s)
<1> DEFINE called == Call(r, {c.cmd : c \in r.reply}, "LEADER_CHANGED")
<1>1. {c.cmd : c \in r.reply} \subseteq Submittable /\ "LEADER_CHANGED" \in Reasons
  BY DEF Wellformed, Fields, Replies, Reasons
<1>2. Wellformed(n, called) /\ Alike(r, called)
  BY <1>1, CallType
<1>3. LeaderChanged(r) = [called EXCEPT !.reply = {}]
  BY DEF LeaderChanged
<1> HIDE DEF called
<1>4. called \in Fields /\ {} \in Replies
  BY <1>2 DEF Wellformed, Replies
<1>5. [called EXCEPT !.reply = {}] \in Fields
  BY <1>4, Zenon DEF Fields
<1>6. LET s == [called EXCEPT !.reply = {}]
      IN  Alike(called, s) /\ s.commit = called.commit /\ s.next = called.next
  BY <1>4 DEF Alike, Fields
<1> QED BY <1>2, <1>3, <1>5, <1>6 DEF Wellformed, Alike

\* A node that becomes a candidate votes for itself in a new term, and leads at
\* once if it is its own majority.
LEMMA StartElectionType ==
  ASSUME NEW n \in Node, NEW r, Wellformed(n, r), r.term < MaxTerm
  PROVE  \E c : /\ Wellformed(n, c)
                /\ c.state = "CANDIDATE" /\ c.term = r.term + 1 /\ c.votedFor = n /\ c.votes = 1
                /\ c.others = r.others /\ c.log = r.log
                /\ StartElection(r, n) = IF Majority(c, 1) THEN BecomeLeader(c, n) ELSE c
<1> DEFINE l == LeaderChanged(r)
           c == [l EXCEPT !.state = "CANDIDATE", !.leader = Nobody,
                          !.term = @ + 1, !.votedFor = n, !.votes = 1]
<1>1. Wellformed(n, l) /\ Alike(r, l)
  BY LeaderChangedType
<1>2. StartElection(r, n) = IF Majority(r, 1) THEN BecomeLeader(c, n) ELSE c
  BY DEF StartElection
<1>3. /\ "CANDIDATE" \in State /\ Nobody \in Somebody /\ n \in Somebody /\ 1 \in Nat
      /\ l.term + 1 \in Term /\ l \in Fields
  BY <1>1, WellformedLog, RaftAssumption DEF State, Somebody, Term, Alike, Wellformed
<1> HIDE DEF l
<1>4. c \in Fields
  BY <1>3, Zenon DEF Fields
<1>5. /\ c.state = "CANDIDATE" /\ c.term = l.term + 1 /\ c.votedFor = n /\ c.votes = 1
      /\ c.others = l.others /\ c.log = l.log /\ c.commit = l.commit /\ c.next = l.next
  BY <1>3 DEF Fields
<1> HIDE DEF c
<1>6. Wellformed(n, c)
  BY <1>1, <1>4, <1>5 DEF Wellformed
<1>7. c.term = r.term + 1 /\ c.others = r.others /\ c.log = r.log
  BY <1>1, <1>5 DEF Alike
<1>8. Majority(c, 1) <=> Majority(r, 1)
  BY <1>7 DEF Majority
<1> QED BY <1>2, <1>5, <1>6, <1>7, <1>8

\* So does advancing the commit index.
LEMMA AdvanceCommitType ==
  ASSUME NEW n \in Node, NEW r, Wellformed(n, r)
  PROVE  LET s == AdvanceCommit(r, n)
         IN  Wellformed(n, s) /\ Alike(r, s)
<1> DEFINE S == {r.commit} \union
                {i \in r.commit + 1 .. Len(r.log) :
                    \A j \in r.commit + 1 .. i : Replicated(r, n, j)}
<1>1. /\ r.commit \in Nat /\ Len(r.log) \in Nat /\ r.commit <= Len(r.log) /\ r.commit >= 1
      /\ r \in Fields
  BY WellformedLog DEF Wellformed
<1>2. r.commit \in S /\ S \subseteq r.commit .. Len(r.log)
  BY <1>1
<1>3. AdvanceCommit(r, n) = [r EXCEPT !.commit = Max(S)]
  BY DEF AdvanceCommit
<1> HIDE DEF S
<1>4. Max(S) \in r.commit .. Len(r.log)
  BY <1>1, <1>2, MaxOfInterval
<1>5. Max(S) \in Nat /\ Max(S) \in 1 .. Len(r.log)
  BY <1>1, <1>4
<1>6. [r EXCEPT !.commit = Max(S)] \in Fields
  BY <1>1, <1>5, Zenon DEF Fields
<1>7. LET s == [r EXCEPT !.commit = Max(S)]
      IN  Alike(r, s) /\ s.commit = Max(S) /\ s.next = r.next
  BY <1>1 DEF Alike, Fields
<1> QED BY <1>3, <1>5, <1>6, <1>7 DEF Wellformed, Alike

\* A leader that lost its majority keeps its term and its vote.
LEMMA FallBackType ==
  ASSUME NEW n \in Node, NEW r, Wellformed(n, r)
  PROVE  LET s == FallBack(r)
         IN  /\ Wellformed(n, s)
             /\ s.state = "FOLLOWER" /\ s.term = r.term /\ s.votedFor = r.votedFor /\ s.votes = 0
             /\ s.log = r.log /\ s.others = r.others
<1> DEFINE f == Follower(r)
<1>1. Wellformed(n, f)
  BY FollowerType
<1>2. f \in Fields /\ Nobody \in Somebody
  BY <1>1 DEF Wellformed, Somebody
<1>3. FallBack(r) = [f EXCEPT !.leader = Nobody]
  BY DEF FallBack
<1>4. /\ f.state = "FOLLOWER" /\ f.term = r.term /\ f.votedFor = r.votedFor /\ f.votes = 0
      /\ f.log = r.log /\ f.others = r.others
  BY FollowerType
<1> HIDE DEF f
<1>5. [f EXCEPT !.leader = Nobody] \in Fields
  BY <1>2, Zenon DEF Fields
<1>6. LET s == [f EXCEPT !.leader = Nobody]
      IN  Alike(f, s) /\ s.commit = f.commit /\ s.next = f.next
  BY <1>2 DEF Alike, Fields
<1> QED BY <1>1, <1>3, <1>4, <1>5, <1>6 DEF Wellformed, Alike

\* Applying an entry leaves term, vote and log alone.
LEMMA ApplyType ==
  ASSUME NEW n \in Node, NEW r, Wellformed(n, r)
  PROVE  LET s == Apply(r)
         IN  Wellformed(n, s) /\ Alike(r, s)
<1> DEFINE due == {w \in r.waits : w.idx \in Newly(r)}
           done == r.done \o SubSeq(r.log, Len(r.done) + 2, r.commit)
           called == r.called \union {[cmd |-> w.cmd, reason |-> Outcome(r, w)] : w \in due}
<1>1. /\ r \in Fields /\ r.log \in Seq(Entry) /\ r.done \in Seq(Entry) /\ Len(r.done) \in Nat
      /\ r.commit \in Int /\ r.commit <= Len(r.log) /\ Len(r.log) \in Nat
  BY WellformedLog DEF Wellformed
<1>2. done \in Log
  <2>1. \A i \in Len(r.done) + 2 .. r.commit : r.log[i] \in Entry
    BY <1>1, WellformedLog
  <2>2. SubSeq(r.log, Len(r.done) + 2, r.commit) \in Seq(Entry)
    BY <1>1, <2>1, SubSeqProperties
  <2> QED BY <1>1, <2>2, ConcatProperties DEF Log
<1>3. r.waits \ due \in Waits /\ called \in Calls
  BY <1>1 DEF Fields, Waits, Calls, Outcome, Reasons
<1>4. Apply(r) = [r EXCEPT !.done = done, !.waits = r.waits \ due, !.called = called]
  BY <1>1, Zenon DEF Apply, Fields
<1> HIDE DEF done, due, called
<1>5. [r EXCEPT !.done = done, !.waits = r.waits \ due, !.called = called] \in Fields
  BY <1>1, <1>2, <1>3, Zenon DEF Fields
<1>6. LET s == [r EXCEPT !.done = done, !.waits = r.waits \ due, !.called = called]
      IN  Alike(r, s) /\ s.commit = r.commit /\ s.next = r.next
  BY <1>1 DEF Alike, Fields
<1> QED BY <1>4, <1>5, <1>6 DEF Wellformed, Alike

\* A batch ends within the log.
LEMMA BatchEndType ==
  ASSUME NEW n \in Node, NEW r, Wellformed(n, r), NEW m \in Node
  PROVE  /\ BatchEnd(r, m) \in Int /\ BatchEnd(r, m) <= Len(r.log)
         /\ r.next[m] <= Len(r.log) => BatchEnd(r, m) >= r.next[m]
         /\ r.next[m] \in Nat /\ r.next[m] >= 2
<1>1. r.next[m] \in Nat /\ r.next[m] >= 2 /\ Batch \in Nat /\ Batch >= 1 /\ Len(r.log) \in Nat
  BY WellformedLog, RaftAssumption DEF Wellformed, Fields, Positions
<1>2. BatchEnd(r, m) = IF Len(r.log) <= r.next[m] + Batch - 1 THEN Len(r.log)
                                                            ELSE r.next[m] + Batch - 1
  BY <1>1, MinOfTwo DEF BatchEnd
<1> QED BY <1>1, <1>2

\* Sending entries leaves term, vote and log alone.
LEMMA AfterSendingType ==
  ASSUME NEW n \in Node, NEW r, Wellformed(n, r), NEW up
  PROVE  LET s == AfterSending(r, up)
         IN  Wellformed(n, s) /\ Alike(r, s)
<1> DEFINE next == [m \in Node |-> IF m \in up /\ r.next[m] <= Len(r.log)
                                   THEN BatchEnd(r, m) + 1 ELSE r.next[m]]
<1>1. \A m \in Node : next[m] \in Nat /\ next[m] >= 2
  BY BatchEndType
<1>2. r \in Fields /\ next \in Positions
  BY <1>1 DEF Wellformed, Positions
<1>3. AfterSending(r, up) = [r EXCEPT !.next = next]
  BY DEF AfterSending
<1> HIDE DEF next
<1>4. [r EXCEPT !.next = next] \in Fields
  BY <1>2, Zenon DEF Fields
<1>5. LET s == [r EXCEPT !.next = next]
      IN  Alike(r, s) /\ s.commit = r.commit /\ s.next = next
  BY <1>2 DEF Alike, Fields
<1> QED BY <1>1, <1>3, <1>4, <1>5 DEF Wellformed, Alike

-----------------------------------------------------------------------------
(***************************************************************************)
(* Changes of the cluster.                                                 *)
(***************************************************************************)
\* s is r but for its list of nodes and what goes with it; without changes of the
\* cluster it is r.
Reconfigured(n, r) ==
    {s \in Fields : /\ Wellformed(n, s)
                    /\ s.state = r.state /\ s.term = r.term /\ s.votedFor = r.votedFor
                    /\ s.votes = r.votes /\ s.log = r.log /\ s.commit = r.commit
                    /\ s.queue = r.queue /\ s.waits = r.waits /\ s.done = r.done
                    /\ s.called = r.called /\ s.reply = r.reply /\ s.counter = r.counter
                    /\ Change = {} => s = r}

\* A change of the membership touches the membership only.
LEMMA DoChangeClusterType ==
  ASSUME NEW n \in Node, NEW r, Wellformed(n, r), NEW change \in Change, NEW reverse
  PROVE  DoChangeCluster(r, n, change, reverse) \in Reconfigured(n, r)
<1> DEFINE adding == (change.op = "add") # reverse
           m == change.node
           next(k) == [r.next EXCEPT ![m] = k]
           s(o, k) == [r EXCEPT !.others = o, !.next[m] = k, !.match[m] = 0]
<1>1. r \in Fields /\ m \in Node /\ Change # {} /\ Len(r.log) \in Nat \ {0}
  BY RaftAssumption, WellformedLog DEF Wellformed
<1>2. CASE Refused(r, n, adding, m)
  <2>1. DoChangeCluster(r, n, change, reverse) = r
    BY <1>2 DEF DoChangeCluster
  <2> QED BY <1>1, <2>1 DEF Reconfigured
<1>3. CASE ~Refused(r, n, adding, m)
  <2>1. m # n
    BY <1>3 DEF Refused
  <2>2. PICK o, k : /\ DoChangeCluster(r, n, change, reverse) = s(o, k)
                    /\ o = IF adding THEN r.others \union {m} ELSE r.others \ {m}
                    /\ k = IF r.state = "LEADER" /\ adding THEN Len(r.log) + 1 ELSE 2
    BY <1>1, <1>3, Zenon DEF DoChangeCluster, Fields
  <2>3. o \in Others /\ o \subseteq Peers(n) /\ k \in Nat /\ k >= 2
    BY <1>1, <2>1, <2>2 DEF Wellformed, Peers, Others
  <2>4. next(k) \in Positions /\ [r.match EXCEPT ![m] = 0] \in Positions
    BY <1>1, <2>3 DEF Fields, Positions
  <2>5. \A p \in Node : next(k)[p] >= 2
    BY <1>1, <2>3 DEF Wellformed, Fields, Positions
  <2>6. s(o, k) = [r EXCEPT !.others = o, !.next = next(k), !.match = [r.match EXCEPT ![m] = 0]]
    BY <1>1, Zenon DEF Fields
  <2>7. [r EXCEPT !.others = o, !.next = next(k), !.match = [r.match EXCEPT ![m] = 0]] \in Fields
    <3> HIDE DEF next
    <3> QED BY <1>1, <2>3, <2>4, Zenon DEF Fields
  <2>8. LET t == [r EXCEPT !.others = o, !.next = next(k), !.match = [r.match EXCEPT ![m] = 0]]
        IN  /\ t.state = r.state /\ t.term = r.term /\ t.votedFor = r.votedFor
            /\ t.votes = r.votes /\ t.log = r.log /\ t.commit = r.commit
            /\ t.queue = r.queue /\ t.waits = r.waits /\ t.done = r.done
            /\ t.called = r.called /\ t.reply = r.reply /\ t.counter = r.counter
            /\ t.others = o /\ t.next = next(k)
    <3> HIDE DEF next
    <3> QED BY <1>1 DEF Fields
  <2> DEFINE t == [r EXCEPT !.others = o, !.next = next(k), !.match = [r.match EXCEPT ![m] = 0]]
  <2>9. t \in Fields /\ t.others \subseteq Peers(n) /\ (\A p \in Node : t.next[p] >= 2)
        /\ t.commit = r.commit /\ t.log = r.log
    BY <2>3, <2>5, <2>7, <2>8
  <2>10. /\ t.state = r.state /\ t.term = r.term /\ t.votedFor = r.votedFor
         /\ t.votes = r.votes /\ t.log = r.log /\ t.commit = r.commit
         /\ t.queue = r.queue /\ t.waits = r.waits /\ t.done = r.done /\ t.called = r.called
         /\ t.reply = r.reply /\ t.counter = r.counter
    BY <2>8
  <2>11. DoChangeCluster(r, n, change, reverse) = t
    BY <2>2, <2>6
  <2> HIDE DEF t, s
  <2>12. Wellformed(n, t)
    BY <2>9 DEF Wellformed
  <2> QED BY <1>1, <2>9, <2>10, <2>11, <2>12 DEF Reconfigured
<1> QED BY <1>2, <1>3

\* Undo and Redo: many changes of the cluster, entry by entry.
\* One entry, done or undone.
Done(v, n, e, reverse) == IF e.cmd \in Change THEN DoChangeCluster(v, n, e.cmd, reverse) ELSE v

\* That touches the membership only, too.
LEMMA DoneType ==
  ASSUME NEW n \in Node, NEW r, NEW v \in Reconfigured(n, r), NEW e \in Entry, NEW reverse
  PROVE  Done(v, n, e, reverse) \in Reconfigured(n, r)
<1>1. CASE e.cmd \in Change
  <2>1. Wellformed(n, v)
    BY DEF Reconfigured
  <2>2. DoChangeCluster(v, n, e.cmd, reverse) \in Reconfigured(n, v)
    BY <1>1, <2>1, DoChangeClusterType
  <2> QED BY <1>1, <2>2 DEF Reconfigured, Done
<1>2. CASE e.cmd \notin Change
  BY <1>2 DEF Done
<1> QED BY <1>1, <1>2

\* f[U] is what the entries at the indexes U make of r, pick(U) being the last
\* of them to come.
Worked(f, r, n, entries, reverse, pick) ==
    \A U \in SUBSET DOMAIN entries :
        /\ f[U] \in Reconfigured(n, r)
        /\ U = {} => f[U] = r
        /\ U # {} => /\ pick[U] \in U
                     /\ f[U] = Done(f[U \ {pick[U]}], n, entries[pick[U]], reverse)

\* The same as an equation.
Works(f, r, n, entries, reverse, pick) ==
    f = [U \in SUBSET DOMAIN entries |->
            IF U = {} THEN r ELSE Done(f[U \ {pick[U]}], n, entries[pick[U]], reverse)]

\* Every step of it is one entry's change.
LEMMA WorkedThrough ==
  ASSUME NEW n \in Node, NEW r, Wellformed(n, r), NEW entries \in Seq(Entry),
         NEW reverse, NEW c, IsChoice(c, DOMAIN entries),
         NEW f, Works(f, r, n, entries, reverse, c)
  PROVE  Worked(f, r, n, entries, reverse, c)
<1> DEFINE S == DOMAIN entries
           T == Reconfigured(n, r)
           G == {U \in SUBSET S : f[U] \in T}
<1>1. IsFiniteSet(S) /\ \A i \in S : entries[i] \in Entry
  <2>1. S = 1 .. Len(entries) /\ Len(entries) \in Nat
    BY LenProperties
  <2>2. \A i \in 1 .. Len(entries) : entries[i] \in Entry
    BY ElementOfSeq
  <2> QED BY <2>1, <2>2, FS_Interval
<1>2. r \in T
  BY DEF Reconfigured, Wellformed
<1>3. \A U \in SUBSET S : U # {} => c[U] \in U
  BY DEF IsChoice
<1>4. \A U \in SUBSET S : f[U] = IF U = {} THEN r ELSE Done(f[U \ {c[U]}], n, entries[c[U]], reverse)
  BY DEF Works
<1> HIDE DEF T
<1>5. ASSUME NEW U \in SUBSET S, \A V \in SUBSET U : V # U => V \in G
      PROVE  U \in G
  <2>1. CASE U = {}
    BY <1>2, <1>4, <2>1
  <2>2. CASE U # {}
    <3>1. c[U] \in U /\ U \ {c[U]} \in G /\ entries[c[U]] \in Entry
      BY <1>1, <1>3, <1>5, <2>2
    <3>2. Done(f[U \ {c[U]}], n, entries[c[U]], reverse) \in T
      BY <3>1, DoneType DEF T
    <3> QED BY <1>4, <2>2, <3>2
  <2> QED BY <2>1, <2>2
<1>6. G = SUBSET S
  <2>1. G \in SUBSET SUBSET S
    OBVIOUS
  <2> HIDE DEF G, S
  <2> QED BY <1>1, <1>5, <2>1, SubsetInduction
<1>7. \A U \in SUBSET S : f[U] \in T
  BY <1>6
<1> QED BY <1>3, <1>4, <1>7 DEF Worked, T

\* There is such an f.
LEMMA WorkExists ==
  ASSUME NEW n \in Node, NEW r, Wellformed(n, r), NEW entries \in Seq(Entry),
         NEW reverse, NEW c, IsChoice(c, DOMAIN entries)
  PROVE  \E f : Works(f, r, n, entries, reverse, c)
<1> DEFINE S == DOMAIN entries
           T == Reconfigured(n, r)
           step == [i \in S |-> [v \in T |-> Done(v, n, entries[i], reverse)]]
<1>1. IsFiniteSet(S) /\ \A i \in S : entries[i] \in Entry
  BY LenProperties, FS_Interval, ElementOfSeq
<1>2. r \in T
  BY DEF Reconfigured, Wellformed
<1>3. \A x \in S, v \in T : step[x][v] = Done(v, n, entries[x], reverse) /\ step[x][v] \in T
  BY <1>1, DoneType
<1>4. \A x \in S, v \in T : step[x][v] \in T
  BY <1>3
<1>5. \A U \in SUBSET S : U # {} => c[U] \in U
  BY DEF IsChoice
<1> HIDE DEF step, S, T
<1>6. PICK f : IsFold(f, S, T, r, c, step)
  <2>1. CanFold(S, T, r, c, step)
    BY <1>1, <1>2, <1>4 DEF CanFold, S
  <2> QED BY <2>1, FoldExists
<1>7. \A U \in SUBSET S : U # {} => c[U] \in S /\ f[U \ {c[U]}] \in T
  BY <1>5, <1>6 DEF IsFold
<1>8. f = [U \in SUBSET S |-> IF U = {} THEN r ELSE Done(f[U \ {c[U]}], n, entries[c[U]], reverse)]
  <2>1. f \in [SUBSET S -> T]
    BY <1>6 DEF IsFold
  <2>2. ASSUME NEW U \in SUBSET S
        PROVE  f[U] = IF U = {} THEN r ELSE Done(f[U \ {c[U]}], n, entries[c[U]], reverse)
    <3>1. f[U] = IF U = {} THEN r ELSE step[c[U]][f[U \ {c[U]}]]
      BY <1>6 DEF IsFold
    <3> QED BY <1>3, <1>7, <3>1
  <2> QED BY <2>1, <2>2
<1> QED BY <1>8 DEF S, Works

\* Redo works from the first entry to the last one.
LEMMA RedoWorks ==
  ASSUME NEW n \in Node, NEW r, Wellformed(n, r), NEW entries \in Seq(Entry)
  PROVE  \E f, c : Redo(r, n, entries) = f[DOMAIN entries] /\ Worked(f, r, n, entries, FALSE, c)
<1> DEFINE S == DOMAIN entries
           c == [U \in SUBSET S |-> Max(U)]
           Do(v, e) == IF e.cmd \in Change THEN DoChangeCluster(v, n, e.cmd, FALSE) ELSE v
           Body(f) == [U \in SUBSET S |->
                          IF U = {} THEN r ELSE Do(f[U \ {Max(U)}], entries[Max(U)])]
           iter == CHOOSE f : f = Body(f)
<1>1. Redo(r, n, entries) = iter[S]
  BY DEF Redo, FoldLeft, MapThenFoldSet
<1>2. S = 1 .. Len(entries) /\ Len(entries) \in Nat
  BY LenProperties
<1>3. IsChoice(c, S)
  BY <1>2, MaxOfInterval DEF IsChoice
<1>4. \A f : f = Body(f) <=> Works(f, r, n, entries, FALSE, c)
  BY DEF Done, Works
<1> HIDE DEF Do
<1>5. \E f : Works(f, r, n, entries, FALSE, c)
  <2> HIDE DEF c, S
  <2>1. IsChoice(c, DOMAIN entries)
    BY <1>3 DEF S
  <2>2. \E f : Works(f, r, n, entries, FALSE, c)
    BY <2>1, WorkExists
  <2> QED BY <2>2
<1> HIDE DEF Body
<1>6. iter = Body(iter)
  BY <1>4, <1>5
<1>7. Works(iter, r, n, entries, FALSE, c)
  BY <1>4, <1>6
<1> HIDE DEF iter, c
<1>8. Worked(iter, r, n, entries, FALSE, c)
  BY <1>3, <1>7, WorkedThrough
<1> QED BY <1>1, <1>8

\* Undo from the last one to the first one.
LEMMA UndoWorks ==
  ASSUME NEW n \in Node, NEW r, Wellformed(n, r), NEW entries \in Seq(Entry)
  PROVE  \E f, c : Undo(r, n, entries) = f[DOMAIN entries] /\ Worked(f, r, n, entries, TRUE, c)
<1> DEFINE S == DOMAIN entries
           c == [U \in SUBSET S |-> Min(U)]
           Do(v, e) == IF e.cmd \in Change THEN DoChangeCluster(v, n, e.cmd, TRUE) ELSE v
           Body(f) == [U \in SUBSET S |->
                          IF U = {} THEN r ELSE Do(f[U \ {Min(U)}], entries[Min(U)])]
           iter == CHOOSE f : f = Body(f)
<1>1. Undo(r, n, entries) = iter[S]
  BY DEF Undo, FoldRight, MapThenFoldSet
<1>2. S = 1 .. Len(entries) /\ Len(entries) \in Nat
  BY LenProperties
<1>3. IsChoice(c, S)
  BY <1>2, MinOfInterval DEF IsChoice
<1>4. \A f : f = Body(f) <=> Works(f, r, n, entries, TRUE, c)
  BY DEF Done, Works
<1> HIDE DEF Do
<1>5. \E f : Works(f, r, n, entries, TRUE, c)
  <2> HIDE DEF c, S
  <2>1. IsChoice(c, DOMAIN entries)
    BY <1>3 DEF S
  <2>2. \E f : Works(f, r, n, entries, TRUE, c)
    BY <2>1, WorkExists
  <2> QED BY <2>2
<1> HIDE DEF Body
<1>6. iter = Body(iter)
  BY <1>4, <1>5
<1>7. Works(iter, r, n, entries, TRUE, c)
  BY <1>4, <1>6
<1> HIDE DEF iter, c
<1>8. Worked(iter, r, n, entries, TRUE, c)
  BY <1>3, <1>7, WorkedThrough
<1> QED BY <1>1, <1>8

\* Both touch the membership only.
LEMMA RedoType ==
  ASSUME NEW n \in Node, NEW r, Wellformed(n, r), NEW entries \in Seq(Entry)
  PROVE  Redo(r, n, entries) \in Reconfigured(n, r)
<1>1. PICK f, c : /\ Redo(r, n, entries) = f[DOMAIN entries]
                  /\ Worked(f, r, n, entries, FALSE, c)
  BY RedoWorks
<1>2. f[DOMAIN entries] \in Reconfigured(n, r)
  BY <1>1 DEF Worked
<1> QED BY <1>1, <1>2

\* So does undoing.
LEMMA UndoType ==
  ASSUME NEW n \in Node, NEW r, Wellformed(n, r), NEW entries \in Seq(Entry)
  PROVE  Undo(r, n, entries) \in Reconfigured(n, r)
<1>1. PICK f, c : /\ Undo(r, n, entries) = f[DOMAIN entries]
                  /\ Worked(f, r, n, entries, TRUE, c)
  BY UndoWorks
<1>2. f[DOMAIN entries] \in Reconfigured(n, r)
  BY <1>1 DEF Worked
<1> QED BY <1>1, <1>2

-----------------------------------------------------------------------------
(***************************************************************************)
(* Commands.                                                               *)
(***************************************************************************)
QueuedCommand == [cmd : Submittable, from : Somebody, id : Nat]

\* A leader appends a command, or refuses it.
LEMMA AcceptType ==
  ASSUME NEW n \in Node, NEW r, Wellformed(n, r), NEW q \in QueuedCommand
  PROVE  LET s == Accept(r, n, q)
         IN  /\ Wellformed(n, s)
             /\ s.state = r.state /\ s.term = r.term /\ s.votedFor = r.votedFor
             /\ s.votes = r.votes
             /\ Change = {} => s.others = r.others
             /\ s.log = r.log \/ s.log = Append(r.log, [cmd |-> q.cmd, term |-> r.term])
<1>1. CASE Denied(r, n, q.cmd)
  <2>1. Callback(q) \subseteq Submittable /\ "REQUEST_DENIED" \in Reasons
    BY DEF Callback, QueuedCommand, Reasons
  <2>2. Accept(r, n, q) = Call(r, Callback(q), "REQUEST_DENIED")
    BY <1>1 DEF Accept
  <2>3. Wellformed(n, Accept(r, n, q)) /\ Alike(r, Accept(r, n, q))
    BY <2>1, <2>2, CallType
  <2> QED BY <2>3 DEF Alike
<1>2. CASE ~Denied(r, n, q.cmd)
  <2> DEFINE c == IF q.cmd \in Change THEN DoChangeCluster(r, n, q.cmd, FALSE) ELSE r
             e == [cmd |-> q.cmd, term |-> r.term]
             w == {[idx |-> Len(r.log) + 1, term |-> r.term, cmd |-> k] : k \in Callback(q)}
  <2>1. c \in Reconfigured(n, r)
    <3>1. r \in Reconfigured(n, r)
      BY DEF Reconfigured, Wellformed
    <3> QED BY <3>1, DoChangeClusterType
  <2>2. /\ c \in Fields /\ Wellformed(n, c)
        /\ c.state = r.state /\ c.term = r.term /\ c.votedFor = r.votedFor
        /\ c.votes = r.votes /\ c.log = r.log /\ c.commit = r.commit /\ c.waits = r.waits
        /\ Change = {} => c.others = r.others
    BY <2>1 DEF Reconfigured
  <2>3. Accept(r, n, q) = [c EXCEPT !.log = Append(c.log, e), !.waits = c.waits \union w]
    <3>1. Accept(r, n, q) = [c EXCEPT !.log = Append(@, e), !.waits = @ \union w]
      BY <1>2 DEF Accept
    <3> HIDE DEF c, e, w
    <3> QED BY <3>1, <2>2, Zenon DEF Fields
  <2>4. e \in Entry /\ r.log \in Seq(Entry) /\ r.log # << >> /\ Len(r.log) \in Nat
        /\ r.log[1].term = 0 /\ r.commit \in 1 .. Len(r.log)
    BY WellformedLog DEF Entry, Term, QueuedCommand
  <2>5. c.waits \union w \in Waits
    <3>1. w \in Waits
      BY <2>4, WellformedLog DEF Waits, Callback, QueuedCommand
    <3>2. c.waits \in Waits
      <4> HIDE DEF c
      <4> QED BY <2>2 DEF Fields
    <3> QED BY <3>1, <3>2 DEF Waits
  <2> HIDE DEF c, e, w
  <2>6. /\ Append(c.log, e) \in Log /\ Len(Append(c.log, e)) = Len(r.log) + 1
        /\ Append(c.log, e)[1] = r.log[1]
    BY <2>2, <2>4, AppendType DEF Log
  <2> DEFINE s == [c EXCEPT !.log = Append(c.log, e), !.waits = c.waits \union w]
  <2>7. s \in Fields
    BY <2>2, <2>5, <2>6, Zenon DEF Fields
  <2>8. /\ s.state = c.state /\ s.term = c.term /\ s.votedFor = c.votedFor /\ s.votes = c.votes
        /\ s.log = Append(c.log, e) /\ s.commit = c.commit /\ s.next = c.next
        /\ s.others = c.others
    BY <2>2 DEF Fields
  <2> HIDE DEF s
  <2>9. Wellformed(n, s)
    BY <2>2, <2>4, <2>6, <2>7, <2>8 DEF Wellformed
  <2> QED BY <2>2, <2>3, <2>8, <2>9 DEF s, e
<1> QED BY <1>1, <1>2

\* Handing a command to the leader leaves term, vote and log alone.
LEMMA ForwardType ==
  ASSUME NEW n \in Node, NEW r, Wellformed(n, r), NEW q \in QueuedCommand
  PROVE  LET s == Forward(r, q)
         IN  Wellformed(n, s) /\ Alike(r, s) /\ s.queue = r.queue
<1>1. CASE ~HasCallback(q)
  BY <1>1 DEF Forward, Alike
<1>2. CASE HasCallback(q)
  <2> DEFINE reply == r.reply \union {[id |-> r.counter + 1, cmd |-> q.cmd]}
             s == [r EXCEPT !.counter = r.counter + 1, !.reply = reply]
  <2>1. r \in Fields
    BY DEF Wellformed
  <2>2. reply \in Replies /\ r.counter + 1 \in Nat
    BY <2>1 DEF Fields, Replies, QueuedCommand
  <2>3. Forward(r, q) = s
    BY <1>2, <2>1, Zenon DEF Forward, Fields
  <2> HIDE DEF reply
  <2>4. s \in Fields
    BY <2>1, <2>2, Zenon DEF Fields
  <2>5. Alike(r, s) /\ s.commit = r.commit /\ s.next = r.next /\ s.queue = r.queue
    BY <2>1 DEF Alike, Fields
  <2> QED BY <2>3, <2>4, <2>5 DEF Wellformed, Alike
<1> QED BY <1>1, <1>2

\* The first command in the queue, and the rest.
LEMMA QueueType ==
  ASSUME NEW n \in Node, NEW r, Wellformed(n, r), r.queue # << >>
  PROVE  Head(r.queue) \in QueuedCommand /\ Tail(r.queue) \in Queue
<1>1. r.queue \in Seq(QueuedCommand)
  BY DEF Wellformed, Fields, Queue, QueuedCommand
<1> QED BY <1>1, HeadTailProperties DEF Queue, QueuedCommand

\* Taking a command out of the queue appends it at most once, on a leader.
LEMMA CheckCommandsType ==
  ASSUME NEW n \in Node, NEW r, Wellformed(n, r), r.queue # << >>
  PROVE  LET s == CheckCommands(r, n)
         IN  /\ Wellformed(n, s)
             /\ s.state = r.state /\ s.term = r.term /\ s.votedFor = r.votedFor
             /\ s.votes = r.votes
             /\ Change = {} => s.others = r.others
             /\ \/ s.log = r.log
                \/ r.state = "LEADER" /\ s.log = Append(r.log, [cmd |-> Head(r.queue).cmd, term |-> r.term])
<1> DEFINE q == Head(r.queue)
           t == IF r.state = "LEADER" THEN Accept(r, n, q) ELSE Forward(r, q)
           s == [t EXCEPT !.queue = Tail(r.queue)]
<1>1. q \in QueuedCommand /\ Tail(r.queue) \in Queue
  BY QueueType
<1>2. /\ Wellformed(n, t)
      /\ t.state = r.state /\ t.term = r.term /\ t.votedFor = r.votedFor /\ t.votes = r.votes
      /\ Change = {} => t.others = r.others
      /\ \/ t.log = r.log
         \/ r.state = "LEADER" /\ t.log = Append(r.log, [cmd |-> q.cmd, term |-> r.term])
  <2> HIDE DEF q
  <2>1. CASE r.state = "LEADER"
    BY <1>1, <2>1, AcceptType
  <2>2. CASE r.state # "LEADER"
    BY <1>1, <2>2, ForwardType DEF Alike
  <2> QED BY <2>1, <2>2
<1>3. CheckCommands(r, n) = s
  BY DEF CheckCommands
<1> HIDE DEF t, q
<1>4. t \in Fields
  BY <1>2 DEF Wellformed
<1>5. s \in Fields
  BY <1>1, <1>4, Zenon DEF Fields
<1>6. Alike(t, s) /\ s.commit = t.commit /\ s.next = t.next
  BY <1>4 DEF Alike, Fields
<1> HIDE DEF s
<1>7. Wellformed(n, s)
  BY <1>2, <1>5, <1>6 DEF Wellformed, Alike
<1> QED BY <1>2, <1>3, <1>6, <1>7 DEF Alike, q

\* A command that is queued changes nothing but the queue and the waits.
LEMMA EnqueueType ==
  ASSUME NEW n \in Node, NEW r, Wellformed(n, r), NEW q \in QueuedCommand
  PROVE  LET s == Enqueue(r, q)
         IN  Wellformed(n, s) /\ Alike(r, s)
<1>1. CASE Full(r.queue)
  <2>1. Callback(q) \subseteq Submittable /\ "QUEUE_FULL" \in Reasons
    BY DEF Callback, QueuedCommand, Reasons
  <2> QED BY <1>1, <2>1, CallType DEF Enqueue
<1>2. CASE ~Full(r.queue)
  <2> DEFINE queue == Append(r.queue, q)
             s == [r EXCEPT !.queue = queue]
  <2>1. r \in Fields
    BY DEF Wellformed
  <2>2. queue \in Queue
    <3>1. r.queue \in Seq(QueuedCommand)
      BY <2>1 DEF Fields, Queue, QueuedCommand
    <3>2. queue \in Seq(QueuedCommand)
      BY <3>1, AppendProperties
    <3> QED BY <3>2 DEF Queue, QueuedCommand
  <2>3. Enqueue(r, q) = s
    BY <1>2 DEF Enqueue
  <2> HIDE DEF queue
  <2>4. s \in Fields
    BY <2>1, <2>2, Zenon DEF Fields
  <2>5. Alike(r, s) /\ s.commit = r.commit /\ s.next = r.next
    BY <2>1 DEF Alike, Fields
  <2> QED BY <2>3, <2>4, <2>5 DEF Wellformed, Alike
<1> QED BY <1>1, <1>2

\* The answer to a forwarded command may end the node.
LEMMA AnsweredType ==
  ASSUME NEW n \in Node, NEW r, Wellformed(n, r),
         NEW c \in [id : Nat, cmd : Submittable],
         NEW q \in Responses
  PROVE  LET s == Answered(r, c, q)
         IN  Wellformed(n, s) /\ (Alike(r, s) \/ Alike([r EXCEPT !.state = "ENDED"], s))
<1> USE DEF Responses
<1>1. r \in Fields
  BY DEF Wellformed
<1>2. CASE q.reason # "SUCCESS"
  BY <1>2, CallType DEF Answered
<1>3. CASE q.reason = "SUCCESS" /\ q.idx > Len(r.done) + 1
  <2> DEFINE waits == r.waits \union {[idx |-> q.idx, term |-> q.term, cmd |-> c.cmd]}
             s == [r EXCEPT !.waits = waits]
  <2>1. waits \in Waits
    BY <1>1 DEF Fields, Waits
  <2>2. Answered(r, c, q) = s
    BY <1>1, <1>3, Zenon DEF Answered, Fields
  <2> HIDE DEF waits
  <2>3. s \in Fields
    BY <1>1, <2>1, Zenon DEF Fields
  <2>4. Alike(r, s) /\ s.commit = r.commit /\ s.next = r.next
    BY <1>1 DEF Alike, Fields
  <2> QED BY <2>2, <2>3, <2>4 DEF Wellformed, Alike
<1>4. CASE q.reason = "SUCCESS" /\ ~(q.idx > Len(r.done) + 1)
  <2> DEFINE s == [r EXCEPT !.state = "ENDED"]
  <2>1. Answered(r, c, q) = s
    BY <1>4 DEF Answered
  <2>2. "ENDED" \in State
    BY DEF State
  <2>3. s \in Fields
    BY <1>1, <2>2, Zenon DEF Fields
  <2>4. s.commit = r.commit /\ s.next = r.next /\ s.log = r.log /\ s.others = r.others
    BY <1>1 DEF Fields
  <2>5. Alike(s, s)
    BY DEF Alike
  <2> HIDE DEF s
  <2>6. Wellformed(n, s)
    BY <2>3, <2>4 DEF Wellformed
  <2> QED BY <2>1, <2>5, <2>6 DEF s
<1> QED BY <1>2, <1>3, <1>4

-----------------------------------------------------------------------------
(***************************************************************************)
(* The operators that messages are handled with.                           *)
(***************************************************************************)
LEMMA NewerTermType ==
  ASSUME NEW n \in Node, NEW r, Wellformed(n, r), NEW q, q.term \in Term
  PROVE  LET s == NewerTerm(r, q)
         IN  /\ Wellformed(n, s) /\ s.log = r.log /\ s.others = r.others
             /\ s.term >= r.term /\ s.term >= q.term
             /\ IF q.term > r.term
                THEN s.state = "FOLLOWER" /\ s.term = q.term /\ s.votedFor = Nobody /\ s.votes = 0
                ELSE s = r
<1>0. r.term \in Nat /\ q.term \in Nat
  BY WellformedLog DEF Term
<1>1. CASE ~(q.term > r.term)
  BY <1>0, <1>1 DEF NewerTerm
<1>2. CASE q.term > r.term
  <2> DEFINE f == Follower(r)
             s == [f EXCEPT !.term = q.term, !.votedFor = Nobody, !.leader = Nobody]
  <2>1. NewerTerm(r, q) = s
    BY <1>2 DEF NewerTerm
  <2>2. /\ Wellformed(n, f) /\ f.state = "FOLLOWER" /\ f.votes = 0
        /\ f.log = r.log /\ f.others = r.others
    BY FollowerType
  <2> HIDE DEF f
  <2>3. f \in Fields /\ Nobody \in Somebody
    BY <2>2 DEF Wellformed, Somebody
  <2>4. s \in Fields
    BY <2>3, Zenon DEF Fields
  <2>5. /\ s.state = f.state /\ s.term = q.term /\ s.votedFor = Nobody /\ s.log = f.log
        /\ s.votes = f.votes
        /\ s.others = f.others /\ s.commit = f.commit /\ s.next = f.next
    BY <2>3 DEF Fields
  <2> HIDE DEF s
  <2>6. Wellformed(n, s)
    BY <2>2, <2>4, <2>5 DEF Wellformed
  <2> QED BY <1>0, <1>2, <2>1, <2>2, <2>5, <2>6
<1> QED BY <1>1, <1>2

\* Following a leader: its term, and no vote in a term that is new.
LEMMA FollowType ==
  ASSUME NEW n \in Node, NEW r, Wellformed(n, r), NEW m \in Node, NEW q, q.term \in Term
  PROVE  LET s == Follow(r, m, q)
         IN  /\ Wellformed(n, s)
             /\ s.state = "FOLLOWER" /\ s.term = q.term /\ s.votes = 0
             /\ s.log = r.log /\ s.others = r.others
             /\ s.votedFor = IF q.term > r.term THEN Nobody ELSE r.votedFor
<1> DEFINE l == IF r.leader = m THEN r ELSE LeaderChanged(r)
           f == Follower(l)
           v == IF q.term > f.term THEN Nobody ELSE f.votedFor
           s == [f EXCEPT !.leader = m, !.term = q.term, !.votedFor = v]
<1>1. Wellformed(n, l) /\ Alike(r, l)
  BY LeaderChangedType DEF Alike
<1>2. /\ Wellformed(n, f) /\ f.state = "FOLLOWER" /\ f.term = r.term /\ f.votedFor = r.votedFor
      /\ f.votes = 0
      /\ f.log = r.log /\ f.others = r.others
  <2> HIDE DEF l
  <2> QED BY <1>1, FollowerType DEF Alike
<1>3. f \in Fields
  BY <1>2 DEF Wellformed
<1>4. Follow(r, m, q) = s
  <2>1. Follow(r, m, q) =
          [f EXCEPT !.leader = m, !.term = q.term,
                    !.votedFor = IF q.term > r.term THEN Nobody ELSE @]
    BY DEF Follow
  <2> HIDE DEF f
  <2> QED BY <2>1, <1>2, <1>3, Zenon DEF Fields
<1> HIDE DEF f
<1>5. v \in Somebody /\ m \in Somebody
  BY <1>3 DEF Somebody, Fields
<1> HIDE DEF v
<1>6. s \in Fields
  BY <1>3, <1>5, Zenon DEF Fields
<1>7. /\ s.state = f.state /\ s.term = q.term /\ s.votedFor = v /\ s.votes = f.votes
      /\ s.log = f.log
      /\ s.others = f.others /\ s.commit = f.commit /\ s.next = f.next
  BY <1>3 DEF Fields
<1> HIDE DEF s
<1>8. Wellformed(n, s)
  BY <1>2, <1>6, <1>7 DEF Wellformed
<1> QED BY <1>2, <1>4, <1>7, <1>8 DEF v

\* A follower's log after it has taken entries.
LEMMA AppendToType ==
  ASSUME NEW n \in Node, NEW r, Wellformed(n, r), NEW q \in Appends,
         q.prevLogIdx \in DOMAIN r.log
  PROVE  LET s == AppendTo(r, n, q)
         IN  /\ Wellformed(n, s)
             /\ s.state = r.state /\ s.term = r.term /\ s.votedFor = r.votedFor
             /\ s.votes = r.votes
             /\ Change = {} => s.others = r.others
             /\ s.log = SubSeq(r.log, 1, q.prevLogIdx) \o q.entries
             /\ Len(s.log) = q.prevLogIdx + Len(q.entries)
             /\ \A i \in 1 .. Len(s.log) :
                   s.log[i] = IF i <= q.prevLogIdx THEN r.log[i] ELSE q.entries[i - q.prevLogIdx]
<1> DEFINE p == q.prevLogIdx
           front == SubSeq(r.log, 1, p)
           log == front \o q.entries
           commit == Min({q.commit, Len(log)})
           undone == Undo(r, n, SubSeq(r.log, p + 1, Len(r.log)))
           redone == Redo(undone, n, q.entries)
           s == [redone EXCEPT !.log = log, !.commit = commit]
<1>1. /\ p \in 1 .. Len(r.log) /\ Len(r.log) \in Nat /\ r.log \in Seq(Entry) /\ r.log[1].term = 0
      /\ q.entries \in Seq(Entry) /\ Len(q.entries) \in Nat /\ q.commit \in Nat \ {0}
  BY WellformedLog, LenProperties DEF Appends, Log
<1>2. /\ front \in Seq(Entry) /\ Len(front) = p /\ \A i \in 1 .. p : front[i] = r.log[i]
  BY <1>1, SubSeqProperties, WellformedLog
<1>3. /\ log \in Seq(Entry) /\ Len(log) = p + Len(q.entries)
      /\ \A i \in 1 .. Len(log) : log[i] = IF i <= p THEN r.log[i] ELSE q.entries[i - p]
  <2>1. p \in Nat /\ Len(front) = p
    BY <1>1, <1>2
  <2> DEFINE e == q.entries
  <2>2. e \in Seq(Entry)
    BY <1>1
  <2> HIDE DEF front, p, e
  <2>3. /\ front \o e \in Seq(Entry) /\ Len(front \o e) = Len(front) + Len(e)
        /\ \A i \in 1 .. Len(front \o e) :
              (front \o e)[i] = IF i <= Len(front) THEN front[i] ELSE e[i - Len(front)]
    BY <1>2, <2>2, ConcatProperties
  <2> QED BY <1>1, <1>2, <2>1, <2>3 DEF e
<1>4. log \in Log /\ commit \in Nat /\ commit \in 1 .. Len(log)
  <2>1. Len(log) \in Nat \ {0}
    BY <1>1, <1>3
  <2> HIDE DEF log
  <2>2. commit = IF q.commit <= Len(log) THEN q.commit ELSE Len(log)
    BY <1>1, <2>1, MinOfTwo
  <2> HIDE DEF commit
  <2> QED BY <1>1, <1>3, <2>1, <2>2 DEF Log
<1>5. undone \in Reconfigured(n, r)
  <2>1. SubSeq(r.log, p + 1, Len(r.log)) \in Seq(Entry)
    BY <1>1, SubSeqProperties, WellformedLog
  <2> QED BY <2>1, UndoType
<1>6. redone \in Reconfigured(n, undone)
  <2> HIDE DEF undone
  <2>1. Wellformed(n, undone)
    BY <1>5 DEF Reconfigured
  <2> QED BY <1>1, <2>1, RedoType
<1>7. AppendTo(r, n, q) = s
  BY DEF AppendTo
<1> HIDE DEF undone, redone
<1>8. /\ redone \in Fields /\ Wellformed(n, redone)
      /\ redone.state = r.state /\ redone.term = r.term /\ redone.votedFor = r.votedFor
      /\ redone.votes = r.votes /\ redone.log = r.log
      /\ Change = {} => redone.others = r.others
  BY <1>5, <1>6 DEF Reconfigured
<1> HIDE DEF commit, log
<1>9. s \in Fields
  BY <1>4, <1>8, Zenon DEF Fields
<1>10. /\ s.state = redone.state /\ s.term = redone.term /\ s.votedFor = redone.votedFor
       /\ s.votes = redone.votes /\ s.log = log /\ s.others = redone.others
       /\ s.commit = commit /\ s.next = redone.next
  BY <1>8 DEF Fields
<1>11. log[1] = r.log[1]
  BY <1>1, <1>3
<1> HIDE DEF s
<1>12. Wellformed(n, s)
  BY <1>1, <1>4, <1>8, <1>9, <1>10, <1>11 DEF Wellformed
<1>13. s.log = SubSeq(r.log, 1, q.prevLogIdx) \o q.entries
  BY <1>10 DEF log
<1>14. /\ Len(log) = q.prevLogIdx + Len(q.entries)
       /\ \A i \in 1 .. Len(log) :
             log[i] = IF i <= q.prevLogIdx THEN r.log[i] ELSE q.entries[i - q.prevLogIdx]
  BY <1>3
<1>15. s.log = log
  BY <1>10
<1> QED
  <2> DEFINE a == AppendTo(r, n, q)
  <2>1. a = s
    BY <1>7
  <2> HIDE DEF a, p, front
  <2>2. /\ Wellformed(n, a) /\ a.log = log
        /\ a.state = r.state /\ a.term = r.term /\ a.votedFor = r.votedFor /\ a.votes = r.votes
        /\ Change = {} => a.others = r.others
        /\ a.log = SubSeq(r.log, 1, q.prevLogIdx) \o q.entries
    BY <1>8, <1>10, <1>12, <1>13, <1>15, <2>1
  <2> QED BY <1>14, <2>2 DEF a

\* A leader that hears of a follower's position.
LEMMA HeardType ==
  ASSUME NEW n \in Node, NEW r, Wellformed(n, r), NEW m \in Node, NEW q \in Positioned
  PROVE  LET s == [r EXCEPT !.next[m] = IF q.reset THEN q.next ELSE @,
                            !.match[m] = IF q.success THEN q.next - 1 ELSE @]
         IN  Wellformed(n, s) /\ Alike(r, s)
<1> DEFINE next == [r.next EXCEPT ![m] = IF q.reset THEN q.next ELSE @]
           match == [r.match EXCEPT ![m] = IF q.success THEN q.next - 1 ELSE @]
           s == [r EXCEPT !.next = next, !.match = match]
<1>1. r \in Fields /\ r.next \in [Node -> Nat] /\ r.match \in [Node -> Nat]
      /\ (\A k \in Node : r.next[k] >= 2) /\ q.next \in Nat /\ q.next >= 2
  BY DEF Wellformed, Fields, Positions, Positioned
<1>2. next \in Positions /\ match \in Positions /\ \A k \in Node : next[k] >= 2
  BY <1>1 DEF Positions
<1>3. s = [r EXCEPT !.next[m] = IF q.reset THEN q.next ELSE @,
                    !.match[m] = IF q.success THEN q.next - 1 ELSE @]
  BY <1>1, Zenon DEF Fields
<1> HIDE DEF next, match
<1>4. s \in Fields
  BY <1>1, <1>2, Zenon DEF Fields
<1>5. Alike(r, s) /\ s.commit = r.commit /\ s.next = next
  BY <1>1 DEF Alike, Fields
<1>6. Wellformed(n, s)
  BY <1>2, <1>4, <1>5 DEF Wellformed, Alike
<1> QED BY <1>3, <1>5, <1>6

-----------------------------------------------------------------------------
(***************************************************************************)
(* The messages that are sent.                                             *)
(***************************************************************************)
LEMMA RequestVoteType ==
  ASSUME NEW n \in Node, NEW r, Wellformed(n, r)
  PROVE  RequestVote(r) \in RequestVotes
BY WellformedLog DEF RequestVote, RequestVotes, LastTerm

\* What a leader sends are entries of its log after one that it names.
LEMMA AppendEntriesType ==
  ASSUME NEW n \in Node, NEW r, Wellformed(n, r), NEW m \in Node
  PROVE  AppendEntries(r, m) \in Appends
<1> DEFINE p == PrevLogIdx(r, m)
           t == IF p = 0 THEN 0 ELSE r.log[p].term
           e == SubSeq(r.log, r.next[m], BatchEnd(r, m))
<1>1. /\ r.next[m] \in Nat /\ r.next[m] >= 2
      /\ BatchEnd(r, m) \in Int /\ BatchEnd(r, m) <= Len(r.log)
  BY BatchEndType
<1>2. p \in Nat /\ p \in {0} \union DOMAIN r.log
  BY <1>1 DEF PrevLogIdx
<1>3. t \in Term /\ (p = 1 => t = 0)
  BY <1>2, WellformedLog, RaftAssumption DEF Term
<1>4. e \in Log
  <2>1. \A i \in r.next[m] .. BatchEnd(r, m) : r.log[i] \in Entry
    BY <1>1, WellformedLog
  <2> QED BY <1>1, <2>1, SubSeqProperties DEF Log
<1>5. r.commit \in Nat \ {0} /\ r.term \in Term
  BY WellformedLog
<1>6. AppendEntries(r, m) = [type |-> "append_entries", term |-> r.term, commit |-> r.commit,
                             prevLogIdx |-> p, prevLogTerm |-> t, entries |-> e]
  BY DEF AppendEntries
<1> HIDE DEF p, t, e
<1> DEFINE a == [type |-> "append_entries", term |-> r.term, commit |-> r.commit,
                 prevLogIdx |-> p, prevLogTerm |-> t, entries |-> e]
<1>7. Placed(a)
  BY <1>3 DEF Placed
<1>8. a \in [type : {"append_entries"}, term : Term, commit : Nat \ {0},
             prevLogIdx : Nat, prevLogTerm : Term, entries : Log]
  BY <1>2, <1>3, <1>4, <1>5
<1> QED BY <1>6, <1>7, <1>8 DEF Appends

\* What a node answers to a command of its queue.
LEMMA MessagesType ==
  ASSUME NEW n \in Node, NEW r, Wellformed(n, r), r.queue # << >>, NEW m \in Node
  PROVE  Messages(r, n, m) = << >>
         \/ \E q \in Forwarded \union Responses : Messages(r, n, m) = <<q>>
<1> DEFINE q == Head(r.queue)
<1>1. q \in QueuedCommand
  BY QueueType
<1> HIDE DEF q
<1>2. Answer(r, n, q) \in Responses
  BY <1>1, WellformedLog, RaftAssumption
     DEF Answer, Response, Responses, Reasons, QueuedCommand, Term
<1>3. ApplyCommand(r, q) \in Forwarded
  <2>1. r.counter + 1 \in Nat
    BY DEF Wellformed, Fields
  <2> QED BY <1>1, <2>1 DEF ApplyCommand, Forwarded, QueuedCommand
<1> QED BY <1>2, <1>3 DEF Messages, q

\* A follower succeeds when it has the entry that the message names.
LEMMA AppendReplyType ==
  ASSUME NEW n \in Node, NEW r, Wellformed(n, r), NEW q \in Appends
  PROVE  /\ AppendReply(r, q) \in Positioned
         /\ AppendReply(r, q).success <=> /\ q.prevLogIdx \in DOMAIN r.log
                                          /\ r.log[q.prevLogIdx].term = q.prevLogTerm
<1>1. /\ q.prevLogIdx \in Nat /\ q.entries \in Seq(Entry) /\ Len(q.entries) \in Nat
      /\ q.prevLogIdx = 1 => q.prevLogTerm = 0
      /\ q.entries = << >> \/ Len(q.entries) >= 1
  BY EmptySeq, LenProperties DEF Appends, Log, Placed
<1>2. DOMAIN r.log = 1 .. Len(r.log) /\ Len(r.log) \in Nat \ {0} /\ r.log[1].term = 0
  BY WellformedLog
<1>3. CASE q.prevLogIdx \notin DOMAIN r.log
  BY <1>2, <1>3 DEF AppendReply, NextNodeIdx, Positioned
<1>4. CASE q.prevLogIdx \in DOMAIN r.log /\ r.log[q.prevLogIdx].term # q.prevLogTerm
  <2>1. q.prevLogIdx \in Nat \ {0, 1}
    BY <1>1, <1>2, <1>4
  <2> QED BY <2>1, <1>4 DEF AppendReply, NextNodeIdx, Positioned
<1>5. CASE q.prevLogIdx \in DOMAIN r.log /\ r.log[q.prevLogIdx].term = q.prevLogTerm
  <2>1. q.prevLogIdx + (IF q.entries = << >> THEN 1 ELSE Len(q.entries)) \in Nat \ {0, 1}
    BY <1>1, <1>2, <1>5
  <2> QED BY <2>1, <1>5 DEF AppendReply, NextNodeIdx, Positioned
<1> QED BY <1>3, <1>4, <1>5

-----------------------------------------------------------------------------
(***************************************************************************)
(* The invariant.                                                          *)
(***************************************************************************)
Shaped(nd, nt) ==
    /\ nd \in [Node -> Fields]
    /\ \A n \in Node : Wellformed(n, nd[n])
    /\ nt \in [Link -> Seq(Message)]

Of(s, type, t) == {i \in DOMAIN s : s[i].type = type /\ s[i].term = t}

\* Of a request for a vote, under way there, and its answer, under way back, a
\* candidate of term t with the voters it has counted so far has at most one
\* with each node m, and none once it has counted m.
Outstanding(t, voters, m, there, back) ==
    /\ \A i \in DOMAIN there : there[i].type = "request_vote" => there[i].term <= t
    /\ \A i \in DOMAIN back : back[i].type = "response_vote" => back[i].term <= t
    /\ \A i, j \in Of(there, "request_vote", t) : i = j
    /\ \A i, j \in Of(back, "response_vote", t) : i = j
    /\ Of(there, "request_vote", t) = {} \/ Of(back, "response_vote", t) = {}
    /\ m \in voters => Of(there, "request_vote", t) = {} /\ Of(back, "response_vote", t) = {}

\* One more request or answer of term u may be under way.
Open(t, u, voters, m, there, back) ==
    /\ u <= t
    /\ u = t => /\ m \notin voters
                /\ Of(there, "request_vote", t) = {} /\ Of(back, "response_vote", t) = {}

\* votesCount counts voters: counted[n] are the nodes whose votes n has counted.
Counting(nd, nt, counted) ==
    /\ counted \in [Node -> SUBSET Node]
    /\ \A n \in Node : nd[n].votes = Cardinality(counted[n])
    /\ \A n \in Node : \A m \in Peers(n) :
          Outstanding(nd[n].term, counted[n], m, nt[<<n, m>>], nt[<<m, n>>])

Under(s) == {s[i] : i \in DOMAIN s}

\* ballot[v][t] is the node v has voted for in term t.
Voting(nd, nt, counted, ballot) ==
    /\ ballot \in [Node -> [Term -> Somebody]]
    /\ \A n \in Node : nd[n].others = Cluster \ {n}
    /\ \A n \in Node : \A m \in Peers(n) : nt[<<n, m>>] # << >> => {m, n} \subseteq Cluster
    /\ \A v \in Node : ballot[v][nd[v].term] = nd[v].votedFor
    /\ \A v \in Node, t \in Term : t > nd[v].term => ballot[v][t] = Nobody
    /\ \A n \in Node : \A v \in counted[n] :
          ballot[v][nd[n].term] = n /\ (v = n \/ {v, n} \subseteq Cluster)
    /\ \A n \in Node : \A v \in Peers(n) : \A q \in Under(nt[<<v, n>>]) :
          q.type = "response_vote" => ballot[v][q.term] = n

Won(ballot, n, t) ==
    \E Q \in SUBSET Cluster : /\ 2 * Cardinality(Q) > Cardinality(Cluster)
                              /\ \A v \in Q : ballot[v][t] = n

\* elected[t] is the node that has become leader in term t.
Leading(nd, ballot, elected) ==
    /\ elected \in [Term -> Somebody]
    /\ \A n \in Node : nd[n].state \in {"CANDIDATE", "LEADER"} => nd[n].term > 0
    /\ \A n \in Node : nd[n].state = "LEADER" => elected[nd[n].term] = n
    /\ \A n \in Node, t \in Term : elected[t] = n =>
          /\ Won(ballot, n, t)
          /\ nd[n].term >= t
          /\ nd[n].term = t => nd[n].state # "CANDIDATE"

\* Up to an entry of term t, a log is what the leader of that term had, or has,
\* in its log.
Recorded(written, log) ==
    \A i \in 1 .. Len(log) : LET t == log[i].term
                             IN  /\ i <= Len(written[t])
                                 /\ \A k \in 1 .. i : log[k] = written[t][k]

\* The same of the entries that append_entries brings.
Justified(written, q) ==
    q.prevLogIdx >= 1 =>
        \A j \in 1 .. Len(q.entries) :
            LET t == q.entries[j].term
            IN  /\ q.prevLogIdx + j <= Len(written[t])
                /\ written[t][q.prevLogIdx].term = q.prevLogTerm
                /\ \A k \in 1 .. j : q.entries[k] = written[t][q.prevLogIdx + k]

Beginning(t) == IF t = 0 THEN <<[cmd |-> NoOp, term |-> 0]>> ELSE << >>

\* written[t] is the log of the leader of term t, as it is or was at the end of
\* its leadership.
Writing(nd, nt, elected, written) ==
    /\ written \in [Term -> Log]
    /\ \A t \in Term : elected[t] = Nobody => written[t] = Beginning(t)
    /\ \A t \in Term : Recorded(written, written[t])
    /\ \A n \in Node : Recorded(written, nd[n].log)
    /\ \A n \in Node : nd[n].state = "LEADER" => written[nd[n].term] = nd[n].log
    /\ \A n \in Node : \A m \in Peers(n) : \A q \in Under(nt[<<n, m>>]) :
          q.type = "append_entries" => Justified(written, q)

\* The part of the invariant that holds as long as nothing, calm, makes nodes
\* forget their votes or elects leaders with other majorities.
Elected(nd, nt, counted) ==
    \E ballot, elected, written : /\ Voting(nd, nt, counted, ballot)
                                  /\ Leading(nd, ballot, elected)
                                  /\ Writing(nd, nt, elected, written)

Static == Change = {} /\ Cluster # {}

Sound(nd, nt, calm) ==
    /\ Shaped(nd, nt)
    /\ \E counted : /\ Counting(nd, nt, counted)
                    /\ Static /\ calm => Elected(nd, nt, counted)

-----------------------------------------------------------------------------
(***************************************************************************)
(* What is under way on a link.                                            *)
(***************************************************************************)
Shorter(s, old) == s = old \/ s = << >> \/ (old # << >> /\ s = Tail(old))

Shifted(s, old, d) == \A i \in DOMAIN s : i + d \in DOMAIN old /\ s[i] = old[i + d]

\* The links join the peers.
LEMMA Links ==
  /\ \A n \in Node : \A m \in Peers(n) : /\ n \in Peers(m) /\ m \in Node
                                         /\ <<n, m>> \in Link /\ <<m, n>> \in Link
  /\ \A c \in Link : /\ c[1] \in Node /\ c[2] \in Peers(c[1]) /\ c[1] \in Peers(c[2])
                     /\ c[2] \in Node /\ c = <<c[1], c[2]>>
BY DEF Peers, Link

\* A channel that lost messages holds nothing new.
LEMMA ShorterMessages ==
  ASSUME NEW old \in Seq(Message), NEW s, Shorter(s, old)
  PROVE  /\ s \in Seq(Message) /\ Under(s) \subseteq Under(old)
         /\ s # << >> => old # << >>
         /\ DOMAIN s \subseteq Int
         /\ \E d \in {0, 1} : Shifted(s, old, d)
<1>1. old \in Seq(Message) /\ Len(old) \in Nat /\ DOMAIN old = 1 .. Len(old)
  BY LenProperties
<1>2. CASE s = old
  <2>1. Shifted(s, old, 0)
    BY <1>1, <1>2 DEF Shifted
  <2> QED BY <1>1, <1>2, <2>1
<1>3. CASE s = << >>
  <2>1. s \in Seq(Message) /\ DOMAIN s = {}
    BY <1>3, EmptySeq
  <2>2. Shifted(s, old, 0)
    BY <2>1 DEF Shifted
  <2> QED BY <1>3, <2>1, <2>2 DEF Under
<1>4. CASE old # << >> /\ s = Tail(old)
  <2>1. /\ s \in Seq(Message) /\ Len(s) = Len(old) - 1
        /\ \A i \in 1 .. Len(s) : s[i] = old[i + 1]
    BY <1>4, HeadTailProperties
  <2>2. DOMAIN s = 1 .. Len(s) /\ Len(s) \in Nat
    BY <2>1, LenProperties
  <2>3. \A i \in DOMAIN s : i + 1 \in DOMAIN old /\ s[i] = old[i + 1]
    BY <1>1, <2>1, <2>2
  <2>4. Shifted(s, old, 1)
    BY <2>3 DEF Shifted
  <2> QED BY <1>4, <2>1, <2>2, <2>3, <2>4 DEF Under
<1> QED BY <1>2, <1>3, <1>4 DEF Shorter

\* What is under way are messages.
LEMMA UnderType ==
  ASSUME NEW s \in Seq(Message), NEW q \in Under(s)
  PROVE  q \in Message
BY LenProperties, ElementOfSeq DEF Under

\* A channel with one more message.
LEMMA OneMore ==
  ASSUME NEW old \in Seq(Message), NEW q \in Message
  PROVE  LET s == old \o <<q>>
         IN  /\ s \in Seq(Message) /\ s # << >>
             /\ DOMAIN s = DOMAIN old \union {Len(old) + 1}
             /\ Len(old) + 1 \notin DOMAIN old
             /\ \A i \in DOMAIN old : s[i] = old[i]
             /\ s[Len(old) + 1] = q
             /\ Under(s) = Under(old) \union {q}
<1> DEFINE s == old \o <<q>>
<1>1. old \in Seq(Message) /\ Len(old) \in Nat /\ DOMAIN old = 1 .. Len(old)
  BY LenProperties
<1>2. <<q>> \in Seq(Message) /\ Len(<<q>>) = 1 /\ <<q>>[1] = q
  OBVIOUS
<1>3. /\ s \in Seq(Message) /\ Len(s) = Len(old) + 1
      /\ \A i \in 1 .. Len(old) + 1 : s[i] = IF i <= Len(old) THEN old[i] ELSE <<q>>[i - Len(old)]
  BY <1>2, ConcatProperties
<1> HIDE DEF s
<1>4. DOMAIN s = 1 .. Len(old) + 1
  BY <1>1, <1>3, LenProperties
<1>5. s[Len(old) + 1] = q
  <2>1. s[Len(old) + 1] = <<q>>[Len(old) + 1 - Len(old)]
    BY <1>1, <1>3
  <2> QED BY <1>1, <1>2, <2>1
<1>6. \A i \in DOMAIN old : s[i] = old[i]
  BY <1>1, <1>3
<1>7. DOMAIN s = DOMAIN old \union {Len(old) + 1} /\ Len(old) + 1 \notin DOMAIN old
  BY <1>1, <1>4
<1>8. s # << >>
  BY <1>1, <1>3, EmptySeq
<1>9. Under(s) = Under(old) \union {q}
  BY <1>5, <1>6, <1>7 DEF Under
<1> QED BY <1>3, <1>5, <1>6, <1>7, <1>8, <1>9 DEF s

-----------------------------------------------------------------------------
(***************************************************************************)
(* Outstanding votes.                                                      *)
(***************************************************************************)
\* There is no other, and it is no longer under way.
LEMMA OutstandingShorter ==
  ASSUME NEW t \in Term, NEW voters, NEW m,
         NEW there \in Seq(Message), NEW back \in Seq(Message),
         Outstanding(t, voters, m, there, back),
         NEW there2, Shorter(there2, there), NEW back2, Shorter(back2, back)
  PROVE  Outstanding(t, voters, m, there2, back2)
<1>1. PICK d \in {0, 1} : Shifted(there2, there, d)
  BY ShorterMessages
<1>2. PICK e \in {0, 1} : Shifted(back2, back, e)
  BY ShorterMessages
<1>3. DOMAIN there2 \subseteq Int /\ DOMAIN back2 \subseteq Int
  BY ShorterMessages
<1>4. \A i \in Of(there2, "request_vote", t) : i + d \in Of(there, "request_vote", t)
  BY <1>1 DEF Of, Shifted
<1>5. \A i \in Of(back2, "response_vote", t) : i + e \in Of(back, "response_vote", t)
  BY <1>2 DEF Of, Shifted
<1>6. \A i, j \in Of(there2, "request_vote", t) : i = j
  BY <1>3, <1>4, SMTT(30) DEF Outstanding, Of
<1>7. \A i, j \in Of(back2, "response_vote", t) : i = j
  BY <1>3, <1>5, SMTT(30) DEF Outstanding, Of
<1>8. /\ \A i \in DOMAIN there2 : there2[i].type = "request_vote" => there2[i].term <= t
      /\ \A i \in DOMAIN back2 : back2[i].type = "response_vote" => back2[i].term <= t
  BY <1>1, <1>2 DEF Outstanding, Shifted
<1> QED BY <1>4, <1>5, <1>6, <1>7, <1>8 DEF Outstanding

\* The request, or the answer, that is taken was the only one.
LEMMA OutstandingTaken ==
  ASSUME NEW t \in Term, NEW voters, NEW m,
         NEW there \in Seq(Message), NEW back \in Seq(Message),
         Outstanding(t, voters, m, there, back),
         NEW there2, Shorter(there2, there), NEW back2, Shorter(back2, back),
         NEW q,
         \/ /\ there # << >> /\ q = Head(there) /\ q.type = "request_vote"
            /\ there2 \in {Tail(there), << >>}
         \/ /\ back # << >> /\ q = Head(back) /\ q.type = "response_vote"
            /\ back2 \in {Tail(back), << >>}
  PROVE  Open(t, q.term, voters, m, there2, back2)
<1>1. ASSUME NEW old \in Seq(Message), old # << >>, NEW s, s = Tail(old) \/ s = << >>
      PROVE  1 \in DOMAIN old /\ old[1] = Head(old) /\ Shifted(s, old, 1) /\ 0 \notin DOMAIN s
  <2>1. /\ Len(old) \in Nat \ {0} /\ DOMAIN old = 1 .. Len(old) /\ Head(old) = old[1]
        /\ Tail(old) \in Seq(Message) /\ Len(Tail(old)) = Len(old) - 1
        /\ \A i \in 1 .. Len(Tail(old)) : Tail(old)[i] = old[i + 1]
    BY <1>1, HeadTailProperties, LenProperties, EmptySeq
  <2>2. CASE s = Tail(old)
    <3>1. DOMAIN s = 1 .. Len(old) - 1
      BY <2>1, <2>2, LenProperties
    <3> QED BY <2>1, <2>2, <3>1 DEF Shifted
  <2>3. CASE s = << >>
    <3>1. DOMAIN s = {}
      BY <2>3, EmptySeq
    <3> QED BY <2>1, <3>1 DEF Shifted
  <2> QED BY <1>1, <2>2, <2>3
<1>2. /\ DOMAIN there2 \subseteq Int /\ \E e \in {0, 1} : Shifted(there2, there, e)
      /\ DOMAIN back2 \subseteq Int /\ \E e \in {0, 1} : Shifted(back2, back, e)
  BY ShorterMessages
<1>3. \/ /\ 1 \in DOMAIN there /\ there[1] = q /\ q.type = "request_vote"
         /\ Shifted(there2, there, 1) /\ 0 \notin DOMAIN there2
      \/ /\ 1 \in DOMAIN back /\ back[1] = q /\ q.type = "response_vote"
         /\ Shifted(back2, back, 1) /\ 0 \notin DOMAIN back2
  BY <1>1
<1>4. q.term <= t
  BY <1>3 DEF Outstanding
<1>5. ASSUME q.term = t
      PROVE  m \notin voters
  BY <1>3, <1>5 DEF Outstanding, Of
<1>6. ASSUME q.term = t, NEW i \in DOMAIN there2, there2[i].type = "request_vote", there2[i].term = t
      PROVE  FALSE
  BY <1>2, <1>3, <1>6 DEF Outstanding, Of, Shifted
<1>7. ASSUME q.term = t, NEW i \in DOMAIN back2, back2[i].type = "response_vote", back2[i].term = t
      PROVE  FALSE
  BY <1>2, <1>3, <1>7 DEF Outstanding, Of, Shifted
<1> QED BY <1>4, <1>5, <1>6, <1>7 DEF Open, Of

\* A new term: nothing of it is under way.
LEMMA OutstandingNewer ==
  ASSUME NEW t \in Term, NEW u \in Term, u > t, NEW voters, NEW m,
         NEW there \in Seq(Message), NEW back \in Seq(Message),
         Outstanding(t, voters, m, there, back), NEW others
  PROVE  /\ Outstanding(u, others, m, there, back)
         /\ m \notin others => Open(u, u, others, m, there, back)
<1>1. t \in Int /\ u \in Int
  BY RaftAssumption DEF Term
<1>2. \A i \in DOMAIN there : there[i] \in Message /\ there[i].type = "request_vote" => there[i].term \in Int
  BY RaftAssumption DEF Message, RequestVotes, ResponseVotes, Appends, Positioned, Forwarded, Responses, Term
<1>3. \A i \in DOMAIN back : back[i] \in Message /\ back[i].type = "response_vote" => back[i].term \in Int
  BY RaftAssumption DEF Message, RequestVotes, ResponseVotes, Appends, Positioned, Forwarded, Responses, Term
<1>4. /\ \A i \in DOMAIN there : there[i] \in Message
      /\ \A i \in DOMAIN back : back[i] \in Message
  BY ElementOfSeq, LenProperties
<1>5. Of(there, "request_vote", u) = {} /\ Of(back, "response_vote", u) = {}
  BY <1>1, <1>2, <1>3, <1>4 DEF Outstanding, Of
<1>6. /\ \A i \in DOMAIN there : there[i].type = "request_vote" => there[i].term <= u
      /\ \A i \in DOMAIN back : back[i].type = "response_vote" => back[i].term <= u
  BY <1>1, <1>2, <1>3, <1>4 DEF Outstanding
<1> QED BY <1>1, <1>5, <1>6 DEF Outstanding, Open

\* A message is sent.
LEMMA OutstandingMore ==
  ASSUME NEW t \in Term, NEW voters, NEW m,
         NEW there \in Seq(Message), NEW back \in Seq(Message),
         Outstanding(t, voters, m, there, back), NEW q \in Message
  PROVE  /\ q.type # "request_vote" \/ Open(t, q.term, voters, m, there, back)
               => Outstanding(t, voters, m, there \o <<q>>, back)
         /\ q.type # "response_vote" \/ Open(t, q.term, voters, m, there, back)
               => Outstanding(t, voters, m, there, back \o <<q>>)
<1>1. /\ DOMAIN (there \o <<q>>) = DOMAIN there \union {Len(there) + 1}
      /\ Len(there) + 1 \notin DOMAIN there
      /\ \A i \in DOMAIN there : (there \o <<q>>)[i] = there[i]
      /\ (there \o <<q>>)[Len(there) + 1] = q
  BY OneMore
<1>2. /\ DOMAIN (back \o <<q>>) = DOMAIN back \union {Len(back) + 1}
      /\ Len(back) + 1 \notin DOMAIN back
      /\ \A i \in DOMAIN back : (back \o <<q>>)[i] = back[i]
      /\ (back \o <<q>>)[Len(back) + 1] = q
  BY OneMore
<1>3. /\ Of(there \o <<q>>, "request_vote", t) =
             Of(there, "request_vote", t) \union
             {i \in {Len(there) + 1} : q.type = "request_vote" /\ q.term = t}
      /\ Of(back \o <<q>>, "response_vote", t) =
             Of(back, "response_vote", t) \union
             {i \in {Len(back) + 1} : q.type = "response_vote" /\ q.term = t}
  BY <1>1, <1>2 DEF Of
<1>4. ASSUME q.type # "request_vote" \/ Open(t, q.term, voters, m, there, back)
      PROVE  Outstanding(t, voters, m, there \o <<q>>, back)
  <2>1. \A i \in DOMAIN (there \o <<q>>) :
           (there \o <<q>>)[i].type = "request_vote" => (there \o <<q>>)[i].term <= t
    BY <1>1, <1>4 DEF Outstanding, Open
  <2>2. CASE q.type = "request_vote" /\ q.term = t
    BY <1>3, <1>4, <2>1, <2>2 DEF Outstanding, Open
  <2>3. CASE ~(q.type = "request_vote" /\ q.term = t)
    <3>1. Of(there \o <<q>>, "request_vote", t) = Of(there, "request_vote", t)
      BY <1>3, <2>3
    <3> QED BY <2>1, <3>1 DEF Outstanding
  <2> QED BY <2>2, <2>3
<1>5. ASSUME q.type # "response_vote" \/ Open(t, q.term, voters, m, there, back)
      PROVE  Outstanding(t, voters, m, there, back \o <<q>>)
  <2>1. \A i \in DOMAIN (back \o <<q>>) :
           (back \o <<q>>)[i].type = "response_vote" => (back \o <<q>>)[i].term <= t
    BY <1>2, <1>5 DEF Outstanding, Open
  <2>2. CASE q.type = "response_vote" /\ q.term = t
    BY <1>3, <1>5, <2>1, <2>2 DEF Outstanding, Open
  <2>3. CASE ~(q.type = "response_vote" /\ q.term = t)
    <3>1. Of(back \o <<q>>, "response_vote", t) = Of(back, "response_vote", t)
      BY <1>3, <2>3
    <3> QED BY <2>1, <3>1 DEF Outstanding
  <2> QED BY <2>2, <2>3
<1> QED BY <1>4, <1>5

-----------------------------------------------------------------------------
(***************************************************************************)
(* The moves of a node, n, whose fields become s.                          *)
(***************************************************************************)
Put(nd, n, s) == [nd EXCEPT ![n] = s]

\* A node that is replaced by a well-formed one.
LEMMA ShapedPut ==
  ASSUME NEW nd, NEW nt, Shaped(nd, nt), NEW n \in Node, NEW s, Wellformed(n, s)
  PROVE  /\ Shaped(Put(nd, n, s), nt)
         /\ Put(nd, n, s)[n] = s
         /\ \A k \in Node \ {n} : Put(nd, n, s)[k] = nd[k]
         /\ Wellformed(n, nd[n])
<1>1. s \in Fields /\ nd \in [Node -> Fields]
  BY DEF Wellformed, Shaped
<1>2. Put(nd, n, s)[n] = s /\ \A k \in Node \ {n} : Put(nd, n, s)[k] = nd[k]
  BY <1>1 DEF Put
<1>3. Put(nd, n, s) \in [Node -> Fields]
  BY <1>1 DEF Put
<1> QED BY <1>2, <1>3 DEF Shaped

\* The fields that the invariant speaks of.
LEMMA FieldTypes ==
  ASSUME NEW nd, NEW nt, Shaped(nd, nt), NEW n \in Node
  PROVE  /\ nd[n].term \in Term /\ nd[n].votes \in Nat /\ nd[n].votedFor \in Somebody
         /\ nd[n].state \in State /\ nd[n].log \in Log /\ nd[n].log # << >>
         /\ nd[n].term \in Int /\ nd[n].term <= MaxTerm /\ nd[n].term >= 0
<1>1. Wellformed(n, nd[n])
  BY DEF Shaped
<1>2. nd[n] \in Fields /\ nd[n].log # << >> /\ nd[n].term \in Term
  BY <1>1, WellformedLog DEF Wellformed
<1> QED BY <1>2, RaftAssumption DEF Fields, Term

\* Whatever leaves elections and logs alone.
LEMMA QuietSound ==
  ASSUME NEW nd, NEW nt, NEW calm, Sound(nd, nt, calm), NEW n \in Node, NEW s, Wellformed(n, s),
         s.term = nd[n].term, s.votedFor = nd[n].votedFor, s.votes = nd[n].votes,
         s.log = nd[n].log, Change = {} => s.others = nd[n].others,
         s.state \in {nd[n].state, "ENDED"}
  PROVE  Sound(Put(nd, n, s), nt, calm)
<1> DEFINE nd2 == Put(nd, n, s)
<1>1. /\ Shaped(nd2, nt) /\ nd2[n] = s
      /\ \A k \in Node \ {n} : nd2[k] = nd[k]
  BY ShapedPut DEF Sound
<1> HIDE DEF nd2
<1>2. PICK counted : /\ Counting(nd, nt, counted)
                     /\ Static /\ calm => Elected(nd, nt, counted)
  BY DEF Sound
<1>3. /\ \A k \in Node : /\ nd2[k].term = nd[k].term /\ nd2[k].votedFor = nd[k].votedFor
                         /\ nd2[k].votes = nd[k].votes /\ nd2[k].log = nd[k].log
                         /\ Change = {} => nd2[k].others = nd[k].others
                         /\ nd2[k].state \in {nd[k].state, "ENDED"}
  BY <1>1
<1>4. Counting(nd2, nt, counted)
  BY <1>2, <1>3 DEF Counting
<1>5. ASSUME Static, calm
      PROVE  Elected(nd2, nt, counted)
  <2>1. PICK ballot, elected, written : /\ Voting(nd, nt, counted, ballot)
                                        /\ Leading(nd, ballot, elected)
                                        /\ Writing(nd, nt, elected, written)
    BY <1>2, <1>5 DEF Elected
  <2>2. Voting(nd2, nt, counted, ballot)
    BY <1>3, <1>5, <2>1 DEF Voting, Static
  <2>3. Leading(nd2, ballot, elected)
    BY <1>3, <2>1 DEF Leading
  <2>4. Writing(nd2, nt, elected, written)
    BY <1>3, <2>1 DEF Writing
  <2> QED BY <2>2, <2>3, <2>4 DEF Elected
<1> QED BY <1>1, <1>4, <1>5 DEF Sound, nd2

\* A node becomes a follower, in its own or in a newer term.
LEMMA RetreatSound ==
  ASSUME NEW nd, NEW nt, NEW calm, Sound(nd, nt, calm), NEW n \in Node, NEW s, Wellformed(n, s),
         s.state = "FOLLOWER", s.term >= nd[n].term, s.votes = 0,
         s.votedFor = IF s.term > nd[n].term THEN Nobody ELSE nd[n].votedFor,
         s.log = nd[n].log, s.others = nd[n].others
  PROVE  Sound(Put(nd, n, s), nt, calm)
<1> DEFINE nd2 == Put(nd, n, s)
<1>1. /\ Shaped(nd2, nt) /\ nd2[n] = s
      /\ \A k \in Node \ {n} : nd2[k] = nd[k]
  BY ShapedPut DEF Sound
<1> HIDE DEF nd2
<1>2. PICK counted : /\ Counting(nd, nt, counted)
                     /\ Static /\ calm => Elected(nd, nt, counted)
  BY DEF Sound
<1> DEFINE counted2 == [counted EXCEPT ![n] = {}]
<1>3. /\ counted2 \in [Node -> SUBSET Node] /\ counted2[n] = {}
      /\ \A k \in Node \ {n} : counted2[k] = counted[k]
  BY <1>2 DEF Counting
<1> HIDE DEF counted2
<1>4. \A k \in Node : nd[k].term \in Term /\ nd[k].term \in Int /\ nd2[k].term \in Term /\ nd2[k].term \in Int
  BY <1>1, FieldTypes DEF Sound
<1>5. Counting(nd2, nt, counted2)
  <2>1. nd2[n].votes = Cardinality(counted2[n])
    BY <1>1, <1>3, FS_EmptySet
  <2>2. ASSUME NEW m \in Peers(n)
        PROVE  Outstanding(s.term, {}, m, nt[<<n, m>>], nt[<<m, n>>])
    <3>1. Outstanding(nd[n].term, counted[n], m, nt[<<n, m>>], nt[<<m, n>>])
      BY <1>2 DEF Counting
    <3>2. CASE s.term = nd[n].term
      BY <3>1, <3>2 DEF Outstanding
    <3>3. CASE s.term > nd[n].term
      <4>1. nt[<<n, m>>] \in Seq(Message) /\ nt[<<m, n>>] \in Seq(Message)
        BY Links DEF Sound, Shaped
      <4> QED BY <1>1, <1>4, <3>1, <3>3, <4>1, OutstandingNewer
    <3> QED BY <1>1, <1>4, <3>2, <3>3
  <2> QED BY <1>1, <1>2, <1>3, <2>1, <2>2 DEF Counting
<1>6. ASSUME Static, calm
      PROVE  Elected(nd2, nt, counted2)
  <2>1. PICK ballot, elected, written : /\ Voting(nd, nt, counted, ballot)
                                        /\ Leading(nd, ballot, elected)
                                        /\ Writing(nd, nt, elected, written)
    BY <1>2, <1>6 DEF Elected
  <2>2. Voting(nd2, nt, counted2, ballot)
    <3>1. \A v \in Node : ballot[v][nd2[v].term] = nd2[v].votedFor
      BY <1>1, <1>4, <2>1 DEF Voting
    <3>2. \A v \in Node, t \in Term : t > nd2[v].term => ballot[v][t] = Nobody
      <4>1. \A v \in Node : nd2[v].term >= nd[v].term
        BY <1>1, <1>4
      <4>2. \A t \in Term : t \in Int
        BY DEF Term
      <4> QED BY <1>4, <2>1, <4>1, <4>2 DEF Voting
    <3>3. \A k \in Node : nd2[k].others = nd[k].others
      BY <1>1
    <3>4. \A k \in Node : \A v \in counted2[k] :
             ballot[v][nd2[k].term] = k /\ (v = k \/ {v, k} \subseteq Cluster)
      BY <1>1, <1>3, <2>1 DEF Voting
    <3> QED BY <2>1, <3>1, <3>2, <3>3, <3>4 DEF Voting
  <2>3. Leading(nd2, ballot, elected)
    <3>1. \A t \in Term : t \in Int
      BY DEF Term
    <3> QED BY <1>1, <1>4, <2>1, <3>1 DEF Leading
  <2>4. Writing(nd2, nt, elected, written)
    <3>1. \A k \in Node : nd2[k].log = nd[k].log
      BY <1>1
    <3>2. \A k \in Node : nd2[k].state = "LEADER" => nd[k].state = "LEADER" /\ nd2[k].term = nd[k].term
      BY <1>1
    <3> QED BY <2>1, <3>1, <3>2 DEF Writing
  <2> QED BY <2>2, <2>3, <2>4 DEF Elected
<1> QED BY <1>1, <1>5, <1>6 DEF Sound, nd2
-----------------------------------------------------------------------------
(***************************************************************************)
(* Messages that are sent, and messages that are taken or lost.            *)
(***************************************************************************)
\* n sends the message q[m] to each node m of to.
Sent(nt, n, to, q) ==
    [c \in Link |-> IF c[1] = n /\ c[2] \in to THEN nt[c] \o <<q[c[2]]>> ELSE nt[c]]

\* Only nodes that list each other are connected.  It matters where the lists
\* never change.
Reach(nd, n, to) == Change = {} => \A m \in to : m \in nd[n].others /\ n \in nd[m].others

SentLink(nt, nt2, n, to, q) ==
    /\ nt2 \in [Link -> Seq(Message)]
    /\ \A m \in to : nt2[<<n, m>>] = nt[<<n, m>>] \o <<q[m]>>
    /\ \A a \in Node : \A b \in Peers(a) :
          /\ nt[<<a, b>>] \in Seq(Message)
          /\ ~(a = n /\ b \in to) => nt2[<<a, b>>] = nt[<<a, b>>]
          /\ \A p \in Under(nt2[<<a, b>>]) :
                p \in Under(nt[<<a, b>>]) \/ (a = n /\ b \in to /\ p = q[b])

\* The channels after a message was sent.
LEMMA SentLinks ==
  ASSUME NEW nt \in [Link -> Seq(Message)], NEW n \in Node, NEW to \in SUBSET Peers(n),
         NEW q, \A m \in to : q[m] \in Message
  PROVE  SentLink(nt, Sent(nt, n, to, q), n, to, q)
<1> DEFINE nt2 == Sent(nt, n, to, q)
<1>1. ASSUME NEW c \in Link
      PROVE  nt[c] \in Seq(Message) /\ nt2[c] \in Seq(Message)
  <2>1. nt[c] \in Seq(Message)
    OBVIOUS
  <2>2. CASE c[1] = n /\ c[2] \in to
    <3>1. nt2[c] = nt[c] \o <<q[c[2]]>>
      BY <2>2 DEF Sent
    <3> QED BY <2>1, <2>2, <3>1, OneMore
  <2>3. CASE ~(c[1] = n /\ c[2] \in to)
    BY <2>1, <2>3 DEF Sent
  <2> QED BY <2>1, <2>2, <2>3
<1>2. nt2 \in [Link -> Seq(Message)]
  <2>1. nt2 = [c \in Link |-> nt2[c]]
    BY DEF Sent
  <2> QED BY <1>1, <2>1
<1>3. \A m \in to : nt2[<<n, m>>] = nt[<<n, m>>] \o <<q[m]>>
  BY Links DEF Sent
<1>4. \A a \in Node : \A b \in Peers(a) : ~(a = n /\ b \in to) => nt2[<<a, b>>] = nt[<<a, b>>]
  BY Links DEF Sent
<1>5. ASSUME NEW a \in Node, NEW b \in Peers(a)
      PROVE  /\ nt[<<a, b>>] \in Seq(Message)
             /\ \A p \in Under(nt2[<<a, b>>]) :
                   p \in Under(nt[<<a, b>>]) \/ (a = n /\ b \in to /\ p = q[b])
  <2>1. nt[<<a, b>>] \in Seq(Message)
    BY <1>1, Links
  <2>2. CASE a = n /\ b \in to
    <3> DEFINE old == nt[<<a, b>>]
               new == q[b]
    <3>1. Under(nt2[<<a, b>>]) = Under(nt[<<a, b>>]) \union {q[b]}
      <4>1. old \in Seq(Message) /\ new \in Message
        BY <2>1, <2>2
      <4>2. nt2[<<a, b>>] = old \o <<new>>
        BY <1>3, <2>2
      <4> HIDE DEF old, new
      <4>3. Under(nt2[<<a, b>>]) = Under(old) \union {new}
        BY <4>1, <4>2, OneMore
      <4> QED BY <4>3 DEF old, new
    <3> QED BY <2>1, <2>2, <3>1
  <2>3. CASE ~(a = n /\ b \in to)
    BY <1>4, <2>1, <2>3
  <2> QED BY <2>2, <2>3
<1> HIDE DEF nt2
<1>6. SentLink(nt, nt2, n, to, q)
  BY <1>2, <1>3, <1>4, <1>5 DEF SentLink
<1> QED BY <1>6 DEF nt2

\* Sending keeps the count of votes, if the votes sent are open.
LEMMA CountingSent ==
  ASSUME NEW nd, NEW nt, Shaped(nd, nt), NEW counted, Counting(nd, nt, counted),
         NEW n \in Node, NEW to \in SUBSET Peers(n), NEW q,
         \A m \in to : /\ q[m] \in Message
                       /\ q[m].type = "request_vote" =>
                             Open(nd[n].term, q[m].term, counted[n], m, nt[<<n, m>>], nt[<<m, n>>])
                       /\ q[m].type = "response_vote" =>
                             Open(nd[m].term, q[m].term, counted[m], n, nt[<<m, n>>], nt[<<n, m>>])
  PROVE  Counting(nd, Sent(nt, n, to, q), counted)
<1> DEFINE nt2 == Sent(nt, n, to, q)
<1>1. nt \in [Link -> Seq(Message)] /\ \A m \in to : q[m] \in Message
  BY DEF Shaped
<1>0. SentLink(nt, nt2, n, to, q)
  BY <1>1, SentLinks
<1> HIDE DEF nt2
<1>2. /\ \A m \in to : nt2[<<n, m>>] = nt[<<n, m>>] \o <<q[m]>>
      /\ \A a \in Node : \A b \in Peers(a) : /\ nt[<<a, b>>] \in Seq(Message)
                                             /\ ~(a = n /\ b \in to) => nt2[<<a, b>>] = nt[<<a, b>>]
  BY <1>0 DEF SentLink
<1>3. ASSUME NEW a \in Node, NEW b \in Peers(a)
      PROVE  Outstanding(nd[a].term, counted[a], b, nt2[<<a, b>>], nt2[<<b, a>>])
  <2>1. /\ Outstanding(nd[a].term, counted[a], b, nt[<<a, b>>], nt[<<b, a>>])
        /\ nd[a].term \in Term /\ nt[<<a, b>>] \in Seq(Message) /\ nt[<<b, a>>] \in Seq(Message)
        /\ b # a /\ b \in Node /\ a \in Peers(b)
    BY <1>2, FieldTypes, Links DEF Counting, Peers
  <2>2. CASE a = n /\ b \in to
    <3>1. nt2[<<a, b>>] = nt[<<a, b>>] \o <<q[b]>> /\ nt2[<<b, a>>] = nt[<<b, a>>]
      BY <1>2, <2>1, <2>2
    <3>2. \/ q[b].type # "request_vote"
          \/ Open(nd[a].term, q[b].term, counted[a], b, nt[<<a, b>>], nt[<<b, a>>])
      BY <2>2
    <3> QED BY <2>1, <2>2, <3>1, <3>2, OutstandingMore
  <2>3. CASE b = n /\ a \in to
    <3>1. nt2[<<b, a>>] = nt[<<b, a>>] \o <<q[a]>> /\ nt2[<<a, b>>] = nt[<<a, b>>]
      BY <1>2, <2>1, <2>3
    <3>2. \/ q[a].type # "response_vote"
          \/ Open(nd[a].term, q[a].term, counted[a], b, nt[<<a, b>>], nt[<<b, a>>])
      BY <2>3
    <3> QED BY <2>1, <2>3, <3>1, <3>2, OutstandingMore
  <2>4. CASE ~(a = n /\ b \in to) /\ ~(b = n /\ a \in to)
    BY <1>2, <2>1, <2>4
  <2> QED BY <2>2, <2>3, <2>4
<1> QED BY <1>3 DEF Counting, nt2

\* Sending keeps the ballots, if the votes sent were cast.
LEMMA VotingSent ==
  ASSUME NEW nd, NEW nt, Shaped(nd, nt), NEW counted, NEW ballot, Voting(nd, nt, counted, ballot),
         Change = {}, NEW n \in Node, NEW to \in SUBSET Peers(n), Reach(nd, n, to), NEW q,
         \A m \in to : /\ q[m] \in Message
                       /\ q[m].type = "response_vote" => ballot[n][q[m].term] = m
  PROVE  Voting(nd, Sent(nt, n, to, q), counted, ballot)
<1> DEFINE nt2 == Sent(nt, n, to, q)
<1>1. nt \in [Link -> Seq(Message)] /\ \A m \in to : q[m] \in Message
  BY DEF Shaped
<1>0. SentLink(nt, nt2, n, to, q)
  BY <1>1, SentLinks
<1> HIDE DEF nt2
<1>2. /\ \A a \in Node : \A b \in Peers(a) : ~(a = n /\ b \in to) => nt2[<<a, b>>] = nt[<<a, b>>]
      /\ \A a \in Node : \A b \in Peers(a) :
            \A p \in Under(nt2[<<a, b>>]) :
               p \in Under(nt[<<a, b>>]) \/ (a = n /\ b \in to /\ p = q[b])
  BY <1>0 DEF SentLink
<1>3. ASSUME NEW a \in Node, NEW b \in Peers(a), nt2[<<a, b>>] # << >>
      PROVE  {a, b} \subseteq Cluster
  <2>1. CASE a = n /\ b \in to
    BY <2>1 DEF Reach, Voting, Peers
  <2>2. CASE ~(a = n /\ b \in to)
    BY <1>2, <1>3, <2>2 DEF Voting
  <2> QED BY <2>1, <2>2
<1>4. ASSUME NEW b \in Node, NEW a \in Peers(b), NEW p \in Under(nt2[<<a, b>>]),
             p.type = "response_vote"
      PROVE  ballot[a][p.term] = b
  <2>1. a \in Node /\ b \in Peers(a)
    BY Links
  <2>2. CASE p \in Under(nt[<<a, b>>])
    BY <1>4, <2>2 DEF Voting
  <2>3. CASE p \notin Under(nt[<<a, b>>])
    BY <1>2, <1>4, <2>1, <2>3
  <2> QED BY <2>2, <2>3
<1> QED BY <1>3, <1>4 DEF Voting, nt2

\* Sending keeps the logs, if the entries sent were written.
LEMMA WritingSent ==
  ASSUME NEW nd, NEW nt, Shaped(nd, nt), NEW elected, NEW written, Writing(nd, nt, elected, written),
         NEW n \in Node, NEW to \in SUBSET Peers(n), NEW q,
         \A m \in to : /\ q[m] \in Message
                       /\ q[m].type = "append_entries" => Justified(written, q[m])
  PROVE  Writing(nd, Sent(nt, n, to, q), elected, written)
<1> DEFINE nt2 == Sent(nt, n, to, q)
<1>1. nt \in [Link -> Seq(Message)] /\ \A m \in to : q[m] \in Message
  BY DEF Shaped
<1>0. SentLink(nt, nt2, n, to, q)
  BY <1>1, SentLinks
<1> HIDE DEF nt2
<1>2. \A a \in Node : \A b \in Peers(a) :
         \A p \in Under(nt2[<<a, b>>]) :
            p \in Under(nt[<<a, b>>]) \/ (a = n /\ b \in to /\ p = q[b])
  BY <1>0 DEF SentLink
<1>3. ASSUME NEW a \in Node, NEW b \in Peers(a), NEW p \in Under(nt2[<<a, b>>]),
             p.type = "append_entries"
      PROVE  Justified(written, p)
  <2>1. CASE p \in Under(nt[<<a, b>>])
    BY <1>3, <2>1 DEF Writing
  <2>2. CASE p \notin Under(nt[<<a, b>>])
    BY <1>2, <1>3, <2>2
  <2> QED BY <2>1, <2>2
<1> QED BY <1>3 DEF Writing, nt2

\* Messages other than votes may be sent at any time, append_entries with
\* entries of the sender's log.
LEMMA SendSound ==
  ASSUME NEW nd, NEW nt, NEW calm, Sound(nd, nt, calm),
         NEW n \in Node, NEW to \in SUBSET Peers(n), Reach(nd, n, to), NEW q,
         \A m \in to : \/ q[m] \in Positioned \union Forwarded \union Responses
                       \/ q[m] = AppendEntries(nd[n], m)
  PROVE  Sound(nd, Sent(nt, n, to, q), calm)
<1>1. Wellformed(n, nd[n]) /\ nt \in [Link -> Seq(Message)] /\ nd \in [Node -> Fields]
      /\ Shaped(nd, nt)
  BY DEF Sound, Shaped
<1>2. ASSUME NEW m \in to
      PROVE  /\ q[m] \in Message /\ q[m].type \notin {"request_vote", "response_vote"}
             /\ q[m].type = "append_entries" => q[m] = AppendEntries(nd[n], m) /\ q[m] \in Appends
  <2>1. m \in Node
    BY Links
  <2>2. AppendEntries(nd[n], m) \in Appends
    BY <1>1, <2>1, AppendEntriesType
  <2> QED BY <2>2 DEF Message, Appends, Positioned, Forwarded, Responses
<1>3. PICK counted : /\ Counting(nd, nt, counted)
                     /\ Static /\ calm => Elected(nd, nt, counted)
  BY DEF Sound
<1>4. Counting(nd, Sent(nt, n, to, q), counted)
  BY <1>1, <1>2, <1>3, CountingSent
<1>5. Shaped(nd, Sent(nt, n, to, q))
  BY <1>1, <1>2, SentLinks DEF Shaped, SentLink
<1>6. ASSUME Static, calm
      PROVE  Elected(nd, Sent(nt, n, to, q), counted)
  <2>1. PICK ballot, elected, written : /\ Voting(nd, nt, counted, ballot)
                                        /\ Leading(nd, ballot, elected)
                                        /\ Writing(nd, nt, elected, written)
    BY <1>3, <1>6 DEF Elected
  <2>2. Voting(nd, Sent(nt, n, to, q), counted, ballot)
    BY <1>1, <1>2, <1>6, <2>1, VotingSent DEF Static
  <2>3. ASSUME NEW m \in to, q[m].type = "append_entries"
        PROVE  Justified(written, q[m])
    <3> DEFINE r == nd[n]
               p == PrevLogIdx(r, m)
               e == SubSeq(r.log, r.next[m], BatchEnd(r, m))
    <3>1. q[m] = [type |-> "append_entries", term |-> r.term, commit |-> r.commit,
                  prevLogIdx |-> p, prevLogTerm |-> IF p = 0 THEN 0 ELSE r.log[p].term,
                  entries |-> e]
      BY <1>2, <2>3 DEF AppendEntries
    <3>2. q[m].prevLogIdx = p /\ q[m].entries = e
          /\ q[m].prevLogTerm = IF p = 0 THEN 0 ELSE r.log[p].term
      <4> HIDE DEF p, e
      <4> QED BY <3>1
    <3>3. /\ r.log \in Seq(Entry) /\ Len(r.log) \in Nat /\ DOMAIN r.log = 1 .. Len(r.log)
          /\ \A i \in 1 .. Len(r.log) : r.log[i] \in Entry
      BY <1>1, WellformedLog
    <3>4. /\ r.next[m] \in Nat /\ r.next[m] >= 2
          /\ BatchEnd(r, m) \in Int /\ BatchEnd(r, m) <= Len(r.log)
      BY <1>1, BatchEndType, Links
    <3>5. p >= 1 => p = r.next[m] - 1
      BY <3>4 DEF PrevLogIdx
    <3>6. /\ e \in Seq(Entry)
          /\ Len(e) = IF r.next[m] <= BatchEnd(r, m) THEN BatchEnd(r, m) - r.next[m] + 1 ELSE 0
          /\ \A j \in 1 .. BatchEnd(r, m) - r.next[m] + 1 : e[j] = r.log[r.next[m] + j - 1]
      <4>1. \A i \in r.next[m] .. BatchEnd(r, m) : r.log[i] \in Entry
        BY <3>3, <3>4
      <4> HIDE DEF r
      <4> QED BY <3>3, <3>4, <4>1, SubSeqProperties, SMTT(30)
    <3> HIDE DEF p, e
    <3>7. SUFFICES ASSUME p >= 1, NEW j \in 1 .. Len(e)
                   PROVE  LET t == e[j].term
                          IN  /\ p + j <= Len(written[t])
                              /\ written[t][p].term = r.log[p].term
                              /\ \A k \in 1 .. j : e[k] = written[t][p + k]
      <4>1. p >= 1 => q[m].prevLogTerm = r.log[p].term
        BY <3>2
      <4> DEFINE b == q[m]
      <4> HIDE DEF b
      <4>2. /\ b.prevLogIdx = p /\ b.entries = e
            /\ p >= 1 => b.prevLogTerm = r.log[p].term
        BY <3>2, <4>1 DEF b
      <4>3. Justified(written, b)
        <5> HIDE DEF r
        <5> QED BY <4>2 DEF Justified
      <4> QED BY <4>3 DEF b
    <3>8. /\ \A k \in 1 .. j : e[k] = r.log[p + k] /\ p + k \in 1 .. p + j
          /\ p + j \in 1 .. Len(r.log) /\ p \in 1 .. p + j
      <4>1. p = r.next[m] - 1 /\ j \in 1 .. BatchEnd(r, m) - r.next[m] + 1
        BY <3>4, <3>5, <3>6, <3>7
      <4>2. p + j <= Len(r.log) /\ p \in Int /\ p >= 1 /\ j \in Int /\ j >= 1
        <5> DEFINE b == BatchEnd(r, m)
                   x == r.next[m]
                   l == Len(r.log)
        <5>1. b \in Int /\ x \in Int /\ x >= 2 /\ b <= l /\ l \in Int
          BY <3>3, <3>4
        <5>2. p = x - 1 /\ j \in 1 .. b - x + 1
          BY <4>1
        <5>3. p + j <= l
          <6> HIDE DEF b, x, l
          <6> QED BY <5>1, <5>2
        <5> HIDE DEF b, x, l
        <5> QED BY <5>1, <5>2, <5>3 DEF l
      <4>3. ASSUME NEW k \in 1 .. j
            PROVE  e[k] = r.log[p + k] /\ p + k \in 1 .. p + j
        <5>1. r.next[m] + k - 1 = p + k /\ k \in 1 .. BatchEnd(r, m) - r.next[m] + 1
          BY <3>4, <4>1
        <5> QED BY <3>6, <4>2, <5>1
      <4> QED BY <3>3, <4>2, <4>3
    <3>9. /\ p + j <= Len(written[r.log[p + j].term])
          /\ \A k \in 1 .. p + j : r.log[k] = written[r.log[p + j].term][k]
      BY <2>1, <3>8 DEF Writing, Recorded
    <3>10. e[j] = r.log[p + j]
      BY <3>8
    <3> QED BY <3>8, <3>9, <3>10
  <2>4. Writing(nd, Sent(nt, n, to, q), elected, written)
    BY <1>1, <1>2, <2>1, <2>3, WritingSent
  <2> QED BY <2>1, <2>2, <2>4 DEF Elected
<1> QED BY <1>4, <1>5, <1>6 DEF Sound

\* The net nt2 has lost messages of nt, or one of each link has been taken.
Fewer(nt2, nt) == nt2 = [c \in Link |-> nt2[c]] /\ \A c \in Link : Shorter(nt2[c], nt[c])

\* With fewer messages under way each part of the invariant still holds.
LEMMA FewerParts ==
  ASSUME NEW nd, NEW nt, Shaped(nd, nt), NEW nt2, Fewer(nt2, nt), NEW counted
  PROVE  /\ Shaped(nd, nt2)
         /\ Counting(nd, nt, counted) => Counting(nd, nt2, counted)
         /\ \A ballot : Voting(nd, nt, counted, ballot) => Voting(nd, nt2, counted, ballot)
         /\ \A elected, written : Writing(nd, nt, elected, written) => Writing(nd, nt2, elected, written)
<1>1. \A c \in Link : /\ nt[c] \in Seq(Message) /\ nt2[c] \in Seq(Message)
                      /\ Under(nt2[c]) \subseteq Under(nt[c])
                      /\ nt2[c] # << >> => nt[c] # << >>
                      /\ Shorter(nt2[c], nt[c])
  BY ShorterMessages DEF Shaped, Fewer
<1>2. Shaped(nd, nt2)
  BY <1>1 DEF Shaped, Fewer
<1>3. Counting(nd, nt, counted) => Counting(nd, nt2, counted)
  <2> SUFFICES ASSUME Counting(nd, nt, counted), NEW n \in Node, NEW m \in Peers(n)
               PROVE  Outstanding(nd[n].term, counted[n], m, nt2[<<n, m>>], nt2[<<m, n>>])
    BY DEF Counting
  <2>1. Outstanding(nd[n].term, counted[n], m, nt[<<n, m>>], nt[<<m, n>>])
    BY DEF Counting
  <2>2. nd[n].term \in Term /\ <<n, m>> \in Link /\ <<m, n>> \in Link
    BY FieldTypes, Links
  <2> QED BY <1>1, <2>1, <2>2, OutstandingShorter
<1>4. ASSUME NEW ballot, Voting(nd, nt, counted, ballot)
      PROVE  Voting(nd, nt2, counted, ballot)
  <2>1. ASSUME NEW n \in Node, NEW m \in Peers(n)
        PROVE  /\ nt2[<<n, m>>] # << >> => nt[<<n, m>>] # << >>
               /\ Under(nt2[<<m, n>>]) \subseteq Under(nt[<<m, n>>])
    <3>1. <<n, m>> \in Link /\ <<m, n>> \in Link
      BY Links
    <3> QED BY <1>1, <3>1
  <2>2. \A n \in Node : \A m \in Peers(n) : nt2[<<n, m>>] # << >> => {m, n} \subseteq Cluster
    BY <1>4, <2>1, ZenonT(30) DEF Voting
  <2>3. ASSUME NEW n \in Node, NEW v \in Peers(n), NEW q \in Under(nt2[<<v, n>>]),
               q.type = "response_vote"
        PROVE  ballot[v][q.term] = n
    <3>1. q \in Under(nt[<<v, n>>])
      BY <2>1
    <3> QED BY <1>4, <2>3, <3>1 DEF Voting
  <2> QED BY <1>4, <2>2, <2>3 DEF Voting
<1>5. ASSUME NEW elected, NEW written, Writing(nd, nt, elected, written)
      PROVE  Writing(nd, nt2, elected, written)
  <2>1. \A n \in Node : \A m \in Peers(n) : \A q \in Under(nt2[<<n, m>>]) :
          q.type = "append_entries" => Justified(written, q)
    BY <1>1, <1>5, Links DEF Writing
  <2> QED BY <1>5, <2>1 DEF Writing
<1> QED BY <1>2, <1>3, <1>4, <1>5

\* And so does all of it.
LEMMA FewerSound ==
  ASSUME NEW nd, NEW nt, NEW calm, Sound(nd, nt, calm), NEW nt2, Fewer(nt2, nt)
  PROVE  Sound(nd, nt2, calm)
<1>1. PICK counted : /\ Counting(nd, nt, counted)
                     /\ Static /\ calm => Elected(nd, nt, counted)
  BY DEF Sound
<1>2. Shaped(nd, nt2) /\ Counting(nd, nt2, counted)
  BY <1>1, FewerParts DEF Sound
<1>3. Elected(nd, nt, counted) => Elected(nd, nt2, counted)
  <2> SUFFICES ASSUME Elected(nd, nt, counted)
               PROVE  Elected(nd, nt2, counted)
    OBVIOUS
  <2>1. PICK ballot, elected, written : /\ Voting(nd, nt, counted, ballot)
                                        /\ Leading(nd, ballot, elected)
                                        /\ Writing(nd, nt, elected, written)
    BY DEF Elected
  <2>2. Voting(nd, nt2, counted, ballot) /\ Writing(nd, nt2, elected, written)
    BY <2>1, FewerParts DEF Sound
  <2> QED BY <2>1, <2>2 DEF Elected
<1> QED BY <1>1, <1>2, <1>3 DEF Sound
-----------------------------------------------------------------------------
(***************************************************************************)
(* The moves of an election.                                               *)
(***************************************************************************)
\* A vote is never taken back.
Grown(ballot, ballot2) ==
    \A v \in Node, t \in Term, k \in Node : ballot[v][t] = k => ballot2[v][t] = k

\* v votes for m in term t.
Cast(ballot, ballot2, v, t, m) == ballot2 = [ballot EXCEPT ![v] = [ballot[v] EXCEPT ![t] = m]]

\* A node that casts its vote, in its own term or a later one.
LEMMA VotingPut ==
  ASSUME NEW nd, NEW nt, Shaped(nd, nt), NEW counted, NEW ballot, Voting(nd, nt, counted, ballot),
         counted \in [Node -> SUBSET Node],
         NEW n \in Node, NEW s, Wellformed(n, s), s.term >= nd[n].term, s.others = nd[n].others,
         s.votedFor \in Node, ballot[n][s.term] = Nobody,
         NEW counted2, \A k \in Node \ {n} : counted2[k] = counted[k],
         \/ s.term = nd[n].term /\ counted2[n] = counted[n]
         \/ s.term > nd[n].term /\ counted2[n] = {n} /\ s.votedFor = n,
         NEW ballot2, Cast(ballot, ballot2, n, s.term, s.votedFor)
  PROVE  Voting(Put(nd, n, s), nt, counted2, ballot2) /\ Grown(ballot, ballot2)
<1> DEFINE nd2 == Put(nd, n, s)
           m == s.votedFor
<1>1. nd2[n] = s /\ \A k \in Node \ {n} : nd2[k] = nd[k]
  BY ShapedPut
<1> HIDE DEF nd2
<1>2. /\ \A k \in Node : nd[k].term \in Term /\ nd[k].term \in Int
      /\ s.term \in Term /\ s.term \in Int /\ \A t \in Term : t \in Int
  BY FieldTypes, WellformedLog DEF Term
<1>3. /\ ballot \in [Node -> [Term -> Somebody]] /\ m \in Somebody
      /\ ballot2 \in [Node -> [Term -> Somebody]]
      /\ ballot2[n][s.term] = m
      /\ \A v \in Node, t \in Term : v # n \/ t # s.term => ballot2[v][t] = ballot[v][t]
  <2>1. ballot \in [Node -> [Term -> Somebody]] /\ m \in Somebody
    BY DEF Voting, Somebody
  <2>2. ballot[n] \in [Term -> Somebody]
    BY <2>1
  <2> DEFINE b == [ballot[n] EXCEPT ![s.term] = m]
  <2>3. b \in [Term -> Somebody] /\ b[s.term] = m /\ \A t \in Term : t # s.term => b[t] = ballot[n][t]
    BY <1>2, <2>1, <2>2
  <2> HIDE DEF b
  <2>4. ballot2 = [ballot EXCEPT ![n] = b]
    BY DEF b, Cast
  <2>5. ballot2 \in [Node -> [Term -> Somebody]]
    BY <2>1, <2>3, <2>4
  <2>6. ballot2[n] = b /\ \A v \in Node : v # n => ballot2[v] = ballot[v]
    BY <2>1, <2>4
  <2> QED BY <2>1, <2>3, <2>5, <2>6
<1>4. Grown(ballot, ballot2)
  BY <1>3, RaftAssumption DEF Grown
<1>5. ASSUME NEW v \in Node
      PROVE  /\ ballot2[v][nd2[v].term] = nd2[v].votedFor
             /\ \A t \in Term : t > nd2[v].term => ballot2[v][t] = Nobody
  <2>1. CASE v = n
    <3>1. ASSUME NEW t \in Term, t > s.term
          PROVE  ballot2[n][t] = Nobody
      <4>1. t # s.term /\ t > nd[n].term
        BY <1>2, <3>1
      <4>2. ballot[n][t] = Nobody
        BY <4>1 DEF Voting
      <4> QED BY <1>3, <4>1, <4>2
    <3> QED BY <1>1, <1>3, <2>1, <3>1
  <2>2. CASE v # n
    BY <1>1, <1>2, <1>3, <2>2 DEF Voting
  <2> QED BY <2>1, <2>2
<1>7. ASSUME NEW k \in Node, NEW v \in counted2[k]
      PROVE  ballot2[v][nd2[k].term] = k /\ (v = k \/ {v, k} \subseteq Cluster)
  <2>1. CASE k = n /\ s.term # nd[n].term
    BY <1>1, <1>3, <2>1
  <2>2. CASE ~(k = n /\ s.term # nd[n].term)
    <3>1. v \in counted[k] /\ nd2[k].term = nd[k].term /\ v \in Node
      <4>1. CASE k = n
        BY <1>1, <1>2, <2>2, <4>1
      <4>2. CASE k # n
        BY <1>1, <4>2
      <4> QED BY <4>1, <4>2
    <3>2. ballot[v][nd[k].term] = k /\ (v = k \/ {v, k} \subseteq Cluster)
      BY <3>1 DEF Voting
    <3> QED BY <1>2, <1>4, <3>1, <3>2 DEF Grown
  <2> QED BY <2>1, <2>2
<1>8. ASSUME NEW k \in Node, NEW v \in Peers(k), NEW q \in Under(nt[<<v, k>>]),
             q.type = "response_vote"
      PROVE  ballot2[v][q.term] = k
  <2>1. ballot[v][q.term] = k /\ v \in Node
    BY <1>8 DEF Voting, Peers
  <2>2. q \in Message
    <3>1. nt[<<v, k>>] \in Seq(Message)
      BY Links DEF Shaped
    <3> QED BY <3>1, UnderType
  <2>3. q.term \in Term
    BY <1>8, <2>2
       DEF Message, RequestVotes, ResponseVotes, Appends, Positioned, Forwarded, Responses
  <2> QED BY <1>4, <2>1, <2>3 DEF Grown
<1>9. \A k \in Node : nd2[k].others = Cluster \ {k}
  BY <1>1 DEF Voting
<1> QED BY <1>3, <1>4, <1>5, <1>7, <1>8, <1>9 DEF Voting, nd2

\* A majority of the ballots stays one.
LEMMA WonGrown ==
  ASSUME NEW ballot, NEW ballot2, Grown(ballot, ballot2), NEW n \in Node, NEW t \in Term,
         Won(ballot, n, t)
  PROVE  Won(ballot2, n, t)
<1>1. PICK Q \in SUBSET Cluster : /\ 2 * Cardinality(Q) > Cardinality(Cluster)
                                  /\ \A v \in Q : ballot[v][t] = n
  BY DEF Won
<1>2. \A v \in Q : ballot2[v][t] = n
  BY <1>1, RaftAssumption DEF Grown
<1> QED BY <1>1, <1>2 DEF Won

\* n becomes a candidate and asks for votes.
LEMMA CampaignSound ==
  ASSUME NEW nd, NEW nt, NEW calm, Sound(nd, nt, calm), NEW n \in Node, NEW s, Wellformed(n, s),
         s.state = "CANDIDATE", s.term = nd[n].term + 1, s.votedFor = n, s.votes = 1,
         s.log = nd[n].log, s.others = nd[n].others,
         NEW to \in SUBSET Peers(n), Reach(Put(nd, n, s), n, to),
         NEW q, \A m \in to : q[m] \in RequestVotes /\ q[m].term = s.term
  PROVE  Sound(Put(nd, n, s), Sent(nt, n, to, q), calm)
<1> DEFINE nd2 == Put(nd, n, s)
           nt2 == Sent(nt, n, to, q)
<1>1. /\ Shaped(nd, nt) /\ Shaped(nd2, nt) /\ nd2[n] = s
      /\ \A k \in Node \ {n} : nd2[k] = nd[k]
      /\ nt \in [Link -> Seq(Message)] /\ Reach(nd2, n, to)
  BY ShapedPut DEF Sound, Shaped
<1> HIDE DEF nd2
<1>2. PICK counted : /\ Counting(nd, nt, counted)
                     /\ Static /\ calm => Elected(nd, nt, counted)
  BY DEF Sound
<1> DEFINE counted2 == [counted EXCEPT ![n] = {n}]
<1>3. /\ counted \in [Node -> SUBSET Node]
      /\ counted2 \in [Node -> SUBSET Node] /\ counted2[n] = {n}
      /\ \A k \in Node \ {n} : counted2[k] = counted[k]
  BY <1>2 DEF Counting
<1> HIDE DEF counted2
<1>4. /\ \A k \in Node : nd[k].term \in Term /\ nd[k].term \in Int
      /\ s.term \in Term /\ s.term > nd[n].term /\ s.term > 0 /\ \A t \in Term : t \in Int
  BY <1>1, FieldTypes, WellformedLog DEF Term
<1>5. ASSUME NEW m \in Peers(n)
      PROVE  /\ Outstanding(s.term, {n}, m, nt[<<n, m>>], nt[<<m, n>>])
             /\ Open(s.term, s.term, {n}, m, nt[<<n, m>>], nt[<<m, n>>])
  <2>1. Outstanding(nd[n].term, counted[n], m, nt[<<n, m>>], nt[<<m, n>>])
    BY <1>2 DEF Counting
  <2>2. nt[<<n, m>>] \in Seq(Message) /\ nt[<<m, n>>] \in Seq(Message) /\ m \notin {n}
    BY <1>1, Links DEF Peers
  <2> QED BY <1>4, <2>1, <2>2, OutstandingNewer, ZenonT(30)
<1>6. Counting(nd2, nt, counted2)
  <2>1. nd2[n].votes = Cardinality(counted2[n])
    <3>1. Cardinality({n}) = 1
      BY FS_Singleton
    <3> QED BY <1>1, <1>3, <3>1
  <2>2. ASSUME NEW k \in Node, NEW m \in Peers(k)
        PROVE  Outstanding(nd2[k].term, counted2[k], m, nt[<<k, m>>], nt[<<m, k>>])
    <3>1. CASE k = n
      BY <1>1, <1>3, <1>5, <3>1
    <3>2. CASE k # n
      BY <1>1, <1>2, <1>3, <3>2 DEF Counting
    <3> QED BY <3>1, <3>2
  <2> QED BY <1>1, <1>2, <1>3, <2>1, <2>2 DEF Counting
<1>7. ASSUME NEW m \in to
      PROVE  /\ q[m] \in Message /\ q[m].type = "request_vote" /\ q[m].term = s.term
             /\ Open(nd2[n].term, q[m].term, counted2[n], m, nt[<<n, m>>], nt[<<m, n>>])
  <2>1. q[m] \in Message /\ q[m].type = "request_vote" /\ q[m].term = s.term
    BY DEF Message, RequestVotes
  <2>2. Open(s.term, s.term, {n}, m, nt[<<n, m>>], nt[<<m, n>>])
    BY <1>5
  <2> QED BY <1>1, <1>3, <2>1, <2>2
<1>8. Counting(nd2, nt2, counted2)
  BY <1>1, <1>6, <1>7, CountingSent
<1>9. Shaped(nd2, nt2)
  BY <1>1, <1>7, SentLinks DEF Shaped, SentLink
<1>10. ASSUME Static, calm
       PROVE  Elected(nd2, nt2, counted2)
  <2>1. PICK ballot, elected, written : /\ Voting(nd, nt, counted, ballot)
                                        /\ Leading(nd, ballot, elected)
                                        /\ Writing(nd, nt, elected, written)
    BY <1>2, <1>10 DEF Elected
  <2>2. PICK ballot2 : Cast(ballot, ballot2, n, s.term, s.votedFor)
    BY DEF Cast
  <2>3. Voting(nd2, nt, counted2, ballot2) /\ Grown(ballot, ballot2)
    <3>1. ballot[n][s.term] = Nobody
      BY <1>4, <2>1 DEF Voting
    <3>2. Voting(Put(nd, n, s), nt, counted2, ballot2) /\ Grown(ballot, ballot2)
      <4>1. /\ s.term >= nd[n].term
            /\ \/ s.term = nd[n].term /\ counted2[n] = counted[n]
               \/ s.term > nd[n].term /\ counted2[n] = {n} /\ s.votedFor = n
        BY <1>3, <1>4
      <4>2. Shaped(nd, nt) /\ Voting(nd, nt, counted, ballot)
        BY <1>1, <2>1
      <4>3. counted \in [Node -> SUBSET Node] /\ \A k \in Node \ {n} : counted2[k] = counted[k]
        BY <1>3
      <4>4. s.votedFor \in Node
        OBVIOUS
      <4> HIDE DEF nt2
      <4> QED BY <2>2, <3>1, <4>1, <4>2, <4>3, <4>4, VotingPut
    <3> QED BY <3>2 DEF nd2
  <2>4. Voting(nd2, nt2, counted2, ballot2)
    BY <1>1, <1>7, <1>10, <2>3, VotingSent DEF Static
  <2>5. Leading(nd2, ballot2, elected)
    <3>1. ASSUME NEW k \in Node, NEW t \in Term, elected[t] = k
          PROVE  /\ Won(ballot2, k, t)
                 /\ nd2[k].term >= t
                 /\ nd2[k].term = t => nd2[k].state # "CANDIDATE"
      <4>1. /\ Won(ballot, k, t) /\ nd[k].term >= t
            /\ nd[k].term = t => nd[k].state # "CANDIDATE"
        BY <2>1, <3>1 DEF Leading
      <4>2. Won(ballot2, k, t)
        BY <2>3, <4>1, WonGrown
      <4>3. CASE k = n
        <5>1. s.term >= t /\ s.term # t
          BY <1>4, <4>1, <4>3
        <5> QED BY <1>1, <4>2, <4>3, <5>1
      <4>4. CASE k # n
        BY <1>1, <4>1, <4>2, <4>4
      <4> QED BY <4>3, <4>4
    <3>2. \A k \in Node : nd2[k].state \in {"CANDIDATE", "LEADER"} => nd2[k].term > 0
      BY <1>1, <1>4, <2>1 DEF Leading
    <3>3. \A k \in Node : nd2[k].state = "LEADER" => elected[nd2[k].term] = k
      BY <1>1, <2>1 DEF Leading
    <3> QED BY <2>1, <3>1, <3>2, <3>3 DEF Leading
  <2>6. Writing(nd2, nt, elected, written)
    <3>1. \A k \in Node : nd2[k].log = nd[k].log
      BY <1>1
    <3>2. \A k \in Node : nd2[k].state = "LEADER" => nd[k].state = "LEADER" /\ nd2[k].term = nd[k].term
      BY <1>1
    <3> QED BY <2>1, <3>1, <3>2 DEF Writing
  <2>7. Writing(nd2, nt2, elected, written)
    BY <1>1, <1>7, <2>6, WritingSent
  <2> QED BY <2>4, <2>5, <2>7 DEF Elected
<1> QED BY <1>8, <1>9, <1>10 DEF Sound, nd2

\* The net nt2 without the first message from m to n, and perhaps without more.
LessHead(nt2, nt, m, n) ==
    /\ Fewer(nt2, nt) /\ nt[<<m, n>>] # << >>
    /\ nt2[<<m, n>>] = Tail(nt[<<m, n>>]) \/ nt2[<<m, n>>] = << >>

\* n takes m's request and votes for m.
LEMMA GrantSound ==
  ASSUME NEW nd, NEW nt, NEW calm, Sound(nd, nt, calm), NEW n \in Node, NEW m \in Peers(n),
         NEW nt1, LessHead(nt1, nt, m, n), NEW q, q = Head(nt[<<m, n>>]), q.type = "request_vote",
         nd[n].term = q.term, nd[n].votedFor = Nobody,
         NEW s, Wellformed(n, s),
         s.state = nd[n].state, s.term = nd[n].term, s.votedFor = m, s.votes = nd[n].votes,
         s.log = nd[n].log, s.others = nd[n].others,
         NEW to \in SUBSET {m}, Reach(Put(nd, n, s), n, to),
         NEW a, \A k \in to : a[k] \in ResponseVotes /\ a[k].term = q.term
  PROVE  Sound(Put(nd, n, s), Sent(nt1, n, to, a), calm)
<1> DEFINE nd2 == Put(nd, n, s)
           nt2 == Sent(nt1, n, to, a)
<1>1. /\ Shaped(nd, nt) /\ Shaped(nd2, nt) /\ nd2[n] = s
      /\ \A k \in Node \ {n} : nd2[k] = nd[k]
      /\ Reach(nd2, n, to) /\ Fewer(nt1, nt)
      /\ to \in SUBSET Peers(n) /\ m \in Node /\ n \in Peers(m) /\ m # n
  BY ShapedPut, Links DEF Sound, LessHead, Peers
<1> HIDE DEF nd2
<1>2. Shaped(nd2, nt1) /\ nt1 \in [Link -> Seq(Message)]
  BY <1>1, FewerParts DEF Shaped
<1>3. PICK counted : /\ Counting(nd, nt, counted)
                     /\ Static /\ calm => Elected(nd, nt, counted)
  BY DEF Sound
<1>4. Counting(nd2, nt, counted) /\ counted \in [Node -> SUBSET Node]
  <2>1. \A k \in Node : nd2[k].term = nd[k].term /\ nd2[k].votes = nd[k].votes
    BY <1>1
  <2> QED BY <1>3, <2>1 DEF Counting
<1>5. Counting(nd2, nt1, counted)
  BY <1>1, <1>4, FewerParts
<1>6. Open(nd2[m].term, q.term, counted[m], n, nt1[<<m, n>>], nt1[<<n, m>>])
  <2>1. Outstanding(nd2[m].term, counted[m], n, nt[<<m, n>>], nt[<<n, m>>])
    BY <1>1, <1>4 DEF Counting
  <2>2. /\ nt[<<m, n>>] \in Seq(Message) /\ nt[<<n, m>>] \in Seq(Message)
        /\ Shorter(nt1[<<m, n>>], nt[<<m, n>>]) /\ Shorter(nt1[<<n, m>>], nt[<<n, m>>])
    BY <1>1, Links DEF Shaped, Fewer
  <2>3. nd2[m].term \in Term
    BY <1>1, FieldTypes
  <2> QED BY <2>1, <2>2, <2>3, OutstandingTaken DEF LessHead
<1>7. ASSUME NEW k \in to
      PROVE  /\ a[k] \in Message /\ a[k].type = "response_vote" /\ a[k].term = q.term /\ k = m
             /\ Open(nd2[k].term, a[k].term, counted[k], n, nt1[<<k, n>>], nt1[<<n, k>>])
  <2>1. a[k] \in Message /\ a[k].type = "response_vote" /\ a[k].term = q.term /\ k = m
    BY DEF Message, ResponseVotes
  <2> QED BY <1>6, <2>1
<1>8. Counting(nd2, nt2, counted)
  BY <1>1, <1>2, <1>5, <1>7, CountingSent
<1>9. Shaped(nd2, nt2)
  BY <1>2, <1>1, <1>7, SentLinks DEF Shaped, SentLink
<1>10. ASSUME Static, calm
       PROVE  Elected(nd2, nt2, counted)
  <2>1. PICK ballot, elected, written : /\ Voting(nd, nt, counted, ballot)
                                        /\ Leading(nd, ballot, elected)
                                        /\ Writing(nd, nt, elected, written)
    BY <1>3, <1>10 DEF Elected
  <2>2. PICK ballot2 : Cast(ballot, ballot2, n, s.term, s.votedFor)
    BY DEF Cast
  <2>3. s.term \in Term /\ s.term >= nd[n].term
    BY <1>1, FieldTypes
  <2>4. Voting(nd2, nt, counted, ballot2) /\ Grown(ballot, ballot2)
    <3>1. ballot[n][s.term] = Nobody
      BY <2>1 DEF Voting
    <3>2. Voting(Put(nd, n, s), nt, counted, ballot2) /\ Grown(ballot, ballot2)
      BY <1>1, <1>4, <2>1, <2>2, <2>3, <3>1, VotingPut
    <3> QED BY <3>2 DEF nd2
  <2>5. Voting(nd2, nt1, counted, ballot2)
    BY <1>1, <2>4, FewerParts
  <2>6. ballot2[n][q.term] = m
    <3>1. ballot \in [Node -> [Term -> Somebody]]
      BY <2>1 DEF Voting
    <3> QED BY <2>2, <2>3, <3>1 DEF Cast
  <2>7. Voting(nd2, nt2, counted, ballot2)
    BY <1>1, <1>2, <1>7, <1>10, <2>5, <2>6, VotingSent DEF Static
  <2>8. Leading(nd2, ballot2, elected)
    <3>1. \A k \in Node : nd2[k].state = nd[k].state /\ nd2[k].term = nd[k].term
      BY <1>1
    <3> QED BY <2>1, <2>4, <3>1, WonGrown DEF Leading
  <2>9. Writing(nd2, nt, elected, written)
    <3>1. \A k \in Node : /\ nd2[k].log = nd[k].log /\ nd2[k].state = nd[k].state
                          /\ nd2[k].term = nd[k].term
      BY <1>1
    <3> QED BY <2>1, <3>1 DEF Writing
  <2>10. Writing(nd2, nt1, elected, written)
    BY <1>1, <2>9, FewerParts
  <2>11. Writing(nd2, nt2, elected, written)
    BY <1>1, <1>2, <1>7, <2>10, WritingSent
  <2> QED BY <2>7, <2>8, <2>11 DEF Elected
<1> QED BY <1>8, <1>9, <1>10 DEF Sound, nd2

\* A candidate takes a vote of m for its term and counts it.
LEMMA CountSound ==
  ASSUME NEW nd, NEW nt, NEW calm, Sound(nd, nt, calm), NEW n \in Node, NEW m \in Peers(n),
         NEW nt1, LessHead(nt1, nt, m, n), NEW q, q = Head(nt[<<m, n>>]), q.type = "response_vote",
         nd[n].term = q.term,
         NEW s, Wellformed(n, s),
         s.state = nd[n].state, s.term = nd[n].term, s.votedFor = nd[n].votedFor,
         s.votes = nd[n].votes + 1, s.log = nd[n].log, s.others = nd[n].others
  PROVE  Sound(Put(nd, n, s), nt1, calm)
<1> DEFINE nd2 == Put(nd, n, s)
<1>1. /\ Shaped(nd, nt) /\ Shaped(nd2, nt) /\ nd2[n] = s
      /\ \A k \in Node \ {n} : nd2[k] = nd[k]
      /\ Fewer(nt1, nt) /\ m \in Node /\ n \in Peers(m) /\ m # n
  BY ShapedPut, Links DEF Sound, LessHead, Peers
<1> HIDE DEF nd2
<1>2. PICK counted : /\ Counting(nd, nt, counted)
                     /\ Static /\ calm => Elected(nd, nt, counted)
  BY DEF Sound
<1> DEFINE counted2 == [counted EXCEPT ![n] = counted[n] \union {m}]
<1>3. /\ counted \in [Node -> SUBSET Node]
      /\ counted2 \in [Node -> SUBSET Node] /\ counted2[n] = counted[n] \union {m}
      /\ \A k \in Node \ {n} : counted2[k] = counted[k]
  BY <1>1, <1>2 DEF Counting
<1> HIDE DEF counted2
<1>4. Counting(nd, nt1, counted) /\ Shaped(nd2, nt1)
  BY <1>1, <1>2, FewerParts
<1>5. Open(nd[n].term, q.term, counted[n], m, nt1[<<n, m>>], nt1[<<m, n>>])
  <2>1. Outstanding(nd[n].term, counted[n], m, nt[<<n, m>>], nt[<<m, n>>])
    BY <1>2 DEF Counting
  <2>2. /\ nt[<<m, n>>] \in Seq(Message) /\ nt[<<n, m>>] \in Seq(Message)
        /\ Shorter(nt1[<<m, n>>], nt[<<m, n>>]) /\ Shorter(nt1[<<n, m>>], nt[<<n, m>>])
    BY <1>1, Links DEF Shaped, Fewer
  <2>3. nd[n].term \in Term
    BY <1>1, FieldTypes
  <2> QED BY <2>1, <2>2, <2>3, OutstandingTaken DEF LessHead
<1>6. Counting(nd2, nt1, counted2)
  <2>1. nd2[n].votes = Cardinality(counted2[n])
    <3>1. m \notin counted[n] /\ IsFiniteSet(counted[n])
      BY <1>3, <1>5, FS_Subset, RaftAssumption DEF Open
    <3>2. nd[n].votes = Cardinality(counted[n])
      BY <1>2 DEF Counting
    <3>3. Cardinality(counted[n] \union {m}) = Cardinality(counted[n]) + 1
      BY <3>1, FS_AddElement
    <3> QED BY <1>1, <1>3, <3>2, <3>3
  <2>2. ASSUME NEW k \in Peers(n)
        PROVE  Outstanding(nd[n].term, counted2[n], k, nt1[<<n, k>>], nt1[<<k, n>>])
    <3>1. Outstanding(nd[n].term, counted[n], k, nt1[<<n, k>>], nt1[<<k, n>>])
      BY <1>4 DEF Counting
    <3>2. CASE k = m
      BY <1>5, <3>1, <3>2 DEF Outstanding, Open
    <3>3. CASE k # m
      BY <1>3, <3>1, <3>3 DEF Outstanding
    <3> QED BY <3>2, <3>3
  <2>3. \A k \in Node : nd2[k].term = nd[k].term
    BY <1>1
  <2> QED BY <1>1, <1>3, <1>4, <2>1, <2>2, <2>3 DEF Counting
<1>7. ASSUME Static, calm
      PROVE  Elected(nd2, nt1, counted2)
  <2>1. PICK ballot, elected, written : /\ Voting(nd, nt, counted, ballot)
                                        /\ Leading(nd, ballot, elected)
                                        /\ Writing(nd, nt, elected, written)
    BY <1>2, <1>7 DEF Elected
  <2>2. \A k \in Node : /\ nd2[k].log = nd[k].log /\ nd2[k].state = nd[k].state
                        /\ nd2[k].term = nd[k].term /\ nd2[k].others = nd[k].others
                        /\ nd2[k].votedFor = nd[k].votedFor
    BY <1>1
  <2>3. Voting(nd2, nt1, counted2, ballot)
    <3>1. ballot[m][nd[n].term] = n
      <4>1. nt[<<m, n>>] \in Seq(Message) /\ nt[<<m, n>>] # << >>
        BY <1>1, Links DEF Shaped, LessHead
      <4>2. q \in Under(nt[<<m, n>>])
        BY <4>1, LenProperties, HeadTailProperties, EmptySeq, SMTT(20) DEF Under
      <4> QED BY <2>1, <4>2 DEF Voting
    <3>2. {m, n} \subseteq Cluster
      BY <1>1, <2>1 DEF Voting, LessHead
    <3>3. \A k \in Node : \A v \in counted2[k] :
             ballot[v][nd2[k].term] = k /\ (v = k \/ {v, k} \subseteq Cluster)
      BY <1>3, <2>1, <2>2, <3>1, <3>2 DEF Voting
    <3>4. Voting(nd, nt1, counted, ballot)
      BY <1>1, <2>1, FewerParts
    <3> QED BY <2>2, <3>3, <3>4, SMTT(20) DEF Voting
  <2>4. Leading(nd2, ballot, elected)
    BY <2>1, <2>2 DEF Leading
  <2>5. Writing(nd2, nt1, elected, written)
    <3>1. Writing(nd, nt1, elected, written)
      BY <1>1, <2>1, FewerParts
    <3> QED BY <2>2, <3>1 DEF Writing
  <2> QED BY <2>3, <2>4, <2>5 DEF Elected
<1> QED BY <1>4, <1>6, <1>7 DEF Sound, nd2
-----------------------------------------------------------------------------
(***************************************************************************)
(* The moves of a leader's log, and those of its followers'.               *)
(***************************************************************************)
\* Two majorities have a voter in common.
LEMMA WonOnce ==
  ASSUME NEW ballot, NEW m \in Node, NEW n \in Node, NEW t \in Term,
         Won(ballot, m, t), Won(ballot, n, t)
  PROVE  m = n
<1>1. PICK P \in SUBSET Cluster : /\ 2 * Cardinality(P) > Cardinality(Cluster)
                                  /\ \A v \in P : ballot[v][t] = m
  BY DEF Won
<1>2. PICK Q \in SUBSET Cluster : /\ 2 * Cardinality(Q) > Cardinality(Cluster)
                                  /\ \A v \in Q : ballot[v][t] = n
  BY DEF Won
<1>3. IsFiniteSet(Cluster) /\ IsFiniteSet(P) /\ IsFiniteSet(Q)
  BY FS_Subset, RaftAssumption
<1>4. Cardinality(Cluster) \in Nat /\ Cardinality(P) \in Nat /\ Cardinality(Q) \in Nat
  BY <1>3, FS_CardinalityType
<1>5. Cardinality(P) + Cardinality(Q) > Cardinality(Cluster)
  BY <1>1, <1>2, <1>4
<1>6. P \intersect Q # {}
  BY <1>3, <1>5, FS_MajoritiesIntersect
<1> QED BY <1>1, <1>2, <1>6

\* The voters that a candidate has counted are a majority of the cluster, if
\* they are many enough.
LEMMA CountedWon ==
  ASSUME NEW nd, NEW nt, Shaped(nd, nt), NEW counted, Counting(nd, nt, counted),
         NEW ballot, Voting(nd, nt, counted, ballot), Cluster # {},
         NEW n \in Node, Majority(nd[n], nd[n].votes)
  PROVE  Won(ballot, n, nd[n].term)
<1>1. /\ IsFiniteSet(Cluster) /\ IsFiniteSet(Cluster \ {n}) /\ IsFiniteSet(counted[n])
      /\ counted[n] \subseteq Node
  BY FS_Subset, RaftAssumption DEF Counting
<1>2. /\ Cardinality(Cluster) \in Nat /\ Cardinality(Cluster \ {n}) \in Nat
      /\ Cardinality(counted[n]) \in Nat /\ Cardinality(Cluster) # 0
  BY <1>1, FS_CardinalityType, FS_EmptySet
<1>3. 2 * Cardinality(counted[n]) > Cardinality(Cluster \ {n}) + 1
  BY DEF Majority, Counting, Voting
<1>4. \A v \in counted[n] : ballot[v][nd[n].term] = n /\ (v = n \/ {v, n} \subseteq Cluster)
  BY DEF Voting
<1>5. CASE n \in Cluster
  <2>1. Cardinality(Cluster \ {n}) = Cardinality(Cluster) - 1
    BY <1>1, <1>5, FS_RemoveElement
  <2>2. 2 * Cardinality(counted[n]) > Cardinality(Cluster)
    BY <1>2, <1>3, <2>1
  <2>3. counted[n] \in SUBSET Cluster
    BY <1>4, <1>5
  <2> QED BY <1>4, <2>2, <2>3 DEF Won
<1>6. CASE n \notin Cluster
  <2>1. counted[n] \subseteq {n} /\ Cluster \ {n} = Cluster
    BY <1>4, <1>6
  <2>2. Cardinality(counted[n]) <= 1
    <3>1. IsFiniteSet({n}) /\ Cardinality({n}) = 1
      BY FS_Singleton
    <3> QED BY <2>1, <3>1, FS_Subset
  <2> QED BY <1>2, <1>3, <2>1, <2>2
<1> QED BY <1>5, <1>6

\* written2 records what written does, and more.
LEMMA RecordedMore ==
  ASSUME NEW written, NEW written2 \in [Term -> Log],
         \A t \in Term : /\ Len(written[t]) <= Len(written2[t])
                         /\ Len(written[t]) \in Int /\ Len(written2[t]) \in Int
                         /\ \A i \in 1 .. Len(written[t]) : written2[t][i] = written[t][i]
  PROVE  /\ \A log \in Log : Recorded(written, log) => Recorded(written2, log)
         /\ \A q \in Appends : Justified(written, q) => Justified(written2, q)
<1>1. ASSUME NEW log \in Log, Recorded(written, log), NEW i \in 1 .. Len(log)
      PROVE  LET t == log[i].term
             IN  i <= Len(written2[t]) /\ \A k \in 1 .. i : log[k] = written2[t][k]
  <2> DEFINE t == log[i].term
  <2>1. t \in Term /\ i \in Int
    <3>1. log[i] \in Entry /\ i \in Int
      BY ElementOfSeq, LenProperties DEF Log
    <3> QED BY <3>1 DEF Entry, Term
  <2>2. i <= Len(written[t]) /\ \A k \in 1 .. i : log[k] = written[t][k]
    BY <1>1 DEF Recorded
  <2> HIDE DEF t
  <2>3. \A k \in 1 .. i : k \in 1 .. Len(written[t])
    BY <2>1, <2>2
  <2>4. i <= Len(written2[t]) /\ \A k \in 1 .. i : log[k] = written2[t][k]
    BY <2>1, <2>2, <2>3
  <2> QED BY <2>4 DEF t
<1>2. ASSUME NEW q \in Appends, Justified(written, q), q.prevLogIdx >= 1, NEW j \in 1 .. Len(q.entries)
      PROVE  LET t == q.entries[j].term
             IN  /\ q.prevLogIdx + j <= Len(written2[t])
                 /\ written2[t][q.prevLogIdx].term = q.prevLogTerm
                 /\ \A k \in 1 .. j : q.entries[k] = written2[t][q.prevLogIdx + k]
  <2> DEFINE t == q.entries[j].term
             p == q.prevLogIdx
  <2>1. t \in Term /\ j \in Int /\ j >= 1 /\ p \in Int /\ p >= 1
    <3>1. q.entries \in Seq(Entry) /\ p \in Nat
      BY DEF Appends, Log
    <3>2. q.entries[j] \in Entry /\ j \in Int /\ j >= 1
      BY <3>1, ElementOfSeq, LenProperties
    <3> QED BY <1>2, <3>1, <3>2 DEF Entry, Term
  <2>2. /\ p + j <= Len(written[t]) /\ written[t][p].term = q.prevLogTerm
        /\ \A k \in 1 .. j : q.entries[k] = written[t][p + k]
    BY <1>2 DEF Justified
  <2> HIDE DEF t, p
  <2>3. p \in 1 .. Len(written[t]) /\ \A k \in 1 .. j : p + k \in 1 .. Len(written[t])
    BY <2>1, <2>2
  <2>4. /\ p + j <= Len(written2[t]) /\ written2[t][p].term = q.prevLogTerm
        /\ \A k \in 1 .. j : q.entries[k] = written2[t][p + k]
    BY <2>1, <2>2, <2>3
  <2> QED BY <2>4 DEF t, p
<1> QED BY <1>1, <1>2 DEF Recorded, Justified

\* A leader, perhaps a new one, appends an entry of its term.
LEMMA WritingMore ==
  ASSUME NEW nd, NEW nt, Shaped(nd, nt), NEW elected, NEW written, Writing(nd, nt, elected, written),
         NEW n \in Node, NEW s, Wellformed(n, s), s.state = "LEADER", s.term = nd[n].term,
         NEW e \in Entry, e.term = s.term, s.log = Append(nd[n].log, e),
         written[s.term] \in {<< >>, nd[n].log},
         \A k \in Node \ {n} : nd[k].state = "LEADER" => nd[k].term # s.term,
         NEW elected2, \A t \in Term : IF t = s.term THEN elected2[t] = n ELSE elected2[t] = elected[t]
  PROVE  \E written2 : Writing(Put(nd, n, s), nt, elected2, written2)
<1> DEFINE nd2 == Put(nd, n, s)
           written2 == [written EXCEPT ![s.term] = s.log]
<1>1. nd2[n] = s /\ (\A k \in Node \ {n} : nd2[k] = nd[k])
  BY ShapedPut
<1> HIDE DEF nd2
<1>2. /\ s.term \in Term /\ s.log \in Log /\ written \in [Term -> Log]
      /\ nd[n].log \in Seq(Entry) /\ nd[n].log # << >> /\ \A k \in Node : nd[k].log \in Log
  BY WellformedLog, FieldTypes DEF Writing, Log
<1>3. /\ written2 \in [Term -> Log] /\ written2[s.term] = s.log
      /\ \A t \in Term : t # s.term => written2[t] = written[t]
  BY <1>2
<1> HIDE DEF written2
<1>4. /\ Len(nd[n].log) \in Nat /\ Len(s.log) = Len(nd[n].log) + 1
      /\ \A i \in 1 .. Len(nd[n].log) : s.log[i] = nd[n].log[i]
      /\ s.log[Len(nd[n].log) + 1] = e
  BY <1>2, AppendType
<1>5. ASSUME NEW t \in Term
      PROVE  /\ Len(written[t]) <= Len(written2[t])
             /\ Len(written[t]) \in Int /\ Len(written2[t]) \in Int
             /\ \A i \in 1 .. Len(written[t]) : written2[t][i] = written[t][i]
  <2>1. Len(written[t]) \in Int /\ Len(written2[t]) \in Int
    BY <1>2, <1>3, LenProperties DEF Log
  <2>2. CASE t # s.term
    BY <1>3, <2>1, <2>2
  <2>3. CASE t = s.term /\ written[t] = << >>
    <3>1. Len(written[t]) = 0
      BY <2>3, EmptySeq
    <3> QED BY <1>3, <1>4, <2>1, <2>3, <3>1
  <2>4. CASE t = s.term /\ written[t] = nd[n].log
    BY <1>3, <1>4, <2>1, <2>4
  <2> QED BY <2>2, <2>3, <2>4
<1>6. /\ \A log \in Log : Recorded(written, log) => Recorded(written2, log)
      /\ \A q \in Appends : Justified(written, q) => Justified(written2, q)
  BY <1>3, <1>5, RecordedMore
<1>7. Recorded(written2, s.log)
  <2>1. Recorded(written2, nd[n].log)
    BY <1>2, <1>6 DEF Writing
  <2> SUFFICES ASSUME NEW i \in 1 .. Len(s.log)
               PROVE  LET t == s.log[i].term
                      IN  i <= Len(written2[t]) /\ \A k \in 1 .. i : s.log[k] = written2[t][k]
    BY DEF Recorded
  <2>2. CASE i = Len(nd[n].log) + 1
    <3>1. s.log[i] = e /\ e.term = s.term /\ i <= Len(written2[s.term])
      BY <1>3, <1>4, <2>2
    <3>2. \A k \in 1 .. i : s.log[k] = written2[s.term][k]
      BY <1>3
    <3> QED BY <3>1, <3>2
  <2>3. CASE i # Len(nd[n].log) + 1
    <3>1. i \in 1 .. Len(nd[n].log) /\ s.log[i] = nd[n].log[i]
          /\ \A k \in 1 .. i : s.log[k] = nd[n].log[k]
      BY <1>4, <2>3
    <3> QED BY <2>1, <3>1 DEF Recorded
  <2> QED BY <2>2, <2>3
<1>8. \A t \in Term : Recorded(written2, written2[t])
  BY <1>2, <1>3, <1>6, <1>7 DEF Writing
<1>9. \A k \in Node : Recorded(written2, nd2[k].log)
  BY <1>1, <1>2, <1>6, <1>7 DEF Writing
<1>10. \A k \in Node : nd2[k].state = "LEADER" => written2[nd2[k].term] = nd2[k].log
  <2>1. \A k \in Node : nd[k].term \in Term
    BY FieldTypes
  <2> SUFFICES ASSUME NEW k \in Node, nd2[k].state = "LEADER"
               PROVE  written2[nd2[k].term] = nd2[k].log
    OBVIOUS
  <2>2. CASE k = n
    BY <1>1, <1>3, <2>2
  <2>3. CASE k # n
    <3>1. nd2[k] = nd[k] /\ written[nd[k].term] = nd[k].log /\ nd[k].term # s.term
      BY <1>1, <2>3 DEF Writing
    <3> QED BY <1>3, <2>1, <3>1
  <2> QED BY <2>2, <2>3
<1>11. \A t \in Term : elected2[t] = Nobody => written2[t] = Beginning(t)
  BY <1>3, RaftAssumption DEF Writing
<1>12. ASSUME NEW k \in Node, NEW m \in Peers(k), NEW q \in Under(nt[<<k, m>>]),
              q.type = "append_entries"
       PROVE  Justified(written2, q)
  <2>1. q \in Message
    <3>1. nt[<<k, m>>] \in Seq(Message)
      BY Links DEF Shaped
    <3> QED BY <3>1, UnderType
  <2>2. q \in Appends
    BY <1>12, <2>1 DEF Message, RequestVotes, ResponseVotes, Positioned, Forwarded, Responses
  <2>3. Justified(written, q)
    BY <1>12 DEF Writing
  <2> QED BY <1>6, <2>2, <2>3
<1>13. Writing(nd2, nt, elected2, written2)
  BY <1>3, <1>8, <1>9, <1>10, <1>11, <1>12 DEF Writing
<1> QED BY <1>13 DEF nd2

\* A candidate with a majority of votes becomes a leader.
LEMMA LeadSound ==
  ASSUME NEW nd, NEW nt, NEW calm, Sound(nd, nt, calm), NEW n \in Node,
         nd[n].state = "CANDIDATE", Majority(nd[n], nd[n].votes)
  PROVE  Sound(Put(nd, n, BecomeLeader(nd[n], n)), nt, calm)
<1> DEFINE s == BecomeLeader(nd[n], n)
           nd2 == Put(nd, n, s)
           e == [cmd |-> NoOp, term |-> nd[n].term]
<1>0. /\ Wellformed(n, s) /\ s.state = "LEADER" /\ s.term = nd[n].term
      /\ s.votedFor = nd[n].votedFor /\ s.votes = nd[n].votes /\ s.others = nd[n].others
      /\ s.log = Append(nd[n].log, e)
  BY BecomeLeaderType DEF Sound, Shaped
<1> HIDE DEF s
<1>1. /\ Shaped(nd, nt) /\ Shaped(nd2, nt) /\ nd2[n] = s
      /\ \A k \in Node \ {n} : nd2[k] = nd[k]
  BY <1>0, ShapedPut DEF Sound
<1> HIDE DEF nd2
<1>2. PICK counted : /\ Counting(nd, nt, counted)
                     /\ Static /\ calm => Elected(nd, nt, counted)
  BY DEF Sound
<1>3. \A k \in Node : /\ nd2[k].term = nd[k].term /\ nd2[k].votedFor = nd[k].votedFor
                      /\ nd2[k].votes = nd[k].votes /\ nd2[k].others = nd[k].others
                      /\ nd[k].term \in Term
  BY <1>0, <1>1, FieldTypes
<1>4. Counting(nd2, nt, counted)
  BY <1>2, <1>3 DEF Counting
<1>5. ASSUME Static, calm
      PROVE  Elected(nd2, nt, counted)
  <2>1. PICK ballot, elected, written : /\ Voting(nd, nt, counted, ballot)
                                        /\ Leading(nd, ballot, elected)
                                        /\ Writing(nd, nt, elected, written)
    BY <1>2, <1>5 DEF Elected
  <2> DEFINE t == nd[n].term
  <2>2. Voting(nd2, nt, counted, ballot)
    BY <1>3, <2>1 DEF Voting
  <2>3. Won(ballot, n, t) /\ t \in Term /\ t \in Int /\ t > 0
    BY <1>1, <1>2, <1>5, <2>1, CountedWon, FieldTypes DEF Static, Leading
  <2>4. elected[t] = Nobody
    <3> SUFFICES ASSUME elected[t] \in Node
                 PROVE  FALSE
      BY <2>1, <2>3 DEF Leading, Somebody
    <3>1. Won(ballot, elected[t], t)
      BY <2>1, <2>3 DEF Leading
    <3>2. elected[t] = n
      BY <2>3, <3>1, WonOnce
    <3> QED BY <2>1, <2>3, <3>2 DEF Leading
  <2> DEFINE elected2 == [elected EXCEPT ![t] = n]
  <2>5. /\ elected2 \in [Term -> Somebody] /\ elected2[t] = n
        /\ \A u \in Term : u # t => elected2[u] = elected[u]
    BY <2>1, <2>3 DEF Leading, Somebody
  <2> HIDE DEF elected2
  <2>6. Leading(nd2, ballot, elected2)
    <3>1. ASSUME NEW k \in Node, NEW u \in Term, elected2[u] = k
          PROVE  /\ Won(ballot, k, u)
                 /\ nd2[k].term >= u
                 /\ nd2[k].term = u => nd2[k].state # "CANDIDATE"
      <4>1. CASE u = t
        BY <1>0, <1>1, <2>3, <2>5, <3>1, <4>1
      <4>2. CASE u # t
        <5>1. elected[u] = k
          BY <2>5, <3>1, <4>2
        <5>2. /\ Won(ballot, k, u) /\ nd[k].term >= u
              /\ nd[k].term = u => nd[k].state # "CANDIDATE"
          BY <2>1, <5>1 DEF Leading
        <5> QED BY <1>0, <1>1, <5>2
      <4> QED BY <4>1, <4>2
    <3>2. \A k \in Node : nd2[k].state \in {"CANDIDATE", "LEADER"} => nd2[k].term > 0
      BY <1>0, <1>1, <2>1, <2>3 DEF Leading
    <3>3. ASSUME NEW k \in Node, nd2[k].state = "LEADER"
          PROVE  elected2[nd2[k].term] = k
      <4>1. CASE k = n
        BY <1>0, <1>1, <2>5, <4>1
      <4>2. CASE k # n
        <5>1. nd2[k] = nd[k] /\ elected[nd[k].term] = k
          BY <1>1, <2>1, <3>3, <4>2 DEF Leading
        <5>2. nd[k].term # t
          BY <2>4, <5>1, RaftAssumption
        <5> QED BY <1>3, <2>5, <5>1, <5>2
      <4> QED BY <4>1, <4>2
    <3> QED BY <2>5, <3>1, <3>2, <3>3 DEF Leading
  <2>7. \E written2 : Writing(nd2, nt, elected2, written2)
    <3>1. e \in Entry /\ e.term = s.term
      BY <1>0, <2>3 DEF Entry, Term
    <3>2. written[s.term] \in {<< >>, nd[n].log}
      BY <1>0, <2>1, <2>3, <2>4 DEF Writing, Beginning
    <3>3. \A k \in Node \ {n} : nd[k].state = "LEADER" => nd[k].term # s.term
      BY <1>0, <2>1, <2>4, RaftAssumption DEF Leading
    <3>4. \A u \in Term : IF u = s.term THEN elected2[u] = n ELSE elected2[u] = elected[u]
      BY <1>0, <2>5
    <3>5. \E written2 : Writing(Put(nd, n, s), nt, elected2, written2)
      <4> HIDE DEF e
      <4> QED BY <1>0, <1>1, <2>1, <3>1, <3>2, <3>3, <3>4, WritingMore
    <3> QED BY <3>5 DEF nd2
  <2> QED BY <2>2, <2>6, <2>7 DEF Elected
<1> QED BY <1>1, <1>4, <1>5 DEF Sound, nd2, s

\* A leader appends a command.
LEMMA ExtendSound ==
  ASSUME NEW nd, NEW nt, NEW calm, Sound(nd, nt, calm), NEW n \in Node, nd[n].state = "LEADER",
         NEW s, Wellformed(n, s), s.state = "LEADER", s.term = nd[n].term,
         s.votedFor = nd[n].votedFor, s.votes = nd[n].votes,
         Change = {} => s.others = nd[n].others,
         NEW e \in Entry, e.term = s.term, s.log = Append(nd[n].log, e)
  PROVE  Sound(Put(nd, n, s), nt, calm)
<1> DEFINE nd2 == Put(nd, n, s)
<1>1. /\ Shaped(nd, nt) /\ Shaped(nd2, nt) /\ nd2[n] = s
      /\ \A k \in Node \ {n} : nd2[k] = nd[k]
  BY ShapedPut DEF Sound
<1> HIDE DEF nd2
<1>2. PICK counted : /\ Counting(nd, nt, counted)
                     /\ Static /\ calm => Elected(nd, nt, counted)
  BY DEF Sound
<1>3. \A k \in Node : /\ nd2[k].term = nd[k].term /\ nd2[k].votedFor = nd[k].votedFor
                      /\ nd2[k].votes = nd[k].votes /\ nd2[k].state = nd[k].state
                      /\ Change = {} => nd2[k].others = nd[k].others
  BY <1>1
<1>4. Counting(nd2, nt, counted)
  BY <1>2, <1>3 DEF Counting
<1>5. ASSUME Static, calm
      PROVE  Elected(nd2, nt, counted)
  <2>1. PICK ballot, elected, written : /\ Voting(nd, nt, counted, ballot)
                                        /\ Leading(nd, ballot, elected)
                                        /\ Writing(nd, nt, elected, written)
    BY <1>2, <1>5 DEF Elected
  <2>2. Voting(nd2, nt, counted, ballot)
    BY <1>3, <1>5, <2>1 DEF Voting, Static
  <2>3. Leading(nd2, ballot, elected)
    BY <1>3, <2>1 DEF Leading
  <2>4. elected[s.term] = n
    BY <2>1 DEF Leading
  <2>5. \E written2 : Writing(nd2, nt, elected, written2)
    <3>1. written[s.term] \in {<< >>, nd[n].log}
      BY <2>1 DEF Writing
    <3>2. \A k \in Node \ {n} : nd[k].state = "LEADER" => nd[k].term # s.term
      BY <2>1, <2>4 DEF Leading
    <3>3. \A u \in Term : IF u = s.term THEN elected[u] = n ELSE elected[u] = elected[u]
      BY <2>4
    <3>4. \E written2 : Writing(Put(nd, n, s), nt, elected, written2)
      BY <1>1, <2>1, <3>1, <3>2, <3>3, WritingMore
    <3> QED BY <3>4 DEF nd2
  <2> QED BY <2>2, <2>3, <2>5 DEF Elected
<1> QED BY <1>1, <1>4, <1>5 DEF Sound, nd2

\* A follower whose log has the entry in front of those of q takes them over.
LEMMA OverwriteSound ==
  ASSUME NEW nd, NEW nt, NEW calm, Sound(nd, nt, calm), NEW n \in Node, NEW m \in Peers(n),
         NEW q \in Appends, q \in Under(nt[<<m, n>>]),
         q.prevLogIdx \in DOMAIN nd[n].log, nd[n].log[q.prevLogIdx].term = q.prevLogTerm,
         NEW s, Wellformed(n, s), nd[n].state = "FOLLOWER", s.state = "FOLLOWER",
         s.term = nd[n].term, s.votedFor = nd[n].votedFor, s.votes = nd[n].votes,
         Change = {} => s.others = nd[n].others,
         Len(s.log) = q.prevLogIdx + Len(q.entries),
         \A i \in 1 .. Len(s.log) :
            s.log[i] = IF i <= q.prevLogIdx THEN nd[n].log[i] ELSE q.entries[i - q.prevLogIdx]
  PROVE  Sound(Put(nd, n, s), nt, calm)
<1> DEFINE nd2 == Put(nd, n, s)
           p == q.prevLogIdx
           old == nd[n].log
<1>1. /\ Shaped(nd, nt) /\ Shaped(nd2, nt) /\ nd2[n] = s
      /\ \A k \in Node \ {n} : nd2[k] = nd[k]
  BY ShapedPut DEF Sound
<1> HIDE DEF nd2
<1>2. PICK counted : /\ Counting(nd, nt, counted)
                     /\ Static /\ calm => Elected(nd, nt, counted)
  BY DEF Sound
<1>3. \A k \in Node : /\ nd2[k].term = nd[k].term /\ nd2[k].votedFor = nd[k].votedFor
                      /\ nd2[k].votes = nd[k].votes /\ nd2[k].state = nd[k].state
                      /\ Change = {} => nd2[k].others = nd[k].others
  BY <1>1
<1>4. Counting(nd2, nt, counted)
  BY <1>2, <1>3 DEF Counting
<1>5. ASSUME Static, calm
      PROVE  Elected(nd2, nt, counted)
  <2>1. PICK ballot, elected, written : /\ Voting(nd, nt, counted, ballot)
                                        /\ Leading(nd, ballot, elected)
                                        /\ Writing(nd, nt, elected, written)
    BY <1>2, <1>5 DEF Elected
  <2>2. Voting(nd2, nt, counted, ballot)
    BY <1>3, <1>5, <2>1, SMTT(30) DEF Voting, Static
  <2>3. Leading(nd2, ballot, elected)
    BY <1>3, <2>1 DEF Leading
  <2>4. Recorded(written, s.log)
    <3>1. /\ Recorded(written, old) /\ Justified(written, q)
          /\ \A t \in Term : Recorded(written, written[t]) /\ written[t] \in Log
      <4>1. m \in Node /\ n \in Peers(m)
        BY Links
      <4>2. q.type = "append_entries"
        BY DEF Appends
      <4> QED BY <2>1, <4>1, <4>2 DEF Writing
    <3>2. /\ DOMAIN old = 1 .. Len(old) /\ Len(old) \in Nat /\ p \in 1 .. Len(old)
          /\ q.entries \in Seq(Entry) /\ Len(q.entries) \in Nat
          /\ Wellformed(n, nd[n]) /\ old[p].term = q.prevLogTerm
      BY <1>1, WellformedLog, LenProperties DEF Shaped, Appends, Log
    <3> SUFFICES ASSUME NEW i \in 1 .. Len(s.log)
                 PROVE  LET t == s.log[i].term
                        IN  i <= Len(written[t]) /\ \A k \in 1 .. i : s.log[k] = written[t][k]
      BY DEF Recorded
    <3>0. /\ Len(s.log) = p + Len(q.entries) /\ Len(s.log) \in Int
          /\ \A k \in 1 .. Len(s.log) :
                s.log[k] = IF k <= p THEN old[k] ELSE q.entries[k - p]
      <4>1. \A k \in 1 .. Len(s.log) :
               s.log[k] = IF k <= p THEN old[k] ELSE q.entries[k - p]
        BY Zenon
      <4>2. Len(s.log) = p + Len(q.entries)
        OBVIOUS
      <4> HIDE DEF p
      <4>3. Len(s.log) \in Int
        BY <3>2, <4>2
      <4> QED BY <4>1, <4>2, <4>3
    <3>3. CASE i <= p
      <4> HIDE DEF p, old
      <4>1. i \in 1 .. Len(old) /\ i \in 1 .. Len(s.log)
        BY <3>0, <3>2, <3>3
      <4>2. \A k \in 1 .. i : k \in 1 .. Len(s.log) /\ k <= p
        BY <3>0, <3>2, <3>3
      <4>3. s.log[i] = old[i] /\ \A k \in 1 .. i : s.log[k] = old[k]
        BY <3>0, <3>3, <4>1, <4>2
      <4> QED BY <3>1, <4>1, <4>3 DEF Recorded
    <3>4. CASE i > p
      <4> DEFINE j == i - p
                 t == q.entries[j].term
                 w == written[t]
      <4> HIDE DEF p, old
      <4>1. j \in 1 .. Len(q.entries) /\ s.log[i] = q.entries[j] /\ p + j = i /\ i \in Int /\ j \in Int
        BY <3>0, <3>2, <3>4
      <4>2. /\ i <= Len(w) /\ w[p].term = q.prevLogTerm
            /\ \A k \in 1 .. j : q.entries[k] = w[p + k]
        <5>1. q.prevLogIdx = p /\ p >= 1
          BY <3>2 DEF p
        <5> QED BY <3>1, <4>1, <5>1 DEF Justified
      <4>3. t \in Term
        <5>1. q.entries[j] \in Entry
          BY <3>2, <4>1, ElementOfSeq
        <5> QED BY <5>1 DEF Entry, Term
      <4>4. Recorded(written, w) /\ Len(w) \in Int
        BY <3>1, <4>3, LenProperties DEF Log
      <4> HIDE DEF w
      <4>5. \A k \in 1 .. p : w[k] = written[q.prevLogTerm][k]
        <5>1. p \in 1 .. Len(w)
          BY <3>2, <4>1, <4>2, <4>4
        <5> QED BY <4>2, <4>4, <5>1 DEF Recorded
      <4>6. \A k \in 1 .. p : old[k] = written[q.prevLogTerm][k]
        BY <3>1, <3>2 DEF Recorded
      <4>7. ASSUME NEW k \in 1 .. i
            PROVE  s.log[k] = w[k]
        <5>1. k \in 1 .. Len(s.log)
          OBVIOUS
        <5>2. CASE k <= p
          <6>1. k \in 1 .. p /\ s.log[k] = old[k]
            BY <3>0, <3>2, <5>1, <5>2
          <6> QED BY <4>5, <4>6, <6>1
        <5>3. CASE k > p
          <6>1. k - p \in 1 .. j /\ p + (k - p) = k /\ s.log[k] = q.entries[k - p]
            BY <3>0, <3>2, <4>1, <5>1, <5>3
          <6> QED BY <4>2, <6>1
        <5> QED BY <3>2, <5>2, <5>3
      <4>8. s.log[i].term = t
        BY <4>1
      <4> QED BY <4>2, <4>7, <4>8 DEF w
    <3> QED BY <3>2, <3>3, <3>4
  <2>5. Writing(nd2, nt, elected, written)
    <3>1. \A k \in Node : Recorded(written, nd2[k].log)
      BY <1>1, <2>1, <2>4 DEF Writing
    <3>2. \A k \in Node : nd2[k].state = "LEADER" => written[nd2[k].term] = nd2[k].log
      BY <1>1, <2>1 DEF Writing
    <3> QED BY <2>1, <3>1, <3>2 DEF Writing
  <2> QED BY <2>2, <2>3, <2>5 DEF Elected
<1> QED BY <1>1, <1>4, <1>5 DEF Sound, nd2

-----------------------------------------------------------------------------
(***************************************************************************)
(* Step.                                                                   *)
(***************************************************************************)
\* n sends the messages out[m] to each node m of to.
SentAll(nt, n, to, out) ==
    [c \in Link |-> IF c[1] = n /\ c[2] \in to THEN nt[c] \o out[c[2]] ELSE nt[c]]

\* A step first takes what it takes and drops what breaks off, then it sends.
LEMMA StepParts ==
  ASSUME NEW n \in Node, NEW r, NEW in, NEW out, NEW up, Step(n, r, in, out, up),
         \A c \in DOMAIN in : c \in Link /\ c[1] # n /\ Shorter(in[c], net[c])
  PROVE  /\ node' = Put(node, n, r)
         /\ \E nt1, to : /\ to \in SUBSET Peers(n) /\ to \subseteq up /\ Reach(node', n, to)
                         /\ Fewer(nt1, net)
                         /\ \A c \in DOMAIN in : nt1[c] \in {in[c], << >>}
                         /\ net' = SentAll(nt1, n, to, out)
<1> DEFINE nt1 == [c \in Link |-> IF ~Listed(c) THEN << >>
                                  ELSE IF c \in DOMAIN in THEN in[c] ELSE net[c]]
           to == {m \in Peers(n) : m \in up /\ Listed(<<n, m>>)}
<1>1. node' = Put(node, n, r)
  BY DEF Step, Put
<1>2. Reach(node', n, to)
  BY DEF Reach, Listed
<1>3. Fewer(nt1, net)
  BY DEF Fewer, Shorter
<1>4. \A c \in DOMAIN in : nt1[c] \in {in[c], << >>}
  OBVIOUS
<1>5. ASSUME NEW c \in Link
      PROVE  net'[c] = SentAll(nt1, n, to, out)[c]
  <2>1. net'[c] = IF ~Listed(c) THEN << >>
                  ELSE IF c[1] = n /\ c[2] \in up THEN net[c] \o out[c[2]]
                  ELSE IF c \in DOMAIN in THEN in[c] ELSE net[c]
    BY DEF Step
  <2>2. SentAll(nt1, n, to, out)[c] = IF c[1] = n /\ c[2] \in to THEN nt1[c] \o out[c[2]] ELSE nt1[c]
    BY DEF SentAll
  <2>3. nt1[c] = IF ~Listed(c) THEN << >> ELSE IF c \in DOMAIN in THEN in[c] ELSE net[c]
    OBVIOUS
  <2>4. c = <<c[1], c[2]>> /\ c[2] \in Peers(c[1])
    BY Links
  <2>5. c[1] = n => (c[2] \in to <=> c[2] \in up /\ Listed(c)) /\ c \notin DOMAIN in
    BY <2>4
  <2> HIDE DEF nt1, to
  <2> QED BY <2>1, <2>2, <2>3, <2>5
<1>6. net' = SentAll(nt1, n, to, out)
  <2>1. net' = [c \in Link |-> net'[c]]
    BY DEF Step
  <2>2. SentAll(nt1, n, to, out) = [c \in Link |-> SentAll(nt1, n, to, out)[c]]
    BY DEF SentAll
  <2> HIDE DEF nt1, to
  <2> QED BY <1>5, <2>1, <2>2
<1>7. to \in SUBSET Peers(n) /\ to \subseteq up
  OBVIOUS
<1> HIDE DEF nt1, to
<1> QED BY <1>1, <1>2, <1>3, <1>4, <1>6, <1>7

\* A step that takes the first message from m.
LEMMA StepTaking ==
  ASSUME NEW n \in Node, NEW m \in Peers(n), NEW r, NEW out, NEW up,
         Step(n, r, Taken(m, n), out, up), net[<<m, n>>] # << >>
  PROVE  /\ node' = Put(node, n, r)
         /\ \E nt1, to : /\ to \in SUBSET Peers(n) /\ to \subseteq up /\ Reach(node', n, to)
                         /\ LessHead(nt1, net, m, n)
                         /\ net' = SentAll(nt1, n, to, out)
<1> DEFINE in == Taken(m, n)
<1>1. DOMAIN in = {<<m, n>>} /\ in[<<m, n>>] = Tail(net[<<m, n>>])
  BY DEF Taken
<1>2. <<m, n>> \in Link /\ <<m, n>>[1] # n
  BY Links DEF Peers
<1> HIDE DEF in
<1>3. \A c \in DOMAIN in : c \in Link /\ c[1] # n /\ Shorter(in[c], net[c])
  BY <1>1, <1>2 DEF Shorter
<1>4. Step(n, r, in, out, up)
  BY DEF in
<1>5. PICK nt1, to : /\ to \in SUBSET Peers(n) /\ to \subseteq up /\ Reach(node', n, to)
                     /\ Fewer(nt1, net)
                     /\ \A c \in DOMAIN in : nt1[c] \in {in[c], << >>}
                     /\ net' = SentAll(nt1, n, to, out)
  BY <1>3, <1>4, StepParts
<1>6. LessHead(nt1, net, m, n)
  BY <1>1, <1>5 DEF LessHead
<1>7. node' = Put(node, n, r)
  BY <1>3, <1>4, StepParts
<1> QED BY <1>5, <1>6, <1>7

\* Sending nothing, one message each, or first one and then the other.
LEMMA SentNothing ==
  ASSUME NEW nt \in [Link -> Seq(Message)], NEW n, NEW to, NEW out, \A m \in to : out[m] = << >>
  PROVE  SentAll(nt, n, to, out) = nt
<1>1. ASSUME NEW c \in Link
      PROVE  SentAll(nt, n, to, out)[c] = nt[c]
  <2>1. nt[c] \in Seq(Message)
    OBVIOUS
  <2>2. nt[c] \o << >> = nt[c]
    BY <2>1, ConcatEmptySeq
  <2> QED BY <2>2 DEF SentAll
<1> QED BY <1>1 DEF SentAll

\* Sending to each peer a message of its own.
LEMMA SentEach ==
  ASSUME NEW nt \in [Link -> Seq(Message)], NEW n, NEW to, NEW out, NEW to2 \in SUBSET to, NEW q,
         \A m \in to2 : out[m] = <<q[m]>>, \A m \in to \ to2 : out[m] = << >>
  PROVE  SentAll(nt, n, to, out) = Sent(nt, n, to2, q)
<1>1. ASSUME NEW c \in Link
      PROVE  SentAll(nt, n, to, out)[c] = Sent(nt, n, to2, q)[c]
  <2>1. nt[c] \in Seq(Message)
    OBVIOUS
  <2>2. nt[c] \o << >> = nt[c]
    BY <2>1, ConcatEmptySeq
  <2> QED BY <2>2 DEF SentAll, Sent
<1> QED BY <1>1 DEF SentAll, Sent

Rounds(to, out, a, b) ==
    \A m \in to : /\ a[m] \in Seq(Message) /\ b[m] \in Seq(Message)
                  /\ out[m] = a[m] \o b[m]

\* Sending two rounds of messages, one after the other.
LEMMA SentFirst ==
  ASSUME NEW nt \in [Link -> Seq(Message)], NEW n, NEW to, NEW a, NEW b, NEW out,
         Rounds(to, out, a, b)
  PROVE  SentAll(nt, n, to, out) = SentAll(SentAll(nt, n, to, a), n, to, b)
<1>1. ASSUME NEW c \in Link
      PROVE  SentAll(nt, n, to, out)[c] = SentAll(SentAll(nt, n, to, a), n, to, b)[c]
  <2>1. nt[c] \in Seq(Message)
    OBVIOUS
  <2>2. CASE c[1] = n /\ c[2] \in to
    <3> DEFINE x == nt[c]
               y == a[c[2]]
               z == b[c[2]]
    <3>1. SentAll(nt, n, to, out)[c] = x \o (y \o z)
      BY <2>2 DEF SentAll, Rounds
    <3>2. SentAll(SentAll(nt, n, to, a), n, to, b)[c] = (x \o y) \o z
      BY <2>2 DEF SentAll
    <3>3. x \in Seq(Message) /\ y \in Seq(Message) /\ z \in Seq(Message)
      BY <2>1, <2>2 DEF Rounds
    <3> HIDE DEF x, y, z
    <3>4. (x \o y) \o z = x \o (y \o z)
      BY <3>3, ConcatAssociative
    <3> QED BY <3>1, <3>2, <3>4
  <2>3. CASE ~(c[1] = n /\ c[2] \in to)
    BY <2>3 DEF SentAll
  <2> QED BY <2>2, <2>3
<1> QED BY <1>1 DEF SentAll

\* What n sends that is no request for a vote and no answer to one.
LEMMA DeliverSound ==
  ASSUME NEW nd, NEW nt, NEW calm, Sound(nd, nt, calm),
         NEW n \in Node, NEW to \in SUBSET Peers(n), Reach(nd, n, to), NEW out,
         \A m \in to :
            \/ out[m] = << >>
            \/ \E q : /\ out[m] = <<q>>
                      /\ \/ q \in Positioned \union Forwarded \union Responses
                         \/ q = AppendEntries(nd[n], m)
  PROVE  Sound(nd, SentAll(nt, n, to, out), calm)
<1> DEFINE to2 == {m \in to : out[m] # << >>}
           q == [m \in to |-> out[m][1]]
<1>1. \A m \in to2 : /\ out[m] = <<q[m]>>
                     /\ \/ q[m] \in Positioned \union Forwarded \union Responses
                        \/ q[m] = AppendEntries(nd[n], m)
  OBVIOUS
<1>2. to2 \in SUBSET to /\ to2 \in SUBSET Peers(n) /\ \A m \in to \ to2 : out[m] = << >>
  OBVIOUS
<1>3. Reach(nd, n, to2)
  BY DEF Reach
<1>4. nt \in [Link -> Seq(Message)]
  BY DEF Sound, Shaped
<1> HIDE DEF to2, q
<1>5. SentAll(nt, n, to, out) = Sent(nt, n, to2, q)
  BY <1>1, <1>2, <1>4, SentEach
<1>6. Sound(nd, Sent(nt, n, to2, q), calm)
  BY <1>1, <1>2, <1>3, SendSound
<1> QED BY <1>5, <1>6

-----------------------------------------------------------------------------
(***************************************************************************)
(* The actions.                                                            *)
(***************************************************************************)
LEMMA PutAgain ==
  ASSUME NEW nd, NEW nt, Shaped(nd, nt), NEW n \in Node, NEW r, NEW s
  PROVE  /\ Put(Put(nd, n, r), n, s) = Put(nd, n, s)
         /\ Put(nd, n, r)[n] = r
         /\ Put(nd, n, nd[n]) = nd
         /\ \A k \in Node \ {n} : Put(nd, n, r)[k] = nd[k]
BY DEF Shaped, Put

\* The first message from m.
LEMMA Received ==
  ASSUME NEW nd, NEW nt, Shaped(nd, nt), NEW n \in Node, NEW m \in Peers(n), nt[<<m, n>>] # << >>
  PROVE  LET q == Head(nt[<<m, n>>])
         IN  /\ q \in Message /\ q \in Under(nt[<<m, n>>])
             /\ q.type = "request_vote" => q \in RequestVotes
             /\ q.type = "response_vote" => q \in ResponseVotes
             /\ q.type = "append_entries" => q \in Appends
             /\ q.type = "next_node_idx" => q \in Positioned
             /\ q.type = "apply_command" => q \in Forwarded
             /\ q.type = "apply_command_response" => q \in Responses
<1> DEFINE s == nt[<<m, n>>]
           q == Head(s)
<1>1. s \in Seq(Message) /\ s # << >>
  BY Links DEF Shaped
<1> HIDE DEF s
<1>2. 1 \in DOMAIN s /\ q = s[1] /\ q \in Message
  BY <1>1, HeadTailProperties, LenProperties, EmptySeq, ElementOfSeq
<1>3. q \in Under(s)
  BY <1>2 DEF Under
<1> HIDE DEF q
<1>4. /\ q.type = "request_vote" => q \in RequestVotes
      /\ q.type = "response_vote" => q \in ResponseVotes
      /\ q.type = "append_entries" => q \in Appends
      /\ q.type = "next_node_idx" => q \in Positioned
      /\ q.type = "apply_command" => q \in Forwarded
      /\ q.type = "apply_command_response" => q \in Responses
  BY <1>2 DEF Message, RequestVotes, ResponseVotes, Appends, Positioned, Forwarded, Responses
<1> QED BY <1>2, <1>3, <1>4 DEF q, s

\* Nothing of the consensus changes for n.
LEMMA AlikeSound ==
  ASSUME NEW nd, NEW nt, NEW calm, Sound(nd, nt, calm), NEW n \in Node, NEW s,
         Wellformed(n, s), Alike(nd[n], s)
  PROVE  Sound(Put(nd, n, s), nt, calm)
BY QuietSound DEF Alike

\* A step that answers at most what deliveries need.
LEMMA TakenSound ==
  ASSUME NEW calm, Shaped(node, net), NEW n \in Node, NEW m \in Peers(n), NEW r, NEW out, NEW up,
         Step(n, r, Taken(m, n), out, up), net[<<m, n>>] # << >>,
         Sound(Put(node, n, r), net, calm),
         \A k \in Peers(n) : out[k] = << >>
                             \/ \E q \in Positioned \union Forwarded \union Responses : out[k] = <<q>>
  PROVE  Sound(node', net', calm)
<1>1. node' = Put(node, n, r)
  BY StepTaking
<1>2. PICK nt1, to : /\ to \in SUBSET Peers(n) /\ Reach(node', n, to)
                     /\ LessHead(nt1, net, m, n)
                     /\ net' = SentAll(nt1, n, to, out)
  BY StepTaking
<1>3. Sound(node', nt1, calm)
  BY <1>1, <1>2, FewerSound DEF LessHead
<1>4. \A k \in to : \/ out[k] = << >>
                    \/ \E q : /\ out[k] = <<q>>
                              /\ \/ q \in Positioned \union Forwarded \union Responses
                                 \/ q = AppendEntries(node'[n], k)
  BY <1>2
<1>5. Sound(node', SentAll(nt1, n, to, out), calm)
  BY <1>2, <1>3, <1>4, DeliverSound
<1> QED BY <1>2, <1>5

\* A node asked for its vote keeps the invariant.
LEMMA OnRequestVoteSound ==
  ASSUME NEW calm, Sound(node, net, calm), NEW n \in Node, NEW m \in Peers(n), net[<<m, n>>] # << >>,
         OnRequestVote(n, m, Head(net[<<m, n>>]))
  PROVE  Sound(node', net', calm)
<1> DEFINE q == Head(net[<<m, n>>])
           r == NewerTerm(node[n], q)
           s == [r EXCEPT !.votedFor = m]
           out == [Silence(n) EXCEPT ![m] =
                     IF GrantsVote(r, q) THEN <<[type |-> "response_vote", term |-> q.term]>>
                                         ELSE << >>]
           nd1 == Put(node, n, r)
<1>0. Shaped(node, net) /\ Wellformed(n, node[n])
  BY DEF Sound, Shaped
<1>1. q.type = "request_vote" /\ q \in RequestVotes /\ q.term \in Term
  BY <1>0, Received DEF OnRequestVote, RequestVotes
<1>2. Step(n, IF GrantsVote(r, q) THEN s ELSE r, Taken(m, n), out, {m})
  BY DEF OnRequestVote
<1>q. q = Head(net[<<m, n>>])
  OBVIOUS
<1> HIDE DEF q
<1>3. /\ Wellformed(n, r) /\ r.log = node[n].log /\ r.others = node[n].others
      /\ r.term >= node[n].term /\ r.term >= q.term
      /\ IF q.term > node[n].term
         THEN r.state = "FOLLOWER" /\ r.term = q.term /\ r.votedFor = Nobody /\ r.votes = 0
         ELSE r = node[n]
  BY <1>0, <1>1, NewerTermType
<1> HIDE DEF r
<1>4. Sound(nd1, net, calm)
  <2>1. CASE q.term > node[n].term
    BY <1>3, <2>1, RetreatSound
  <2>2. CASE ~(q.term > node[n].term)
    BY <1>0, <1>3, <2>2, PutAgain
  <2> QED BY <2>1, <2>2
<1>5. Shaped(nd1, net) /\ nd1[n] = r /\ Put(nd1, n, s) = Put(node, n, s)
  BY <1>0, <1>4, PutAgain DEF Sound
<1> HIDE DEF nd1
<1>6. CASE GrantsVote(r, q)
  <2>1. /\ node' = Put(node, n, s)
        /\ \E nt1, to : /\ to \in SUBSET Peers(n) /\ to \subseteq {m} /\ Reach(node', n, to)
                        /\ LessHead(nt1, net, m, n)
                        /\ net' = SentAll(nt1, n, to, out)
    <3> HIDE DEF s, out
    <3>1. Step(n, s, Taken(m, n), out, {m})
      BY <1>2, <1>6
    <3> QED BY <3>1, StepTaking
  <2>2. PICK nt1, to : /\ to \in SUBSET {m} /\ Reach(node', n, to)
                       /\ LessHead(nt1, net, m, n)
                       /\ net' = SentAll(nt1, n, to, out)
    BY <2>1
  <2> DEFINE a == [k \in {m} |-> [type |-> "response_vote", term |-> q.term]]
  <2>3. /\ Wellformed(n, s) /\ s.state = r.state /\ s.term = r.term /\ s.votedFor = m
        /\ s.votes = r.votes /\ s.log = r.log /\ s.others = r.others
    <3>1. r \in Fields /\ m \in Somebody
      BY <1>3, Links DEF Wellformed, Somebody
    <3>2. s \in Fields
      BY <3>1, Zenon DEF Fields
    <3>3. /\ s.state = r.state /\ s.term = r.term /\ s.votedFor = m
          /\ s.votes = r.votes /\ s.log = r.log /\ s.others = r.others
          /\ s.commit = r.commit /\ s.next = r.next
      BY <3>1 DEF Fields
    <3> QED BY <1>3, <3>2, <3>3 DEF Wellformed
  <2>4. /\ q.term >= r.term /\ r.votedFor = Nobody
    BY <1>6 DEF GrantsVote
  <2>5. r.term = q.term
    <3>1. r.term \in Int /\ q.term \in Int
      BY <1>1, <1>3 DEF Wellformed, Fields, Term
    <3> QED BY <1>3, <2>4, <3>1
  <2>6. \A k \in to : a[k] \in ResponseVotes /\ a[k].term = q.term
    BY <1>1, <2>2 DEF ResponseVotes
  <2>7. net' = Sent(nt1, n, to, a)
    <3>1. nt1 \in [Link -> Seq(Message)]
      BY <1>0, <2>2, FewerParts DEF LessHead, Shaped
    <3>2. to \in SUBSET to /\ \A k \in to : out[k] = <<a[k]>>
      BY <1>6, <2>2 DEF Silence
    <3>3. \A k \in to \ to : out[k] = << >>
      OBVIOUS
    <3> HIDE DEF out, a
    <3>4. SentAll(nt1, n, to, out) = Sent(nt1, n, to, a)
      BY <3>1, <3>2, <3>3, SentEach
    <3> QED BY <2>2, <3>4
  <2>8. Sound(Put(nd1, n, s), Sent(nt1, n, to, a), calm)
    <3>1. nd1[n].term = q.term /\ nd1[n].votedFor = Nobody /\ Reach(Put(nd1, n, s), n, to)
      BY <1>5, <2>1, <2>2, <2>4, <2>5
    <3>2. /\ s.state = nd1[n].state /\ s.term = nd1[n].term /\ s.votes = nd1[n].votes
          /\ s.log = nd1[n].log /\ s.others = nd1[n].others
      BY <1>5, <2>3
    <3> HIDE DEF s, a
    <3> QED BY <1>1, <1>4, <1>q, <2>2, <2>3, <2>6, <3>1, <3>2, GrantSound
  <2> QED BY <1>5, <2>1, <2>7, <2>8
<1>7. CASE ~GrantsVote(r, q)
  <2>1. Step(n, r, Taken(m, n), out, {m})
    BY <1>2, <1>7
  <2>2. \A k \in Peers(n) : out[k] = << >>
    BY <1>7 DEF Silence
  <2> HIDE DEF out
  <2> QED BY <1>0, <1>4, <2>1, <2>2, TakenSound DEF nd1
<1> QED BY <1>6, <1>7

\* A candidate that gets a vote.
LEMMA OnResponseVoteSound ==
  ASSUME NEW calm, Sound(node, net, calm), NEW n \in Node, NEW m \in Peers(n), net[<<m, n>>] # << >>,
         NEW up, OnResponseVote(n, m, Head(net[<<m, n>>]), up)
  PROVE  Sound(node', net', calm)
<1> DEFINE q == Head(net[<<m, n>>])
           r == node[n]
           counts == r.state = "CANDIDATE" /\ q.term = r.term
           wins == counts /\ Majority(r, r.votes + 1)
           voted == IF counts THEN [r EXCEPT !.votes = @ + 1] ELSE r
           leader == BecomeLeader(voted, n)
           out == [p \in Peers(n) |-> <<AppendEntries(leader, p)>>]
<1>0. Shaped(node, net) /\ Wellformed(n, r) /\ r \in Fields /\ r.votes \in Nat
  BY DEF Sound, Shaped, Wellformed, Fields
<1>1. q.type = "response_vote"
  BY DEF OnResponseVote
<1>2. IF wins THEN Step(n, AfterSending(leader, up), Taken(m, n), out, up)
              ELSE Step(n, voted, Taken(m, n), Silence(n), {})
  BY DEF OnResponseVote
<1>3. CASE ~counts
  <2>1. Step(n, r, Taken(m, n), Silence(n), {})
    BY <1>2, <1>3
  <2>2. Sound(Put(node, n, r), net, calm)
    BY <1>0, PutAgain
  <2>3. \A k \in Peers(n) : Silence(n)[k] = << >>
    BY DEF Silence
  <2> QED BY <1>0, <2>1, <2>2, <2>3, TakenSound
<1>4. ASSUME counts
      PROVE  /\ Wellformed(n, voted) /\ voted.votes = r.votes + 1
             /\ voted.state = r.state /\ voted.term = r.term /\ voted.votedFor = r.votedFor
             /\ voted.log = r.log /\ voted.others = r.others
             /\ \A nt1 : LessHead(nt1, net, m, n) => Sound(Put(node, n, voted), nt1, calm)
  <2>1. voted = [r EXCEPT !.votes = @ + 1]
    BY <1>4
  <2> HIDE DEF voted
  <2>2. voted \in Fields
    BY <1>0, <2>1 DEF Fields
  <2>3. /\ voted.votes = r.votes + 1
        /\ voted.state = r.state /\ voted.term = r.term /\ voted.votedFor = r.votedFor
        /\ voted.log = r.log /\ voted.others = r.others
        /\ voted.commit = r.commit /\ voted.next = r.next
    BY <1>0, <2>1 DEF Fields
  <2>4. Wellformed(n, voted)
    BY <1>0, <2>2, <2>3 DEF Wellformed
  <2>5. ASSUME NEW nt1, LessHead(nt1, net, m, n)
        PROVE  Sound(Put(node, n, voted), nt1, calm)
    <3>1. node[n].term = q.term
      BY <1>4
    <3>2. q = Head(net[<<m, n>>])
      OBVIOUS
    <3> HIDE DEF q
    <3> QED BY <1>1, <2>3, <2>4, <2>5, <3>1, <3>2, CountSound
  <2> QED BY <2>3, <2>4, <2>5
<1>5. CASE counts /\ ~wins
  <2>1. Step(n, voted, Taken(m, n), Silence(n), {})
    BY <1>2, <1>5
  <2> HIDE DEF voted
  <2>2. PICK nt1, to : /\ to \in SUBSET Peers(n) /\ to \subseteq {}
                       /\ LessHead(nt1, net, m, n)
                       /\ net' = SentAll(nt1, n, to, Silence(n))
    BY <2>1, StepTaking
  <2>3. node' = Put(node, n, voted)
    BY <2>1, StepTaking
  <2>4. Sound(node', nt1, calm)
    BY <1>4, <1>5, <2>2, <2>3
  <2>5. net' = nt1
    <3>1. nt1 \in [Link -> Seq(Message)]
      BY <2>4 DEF Sound, Shaped
    <3> QED BY <2>2, <3>1, SentNothing
  <2> QED BY <2>4, <2>5
<1>6. CASE wins
  <2>1. Step(n, AfterSending(leader, up), Taken(m, n), out, up) /\ counts
    BY <1>2, <1>6
  <2>2. Majority(voted, voted.votes)
    BY <1>4, <1>6 DEF Majority
  <2>3. leader = BecomeLeader(voted, n) /\ \A k \in Peers(n) : out[k] = <<AppendEntries(leader, k)>>
    OBVIOUS
  <2>4. voted.state = "CANDIDATE"
    BY <1>4, <1>6
  <2> HIDE DEF voted, leader, out
  <2> DEFINE r2 == AfterSending(leader, up)
  <2>5. Wellformed(n, leader) /\ Wellformed(n, r2) /\ Alike(leader, r2)
    BY <1>4, <2>1, <2>3, BecomeLeaderType, AfterSendingType
  <2> HIDE DEF r2
  <2>6. node' = Put(node, n, r2)
    BY <2>1, StepTaking DEF r2
  <2>7. PICK nt1, to : /\ to \in SUBSET Peers(n) /\ Reach(node', n, to)
                       /\ LessHead(nt1, net, m, n)
                       /\ net' = SentAll(nt1, n, to, out)
    BY <2>1, StepTaking
  <2> DEFINE nd1 == Put(node, n, voted)
             nd2 == Put(node, n, leader)
  <2>8. Sound(nd1, nt1, calm) /\ nd1[n] = voted /\ Put(nd1, n, leader) = nd2
    BY <1>0, <1>4, <2>1, <2>7, PutAgain
  <2> HIDE DEF nd1
  <2>9. Sound(nd2, nt1, calm)
    BY <2>2, <2>3, <2>4, <2>8, LeadSound
  <2>10. /\ nd2[n] = leader /\ Put(nd2, n, r2) = node' /\ node'[n] = r2
         /\ \A k \in Node \ {n} : node'[k] = nd2[k]
    <3>1. nd2[n] = leader /\ Put(nd2, n, r2) = Put(node, n, r2)
      BY <1>0, PutAgain
    <3>2. ASSUME NEW t
          PROVE  Put(node, n, t)[n] = t /\ \A k \in Node \ {n} : Put(node, n, t)[k] = node[k]
      BY <1>0 DEF Put, Shaped
    <3>3. \A k \in Node \ {n} : nd2[k] = node[k]
      BY <3>2
    <3>4. Put(node, n, r2)[n] = r2 /\ \A k \in Node \ {n} : Put(node, n, r2)[k] = node[k]
      BY <3>2
    <3> HIDE DEF nd2
    <3> QED BY <2>6, <3>1, <3>3, <3>4
  <2> HIDE DEF nd2
  <2>11. Reach(nd2, n, to)
    <3>1. \A k \in to : k \in Node \ {n}
      BY <2>7 DEF Peers
    <3>2. leader.others = r2.others
      BY <2>5 DEF Alike
    <3> QED BY <2>7, <2>10, <3>1, <3>2 DEF Reach
  <2>12. Sound(nd2, net', calm)
    <3>1. \A k \in to : out[k] = <<AppendEntries(nd2[n], k)>>
      BY <2>3, <2>7, <2>10
    <3> QED BY <2>7, <2>9, <2>11, <3>1, DeliverSound
  <2>13. Sound(Put(nd2, n, r2), net', calm)
    BY <2>5, <2>10, <2>12, AlikeSound
  <2> QED BY <2>10, <2>13
<1> QED BY <1>3, <1>5, <1>6

\* A node that gets entries.
LEMMA OnAppendEntriesSound ==
  ASSUME NEW calm, Sound(node, net, calm), NEW n \in Node, NEW m \in Peers(n), net[<<m, n>>] # << >>,
         OnAppendEntries(n, m, Head(net[<<m, n>>]))
  PROVE  Sound(node', net', calm)
<1> DEFINE q == Head(net[<<m, n>>])
           r == Follow(node[n], m, q)
           reply == AppendReply(r, q)
           s == AppendTo(r, n, q)
           out == [Silence(n) EXCEPT ![m] = <<reply>>]
           nd1 == Put(node, n, r)
<1>0. Shaped(node, net) /\ Wellformed(n, node[n]) /\ node[n].term \in Int /\ m \in Node
  <2>1. Shaped(node, net) /\ m \in Node
    BY Links DEF Sound
  <2> QED BY <2>1, FieldTypes DEF Shaped
<1>1. /\ q \in Appends /\ q.term \in Term /\ q.term \in Int /\ q \in Under(net[<<m, n>>])
  <2>1. q \in Appends /\ q \in Under(net[<<m, n>>])
    BY <1>0, Received DEF OnAppendEntries
  <2> QED BY <2>1 DEF Appends, Term
<1>2. IF q.term < node[n].term
      THEN Step(n, node[n], Taken(m, n), Silence(n), {})
      ELSE Step(n, IF reply.success THEN s ELSE r, Taken(m, n), out, {m})
  BY DEF OnAppendEntries
<1> HIDE DEF q
<1>3. CASE q.term < node[n].term
  <2>1. Sound(Put(node, n, node[n]), net, calm)
    BY <1>0, PutAgain
  <2>2. \A k \in Peers(n) : Silence(n)[k] = << >>
    BY DEF Silence
  <2> QED BY <1>0, <1>2, <1>3, <2>1, <2>2, TakenSound
<1>4. CASE ~(q.term < node[n].term)
  <2>1. /\ Wellformed(n, r) /\ r.state = "FOLLOWER" /\ r.term = q.term /\ r.votes = 0
        /\ r.log = node[n].log /\ r.others = node[n].others
        /\ r.votedFor = IF q.term > node[n].term THEN Nobody ELSE node[n].votedFor
    BY <1>0, <1>1, FollowType
  <2> HIDE DEF r
  <2>2. Sound(nd1, net, calm)
    BY <1>0, <1>1, <1>4, <2>1, RetreatSound
  <2>3. Shaped(nd1, net) /\ nd1[n] = r /\ Put(nd1, n, s) = Put(node, n, s)
    BY <1>0, <2>2, PutAgain DEF Sound
  <2> HIDE DEF nd1
  <2>4. /\ reply \in Positioned
        /\ reply.success <=> /\ q.prevLogIdx \in DOMAIN r.log
                             /\ r.log[q.prevLogIdx].term = q.prevLogTerm
    BY <1>1, <2>1, AppendReplyType
  <2>5. \A k \in Peers(n) : out[k] = << >>
                            \/ \E p \in Positioned \union Forwarded \union Responses : out[k] = <<p>>
    BY <2>4 DEF Silence
  <2> HIDE DEF out
  <2>6. CASE reply.success
    <3>1. Step(n, s, Taken(m, n), out, {m})
      BY <1>2, <1>4, <2>6
    <3>2. q.prevLogIdx \in DOMAIN r.log /\ r.log[q.prevLogIdx].term = q.prevLogTerm
      BY <2>4, <2>6
    <3>3. /\ Wellformed(n, s)
          /\ s.state = r.state /\ s.term = r.term /\ s.votedFor = r.votedFor
          /\ s.votes = r.votes
          /\ Change = {} => s.others = r.others
          /\ Len(s.log) = q.prevLogIdx + Len(q.entries)
          /\ \A i \in 1 .. Len(s.log) :
                s.log[i] = IF i <= q.prevLogIdx THEN r.log[i] ELSE q.entries[i - q.prevLogIdx]
      BY <1>1, <2>1, <3>2, AppendToType
    <3> HIDE DEF s
    <3>4. Sound(Put(nd1, n, s), net, calm)
      BY <1>1, <2>1, <2>2, <2>3, <3>2, <3>3, OverwriteSound
    <3> HIDE DEF reply
    <3> QED BY <1>0, <2>3, <2>5, <3>1, <3>4, TakenSound
  <2>7. CASE ~reply.success
    <3>1. Step(n, r, Taken(m, n), out, {m})
      BY <1>2, <1>4, <2>7
    <3> QED BY <1>0, <2>2, <2>5, <3>1, TakenSound DEF nd1
  <2> QED BY <2>6, <2>7
<1> QED BY <1>3, <1>4

\* A leader that hears how far a follower is.
LEMMA OnNextNodeIdxSound ==
  ASSUME NEW calm, Sound(node, net, calm), NEW n \in Node, NEW m \in Peers(n), net[<<m, n>>] # << >>,
         OnNextNodeIdx(n, m, Head(net[<<m, n>>]))
  PROVE  Sound(node', net', calm)
<1> DEFINE q == Head(net[<<m, n>>])
           r == node[n]
           heard == [r EXCEPT !.next[m] = IF q.reset THEN q.next ELSE @,
                              !.match[m] = IF q.success THEN q.next - 1 ELSE @]
           s == IF r.state = "LEADER" THEN heard ELSE r
<1>0. Shaped(node, net) /\ Wellformed(n, r) /\ m \in Node
  BY Links DEF Sound, Shaped
<1>1. q \in Positioned
  BY <1>0, Received DEF OnNextNodeIdx
<1>2. Step(n, s, Taken(m, n), Silence(n), {})
  BY DEF OnNextNodeIdx
<1> HIDE DEF q
<1>3. Wellformed(n, heard) /\ Alike(r, heard)
  BY <1>0, <1>1, HeardType
<1> HIDE DEF heard
<1>4. Wellformed(n, s) /\ Alike(node[n], s)
  BY <1>0, <1>3 DEF Alike
<1> HIDE DEF s
<1>5. Sound(Put(node, n, s), net, calm)
  BY <1>4, AlikeSound
<1>6. \A k \in Peers(n) : Silence(n)[k] = << >>
  BY DEF Silence
<1> QED BY <1>0, <1>2, <1>5, <1>6, TakenSound

\* A node that is handed a command.
LEMMA OnApplyCommandSound ==
  ASSUME NEW calm, Sound(node, net, calm), NEW n \in Node, NEW m \in Peers(n), net[<<m, n>>] # << >>,
         OnApplyCommand(n, m, Head(net[<<m, n>>]))
  PROVE  Sound(node', net', calm)
<1> DEFINE q == Head(net[<<m, n>>])
           c == [cmd |-> q.cmd, from |-> IF q.id = 0 THEN Nobody ELSE m, id |-> q.id]
           s == Enqueue(node[n], c)
           a == Response(q.id, "QUEUE_FULL", 0, 0)
           out == [Silence(n) EXCEPT ![m] = IF Full(node[n].queue) /\ q.id # 0 THEN <<a>> ELSE << >>]
<1>0. Shaped(node, net) /\ Wellformed(n, node[n]) /\ m \in Node
  BY Links DEF Sound, Shaped
<1>1. q \in Forwarded
  BY <1>0, Received DEF OnApplyCommand
<1>2. Step(n, s, Taken(m, n), out, {m})
  BY DEF OnApplyCommand
<1> HIDE DEF q
<1>3. c \in QueuedCommand /\ a \in Responses
  BY <1>0, <1>1, RaftAssumption DEF QueuedCommand, Forwarded, Somebody, Responses, Response, Reasons, Term
<1> HIDE DEF c, a
<1>4. Wellformed(n, s) /\ Alike(node[n], s)
  BY <1>0, <1>3, EnqueueType
<1>5. \A k \in Peers(n) : out[k] = << >>
                          \/ \E p \in Positioned \union Forwarded \union Responses : out[k] = <<p>>
  BY <1>3 DEF Silence
<1> HIDE DEF s, out
<1>6. Sound(Put(node, n, s), net, calm)
  BY <1>4, AlikeSound
<1> QED BY <1>0, <1>2, <1>5, <1>6, TakenSound

\* A node that hears what became of a command.
LEMMA OnApplyCommandResponseSound ==
  ASSUME NEW calm, Sound(node, net, calm), NEW n \in Node, NEW m \in Peers(n), net[<<m, n>>] # << >>,
         OnApplyCommandResponse(n, m, Head(net[<<m, n>>]))
  PROVE  Sound(node', net', calm)
<1> DEFINE q == Head(net[<<m, n>>])
           r == node[n]
           asked == {c \in r.reply : c.id = q.id}
           popped == [r EXCEPT !.reply = @ \ asked]
           c == CHOOSE c \in asked : TRUE
           s == IF asked = {} THEN r ELSE Answered(popped, c, q)
<1>0. Shaped(node, net) /\ Wellformed(n, r) /\ m \in Node
  BY Links DEF Sound, Shaped
<1>1. q \in Responses
  BY <1>0, Received DEF OnApplyCommandResponse
<1>2. Step(n, s, Taken(m, n), Silence(n), {})
  BY DEF OnApplyCommandResponse
<1> HIDE DEF q
<1>3. Wellformed(n, popped) /\ Alike(r, popped)
  <2>1. r \in Fields /\ r.reply \ asked \in Replies
    BY <1>0 DEF Wellformed, Fields, Replies
  <2>2. popped = [r EXCEPT !.reply = r.reply \ asked]
    OBVIOUS
  <2> HIDE DEF asked, popped
  <2>3. popped \in Fields
    BY <2>1, <2>2, Zenon DEF Fields
  <2>4. Alike(r, popped) /\ popped.commit = r.commit /\ popped.next = r.next
    BY <2>1, <2>2 DEF Fields, Alike
  <2> QED BY <1>0, <2>3, <2>4 DEF Wellformed, Alike
<1> HIDE DEF popped
<1>4. /\ Wellformed(n, s) /\ s.term = r.term /\ s.votedFor = r.votedFor /\ s.votes = r.votes
      /\ s.log = r.log /\ s.others = r.others /\ s.state \in {r.state, "ENDED"}
  <2>1. CASE asked = {}
    BY <1>0, <2>1
  <2>2. CASE asked # {}
    <3>1. c \in r.reply
      BY <2>2
    <3>2. c \in [id : Nat, cmd : Submittable]
      BY <1>0, <3>1 DEF Wellformed, Fields, Replies
    <3> HIDE DEF c
    <3> DEFINE t == Answered(popped, c, q)
    <3>3. Wellformed(n, t) /\ (Alike(popped, t) \/ Alike([popped EXCEPT !.state = "ENDED"], t))
      BY <1>1, <1>3, <3>2, AnsweredType
    <3>4. s = t
      BY <2>2
    <3> HIDE DEF t, s
    <3>5. popped \in Fields
      BY <1>3 DEF Wellformed
    <3> QED BY <1>3, <3>3, <3>4, <3>5 DEF Alike, Fields
  <2> QED BY <2>1, <2>2
<1> HIDE DEF s
<1>5. Sound(Put(node, n, s), net, calm)
  BY <1>4, QuietSound
<1>6. \A k \in Peers(n) : Silence(n)[k] = << >>
  BY DEF Silence
<1> QED BY <1>0, <1>2, <1>5, <1>6, TakenSound

\* The queue of commands is only touched by CheckCommands and Enqueue.
LEMMA QueueKept ==
  ASSUME NEW n \in Node, NEW r, Wellformed(n, r)
  PROVE  /\ StartElection(r, n).queue = r.queue
         /\ AdvanceCommit(r, n).queue = r.queue
         /\ FallBack(r).queue = r.queue
         /\ Apply(r).queue = r.queue
         /\ \A up : AfterSending(r, up).queue = r.queue
<1>1. r \in Fields
  BY DEF Wellformed
<1>2. AdvanceCommit(r, n).queue = r.queue
  BY <1>1 DEF Fields, AdvanceCommit
<1>3. FallBack(r).queue = r.queue
  BY <1>1 DEF Fields, FallBack, Follower
<1>4. Apply(r).queue = r.queue
  BY <1>1 DEF Fields, Apply
<1>5. \A up : AfterSending(r, up).queue = r.queue
  BY <1>1 DEF Fields, AfterSending
<1>6. StartElection(r, n).queue = r.queue
  <2> DEFINE l == LeaderChanged(r)
             c == [l EXCEPT !.state = "CANDIDATE", !.leader = Nobody,
                            !.term = @ + 1, !.votedFor = n, !.votes = 1]
  <2>1. l \in Fields
    BY LeaderChangedType DEF Wellformed
  <2>2. l.queue = r.queue
    BY <1>1 DEF Fields, LeaderChanged, Call
  <2>3. StartElection(r, n) = IF Majority(r, 1) THEN BecomeLeader(c, n) ELSE c
    BY DEF StartElection
  <2> HIDE DEF l
  <2>4. c.queue = r.queue /\ BecomeLeader(c, n).queue = r.queue
    BY <2>1, <2>2 DEF Fields, BecomeLeader
  <2> HIDE DEF c
  <2> QED BY <2>3, <2>4
<1> QED BY <1>2, <1>3, <1>4, <1>5, <1>6

\* The beginning of a tick: an election, and the requests for votes.
LEMMA ElectSound ==
  ASSUME NEW nd, NEW nt, NEW calm, Sound(nd, nt, calm), NEW n \in Node, nd[n].term < MaxTerm,
         NEW to \in SUBSET Peers(n), NEW nd2, Reach(nd2, n, to),
         Change = {} => nd2[n].others = nd[n].others,
         \A k \in Node \ {n} : nd2[k] = nd[k],
         NEW out, \A m \in to : out[m] = <<RequestVote(StartElection(nd[n], n))>>
  PROVE  LET r == StartElection(nd[n], n)
         IN  /\ Wellformed(n, r) /\ r.others = nd[n].others
             /\ Sound(Put(nd, n, r), SentAll(nt, n, to, out), calm)
<1> DEFINE r == StartElection(nd[n], n)
<1>0. Shaped(nd, nt) /\ Wellformed(n, nd[n]) /\ nt \in [Link -> Seq(Message)]
  BY DEF Sound, Shaped
<1>1. PICK c : /\ Wellformed(n, c)
               /\ c.state = "CANDIDATE" /\ c.term = nd[n].term + 1 /\ c.votedFor = n /\ c.votes = 1
               /\ c.others = nd[n].others /\ c.log = nd[n].log
               /\ r = IF Majority(c, 1) THEN BecomeLeader(c, n) ELSE c
  BY <1>0, StartElectionType
<1>o. \A m \in to : out[m] = <<RequestVote(r)>>
  OBVIOUS
<1> HIDE DEF r
<1> DEFINE nd1 == Put(nd, n, c)
           q == [m \in to |-> RequestVote(r)]
<1>2. Wellformed(n, r) /\ r.others = nd[n].others /\ r.term = c.term
  BY <1>1, BecomeLeaderType
<1>3. \A m \in to : q[m] \in RequestVotes /\ q[m].term = c.term
  <2>1. RequestVote(r) \in RequestVotes /\ RequestVote(r).term = r.term
    BY <1>2, RequestVoteType DEF RequestVote
  <2> QED BY <1>2, <2>1
<1>4. nd1[n] = c /\ (\A k \in Node \ {n} : nd1[k] = nd[k]) /\ Put(nd1, n, r) = Put(nd, n, r)
  BY <1>0 DEF Put, Shaped
<1>5. Reach(nd1, n, to)
  <2>1. \A k \in to : k \in Node \ {n}
    BY DEF Peers
  <2> HIDE DEF nd1
  <2> QED BY <1>1, <1>4, <2>1 DEF Reach
<1>6. SentAll(nt, n, to, out) = Sent(nt, n, to, q)
  <2>1. to \in SUBSET to /\ (\A m \in to : out[m] = <<q[m]>>) /\ \A m \in to \ to : out[m] = << >>
    BY <1>o
  <2> HIDE DEF q
  <2> QED BY <1>0, <2>1, SentEach
<1>7. Sound(nd1, Sent(nt, n, to, q), calm)
  <2>1. Reach(Put(nd, n, c), n, to)
    BY <1>5
  <2> HIDE DEF nd1, q
  <2> QED BY <1>1, <1>3, <2>1, CampaignSound DEF nd1
<1> HIDE DEF nd1, q
<1>8. Sound(Put(nd1, n, r), Sent(nt, n, to, q), calm)
  <2>1. CASE Majority(c, 1)
    BY <1>1, <1>4, <1>7, <2>1, LeadSound
  <2>2. CASE ~Majority(c, 1)
    <3>1. r = nd1[n]
      BY <1>1, <1>4, <2>2
    <3>2. Shaped(nd1, Sent(nt, n, to, q))
      BY <1>7 DEF Sound
    <3> QED BY <1>7, <3>1, <3>2, PutAgain
  <2> QED BY <2>1, <2>2
<1> QED BY <1>2, <1>4, <1>6, <1>8 DEF r

\* The middle of a tick: nothing is sent.
LEMMA ReadySound ==
  ASSUME NEW nd, NEW nt, NEW calm, Sound(nd, nt, calm), NEW n \in Node, NEW silent \in BOOLEAN
  PROVE  LET committed == IF nd[n].state = "LEADER" THEN AdvanceCommit(nd[n], n) ELSE nd[n]
             fallen == IF silent THEN FallBack(committed) ELSE committed
             r == Apply(fallen)
         IN  Wellformed(n, r) /\ r.others = nd[n].others /\ Sound(Put(nd, n, r), nt, calm)
<1> DEFINE committed == IF nd[n].state = "LEADER" THEN AdvanceCommit(nd[n], n) ELSE nd[n]
           fallen == IF silent THEN FallBack(committed) ELSE committed
           r == Apply(fallen)
<1>0. Shaped(nd, nt) /\ Wellformed(n, nd[n])
  BY DEF Sound, Shaped
<1>1. Wellformed(n, committed) /\ Alike(nd[n], committed)
  BY <1>0, AdvanceCommitType DEF Alike
<1> HIDE DEF committed
<1>2. Sound(Put(nd, n, committed), nt, calm)
  BY <1>1, AlikeSound
<1> DEFINE nd1 == Put(nd, n, committed)
<1>3. nd1[n] = committed /\ \A t : Put(nd1, n, t) = Put(nd, n, t)
  BY <1>0 DEF Put, Shaped
<1>4. Wellformed(n, fallen) /\ fallen.others = nd[n].others /\ Sound(Put(nd, n, fallen), nt, calm)
  <2>1. CASE silent
    <3>1. /\ Wellformed(n, fallen)
          /\ fallen.state = "FOLLOWER" /\ fallen.term = committed.term
          /\ fallen.votedFor = committed.votedFor /\ fallen.votes = 0
          /\ fallen.log = committed.log /\ fallen.others = committed.others
      BY <1>1, <2>1, FallBackType
    <3>2. fallen.term \in Int
      BY <3>1 DEF Wellformed, Fields, Term
    <3> HIDE DEF fallen, nd1
    <3>3. Sound(nd1, nt, calm)
      BY <1>2 DEF nd1
    <3>4. /\ fallen.term >= nd1[n].term
          /\ fallen.votedFor = IF fallen.term > nd1[n].term THEN Nobody ELSE nd1[n].votedFor
          /\ fallen.log = nd1[n].log /\ fallen.others = nd1[n].others
      BY <1>3, <3>1, <3>2
    <3>5. Sound(Put(nd1, n, fallen), nt, calm)
      BY <3>1, <3>3, <3>4, RetreatSound
    <3> QED BY <1>1, <1>3, <3>1, <3>5 DEF Alike
  <2>2. CASE ~silent
    BY <1>1, <1>2, <2>2 DEF Alike
  <2> QED BY <2>1, <2>2
<1> HIDE DEF fallen, nd1
<1>5. Wellformed(n, r) /\ Alike(fallen, r)
  BY <1>4, ApplyType
<1> HIDE DEF r
<1>6. Put(nd, n, fallen)[n] = fallen /\ Put(Put(nd, n, fallen), n, r) = Put(nd, n, r)
  BY <1>0 DEF Put, Shaped
<1>7. Sound(Put(nd, n, r), nt, calm)
  BY <1>4, <1>5, <1>6, AlikeSound
<1>8. Wellformed(n, r) /\ r.others = nd[n].others /\ Sound(Put(nd, n, r), nt, calm)
  BY <1>4, <1>5, <1>7 DEF Alike
<1> QED BY <1>8 DEF r, fallen, committed

\* It is time for append_entries.
LEMMA DueSound ==
  ASSUME NEW nd, NEW nt, NEW calm, Sound(nd, nt, calm),
         NEW n \in Node, NEW to \in SUBSET Peers(n), Reach(nd, n, to), NEW up, NEW out,
         \A m \in to : out[m] = <<AppendEntries(nd[n], m)>>
  PROVE  LET r == AfterSending(nd[n], up)
         IN  /\ Wellformed(n, r) /\ r.others = nd[n].others
             /\ Sound(Put(nd, n, r), SentAll(nt, n, to, out), calm)
<1> DEFINE r == AfterSending(nd[n], up)
<1>1. Wellformed(n, nd[n])
  BY DEF Sound, Shaped
<1>2. Wellformed(n, r) /\ Alike(nd[n], r)
  BY <1>1, AfterSendingType
<1> HIDE DEF r
<1>3. Sound(nd, SentAll(nt, n, to, out), calm)
  BY DeliverSound
<1>4. Sound(Put(nd, n, r), SentAll(nt, n, to, out), calm)
  BY <1>2, <1>3, AlikeSound
<1> QED BY <1>2, <1>4 DEF Alike, r

\* A command is taken from the queue.
LEMMA CommandSound ==
  ASSUME NEW nd, NEW nt, NEW calm, Sound(nd, nt, calm), NEW n \in Node, nd[n].queue # << >>,
         NEW to \in SUBSET Peers(n), Reach(nd, n, to), NEW out,
         \A m \in to : out[m] = Messages(nd[n], n, m)
  PROVE  LET r == CheckCommands(nd[n], n)
         IN  /\ Change = {} => r.others = nd[n].others
             /\ Sound(Put(nd, n, r), SentAll(nt, n, to, out), calm)
<1> DEFINE r == CheckCommands(nd[n], n)
           nt2 == SentAll(nt, n, to, out)
           e == [cmd |-> Head(nd[n].queue).cmd, term |-> nd[n].term]
<1>1. Wellformed(n, nd[n]) /\ nd[n].term \in Term
  BY DEF Sound, Shaped, Wellformed, Fields
<1>2. /\ Wellformed(n, r) /\ r.state = nd[n].state /\ r.term = nd[n].term
      /\ r.votedFor = nd[n].votedFor /\ r.votes = nd[n].votes
      /\ Change = {} => r.others = nd[n].others
      /\ r.log = nd[n].log \/ (nd[n].state = "LEADER" /\ r.log = Append(nd[n].log, e))
  BY <1>1, CheckCommandsType
<1> HIDE DEF r
<1>3. Sound(nd, nt2, calm)
  <2>1. ASSUME NEW m \in to
        PROVE  \/ out[m] = << >>
               \/ \E q : /\ out[m] = <<q>>
                         /\ \/ q \in Positioned \union Forwarded \union Responses
                            \/ q = AppendEntries(nd[n], m)
    <3>1. m \in Node
      BY DEF Peers
    <3>2. \/ Messages(nd[n], n, m) = << >>
          \/ \E q \in Forwarded \union Responses : Messages(nd[n], n, m) = <<q>>
      BY <1>1, <3>1, MessagesType
    <3>3. out[m] = Messages(nd[n], n, m)
      BY <2>1
    <3> QED BY <3>2, <3>3
  <2> QED BY <2>1, DeliverSound
<1> HIDE DEF nt2
<1>4. e \in Entry /\ e.term = r.term
  <2>1. Head(nd[n].queue).cmd \in Submittable
    BY <1>1, QueueType DEF QueuedCommand
  <2> QED BY <1>1, <1>2, <2>1 DEF Entry, Term
<1> HIDE DEF e
<1>5. Sound(Put(nd, n, r), nt2, calm)
  <2>1. CASE r.log = nd[n].log
    BY <1>2, <1>3, <2>1, QuietSound
  <2>2. CASE r.log # nd[n].log
    BY <1>2, <1>3, <1>4, <2>2, ExtendSound
  <2> QED BY <2>1, <2>2
<1> QED BY <1>2, <1>5 DEF r, nt2

\* A pass of the raft thread.
LEMMA TickSound ==
  ASSUME NEW calm, Sound(node, net, calm), NEW n \in Node,
         NEW expired \in BOOLEAN, NEW silent \in BOOLEAN, NEW due \in BOOLEAN, NEW takes \in BOOLEAN,
         MayFind(n, expired, silent, due), takes => node[n].queue # << >>,
         NEW up, Tick(n, expired, silent, due, takes, up)
  PROVE  Sound(node', net', calm)
<1> DEFINE elected == IF expired THEN StartElection(node[n], n) ELSE node[n]
           committed == IF elected.state = "LEADER" THEN AdvanceCommit(elected, n) ELSE elected
           fallen == IF silent THEN FallBack(committed) ELSE committed
           ready == Apply(fallen)
           sent == IF due THEN AfterSending(ready, up) ELSE ready
           r == IF takes THEN CheckCommands(sent, n) ELSE sent
           a == [m \in Peers(n) |-> IF expired THEN <<RequestVote(elected)>> ELSE << >>]
           b == [m \in Peers(n) |-> IF due THEN <<AppendEntries(ready, m)>> ELSE << >>]
           c == [m \in Peers(n) |-> IF takes THEN Messages(sent, n, m) ELSE << >>]
           ab == [m \in Peers(n) |-> a[m] \o b[m]]
           out == [m \in Peers(n) |->
                     (IF expired THEN <<RequestVote(elected)>> ELSE << >>)
                     \o (IF due THEN <<AppendEntries(ready, m)>> ELSE << >>)
                     \o (IF takes THEN Messages(sent, n, m) ELSE << >>)]
<1>0. Shaped(node, net) /\ Wellformed(n, node[n])
  BY DEF Sound, Shaped
<1>1. Step(n, r, << >>, out, up)
  BY DEF Tick
<1>2. \A m \in Peers(n) : out[m] = ab[m] \o c[m] /\ ab[m] = a[m] \o b[m]
  OBVIOUS
<1> HIDE DEF out, ab
<1>3. /\ node' = Put(node, n, r)
      /\ \E nt1, to : /\ to \in SUBSET Peers(n) /\ Reach(node', n, to)
                      /\ Fewer(nt1, net)
                      /\ net' = SentAll(nt1, n, to, out)
  <2> HIDE DEF r
  <2>1. \A k \in DOMAIN << >> : k \in Link /\ k[1] # n /\ Shorter((<< >>)[k], net[k])
    <3>1. DOMAIN << >> = {}
      BY EmptySeq
    <3> QED BY <3>1
  <2> DEFINE in == << >>
  <2>2. Step(n, r, in, out, up)
    BY <1>1
  <2> HIDE DEF in
  <2>3. \A k \in DOMAIN in : k \in Link /\ k[1] # n /\ Shorter(in[k], net[k])
    BY <2>1 DEF in
  <2> QED BY <2>2, <2>3, StepParts
<1>4. PICK nt1, to : /\ to \in SUBSET Peers(n) /\ Reach(node', n, to)
                     /\ Fewer(nt1, net)
                     /\ net' = SentAll(nt1, n, to, out)
  BY <1>3
<1> DEFINE net1 == SentAll(nt1, n, to, a)
           net2 == SentAll(net1, n, to, b)
           net3 == SentAll(net2, n, to, c)
<1>5. Sound(node, nt1, calm)
  BY <1>4, FewerSound
<1>6. /\ \A t : Put(node, n, t)[n] = t
      /\ \A t : \A k \in Node \ {n} : Put(node, n, t)[k] = node[k]
      /\ \A t, u : Put(Put(node, n, t), n, u) = Put(node, n, u)
      /\ Put(node, n, node[n]) = node
  BY <1>0 DEF Put, Shaped
<1>7. \A k \in to : k \in Node \ {n} /\ k \in Peers(n)
  BY <1>4 DEF Peers
\* What becomes of the node and its list of nodes.
<1>8. Wellformed(n, elected) /\ elected.others = node[n].others /\ elected.queue = node[n].queue
  <2>1. CASE expired
    <3>1. node[n].term < MaxTerm
      BY <2>1 DEF MayFind
    <3>2. PICK t : /\ Wellformed(n, t) /\ t.others = node[n].others
                   /\ StartElection(node[n], n) = IF Majority(t, 1) THEN BecomeLeader(t, n) ELSE t
      BY <1>0, <3>1, StartElectionType
    <3>3. Wellformed(n, BecomeLeader(t, n)) /\ BecomeLeader(t, n).others = t.others
      BY <3>2, BecomeLeaderType
    <3>4. StartElection(node[n], n).queue = node[n].queue
      BY <1>0, QueueKept
    <3> QED BY <2>1, <3>2, <3>3, <3>4
  <2>2. CASE ~expired
    BY <1>0, <2>2
  <2> QED BY <2>1, <2>2
<1>o. a = [m \in Peers(n) |-> IF expired THEN <<RequestVote(elected)>> ELSE << >>]
  OBVIOUS
<1>e. elected = IF expired THEN StartElection(node[n], n) ELSE node[n]
  OBVIOUS
<1> HIDE DEF elected
<1>9. Wellformed(n, ready) /\ ready.others = elected.others /\ ready.queue = elected.queue
  <2>1. /\ Wellformed(n, committed) /\ committed.others = elected.others
        /\ committed.queue = elected.queue
    BY <1>8, QueueKept, AdvanceCommitType DEF Alike
  <2> HIDE DEF committed
  <2>2. Wellformed(n, fallen) /\ fallen.others = elected.others /\ fallen.queue = elected.queue
    BY <2>1, QueueKept, FallBackType
  <2> HIDE DEF fallen
  <2> QED BY <2>2, QueueKept, ApplyType DEF Alike
<1>r. ready = Apply(IF silent
                    THEN FallBack(IF elected.state = "LEADER" THEN AdvanceCommit(elected, n) ELSE elected)
                    ELSE IF elected.state = "LEADER" THEN AdvanceCommit(elected, n) ELSE elected)
  OBVIOUS
<1> HIDE DEF ready
<1>10. Wellformed(n, sent) /\ sent.others = ready.others /\ sent.queue = ready.queue
  BY <1>9, QueueKept, AfterSendingType, SMTT(30) DEF Alike
<1>s. sent = IF due THEN AfterSending(ready, up) ELSE ready
  OBVIOUS
<1> HIDE DEF sent
<1>11. Change = {} => r.others = node[n].others
  <2> DEFINE t == CheckCommands(sent, n)
  <2>1. sent.others = node[n].others /\ sent.queue = node[n].queue
    BY <1>8, <1>9, <1>10
  <2>2. takes /\ Change = {} => t.others = sent.others
    BY <1>10, <2>1, CheckCommandsType
  <2> HIDE DEF t
  <2>3. r = IF takes THEN t ELSE sent
    BY DEF t
  <2> HIDE DEF r
  <2> QED BY <2>1, <2>2, <2>3
<1>t. r = IF takes THEN CheckCommands(sent, n) ELSE sent
  OBVIOUS
<1> HIDE DEF r
<1>12. ASSUME NEW t, t.others = node[n].others
       PROVE  Reach(Put(node, n, t), n, to)
  BY <1>3, <1>4, <1>6, <1>7, <1>11, <1>12 DEF Reach
\* The three rounds.
<1>13. Sound(Put(node, n, elected), net1, calm)
  <2>1. CASE expired
    <3>1. node[n].term < MaxTerm
      BY <2>1 DEF MayFind
    <3>2. \A m \in to : a[m] = <<RequestVote(StartElection(node[n], n))>>
      BY <1>e, <1>o, <1>7, <2>1
    <3>3. /\ Change = {} => node'[n].others = node[n].others
          /\ \A k \in Node \ {n} : node'[k] = node[k]
      BY <1>3, <1>6, <1>11
    <3> HIDE DEF a
    <3> QED BY <1>e, <1>4, <1>5, <2>1, <3>1, <3>2, <3>3, ElectSound
  <2>2. CASE ~expired
    <3>1. \A m \in to : a[m] = << >>
      BY <1>o, <1>7, <2>2
    <3>2. nt1 \in [Link -> Seq(Message)]
      BY <1>5 DEF Sound, Shaped
    <3> HIDE DEF a
    <3>3. net1 = nt1
      BY <3>1, <3>2, SentNothing
    <3> QED BY <1>e, <1>5, <1>6, <2>2, <3>3
  <2> QED BY <2>1, <2>2
<1> HIDE DEF net1
<1>14. Sound(Put(node, n, ready), net1, calm)
  <2> DEFINE nd1 == Put(node, n, elected)
  <2>1. nd1[n] = elected /\ Put(nd1, n, ready) = Put(node, n, ready)
    BY <1>6
  <2>2. Sound(nd1, net1, calm)
    BY <1>13
  <2> HIDE DEF nd1
  <2>3. Sound(Put(nd1, n, Apply(IF silent
                    THEN FallBack(IF nd1[n].state = "LEADER" THEN AdvanceCommit(nd1[n], n) ELSE nd1[n])
                    ELSE IF nd1[n].state = "LEADER" THEN AdvanceCommit(nd1[n], n) ELSE nd1[n])),
              net1, calm)
    BY <2>2, ReadySound
  <2> QED BY <1>r, <2>1, <2>3
<1>15. Sound(Put(node, n, sent), net2, calm)
  <2> DEFINE nd2 == Put(node, n, ready)
  <2>1. nd2[n] = ready /\ Put(nd2, n, sent) = Put(node, n, sent)
    BY <1>6
  <2>2. Sound(nd2, net1, calm) /\ Reach(nd2, n, to)
    BY <1>8, <1>9, <1>12, <1>14
  <2> HIDE DEF nd2
  <2>3. CASE due
    <3>1. \A m \in to : b[m] = <<AppendEntries(nd2[n], m)>>
      BY <1>7, <2>1, <2>3
    <3> HIDE DEF b
    <3>2. Sound(Put(nd2, n, AfterSending(nd2[n], up)), net2, calm)
      BY <1>4, <2>2, <3>1, DueSound
    <3> QED BY <1>s, <2>1, <2>3, <3>2
  <2>4. CASE ~due
    <3>1. \A m \in to : b[m] = << >>
      BY <1>7, <2>4
    <3>2. net1 \in [Link -> Seq(Message)]
      BY <1>13 DEF Sound, Shaped
    <3> HIDE DEF b
    <3>3. net2 = net1
      BY <3>1, <3>2, SentNothing
    <3> QED BY <1>s, <1>14, <2>4, <3>3
  <2> QED BY <2>3, <2>4
<1> HIDE DEF net2
<1>16. Sound(Put(node, n, r), net3, calm)
  <2> DEFINE nd3 == Put(node, n, sent)
  <2>1. nd3[n] = sent /\ Put(nd3, n, r) = Put(node, n, r)
    BY <1>6
  <2>2. Sound(nd3, net2, calm) /\ Reach(nd3, n, to)
    BY <1>8, <1>9, <1>10, <1>12, <1>15
  <2> HIDE DEF nd3
  <2>3. CASE takes
    <3>1. \A m \in to : c[m] = Messages(nd3[n], n, m)
      BY <1>7, <2>1, <2>3
    <3> HIDE DEF c
    <3>2. nd3[n].queue # << >>
      BY <1>8, <1>9, <1>10, <2>1, <2>3
    <3>3. Sound(Put(nd3, n, CheckCommands(nd3[n], n)), net3, calm)
      BY <1>4, <2>2, <3>1, <3>2, CommandSound
    <3> QED BY <1>t, <2>1, <2>3, <3>3
  <2>4. CASE ~takes
    <3>1. \A m \in to : c[m] = << >>
      BY <1>7, <2>4
    <3>2. net2 \in [Link -> Seq(Message)]
      BY <1>15 DEF Sound, Shaped
    <3> HIDE DEF c
    <3>3. net3 = net2
      BY <3>1, <3>2, SentNothing
    <3> QED BY <1>t, <1>15, <2>4, <3>3
  <2> QED BY <2>3, <2>4
<1>17. net' = net3
  <2>1. ASSUME NEW m \in to
        PROVE  a[m] \in Seq(Message) /\ b[m] \in Seq(Message) /\ c[m] \in Seq(Message)
    <3>1. m \in Node /\ m \in Peers(n)
      BY <1>7
    <3>2. << >> \in Seq(Message) /\ \A q \in Message : <<q>> \in Seq(Message)
      OBVIOUS
    <3>3. RequestVote(elected) \in Message /\ AppendEntries(ready, m) \in Message
      BY <1>8, <1>9, <3>1, RequestVoteType, AppendEntriesType DEF Message
    <3>4. takes => Messages(sent, n, m) \in Seq(Message)
      <4> SUFFICES ASSUME takes
                   PROVE  Messages(sent, n, m) \in Seq(Message)
        OBVIOUS
      <4> DEFINE s == Messages(sent, n, m)
      <4>1. sent.queue # << >>
        BY <1>8, <1>9, <1>10
      <4>2. s = << >> \/ \E q \in Forwarded \union Responses : s = <<q>>
        BY <1>10, <3>1, <4>1, MessagesType
      <4> HIDE DEF s
      <4>3. s \in Seq(Message)
        BY <3>2, <4>2 DEF Message
      <4> QED BY <4>3 DEF s
    <3> QED BY <1>o, <3>1, <3>2, <3>3, <3>4
  <2>2. nt1 \in [Link -> Seq(Message)] /\ net1 \in [Link -> Seq(Message)]
    BY <1>5, <1>13 DEF Sound, Shaped
  <2>3. \A m \in to : out[m] = ab[m] \o c[m] /\ ab[m] = a[m] \o b[m]
    BY <1>2, <1>7
  <2> HIDE DEF a, b, c
  <2>4. \A m \in to : ab[m] \in Seq(Message)
    BY <2>1, <2>3, ConcatProperties
  <2>5. SentAll(nt1, n, to, out) = SentAll(SentAll(nt1, n, to, ab), n, to, c)
    <3>1. Rounds(to, out, ab, c)
      BY <2>1, <2>3, <2>4 DEF Rounds
    <3> QED BY <2>2, <3>1, SentFirst
  <2>6. SentAll(nt1, n, to, ab) = SentAll(SentAll(nt1, n, to, a), n, to, b)
    <3>1. Rounds(to, ab, a, b)
      BY <2>1, <2>3 DEF Rounds
    <3> QED BY <2>2, <3>1, SentFirst
  <2> QED BY <1>4, <2>5, <2>6 DEF net1, net2
<1> HIDE DEF net3
<1> QED BY <1>3, <1>16, <1>17

\* A command that the application submits.
LEMMA SubmitSound ==
  ASSUME NEW calm, Sound(node, net, calm), unused \subseteq Submittable,
         NEW n \in Node, NEW cmd \in Submittable, Submit(n, cmd)
  PROVE  Sound(node', net', calm)
<1> DEFINE c == [cmd |-> cmd, from |-> Nobody, id |-> 0]
           s == Enqueue(node[n], c)
<1>0. Shaped(node, net) /\ Wellformed(n, node[n])
  BY DEF Sound, Shaped
<1>1. c \in QueuedCommand
  BY DEF QueuedCommand, Somebody
<1>2. node' = [node EXCEPT ![n] = s] /\ net' = net
  BY DEF Submit
<1> HIDE DEF c
<1>3. Wellformed(n, s) /\ Alike(node[n], s)
  BY <1>0, <1>1, EnqueueType
<1> HIDE DEF s
<1>4. Sound(Put(node, n, s), net, calm)
  BY <1>3, AlikeSound
<1> QED BY <1>2, <1>4 DEF Put

\* Links that are cut.
LEMMA CutFewer ==
  ASSUME NEW links, Cut(links)
  PROVE  Fewer(net', net)
BY DEF Cut, Fewer, Shorter

\* A node that starts.
LEMMA NewNodeType ==
  ASSUME NEW n \in Node
  PROVE  LET r == NewNode(n)
         IN  /\ Wellformed(n, r) /\ r.votes = 0 /\ r.term = 0 /\ r.votedFor = Nobody
             /\ r.state = "FOLLOWER" /\ r.log = Beginning(0) /\ r.others = Cluster \ {n}
<1> DEFINE r == NewNode(n)
           e == [cmd |-> NoOp, term |-> 0]
<1>1. e \in Entry /\ 0 \in Term
  BY RaftAssumption DEF Entry, Term
<1>2. <<e>> \in Log /\ << >> \in Log /\ << >> \in Queue /\ Len(<<e>>) = 1 /\ <<e>>[1] = e
  BY <1>1 DEF Log, Queue
<1>3. /\ [m \in Node |-> 2] \in Positions /\ [m \in Node |-> 0] \in Positions
      /\ {} \in Replies /\ {} \in Waits /\ {} \in Calls /\ Cluster \ {n} \in Others
      /\ "FOLLOWER" \in State /\ Nobody \in Somebody
  BY RaftAssumption DEF Positions, Replies, Waits, Calls, Others, State, Somebody
<1>4. r = [state |-> "FOLLOWER", term |-> 0, votedFor |-> Nobody, votes |-> 0,
           leader |-> Nobody, log |-> <<e>>, commit |-> 1,
           next |-> [m \in Node |-> 2], match |-> [m \in Node |-> 0], noop |-> 0,
           others |-> Cluster \ {n}, queue |-> << >>, done |-> << >>,
           counter |-> 0, reply |-> {}, waits |-> {}, called |-> {}]
  BY DEF NewNode
<1>b. Beginning(0) = <<e>>
  BY DEF Beginning
<1>c. e.term = 0
  OBVIOUS
<1> HIDE DEF r, e
<1>5. r \in Fields
  BY <1>1, <1>2, <1>3, <1>4, SMT DEF Fields
<1>6. /\ r.votes = 0 /\ r.term = 0 /\ r.votedFor = Nobody /\ r.state = "FOLLOWER"
      /\ r.log = <<e>> /\ r.others = Cluster \ {n} /\ r.commit = 1 /\ r.next = [m \in Node |-> 2]
  BY <1>4
<1>7. Wellformed(n, r)
  BY <1>2, <1>5, <1>6, <1>c, RaftAssumption DEF Wellformed, Peers
<1> QED BY <1>6, <1>7, <1>b DEF r

\* After a restart votes may have been forgotten.
LEMMA RestartSound ==
  ASSUME NEW calm, Sound(node, net, calm), NEW n \in Node, Restart(n)
  PROVE  Sound(node', net', FALSE)
<1> DEFINE r == NewNode(n)
<1>1. /\ Shaped(node, net) /\ node' = Put(node, n, r)
      /\ Cut({<<n, m>> : m \in Node} \union {<<m, n>> : m \in Node})
  BY DEF Sound, Restart, Put
<1>2. Wellformed(n, r) /\ r.votes = 0
  BY NewNodeType
<1> HIDE DEF r
<1>3. Fewer(net', net)
  BY <1>1, CutFewer
<1>4. PICK counted : Counting(node, net, counted)
  BY DEF Sound
<1>5. Counting(node, net', counted)
  BY <1>1, <1>3, <1>4, FewerParts
<1>6. /\ Shaped(node', net') /\ node'[n] = r
      /\ \A k \in Node \ {n} : node'[k] = node[k]
  <2>1. Shaped(Put(node, n, r), net)
    BY <1>1, <1>2, ShapedPut
  <2>2. Shaped(Put(node, n, r), net')
    BY <1>3, <2>1, FewerParts
  <2> QED BY <1>1, <1>2, <2>2, ShapedPut
<1> DEFINE counted2 == [counted EXCEPT ![n] = {}]
<1>7. /\ counted2 \in [Node -> SUBSET Node] /\ counted2[n] = {}
      /\ \A k \in Node \ {n} : counted2[k] = counted[k]
  BY <1>4 DEF Counting
<1> HIDE DEF counted2
<1>8. Counting(node', net', counted2)
  <2>1. \A k \in Node : node'[k].votes = Cardinality(counted2[k])
    <3>1. node'[n].votes = Cardinality(counted2[n])
      BY <1>2, <1>6, <1>7, FS_EmptySet
    <3> QED BY <1>4, <1>6, <1>7, <3>1 DEF Counting
  <2>2. ASSUME NEW k \in Node, NEW m \in Peers(k)
        PROVE  Outstanding(node'[k].term, counted2[k], m, net'[<<k, m>>], net'[<<m, k>>])
    <3>1. CASE k = n
      <4>1. net'[<<k, m>>] = << >> /\ net'[<<m, k>>] = << >>
        BY <1>1, <3>1, Links DEF Cut
      <4>2. DOMAIN << >> = {}
        BY EmptySeq
      <4> QED BY <4>1, <4>2 DEF Outstanding, Of
    <3>2. CASE k # n
      BY <1>5, <1>6, <1>7, <3>2 DEF Counting
    <3> QED BY <3>1, <3>2
  <2> QED BY <1>7, <2>1, <2>2 DEF Counting
<1> QED BY <1>6, <1>8 DEF Sound

-----------------------------------------------------------------------------
(***************************************************************************)
(* The invariant, and what follows from it.                                *)
(***************************************************************************)
Inv ==
    /\ \E calm : (restarts = 0 => calm = TRUE) /\ Sound(node, net, calm)
    /\ unused \subseteq Submittable
    /\ restarts \in 0 .. MaxRestarts

\* The first state.
LEMMA InitInv == Init => Inv
<1> SUFFICES ASSUME Init
             PROVE  Inv
  OBVIOUS
<1>1. /\ node \in [Node -> Fields]
      /\ \A n \in Node : /\ Wellformed(n, node[n]) /\ node[n].votes = 0 /\ node[n].term = 0
                         /\ node[n].votedFor = Nobody /\ node[n].state = "FOLLOWER"
                         /\ node[n].log = Beginning(0) /\ node[n].others = Cluster \ {n}
  <2>1. \A n \in Node : node[n] = NewNode(n)
    BY DEF Init
  <2>2. \A n \in Node : NewNode(n) \in Fields
    BY NewNodeType DEF Wellformed
  <2>3. node \in [Node -> Fields]
    BY <2>2 DEF Init
  <2> QED BY <2>1, <2>3, NewNodeType
<1>2. /\ net \in [Link -> Seq(Message)] /\ DOMAIN << >> = {}
      /\ \A n \in Node : \A m \in Peers(n) : net[<<n, m>>] = << >> /\ net[<<m, n>>] = << >>
  BY EmptySeq, Links DEF Init
<1>3. Shaped(node, net)
  BY <1>1, <1>2 DEF Shaped
<1> DEFINE counted == [n \in Node |-> {}]
<1>4. Counting(node, net, counted)
  <2>1. \A n \in Node : node[n].votes = Cardinality(counted[n])
    BY <1>1, FS_EmptySet
  <2>2. \A n \in Node : \A m \in Peers(n) :
           Outstanding(node[n].term, counted[n], m, net[<<n, m>>], net[<<m, n>>])
    BY <1>2, ZenonT(30) DEF Outstanding, Of
  <2> QED BY <2>1, <2>2 DEF Counting
<1>5. Elected(node, net, counted)
  <2> DEFINE ballot == [v \in Node |-> [t \in Term |-> Nobody]]
             elected == [t \in Term |-> Nobody]
             written == [t \in Term |-> Beginning(t)]
  <2>1. Voting(node, net, counted, ballot)
    <3>1. ballot \in [Node -> [Term -> Somebody]] /\ \A v \in Node, t \in Term : ballot[v][t] = Nobody
      BY DEF Somebody
    <3>2. 0 \in Term
      BY RaftAssumption DEF Term
    <3> HIDE DEF ballot
    <3>3. \A v \in Node : ballot[v][node[v].term] = node[v].votedFor
      BY <1>1, <3>1, <3>2
    <3>4. \A n \in Node : \A m \in Peers(n) : net[<<n, m>>] = << >> /\ Under(net[<<n, m>>]) = {}
      BY <1>2 DEF Under
    <3>5. \A n \in Node : \A v \in Peers(n) : v \in Node /\ n \in Peers(v)
      BY Links
    <3>6. \A n \in Node : counted[n] = {}
      OBVIOUS
    <3> HIDE DEF counted
    <3> QED BY <1>1, <3>1, <3>3, <3>4, <3>5, <3>6 DEF Voting
  <2>2. Leading(node, ballot, elected)
    BY <1>1, RaftAssumption DEF Leading, Somebody
  <2>3. Writing(node, net, elected, written)
    <3>1. 0 \in Term /\ NoOp \in Submittable \union {NoOp}
      BY RaftAssumption DEF Term
    <3>2. [cmd |-> NoOp, term |-> 0] \in Entry
      BY <3>1 DEF Entry, Term
    <3>3. \A t \in Term : Beginning(t) \in Log
      BY <3>2 DEF Beginning, Log
    <3>4. /\ Len(Beginning(0)) = 1 /\ Beginning(0)[1].term = 0
          /\ \A t \in Term : t # 0 => Beginning(t) = << >>
      BY DEF Beginning
    <3>5. written \in [Term -> Log] /\ written[0] = Beginning(0)
          /\ \A t \in Term : written[t] = Beginning(t)
      BY <3>1, <3>3
    <3> HIDE DEF written
    <3>6. Recorded(written, Beginning(0))
      <4> SUFFICES ASSUME NEW i \in 1 .. Len(Beginning(0))
                   PROVE  LET t == Beginning(0)[i].term
                          IN  /\ i <= Len(written[t])
                              /\ \A k \in 1 .. i : Beginning(0)[k] = written[t][k]
        BY DEF Recorded
      <4>1. i = 1
        BY <3>4
      <4>2. Beginning(0)[i].term = 0
        BY <3>4, <4>1
      <4>3. i <= Len(written[0]) /\ \A k \in 1 .. i : Beginning(0)[k] = written[0][k]
        BY <3>4, <3>5, <4>1
      <4> QED BY <4>2, <4>3
    <3>7. ASSUME NEW t \in Term
          PROVE  Recorded(written, written[t])
      <4>1. CASE t = 0
        BY <3>5, <3>6, <4>1
      <4>2. CASE t # 0
        <5>1. Len(written[t]) = 0
          BY <3>4, <3>5, <4>2
        <5>2. 1 .. Len(written[t]) = {}
          BY <5>1
        <5> QED BY <5>2 DEF Recorded
      <4> QED BY <4>1, <4>2
    <3> QED BY <1>1, <1>2, <3>5, <3>6, <3>7 DEF Writing, Under
  <2> HIDE DEF ballot, elected, written
  <2> QED BY <2>1, <2>2, <2>3 DEF Elected
<1>6. Sound(node, net, TRUE)
  <2> HIDE DEF counted
  <2> QED BY <1>3, <1>4, <1>5 DEF Sound
<1>7. \E calm : (restarts = 0 => calm = TRUE) /\ Sound(node, net, calm)
  BY <1>6
<1>8. unused \subseteq Submittable /\ restarts \in 0 .. MaxRestarts
  BY RaftAssumption DEF Init
<1> QED BY <1>7, <1>8 DEF Inv

\* Every step.
LEMMA NextInv == Inv /\ [Next]_vars => Inv'
<1> SUFFICES ASSUME Inv, [Next]_vars
             PROVE  Inv'
  OBVIOUS
<1>1. PICK calm : (restarts = 0 => calm = TRUE) /\ Sound(node, net, calm)
  BY DEF Inv
<1>2. unused \subseteq Submittable /\ restarts \in 0 .. MaxRestarts /\ Shaped(node, net)
  BY <1>1 DEF Inv, Sound
<1>3. ASSUME NEW n \in Node,
             NEW expired \in BOOLEAN, NEW silent \in BOOLEAN, NEW due \in BOOLEAN, NEW takes \in BOOLEAN,
             MayFind(n, expired, silent, due), takes => node[n].queue # << >>,
             NEW up, Tick(n, expired, silent, due, takes, up)
      PROVE  Inv'
  <2>1. Sound(node', net', calm)
    BY <1>1, <1>3, TickSound
  <2>2. unused' = unused /\ restarts' = restarts
    BY <1>3 DEF Tick
  <2> QED BY <1>1, <1>2, <2>1, <2>2 DEF Inv
<1>4. ASSUME NEW n \in Node, NEW m \in Peers(n), Receive(n, m)
      PROVE  Inv'
  <2>1. unused' = unused /\ restarts' = restarts /\ net[<<m, n>>] # << >>
    BY <1>4 DEF Receive
  <2> DEFINE q == Head(net[<<m, n>>])
  <2>2. \/ OnRequestVote(n, m, q)
        \/ \E up \in SUBSET node[n].others : OnResponseVote(n, m, q, up)
        \/ OnAppendEntries(n, m, q)
        \/ OnNextNodeIdx(n, m, q)
        \/ OnApplyCommand(n, m, q)
        \/ OnApplyCommandResponse(n, m, q)
    BY <1>4 DEF Receive
  <2>3. Sound(node', net', calm)
    <3>1. CASE OnRequestVote(n, m, q)
      BY <1>1, <2>1, <3>1, OnRequestVoteSound
    <3>2. ASSUME NEW up, OnResponseVote(n, m, q, up)
          PROVE  Sound(node', net', calm)
      BY <1>1, <2>1, <3>2, OnResponseVoteSound
    <3>3. CASE OnAppendEntries(n, m, q)
      BY <1>1, <2>1, <3>3, OnAppendEntriesSound
    <3>4. CASE OnNextNodeIdx(n, m, q)
      BY <1>1, <2>1, <3>4, OnNextNodeIdxSound
    <3>5. CASE OnApplyCommand(n, m, q)
      BY <1>1, <2>1, <3>5, OnApplyCommandSound
    <3>6. CASE OnApplyCommandResponse(n, m, q)
      BY <1>1, <2>1, <3>6, OnApplyCommandResponseSound
    <3> QED BY <2>2, <3>1, <3>2, <3>3, <3>4, <3>5, <3>6
  <2> QED BY <1>1, <1>2, <2>1, <2>3 DEF Inv
<1>5. ASSUME NEW n \in Node, NEW cmd \in Submittable, Submit(n, cmd)
      PROVE  Inv'
  <2>1. Sound(node', net', calm)
    BY <1>1, <1>2, <1>5, SubmitSound
  <2>2. unused' \subseteq unused /\ restarts' = restarts
    BY <1>5 DEF Submit
  <2> QED BY <1>1, <1>2, <2>1, <2>2 DEF Inv
<1>6. ASSUME NEW n \in Node, NEW m \in Peers(n), Disconnect(m, n)
      PROVE  Inv'
  <2>1. /\ Cut({<<m, n>>, <<n, m>>})
        /\ node' = node /\ unused' = unused /\ restarts' = restarts
    BY <1>6 DEF Disconnect
  <2>2. Fewer(net', net)
    BY <2>1, CutFewer
  <2>3. Sound(node', net', calm)
    BY <1>1, <2>1, <2>2, FewerSound
  <2> QED BY <1>1, <1>2, <2>1, <2>3 DEF Inv
<1>7. ASSUME NEW n \in Node, Restart(n)
      PROVE  Inv'
  <2>1. Sound(node', net', FALSE)
    BY <1>1, <1>7, RestartSound
  <2>2. /\ restarts' \in 0 .. MaxRestarts /\ restarts' # 0 /\ unused' = unused
    BY <1>2, <1>7, RaftAssumption DEF Restart
  <2> QED BY <1>2, <2>1, <2>2 DEF Inv
<1>8. CASE UNCHANGED vars
  BY <1>1, <1>2, <1>8 DEF Inv, vars
<1> QED
  <2>1. CASE Next
    BY <1>3, <1>4, <1>5, <1>6, <1>7, <2>1 DEF Next
  <2> QED BY <1>8, <2>1

\* Every reachable state.
LEMMA SpecInv == Spec => []Inv
BY InitInv, NextInv, PTL DEF Spec

\* The types of the variables, whatever happens: among others, logs never lose
\* their first entry, so that no leader has to send what the code would have
\* compacted away, what is committed is in the log, and a candidate never
\* counts more votes than there are nodes.
THEOREM RaftTypes == Spec => []TypeOK
<1>1. Inv => TypeOK
  <2> SUFFICES ASSUME Inv
               PROVE  TypeOK
    OBVIOUS
  <2>1. PICK calm : Sound(node, net, calm)
    BY DEF Inv
  <2>2. PICK counted : Counting(node, net, counted)
    BY <2>1 DEF Sound
  <2>3. ASSUME NEW n \in Node
        PROVE  LET r == node[n]
               IN  /\ r.state \in {"FOLLOWER", "CANDIDATE", "LEADER", "ENDED"}
                   /\ r.term \in 0 .. MaxTerm
                   /\ r.votedFor \in Node \union {Nobody}
                   /\ r.votes \in 0 .. Cardinality(Node)
                   /\ r.leader \in Node \union {Nobody}
                   /\ r.log \in Seq(Entry) /\ r.done \in Seq(Entry)
                   /\ r.commit \in 1 .. Len(r.log)
                   /\ \A m \in Node : r.next[m] >= 2 /\ r.match[m] >= 0
                   /\ r.queue \in Seq([cmd : Submittable, from : Node \union {Nobody}, id : Nat])
                   /\ r.others \subseteq Peers(n)
    <3>1. Wellformed(n, node[n])
      BY <2>1 DEF Sound, Shaped
    <3>2. node[n].votes \in 0 .. Cardinality(Node)
      <4>1. node[n].votes = Cardinality(counted[n]) /\ counted[n] \in SUBSET Node
        BY <2>2 DEF Counting
      <4>2. Cardinality(counted[n]) \in Nat /\ Cardinality(Node) \in Nat
            /\ Cardinality(counted[n]) <= Cardinality(Node)
        BY <4>1, RaftAssumption, FS_Subset, FS_CardinalityType
      <4> QED BY <4>1, <4>2
    <3>3. \A m \in Node : node[n].match[m] \in Nat
      BY <3>1 DEF Wellformed, Fields, Positions
    <3> QED BY <3>1, <3>2, <3>3 DEF Wellformed, Fields, State, Term, Somebody, Log, Queue
  <2>4. DOMAIN net = Link
    BY <2>1 DEF Sound, Shaped
  <2> QED BY <2>3, <2>4 DEF TypeOK, Inv
<1> QED BY <1>1, SpecInv, PTL

\* Where the membership does not change and nobody restarts, two nodes that
\* think they lead do so in different terms.  A node that restarts forgets its
\* vote, since its journal is in memory, and may vote twice in a term.
THEOREM OneLeaderPerTerm ==
  ASSUME Change = {}, Cluster # {}
  PROVE  Spec => [](restarts = 0 => ElectionSafety)
<1>1. Inv => (restarts = 0 => ElectionSafety)
  <2> SUFFICES ASSUME Inv, restarts = 0
               PROVE  ElectionSafety
    OBVIOUS
  <2>1. PICK counted, ballot, elected : Leading(node, ballot, elected)
    BY DEF Inv, Sound, Elected, Static
  <2> QED BY <2>1 DEF Leading, ElectionSafety
<1> QED BY <1>1, SpecInv, PTL

\* Under the same conditions, logs that agree on the term of an entry agree on
\* everything up to it: what the check of prevLogTerm and the truncation in the
\* handler of append_entries are for.
THEOREM LogsMatch ==
  ASSUME Change = {}, Cluster # {}
  PROVE  Spec => [](restarts = 0 => LogMatching)
<1>1. Inv => (restarts = 0 => LogMatching)
  <2> SUFFICES ASSUME Inv, restarts = 0,
                      NEW m \in Node, NEW n \in Node,
                      NEW i \in DOMAIN node[m].log \intersect DOMAIN node[n].log,
                      node[m].log[i].term = node[n].log[i].term
               PROVE  SubSeq(node[m].log, 1, i) = SubSeq(node[n].log, 1, i)
    BY DEF LogMatching
  <2>1. Sound(node, net, TRUE)
    BY DEF Inv
  <2>2. PICK written, elected : Writing(node, net, elected, written)
    BY <2>1 DEF Sound, Elected, Static
  <2> DEFINE a == node[m].log
             b == node[n].log
             w == written[a[i].term]
  <2>3. Wellformed(m, node[m]) /\ Wellformed(n, node[n])
    BY <2>1 DEF Sound, Shaped
  <2>4. /\ a \in Seq(Entry) /\ b \in Seq(Entry) /\ i \in 1 .. Len(a) /\ i \in 1 .. Len(b)
        /\ Len(a) \in Nat /\ Len(b) \in Nat
    BY <2>3, WellformedLog
  <2>5. /\ \A k \in 1 .. i : a[k] = w[k]
        /\ \A k \in 1 .. i : b[k] = w[k]
    <3>1. Recorded(written, a) /\ Recorded(written, b)
      BY <2>2 DEF Writing
    <3>2. w = written[b[i].term]
      OBVIOUS
    <3> HIDE DEF a, b
    <3>3. w = written[a[i].term]
      OBVIOUS
    <3> HIDE DEF w
    <3> QED BY <2>4, <3>1, <3>2, <3>3, ZenonT(30) DEF Recorded
  <2> HIDE DEF a, b, w
  <2>6. SubSeq(a, 1, i) = SubSeq(b, 1, i)
    <3>1. i \in Int /\ i >= 1 /\ i <= Len(a) /\ i <= Len(b)
      BY <2>4
    <3>2. SubSeq(a, 1, i) = [k \in 1 .. i |-> a[k]] /\ SubSeq(b, 1, i) = [k \in 1 .. i |-> b[k]]
      BY <2>4, <3>1
    <3> QED BY <2>5, <3>2
  <2> QED BY <2>6 DEF a, b
<1> QED BY <1>1, SpecInv, PTL

-----------------------------------------------------------------------------
(***************************************************************************)
(* Where a command is.  Before a leader appends it to its log it is        *)
(* pending in one place, a queue or a link, and afterwards it never leaves *)
(* its index: whatever logs are truncated, sent and forgotten.             *)
(***************************************************************************)
\* Command X is pending, in place i of the queue or the link w, or not
\* submitted yet.
Pending(nd, nt, un, X, k, w, i) ==
    \/ k = "unused" /\ w = Nobody /\ i = 0 /\ X \in un
    \/ k = "queue" /\ w \in Node /\ i \in DOMAIN nd[w].queue /\ nd[w].queue[i].cmd = X
    \/ k = "net" /\ w \in Link /\ i \in DOMAIN nt[w]
       /\ nt[w][i].type = "apply_command" /\ nt[w][i].cmd = X

\* at[X] is the index of command X in every log that has it, 0 as long as no log has.
Indexed(r, at) ==
    /\ \A i \in DOMAIN r.log : r.log[i].cmd \in Submittable => at[r.log[i].cmd] = i
    /\ \A i \in DOMAIN r.done : r.done[i].cmd \in Submittable => at[r.done[i].cmd] = i + 1

\* The same of the entries that append_entries brings.
Brings(q, at) ==
    q.type = "append_entries" =>
        \A j \in DOMAIN q.entries :
            q.entries[j].cmd \in Submittable => at[q.entries[j].cmd] = q.prevLogIdx + j

\* X is pending at most once, and not if it is in a log.
Alone(nd, nt, un, at, X) ==
    \A k, w, i : Pending(nd, nt, un, X, k, w, i) =>
        /\ at[X] = 0
        /\ \A k2, w2, i2 : Pending(nd, nt, un, X, k2, w2, i2) => k = k2 /\ w = w2 /\ i = i2

Placing(nd, nt, un, at) ==
    /\ at \in [Submittable -> Nat]
    /\ \A n \in Node : Indexed(nd[n], at)
    /\ \A c \in Link : \A q \in Under(nt[c]) : Brings(q, at)
    /\ \A X \in Submittable : Alone(nd, nt, un, at, X)

\* X is nowhere: it has just been taken from where it was.
Loose(nd, nt, un, at, X) ==
    /\ X \in Submittable /\ at[X] = 0
    /\ \A k, w, i : ~Pending(nd, nt, un, X, k, w, i)

\* From at to at2 nothing gets an index but what had none and, if it is a change
\* of the cluster, what a node whose list is others does not refuse.
Onward(n, others, at, at2) ==
    \A c \in Change :
        at2[c] # at[c] => at[c] = 0 /\ c.node # n /\ ~(c.op = "add" <=> c.node \in others)

\* What is pending now was pending before, if need be one place further behind.
Behind(nd2, nt2, un2, nd, nt, un) ==
    \A X, k, w, i : Pending(nd2, nt2, un2, X, k, w, i) =>
        \E d \in Int : /\ Pending(nd, nt, un, X, k, w, i + d)
                       /\ \A X2, i2 : Pending(nd2, nt2, un2, X2, k, w, i2) =>
                                         i2 \in Int /\ Pending(nd, nt, un, X2, k, w, i2 + d)

\* A command that is only further ahead on its way is still alone.
LEMMA BehindAlone ==
  ASSUME NEW nd, NEW nt, NEW un, NEW nd2, NEW nt2, NEW un2, Behind(nd2, nt2, un2, nd, nt, un),
         NEW at, NEW X, Alone(nd, nt, un, at, X)
  PROVE  Alone(nd2, nt2, un2, at, X)
<1> SUFFICES ASSUME NEW k, NEW w, NEW i, Pending(nd2, nt2, un2, X, k, w, i)
             PROVE  /\ at[X] = 0
                    /\ \A k2, w2, i2 : Pending(nd2, nt2, un2, X, k2, w2, i2) =>
                                          k = k2 /\ w = w2 /\ i = i2
  BY DEF Alone
<1>1. PICK d \in Int : /\ Pending(nd, nt, un, X, k, w, i + d)
                       /\ \A X2, i2 : Pending(nd2, nt2, un2, X2, k, w, i2) =>
                                         i2 \in Int /\ Pending(nd, nt, un, X2, k, w, i2 + d)
  BY DEF Behind
<1>2. at[X] = 0
  BY <1>1 DEF Alone
<1>3. ASSUME NEW k2, NEW w2, NEW i2, Pending(nd2, nt2, un2, X, k2, w2, i2)
      PROVE  k = k2 /\ w = w2 /\ i = i2
  <2>1. \E d2 \in Int : Pending(nd, nt, un, X, k2, w2, i2 + d2)
    BY <1>3 DEF Behind
  <2>2. k = k2 /\ w = w2
    BY <1>1, <2>1 DEF Alone
  <2>3. i \in Int /\ i2 \in Int /\ Pending(nd, nt, un, X, k, w, i2 + d)
    BY <1>1, <1>3, <2>2
  <2>4. i2 + d = i + d
    BY <1>1, <2>3 DEF Alone
  <2> QED BY <2>2, <2>3, <2>4
<1> QED BY <1>2, <1>3

\* Nothing pending moves where the queues, the links and unused only lose their
\* first parts.
Short(s, old) == \E d \in Int : \A i \in DOMAIN s : i \in Int /\ i + d \in DOMAIN old /\ s[i] = old[i + d]

Smaller(nd2, nt2, un2, nd, nt, un) ==
    /\ un2 \subseteq un
    /\ \A n \in Node : Short(nd2[n].queue, nd[n].queue)
    /\ \A c \in Link : Short(nt2[c], nt[c])

\* Where queues and links only lose their first parts, nothing new is pending.
LEMMA SmallerBehind ==
  ASSUME NEW nd, NEW nt, NEW un, NEW nd2, NEW nt2, NEW un2, Smaller(nd2, nt2, un2, nd, nt, un)
  PROVE  Behind(nd2, nt2, un2, nd, nt, un)
<1> SUFFICES ASSUME NEW X, NEW k, NEW w, NEW i, Pending(nd2, nt2, un2, X, k, w, i)
             PROVE  \E d \in Int :
                       /\ Pending(nd, nt, un, X, k, w, i + d)
                       /\ \A X2, i2 : Pending(nd2, nt2, un2, X2, k, w, i2) =>
                                         i2 \in Int /\ Pending(nd, nt, un, X2, k, w, i2 + d)
  BY DEF Behind
<1>1. CASE k = "unused"
  <2>1. \A X2, i2 : Pending(nd2, nt2, un2, X2, k, w, i2) =>
                       i2 \in Int /\ Pending(nd, nt, un, X2, k, w, i2 + 0)
    BY <1>1 DEF Pending, Smaller
  <2> QED BY <2>1
<1>2. CASE k = "queue"
  <2>1. w \in Node
    BY <1>2 DEF Pending
  <2>2. PICK d \in Int : \A j \in DOMAIN nd2[w].queue :
                            /\ j \in Int /\ j + d \in DOMAIN nd[w].queue
                            /\ nd2[w].queue[j] = nd[w].queue[j + d]
    BY <2>1 DEF Smaller, Short
  <2>3. \A X2, i2 : Pending(nd2, nt2, un2, X2, k, w, i2) =>
                       i2 \in Int /\ Pending(nd, nt, un, X2, k, w, i2 + d)
    BY <1>2, <2>1, <2>2 DEF Pending
  <2> QED BY <2>3
<1>3. CASE k = "net"
  <2>1. w \in Link
    BY <1>3 DEF Pending
  <2>2. PICK d \in Int : \A j \in DOMAIN nt2[w] :
                            j \in Int /\ j + d \in DOMAIN nt[w] /\ nt2[w][j] = nt[w][j + d]
    BY <2>1 DEF Smaller, Short
  <2>3. \A X2, i2 : Pending(nd2, nt2, un2, X2, k, w, i2) =>
                       i2 \in Int /\ Pending(nd, nt, un, X2, k, w, i2 + d)
    BY <1>3, <2>1, <2>2 DEF Pending
  <2> QED BY <2>3
<1> QED BY <1>1, <1>2, <1>3 DEF Pending

\* A command that was pending in a place that nothing is moved to is loose.
LEMMA TakenLoose ==
  ASSUME NEW nd, NEW nt, NEW un, NEW nd2, NEW nt2, NEW un2, Behind(nd2, nt2, un2, nd, nt, un),
         NEW at, NEW X \in Submittable, Alone(nd, nt, un, at, X),
         NEW k, NEW w, NEW i, Pending(nd, nt, un, X, k, w, i),
         \A j : Pending(nd2, nt2, un2, X, k, w, j) =>
            \E d \in Int : Pending(nd, nt, un, X, k, w, j + d) /\ j + d # i
  PROVE  Loose(nd2, nt2, un2, at, X)
<1>1. at[X] = 0
  BY DEF Alone
<1>2. ASSUME NEW k2, NEW w2, NEW j, Pending(nd2, nt2, un2, X, k2, w2, j)
      PROVE  FALSE
  <2>1. PICK d \in Int : Pending(nd, nt, un, X, k2, w2, j + d)
    BY <1>2 DEF Behind
  <2>2. k2 = k /\ w2 = w
    BY <2>1 DEF Alone
  <2> QED BY <1>2, <2>2 DEF Alone
<1> QED BY <1>1, <1>2 DEF Loose

\* A loose command is put in one place.
Joins(nd2, nt2, un2, nd, nt, un, X, k, w, i) ==
    \A X2, k2, w2, i2 : Pending(nd2, nt2, un2, X2, k2, w2, i2) =>
        \/ Pending(nd, nt, un, X2, k2, w2, i2)
        \/ X2 = X /\ k2 = k /\ w2 = w /\ i2 = i

\* One more command joins those under way, and each stays alone.
LEMMA JoinedAlone ==
  ASSUME NEW nd, NEW nt, NEW un, NEW nd2, NEW nt2, NEW un2, NEW at, NEW X, NEW k, NEW w, NEW i,
         Joins(nd2, nt2, un2, nd, nt, un, X, k, w, i), Loose(nd, nt, un, at, X),
         NEW Y, Alone(nd, nt, un, at, Y)
  PROVE  Alone(nd2, nt2, un2, at, Y)
BY DEF Joins, Loose, Alone

-----------------------------------------------------------------------------
(***************************************************************************)
(* The moves of an action.                                                 *)
(***************************************************************************)
\* Sequences that only lose their first elements.
LEMMA SameShort ==
  ASSUME NEW S, NEW s \in Seq(S)
  PROVE  Short(s, s)
<1>1. \A i \in DOMAIN s : i \in Int /\ i + 0 = i
  BY LenProperties
<1> SUFFICES \E d \in Int : \A i \in DOMAIN s : i \in Int /\ i + d \in DOMAIN s /\ s[i] = s[i + d]
  BY DEF Short
<1> WITNESS 0 \in Int
<1> QED BY <1>1

\* A sequence without its first element.
LEMMA TailShort ==
  ASSUME NEW S, NEW s \in Seq(S), s # << >>
  PROVE  \A i \in DOMAIN Tail(s) : i \in Int /\ i + 1 \in DOMAIN s /\ Tail(s)[i] = s[i + 1]
<1>1. /\ Tail(s) \in Seq(S) /\ Len(Tail(s)) = Len(s) - 1
      /\ \A i \in 1 .. Len(Tail(s)) : Tail(s)[i] = s[i + 1]
  BY HeadTailProperties
<1>2. DOMAIN s = 1 .. Len(s) /\ Len(s) \in Nat /\ DOMAIN Tail(s) = 1 .. Len(Tail(s)) /\ Len(Tail(s)) \in Nat
  BY <1>1, LenProperties
<1> QED BY <1>1, <1>2

\* A queue is as short as itself.
LEMMA QueueShort ==
  ASSUME NEW nd, NEW nt, Shaped(nd, nt), NEW n \in Node
  PROVE  /\ nd[n].queue \in Seq(QueuedCommand)
         /\ Short(nd[n].queue, nd[n].queue)
<1>1. nd[n].queue \in Seq(QueuedCommand)
  BY DEF Shaped, Fields, Queue, QueuedCommand
<1> QED BY <1>1, SameShort

\* What is under way gets lost or is taken.
LEMMA FewerPlacing ==
  ASSUME NEW nd, NEW nt, NEW un, NEW at, Shaped(nd, nt), Placing(nd, nt, un, at),
         NEW nt2, Fewer(nt2, nt)
  PROVE  /\ Placing(nd, nt2, un, at)
         /\ Behind(nd, nt2, un, nd, nt, un)
<1>1. \A c \in Link : Short(nt2[c], nt[c]) /\ Under(nt2[c]) \subseteq Under(nt[c])
  <2> SUFFICES ASSUME NEW c \in Link
               PROVE  Short(nt2[c], nt[c]) /\ Under(nt2[c]) \subseteq Under(nt[c])
    OBVIOUS
  <2>1. nt[c] \in Seq(Message) /\ Shorter(nt2[c], nt[c])
    BY DEF Shaped, Fewer
  <2>2. PICK d \in {0, 1} : Shifted(nt2[c], nt[c], d)
    BY <2>1, ShorterMessages
  <2>3. DOMAIN nt2[c] \subseteq Int /\ Under(nt2[c]) \subseteq Under(nt[c])
    BY <2>1, ShorterMessages
  <2> QED BY <2>2, <2>3 DEF Short, Shifted
<1>2. Smaller(nd, nt2, un, nd, nt, un)
  BY <1>1, QueueShort DEF Smaller
<1>3. Behind(nd, nt2, un, nd, nt, un)
  BY <1>2, SmallerBehind
<1>4. \A X \in Submittable : Alone(nd, nt2, un, at, X)
  BY <1>3, BehindAlone DEF Placing
<1>5. \A c \in Link : \A q \in Under(nt2[c]) : Brings(q, at)
  BY <1>1 DEF Placing
<1> QED BY <1>3, <1>4, <1>5 DEF Placing

\* A node changes, and its queue at most loses its first commands.
LEMMA PutPlacing ==
  ASSUME NEW nd, NEW nt, NEW un, NEW at, Shaped(nd, nt), Placing(nd, nt, un, at),
         NEW n \in Node, NEW s, Indexed(s, at), Short(s.queue, nd[n].queue)
  PROVE  /\ Placing(Put(nd, n, s), nt, un, at)
         /\ Behind(Put(nd, n, s), nt, un, nd, nt, un)
<1> DEFINE nd2 == Put(nd, n, s)
<1>1. nd2[n] = s /\ \A k \in Node \ {n} : nd2[k] = nd[k]
  BY DEF Shaped, Put
<1> HIDE DEF nd2
<1>2. \A k \in Node : Short(nd2[k].queue, nd[k].queue) /\ Indexed(nd2[k], at)
  BY <1>1, QueueShort DEF Placing
<1>3. \A c \in Link : Short(nt[c], nt[c])
  BY SameShort DEF Shaped
<1>4. Smaller(nd2, nt, un, nd, nt, un)
  BY <1>2, <1>3 DEF Smaller
<1>5. Behind(nd2, nt, un, nd, nt, un)
  BY <1>4, SmallerBehind
<1>6. \A X \in Submittable : Alone(nd2, nt, un, at, X)
  BY <1>5, BehindAlone DEF Placing
<1> QED BY <1>2, <1>5, <1>6 DEF Placing, nd2

\* No message of s brings a command to be appended, nor an entry out of its place.
Quiet(s, at) == \A q \in Under(s) : q.type # "apply_command" /\ Brings(q, at)

\* s is old, and then new.
Longer(s, old, new) ==
    \A i \in DOMAIN s :
        \/ i \in DOMAIN old /\ s[i] = old[i]
        \/ i \in Int /\ i - Len(old) \in DOMAIN new /\ s[i] = new[i - Len(old)]

\* The links after n has sent out[m] to each m of to.
LEMMA SentAllLinks ==
  ASSUME NEW nt \in [Link -> Seq(Message)], NEW n \in Node, NEW to \in SUBSET Peers(n), NEW out,
         \A m \in to : out[m] \in Seq(Message),
         NEW c \in Link
  PROVE  LET s == SentAll(nt, n, to, out)[c]
         IN  /\ ~(c[1] = n /\ c[2] \in to) => s = nt[c]
             /\ c[1] = n /\ c[2] \in to => Longer(s, nt[c], out[c[2]])
<1>1. CASE c[1] = n /\ c[2] \in to
  <2> DEFINE a == nt[c]
             b == out[c[2]]
  <2>1. SentAll(nt, n, to, out)[c] = a \o b
    BY <1>1 DEF SentAll
  <2>2. a \in Seq(Message) /\ b \in Seq(Message)
    BY <1>1
  <2> HIDE DEF a, b
  <2>3. /\ a \o b \in Seq(Message) /\ Len(a \o b) = Len(a) + Len(b)
        /\ \A i \in 1 .. Len(a) + Len(b) :
              (a \o b)[i] = IF i <= Len(a) THEN a[i] ELSE b[i - Len(a)]
    BY <2>2, ConcatProperties
  <2>4. /\ Len(a) \in Nat /\ Len(b) \in Nat /\ DOMAIN a = 1 .. Len(a) /\ DOMAIN b = 1 .. Len(b)
        /\ DOMAIN (a \o b) = 1 .. Len(a) + Len(b)
    BY <2>2, <2>3, LenProperties
  <2>5. Longer(a \o b, a, b)
    BY <2>3, <2>4 DEF Longer
  <2> QED BY <1>1, <2>1, <2>5 DEF a, b
<1>2. CASE ~(c[1] = n /\ c[2] \in to)
  BY <1>2 DEF SentAll
<1> QED BY <1>1, <1>2

\* Messages that bring no command in need of a leader are sent.
LEMMA SentPlacing ==
  ASSUME NEW nd, NEW nt, NEW un, NEW at, Shaped(nd, nt), Placing(nd, nt, un, at),
         NEW n \in Node, NEW to \in SUBSET Peers(n), NEW out,
         \A m \in to : out[m] \in Seq(Message) /\ Quiet(out[m], at)
  PROVE  Placing(nd, SentAll(nt, n, to, out), un, at)
<1> DEFINE nt2 == SentAll(nt, n, to, out)
<1>0. nt \in [Link -> Seq(Message)]
  BY DEF Shaped
<1>s. \A m \in to : out[m] \in Seq(Message)
  OBVIOUS
<1>a. ASSUME NEW c \in Link
      PROVE  /\ ~(c[1] = n /\ c[2] \in to) => nt2[c] = nt[c]
             /\ c[1] = n /\ c[2] \in to => Longer(nt2[c], nt[c], out[c[2]])
  BY <1>0, <1>s, SentAllLinks
<1> HIDE DEF nt2
<1>1. ASSUME NEW c \in Link, NEW i \in DOMAIN nt2[c]
      PROVE  \/ i \in DOMAIN nt[c] /\ nt2[c][i] = nt[c][i]
             \/ nt2[c][i].type # "apply_command" /\ Brings(nt2[c][i], at)
  <2>1. CASE c[1] = n /\ c[2] \in to
    <3>1. \/ i \in DOMAIN nt[c] /\ nt2[c][i] = nt[c][i]
          \/ i - Len(nt[c]) \in DOMAIN out[c[2]] /\ nt2[c][i] = out[c[2]][i - Len(nt[c])]
      BY <1>a, <2>1 DEF Longer
    <3>2. Quiet(out[c[2]], at)
      BY <2>1
    <3> QED BY <3>1, <3>2 DEF Quiet, Under
  <2>2. CASE ~(c[1] = n /\ c[2] \in to)
    <3>1. nt2[c] = nt[c]
      BY <1>a, <2>2
    <3> QED BY <3>1
  <2> QED BY <2>1, <2>2
<1>2. \A X, k, w, i : Pending(nd, nt2, un, X, k, w, i) => Pending(nd, nt, un, X, k, w, i)
  BY <1>1 DEF Pending
<1>3. \A X \in Submittable : Alone(nd, nt2, un, at, X)
  BY <1>2 DEF Alone, Placing
<1>4. \A c \in Link : \A q \in Under(nt2[c]) : Brings(q, at)
  BY <1>1 DEF Placing, Under
<1> QED BY <1>3, <1>4 DEF Placing, nt2

\* A loose command joins a queue.
LEMMA QueuedPlacing ==
  ASSUME NEW nd, NEW nt, NEW un, NEW at, Shaped(nd, nt), Placing(nd, nt, un, at),
         NEW n \in Node, NEW s, Indexed(s, at), NEW c, Loose(nd, nt, un, at, c.cmd),
         s.queue = Append(nd[n].queue, c), c \in QueuedCommand
  PROVE  Placing(Put(nd, n, s), nt, un, at)
<1> DEFINE nd2 == Put(nd, n, s)
           old == nd[n].queue
           i == Len(old) + 1
<1>1. nd2[n] = s /\ \A k \in Node \ {n} : nd2[k] = nd[k]
  BY DEF Shaped, Put
<1>2. old \in Seq(QueuedCommand)
  BY QueueShort
<1> HIDE DEF nd2, old
<1>3. \A j \in DOMAIN Append(old, c) : \/ j \in DOMAIN old /\ Append(old, c)[j] = old[j]
                                       \/ j = i /\ Append(old, c)[j] = c
  <2> DEFINE a == Append(old, c)
  <2>1. /\ a \in Seq(QueuedCommand) /\ Len(a) = Len(old) + 1
        /\ \A j \in 1 .. Len(old) : a[j] = old[j]
        /\ a[Len(old) + 1] = c
    BY <1>2, AppendProperties
  <2> HIDE DEF a
  <2>2. DOMAIN old = 1 .. Len(old) /\ Len(old) \in Nat /\ DOMAIN a = 1 .. Len(old) + 1
    BY <1>2, <2>1, LenProperties
  <2>3. ASSUME NEW j \in DOMAIN a
        PROVE  \/ j \in DOMAIN old /\ a[j] = old[j]
               \/ j = Len(old) + 1 /\ a[j] = c
    BY <2>1, <2>2
  <2> QED BY <2>3 DEF a
<1> HIDE DEF i
<1>4. \A j \in DOMAIN s.queue : \/ j \in DOMAIN nd[n].queue /\ s.queue[j] = nd[n].queue[j]
                                \/ j = i /\ s.queue[j].cmd = c.cmd
  BY <1>3 DEF old
<1>5. Joins(nd2, nt, un, nd, nt, un, c.cmd, "queue", n, i)
  <2> SUFFICES ASSUME NEW X, NEW k, NEW w, NEW j, Pending(nd2, nt, un, X, k, w, j)
               PROVE  \/ Pending(nd, nt, un, X, k, w, j)
                      \/ X = c.cmd /\ k = "queue" /\ w = n /\ j = i
    BY DEF Joins
  <2>1. CASE k = "queue" /\ w = n
    <3>1. n \in Node /\ j \in DOMAIN s.queue /\ s.queue[j].cmd = X
      BY <1>1, <2>1 DEF Pending
    <3> QED BY <1>4, <2>1, <3>1 DEF Pending
  <2>2. CASE ~(k = "queue" /\ w = n)
    BY <1>1, <2>2 DEF Pending
  <2> QED BY <2>1, <2>2
<1>6. \A X \in Submittable : Alone(nd2, nt, un, at, X)
  BY <1>5, JoinedAlone DEF Placing
<1>7. \A k \in Node : Indexed(nd2[k], at)
  BY <1>1 DEF Placing
<1> QED BY <1>6, <1>7 DEF Placing, nd2

\* The message that hands over command X.
Bears(s, X) == \E q : s = <<q>> /\ q.type = "apply_command" /\ q.cmd = X

\* What is sent in a round bears command X to node p alone.
Offers(to, out, p, X, at) ==
    \A m \in to : /\ out[m] \in Seq(Message)
                  /\ \/ Quiet(out[m], at)
                     \/ m = p /\ Bears(out[m], X)

\* A loose command is sent to one node.
LEMMA CommandPlacing ==
  ASSUME NEW nd, NEW nt, NEW un, NEW at, Shaped(nd, nt), Placing(nd, nt, un, at),
         NEW n \in Node, NEW to \in SUBSET Peers(n), NEW out, NEW p, NEW X,
         Loose(nd, nt, un, at, X), Offers(to, out, p, X, at)
  PROVE  Placing(nd, SentAll(nt, n, to, out), un, at)
<1> DEFINE nt2 == SentAll(nt, n, to, out)
           l == Len(nt[<<n, p>>]) + 1
<1>0. nt \in [Link -> Seq(Message)]
  BY DEF Shaped
<1>s. \A m \in to : /\ out[m] \in Seq(Message)
                     /\ \/ Quiet(out[m], at)
                        \/ m = p /\ Bears(out[m], X)
  BY DEF Offers
<1>a. ASSUME NEW c \in Link
      PROVE  /\ ~(c[1] = n /\ c[2] \in to) => nt2[c] = nt[c]
             /\ c[1] = n /\ c[2] \in to => Longer(nt2[c], nt[c], out[c[2]])
  BY <1>0, <1>s, SentAllLinks
<1> HIDE DEF nt2, l
<1>1. ASSUME NEW c \in Link, NEW i \in DOMAIN nt2[c]
      PROVE  \/ i \in DOMAIN nt[c] /\ nt2[c][i] = nt[c][i]
             \/ nt2[c][i].type # "apply_command" /\ Brings(nt2[c][i], at)
             \/ /\ nt2[c][i].type = "apply_command" /\ nt2[c][i].cmd = X
                /\ c = <<n, p>> /\ i = l
  <2>1. CASE c[1] = n /\ c[2] \in to
    <3>1. \/ i \in DOMAIN nt[c] /\ nt2[c][i] = nt[c][i]
          \/ /\ i \in Int /\ i - Len(nt[c]) \in DOMAIN out[c[2]]
             /\ nt2[c][i] = out[c[2]][i - Len(nt[c])]
      BY <1>a, <2>1 DEF Longer
    <3>2. CASE Quiet(out[c[2]], at)
      BY <3>1, <3>2 DEF Quiet, Under
    <3>3. CASE c[2] = p /\ Bears(out[c[2]], X)
      <4>1. PICK q : out[c[2]] = <<q>> /\ q.type = "apply_command" /\ q.cmd = X
        BY <3>3 DEF Bears
      <4>2. DOMAIN <<q>> = {1} /\ <<q>>[1] = q
        OBVIOUS
      <4>3. c = <<n, p>> /\ Len(nt[c]) \in Nat
        BY <1>0, <2>1, <3>3, Links, LenProperties
      <4>4. \/ i \in DOMAIN nt[c] /\ nt2[c][i] = nt[c][i]
            \/ i \in Int /\ i - Len(nt[c]) = 1 /\ nt2[c][i] = q
        BY <3>1, <4>1, <4>2
      <4> QED BY <4>1, <4>3, <4>4 DEF l
    <3> QED BY <1>s, <2>1, <3>2, <3>3
  <2>2. CASE ~(c[1] = n /\ c[2] \in to)
    BY <1>a, <2>2
  <2> QED BY <2>1, <2>2
<1>2. Joins(nd, nt2, un, nd, nt, un, X, "net", <<n, p>>, l)
  BY <1>1 DEF Joins, Pending
<1>3. \A Y \in Submittable : Alone(nd, nt2, un, at, Y)
  BY <1>2, JoinedAlone DEF Placing
<1>4. \A c \in Link : \A q \in Under(nt2[c]) : Brings(q, at)
  BY <1>1 DEF Placing, Under, Brings
<1> QED BY <1>3, <1>4 DEF Placing, nt2

SameButFor(X, at, at2) == \A Y \in Submittable : Y # X => at2[Y] = at[Y]

\* A loose command gets the next index of n's log.
LEMMA LoggedPlacing ==
  ASSUME NEW nd, NEW nt, NEW un, NEW at, Shaped(nd, nt), Placing(nd, nt, un, at),
         NEW n \in Node, NEW s, NEW e \in Entry, Loose(nd, nt, un, at, e.cmd),
         s.log = Append(nd[n].log, e), s.done = nd[n].done, s.queue = nd[n].queue
  PROVE  \E at2 : /\ Placing(Put(nd, n, s), nt, un, at2)
                  /\ SameButFor(e.cmd, at, at2)
<1> DEFINE nd2 == Put(nd, n, s)
           X == e.cmd
           l == Len(nd[n].log) + 1
           at2 == [at EXCEPT ![X] = l]
<1>1. nd2[n] = s /\ \A k \in Node \ {n} : nd2[k] = nd[k]
  BY DEF Shaped, Put
<1> HIDE DEF nd2
<1>2. /\ \A k \in Node : /\ Wellformed(k, nd[k]) /\ DOMAIN nd[k].log = 1 .. Len(nd[k].log)
                         /\ DOMAIN nd[k].done = 1 .. Len(nd[k].done) /\ Len(nd[k].done) \in Nat
                         /\ nd[k].log \in Seq(Entry) /\ Len(nd[k].log) \in Nat
                         /\ nd[k].log # << >>
  BY WellformedLog, LenProperties DEF Shaped
<1>3. /\ \A i \in 1 .. Len(nd[n].log) : s.log[i] = nd[n].log[i]
      /\ s.log[l] = e /\ DOMAIN s.log = 1 .. l /\ l \in Nat \ {0}
  <2>1. nd[n].log \in Seq(Entry) /\ nd[n].log # << >> /\ Len(nd[n].log) \in Nat
    BY <1>2
  <2>2. /\ s.log \in Seq(Entry) /\ Len(s.log) = l
        /\ \A i \in 1 .. Len(nd[n].log) : s.log[i] = nd[n].log[i]
        /\ s.log[l] = e
    BY <2>1, AppendType
  <2> QED BY <2>1, <2>2, LenProperties
<1>4. /\ X \in Submittable /\ at[X] = 0 /\ at \in [Submittable -> Nat]
      /\ at2 \in [Submittable -> Nat] /\ at2[X] = l
      /\ \A Y \in Submittable : Y # X => at2[Y] = at[Y]
  BY <1>3 DEF Loose, Placing
<1> HIDE DEF at2, X
<1>x. X = e.cmd
  BY DEF X
<1>5. ASSUME NEW k \in Node
      PROVE  Indexed(nd2[k], at2)
  <2>1. Indexed(nd[k], at)
    BY DEF Placing
  <2>2. ASSUME NEW i \in DOMAIN nd[k].log, nd[k].log[i].cmd \in Submittable
        PROVE  at2[nd[k].log[i].cmd] = i
    BY <1>2, <1>4, <2>1, <2>2 DEF Indexed
  <2>3. ASSUME NEW i \in DOMAIN nd[k].done, nd[k].done[i].cmd \in Submittable
        PROVE  at2[nd[k].done[i].cmd] = i + 1
    BY <1>2, <1>4, <2>1, <2>3 DEF Indexed
  <2>4. CASE k = n
    <3>1. nd2[k].log = s.log /\ nd2[k].done = nd[k].done
      BY <1>1, <2>4
    <3>2. ASSUME NEW i \in DOMAIN s.log, s.log[i].cmd \in Submittable
          PROVE  at2[s.log[i].cmd] = i
      <4>1. CASE i = l
        BY <1>3, <1>4, <1>x, <4>1
      <4>2. CASE i # l
        <5>1. i \in DOMAIN nd[n].log /\ s.log[i] = nd[n].log[i]
          BY <1>2, <1>3, <4>2
        <5> QED BY <2>2, <2>4, <3>2, <5>1
      <4> QED BY <4>1, <4>2
    <3> QED BY <2>3, <3>1, <3>2 DEF Indexed
  <2>5. CASE k # n
    <3>1. nd2[k] = nd[k]
      BY <1>1, <2>5
    <3> QED BY <2>2, <2>3, <3>1 DEF Indexed
  <2> QED BY <2>4, <2>5
<1>6. ASSUME NEW c \in Link, NEW q \in Under(nt[c])
      PROVE  Brings(q, at2)
  <2> SUFFICES ASSUME q.type = "append_entries", NEW j \in DOMAIN q.entries,
                      q.entries[j].cmd \in Submittable
               PROVE  at2[q.entries[j].cmd] = q.prevLogIdx + j
    BY DEF Brings
  <2>1. at[q.entries[j].cmd] = q.prevLogIdx + j
    BY DEF Placing, Brings
  <2>2. q \in Message
    BY UnderType DEF Shaped
  <2>3. q.prevLogIdx \in Nat /\ q.entries \in Seq(Entry)
    BY <2>2 DEF Message, RequestVotes, ResponseVotes, Appends, Positioned, Forwarded, Responses, Log
  <2>4. j \in Nat /\ j >= 1
    BY <2>3, LenProperties
  <2> QED BY <1>4, <2>1, <2>3, <2>4
<1>7. \A Y, k, w, i : Pending(nd2, nt, un, Y, k, w, i) => Pending(nd, nt, un, Y, k, w, i)
  BY <1>1 DEF Pending
<1>8. ASSUME NEW Y \in Submittable
      PROVE  Alone(nd2, nt, un, at2, Y)
  <2>1. Alone(nd, nt, un, at, Y)
    BY DEF Placing
  <2>2. CASE Y = X
    BY <1>7, <1>x, <2>2 DEF Loose, Alone
  <2>3. CASE Y # X
    BY <1>4, <1>7, <2>1, <2>3 DEF Alone
  <2> QED BY <2>2, <2>3
<1>9. Placing(nd2, nt, un, at2)
  BY <1>4, <1>5, <1>6, <1>8 DEF Placing
<1> QED BY <1>4, <1>9, <1>x DEF nd2, SameButFor

-----------------------------------------------------------------------------
(***************************************************************************)
(* What the operators do to the indexes of commands.                       *)
(***************************************************************************)
\* What matters here is the same in r and s.
Idle(r, s) == s.log = r.log /\ s.done = r.done /\ s.queue = r.queue

\* Indexes stay where logs do.
LEMMA IdleIndexed ==
  ASSUME NEW r, NEW s, Idle(r, s), NEW at, Indexed(r, at)
  PROVE  Indexed(s, at)
BY DEF Idle, Indexed

\* The operators that leave log and queue as they are.
LEMMA IdleOperators ==
  ASSUME NEW n \in Node, NEW r, Wellformed(n, r)
  PROVE  /\ Idle(r, LeaderChanged(r))
         /\ Idle(r, AdvanceCommit(r, n))
         /\ Idle(r, FallBack(r))
         /\ \A up : Idle(r, AfterSending(r, up))
         /\ \A m \in Node : \A q : Idle(r, Follow(r, m, q))
         /\ \A q : Idle(r, NewerTerm(r, q))
         /\ \A q : Idle(r, Forward(r, q))
<1>1. r \in Fields
  BY DEF Wellformed
<1>2. Idle(r, LeaderChanged(r))
  BY <1>1 DEF Fields, LeaderChanged, Call, Idle
<1>3. Idle(r, AdvanceCommit(r, n))
  BY <1>1 DEF Fields, AdvanceCommit, Idle
<1>4. Idle(r, FallBack(r))
  BY <1>1 DEF Fields, FallBack, Follower, Idle
<1>5. \A up : Idle(r, AfterSending(r, up))
  BY <1>1 DEF Fields, AfterSending, Idle
<1>6. ASSUME NEW m \in Node, NEW q
      PROVE  Idle(r, Follow(r, m, q))
  <2> DEFINE l == IF r.leader = m THEN r ELSE LeaderChanged(r)
  <2>1. Idle(r, l) /\ l \in Fields
    BY <1>1, <1>2, LeaderChangedType DEF Idle, Wellformed
  <2>2. Follow(r, m, q) =
          [Follower(l) EXCEPT !.leader = m, !.term = q.term,
                              !.votedFor = IF q.term > r.term THEN Nobody ELSE @]
    BY DEF Follow
  <2> HIDE DEF l
  <2>3. Idle(l, Follow(r, m, q))
    BY <2>1, <2>2 DEF Fields, Follower, Idle
  <2> QED BY <2>1, <2>3 DEF Idle
<1>7. \A q : Idle(r, NewerTerm(r, q))
  BY <1>1 DEF Fields, NewerTerm, Follower, Idle
<1>8. \A q : Idle(r, Forward(r, q))
  BY <1>1 DEF Fields, Forward, Idle
<1> QED BY <1>2, <1>3, <1>4, <1>5, <1>6, <1>7, <1>8

\* A new leader's no-op is no command.
LEMMA LeadIndexed ==
  ASSUME NEW n \in Node, NEW r, Wellformed(n, r), NEW at, Indexed(r, at)
  PROVE  /\ Indexed(BecomeLeader(r, n), at)
         /\ BecomeLeader(r, n).queue = r.queue
<1> DEFINE e == [cmd |-> NoOp, term |-> r.term]
           s == BecomeLeader(r, n)
<1>1. r \in Fields
  BY DEF Wellformed
<1>2. s.log = Append(r.log, e) /\ s.done = r.done /\ s.queue = r.queue
  BY <1>1 DEF Fields, BecomeLeader
<1>3. /\ r.log \in Seq(Entry) /\ r.log # << >> /\ Len(r.log) \in Nat /\ DOMAIN r.log = 1 .. Len(r.log)
      /\ e \in Entry /\ e.cmd \notin Submittable
  BY WellformedLog, RaftAssumption DEF Entry, Term, Submittable
<1> HIDE DEF e, s
<1>4. /\ s.log \in Seq(Entry) /\ Len(s.log) = Len(r.log) + 1
      /\ \A i \in 1 .. Len(r.log) : s.log[i] = r.log[i]
      /\ s.log[Len(r.log) + 1] = e
  BY <1>2, <1>3, AppendType
<1>5. \A i \in DOMAIN s.log : \/ i \in DOMAIN r.log /\ s.log[i] = r.log[i]
                              \/ s.log[i] = e
  BY <1>3, <1>4, LenProperties
<1> QED BY <1>2, <1>3, <1>5 DEF Indexed, s

\* Becoming a candidate, or the leader of a cluster of one, moves no command.
LEMMA ElectionIndexed ==
  ASSUME NEW n \in Node, NEW r, Wellformed(n, r), r.term < MaxTerm, NEW at, Indexed(r, at)
  PROVE  /\ Indexed(StartElection(r, n), at)
         /\ StartElection(r, n).queue = r.queue
<1> DEFINE l == LeaderChanged(r)
           c == [l EXCEPT !.state = "CANDIDATE", !.leader = Nobody,
                          !.term = @ + 1, !.votedFor = n, !.votes = 1]
<1>1. Wellformed(n, l) /\ Alike(r, l) /\ Idle(r, l)
  BY LeaderChangedType, IdleOperators
<1>2. StartElection(r, n) = IF Majority(r, 1) THEN BecomeLeader(c, n) ELSE c
  BY DEF StartElection
<1>3. /\ "CANDIDATE" \in State /\ Nobody \in Somebody /\ n \in Somebody /\ 1 \in Nat
      /\ l.term + 1 \in Term /\ l \in Fields
  BY <1>1, WellformedLog, RaftAssumption DEF State, Somebody, Term, Alike, Wellformed
<1> HIDE DEF l
<1>4. c \in Fields
  BY <1>3, Zenon DEF Fields
<1>5. /\ c.others = l.others /\ c.log = l.log /\ c.commit = l.commit /\ c.next = l.next
      /\ Idle(l, c)
  BY <1>3 DEF Fields, Idle
<1> HIDE DEF c
<1>6. Wellformed(n, c) /\ Idle(r, c)
  BY <1>1, <1>4, <1>5 DEF Wellformed, Idle
<1>7. Indexed(c, at) /\ c.queue = r.queue
  BY <1>6, IdleIndexed DEF Idle
<1>8. Indexed(BecomeLeader(c, n), at) /\ BecomeLeader(c, n).queue = r.queue
  BY <1>6, <1>7, LeadIndexed
<1> QED BY <1>2, <1>7, <1>8

\* What is applied are the next entries of the log.
LEMMA ApplyIndexed ==
  ASSUME NEW n \in Node, NEW r, Wellformed(n, r), NEW at, Indexed(r, at)
  PROVE  Indexed(Apply(r), at) /\ Apply(r).queue = r.queue
<1> DEFINE s == Apply(r)
           d == r.done
           a == Len(d) + 2
           e == SubSeq(r.log, a, r.commit)
<1>1. r \in Fields
  BY DEF Wellformed
<1>2. s.log = r.log /\ s.queue = r.queue /\ s.done = d \o e
  BY <1>1 DEF Fields, Apply
<1>3. /\ r.log \in Seq(Entry) /\ d \in Seq(Entry) /\ Len(d) \in Nat
      /\ r.commit \in Int /\ r.commit <= Len(r.log) /\ Len(r.log) \in Nat
      /\ DOMAIN r.log = 1 .. Len(r.log)
      /\ \A i \in 1 .. Len(r.log) : r.log[i] \in Entry
  BY WellformedLog
<1>4. /\ e \in Seq(Entry) /\ Len(e) = IF a <= r.commit THEN r.commit - a + 1 ELSE 0
      /\ \A i \in 1 .. Len(e) : e[i] = r.log[a + i - 1]
  <2>1. a \in Int /\ \A i \in a .. r.commit : r.log[i] \in Entry
    BY <1>3
  <2> HIDE DEF a
  <2> QED BY <1>3, <2>1, SubSeqProperties
<1> HIDE DEF s, d, e
<1>5. /\ d \o e \in Seq(Entry) /\ Len(d \o e) = Len(d) + Len(e)
      /\ \A i \in 1 .. Len(d) + Len(e) : (d \o e)[i] = IF i <= Len(d) THEN d[i] ELSE e[i - Len(d)]
  BY <1>3, <1>4, ConcatProperties
<1>6. ASSUME NEW i \in DOMAIN s.done
      PROVE  \/ i \in DOMAIN d /\ s.done[i] = d[i]
             \/ i + 1 \in DOMAIN r.log /\ s.done[i] = r.log[i + 1]
  <2>1. /\ i \in 1 .. Len(d) + Len(e) /\ Len(e) \in Nat /\ DOMAIN d = 1 .. Len(d)
        /\ s.done[i] = IF i <= Len(d) THEN d[i] ELSE e[i - Len(d)]
    BY <1>2, <1>3, <1>4, <1>5, LenProperties
  <2>2. CASE i <= Len(d)
    BY <1>3, <2>1, <2>2
  <2>3. CASE i > Len(d)
    <3>1. i - Len(d) \in 1 .. Len(e) /\ a <= r.commit /\ i + 1 <= r.commit /\ i + 1 >= 1
      BY <1>3, <1>4, <2>1, <2>3
    <3>2. s.done[i] = r.log[a + (i - Len(d)) - 1] /\ a + (i - Len(d)) - 1 = i + 1
      BY <1>3, <1>4, <2>1, <2>3, <3>1
    <3> QED BY <1>3, <2>1, <3>1, <3>2
  <2> QED BY <1>3, <2>1, <2>2, <2>3
<1>7. \A i \in DOMAIN s.log : s.log[i].cmd \in Submittable => at[s.log[i].cmd] = i
  BY <1>2 DEF Indexed
<1>8. ASSUME NEW i \in DOMAIN s.done, s.done[i].cmd \in Submittable
      PROVE  at[s.done[i].cmd] = i + 1
  BY <1>6, <1>8 DEF Indexed, d
<1> QED BY <1>2, <1>7, <1>8 DEF Indexed, s

\* A follower puts the entries where the leader has them.
LEMMA AppendToIndexed ==
  ASSUME NEW n \in Node, NEW r, Wellformed(n, r), NEW q \in Appends, q.prevLogIdx \in DOMAIN r.log,
         NEW at, Indexed(r, at), Brings(q, at)
  PROVE  Indexed(AppendTo(r, n, q), at) /\ AppendTo(r, n, q).queue = r.queue
<1> DEFINE p == q.prevLogIdx
           e == q.entries
           s == AppendTo(r, n, q)
           log == SubSeq(r.log, 1, p) \o e
           undone == Undo(r, n, SubSeq(r.log, p + 1, Len(r.log)))
           redone == Redo(undone, n, e)
<1>1. /\ p \in 1 .. Len(r.log) /\ Len(r.log) \in Nat /\ r.log \in Seq(Entry)
      /\ DOMAIN r.log = 1 .. Len(r.log)
      /\ e \in Seq(Entry) /\ Len(e) \in Nat /\ DOMAIN e = 1 .. Len(e) /\ q.type = "append_entries"
  BY WellformedLog, LenProperties DEF Appends, Log
<1>2. undone \in Reconfigured(n, r)
  <2>1. SubSeq(r.log, p + 1, Len(r.log)) \in Seq(Entry)
    BY <1>1, SubSeqProperties, WellformedLog
  <2> QED BY <2>1, UndoType
<1>3. redone \in Reconfigured(n, undone)
  <2> HIDE DEF undone
  <2>1. Wellformed(n, undone)
    BY <1>2 DEF Reconfigured
  <2> QED BY <1>1, <2>1, RedoType
<1>4. s = [redone EXCEPT !.log = log, !.commit = Min({q.commit, Len(log)})]
  BY DEF AppendTo
<1>5. Wellformed(n, s) /\ Len(s.log) = p + Len(e)
      /\ \A i \in 1 .. Len(s.log) : s.log[i] = IF i <= p THEN r.log[i] ELSE e[i - p]
  BY AppendToType
<1> HIDE DEF undone, redone, log, s
<1>6. redone \in Fields /\ redone.done = r.done /\ redone.queue = r.queue
  BY <1>2, <1>3 DEF Reconfigured
<1>7. s.done = r.done /\ s.queue = r.queue
  BY <1>4, <1>6 DEF Fields
<1>8. ASSUME NEW i \in DOMAIN s.log, s.log[i].cmd \in Submittable
      PROVE  at[s.log[i].cmd] = i
  <2>1. i \in 1 .. Len(s.log) /\ i \in Nat
    BY <1>5, WellformedLog
  <2>2. CASE i <= p
    <3>1. i \in DOMAIN r.log /\ s.log[i] = r.log[i]
      BY <1>1, <1>5, <2>1, <2>2
    <3> QED BY <1>8, <3>1 DEF Indexed
  <2>3. CASE i > p
    <3>1. i - p \in DOMAIN e /\ s.log[i] = e[i - p] /\ p + (i - p) = i
      BY <1>1, <1>5, <2>1, <2>3
    <3> QED BY <1>1, <1>8, <3>1 DEF Brings
  <2> QED BY <1>1, <2>1, <2>2, <2>3
<1> QED BY <1>7, <1>8 DEF Indexed, s

\* The entries that a leader sends are those of its log.
LEMMA AppendEntriesBrings ==
  ASSUME NEW n \in Node, NEW r, Wellformed(n, r), NEW m \in Node, NEW at, Indexed(r, at)
  PROVE  Quiet(<<AppendEntries(r, m)>>, at)
<1> DEFINE x == r.next[m]
           y == BatchEnd(r, m)
           e == SubSeq(r.log, x, y)
           q == AppendEntries(r, m)
<1>1. x \in Nat /\ x >= 2 /\ y \in Int /\ y <= Len(r.log)
  BY BatchEndType
<1>2. r.log \in Seq(Entry) /\ Len(r.log) \in Nat /\ DOMAIN r.log = 1 .. Len(r.log)
      /\ \A i \in 1 .. Len(r.log) : r.log[i] \in Entry
  BY WellformedLog
<1>3. /\ q.entries = e /\ q.type = "append_entries"
      /\ q.prevLogIdx = IF x - 1 \in DOMAIN r.log THEN x - 1 ELSE 0
  BY DEF AppendEntries, PrevLogIdx
<1> HIDE DEF x, y, q
<1>4. /\ e \in Seq(Entry) /\ Len(e) = IF x <= y THEN y - x + 1 ELSE 0
      /\ \A i \in 1 .. Len(e) : e[i] = r.log[x + i - 1]
  <2>1. \A i \in x .. y : r.log[i] \in Entry
    BY <1>1, <1>2
  <2> QED BY <1>1, <1>2, <2>1, SubSeqProperties
<1> HIDE DEF e
<1>5. ASSUME NEW j \in DOMAIN q.entries, q.entries[j].cmd \in Submittable
      PROVE  at[q.entries[j].cmd] = q.prevLogIdx + j
  <2>1. j \in 1 .. Len(e) /\ j \in Nat
    BY <1>3, <1>4, LenProperties
  <2>2. x <= y /\ x + j - 1 \in DOMAIN r.log /\ q.prevLogIdx = x - 1
    BY <1>1, <1>2, <1>3, <1>4, <2>1
  <2>3. q.entries[j] = r.log[x + j - 1]
    BY <1>3, <1>4, <2>1
  <2>4. x + j - 1 = q.prevLogIdx + j
    BY <1>1, <2>1, <2>2
  <2> QED BY <1>5, <2>2, <2>3, <2>4 DEF Indexed
<1>6. Brings(q, at) /\ q.type # "apply_command"
  BY <1>3, <1>5 DEF Brings
<1>7. Under(<<q>>) = {q}
  BY DEF Under
<1> QED BY <1>6, <1>7 DEF Quiet, q

-----------------------------------------------------------------------------
(***************************************************************************)
(* What the actions do to commands.                                        *)
(***************************************************************************)
\* Messages of which none brings a command.
LEMMA QuietMessages ==
  ASSUME NEW at
  PROVE  /\ << >> \in Seq(Message) /\ Quiet(<< >>, at)
         /\ \A q \in UNION {RequestVotes, ResponseVotes, Positioned, Responses} :
               <<q>> \in Seq(Message) /\ Quiet(<<q>>, at)
<1>1. << >> \in Seq(Message) /\ DOMAIN << >> = {}
  OBVIOUS
<1>2. Quiet(<< >>, at)
  BY <1>1 DEF Quiet, Under
<1>3. ASSUME NEW q \in UNION {RequestVotes, ResponseVotes, Positioned, Responses}
      PROVE  <<q>> \in Seq(Message) /\ Quiet(<<q>>, at)
  <2>1. q \in Message
    BY DEF Message
  <2>2. q.type # "apply_command" /\ q.type # "append_entries"
    BY DEF RequestVotes, ResponseVotes, Positioned, Responses
  <2>3. Under(<<q>>) = {q}
    BY DEF Under
  <2>4. <<q>> \in Seq(Message)
    BY <2>1
  <2> QED BY <2>2, <2>3, <2>4 DEF Quiet, Brings
<1> QED BY <1>1, <1>2, <1>3

\* Messages that are sent are messages under way.
LEMMA SentShaped ==
  ASSUME NEW nd, NEW nt, Shaped(nd, nt), NEW n \in Node, NEW to \in SUBSET Peers(n), NEW out,
         \A m \in to : out[m] \in Seq(Message)
  PROVE  Shaped(nd, SentAll(nt, n, to, out))
<1>1. ASSUME NEW c \in Link
      PROVE  (IF c[1] = n /\ c[2] \in to THEN nt[c] \o out[c[2]] ELSE nt[c]) \in Seq(Message)
  <2>1. nt[c] \in Seq(Message)
    BY DEF Shaped
  <2> QED BY <2>1, ConcatProperties
<1>2. SentAll(nt, n, to, out) \in [Link -> Seq(Message)]
  BY <1>1 DEF SentAll
<1> QED BY <1>2 DEF Shaped

\* A step that takes a message, after which n is r, and sends none that brings a
\* command.
LEMMA TakenPlacing ==
  ASSUME NEW at, Shaped(node, net), Shaped(node', net'), Placing(node, net, unused, at),
         NEW n \in Node, NEW m \in Peers(n), NEW r, NEW out, NEW up,
         Step(n, r, Taken(m, n), out, up), net[<<m, n>>] # << >>,
         Indexed(r, at), Short(r.queue, node[n].queue),
         \A k \in Peers(n) : out[k] \in Seq(Message) /\ Quiet(out[k], at)
  PROVE  Placing(node', net', unused, at)
<1>1. node' = Put(node, n, r)
  BY StepTaking
<1>2. PICK nt1, to : /\ to \in SUBSET Peers(n)
                     /\ LessHead(nt1, net, m, n)
                     /\ net' = SentAll(nt1, n, to, out)
  BY StepTaking
<1>3. Fewer(nt1, net)
  BY <1>2 DEF LessHead
<1>4. Shaped(node, nt1) /\ Placing(node, nt1, unused, at)
  BY <1>3, FewerParts, FewerPlacing
<1>5. Placing(node', nt1, unused, at)
  BY <1>1, <1>4, PutPlacing
<1>6. Shaped(node', nt1)
  BY <1>4 DEF Shaped
<1>7. \A k \in to : out[k] \in Seq(Message) /\ Quiet(out[k], at)
  BY <1>2
<1>8. Placing(node', SentAll(nt1, n, to, out), unused, at)
  BY <1>2, <1>5, <1>6, <1>7, SentPlacing
<1> QED BY <1>2, <1>8

\* Nodes that are asked for their votes.
LEMMA OnRequestVotePlacing ==
  ASSUME NEW at, Shaped(node, net), Shaped(node', net'), Placing(node, net, unused, at),
         NEW n \in Node, NEW m \in Peers(n), net[<<m, n>>] # << >>,
         OnRequestVote(n, m, Head(net[<<m, n>>]))
  PROVE  Placing(node', net', unused, at)
<1> DEFINE q == Head(net[<<m, n>>])
           r == NewerTerm(node[n], q)
           s == IF GrantsVote(r, q) THEN [r EXCEPT !.votedFor = m] ELSE r
           p == [type |-> "response_vote", term |-> q.term]
           out == [Silence(n) EXCEPT ![m] = IF GrantsVote(r, q) THEN <<p>> ELSE << >>]
<1>1. Step(n, s, Taken(m, n), out, {m})
  BY DEF OnRequestVote
<1>2. q \in RequestVotes /\ Wellformed(n, node[n]) /\ m \in Node
  BY Received, Links DEF OnRequestVote, Shaped
<1> HIDE DEF q
<1>3. Wellformed(n, r) /\ Idle(node[n], r)
  BY <1>2, NewerTermType, IdleOperators DEF RequestVotes
<1> HIDE DEF r
<1>4. Idle(node[n], s)
  BY <1>3 DEF Idle, Wellformed, Fields
<1>5. p \in ResponseVotes
  BY <1>2 DEF RequestVotes, ResponseVotes
<1> HIDE DEF p, s
<1>6. <<p>> \in Seq(Message) /\ Quiet(<<p>>, at) /\ << >> \in Seq(Message) /\ Quiet(<< >>, at)
  BY <1>5, QuietMessages
<1>7. \A k \in Peers(n) : out[k] \in Seq(Message) /\ Quiet(out[k], at)
  BY <1>6 DEF Silence
<1> HIDE DEF out
<1>8. Indexed(s, at) /\ Short(s.queue, node[n].queue)
  BY <1>4, IdleIndexed, QueueShort DEF Idle, Placing
<1> QED BY <1>1, <1>7, <1>8, TakenPlacing

\* Candidates that are given votes.
LEMMA OnResponseVotePlacing ==
  ASSUME NEW at, Shaped(node, net), Shaped(node', net'), Placing(node, net, unused, at),
         NEW n \in Node, NEW m \in Peers(n), net[<<m, n>>] # << >>,
         NEW up, OnResponseVote(n, m, Head(net[<<m, n>>]), up)
  PROVE  Placing(node', net', unused, at)
<1> DEFINE q == Head(net[<<m, n>>])
           r == node[n]
           counts == r.state = "CANDIDATE" /\ q.term = r.term
           wins == counts /\ Majority(r, r.votes + 1)
           voted == IF counts THEN [r EXCEPT !.votes = @ + 1] ELSE r
           leader == BecomeLeader(voted, n)
           sent == AfterSending(leader, up)
           out == [p \in Peers(n) |-> <<AppendEntries(leader, p)>>]
<1>1. IF wins THEN Step(n, sent, Taken(m, n), out, up)
              ELSE Step(n, voted, Taken(m, n), Silence(n), {})
  BY DEF OnResponseVote
<1>2. Wellformed(n, r) /\ Indexed(r, at)
  BY DEF Shaped, Placing
<1>3. Wellformed(n, voted) /\ Idle(r, voted)
  <2>1. r \in Fields /\ r.votes + 1 \in Nat
    BY <1>2 DEF Wellformed, Fields
  <2>2. [r EXCEPT !.votes = r.votes + 1] \in Fields
    BY <2>1, Zenon DEF Fields
  <2>3. LET s == [r EXCEPT !.votes = r.votes + 1]
        IN  Idle(r, s) /\ s.commit = r.commit /\ s.next = r.next /\ s.others = r.others
    BY <2>1 DEF Fields, Idle
  <2>4. Wellformed(n, [r EXCEPT !.votes = r.votes + 1])
    BY <1>2, <2>2, <2>3 DEF Wellformed, Idle
  <2> QED BY <1>2, <2>3, <2>4 DEF Idle
<1> HIDE DEF voted, wins, counts
<1>4. Indexed(voted, at) /\ voted.queue = r.queue
  BY <1>2, <1>3, IdleIndexed DEF Idle
<1>5. Wellformed(n, leader) /\ Indexed(leader, at) /\ leader.queue = r.queue
  BY <1>3, <1>4, BecomeLeaderType, LeadIndexed
<1> HIDE DEF leader
<1>6. Indexed(sent, at) /\ sent.queue = r.queue
  BY <1>5, IdleOperators, IdleIndexed DEF Idle
<1> HIDE DEF sent
<1>7. \A k \in Peers(n) : out[k] \in Seq(Message) /\ Quiet(out[k], at)
  <2> SUFFICES ASSUME NEW k \in Peers(n)
               PROVE  <<AppendEntries(leader, k)>> \in Seq(Message) /\ Quiet(<<AppendEntries(leader, k)>>, at)
    OBVIOUS
  <2>1. k \in Node
    BY Links
  <2>2. AppendEntries(leader, k) \in Message
    BY <1>5, <2>1, AppendEntriesType DEF Message
  <2>3. Quiet(<<AppendEntries(leader, k)>>, at)
    BY <1>5, <2>1, AppendEntriesBrings
  <2> QED BY <2>2, <2>3
<1> HIDE DEF out
<1>8. \A k \in Peers(n) : Silence(n)[k] \in Seq(Message) /\ Quiet(Silence(n)[k], at)
  BY QuietMessages DEF Silence
<1>9. Short(voted.queue, node[n].queue) /\ Short(sent.queue, node[n].queue)
  BY <1>4, <1>6, QueueShort
<1>10. CASE wins
  BY <1>1, <1>6, <1>7, <1>9, <1>10, TakenPlacing
<1>11. CASE ~wins
  BY <1>1, <1>4, <1>8, <1>9, <1>11, TakenPlacing
<1> QED BY <1>10, <1>11

\* Followers that get entries.
LEMMA OnAppendEntriesPlacing ==
  ASSUME NEW at, Shaped(node, net), Shaped(node', net'), Placing(node, net, unused, at),
         NEW n \in Node, NEW m \in Peers(n), net[<<m, n>>] # << >>,
         OnAppendEntries(n, m, Head(net[<<m, n>>]))
  PROVE  Placing(node', net', unused, at)
<1> DEFINE q == Head(net[<<m, n>>])
           r == Follow(node[n], m, q)
           reply == AppendReply(r, q)
           s == IF reply.success THEN AppendTo(r, n, q) ELSE r
           out == [Silence(n) EXCEPT ![m] = <<reply>>]
<1>1. IF q.term < node[n].term
      THEN Step(n, node[n], Taken(m, n), Silence(n), {})
      ELSE Step(n, s, Taken(m, n), out, {m})
  BY DEF OnAppendEntries
<1>2. /\ q \in Appends /\ q \in Under(net[<<m, n>>]) /\ <<m, n>> \in Link
      /\ Wellformed(n, node[n]) /\ m \in Node /\ Indexed(node[n], at)
  BY Received, Links DEF OnAppendEntries, Shaped, Placing
<1> HIDE DEF q
<1>3. Brings(q, at)
  BY <1>2 DEF Placing
<1>4. Wellformed(n, r) /\ Idle(node[n], r)
  BY <1>2, FollowType, IdleOperators DEF Appends
<1>5. Indexed(r, at) /\ r.queue = node[n].queue
  BY <1>2, <1>4, IdleIndexed DEF Idle
<1> HIDE DEF r
<1>6. /\ reply \in Positioned
      /\ reply.success => q.prevLogIdx \in DOMAIN r.log
  BY <1>2, <1>4, AppendReplyType
<1>7. Indexed(s, at) /\ s.queue = node[n].queue
  BY <1>2, <1>3, <1>4, <1>5, <1>6, AppendToIndexed
<1> HIDE DEF s, reply
<1>8. \A k \in Peers(n) : Silence(n)[k] \in Seq(Message) /\ Quiet(Silence(n)[k], at)
  BY QuietMessages DEF Silence
<1>9. <<reply>> \in Seq(Message) /\ Quiet(<<reply>>, at)
  BY <1>6, QuietMessages
<1>10. \A k \in Peers(n) : out[k] \in Seq(Message) /\ Quiet(out[k], at)
  BY <1>8, <1>9 DEF Silence
<1> HIDE DEF out
<1>11. Short(node[n].queue, node[n].queue)
  BY QueueShort
<1>12. CASE q.term < node[n].term
  BY <1>1, <1>2, <1>8, <1>11, <1>12, TakenPlacing
<1>13. CASE ~(q.term < node[n].term)
  BY <1>1, <1>7, <1>10, <1>11, <1>13, TakenPlacing
<1> QED BY <1>12, <1>13

\* Leaders that hear how far a follower is.
LEMMA OnNextNodeIdxPlacing ==
  ASSUME NEW at, Shaped(node, net), Shaped(node', net'), Placing(node, net, unused, at),
         NEW n \in Node, NEW m \in Peers(n), net[<<m, n>>] # << >>,
         OnNextNodeIdx(n, m, Head(net[<<m, n>>]))
  PROVE  Placing(node', net', unused, at)
<1> DEFINE q == Head(net[<<m, n>>])
           r == node[n]
           heard == [r EXCEPT !.next[m] = IF q.reset THEN q.next ELSE @,
                              !.match[m] = IF q.success THEN q.next - 1 ELSE @]
           s == IF r.state = "LEADER" THEN heard ELSE r
<1>1. Step(n, s, Taken(m, n), Silence(n), {})
  BY DEF OnNextNodeIdx
<1>2. r \in Fields /\ Indexed(r, at)
  BY DEF Shaped, Wellformed, Placing
<1> HIDE DEF q
<1>3. Idle(r, s)
  BY <1>2 DEF Fields, Idle
<1> HIDE DEF s
<1>4. Indexed(s, at) /\ Short(s.queue, node[n].queue)
  BY <1>2, <1>3, IdleIndexed, QueueShort DEF Idle
<1>5. \A k \in Peers(n) : Silence(n)[k] \in Seq(Message) /\ Quiet(Silence(n)[k], at)
  BY QuietMessages DEF Silence
<1> QED BY <1>1, <1>4, <1>5, TakenPlacing

\* Nodes that hear what became of a command.
LEMMA OnApplyCommandResponsePlacing ==
  ASSUME NEW at, Shaped(node, net), Shaped(node', net'), Placing(node, net, unused, at),
         NEW n \in Node, NEW m \in Peers(n), net[<<m, n>>] # << >>,
         OnApplyCommandResponse(n, m, Head(net[<<m, n>>]))
  PROVE  Placing(node', net', unused, at)
<1> DEFINE q == Head(net[<<m, n>>])
           r == node[n]
           asked == {c \in r.reply : c.id = q.id}
           popped == [r EXCEPT !.reply = @ \ asked]
           c == CHOOSE c \in asked : TRUE
           s == IF asked = {} THEN r ELSE Answered(popped, c, q)
<1>1. Step(n, s, Taken(m, n), Silence(n), {})
  BY DEF OnApplyCommandResponse
<1>2. r \in Fields /\ Indexed(r, at)
  BY DEF Shaped, Wellformed, Placing
<1> HIDE DEF q, asked, c
<1>3. Idle(r, popped) /\ popped.called = r.called /\ DOMAIN popped = DOMAIN r
  BY <1>2 DEF Fields, Idle
<1> HIDE DEF popped
<1>4. Idle(r, s)
  BY <1>2, <1>3 DEF Answered, Call, Idle, Fields
<1> HIDE DEF s
<1>5. Indexed(s, at) /\ Short(s.queue, node[n].queue)
  BY <1>2, <1>4, IdleIndexed, QueueShort DEF Idle
<1>6. \A k \in Peers(n) : Silence(n)[k] \in Seq(Message) /\ Quiet(Silence(n)[k], at)
  BY QuietMessages DEF Silence
<1> QED BY <1>1, <1>5, <1>6, TakenPlacing

\* A command that is taken from a link.
LEMMA HeadLoose ==
  ASSUME NEW nd, NEW nt, NEW un, NEW at, Shaped(nd, nt), Placing(nd, nt, un, at),
         NEW n \in Node, NEW m \in Peers(n), NEW nt1, LessHead(nt1, nt, m, n),
         NEW q, q = Head(nt[<<m, n>>]), q.type = "apply_command"
  PROVE  q.cmd \in Submittable /\ Loose(nd, nt1, un, at, q.cmd)
<1> DEFINE c == <<m, n>>
           s == nt[c]
<1>1. c \in Link /\ s \in Seq(Message) /\ s # << >> /\ nt1[c] \in {Tail(s), << >>}
  BY Links DEF LessHead, Shaped
<1>2. q \in Forwarded
  BY Received DEF LessHead
<1>3. q = s[1] /\ 1 \in DOMAIN s
  BY <1>1, HeadTailProperties, LenProperties, EmptySeq
<1>4. Behind(nd, nt1, un, nd, nt, un)
  BY FewerPlacing DEF LessHead
<1>5. Pending(nd, nt, un, q.cmd, "net", c, 1)
  BY <1>1, <1>3 DEF Pending
<1>6. \A j \in DOMAIN nt1[c] : j \in Int /\ j + 1 \in DOMAIN s /\ nt1[c][j] = s[j + 1] /\ j + 1 # 1
  <2>1. CASE nt1[c] = << >>
    <3>1. DOMAIN << >> = {}
      OBVIOUS
    <3> QED BY <2>1, <3>1
  <2>2. CASE nt1[c] = Tail(s)
    <3> HIDE DEF s, c
    <3>1. Tail(s) \in Seq(Message) /\ \A j \in DOMAIN Tail(s) : j \in Int /\ j >= 1
      BY <1>1, HeadTailProperties, LenProperties
    <3> QED BY <1>1, <2>2, <3>1, TailShort
  <2> QED BY <1>1, <2>1, <2>2
<1>7. \A j : Pending(nd, nt1, un, q.cmd, "net", c, j) =>
        \E d \in Int : Pending(nd, nt, un, q.cmd, "net", c, j + d) /\ j + d # 1
  <2> SUFFICES ASSUME NEW j, Pending(nd, nt1, un, q.cmd, "net", c, j)
               PROVE  Pending(nd, nt, un, q.cmd, "net", c, j + 1) /\ j + 1 # 1
    OBVIOUS
  <2> QED BY <1>1, <1>6 DEF Pending
<1>8. q.cmd \in Submittable /\ Alone(nd, nt, un, at, q.cmd)
  BY <1>2 DEF Forwarded, Placing
<1> HIDE DEF s, c
<1> QED BY <1>4, <1>5, <1>7, <1>8, TakenLoose

\* A command that is taken from a queue.
LEMMA QueueLoose ==
  ASSUME NEW nd, NEW nt, NEW un, NEW at, Shaped(nd, nt), Placing(nd, nt, un, at),
         NEW n \in Node, nd[n].queue # << >>, NEW t, Indexed(t, at), t.queue = Tail(nd[n].queue)
  PROVE  /\ Placing(Put(nd, n, t), nt, un, at)
         /\ Loose(Put(nd, n, t), nt, un, at, Head(nd[n].queue).cmd)
<1> DEFINE nd2 == Put(nd, n, t)
           s == nd[n].queue
           q == Head(s)
<1>1. s \in Seq(QueuedCommand) /\ s # << >>
  BY QueueShort
<1>2. nd2[n] = t
  BY DEF Shaped, Put
<1> HIDE DEF nd2, s
<1>3. q = s[1] /\ 1 \in DOMAIN s /\ q \in QueuedCommand
  BY <1>1, HeadTailProperties, LenProperties, EmptySeq, ElementOfSeq
<1>4. \A j \in DOMAIN Tail(s) : /\ j \in Int /\ j + 1 \in DOMAIN s /\ Tail(s)[j] = s[j + 1]
                                /\ j + 1 # 1
  <2>1. Tail(s) \in Seq(QueuedCommand) /\ \A j \in DOMAIN Tail(s) : j \in Int /\ j >= 1
    BY <1>1, HeadTailProperties, LenProperties
  <2> QED BY <1>1, <2>1, TailShort
<1>5. Short(t.queue, nd[n].queue)
  <2>1. Short(Tail(s), s)
    <3> SUFFICES \E d \in Int : \A j \in DOMAIN Tail(s) :
                    j \in Int /\ j + d \in DOMAIN s /\ Tail(s)[j] = s[j + d]
      BY DEF Short
    <3> WITNESS 1 \in Int
    <3> QED BY <1>4
  <2> QED BY <2>1 DEF s
<1>6. Placing(nd2, nt, un, at) /\ Behind(nd2, nt, un, nd, nt, un)
  BY <1>5, PutPlacing DEF nd2
<1> HIDE DEF q
<1>7. Pending(nd, nt, un, q.cmd, "queue", n, 1)
  BY <1>3 DEF Pending, s
<1>8. \A j : Pending(nd2, nt, un, q.cmd, "queue", n, j) =>
        \E d \in Int : Pending(nd, nt, un, q.cmd, "queue", n, j + d) /\ j + d # 1
  <2> SUFFICES ASSUME NEW j, Pending(nd2, nt, un, q.cmd, "queue", n, j)
               PROVE  Pending(nd, nt, un, q.cmd, "queue", n, j + 1) /\ j + 1 # 1
    OBVIOUS
  <2>1. j \in DOMAIN Tail(s) /\ Tail(s)[j].cmd = q.cmd
    BY <1>2 DEF Pending, s
  <2> QED BY <1>4, <2>1 DEF Pending, s
<1>9. q.cmd \in Submittable /\ Alone(nd, nt, un, at, q.cmd)
  BY <1>3 DEF QueuedCommand, Placing
<1>10. Loose(nd2, nt, un, at, q.cmd)
  BY <1>6, <1>7, <1>8, <1>9, TakenLoose
<1> QED BY <1>6, <1>10 DEF nd2, q, s

\* A loose command is queued, or not.
LEMMA EnqueuePlacing ==
  ASSUME NEW nd, NEW nt, NEW un, NEW at, Shaped(nd, nt), Placing(nd, nt, un, at),
         NEW n \in Node, NEW c \in QueuedCommand, Loose(nd, nt, un, at, c.cmd)
  PROVE  Placing(Put(nd, n, Enqueue(nd[n], c)), nt, un, at)
<1> DEFINE r == nd[n]
           s == Enqueue(r, c)
<1>1. r \in Fields /\ Indexed(r, at) /\ Short(r.queue, r.queue)
  BY QueueShort DEF Shaped, Wellformed, Placing
<1>2. CASE Full(r.queue)
  <2>1. Idle(r, s)
    BY <1>1, <1>2 DEF Enqueue, Call, Idle, Fields
  <2> HIDE DEF s
  <2>2. Indexed(s, at) /\ Short(s.queue, nd[n].queue)
    BY <1>1, <2>1, IdleIndexed DEF Idle
  <2>3. Placing(Put(nd, n, s), nt, un, at)
    BY <2>2, PutPlacing
  <2> QED BY <2>3 DEF s
<1>3. CASE ~Full(r.queue)
  <2>1. s.queue = Append(r.queue, c) /\ s.log = r.log /\ s.done = r.done
    BY <1>1, <1>3 DEF Enqueue, Fields
  <2> HIDE DEF s
  <2>2. Indexed(s, at)
    BY <1>1, <2>1 DEF Indexed
  <2>3. Placing(Put(nd, n, s), nt, un, at)
    BY <2>1, <2>2, QueuedPlacing
  <2> QED BY <2>3 DEF s
<1> QED BY <1>2, <1>3

\* Nodes that are handed a command.
LEMMA OnApplyCommandPlacing ==
  ASSUME NEW at, Shaped(node, net), Shaped(node', net'), Placing(node, net, unused, at),
         NEW n \in Node, NEW m \in Peers(n), net[<<m, n>>] # << >>,
         OnApplyCommand(n, m, Head(net[<<m, n>>]))
  PROVE  Placing(node', net', unused, at)
<1> DEFINE q == Head(net[<<m, n>>])
           c == [cmd |-> q.cmd, from |-> IF q.id = 0 THEN Nobody ELSE m, id |-> q.id]
           s == Enqueue(node[n], c)
           a == Response(q.id, "QUEUE_FULL", 0, 0)
           out == [Silence(n) EXCEPT ![m] = IF Full(node[n].queue) /\ q.id # 0 THEN <<a>> ELSE << >>]
<1>1. Step(n, s, Taken(m, n), out, {m}) /\ q.type = "apply_command"
  BY DEF OnApplyCommand
<1>2. q \in Forwarded /\ m \in Node
  BY Received, Links DEF OnApplyCommand
<1>x. q = Head(net[<<m, n>>])
  OBVIOUS
<1> HIDE DEF q
<1>3. c \in QueuedCommand /\ c.cmd = q.cmd /\ a \in Responses
  BY <1>2, RaftAssumption DEF QueuedCommand, Forwarded, Somebody, Responses, Response, Reasons, Term
<1> HIDE DEF c, a
<1>4. <<a>> \in Seq(Message) /\ Quiet(<<a>>, at) /\ << >> \in Seq(Message) /\ Quiet(<< >>, at)
  BY <1>3, QuietMessages
<1>5. \A k \in Peers(n) : out[k] \in Seq(Message) /\ Quiet(out[k], at)
  BY <1>4 DEF Silence
<1>e. s = Enqueue(node[n], c)
  OBVIOUS
<1> HIDE DEF s, out
<1>6. node' = Put(node, n, s)
  BY <1>1, StepTaking
<1>7. PICK nt1, to : /\ to \in SUBSET Peers(n)
                     /\ LessHead(nt1, net, m, n)
                     /\ net' = SentAll(nt1, n, to, out)
  BY <1>1, StepTaking
<1>8. Fewer(nt1, net)
  BY <1>7 DEF LessHead
<1>9. Shaped(node, nt1) /\ Placing(node, nt1, unused, at)
  BY <1>8, FewerParts, FewerPlacing
<1>10. Loose(node, nt1, unused, at, c.cmd)
  BY <1>1, <1>3, <1>7, <1>x, HeadLoose
<1>11. Placing(node', nt1, unused, at)
  BY <1>3, <1>6, <1>9, <1>10, <1>e, EnqueuePlacing
<1>12. Shaped(node', nt1)
  BY <1>9 DEF Shaped
<1>13. \A k \in to : out[k] \in Seq(Message) /\ Quiet(out[k], at)
  BY <1>5, <1>7
<1>14. Placing(node', SentAll(nt1, n, to, out), unused, at)
  BY <1>7, <1>11, <1>12, <1>13, SentPlacing
<1> QED BY <1>7, <1>14

\* A thread that submits a command.
LEMMA SubmitPlacing ==
  ASSUME NEW at, Shaped(node, net), Placing(node, net, unused, at),
         NEW n \in Node, NEW cmd \in Submittable, Submit(n, cmd)
  PROVE  Placing(node', net', unused', at)
<1> DEFINE c == [cmd |-> cmd, from |-> Nobody, id |-> 0]
<1>1. /\ c \in QueuedCommand /\ c.cmd = cmd /\ cmd \in unused
      /\ node' = Put(node, n, Enqueue(node[n], c)) /\ net' = net /\ unused' = unused \ {cmd}
  BY DEF Submit, QueuedCommand, Somebody, Put
<1> HIDE DEF c
<1>2. Smaller(node, net, unused', node, net, unused)
  BY <1>1, QueueShort, SameShort DEF Smaller, Shaped
<1>3. Behind(node, net, unused', node, net, unused)
  BY <1>2, SmallerBehind
<1>4. Placing(node, net, unused', at)
  BY <1>3, BehindAlone DEF Placing
<1>5. Pending(node, net, unused, cmd, "unused", Nobody, 0)
  BY <1>1 DEF Pending
<1>6. \A j : ~Pending(node, net, unused', cmd, "unused", Nobody, j)
  BY <1>1 DEF Pending
<1>7. Loose(node, net, unused', at, cmd)
  <2>1. Alone(node, net, unused, at, cmd)
    BY DEF Placing
  <2> QED BY <1>3, <1>5, <1>6, <2>1, TakenLoose
<1>8. Placing(Put(node, n, Enqueue(node[n], c)), net, unused', at)
  BY <1>1, <1>4, <1>7, EnqueuePlacing
<1> QED BY <1>1, <1>8

\* A node that starts has nothing.
LEMMA RestartPlacing ==
  ASSUME NEW at, Shaped(node, net), Placing(node, net, unused, at), NEW n \in Node, Restart(n)
  PROVE  Placing(node', net', unused', at)
<1> DEFINE r == NewNode(n)
           e == [cmd |-> NoOp, term |-> 0]
<1>1. /\ node' = Put(node, n, r) /\ unused' = unused
      /\ Cut({<<n, m>> : m \in Node} \union {<<m, n>> : m \in Node})
  BY DEF Restart, Put
<1>2. r.log = <<e>> /\ r.done = << >> /\ r.queue = << >>
  BY DEF NewNode
<1>3. DOMAIN << >> = {} /\ DOMAIN <<e>> = {1} /\ <<e>>[1] = e /\ NoOp \notin Submittable
  BY RaftAssumption DEF Submittable
<1> HIDE DEF r
<1>4. Indexed(r, at)
  BY <1>2, <1>3 DEF Indexed
<1>5. Short(r.queue, node[n].queue)
  BY <1>2, <1>3 DEF Short
<1>6. Placing(node', net, unused, at)
  BY <1>1, <1>4, <1>5, PutPlacing
<1>7. Shaped(node', net)
  BY <1>1, NewNodeType, ShapedPut DEF r
<1>8. Placing(node', net', unused, at)
  BY <1>1, <1>6, <1>7, CutFewer, FewerPlacing
<1> QED BY <1>1, <1>8

\* A command that a tick takes from the queue.
LEMMA CheckCommandsPlacing ==
  ASSUME NEW nd, NEW nt, NEW un, NEW at, Shaped(nd, nt), Placing(nd, nt, un, at),
         NEW n \in Node, nd[n].queue # << >>, NEW to \in SUBSET Peers(n), NEW out,
         \A m \in to : out[m] = Messages(nd[n], n, m)
  PROVE  \E at2 : /\ Placing(Put(nd, n, CheckCommands(nd[n], n)), SentAll(nt, n, to, out), un, at2)
                  /\ Onward(n, nd[n].others, at, at2)
<1> DEFINE r == nd[n]
           q == Head(r.queue)
           t == [r EXCEPT !.queue = Tail(r.queue)]
           s == CheckCommands(r, n)
           nd1 == Put(nd, n, t)
           nt2 == SentAll(nt, n, to, out)
           e == [cmd |-> q.cmd, term |-> r.term]
<1>1. /\ r \in Fields /\ Wellformed(n, r) /\ Indexed(r, at) /\ r.queue # << >>
      /\ r.log \in Log /\ r.term \in Term /\ nt \in [Link -> Seq(Message)]
  BY DEF Shaped, Wellformed, Placing, Fields
<1>2. q \in QueuedCommand /\ Tail(r.queue) \in Queue
  BY <1>1, QueueType
<1>3. Wellformed(n, t) /\ t.log = r.log /\ t.done = r.done /\ t.queue = Tail(r.queue)
  <2>1. t \in Fields
    BY <1>1, <1>2, Zenon DEF Fields
  <2>2. t.log = r.log /\ t.done = r.done /\ t.queue = Tail(r.queue)
        /\ t.commit = r.commit /\ t.next = r.next /\ t.others = r.others
    BY <1>1 DEF Fields
  <2> HIDE DEF t
  <2> QED BY <1>1, <2>1, <2>2 DEF Wellformed
<1>4. Wellformed(n, s)
  BY <1>1, CheckCommandsType
<1>5. nd1[n] = t /\ \A u : Put(nd1, n, u) = Put(nd, n, u)
  BY PutAgain
<1>6. Indexed(t, at)
  BY <1>1, <1>3 DEF Indexed
<1>7. Placing(nd1, nt, un, at) /\ Loose(nd1, nt, un, at, q.cmd)
  <2> HIDE DEF t
  <2> QED BY <1>1, <1>3, <1>6, QueueLoose
<1>8. Shaped(nd1, nt) /\ Shaped(Put(nd, n, s), nt)
  BY <1>3, <1>4, ShapedPut
\* What is sent is an answer, or the command.
<1>9. \A m \in to : out[m] \in Seq(Message)
  <2> SUFFICES ASSUME NEW m \in to
               PROVE  Messages(r, n, m) \in Seq(Message)
    OBVIOUS
  <2> DEFINE p == Messages(r, n, m)
  <2>1. m \in Node
    BY Links
  <2>2. p = << >> \/ \E a \in Forwarded \union Responses : p = <<a>>
    BY <1>1, <2>1, MessagesType
  <2> HIDE DEF p
  <2>3. << >> \in Seq(Message) /\ \A a \in Message : <<a>> \in Seq(Message)
    OBVIOUS
  <2>4. p \in Seq(Message)
    BY <2>2, <2>3 DEF Message
  <2> QED BY <2>4 DEF p
<1>10. Answer(r, n, q) \in Responses
  BY <1>1, <1>2, WellformedLog, RaftAssumption
     DEF Answer, Response, Responses, Reasons, QueuedCommand, Term
<1>11. \A m \in to : \A at2 :
          \/ Quiet(out[m], at2)
          \/ r.state # "LEADER" /\ m = r.leader /\ out[m] = <<ApplyCommand(r, q)>>
  <2> SUFFICES ASSUME NEW m \in to, NEW at2
               PROVE  \/ Quiet(Messages(r, n, m), at2)
                      \/ /\ r.state # "LEADER" /\ m = r.leader
                         /\ Messages(r, n, m) = <<ApplyCommand(r, q)>>
    OBVIOUS
  <2>1. Quiet(<< >>, at2) /\ Quiet(<<Answer(r, n, q)>>, at2)
    BY <1>10, QuietMessages
  <2> QED BY <2>1 DEF Messages
<1>12. s = [IF r.state = "LEADER" THEN Accept(r, n, q) ELSE Forward(r, q) EXCEPT !.queue = Tail(r.queue)]
  BY DEF CheckCommands
<1>13. /\ ApplyCommand(r, q).type = "apply_command" /\ ApplyCommand(r, q).cmd = q.cmd
  BY DEF ApplyCommand
<1>14. e \in Entry /\ e.cmd = q.cmd
  BY <1>1, <1>2 DEF Entry, Term, QueuedCommand
<1> HIDE DEF s, t, nd1, nt2, q, e
<1>15. CASE r.state = "LEADER" /\ ~Denied(r, n, q.cmd)
  <2>1. s.log = Append(t.log, e) /\ s.done = t.done /\ s.queue = t.queue
    <3> DEFINE c == IF q.cmd \in Change THEN DoChangeCluster(r, n, q.cmd, FALSE) ELSE r
               w == {[idx |-> Len(r.log) + 1, term |-> r.term, cmd |-> k] : k \in Callback(q)}
    <3>1. c \in Reconfigured(n, r)
      <4>1. r \in Reconfigured(n, r)
        BY <1>1 DEF Reconfigured
      <4> QED BY <1>1, <4>1, DoChangeClusterType
    <3>2. c \in Fields /\ c.log = r.log /\ c.done = r.done
      BY <3>1 DEF Reconfigured
    <3>3. Accept(r, n, q) = [c EXCEPT !.log = Append(@, e), !.waits = @ \union w]
      BY <1>15 DEF Accept, e
    <3> HIDE DEF c, w
    <3>4. s.log = Append(c.log, e) /\ s.done = c.done /\ s.queue = Tail(r.queue)
      BY <1>12, <1>15, <3>2, <3>3 DEF Fields
    <3> QED BY <1>3, <3>2, <3>4
  <2>2. PICK at2 : /\ Placing(Put(nd1, n, s), nt, un, at2)
                   /\ SameButFor(e.cmd, at, at2)
    BY <1>5, <1>7, <1>8, <1>14, <2>1, LoggedPlacing
  <2>3. \A m \in to : out[m] \in Seq(Message) /\ Quiet(out[m], at2)
    BY <1>9, <1>11, <1>15
  <2>4. Placing(Put(nd, n, s), nt2, un, at2)
    BY <1>5, <1>8, <2>2, <2>3, SentPlacing DEF nt2
  <2>5. Onward(n, r.others, at, at2)
    <3>1. \A c \in Change : c \in Submittable /\ (at2[c] # at[c] => c = q.cmd)
      BY <1>14, <2>2 DEF Submittable, SameButFor
    <3>2. at[q.cmd] = 0
      BY <1>7 DEF Loose
    <3>3. q.cmd \in Change => q.cmd.node # n /\ ~(q.cmd.op = "add" <=> q.cmd.node \in r.others)
      BY <1>15 DEF Denied, MayChange, Refused
    <3> QED BY <3>1, <3>2, <3>3 DEF Onward
  <2> QED BY <2>4, <2>5 DEF s, nt2
<1>16. CASE r.state = "LEADER" /\ Denied(r, n, q.cmd)
  <2>1. Idle(t, s)
    <3>1. s = [Call(r, Callback(q), "REQUEST_DENIED") EXCEPT !.queue = Tail(r.queue)]
      BY <1>12, <1>16 DEF Accept
    <3> QED BY <1>1, <1>3, <3>1 DEF Call, Idle, Fields
  <2>2. Indexed(s, at) /\ Short(s.queue, nd1[n].queue)
    <3>1. Short(t.queue, t.queue)
      BY <1>2, <1>3, SameShort DEF Queue
    <3> QED BY <1>5, <1>6, <2>1, <3>1, IdleIndexed DEF Idle
  <2>3. Placing(Put(nd1, n, s), nt, un, at)
    BY <1>7, <1>8, <2>2, PutPlacing
  <2>4. \A m \in to : out[m] \in Seq(Message) /\ Quiet(out[m], at)
    BY <1>9, <1>11, <1>16
  <2>5. Placing(Put(nd, n, s), nt2, un, at)
    BY <1>5, <1>8, <2>3, <2>4, SentPlacing DEF nt2
  <2> QED BY <2>5 DEF s, nt2, Onward
<1>17. CASE r.state # "LEADER"
  <2>1. Idle(t, s)
    <3>1. s = [Forward(r, q) EXCEPT !.queue = Tail(r.queue)]
      BY <1>12, <1>17
    <3>2. Idle(r, Forward(r, q)) /\ Forward(r, q) \in Fields
      BY <1>1, <1>2, IdleOperators, ForwardType DEF Wellformed
    <3> DEFINE f == Forward(r, q)
    <3>3. s = [f EXCEPT !.queue = Tail(r.queue)] /\ Idle(r, f) /\ f \in Fields
      BY <3>1, <3>2
    <3> HIDE DEF f
    <3> QED BY <1>3, <3>3 DEF Idle, Fields
  <2>2. Indexed(s, at) /\ Short(s.queue, nd1[n].queue)
    <3>1. Short(t.queue, t.queue)
      BY <1>2, <1>3, SameShort DEF Queue
    <3> QED BY <1>5, <1>6, <2>1, <3>1, IdleIndexed DEF Idle
  <2>3. Offers(to, out, r.leader, q.cmd, at)
    BY <1>9, <1>11, <1>13 DEF Bears, Offers
  <2>4. Placing(nd1, nt2, un, at)
    BY <1>7, <1>8, <2>3, CommandPlacing DEF nt2
  <2>5. Shaped(nd1, nt2)
    BY <1>8, <1>9, SentShaped DEF nt2
  <2>6. Placing(Put(nd1, n, s), nt2, un, at)
    BY <2>2, <2>4, <2>5, PutPlacing
  <2> QED BY <1>5, <2>6 DEF s, nt2, Onward
<1> QED BY <1>15, <1>16, <1>17

\* A pass of the raft thread.
LEMMA TickPlacing ==
  ASSUME NEW at, Shaped(node, net), Shaped(node', net'), Placing(node, net, unused, at),
         NEW n \in Node,
         NEW expired \in BOOLEAN, NEW silent \in BOOLEAN, NEW due \in BOOLEAN, NEW takes \in BOOLEAN,
         MayFind(n, expired, silent, due), takes => node[n].queue # << >>,
         NEW up, Tick(n, expired, silent, due, takes, up)
  PROVE  \E at2 : Placing(node', net', unused, at2) /\ Onward(n, node[n].others, at, at2)
<1> DEFINE elected == IF expired THEN StartElection(node[n], n) ELSE node[n]
           committed == IF elected.state = "LEADER" THEN AdvanceCommit(elected, n) ELSE elected
           fallen == IF silent THEN FallBack(committed) ELSE committed
           ready == Apply(fallen)
           sent == IF due THEN AfterSending(ready, up) ELSE ready
           r == IF takes THEN CheckCommands(sent, n) ELSE sent
           a == [m \in Peers(n) |-> IF expired THEN <<RequestVote(elected)>> ELSE << >>]
           b == [m \in Peers(n) |-> IF due THEN <<AppendEntries(ready, m)>> ELSE << >>]
           c == [m \in Peers(n) |-> IF takes THEN Messages(sent, n, m) ELSE << >>]
           ab == [m \in Peers(n) |-> a[m] \o b[m]]
           out == [m \in Peers(n) |->
                     (IF expired THEN <<RequestVote(elected)>> ELSE << >>)
                     \o (IF due THEN <<AppendEntries(ready, m)>> ELSE << >>)
                     \o (IF takes THEN Messages(sent, n, m) ELSE << >>)]
<1>0. Wellformed(n, node[n]) /\ Indexed(node[n], at)
  BY DEF Shaped, Placing
<1>1. Step(n, r, << >>, out, up)
  BY DEF Tick
<1>2. \A m \in Peers(n) : out[m] = ab[m] \o c[m] /\ ab[m] = a[m] \o b[m]
  OBVIOUS
<1> HIDE DEF out, ab
<1>3. /\ node' = Put(node, n, r)
      /\ \E nt1, to : /\ to \in SUBSET Peers(n) /\ Reach(node', n, to)
                      /\ Fewer(nt1, net)
                      /\ net' = SentAll(nt1, n, to, out)
  <2> HIDE DEF r
  <2>1. \A k \in DOMAIN << >> : k \in Link /\ k[1] # n /\ Shorter((<< >>)[k], net[k])
    <3>1. DOMAIN << >> = {}
      BY EmptySeq
    <3> QED BY <3>1
  <2> DEFINE in == << >>
  <2>2. Step(n, r, in, out, up)
    BY <1>1
  <2> HIDE DEF in
  <2>3. \A k \in DOMAIN in : k \in Link /\ k[1] # n /\ Shorter(in[k], net[k])
    BY <2>1 DEF in
  <2> QED BY <2>2, <2>3, StepParts
<1>4. PICK nt1, to : /\ to \in SUBSET Peers(n)
                     /\ Fewer(nt1, net)
                     /\ net' = SentAll(nt1, n, to, out)
  BY <1>3
<1> DEFINE net1 == SentAll(nt1, n, to, a)
           net2 == SentAll(net1, n, to, b)
           net3 == SentAll(net2, n, to, c)
<1>5. Shaped(node, nt1) /\ Placing(node, nt1, unused, at)
  BY <1>4, FewerParts, FewerPlacing
<1>6. \A s, t : Put(Put(node, n, s), n, t) = Put(node, n, t)
  BY DEF Put, Shaped
<1>7. \A k \in to : k \in Node /\ k \in Peers(n)
  BY <1>4 DEF Peers
\* What becomes of the node.
<1>8. /\ Wellformed(n, elected) /\ Indexed(elected, at) /\ elected.queue = node[n].queue
      /\ elected.others = node[n].others
  <2>1. CASE expired
    <3>1. node[n].term < MaxTerm
      BY <2>1 DEF MayFind
    <3>2. PICK t : /\ Wellformed(n, t) /\ t.others = node[n].others
                   /\ StartElection(node[n], n) = IF Majority(t, 1) THEN BecomeLeader(t, n) ELSE t
      BY <1>0, <3>1, StartElectionType
    <3>3. Wellformed(n, BecomeLeader(t, n)) /\ BecomeLeader(t, n).others = t.others
      BY <3>2, BecomeLeaderType
    <3>4. Indexed(StartElection(node[n], n), at) /\ StartElection(node[n], n).queue = node[n].queue
      BY <1>0, <3>1, ElectionIndexed
    <3> QED BY <2>1, <3>2, <3>3, <3>4
  <2>2. CASE ~expired
    BY <1>0, <2>2
  <2> QED BY <2>1, <2>2
<1>o. a = [m \in Peers(n) |-> IF expired THEN <<RequestVote(elected)>> ELSE << >>]
  OBVIOUS
<1> HIDE DEF elected
<1>9. /\ Wellformed(n, ready) /\ Indexed(ready, at) /\ ready.queue = elected.queue
      /\ ready.others = elected.others
  <2>1. Wellformed(n, committed) /\ Idle(elected, committed) /\ committed.others = elected.others
    <3>1. Idle(elected, elected)
      BY DEF Idle
    <3> QED BY <1>8, <3>1, IdleOperators, AdvanceCommitType DEF Alike
  <2>a. Indexed(committed, at) /\ committed.queue = elected.queue
    BY <1>8, <2>1, IdleIndexed DEF Idle
  <2> HIDE DEF committed
  <2>2. Wellformed(n, fallen) /\ Idle(committed, fallen) /\ fallen.others = committed.others
    <3>1. Idle(committed, committed)
      BY DEF Idle
    <3> QED BY <2>1, <3>1, IdleOperators, FallBackType
  <2>b. Indexed(fallen, at) /\ fallen.queue = elected.queue
    BY <2>2, <2>a, IdleIndexed DEF Idle
  <2> HIDE DEF fallen
  <2> QED BY <2>1, <2>2, <2>b, ApplyIndexed, ApplyType DEF Alike
<1> HIDE DEF ready
<1>10. Wellformed(n, sent) /\ Indexed(sent, at) /\ sent.queue = ready.queue /\ sent.others = ready.others
  <2>1. Idle(ready, ready)
    BY DEF Idle
  <2>2. Idle(ready, sent)
    BY <1>9, <2>1, IdleOperators
  <2>3. Wellformed(n, sent) /\ sent.others = ready.others
    BY <1>9, AfterSendingType, SMTT(30) DEF Alike
  <2> HIDE DEF sent
  <2> QED BY <1>9, <2>2, <2>3, IdleIndexed DEF Idle
<1> HIDE DEF sent
\* What it sends.
<1>11. ASSUME NEW m \in to
       PROVE  /\ a[m] \in Seq(Message) /\ Quiet(a[m], at)
              /\ b[m] \in Seq(Message) /\ Quiet(b[m], at)
              /\ c[m] \in Seq(Message)
  <2>1. m \in Node /\ m \in Peers(n)
    BY <1>7
  <2>2. \A q \in Message : <<q>> \in Seq(Message)
    OBVIOUS
  <2>3. << >> \in Seq(Message) /\ Quiet(<< >>, at)
    BY QuietMessages
  <2>4. <<RequestVote(elected)>> \in Seq(Message) /\ Quiet(<<RequestVote(elected)>>, at)
    <3>1. RequestVote(elected) \in RequestVotes
      BY <1>8, RequestVoteType
    <3> DEFINE q == RequestVote(elected)
    <3> HIDE DEF q
    <3>2. q \in RequestVotes
      BY <3>1 DEF q
    <3>3. <<q>> \in Seq(Message) /\ Quiet(<<q>>, at)
      BY <3>2, QuietMessages
    <3> QED BY <3>3 DEF q
  <2>5. <<AppendEntries(ready, m)>> \in Seq(Message) /\ Quiet(<<AppendEntries(ready, m)>>, at)
    <3>1. AppendEntries(ready, m) \in Message
      BY <1>9, <2>1, AppendEntriesType DEF Message
    <3> QED BY <1>9, <2>1, <2>2, <3>1, AppendEntriesBrings
  <2>6. takes => Messages(sent, n, m) \in Seq(Message)
    <3> SUFFICES ASSUME takes
                 PROVE  Messages(sent, n, m) \in Seq(Message)
      OBVIOUS
    <3> DEFINE s == Messages(sent, n, m)
    <3>1. sent.queue # << >>
      BY <1>8, <1>9, <1>10
    <3>2. s = << >> \/ \E q \in Forwarded \union Responses : s = <<q>>
      BY <1>10, <2>1, <3>1, MessagesType
    <3> HIDE DEF s
    <3>3. s \in Seq(Message)
      BY <2>2, <2>3, <3>2 DEF Message
    <3> QED BY <3>3 DEF s
  <2> QED BY <1>o, <2>1, <2>3, <2>4, <2>5, <2>6
<1>c. \A m \in to : c[m] = IF takes THEN Messages(sent, n, m) ELSE << >>
  BY <1>7
<1> HIDE DEF a, b, c
<1>12. Shaped(node, net1) /\ Shaped(node, net2)
  <2>1. Shaped(node, net1)
    BY <1>4, <1>5, <1>11, SentShaped
  <2> HIDE DEF net1
  <2> QED BY <1>4, <1>11, <2>1, SentShaped
<1>13. Placing(node, net1, unused, at)
  BY <1>4, <1>5, <1>11, SentPlacing
<1>14. Placing(node, net2, unused, at)
  <2> HIDE DEF net1
  <2> QED BY <1>4, <1>11, <1>12, <1>13, SentPlacing
<1>15. net' = net3
  <2>1. nt1 \in [Link -> Seq(Message)]
    BY <1>5 DEF Shaped
  <2>2. \A m \in to : out[m] = ab[m] \o c[m] /\ ab[m] = a[m] \o b[m]
    BY <1>2, <1>7
  <2>3. \A m \in to : ab[m] \in Seq(Message)
    BY <1>11, <2>2, ConcatProperties
  <2>4. SentAll(nt1, n, to, out) = SentAll(SentAll(nt1, n, to, ab), n, to, c)
    <3>1. Rounds(to, out, ab, c)
      BY <1>11, <2>2, <2>3 DEF Rounds
    <3> QED BY <2>1, <3>1, SentFirst
  <2>5. SentAll(nt1, n, to, ab) = SentAll(SentAll(nt1, n, to, a), n, to, b)
    <3>1. Rounds(to, ab, a, b)
      BY <1>11, <2>2 DEF Rounds
    <3> QED BY <2>1, <3>1, SentFirst
  <2> QED BY <1>4, <2>4, <2>5
<1> HIDE DEF net1, net2
<1>16. Placing(Put(node, n, sent), net2, unused, at) /\ Shaped(Put(node, n, sent), net2)
       /\ Put(node, n, sent)[n] = sent
  <2>1. Short(sent.queue, node[n].queue)
    <3>1. node[n].queue \in Seq(QueuedCommand)
      BY QueueShort
    <3>2. Short(node[n].queue, node[n].queue)
      BY <3>1, SameShort
    <3> QED BY <1>8, <1>9, <1>10, <3>2
  <2> QED BY <1>10, <1>12, <1>14, <2>1, PutPlacing, ShapedPut
<1>17. CASE takes
  <2> DEFINE nd == Put(node, n, sent)
  <2>1. nd[n] = sent /\ nd[n].queue # << >> /\ Put(nd, n, CheckCommands(sent, n)) = Put(node, n, r)
    BY <1>6, <1>8, <1>9, <1>10, <1>16, <1>17
  <2>2. Placing(nd, net2, unused, at) /\ Shaped(nd, net2)
    BY <1>16
  <2> HIDE DEF nd, r
  <2>3. \A m \in to : c[m] = Messages(nd[n], n, m)
    BY <1>c, <1>17, <2>1
  <2>4. \E at2 : /\ Placing(Put(nd, n, CheckCommands(nd[n], n)), net3, unused, at2)
                 /\ Onward(n, nd[n].others, at, at2)
    BY <1>4, <2>1, <2>2, <2>3, CheckCommandsPlacing
  <2>5. nd[n].others = node[n].others
    BY <1>8, <1>9, <1>10, <2>1
  <2> QED BY <1>3, <1>15, <2>1, <2>4, <2>5
<1>18. CASE ~takes
  <2>1. net3 = net2
    <3>1. \A m \in to : c[m] = << >>
      BY <1>c, <1>18
    <3>2. net2 \in [Link -> Seq(Message)]
      BY <1>12 DEF Shaped
    <3> QED BY <3>1, <3>2, SentNothing
  <2>2. Onward(n, node[n].others, at, at)
    BY DEF Onward
  <2> QED BY <1>3, <1>15, <1>16, <1>18, <2>1, <2>2
<1> QED BY <1>17, <1>18

\* The first state: every command is unused.
LEMMA InitPlacing ==
  Init => \E at : Placing(node, net, unused, at) /\ \A X \in Submittable : at[X] = 0
<1> SUFFICES ASSUME Init
             PROVE  \E at : Placing(node, net, unused, at) /\ \A X \in Submittable : at[X] = 0
  OBVIOUS
<1> DEFINE at == [X \in Submittable |-> 0]
<1>1. /\ at \in [Submittable -> Nat] /\ \A X \in Submittable : at[X] = 0
      /\ DOMAIN << >> = {} /\ Under(<< >>) = {}
  BY EmptySeq DEF Under
<1>2. ASSUME NEW n \in Node
      PROVE  Indexed(node[n], at) /\ node[n].queue = << >>
  <2>1. /\ node[n].log = <<[cmd |-> NoOp, term |-> 0]>> /\ node[n].done = << >>
        /\ node[n].queue = << >>
    BY DEF Init, NewNode
  <2>2. \A i \in DOMAIN node[n].log : node[n].log[i].cmd \notin Submittable
    <3> DEFINE e == [cmd |-> NoOp, term |-> 0]
    <3>1. e.cmd \notin Submittable /\ node[n].log = <<e>>
      BY <2>1, RaftAssumption DEF Submittable
    <3> HIDE DEF e
    <3>2. \A i \in DOMAIN <<e>> : <<e>>[i] = e
      OBVIOUS
    <3> QED BY <3>1, <3>2
  <2>3. DOMAIN node[n].done = {}
    BY <1>1, <2>1
  <2> HIDE DEF at
  <2> QED BY <2>1, <2>2, <2>3 DEF Indexed
<1>3. \A c \in Link : net[c] = << >>
  BY DEF Init
<1> HIDE DEF at
<1>4. ASSUME NEW X, NEW k, NEW w, NEW i, Pending(node, net, unused, X, k, w, i)
      PROVE  k = "unused" /\ w = Nobody /\ i = 0
  BY <1>1, <1>2, <1>3, <1>4 DEF Pending
<1>5. \A X \in Submittable : Alone(node, net, unused, at, X)
  BY <1>1, <1>4 DEF Alone
<1>6. Placing(node, net, unused, at)
  BY <1>1, <1>2, <1>3, <1>5 DEF Placing
<1> QED BY <1>1, <1>6

\* Every step.
LEMMA StepPlacing ==
  ASSUME Inv, Inv', NEW at, Placing(node, net, unused, at), [Next]_vars
  PROVE  \E at2 : /\ Placing(node', net', unused', at2)
                  /\ at2 = at \/ \E n \in Node : Onward(n, node[n].others, at, at2)
<1>1. Shaped(node, net) /\ Shaped(node', net')
  BY DEF Inv, Sound
<1>2. ASSUME NEW n \in Node,
             NEW expired \in BOOLEAN, NEW silent \in BOOLEAN, NEW due \in BOOLEAN, NEW takes \in BOOLEAN,
             MayFind(n, expired, silent, due), takes => node[n].queue # << >>,
             NEW up, Tick(n, expired, silent, due, takes, up)
      PROVE  \E at2 : Placing(node', net', unused', at2) /\ Onward(n, node[n].others, at, at2)
  <2>1. \E at2 : Placing(node', net', unused, at2) /\ Onward(n, node[n].others, at, at2)
    BY <1>1, <1>2, TickPlacing
  <2>2. unused' = unused
    BY <1>2 DEF Tick
  <2> QED BY <2>1, <2>2
<1>3. ASSUME NEW n \in Node, NEW m \in Peers(n), Receive(n, m)
      PROVE  Placing(node', net', unused', at)
  <2>1. unused' = unused /\ net[<<m, n>>] # << >>
    BY <1>3 DEF Receive
  <2> DEFINE q == Head(net[<<m, n>>])
  <2>2. \/ OnRequestVote(n, m, q)
        \/ \E up \in SUBSET node[n].others : OnResponseVote(n, m, q, up)
        \/ OnAppendEntries(n, m, q)
        \/ OnNextNodeIdx(n, m, q)
        \/ OnApplyCommand(n, m, q)
        \/ OnApplyCommandResponse(n, m, q)
    BY <1>3 DEF Receive
  <2>3. CASE OnRequestVote(n, m, q)
    BY <1>1, <2>1, <2>3, OnRequestVotePlacing
  <2>4. ASSUME NEW up, OnResponseVote(n, m, q, up)
        PROVE  Placing(node', net', unused', at)
    BY <1>1, <2>1, <2>4, OnResponseVotePlacing
  <2>5. CASE OnAppendEntries(n, m, q)
    BY <1>1, <2>1, <2>5, OnAppendEntriesPlacing
  <2>6. CASE OnNextNodeIdx(n, m, q)
    BY <1>1, <2>1, <2>6, OnNextNodeIdxPlacing
  <2>7. CASE OnApplyCommand(n, m, q)
    BY <1>1, <2>1, <2>7, OnApplyCommandPlacing
  <2>8. CASE OnApplyCommandResponse(n, m, q)
    BY <1>1, <2>1, <2>8, OnApplyCommandResponsePlacing
  <2> QED BY <2>2, <2>3, <2>4, <2>5, <2>6, <2>7, <2>8
<1>4. ASSUME NEW n \in Node, NEW cmd \in Submittable, Submit(n, cmd)
      PROVE  Placing(node', net', unused', at)
  BY <1>1, <1>4, SubmitPlacing
<1>5. ASSUME NEW n \in Node, NEW m \in Peers(n), Disconnect(m, n)
      PROVE  Placing(node', net', unused', at)
  <2>1. /\ Cut({<<m, n>>, <<n, m>>})
        /\ node' = node /\ unused' = unused
    BY <1>5 DEF Disconnect
  <2>2. Fewer(net', net)
    BY <2>1, CutFewer
  <2> QED BY <1>1, <2>1, <2>2, FewerPlacing
<1>6. ASSUME NEW n \in Node, Restart(n)
      PROVE  Placing(node', net', unused', at)
  BY <1>1, <1>6, RestartPlacing
<1>7. CASE UNCHANGED vars
  BY <1>7 DEF vars
<1> QED
  <2>1. CASE Next
    BY <1>2, <1>3, <1>4, <1>5, <1>6, <2>1 DEF Next
  <2> QED BY <1>7, <2>1

\* Each step keeps the indexes, or fixes one more.
LEMMA NextPlacing ==
  Inv /\ Inv' /\ (\E at : Placing(node, net, unused, at)) /\ [Next]_vars
      => (\E at : Placing(node, net, unused, at))'
BY StepPlacing

\* A command is applied at most once by every node, whatever nodes join, leave
\* and restart: nothing sends or queues it twice on its way to the leader, and
\* once it is appended to a log no log has it anywhere else.
THEOREM CommandsAppliedOnce == Spec => []AppliedOnce
<1> DEFINE P == \E at : Placing(node, net, unused, at)
<1>1. Init => Inv /\ P
  BY InitInv, InitPlacing
<1>2. Inv /\ P /\ [Next]_vars => Inv' /\ P'
  BY NextInv, NextPlacing
<1>3. Inv /\ P => AppliedOnce
  <2> SUFFICES ASSUME Inv, NEW at, Placing(node, net, unused, at), NEW n \in Node,
                      NEW i \in DOMAIN node[n].done, NEW j \in DOMAIN node[n].done,
                      node[n].done[i].cmd = node[n].done[j].cmd,
                      node[n].done[i].cmd \in Submittable
               PROVE  i = j
    BY DEF AppliedOnce
  <2>1. at[node[n].done[i].cmd] = i + 1 /\ at[node[n].done[j].cmd] = j + 1
    BY DEF Placing, Indexed
  <2>2. node[n].done \in Log
    BY DEF Inv, Sound, Shaped, Wellformed, Fields
  <2>3. i \in Int /\ j \in Int
    BY <2>2 DEF Log
  <2> QED BY <2>1, <2>3
<1> HIDE DEF P
<1> QED BY <1>1, <1>2, <1>3, PTL DEF Spec

-----------------------------------------------------------------------------
(***************************************************************************)
(* Where a callback is.  It never leaves the node that submitted its       *)
(* command: there it is in the queue, waits for an answer, waits for an    *)
(* index, or has been called.                                              *)
(***************************************************************************)
Holds(r, X, k, v) ==
    \/ k = "queue" /\ v \in DOMAIN r.queue /\ HasCallback(r.queue[v]) /\ r.queue[v].cmd = X
    \/ k = "reply" /\ v \in r.reply /\ v.cmd = X
    \/ k = "waits" /\ v \in r.waits /\ v.cmd = X
    \/ k = "called" /\ v \in r.called /\ v.cmd = X

Has(r, X) == \E k, v : Holds(r, X, k, v)

\* r holds the callback of X once at most.
Single(r, X) ==
    \A k, v, k2, v2 : Holds(r, X, k, v) /\ Holds(r, X, k2, v2) => k = k2 /\ v = v2

\* Requests that wait for answers have different ids.
Numbered(r) ==
    /\ \A c \in r.reply : c.id <= r.counter
    /\ \A c, d \in r.reply : c.id = d.id => c = d

\* From r to s no callback comes up or is doubled, and none gets lost.
Passes(r, s) ==
    /\ \A X \in Watched : (Has(s, X) => Has(r, X)) /\ (Single(r, X) => Single(s, X))
    /\ Numbered(r) => Numbered(s)

Keeps(r, s) == \A X \in Watched : Has(r, X) => Has(s, X)

Hands(r, s) == Passes(r, s) /\ Keeps(r, s)

\* Two hand-overs are one.
LEMMA HandsOn ==
  ASSUME NEW r, NEW s, NEW t, Hands(r, s), Hands(s, t)
  PROVE  Hands(r, t)
BY DEF Hands, Passes, Keeps

\* Nothing happens to the callbacks.
Still(r, s) ==
    /\ s.queue = r.queue /\ s.counter = r.counter
    /\ s.reply = r.reply /\ s.waits = r.waits /\ s.called = r.called

\* Where nothing happens to the callbacks, they are handed over.
LEMMA StillHands ==
  ASSUME NEW r, NEW s, Still(r, s)
  PROVE  Hands(r, s)
<1>1. \A X, k, v : Holds(s, X, k, v) <=> Holds(r, X, k, v)
  BY DEF Still, Holds
<1>2. Numbered(r) => Numbered(s)
  BY DEF Still, Numbered
<1> QED BY <1>1, <1>2 DEF Hands, Passes, Keeps, Has, Single

\* The operators that have nothing to do with callbacks.
LEMMA StillOperators ==
  ASSUME NEW n \in Node, NEW r, Wellformed(n, r)
  PROVE  /\ Still(r, BecomeLeader(r, n))
         /\ Still(r, AdvanceCommit(r, n))
         /\ Still(r, FallBack(r))
         /\ \A up : Still(r, AfterSending(r, up))
         /\ \A q : Still(r, NewerTerm(r, q))
         /\ \A s \in Reconfigured(n, r) : Still(r, s)
<1>1. r \in Fields
  BY DEF Wellformed
<1>2. Still(r, BecomeLeader(r, n))
  BY <1>1 DEF Fields, BecomeLeader, Still
<1>3. Still(r, AdvanceCommit(r, n))
  BY <1>1 DEF Fields, AdvanceCommit, Still
<1>4. Still(r, FallBack(r))
  BY <1>1 DEF Fields, FallBack, Follower, Still
<1>5. \A up : Still(r, AfterSending(r, up))
  BY <1>1 DEF Fields, AfterSending, Still
<1>6. \A q : Still(r, NewerTerm(r, q))
  BY <1>1 DEF Fields, NewerTerm, Follower, Still
<1>7. ASSUME NEW s \in Reconfigured(n, r)
      PROVE  Still(r, s)
  BY DEF Reconfigured, Still
<1> QED BY <1>2, <1>3, <1>4, <1>5, <1>6, <1>7

\* The commands forwarded to the old leader have failed.
LEMMA LeaderChangedHands ==
  ASSUME NEW n \in Node, NEW r, Wellformed(n, r)
  PROVE  Hands(r, LeaderChanged(r))
<1> DEFINE s == LeaderChanged(r)
           names == {c.cmd : c \in r.reply}
           new == {[cmd |-> c, reason |-> "LEADER_CHANGED"] : c \in names}
<1>1. /\ s.queue = r.queue /\ s.waits = r.waits /\ s.reply = {}
      /\ s.called = r.called \union new
  BY DEF Wellformed, Fields, LeaderChanged, Call
<1>2. /\ \A d \in new : \E c \in r.reply : c.cmd = d.cmd
      /\ \A d, e \in new : d.cmd = e.cmd => d = e
      /\ \A c \in r.reply : \E d \in new : d.cmd = c.cmd
  <2>1. /\ \A x \in names : \E c \in r.reply : c.cmd = x
        /\ \A c \in r.reply : c.cmd \in names
    OBVIOUS
  <2> HIDE DEF names
  <2>2. \A d \in new : \E x \in names : d = [cmd |-> x, reason |-> "LEADER_CHANGED"] /\ d.cmd = x
    OBVIOUS
  <2>3. ASSUME NEW x \in names
        PROVE  \E d \in new : d.cmd = x
    <3>1. [cmd |-> x, reason |-> "LEADER_CHANGED"] \in new
      OBVIOUS
    <3>2. [cmd |-> x, reason |-> "LEADER_CHANGED"].cmd = x
      OBVIOUS
    <3> QED BY <3>1, <3>2
  <2> HIDE DEF new
  <2> QED BY <2>1, <2>2, <2>3
<1> HIDE DEF s, new
<1>3. ASSUME NEW X, NEW k, NEW v, Holds(s, X, k, v)
      PROVE  \/ k # "reply" /\ Holds(r, X, k, v)
             \/ k = "called" /\ v \in new /\ v.cmd = X /\ \E c : Holds(r, X, "reply", c)
  BY <1>1, <1>2, <1>3 DEF Holds
<1>4. ASSUME NEW X, NEW k, NEW v, Holds(r, X, k, v)
      PROVE  Has(s, X)
  <2>1. CASE k = "reply"
    <3>1. PICK d \in new : d.cmd = X
      BY <1>2, <1>4, <2>1 DEF Holds
    <3>2. Holds(s, X, "called", d)
      BY <1>1, <3>1 DEF Holds
    <3> QED BY <3>2 DEF Has
  <2>2. CASE k # "reply"
    <3>1. Holds(s, X, k, v)
      BY <1>1, <1>4, <2>2 DEF Holds
    <3> QED BY <3>1 DEF Has
  <2> QED BY <2>1, <2>2
<1>5. ASSUME NEW X, Single(r, X)
      PROVE  Single(s, X)
  <2> SUFFICES ASSUME NEW k, NEW v, NEW k2, NEW v2, Holds(s, X, k, v), Holds(s, X, k2, v2)
               PROVE  k = k2 /\ v = v2
    BY DEF Single
  <2>1. \/ k # "reply" /\ Holds(r, X, k, v)
        \/ k = "called" /\ v \in new /\ v.cmd = X /\ \E c : Holds(r, X, "reply", c)
    BY <1>3
  <2>2. \/ k2 # "reply" /\ Holds(r, X, k2, v2)
        \/ k2 = "called" /\ v2 \in new /\ v2.cmd = X /\ \E c : Holds(r, X, "reply", c)
    BY <1>3
  <2> QED BY <1>2, <1>5, <2>1, <2>2 DEF Single
<1>6. Numbered(s)
  BY <1>1 DEF Numbered
<1> QED BY <1>3, <1>4, <1>5, <1>6 DEF Hands, Passes, Keeps, Has, s

\* The callbacks of what gets applied are called.
LEMMA ApplyHands ==
  ASSUME NEW n \in Node, NEW r, Wellformed(n, r)
  PROVE  Hands(r, Apply(r))
<1> DEFINE s == Apply(r)
           due == {w \in r.waits : w.idx \in Newly(r)}
           told(w) == [cmd |-> w.cmd, reason |-> Outcome(r, w)]
           new == {told(w) : w \in due}
<1>1. /\ s.queue = r.queue /\ s.counter = r.counter /\ s.reply = r.reply
      /\ s.waits = r.waits \ due /\ s.called = r.called \union new
  BY DEF Wellformed, Fields, Apply
<1>2. /\ due \subseteq r.waits
      /\ \A w \in due : told(w) \in new /\ told(w).cmd = w.cmd
      /\ \A d \in new : \E w \in due : d = told(w) /\ d.cmd = w.cmd
  OBVIOUS
<1> HIDE DEF s, due, new, told
<1>3. ASSUME NEW X, NEW k, NEW v, Holds(s, X, k, v)
      PROVE  \/ Holds(r, X, k, v) /\ ~(k = "waits" /\ v \in due)
             \/ k = "called" /\ \E w \in due : v = told(w) /\ Holds(r, X, "waits", w)
  BY <1>1, <1>2, <1>3 DEF Holds
<1>4. ASSUME NEW X, NEW k, NEW v, Holds(r, X, k, v)
      PROVE  Has(s, X)
  <2>1. CASE k = "waits" /\ v \in due
    <3>1. Holds(s, X, "called", told(v))
      BY <1>1, <1>2, <1>4, <2>1 DEF Holds
    <3> QED BY <3>1 DEF Has
  <2>2. CASE ~(k = "waits" /\ v \in due)
    <3>1. Holds(s, X, k, v)
      BY <1>1, <1>4, <2>2 DEF Holds
    <3> QED BY <3>1 DEF Has
  <2> QED BY <2>1, <2>2
<1>5. ASSUME NEW X, Single(r, X)
      PROVE  Single(s, X)
  <2> SUFFICES ASSUME NEW k, NEW v, NEW k2, NEW v2, Holds(s, X, k, v), Holds(s, X, k2, v2)
               PROVE  k = k2 /\ v = v2
    BY DEF Single
  <2>1. \/ Holds(r, X, k, v) /\ ~(k = "waits" /\ v \in due)
        \/ k = "called" /\ \E w \in due : v = told(w) /\ Holds(r, X, "waits", w)
    BY <1>3
  <2>2. \/ Holds(r, X, k2, v2) /\ ~(k2 = "waits" /\ v2 \in due)
        \/ k2 = "called" /\ \E w \in due : v2 = told(w) /\ Holds(r, X, "waits", w)
    BY <1>3
  <2> QED BY <1>5, <2>1, <2>2 DEF Single
<1>6. Numbered(r) => Numbered(s)
  BY <1>1 DEF Numbered
<1> QED BY <1>3, <1>4, <1>5, <1>6 DEF Hands, Passes, Keeps, Has, s

\* Followers, and candidates.
LEMMA FollowHands ==
  ASSUME NEW n \in Node, NEW r, Wellformed(n, r), NEW m, NEW q
  PROVE  Hands(r, Follow(r, m, q))
<1> DEFINE l == IF r.leader = m THEN r ELSE LeaderChanged(r)
<1>1. Hands(r, l) /\ l \in Fields
  <2>1. Hands(r, r) /\ r \in Fields
    BY StillHands DEF Still, Wellformed
  <2>2. Hands(r, LeaderChanged(r)) /\ LeaderChanged(r) \in Fields
    BY LeaderChangedHands, LeaderChangedType DEF Wellformed
  <2> QED BY <2>1, <2>2
<1>2. Follow(r, m, q) =
        [Follower(l) EXCEPT !.leader = m, !.term = q.term,
                            !.votedFor = IF q.term > r.term THEN Nobody ELSE @]
  BY DEF Follow
<1> HIDE DEF l
<1>3. Still(l, Follow(r, m, q))
  BY <1>1, <1>2 DEF Fields, Follower, Still
<1> QED BY <1>1, <1>3, StillHands, HandsOn

\* An election tells of a leader that is gone.
LEMMA ElectionHands ==
  ASSUME NEW n \in Node, NEW r, Wellformed(n, r), r.term < MaxTerm
  PROVE  Hands(r, StartElection(r, n))
<1> DEFINE l == LeaderChanged(r)
           c == [l EXCEPT !.state = "CANDIDATE", !.leader = Nobody,
                          !.term = @ + 1, !.votedFor = n, !.votes = 1]
<1>1. Hands(r, l) /\ l \in Fields
  BY LeaderChangedHands, LeaderChangedType DEF Wellformed
<1>2. StartElection(r, n) = IF Majority(r, 1) THEN BecomeLeader(c, n) ELSE c
  BY DEF StartElection
<1> HIDE DEF l
<1>3. Still(l, c) /\ Still(l, BecomeLeader(c, n))
  BY <1>1 DEF Fields, BecomeLeader, Still
<1> HIDE DEF c
<1>4. Still(l, StartElection(r, n))
  BY <1>2, <1>3
<1> QED BY <1>1, <1>4, StillHands, HandsOn

\* Appending entries undoes and redoes changes of the membership, no callback.
LEMMA AppendToHands ==
  ASSUME NEW n \in Node, NEW r, Wellformed(n, r), NEW q \in Appends, q.prevLogIdx \in DOMAIN r.log
  PROVE  Hands(r, AppendTo(r, n, q))
<1> DEFINE p == q.prevLogIdx
           e == q.entries
           s == AppendTo(r, n, q)
           log == SubSeq(r.log, 1, p) \o e
           undone == Undo(r, n, SubSeq(r.log, p + 1, Len(r.log)))
           redone == Redo(undone, n, e)
<1>1. /\ p \in 1 .. Len(r.log) /\ Len(r.log) \in Nat /\ r.log \in Seq(Entry) /\ e \in Seq(Entry)
  BY WellformedLog, LenProperties DEF Appends, Log
<1>2. undone \in Reconfigured(n, r)
  <2>1. SubSeq(r.log, p + 1, Len(r.log)) \in Seq(Entry)
    BY <1>1, SubSeqProperties, WellformedLog
  <2> QED BY <2>1, UndoType
<1>3. redone \in Reconfigured(n, undone)
  <2> HIDE DEF undone
  <2>1. Wellformed(n, undone)
    BY <1>2 DEF Reconfigured
  <2> QED BY <1>1, <2>1, RedoType
<1>4. s = [redone EXCEPT !.log = log, !.commit = Min({q.commit, Len(log)})]
  BY DEF AppendTo
<1> HIDE DEF undone, redone, log, s
<1>5. Wellformed(n, undone) /\ redone \in Fields
  BY <1>2, <1>3 DEF Reconfigured
<1>6. Still(r, undone) /\ Still(undone, redone)
  BY <1>2, <1>3, <1>5, StillOperators
<1>7. Still(redone, s)
  BY <1>4, <1>5 DEF Fields, Still
<1>8. Still(r, s)
  BY <1>6, <1>7 DEF Still
<1> QED BY <1>8, StillHands DEF s

\* s has T in addition to what r has in place j.
Gains(r, s, j, T) ==
    /\ s.reply = IF j = "reply" THEN r.reply \union T ELSE r.reply
    /\ s.waits = IF j = "waits" THEN r.waits \union T ELSE r.waits
    /\ s.called = IF j = "called" THEN r.called \union T ELSE r.called

Noted(q, e) == IF HasCallback(q) THEN {e} ELSE {}

\* The callback of the first command in the queue goes to place j, as e.
LEMMA HeadHands ==
  ASSUME NEW r, NEW s, r.queue \in Seq(QueuedCommand), r.queue # << >>, s.queue = Tail(r.queue),
         NEW j \in {"reply", "waits", "called"}, NEW e, e.cmd = Head(r.queue).cmd,
         Gains(r, s, j, Noted(Head(r.queue), e)), Numbered(r) => Numbered(s)
  PROVE  Hands(r, s)
<1> DEFINE q == Head(r.queue)
<1>1. /\ DOMAIN s.queue \subseteq Int /\ 1 \in DOMAIN r.queue /\ r.queue[1] = q
      /\ \A i \in DOMAIN s.queue : i + 1 \in DOMAIN r.queue /\ i + 1 # 1 /\ s.queue[i] = r.queue[i + 1]
      /\ \A i \in DOMAIN r.queue : i = 1 \/ (i - 1 \in DOMAIN s.queue /\ s.queue[i - 1] = r.queue[i])
  <2> DEFINE t == r.queue
  <2>1. t \in Seq(QueuedCommand) /\ t # << >> /\ s.queue = Tail(t) /\ q = t[1]
    OBVIOUS
  <2> HIDE DEF t, q
  <2>2. /\ Len(t) \in Nat /\ Len(t) >= 1 /\ DOMAIN t = 1 .. Len(t)
        /\ Tail(t) \in Seq(QueuedCommand) /\ Len(Tail(t)) = Len(t) - 1
        /\ DOMAIN Tail(t) = 1 .. Len(t) - 1
        /\ \A i \in 1 .. Len(t) - 1 : Tail(t)[i] = t[i + 1]
    BY <2>1, HeadTailProperties, LenProperties, EmptySeq
  <2>3. \A i \in 1 .. Len(t) : i # 1 => i - 1 \in 1 .. Len(t) - 1 /\ (i - 1) + 1 = i
    BY <2>2
  <2> QED BY <2>1, <2>2, <2>3 DEF t
<1>2. \A d \in Noted(q, e) : HasCallback(q) /\ d = e
  BY DEF Noted
<1>3. HasCallback(q) => e \in Noted(q, e)
  BY DEF Noted
<1>4. Gains(r, s, j, Noted(q, e)) /\ e.cmd = q.cmd
  OBVIOUS
<1> HIDE DEF q
<1>5. ASSUME NEW X, NEW k, NEW v, Holds(s, X, k, v)
      PROVE  \/ k = "queue" /\ v \in Int /\ v + 1 # 1 /\ Holds(r, X, "queue", v + 1)
             \/ k # "queue" /\ Holds(r, X, k, v)
             \/ k = j /\ v = e /\ Holds(r, X, "queue", 1)
  <2>1. CASE k = "queue"
    BY <1>1, <1>5, <2>1 DEF Holds
  <2>2. CASE k # "queue"
    BY <1>1, <1>2, <1>4, <1>5, <2>2 DEF Holds, Gains
  <2> QED BY <2>1, <2>2
<1>6. ASSUME NEW X, NEW k, NEW v, Holds(r, X, k, v)
      PROVE  Has(s, X)
  <2>1. CASE k = "queue" /\ v = 1
    <3>1. HasCallback(q) /\ e.cmd = X
      BY <1>1, <1>4, <1>6, <2>1 DEF Holds
    <3>2. Holds(s, X, j, e)
      BY <1>3, <1>4, <3>1 DEF Holds, Gains
    <3> QED BY <3>2 DEF Has
  <2>2. CASE k = "queue" /\ v # 1
    <3>1. Holds(s, X, "queue", v - 1)
      BY <1>1, <1>6, <2>2 DEF Holds
    <3> QED BY <3>1 DEF Has
  <2>3. CASE k # "queue"
    <3>1. Holds(s, X, k, v)
      BY <1>4, <1>6, <2>3 DEF Holds, Gains
    <3> QED BY <3>1 DEF Has
  <2> QED BY <2>1, <2>2, <2>3
<1>7. ASSUME NEW X, Single(r, X)
      PROVE  Single(s, X)
  <2> SUFFICES ASSUME NEW k, NEW v, NEW k2, NEW v2, Holds(s, X, k, v), Holds(s, X, k2, v2)
               PROVE  k = k2 /\ v = v2
    BY DEF Single
  <2>1. \/ k = "queue" /\ v \in Int /\ v + 1 # 1 /\ Holds(r, X, "queue", v + 1)
        \/ k # "queue" /\ Holds(r, X, k, v)
        \/ k = j /\ v = e /\ Holds(r, X, "queue", 1)
    BY <1>5
  <2>2. \/ k2 = "queue" /\ v2 \in Int /\ v2 + 1 # 1 /\ Holds(r, X, "queue", v2 + 1)
        \/ k2 # "queue" /\ Holds(r, X, k2, v2)
        \/ k2 = j /\ v2 = e /\ Holds(r, X, "queue", 1)
    BY <1>5
  <2>3. \A k3, v3, k4, v4 : Holds(r, X, k3, v3) /\ Holds(r, X, k4, v4) => k3 = k4 /\ v3 = v4
    BY <1>7 DEF Single
  <2>4. CASE k = "queue" /\ k2 = "queue"
    <3>1. v \in Int /\ v2 \in Int /\ v + 1 = v2 + 1
      BY <2>1, <2>2, <2>3, <2>4
    <3> QED BY <2>4, <3>1
  <2>5. CASE ~(k = "queue" /\ k2 = "queue")
    BY <2>1, <2>2, <2>3, <2>5, Zenon
  <2> QED BY <2>4, <2>5
<1> QED BY <1>5, <1>6, <1>7 DEF Hands, Passes, Keeps, Has

\* A command is taken from the queue.
LEMMA CheckCommandsHands ==
  ASSUME NEW n \in Node, NEW r, Wellformed(n, r), r.queue # << >>
  PROVE  Hands(r, CheckCommands(r, n))
<1> DEFINE q == Head(r.queue)
           s == CheckCommands(r, n)
<1>1. r \in Fields /\ r.queue \in Seq(QueuedCommand) /\ q \in QueuedCommand
  BY QueueType DEF Wellformed, Fields, Queue, QueuedCommand
<1>2. s = [IF r.state = "LEADER" THEN Accept(r, n, q) ELSE Forward(r, q) EXCEPT !.queue = Tail(r.queue)]
  BY DEF CheckCommands
<1>3. q = Head(r.queue)
  OBVIOUS
<1> HIDE DEF q, s
<1>4. CASE r.state = "LEADER" /\ ~Denied(r, n, q.cmd)
  <2> DEFINE c == IF q.cmd \in Change THEN DoChangeCluster(r, n, q.cmd, FALSE) ELSE r
             w(x) == [idx |-> Len(r.log) + 1, term |-> r.term, cmd |-> x]
             W == {w(x) : x \in Callback(q)}
  <2>1. c \in Reconfigured(n, r)
    <3>1. r \in Reconfigured(n, r)
      BY <1>1 DEF Reconfigured
    <3> QED BY <3>1, DoChangeClusterType
  <2>2. c \in Fields /\ Still(r, c)
    BY <2>1, StillOperators DEF Reconfigured
  <2>3. Accept(r, n, q) =
          [c EXCEPT !.log = Append(@, [cmd |-> q.cmd, term |-> r.term]), !.waits = @ \union W]
    BY <1>4 DEF Accept
  <2>4. W = Noted(q, w(q.cmd)) /\ w(q.cmd).cmd = q.cmd
    BY DEF Callback, Noted
  <2> HIDE DEF c, W, w
  <2>5. /\ s.queue = Tail(r.queue) /\ s.reply = r.reply /\ s.counter = r.counter
        /\ s.waits = r.waits \union W /\ s.called = r.called
    BY <1>2, <1>4, <2>2, <2>3 DEF Fields, Still
  <2>6. Gains(r, s, "waits", Noted(q, w(q.cmd))) /\ (Numbered(r) => Numbered(s))
    BY <2>4, <2>5 DEF Gains, Numbered
  <2>7. Hands(r, s)
    BY <1>1, <1>3, <2>4, <2>5, <2>6, HeadHands
  <2> QED BY <2>7 DEF s
<1>5. CASE r.state = "LEADER" /\ Denied(r, n, q.cmd)
  <2> DEFINE d(x) == [cmd |-> x, reason |-> "REQUEST_DENIED"]
             D == {d(x) : x \in Callback(q)}
  <2>1. s = [Call(r, Callback(q), "REQUEST_DENIED") EXCEPT !.queue = Tail(r.queue)]
    BY <1>2, <1>5 DEF Accept
  <2>2. D = Noted(q, d(q.cmd)) /\ d(q.cmd).cmd = q.cmd
    BY DEF Callback, Noted
  <2>3. /\ s.queue = Tail(r.queue) /\ s.reply = r.reply /\ s.counter = r.counter
        /\ s.waits = r.waits /\ s.called = r.called \union D
    BY <1>1, <2>1 DEF Fields, Call
  <2> HIDE DEF D, d
  <2>4. Gains(r, s, "called", Noted(q, d(q.cmd))) /\ (Numbered(r) => Numbered(s))
    BY <2>2, <2>3 DEF Gains, Numbered
  <2>5. Hands(r, s)
    BY <1>1, <1>3, <2>2, <2>3, <2>4, HeadHands
  <2> QED BY <2>5 DEF s
<1>6. CASE r.state # "LEADER"
  <2> DEFINE e == [id |-> r.counter + 1, cmd |-> q.cmd]
  <2>1. s = [Forward(r, q) EXCEPT !.queue = Tail(r.queue)]
    BY <1>2, <1>6
  <2>2. e.cmd = q.cmd /\ e.id = r.counter + 1
    OBVIOUS
  <2>3. /\ s.queue = Tail(r.queue) /\ s.waits = r.waits /\ s.called = r.called
        /\ s.reply = r.reply \union Noted(q, e)
        /\ s.counter = IF HasCallback(q) THEN r.counter + 1 ELSE r.counter
    BY <1>1, <2>1 DEF Fields, Forward, Noted
  <2> HIDE DEF e
  <2>4. Gains(r, s, "reply", Noted(q, e))
    BY <2>3 DEF Gains
  <2>5. Numbered(r) => Numbered(s)
    <3> SUFFICES ASSUME Numbered(r)
                 PROVE  Numbered(s)
      OBVIOUS
    <3>1. r.counter \in Nat /\ r.reply \in Replies
      BY <1>1 DEF Fields
    <3>2. \A c \in r.reply : c.id \in Nat /\ c.id <= r.counter
      BY <3>1 DEF Numbered, Replies
    <3>3. \A c \in s.reply : c \in r.reply \/ (HasCallback(q) /\ c = e)
      BY <2>3 DEF Noted
    <3>4. s.counter >= r.counter /\ s.counter \in Nat /\ (HasCallback(q) => s.counter = r.counter + 1)
      BY <2>3, <3>1
    <3>5. \A c \in s.reply : c.id <= s.counter
      BY <2>2, <3>1, <3>2, <3>3, <3>4
    <3>6. ASSUME NEW c \in s.reply, NEW d \in s.reply, c.id = d.id
          PROVE  c = d
      <4>1. c \in r.reply => c.id # r.counter + 1
        BY <3>1, <3>2
      <4>2. d \in r.reply => d.id # r.counter + 1
        BY <3>1, <3>2
      <4> QED BY <2>2, <3>3, <3>6, <4>1, <4>2 DEF Numbered
    <3> QED BY <3>5, <3>6 DEF Numbered
  <2>6. Hands(r, s)
    BY <1>1, <1>3, <2>2, <2>3, <2>4, <2>5, HeadHands
  <2> QED BY <2>6 DEF s
<1> QED BY <1>4, <1>5, <1>6

\* The command c joins the queue, or its callback is called at once.
LEMMA EnqueueHolds ==
  ASSUME NEW n \in Node, NEW r, Wellformed(n, r), NEW c \in QueuedCommand
  PROVE  LET s == Enqueue(r, c)
         IN  /\ \A X : ~(HasCallback(c) /\ X = c.cmd) =>
                          \A k, v : Holds(s, X, k, v) <=> Holds(r, X, k, v)
             /\ HasCallback(c) /\ ~Has(r, c.cmd) => Has(s, c.cmd) /\ Single(s, c.cmd)
             /\ Numbered(r) => Numbered(s)
             /\ s.state = r.state
<1> DEFINE s == Enqueue(r, c)
           d(x) == [cmd |-> x, reason |-> "QUEUE_FULL"]
           D == {d(x) : x \in Callback(c)}
<1>1. r \in Fields /\ r.queue \in Seq(QueuedCommand)
  BY DEF Wellformed, Fields, Queue, QueuedCommand
<1>2. s.state = r.state /\ s.reply = r.reply /\ s.waits = r.waits /\ s.counter = r.counter
  BY <1>1 DEF Enqueue, Call, Fields
<1>3. CASE Full(r.queue)
  <2>1. s.queue = r.queue /\ s.called = r.called \union D
    BY <1>1, <1>3 DEF Enqueue, Call, Fields
  <2>2. D = Noted(c, d(c.cmd)) /\ d(c.cmd).cmd = c.cmd
    BY DEF Callback, Noted
  <2> DEFINE e == d(c.cmd)
  <2>3. s.called = r.called \union Noted(c, e) /\ e.cmd = c.cmd
    BY <2>1, <2>2
  <2> HIDE DEF d, D, e, s
  <2>4. /\ \A x \in Noted(c, e) : HasCallback(c) /\ x = e
        /\ HasCallback(c) => e \in Noted(c, e)
    BY DEF Noted
  <2>5. \A X, k, v : Holds(s, X, k, v) =>
           Holds(r, X, k, v) \/ (HasCallback(c) /\ X = c.cmd /\ k = "called" /\ v = e)
    BY <1>2, <2>1, <2>3, <2>4 DEF Holds
  <2>6. \A X, k, v : Holds(r, X, k, v) => Holds(s, X, k, v)
    BY <1>2, <2>1, <2>3 DEF Holds
  <2>7. HasCallback(c) => Holds(s, c.cmd, "called", e)
    BY <2>3, <2>4 DEF Holds
  <2>8. HasCallback(c) /\ ~Has(r, c.cmd) => Has(s, c.cmd) /\ Single(s, c.cmd)
    BY <2>5, <2>7 DEF Has, Single
  <2>9. Numbered(r) => Numbered(s)
    BY <1>2 DEF Numbered
  <2> QED BY <1>2, <2>5, <2>6, <2>8, <2>9 DEF s
<1>4. CASE ~Full(r.queue)
  <2> DEFINE l == Len(r.queue) + 1
  <2>1. s.queue = Append(r.queue, c) /\ s.called = r.called
    BY <1>1, <1>4 DEF Enqueue, Fields
  <2>2. /\ l \in DOMAIN s.queue /\ s.queue[l] = c /\ l \notin DOMAIN r.queue
        /\ \A i \in DOMAIN s.queue : i = l \/ (i \in DOMAIN r.queue /\ s.queue[i] = r.queue[i])
        /\ \A i \in DOMAIN r.queue : i \in DOMAIN s.queue /\ s.queue[i] = r.queue[i]
    BY <1>1, <2>1, AppendProperties, LenProperties
  <2> HIDE DEF s, l
  <2>3. \A X, k, v : Holds(s, X, k, v) =>
           Holds(r, X, k, v) \/ (HasCallback(c) /\ X = c.cmd /\ k = "queue" /\ v = l)
    BY <1>2, <2>1, <2>2 DEF Holds
  <2>4. \A X, k, v : Holds(r, X, k, v) => Holds(s, X, k, v)
    BY <1>2, <2>1, <2>2 DEF Holds
  <2>5. HasCallback(c) => Holds(s, c.cmd, "queue", l)
    BY <2>2 DEF Holds
  <2>6. HasCallback(c) /\ ~Has(r, c.cmd) => Has(s, c.cmd) /\ Single(s, c.cmd)
    BY <2>3, <2>5 DEF Has, Single
  <2>7. Numbered(r) => Numbered(s)
    BY <1>2 DEF Numbered
  <2> QED BY <1>2, <2>3, <2>4, <2>6, <2>7 DEF s
<1> QED BY <1>3, <1>4

\* A node that hears what became of a command.
LEMMA AnsweredHands ==
  ASSUME NEW n \in Node, NEW r, Wellformed(n, r), Numbered(r), NEW q
  PROVE  LET asked == {c \in r.reply : c.id = q.id}
             popped == [r EXCEPT !.reply = @ \ asked]
             s == Answered(popped, CHOOSE c \in asked : TRUE, q)
         IN  asked # {} => Passes(r, s) /\ (s.state # "ENDED" => Keeps(r, s))
<1> DEFINE asked == {c \in r.reply : c.id = q.id}
           popped == [r EXCEPT !.reply = @ \ asked]
           c == CHOOSE c \in asked : TRUE
           s == Answered(popped, c, q)
           d == [cmd |-> c.cmd, reason |-> q.reason]
           w == [idx |-> q.idx, term |-> q.term, cmd |-> c.cmd]
<1> SUFFICES ASSUME asked # {}
             PROVE  Passes(r, s) /\ (s.state # "ENDED" => Keeps(r, s))
  OBVIOUS
<1>1. c \in r.reply /\ asked = {c}
  BY DEF Numbered
<1>2. /\ popped \in Fields /\ popped.queue = r.queue /\ popped.waits = r.waits
      /\ popped.called = r.called /\ popped.counter = r.counter /\ popped.reply = r.reply \ {c}
  <2>1. r \in Fields
    BY DEF Wellformed
  <2>2. r.reply \ asked \in Replies
    BY <2>1 DEF Fields, Replies
  <2>3. popped \in Fields
    <3> HIDE DEF asked
    <3> QED BY <2>1, <2>2, Zenon DEF Fields
  <2> QED BY <1>1, <2>1, <2>3 DEF Fields
<1> HIDE DEF asked, c, popped
<1>3. \E j, e, T :
         /\ j \in {"waits", "called"}
         /\ e.cmd = c.cmd /\ (T = {e} \/ (T = {} /\ s.state = "ENDED"))
         /\ s.queue = r.queue /\ s.counter = r.counter
         /\ Gains(popped, s, j, T)
  <2>1. d.cmd = c.cmd /\ w.cmd = c.cmd
    OBVIOUS
  <2>2. CASE q.reason # "SUCCESS"
    <3>1. s = [popped EXCEPT !.called = @ \union {[cmd |-> x, reason |-> q.reason] : x \in {c.cmd}}]
      BY <2>2 DEF Answered, Call
    <3>2. {[cmd |-> x, reason |-> q.reason] : x \in {c.cmd}} = {d}
      OBVIOUS
    <3> HIDE DEF s, d, w
    <3>3. Gains(popped, s, "called", {d}) /\ s.queue = r.queue /\ s.counter = r.counter
      BY <1>2, <3>1, <3>2 DEF Fields, Gains
    <3> QED BY <2>1, <3>3
  <2>3. CASE q.reason = "SUCCESS" /\ q.idx > Len(popped.done) + 1
    <3>1. s = [popped EXCEPT !.waits = @ \union {w}]
      BY <2>3 DEF Answered
    <3> HIDE DEF s, d, w
    <3>2. Gains(popped, s, "waits", {w}) /\ s.queue = r.queue /\ s.counter = r.counter
      BY <1>2, <3>1 DEF Fields, Gains
    <3> QED BY <2>1, <3>2
  <2>4. CASE q.reason = "SUCCESS" /\ ~(q.idx > Len(popped.done) + 1)
    <3>1. s = [popped EXCEPT !.state = "ENDED"]
      BY <2>4 DEF Answered
    <3> HIDE DEF s, d, w
    <3>2. Gains(popped, s, "waits", {}) /\ s.queue = r.queue /\ s.counter = r.counter /\ s.state = "ENDED"
      BY <1>2, <3>1 DEF Fields, Gains
    <3> QED BY <2>1, <3>2
  <2> QED BY <2>2, <2>3, <2>4
<1> HIDE DEF s
<1>4. PICK j, e, T :
         /\ j \in {"waits", "called"}
         /\ e.cmd = c.cmd /\ (T = {e} \/ (T = {} /\ s.state = "ENDED"))
         /\ s.queue = r.queue /\ s.counter = r.counter
         /\ Gains(popped, s, j, T)
  BY <1>3
<1>5. s.reply = r.reply \ {c}
  BY <1>2, <1>4 DEF Gains
<1>6. \A X, k, v : Holds(s, X, k, v) =>
         \/ Holds(r, X, k, v) /\ ~(k = "reply" /\ v = c)
         \/ k = j /\ v = e /\ X = c.cmd
  BY <1>2, <1>4, <1>5 DEF Holds, Gains
<1>7. Holds(r, c.cmd, "reply", c)
  BY <1>1 DEF Holds
<1>8. \A X : (Has(s, X) => Has(r, X)) /\ (Single(r, X) => Single(s, X))
  BY <1>4, <1>6, <1>7 DEF Has, Single
<1>9. ASSUME s.state # "ENDED", NEW X, NEW k, NEW v, Holds(r, X, k, v)
      PROVE  Has(s, X)
  <2>1. CASE k = "reply" /\ v = c
    <3>1. X = c.cmd /\ T = {e}
      BY <1>4, <1>9, <2>1 DEF Holds
    <3>2. Holds(s, X, j, e)
      BY <1>4, <3>1 DEF Holds, Gains
    <3> QED BY <3>2 DEF Has
  <2>2. CASE ~(k = "reply" /\ v = c)
    <3>1. Holds(s, X, k, v)
      BY <1>2, <1>4, <1>5, <1>9, <2>2 DEF Holds, Gains
    <3> QED BY <3>1 DEF Has
  <2> QED BY <2>1, <2>2
<1>10. Numbered(s)
  BY <1>4, <1>5 DEF Numbered
<1> QED BY <1>8, <1>9, <1>10 DEF Passes, Keeps, Has

-----------------------------------------------------------------------------
\* The callbacks of the cluster: each has one holder at most, none while its
\* command is unused, and gets lost by restarts and ends only.
Keeping(nd, un, re) ==
    /\ \A n \in Node : Numbered(nd[n])
    /\ \A X \in Watched : \A n \in Node : Single(nd[n], X) /\ (Has(nd[n], X) => X \notin un)
    /\ \A X \in Watched : \A m, n \in Node : Has(nd[m], X) /\ Has(nd[n], X) => m = n
    /\ re = 0 /\ (\A n \in Node : nd[n].state # "ENDED") =>
          \A X \in Watched : X \in un \/ \E n \in Node : Has(nd[n], X)

\* A command that is forwarded with a callback has an id, by which the answer
\* finds the callback; it must not get one on the node it is forwarded to.
Fit(q) == q.type = "apply_command" /\ q.cmd \in Watched => q.id # 0

Fitting(s) == \A q \in Under(s) : Fit(q)

Marked(nt) == \A c \in Link : Fitting(nt[c])

Kept(nd, nt, un, re) == Keeping(nd, un, re) /\ Marked(nt)

\* A step of one node that hands its callbacks over keeps every callback in one place.
LEMMA PutKeeping ==
  ASSUME NEW nd \in [Node -> Fields], NEW un, NEW re, Keeping(nd, un, re),
         NEW n \in Node, NEW s, nd[n].state # "ENDED", Passes(nd[n], s),
         s.state # "ENDED" => Keeps(nd[n], s)
  PROVE  Keeping(Put(nd, n, s), un, re)
<1> DEFINE nd2 == Put(nd, n, s)
<1>1. nd2[n] = s /\ \A k \in Node \ {n} : nd2[k] = nd[k]
  BY DEF Put
<1> HIDE DEF nd2
<1>2. \A k \in Node : Passes(nd[k], nd2[k])
  <2>1. \A k \in Node : Passes(nd[k], nd[k])
    BY StillHands DEF Still, Hands
  <2> QED BY <1>1, <2>1
<1>3. \A k \in Node : Numbered(nd2[k])
  BY <1>2 DEF Keeping, Passes
<1>4. \A X \in Watched : \A k \in Node : Has(nd2[k], X) => Has(nd[k], X)
  BY <1>2 DEF Passes
<1>5. \A X \in Watched : \A k \in Node : Single(nd2[k], X)
  BY <1>2 DEF Keeping, Passes
<1>6. ASSUME re = 0, \A k \in Node : nd2[k].state # "ENDED", NEW X \in Watched, X \notin un
      PROVE  \E k \in Node : Has(nd2[k], X)
  <2>1. \A k \in Node : nd[k].state # "ENDED"
    BY <1>1, <1>6
  <2>2. PICK k \in Node : Has(nd[k], X)
    BY <1>6, <2>1 DEF Keeping
  <2>3. Has(nd2[k], X)
    BY <1>1, <1>6, <2>2 DEF Keeps
  <2> QED BY <2>3
<1>7. Keeping(nd2, un, re)
  BY <1>3, <1>4, <1>5, <1>6 DEF Keeping
<1> QED BY <1>7 DEF nd2

\* A message less, and a message more, with a mark where there is a callback.
LEMMA FewerMarked ==
  ASSUME NEW nt \in [Link -> Seq(Message)], Marked(nt), NEW nt2, Fewer(nt2, nt)
  PROVE  Marked(nt2)
<1>1. ASSUME NEW c \in Link
      PROVE  Fitting(nt2[c])
  <2>1. nt[c] \in Seq(Message) /\ Shorter(nt2[c], nt[c])
    BY DEF Fewer
  <2>2. Under(nt2[c]) \subseteq Under(nt[c])
    BY <2>1, ShorterMessages
  <2> QED BY <2>2 DEF Marked, Fitting
<1> QED BY <1>1 DEF Marked

\* The same for a message to each of several nodes.
LEMMA SentMarked ==
  ASSUME NEW nt \in [Link -> Seq(Message)], Marked(nt),
         NEW n \in Node, NEW to \in SUBSET Peers(n), NEW out,
         \A m \in to : out[m] \in Seq(Message) /\ Fitting(out[m])
  PROVE  Marked(SentAll(nt, n, to, out))
<1> DEFINE nt2 == SentAll(nt, n, to, out)
<1>1. \A m \in to : out[m] \in Seq(Message)
  OBVIOUS
<1>2. ASSUME NEW c \in Link
      PROVE  Fitting(nt2[c])
  <2>1. /\ ~(c[1] = n /\ c[2] \in to) => nt2[c] = nt[c]
        /\ c[1] = n /\ c[2] \in to => Longer(nt2[c], nt[c], out[c[2]])
    BY <1>1, SentAllLinks
  <2> HIDE DEF nt2
  <2>2. CASE c[1] = n /\ c[2] \in to
    <3>1. ASSUME NEW i \in DOMAIN nt2[c]
          PROVE  Fit(nt2[c][i])
      <4>1. \/ i \in DOMAIN nt[c] /\ nt2[c][i] = nt[c][i]
            \/ i - Len(nt[c]) \in DOMAIN out[c[2]] /\ nt2[c][i] = out[c[2]][i - Len(nt[c])]
        BY <2>1, <2>2 DEF Longer
      <4>2. Fitting(nt[c]) /\ Fitting(out[c[2]])
        BY <2>2 DEF Marked
      <4> QED BY <4>1, <4>2 DEF Fitting, Under
    <3> QED BY <3>1 DEF Fitting, Under
  <2>3. CASE ~(c[1] = n /\ c[2] \in to)
    BY <2>1, <2>3 DEF Marked
  <2> QED BY <2>2, <2>3
<1> QED BY <1>2 DEF Marked

\* Messages that carry no command, and forwarded ones with their mark.
LEMMA FittingMessages ==
  /\ << >> \in Seq(Message) /\ Fitting(<< >>)
  /\ \A q \in UNION {RequestVotes, ResponseVotes, Appends, Positioned, Responses} :
        <<q>> \in Seq(Message) /\ Fitting(<<q>>)
  /\ \A q \in Forwarded : Fit(q) => <<q>> \in Seq(Message) /\ Fitting(<<q>>)
<1>1. << >> \in Seq(Message) /\ Under(<< >>) = {}
  BY EmptySeq DEF Under
<1>2. \A q : Under(<<q>>) = {q}
  BY DEF Under
<1>3. \A q \in Message : <<q>> \in Seq(Message)
  OBVIOUS
<1>4. \A q \in UNION {RequestVotes, ResponseVotes, Appends, Positioned, Responses} :
         q \in Message /\ q.type # "apply_command"
  BY DEF Message, RequestVotes, ResponseVotes, Appends, Positioned, Responses
<1>5. Forwarded \subseteq Message
  BY DEF Message
<1> QED BY <1>1, <1>2, <1>3, <1>4, <1>5 DEF Fitting, Fit

\* What is sent after something else.
LEMMA FittingRounds ==
  ASSUME NEW s \in Seq(Message), NEW t \in Seq(Message), Fitting(s), Fitting(t)
  PROVE  s \o t \in Seq(Message) /\ Fitting(s \o t)
<1>1. /\ s \o t \in Seq(Message) /\ Len(s \o t) = Len(s) + Len(t)
      /\ \A i \in 1 .. Len(s) + Len(t) :
            (s \o t)[i] = IF i <= Len(s) THEN s[i] ELSE t[i - Len(s)]
  BY ConcatProperties
<1>2. /\ DOMAIN (s \o t) = 1 .. Len(s) + Len(t) /\ Len(s) \in Nat /\ Len(t) \in Nat
      /\ DOMAIN s = 1 .. Len(s) /\ DOMAIN t = 1 .. Len(t)
  BY <1>1, LenProperties
<1>3. ASSUME NEW i \in DOMAIN (s \o t)
      PROVE  Fit((s \o t)[i])
  <2>1. i \in 1 .. Len(s) + Len(t)
    BY <1>2
  <2>2. CASE i <= Len(s)
    <3>1. i \in DOMAIN s /\ (s \o t)[i] = s[i]
      BY <1>1, <1>2, <2>1, <2>2
    <3> QED BY <3>1 DEF Fitting, Under
  <2>3. CASE ~(i <= Len(s))
    <3>1. i - Len(s) \in DOMAIN t /\ (s \o t)[i] = t[i - Len(s)]
      BY <1>1, <1>2, <2>1, <2>3
    <3> QED BY <3>1 DEF Fitting, Under
  <2> QED BY <2>2, <2>3
<1> QED BY <1>1, <1>3 DEF Fitting, Under

\* What a command taken from the queue makes a node send.
LEMMA FittingCommand ==
  ASSUME NEW n \in Node, NEW r, Wellformed(n, r), r.queue # << >>, NEW m \in Node
  PROVE  Messages(r, n, m) \in Seq(Message) /\ Fitting(Messages(r, n, m))
<1> DEFINE q == Head(r.queue)
<1>1. q \in QueuedCommand
  BY QueueType
<1>2. \/ Messages(r, n, m) = << >>
      \/ Messages(r, n, m) = <<Answer(r, n, q)>>
      \/ Messages(r, n, m) = <<ApplyCommand(r, q)>> /\ q.from = Nobody
  BY DEF Messages
<1> HIDE DEF q
<1>3. Answer(r, n, q) \in Responses
  BY <1>1, WellformedLog, RaftAssumption
     DEF Answer, Response, Responses, Reasons, QueuedCommand, Term
<1>4. ApplyCommand(r, q) \in Forwarded /\ (q.from = Nobody => Fit(ApplyCommand(r, q)))
  <2>1. r.counter + 1 \in Nat /\ r.counter + 1 # 0
    BY DEF Wellformed, Fields
  <2> QED BY <1>1, <2>1 DEF ApplyCommand, Forwarded, QueuedCommand, Fit, HasCallback
<1>5. <<Answer(r, n, q)>> \in Seq(Message) /\ Fitting(<<Answer(r, n, q)>>)
  <2> DEFINE a == Answer(r, n, q)
  <2>1. a \in Responses
    BY <1>3
  <2> HIDE DEF a
  <2>2. <<a>> \in Seq(Message) /\ Fitting(<<a>>)
    BY <2>1, FittingMessages
  <2> QED BY <2>2 DEF a
<1>6. q.from = Nobody => <<ApplyCommand(r, q)>> \in Seq(Message) /\ Fitting(<<ApplyCommand(r, q)>>)
  <2> DEFINE a == ApplyCommand(r, q)
  <2>1. a \in Forwarded /\ (q.from = Nobody => Fit(a))
    BY <1>4
  <2> HIDE DEF a
  <2>2. q.from = Nobody => <<a>> \in Seq(Message) /\ Fitting(<<a>>)
    BY <2>1, FittingMessages
  <2> QED BY <2>2 DEF a
<1> QED BY <1>2, <1>5, <1>6, FittingMessages

-----------------------------------------------------------------------------
\* A step that takes a message, after which n is r, and sends what fits.
LEMMA TakenKept ==
  ASSUME Shaped(node, net), NEW un, NEW re, Kept(node, net, un, re),
         NEW n \in Node, NEW m \in Peers(n), NEW r, NEW out, NEW up,
         Step(n, r, Taken(m, n), out, up), net[<<m, n>>] # << >>,
         node[n].state # "ENDED", Passes(node[n], r), r.state # "ENDED" => Keeps(node[n], r),
         \A k \in Peers(n) : out[k] \in Seq(Message) /\ Fitting(out[k])
  PROVE  Kept(node', net', un, re)
<1>1. node' = Put(node, n, r)
  BY StepTaking
<1>2. PICK nt1, to : /\ to \in SUBSET Peers(n)
                     /\ LessHead(nt1, net, m, n)
                     /\ net' = SentAll(nt1, n, to, out)
  BY StepTaking
<1>3. Fewer(nt1, net)
  BY <1>2 DEF LessHead
<1>4. nt1 \in [Link -> Seq(Message)] /\ Marked(nt1)
  <2>1. Shaped(node, nt1)
    BY <1>3, FewerParts
  <2>2. net \in [Link -> Seq(Message)] /\ Marked(net)
    BY DEF Shaped, Kept
  <2> QED BY <1>3, <2>1, <2>2, FewerMarked DEF Shaped
<1>5. \A k \in to : out[k] \in Seq(Message) /\ Fitting(out[k])
  BY <1>2
<1>6. Marked(net')
  BY <1>2, <1>4, <1>5, SentMarked
<1>7. Keeping(node', un, re)
  BY <1>1, PutKeeping DEF Shaped, Kept
<1> QED BY <1>6, <1>7 DEF Kept

\* Nothing is sent.
LEMMA SilenceFits ==
  ASSUME NEW n \in Node
  PROVE  \A k \in Peers(n) : Silence(n)[k] \in Seq(Message) /\ Fitting(Silence(n)[k])
BY FittingMessages DEF Silence

\* Nodes that are asked for their votes.
LEMMA OnRequestVoteKept ==
  ASSUME Shaped(node, net), NEW un, NEW re, Kept(node, net, un, re),
         NEW n \in Node, NEW m \in Peers(n), net[<<m, n>>] # << >>, node[n].state # "ENDED",
         OnRequestVote(n, m, Head(net[<<m, n>>]))
  PROVE  Kept(node', net', un, re)
<1> DEFINE q == Head(net[<<m, n>>])
           r == NewerTerm(node[n], q)
           s == IF GrantsVote(r, q) THEN [r EXCEPT !.votedFor = m] ELSE r
           p == [type |-> "response_vote", term |-> q.term]
           out == [Silence(n) EXCEPT ![m] = IF GrantsVote(r, q) THEN <<p>> ELSE << >>]
<1>1. Step(n, s, Taken(m, n), out, {m})
  BY DEF OnRequestVote
<1>2. q \in RequestVotes /\ Wellformed(n, node[n]) /\ m \in Node
  BY Received, Links DEF OnRequestVote, Shaped
<1> HIDE DEF q
<1>3. r \in Fields /\ Still(node[n], r)
  BY <1>2, NewerTermType, StillOperators DEF RequestVotes, Wellformed
<1> HIDE DEF r
<1>4. Still(node[n], s)
  BY <1>3 DEF Still, Fields
<1>5. Hands(node[n], s)
  BY <1>4, StillHands
<1>6. p \in ResponseVotes
  BY <1>2 DEF RequestVotes, ResponseVotes
<1> HIDE DEF s, p
<1>7. <<p>> \in Seq(Message) /\ Fitting(<<p>>) /\ << >> \in Seq(Message) /\ Fitting(<< >>)
  BY <1>6, FittingMessages
<1>8. \A k \in Peers(n) : out[k] \in Seq(Message) /\ Fitting(out[k])
  BY <1>7 DEF Silence
<1> HIDE DEF out
<1> QED BY <1>1, <1>5, <1>8, TakenKept DEF Hands

\* Candidates that are given votes.
LEMMA OnResponseVoteKept ==
  ASSUME Shaped(node, net), NEW un, NEW re, Kept(node, net, un, re),
         NEW n \in Node, NEW m \in Peers(n), net[<<m, n>>] # << >>, node[n].state # "ENDED",
         NEW up, OnResponseVote(n, m, Head(net[<<m, n>>]), up)
  PROVE  Kept(node', net', un, re)
<1> DEFINE q == Head(net[<<m, n>>])
           r == node[n]
           counts == r.state = "CANDIDATE" /\ q.term = r.term
           wins == counts /\ Majority(r, r.votes + 1)
           voted == IF counts THEN [r EXCEPT !.votes = @ + 1] ELSE r
           leader == BecomeLeader(voted, n)
           sent == AfterSending(leader, up)
           out == [p \in Peers(n) |-> <<AppendEntries(leader, p)>>]
<1>1. IF wins THEN Step(n, sent, Taken(m, n), out, up)
              ELSE Step(n, voted, Taken(m, n), Silence(n), {})
  BY DEF OnResponseVote
<1>2. Wellformed(n, r)
  BY DEF Shaped
<1>3. Wellformed(n, voted) /\ Still(r, voted)
  <2>1. r \in Fields /\ r.votes + 1 \in Nat
    BY <1>2 DEF Wellformed, Fields
  <2>2. [r EXCEPT !.votes = r.votes + 1] \in Fields
    BY <2>1, Zenon DEF Fields
  <2>3. LET s == [r EXCEPT !.votes = r.votes + 1]
        IN  /\ Still(r, s) /\ s.commit = r.commit /\ s.next = r.next /\ s.others = r.others
            /\ s.log = r.log
    BY <2>1 DEF Fields, Still
  <2>4. Wellformed(n, [r EXCEPT !.votes = r.votes + 1])
    BY <1>2, <2>2, <2>3 DEF Wellformed
  <2> QED BY <1>2, <2>3, <2>4 DEF Still
<1> HIDE DEF voted, wins, counts
<1>4. Wellformed(n, leader) /\ Still(voted, leader)
  BY <1>3, BecomeLeaderType, StillOperators
<1> HIDE DEF leader
<1>5. Still(leader, sent)
  BY <1>4, StillOperators
<1> HIDE DEF sent
<1>6. Hands(r, voted) /\ Hands(r, sent)
  <2>1. Still(r, sent)
    BY <1>3, <1>4, <1>5 DEF Still
  <2> QED BY <1>3, <2>1, StillHands
<1>7. \A k \in Peers(n) : out[k] \in Seq(Message) /\ Fitting(out[k])
  <2> SUFFICES ASSUME NEW k \in Peers(n)
               PROVE  <<AppendEntries(leader, k)>> \in Seq(Message) /\ Fitting(<<AppendEntries(leader, k)>>)
    OBVIOUS
  <2>1. k \in Node
    BY Links
  <2> DEFINE a == AppendEntries(leader, k)
  <2>2. a \in Appends
    BY <1>4, <2>1, AppendEntriesType
  <2> HIDE DEF a
  <2>3. <<a>> \in Seq(Message) /\ Fitting(<<a>>)
    BY <2>2, FittingMessages
  <2> QED BY <2>3 DEF a
<1> HIDE DEF out
<1>8. CASE wins
  BY <1>1, <1>6, <1>7, <1>8, TakenKept DEF Hands
<1>9. CASE ~wins
  BY <1>1, <1>6, <1>9, SilenceFits, TakenKept DEF Hands
<1> QED BY <1>8, <1>9

\* Followers that get entries.
LEMMA OnAppendEntriesKept ==
  ASSUME Shaped(node, net), NEW un, NEW re, Kept(node, net, un, re),
         NEW n \in Node, NEW m \in Peers(n), net[<<m, n>>] # << >>, node[n].state # "ENDED",
         OnAppendEntries(n, m, Head(net[<<m, n>>]))
  PROVE  Kept(node', net', un, re)
<1> DEFINE q == Head(net[<<m, n>>])
           r == Follow(node[n], m, q)
           reply == AppendReply(r, q)
           s == IF reply.success THEN AppendTo(r, n, q) ELSE r
           out == [Silence(n) EXCEPT ![m] = <<reply>>]
<1>1. IF q.term < node[n].term
      THEN Step(n, node[n], Taken(m, n), Silence(n), {})
      ELSE Step(n, s, Taken(m, n), out, {m})
  BY DEF OnAppendEntries
<1>2. q \in Appends /\ Wellformed(n, node[n]) /\ m \in Node
  BY Received, Links DEF OnAppendEntries, Shaped
<1> HIDE DEF q
<1>3. Wellformed(n, r) /\ Hands(node[n], r)
  BY <1>2, FollowType, FollowHands DEF Appends
<1> HIDE DEF r
<1>4. /\ reply \in Positioned
      /\ reply.success => q.prevLogIdx \in DOMAIN r.log
  BY <1>2, <1>3, AppendReplyType
<1>5. Hands(node[n], s)
  <2>1. reply.success => Hands(r, AppendTo(r, n, q))
    BY <1>2, <1>3, <1>4, AppendToHands
  <2> QED BY <1>3, <2>1, HandsOn
<1>6. Hands(node[n], node[n])
  BY StillHands DEF Still
<1> HIDE DEF s, reply
<1>7. <<reply>> \in Seq(Message) /\ Fitting(<<reply>>)
  BY <1>4, FittingMessages
<1>8. \A k \in Peers(n) : out[k] \in Seq(Message) /\ Fitting(out[k])
  BY <1>7, SilenceFits DEF Silence
<1> HIDE DEF out
<1>9. CASE q.term < node[n].term
  BY <1>1, <1>6, <1>9, SilenceFits, TakenKept DEF Hands
<1>10. CASE ~(q.term < node[n].term)
  BY <1>1, <1>5, <1>8, <1>10, TakenKept DEF Hands
<1> QED BY <1>9, <1>10

\* Leaders that hear how far a follower is.
LEMMA OnNextNodeIdxKept ==
  ASSUME Shaped(node, net), NEW un, NEW re, Kept(node, net, un, re),
         NEW n \in Node, NEW m \in Peers(n), net[<<m, n>>] # << >>, node[n].state # "ENDED",
         OnNextNodeIdx(n, m, Head(net[<<m, n>>]))
  PROVE  Kept(node', net', un, re)
<1> DEFINE q == Head(net[<<m, n>>])
           r == node[n]
           heard == [r EXCEPT !.next[m] = IF q.reset THEN q.next ELSE @,
                              !.match[m] = IF q.success THEN q.next - 1 ELSE @]
           s == IF r.state = "LEADER" THEN heard ELSE r
<1>1. Step(n, s, Taken(m, n), Silence(n), {})
  BY DEF OnNextNodeIdx
<1>2. r \in Fields
  BY DEF Shaped, Wellformed
<1>3. Still(r, s)
  <2> HIDE DEF q
  <2> QED BY <1>2 DEF Still, Fields
<1> HIDE DEF s
<1>4. Hands(r, s)
  BY <1>3, StillHands
<1> QED BY <1>1, <1>4, SilenceFits, TakenKept DEF Hands

\* Nodes that hear what became of a command.
LEMMA OnApplyCommandResponseKept ==
  ASSUME Shaped(node, net), NEW un, NEW re, Kept(node, net, un, re),
         NEW n \in Node, NEW m \in Peers(n), net[<<m, n>>] # << >>, node[n].state # "ENDED",
         OnApplyCommandResponse(n, m, Head(net[<<m, n>>]))
  PROVE  Kept(node', net', un, re)
<1> DEFINE q == Head(net[<<m, n>>])
           r == node[n]
           asked == {c \in r.reply : c.id = q.id}
           popped == [r EXCEPT !.reply = @ \ asked]
           c == CHOOSE c \in asked : TRUE
           t == Answered(popped, c, q)
           s == IF asked = {} THEN r ELSE t
<1>1. Step(n, s, Taken(m, n), Silence(n), {})
  BY DEF OnApplyCommandResponse
<1>2. Wellformed(n, r) /\ Numbered(r)
  BY DEF Shaped, Kept, Keeping
<1>3. asked # {} => Passes(r, t) /\ (t.state # "ENDED" => Keeps(r, t))
  <2> HIDE DEF q
  <2> QED BY <1>2, AnsweredHands
<1>4. Hands(r, r)
  BY StillHands DEF Still
<1> HIDE DEF t, asked
<1>5. Passes(r, s) /\ (s.state # "ENDED" => Keeps(r, s))
  BY <1>3, <1>4 DEF Hands
<1> HIDE DEF s
<1> QED BY <1>1, <1>5, SilenceFits, TakenKept

\* Nodes that are handed a command.
LEMMA OnApplyCommandKept ==
  ASSUME Shaped(node, net), NEW un, NEW re, Kept(node, net, un, re),
         NEW n \in Node, NEW m \in Peers(n), net[<<m, n>>] # << >>, node[n].state # "ENDED",
         OnApplyCommand(n, m, Head(net[<<m, n>>]))
  PROVE  Kept(node', net', un, re)
<1> DEFINE q == Head(net[<<m, n>>])
           c == [cmd |-> q.cmd, from |-> IF q.id = 0 THEN Nobody ELSE m, id |-> q.id]
           s == Enqueue(node[n], c)
           a == Response(q.id, "QUEUE_FULL", 0, 0)
           out == [Silence(n) EXCEPT ![m] = IF Full(node[n].queue) /\ q.id # 0 THEN <<a>> ELSE << >>]
<1>1. Step(n, s, Taken(m, n), out, {m}) /\ q.type = "apply_command"
  BY DEF OnApplyCommand
<1>2. q \in Forwarded /\ q \in Under(net[<<m, n>>]) /\ <<m, n>> \in Link /\ m \in Node
      /\ Wellformed(n, node[n])
  BY Received, Links DEF OnApplyCommand, Shaped
<1> HIDE DEF q
<1>3. q.cmd \in Watched => q.id # 0
  BY <1>1, <1>2 DEF Kept, Marked, Fitting, Fit
<1>4. c \in QueuedCommand /\ a \in Responses /\ ~HasCallback(c)
  BY <1>2, <1>3, RaftAssumption
     DEF QueuedCommand, Forwarded, Somebody, Responses, Response, Reasons, Term, HasCallback
<1> HIDE DEF c, a
<1>5. Hands(node[n], s)
  <2>1. /\ \A X, k, v : Holds(s, X, k, v) <=> Holds(node[n], X, k, v)
        /\ Numbered(node[n]) => Numbered(s)
    <3> HIDE DEF s
    <3>1. LET t == Enqueue(node[n], c)
          IN  /\ \A X : ~(HasCallback(c) /\ X = c.cmd) =>
                           \A k, v : Holds(t, X, k, v) <=> Holds(node[n], X, k, v)
              /\ Numbered(node[n]) => Numbered(t)
      BY <1>2, <1>4, EnqueueHolds
    <3> QED BY <1>4, <3>1 DEF s
  <2> HIDE DEF s
  <2> QED BY <2>1 DEF Hands, Passes, Keeps, Has, Single
<1>6. <<a>> \in Seq(Message) /\ Fitting(<<a>>) /\ << >> \in Seq(Message) /\ Fitting(<< >>)
  BY <1>4, FittingMessages
<1>7. \A k \in Peers(n) : out[k] \in Seq(Message) /\ Fitting(out[k])
  BY <1>6 DEF Silence
<1> HIDE DEF s, out
<1> QED BY <1>1, <1>5, <1>7, TakenKept DEF Hands

\* A pass of the raft thread.
LEMMA TickKept ==
  ASSUME Shaped(node, net), NEW un, NEW re, Kept(node, net, un, re),
         NEW n \in Node,
         NEW expired \in BOOLEAN, NEW silent \in BOOLEAN, NEW due \in BOOLEAN, NEW takes \in BOOLEAN,
         MayFind(n, expired, silent, due), takes => node[n].queue # << >>,
         NEW up, Tick(n, expired, silent, due, takes, up)
  PROVE  Kept(node', net', un, re)
<1> DEFINE elected == IF expired THEN StartElection(node[n], n) ELSE node[n]
           committed == IF elected.state = "LEADER" THEN AdvanceCommit(elected, n) ELSE elected
           fallen == IF silent THEN FallBack(committed) ELSE committed
           ready == Apply(fallen)
           sent == IF due THEN AfterSending(ready, up) ELSE ready
           r == IF takes THEN CheckCommands(sent, n) ELSE sent
           a == IF expired THEN <<RequestVote(elected)>> ELSE << >>
           b(m) == IF due THEN <<AppendEntries(ready, m)>> ELSE << >>
           c(m) == IF takes THEN Messages(sent, n, m) ELSE << >>
           out == [m \in Peers(n) |->
                     (IF expired THEN <<RequestVote(elected)>> ELSE << >>)
                     \o (IF due THEN <<AppendEntries(ready, m)>> ELSE << >>)
                     \o (IF takes THEN Messages(sent, n, m) ELSE << >>)]
<1>0. Wellformed(n, node[n]) /\ node[n].state # "ENDED"
  BY DEF Shaped, MayFind
<1>1. Step(n, r, << >>, out, up)
  BY DEF Tick
<1>2. \A m \in Peers(n) : out[m] = (a \o b(m)) \o c(m)
  OBVIOUS
<1> HIDE DEF out
<1>3. /\ node' = Put(node, n, r)
      /\ \E nt1, to : /\ to \in SUBSET Peers(n) /\ Reach(node', n, to)
                      /\ Fewer(nt1, net)
                      /\ net' = SentAll(nt1, n, to, out)
  <2> HIDE DEF r
  <2>1. \A k \in DOMAIN << >> : k \in Link /\ k[1] # n /\ Shorter((<< >>)[k], net[k])
    <3>1. DOMAIN << >> = {}
      BY EmptySeq
    <3> QED BY <3>1
  <2> DEFINE in == << >>
  <2>2. Step(n, r, in, out, up)
    BY <1>1
  <2> HIDE DEF in
  <2>3. \A k \in DOMAIN in : k \in Link /\ k[1] # n /\ Shorter(in[k], net[k])
    BY <2>1 DEF in
  <2> QED BY <2>2, <2>3, StepParts
\* What becomes of the node.
<1>4. Wellformed(n, elected) /\ Hands(node[n], elected) /\ elected.queue = node[n].queue
  <2>1. CASE expired
    <3>1. node[n].term < MaxTerm
      BY <2>1 DEF MayFind
    <3>2. PICK t : /\ Wellformed(n, t) /\ t.others = node[n].others
                   /\ StartElection(node[n], n) = IF Majority(t, 1) THEN BecomeLeader(t, n) ELSE t
      BY <1>0, <3>1, StartElectionType
    <3>3. Wellformed(n, BecomeLeader(t, n))
      BY <3>2, BecomeLeaderType
    <3>4. Hands(node[n], StartElection(node[n], n)) /\ StartElection(node[n], n).queue = node[n].queue
      BY <1>0, <3>1, ElectionHands, QueueKept
    <3> QED BY <2>1, <3>2, <3>3, <3>4
  <2>2. CASE ~expired
    <3>1. Hands(node[n], node[n])
      BY StillHands DEF Still
    <3> QED BY <1>0, <2>2, <3>1
  <2> QED BY <2>1, <2>2
<1> HIDE DEF elected
<1>5. Wellformed(n, ready) /\ Hands(node[n], ready) /\ ready.queue = node[n].queue
  <2>1. Wellformed(n, committed) /\ Still(elected, committed)
    <3>1. Still(elected, elected)
      BY DEF Still
    <3> QED BY <1>4, <3>1, StillOperators, AdvanceCommitType DEF Alike
  <2> HIDE DEF committed
  <2>2. Wellformed(n, fallen) /\ Still(committed, fallen)
    <3>1. Still(committed, committed)
      BY DEF Still
    <3> QED BY <2>1, <3>1, StillOperators, FallBackType
  <2> HIDE DEF fallen
  <2>3. Still(elected, fallen)
    BY <2>1, <2>2 DEF Still
  <2>4. Hands(node[n], fallen) /\ fallen.queue = node[n].queue
    BY <1>4, <2>3, StillHands, HandsOn DEF Still
  <2> QED BY <2>2, <2>4, ApplyHands, HandsOn, QueueKept, ApplyType DEF Alike
<1> HIDE DEF ready
<1>6. Wellformed(n, sent) /\ Hands(node[n], sent) /\ sent.queue = node[n].queue
  <2>1. Still(ready, ready)
    BY DEF Still
  <2>2. Still(ready, sent)
    BY <1>5, <2>1, StillOperators
  <2>3. Wellformed(n, sent)
    BY <1>5, AfterSendingType, SMTT(30) DEF Alike
  <2> HIDE DEF sent
  <2>4. Hands(node[n], sent)
    BY <1>5, <2>2, StillHands, HandsOn
  <2> QED BY <1>5, <2>2, <2>3, <2>4 DEF Still
<1> HIDE DEF sent
<1>7. Hands(node[n], r)
  <2>1. takes => Hands(sent, CheckCommands(sent, n))
    BY <1>6, CheckCommandsHands
  <2> QED BY <1>6, <2>1, HandsOn
<1> HIDE DEF r
\* What it sends.
<1>8. ASSUME NEW m \in Peers(n)
      PROVE  out[m] \in Seq(Message) /\ Fitting(out[m])
  <2>1. m \in Node
    BY Links
  <2>2. << >> \in Seq(Message) /\ Fitting(<< >>)
    BY FittingMessages
  <2>3. a \in Seq(Message) /\ Fitting(a)
    <3> DEFINE q == RequestVote(elected)
    <3>1. q \in RequestVotes
      BY <1>4, RequestVoteType
    <3> HIDE DEF q
    <3>2. <<q>> \in Seq(Message) /\ Fitting(<<q>>)
      BY <3>1, FittingMessages
    <3> QED BY <2>2, <3>2 DEF q
  <2>4. b(m) \in Seq(Message) /\ Fitting(b(m))
    <3> DEFINE q == AppendEntries(ready, m)
    <3>1. q \in Appends
      BY <1>5, <2>1, AppendEntriesType
    <3> HIDE DEF q
    <3>2. <<q>> \in Seq(Message) /\ Fitting(<<q>>)
      BY <3>1, FittingMessages
    <3> QED BY <2>2, <3>2 DEF q
  <2>5. c(m) \in Seq(Message) /\ Fitting(c(m))
    <3>1. takes => Messages(sent, n, m) \in Seq(Message) /\ Fitting(Messages(sent, n, m))
      BY <1>6, <2>1, FittingCommand
    <3> QED BY <2>2, <3>1
  <2>6. out[m] = (a \o b(m)) \o c(m)
    BY <1>2
  <2> HIDE DEF a, b, c
  <2>7. a \o b(m) \in Seq(Message) /\ Fitting(a \o b(m))
    BY <2>3, <2>4, FittingRounds
  <2> DEFINE ab == a \o b(m)
  <2>8. ab \in Seq(Message) /\ Fitting(ab) /\ out[m] = ab \o c(m)
    BY <2>6, <2>7
  <2> HIDE DEF ab
  <2> QED BY <2>5, <2>8, FittingRounds
<1>9. Marked(net')
  <2>1. PICK nt1, to : /\ to \in SUBSET Peers(n) /\ Fewer(nt1, net)
                       /\ net' = SentAll(nt1, n, to, out)
    BY <1>3
  <2>2. nt1 \in [Link -> Seq(Message)] /\ Marked(nt1)
    <3>1. Shaped(node, nt1)
      BY <2>1, FewerParts
    <3>2. net \in [Link -> Seq(Message)] /\ Marked(net)
      BY DEF Shaped, Kept
    <3> QED BY <2>1, <3>1, <3>2, FewerMarked DEF Shaped
  <2>3. \A m \in to : out[m] \in Seq(Message) /\ Fitting(out[m])
    BY <1>8, <2>1
  <2> QED BY <2>1, <2>2, <2>3, SentMarked
<1>10. Keeping(node', un, re)
  BY <1>0, <1>3, <1>7, PutKeeping DEF Shaped, Kept, Hands
<1> QED BY <1>9, <1>10 DEF Kept

\* A thread that submits a command: its callback finds the command new.
LEMMA SubmitKept ==
  ASSUME Shaped(node, net), NEW re, Kept(node, net, unused, re),
         NEW n \in Node, NEW cmd \in Submittable, Submit(n, cmd)
  PROVE  Kept(node', net', unused', re)
<1> DEFINE c == [cmd |-> cmd, from |-> Nobody, id |-> 0]
           s == Enqueue(node[n], c)
<1>1. /\ c \in QueuedCommand /\ c.cmd = cmd /\ (HasCallback(c) <=> cmd \in Watched) /\ cmd \in unused
      /\ node' = Put(node, n, s) /\ net' = net /\ unused' = unused \ {cmd}
  BY DEF Submit, QueuedCommand, Somebody, Put, HasCallback
<1>2. Wellformed(n, node[n]) /\ node \in [Node -> Fields]
  BY DEF Shaped
<1> HIDE DEF c
<1>3. /\ \A X : ~(HasCallback(c) /\ X = c.cmd) =>
                   \A k, v : Holds(s, X, k, v) <=> Holds(node[n], X, k, v)
      /\ HasCallback(c) /\ ~Has(node[n], c.cmd) => Has(s, c.cmd) /\ Single(s, c.cmd)
      /\ Numbered(node[n]) => Numbered(s)
      /\ s.state = node[n].state
  <2> DEFINE t == Enqueue(node[n], c)
  <2>1. LET u == Enqueue(node[n], c)
        IN  /\ \A X : ~(HasCallback(c) /\ X = c.cmd) =>
                         \A k, v : Holds(u, X, k, v) <=> Holds(node[n], X, k, v)
            /\ HasCallback(c) /\ ~Has(node[n], c.cmd) => Has(u, c.cmd) /\ Single(u, c.cmd)
            /\ Numbered(node[n]) => Numbered(u)
            /\ u.state = node[n].state
    BY <1>1, <1>2, EnqueueHolds
  <2> QED BY <2>1
<1> HIDE DEF s
<1>4. Keeping(node, unused, re) /\ Marked(net)
  BY DEF Kept
<1>5. /\ node'[n] = s
      /\ \A k \in Node \ {n} : node'[k] = node[k]
  BY <1>1, <1>2 DEF Put
<1>6. \A k \in Node : Numbered(node'[k]) /\ node'[k].state = node[k].state
  BY <1>3, <1>4, <1>5 DEF Keeping
\* The other commands.
<1>7. ASSUME NEW X \in Watched, X # cmd, NEW k \in Node
      PROVE  /\ Has(node'[k], X) <=> Has(node[k], X)
             /\ Single(node'[k], X) <=> Single(node[k], X)
  <2>1. \A j, v : Holds(node'[k], X, j, v) <=> Holds(node[k], X, j, v)
    BY <1>1, <1>3, <1>5, <1>7
  <2> QED BY <2>1 DEF Has, Single
\* The command itself.
<1>8. cmd \in Watched => /\ \A k \in Node : ~Has(node[k], cmd) /\ Single(node[k], cmd)
                         /\ Has(s, cmd) /\ Single(s, cmd)
  BY <1>1, <1>3, <1>4 DEF Keeping
<1>9. ASSUME NEW X \in Watched
      PROVE  /\ \A k \in Node : Single(node'[k], X) /\ (Has(node'[k], X) => X \notin unused')
             /\ \A k, m \in Node : Has(node'[k], X) /\ Has(node'[m], X) => k = m
  <2>1. CASE X = cmd
    BY <1>1, <1>5, <1>8, <2>1
  <2>2. CASE X # cmd
    BY <1>1, <1>4, <1>7, <2>2 DEF Keeping
  <2> QED BY <2>1, <2>2
<1>10. ASSUME re = 0, \A k \in Node : node'[k].state # "ENDED", NEW X \in Watched, X \notin unused'
       PROVE  \E k \in Node : Has(node'[k], X)
  <2>1. CASE X = cmd
    BY <1>5, <1>8, <2>1
  <2>2. CASE X # cmd
    <3>1. \A k \in Node : node[k].state # "ENDED"
      BY <1>6, <1>10
    <3>2. PICK k \in Node : Has(node[k], X)
      BY <1>1, <1>4, <1>10, <2>2, <3>1 DEF Keeping
    <3> QED BY <1>7, <2>2, <3>2
  <2> QED BY <2>1, <2>2
<1>11. Keeping(node', unused', re)
  BY <1>6, <1>9, <1>10 DEF Keeping
<1> QED BY <1>1, <1>4, <1>11 DEF Kept

\* A node that starts holds nothing.
LEMMA NewNodeHolds ==
  ASSUME NEW n \in Node
  PROVE  /\ \A X : ~Has(NewNode(n), X) /\ Single(NewNode(n), X)
         /\ Numbered(NewNode(n))
<1> DEFINE r == NewNode(n)
<1>1. r.queue = << >> /\ r.reply = {} /\ r.waits = {} /\ r.called = {}
  BY DEF NewNode
<1>2. DOMAIN << >> = {}
  BY EmptySeq
<1> HIDE DEF r
<1>3. \A X, k, v : ~Holds(r, X, k, v)
  BY <1>1, <1>2 DEF Holds
<1>4. Numbered(r)
  BY <1>1 DEF Numbered
<1> QED BY <1>3, <1>4 DEF Has, Single, r

\* A restart loses the callbacks of its node, and the condition counts it.
LEMMA RestartKept ==
  ASSUME Shaped(node, net), Kept(node, net, unused, restarts), restarts \in Nat,
         NEW n \in Node, Restart(n)
  PROVE  Kept(node', net', unused', restarts')
<1>1. /\ node' = Put(node, n, NewNode(n)) /\ unused' = unused /\ restarts' # 0
      /\ Cut({<<n, m>> : m \in Node} \union {<<m, n>> : m \in Node})
  BY DEF Restart, Put
<1>2. Fewer(net', net)
  BY <1>1, CutFewer
<1>3. Marked(net')
  BY <1>2, FewerMarked DEF Kept, Shaped
<1>4. node'[n] = NewNode(n) /\ \A k \in Node \ {n} : node'[k] = node[k]
  BY <1>1 DEF Put, Shaped
<1>5. /\ \A X : ~Has(node'[n], X) /\ Single(node'[n], X)
      /\ Numbered(node'[n])
  BY <1>4, NewNodeHolds
<1>6. Keeping(node, unused, restarts)
  BY DEF Kept
<1>7. Keeping(node', unused', restarts')
  <2>1. \A k \in Node : Numbered(node'[k])
    BY <1>4, <1>5, <1>6 DEF Keeping
  <2>2. ASSUME NEW X \in Watched
        PROVE  /\ \A k \in Node : Single(node'[k], X) /\ (Has(node'[k], X) => X \notin unused')
               /\ \A k, m \in Node : Has(node'[k], X) /\ Has(node'[m], X) => k = m
    BY <1>1, <1>4, <1>5, <1>6 DEF Keeping
  <2> QED BY <1>1, <2>1, <2>2 DEF Keeping
<1> QED BY <1>3, <1>7 DEF Kept

\* The first state, and every step.
LEMMA InitKept == Init => Kept(node, net, unused, restarts)
<1> SUFFICES ASSUME Init
             PROVE  Kept(node, net, unused, restarts)
  OBVIOUS
<1>1. \A n \in Node : node[n] = NewNode(n)
  BY DEF Init
<1>2. \A n \in Node : Numbered(node[n]) /\ \A X : ~Has(node[n], X) /\ Single(node[n], X)
  BY <1>1, NewNodeHolds
<1>3. Watched \subseteq unused
  BY RaftAssumption DEF Init, Submittable
<1>4. Keeping(node, unused, restarts)
  BY <1>2, <1>3 DEF Keeping
<1>5. Marked(net)
  BY FittingMessages DEF Init, Marked
<1> QED BY <1>4, <1>5 DEF Kept

\* Each step keeps the callbacks.
LEMMA NextKept ==
  Inv /\ Kept(node, net, unused, restarts) /\ [Next]_vars => Kept(node', net', unused', restarts')
<1> SUFFICES ASSUME Inv, Kept(node, net, unused, restarts), [Next]_vars
             PROVE  Kept(node', net', unused', restarts')
  OBVIOUS
<1>1. Shaped(node, net) /\ restarts \in Nat
  BY RaftAssumption DEF Inv, Sound
<1>2. ASSUME NEW n \in Node,
             NEW expired \in BOOLEAN, NEW silent \in BOOLEAN, NEW due \in BOOLEAN, NEW takes \in BOOLEAN,
             MayFind(n, expired, silent, due), takes => node[n].queue # << >>,
             NEW up, Tick(n, expired, silent, due, takes, up)
      PROVE  Kept(node', net', unused', restarts')
  <2>1. Kept(node', net', unused, restarts)
    BY <1>1, <1>2, TickKept
  <2>2. unused' = unused /\ restarts' = restarts
    BY <1>2 DEF Tick
  <2> QED BY <2>1, <2>2
<1>3. ASSUME NEW n \in Node, NEW m \in Peers(n), Receive(n, m)
      PROVE  Kept(node', net', unused', restarts')
  <2>1. /\ unused' = unused /\ restarts' = restarts
        /\ net[<<m, n>>] # << >> /\ node[n].state # "ENDED"
    BY <1>3 DEF Receive
  <2> DEFINE q == Head(net[<<m, n>>])
  <2>2. \/ OnRequestVote(n, m, q)
        \/ \E up \in SUBSET node[n].others : OnResponseVote(n, m, q, up)
        \/ OnAppendEntries(n, m, q)
        \/ OnNextNodeIdx(n, m, q)
        \/ OnApplyCommand(n, m, q)
        \/ OnApplyCommandResponse(n, m, q)
    BY <1>3 DEF Receive
  <2>3. Kept(node', net', unused, restarts)
    <3>1. CASE OnRequestVote(n, m, q)
      BY <1>1, <2>1, <3>1, OnRequestVoteKept
    <3>2. ASSUME NEW up, OnResponseVote(n, m, q, up)
          PROVE  Kept(node', net', unused, restarts)
      BY <1>1, <2>1, <3>2, OnResponseVoteKept
    <3>3. CASE OnAppendEntries(n, m, q)
      BY <1>1, <2>1, <3>3, OnAppendEntriesKept
    <3>4. CASE OnNextNodeIdx(n, m, q)
      BY <1>1, <2>1, <3>4, OnNextNodeIdxKept
    <3>5. CASE OnApplyCommand(n, m, q)
      BY <1>1, <2>1, <3>5, OnApplyCommandKept
    <3>6. CASE OnApplyCommandResponse(n, m, q)
      BY <1>1, <2>1, <3>6, OnApplyCommandResponseKept
    <3> QED BY <2>2, <3>1, <3>2, <3>3, <3>4, <3>5, <3>6
  <2> QED BY <2>1, <2>3
<1>4. ASSUME NEW n \in Node, NEW cmd \in Submittable, Submit(n, cmd)
      PROVE  Kept(node', net', unused', restarts')
  <2>1. Kept(node', net', unused', restarts)
    BY <1>1, <1>4, SubmitKept
  <2>2. restarts' = restarts
    BY <1>4 DEF Submit
  <2> QED BY <2>1, <2>2
<1>5. ASSUME NEW n \in Node, NEW m \in Peers(n), Disconnect(m, n)
      PROVE  Kept(node', net', unused', restarts')
  <2>1. /\ Cut({<<m, n>>, <<n, m>>})
        /\ node' = node /\ unused' = unused /\ restarts' = restarts
    BY <1>5 DEF Disconnect
  <2>2. Fewer(net', net)
    BY <2>1, CutFewer
  <2>3. Marked(net')
    BY <1>1, <2>2, FewerMarked DEF Shaped, Kept
  <2> QED BY <2>1, <2>3 DEF Kept
<1>6. ASSUME NEW n \in Node, Restart(n)
      PROVE  Kept(node', net', unused', restarts')
  BY <1>1, <1>6, RestartKept
<1>7. CASE UNCHANGED vars
  BY <1>7 DEF vars
<1> QED
  <2>1. CASE Next
    BY <1>2, <1>3, <1>4, <1>5, <1>6, <2>1 DEF Next
  <2> QED BY <1>7, <2>1

\* The places that CallbackKept counts.
Counted(cmd) == UNION {{n} \X Places(n, cmd) : n \in Node}

\* Every place that CallbackKept counts is one holder.
LEMMA HoldersCounted ==
  ASSUME Kept(node, net, unused, restarts), NEW X \in Watched
  PROVE  /\ \A p, q \in Counted(X) : p = q
         /\ (\E n \in Node : Has(node[n], X)) => Counted(X) # {}
<1> DEFINE Key(k, v) == CASE k = "queue" -> v [] k = "reply" -> v.id
                          [] k = "waits" -> v.idx [] k = "called" -> v.reason
<1>1. ASSUME NEW n \in Node, NEW x
      PROVE  x \in Places(n, X) <=> \E k, v : Holds(node[n], X, k, v) /\ x = <<k, Key(k, v)>>
  <2>1. x \in Places(n, X) <=>
          \/ \E v : Holds(node[n], X, "queue", v) /\ x = <<"queue", v>>
          \/ \E v : Holds(node[n], X, "reply", v) /\ x = <<"reply", v.id>>
          \/ \E v : Holds(node[n], X, "waits", v) /\ x = <<"waits", v.idx>>
          \/ \E v : Holds(node[n], X, "called", v) /\ x = <<"called", v.reason>>
    BY DEF Places, Holds
  <2>2. \A k, v : Holds(node[n], X, k, v) => k \in {"queue", "reply", "waits", "called"}
    BY DEF Holds
  <2>3. \A v : /\ Key("queue", v) = v /\ Key("reply", v) = v.id
               /\ Key("waits", v) = v.idx /\ Key("called", v) = v.reason
    OBVIOUS
  <2> HIDE DEF Key
  <2> QED BY <2>1, <2>2, <2>3
<1> HIDE DEF Key
<1>2. \A p : p \in Counted(X) <=>
        \E n \in Node : \E x \in Places(n, X) : p = <<n, x>>
  BY DEF Counted
<1>3. ASSUME NEW p \in Counted(X)
      PROVE  \E n \in Node : \E k, v : Holds(node[n], X, k, v) /\ p = <<n, <<k, Key(k, v)>>>>
  BY <1>1, <1>2
<1>4. \A p, q \in Counted(X) : p = q
  <2> SUFFICES ASSUME NEW p \in Counted(X), NEW q \in Counted(X)
               PROVE  p = q
    OBVIOUS
  <2>1. PICK m \in Node : \E k, v : Holds(node[m], X, k, v) /\ p = <<m, <<k, Key(k, v)>>>>
    BY <1>3
  <2>2. PICK n \in Node : \E k, v : Holds(node[n], X, k, v) /\ q = <<n, <<k, Key(k, v)>>>>
    BY <1>3
  <2>3. m = n /\ Single(node[n], X)
    BY <2>1, <2>2 DEF Kept, Keeping, Has
  <2> QED BY <2>1, <2>2, <2>3 DEF Single
<1>5. ASSUME NEW n \in Node, Has(node[n], X)
      PROVE  Counted(X) # {}
  <2>1. PICK k, v : Holds(node[n], X, k, v)
    BY <1>5 DEF Has
  <2>2. <<k, Key(k, v)>> \in Places(n, X)
    BY <1>1, <2>1
  <2> QED BY <1>2, <2>2
<1> QED BY <1>4, <1>5

\* So a callback that somebody holds is counted once.
LEMMA HeldOnce ==
  ASSUME Kept(node, net, unused, restarts), NEW X \in Watched
  PROVE  /\ Cardinality(Counted(X)) <= 1
         /\ (\E n \in Node : Has(node[n], X)) => Cardinality(Counted(X)) = 1
<1>1. CASE Counted(X) = {}
  <2>1. Cardinality(Counted(X)) = 0
    BY <1>1, FS_EmptySet
  <2> QED BY <1>1, <2>1, HoldersCounted
<1>2. CASE Counted(X) # {}
  <2>1. PICK p : Counted(X) = {p}
    BY <1>2, HoldersCounted
  <2>2. Cardinality({p}) = 1
    BY FS_Singleton
  <2> QED BY <2>1, <2>2
<1> QED BY <1>1, <1>2

\* A callback is in one place at most and called at most once, whatever happens:
\* whatever leaders and connections come and go, nodes and threads end, and
\* answers come late or belong to a request of before a restart.
THEOREM CallbacksCalledOnce == Spec => [](\A X \in Watched : Cardinality(Counted(X)) <= 1)
<1> DEFINE K == Kept(node, net, unused, restarts)
<1>1. Init => Inv /\ K
  BY InitInv, InitKept
<1>2. Inv /\ K /\ [Next]_vars => Inv' /\ K'
  BY NextInv, NextKept
<1>3. K => \A X \in Watched : Cardinality(Counted(X)) <= 1
  BY HeldOnce
<1> HIDE DEF K
<1> QED BY <1>1, <1>2, <1>3, PTL DEF Spec

\* Nor is a callback lost, unless its node restarts or its thread has ended with
\* the assertion on an answer's index.
THEOREM CallbacksKept ==
  Spec => []((\A n \in Node : node[n].state # "ENDED") => CallbackKept)
<1> DEFINE K == Kept(node, net, unused, restarts)
<1>1. Init => Inv /\ K
  BY InitInv, InitKept
<1>2. Inv /\ K /\ [Next]_vars => Inv' /\ K'
  BY NextInv, NextKept
<1>3. K => ((\A n \in Node : node[n].state # "ENDED") => CallbackKept)
  <2> SUFFICES ASSUME K, \A n \in Node : node[n].state # "ENDED", NEW X \in Watched
               PROVE  /\ Cardinality(Counted(X)) <= 1
                      /\ restarts = 0 /\ X \notin unused => Cardinality(Counted(X)) = 1
    BY DEF CallbackKept, Counted
  <2>1. restarts = 0 /\ X \notin unused => \E n \in Node : Has(node[n], X)
    BY DEF Kept, Keeping
  <2> QED BY <2>1, HeldOnce
<1> HIDE DEF K
<1> QED BY <1>1, <1>2, <1>3, PTL DEF Spec

-----------------------------------------------------------------------------
(***************************************************************************)
(* The list of nodes that a log describes, if no node is the subject of    *)
(* two changes.                                                            *)
(***************************************************************************)
ChangedOnce == \A c, d \in Change : c.node = d.node => c = d

\* A change of the list that every node starts with.
Effective(c) == c.op = "rem" <=> c.node \in Cluster

\* The list of n once the changes in S are in force.
Listing(n, S) == {m \in Peers(n) : m \in Cluster <=> ~\E c \in S : c.node = m}

\* c is one more than the changes in S.
Further(S, c) == S \in SUBSET Change /\ c \in Change /\ c \notin S /\ Effective(c)

Forth(r, n, c) == DoChangeCluster(r, n, c, FALSE)

Back(r, n, c) == DoChangeCluster(r, n, c, TRUE)

\* Doing it, or undoing it.
LEMMA ChangeLists ==
  ASSUME ChangedOnce, NEW n \in Node, NEW r, Wellformed(n, r), NEW S, NEW c, Further(S, c)
  PROVE  /\ r.others = Listing(n, S) => Forth(r, n, c).others = Listing(n, S \union {c})
         /\ r.others = Listing(n, S \union {c}) => Back(r, n, c).others = Listing(n, S)
<1> DEFINE m == c.node
           adding(reverse) == (c.op = "add") # reverse
           o(reverse) == IF adding(reverse) THEN r.others \union {m} ELSE r.others \ {m}
<1>0. S \in SUBSET Change /\ c \in Change /\ c \notin S /\ Effective(c)
  BY DEF Further
<1>1. r \in Fields /\ m \in Node /\ c.op \in {"add", "rem"}
  BY <1>0, RaftAssumption DEF Wellformed
<1>2. /\ \A d \in S : d.node # m
      /\ c.op = "rem" <=> m \in Cluster
  BY <1>0 DEF ChangedOnce, Effective
<1>3. ASSUME NEW reverse \in BOOLEAN
      PROVE  DoChangeCluster(r, n, c, reverse).others =
                IF Refused(r, n, adding(reverse), m) THEN r.others ELSE o(reverse)
  <2>1. CASE Refused(r, n, adding(reverse), m)
    BY <2>1 DEF DoChangeCluster
  <2>2. CASE ~Refused(r, n, adding(reverse), m)
    <3>1. PICK k : DoChangeCluster(r, n, c, reverse) =
                     [r EXCEPT !.others = o(reverse), !.next[m] = k, !.match[m] = 0]
      BY <1>1, <2>2, Zenon DEF DoChangeCluster, Fields
    <3> HIDE DEF o
    <3> QED BY <1>1, <2>2, <3>1 DEF Fields
  <2> QED BY <2>1, <2>2
<1>4. CASE m = n
  <2>1. Listing(n, S \union {c}) = Listing(n, S)
    BY <1>4 DEF Listing, Peers
  <2>2. \A reverse \in BOOLEAN : Refused(r, n, adding(reverse), m)
    BY <1>4 DEF Refused
  <2> HIDE DEF adding, o
  <2> QED BY <1>3, <2>1, <2>2 DEF Forth, Back
<1>5. CASE m # n
  <2>1. m \in Peers(n) /\ \A k \in Peers(n) \ {m} : k \in Listing(n, S) <=> k \in Listing(n, S \union {c})
    BY <1>1, <1>5 DEF Listing, Peers
  <2>2. /\ m \in Listing(n, S) <=> m \in Cluster
        /\ m \in Listing(n, S \union {c}) <=> m \notin Cluster
    BY <1>2, <2>1 DEF Listing
  <2>3. Listing(n, S) \subseteq Peers(n) /\ Listing(n, S \union {c}) \subseteq Peers(n)
    BY DEF Listing
  <2>4. ASSUME r.others = Listing(n, S)
        PROVE  Forth(r, n, c).others = Listing(n, S \union {c})
    <3>1. adding(FALSE) <=> m \notin Cluster
      BY <1>1, <1>2
    <3>2. ~Refused(r, n, adding(FALSE), m)
      BY <1>5, <2>2, <2>4, <3>1 DEF Refused
    <3>3. o(FALSE) = Listing(n, S \union {c})
      <4> HIDE DEF adding
      <4> QED BY <2>1, <2>2, <2>3, <2>4, <3>1
    <3> HIDE DEF adding, o
    <3> QED BY <1>3, <3>2, <3>3 DEF Forth, Back
  <2>5. ASSUME r.others = Listing(n, S \union {c})
        PROVE  Back(r, n, c).others = Listing(n, S)
    <3>1. adding(TRUE) <=> m \in Cluster
      BY <1>1, <1>2
    <3>2. ~Refused(r, n, adding(TRUE), m)
      BY <1>5, <2>2, <2>5, <3>1 DEF Refused
    <3>3. o(TRUE) = Listing(n, S)
      <4> HIDE DEF adding
      <4> QED BY <2>1, <2>2, <2>3, <2>5, <3>1
    <3> HIDE DEF adding, o
    <3> QED BY <1>3, <3>2, <3>3 DEF Forth, Back
  <2> QED BY <2>4, <2>5
<1> QED BY <1>4, <1>5

\* The changes among the entries at the indexes U.
ChangesAt(entries, U) == {c \in Change : \E i \in U : entries[i].cmd = c}

\* The changes among entries are effective ones, none twice and none in S.
Fresh(entries, S) ==
    /\ \A i \in DOMAIN entries :
          entries[i].cmd \in Change => Effective(entries[i].cmd) /\ entries[i].cmd \notin S
    /\ \A i, j \in DOMAIN entries :
          entries[i].cmd \in Change /\ entries[i].cmd = entries[j].cmd => i = j

\* One of the entries more or less.
LEMMA ChangesButOne ==
  ASSUME NEW entries, NEW S \in SUBSET Change, Fresh(entries, S),
         NEW U \in SUBSET DOMAIN entries, NEW i \in U
  PROVE  LET c == entries[i].cmd
             T == S \union ChangesAt(entries, U \ {i})
         IN  /\ T \in SUBSET Change
             /\ S \union ChangesAt(entries, U) = IF c \in Change THEN T \union {c} ELSE T
             /\ c \in Change => c \notin T /\ Effective(c)
<1> DEFINE c == entries[i].cmd
           T == S \union ChangesAt(entries, U \ {i})
<1>1. T \in SUBSET Change
  BY DEF ChangesAt
<1>2. ChangesAt(entries, U) = IF c \in Change THEN ChangesAt(entries, U \ {i}) \union {c}
                                              ELSE ChangesAt(entries, U \ {i})
  BY DEF ChangesAt
<1>3. c \in Change => c \notin T /\ Effective(c)
  BY DEF ChangesAt, Fresh
<1> QED BY <1>1, <1>2, <1>3

\* Done from the list of S, they lead to the list with them.
LEMMA RedoLists ==
  ASSUME ChangedOnce, NEW n \in Node, NEW r, Wellformed(n, r), NEW entries \in Seq(Entry),
         NEW S \in SUBSET Change, Fresh(entries, S), r.others = Listing(n, S)
  PROVE  Redo(r, n, entries).others = Listing(n, S \union ChangesAt(entries, DOMAIN entries))
<1> DEFINE D == DOMAIN entries
<1>1. PICK f, c : Redo(r, n, entries) = f[D] /\ Worked(f, r, n, entries, FALSE, c)
  BY RedoWorks
<1> DEFINE Claim(U) == f[U].others = Listing(n, S \union ChangesAt(entries, U))
           G == {U \in SUBSET D : Claim(U)}
<1>2. IsFiniteSet(D)
  BY LenProperties, FS_Interval
<1>3. ASSUME NEW U \in SUBSET D, \A V \in SUBSET U : V # U => V \in G
      PROVE  U \in G
  <2>1. CASE U = {}
    <3>1. ChangesAt(entries, U) = {} /\ f[U] = r
      BY <1>1, <2>1 DEF ChangesAt, Worked
    <3> QED BY <3>1
  <2>2. CASE U # {}
    <3> DEFINE i == c[U]
               V == U \ {i}
               d == entries[i].cmd
               T == S \union ChangesAt(entries, V)
    <3>1. i \in U /\ V \in SUBSET D /\ V \in G /\ f[U] = Done(f[V], n, entries[i], FALSE)
          /\ f[V] \in Reconfigured(n, r)
      BY <1>1, <1>3, <2>2 DEF Worked
    <3>2. /\ T \in SUBSET Change
          /\ S \union ChangesAt(entries, U) = IF d \in Change THEN T \union {d} ELSE T
          /\ d \in Change => d \notin T /\ Effective(d)
      BY <3>1, ChangesButOne
    <3>3. Wellformed(n, f[V]) /\ f[V].others = Listing(n, T)
      BY <3>1 DEF Reconfigured
    <3>4. f[U].others = Listing(n, S \union ChangesAt(entries, U))
      <4> HIDE DEF i, V, T
      <4>1. CASE d \in Change
        <5>1. Forth(f[V], n, d).others = Listing(n, T \union {d})
          <6> DEFINE v == f[V]
          <6>1. Wellformed(n, v) /\ v.others = Listing(n, T)
            BY <3>3
          <6>2. Further(T, d)
            BY <3>2, <4>1 DEF Further
          <6> HIDE DEF v, d
          <6>3. Forth(v, n, d).others = Listing(n, T \union {d})
            BY <6>1, <6>2, ChangeLists
          <6> QED BY <6>3 DEF v
        <5> QED BY <3>1, <3>2, <4>1, <5>1 DEF Done, Forth
      <4>2. CASE d \notin Change
        BY <3>1, <3>2, <3>3, <4>2 DEF Done
      <4> QED BY <4>1, <4>2
    <3> QED BY <3>4
  <2> QED BY <2>1, <2>2
<1>4. G = SUBSET D
  <2>1. G \in SUBSET SUBSET D
    OBVIOUS
  <2> HIDE DEF G, D
  <2> QED BY <1>2, <1>3, <2>1, SubsetInduction
<1> QED BY <1>1, <1>4

\* Undone from the list with them, they lead back to the list of S.
LEMMA UndoLists ==
  ASSUME ChangedOnce, NEW n \in Node, NEW r, Wellformed(n, r), NEW entries \in Seq(Entry),
         NEW S \in SUBSET Change, Fresh(entries, S),
         r.others = Listing(n, S \union ChangesAt(entries, DOMAIN entries))
  PROVE  Undo(r, n, entries).others = Listing(n, S)
<1> DEFINE D == DOMAIN entries
<1>1. PICK f, c : Undo(r, n, entries) = f[D] /\ Worked(f, r, n, entries, TRUE, c)
  BY UndoWorks
<1> DEFINE Claim(U) == f[U].others = Listing(n, S \union ChangesAt(entries, D \ U))
           G == {U \in SUBSET D : Claim(U)}
<1>2. IsFiniteSet(D)
  BY LenProperties, FS_Interval
<1>3. ASSUME NEW U \in SUBSET D, \A V \in SUBSET U : V # U => V \in G
      PROVE  U \in G
  <2>1. CASE U = {}
    <3>1. f[U] = r /\ D \ U = D
      BY <1>1, <2>1 DEF Worked
    <3> QED BY <3>1
  <2>2. CASE U # {}
    <3> DEFINE i == c[U]
               V == U \ {i}
               W == D \ V
               d == entries[i].cmd
               T == S \union ChangesAt(entries, W \ {i})
    <3>1. i \in U /\ V \in SUBSET D /\ V \in G /\ f[U] = Done(f[V], n, entries[i], TRUE)
          /\ f[V] \in Reconfigured(n, r)
      BY <1>1, <1>3, <2>2 DEF Worked
    <3>2. i \in W /\ W \in SUBSET D /\ W \ {i} = D \ U
      BY <3>1
    <3>3. /\ T \in SUBSET Change
          /\ S \union ChangesAt(entries, W) = IF d \in Change THEN T \union {d} ELSE T
          /\ d \in Change => d \notin T /\ Effective(d)
      <4> HIDE DEF W, i
      <4> QED BY <3>2, ChangesButOne
    <3>4. Wellformed(n, f[V]) /\ f[V].others = Listing(n, S \union ChangesAt(entries, W))
      BY <3>1 DEF Reconfigured
    <3>5. f[U].others = Listing(n, T)
      <4> HIDE DEF i, V, T, W
      <4>1. CASE d \in Change
        <5>1. Back(f[V], n, d).others = Listing(n, T)
          <6> DEFINE v == f[V]
          <6>1. Further(T, d)
            BY <3>3, <4>1 DEF Further
          <6>2. Wellformed(n, v) /\ v.others = Listing(n, T \union {d})
            BY <3>3, <3>4, <4>1
          <6> HIDE DEF v, d
          <6>3. Back(v, n, d).others = Listing(n, T)
            BY <6>1, <6>2, ChangeLists
          <6> QED BY <6>3 DEF v
        <5> QED BY <3>1, <4>1, <5>1 DEF Done, Back
      <4>2. CASE d \notin Change
        BY <3>1, <3>3, <3>4, <4>2 DEF Done
      <4> QED BY <4>1, <4>2
    <3> QED BY <3>2, <3>5
  <2> QED BY <2>1, <2>2
<1>4. G = SUBSET D
  <2>1. G \in SUBSET SUBSET D
    OBVIOUS
  <2> HIDE DEF G, D
  <2> QED BY <1>2, <1>3, <2>1, SubsetInduction
<1>5. f[D].others = Listing(n, S \union ChangesAt(entries, D \ D))
  BY <1>4
<1>6. ChangesAt(entries, D \ D) = {}
  BY DEF ChangesAt
<1> QED BY <1>1, <1>5, <1>6

-----------------------------------------------------------------------------
(***************************************************************************)
(* The changes that a log describes.                                       *)
(***************************************************************************)
Changes(entries) == ChangesAt(entries, DOMAIN entries)

\* n's list is the one that its log describes.
Tracks(n, r) == r.others = Listing(n, Changes(r.log))

\* Changes that are in a log change something.
Lasting(at) == \A c \in Change : at[c] # 0 => Effective(c)

\* The entries belong behind index p.
Follows(entries, p, at) ==
    \A i \in DOMAIN entries :
        entries[i].cmd \in Submittable => at[entries[i].cmd] = p + i

\* There they are fresh, for at has a place for each command.
LEMMA FollowsFresh ==
  ASSUME NEW at, Lasting(at), NEW entries \in Seq(Entry), NEW p \in Nat, Follows(entries, p, at),
         NEW S, \A c \in S : at[c] \in 0 .. p
  PROVE  Fresh(entries, S)
<1>1. DOMAIN entries \subseteq Nat \ {0} /\ Change \subseteq Submittable
  BY LenProperties DEF Submittable
<1>2. ASSUME NEW i \in DOMAIN entries, entries[i].cmd \in Change
      PROVE  at[entries[i].cmd] = p + i /\ p + i > p /\ p + i # 0
  BY <1>1, <1>2 DEF Follows
<1>3. \A i \in DOMAIN entries :
         entries[i].cmd \in Change => Effective(entries[i].cmd) /\ entries[i].cmd \notin S
  BY <1>2 DEF Lasting
<1>4. ASSUME NEW i \in DOMAIN entries, NEW j \in DOMAIN entries,
             entries[i].cmd \in Change, entries[i].cmd = entries[j].cmd
      PROVE  i = j
  <2>1. p + i = p + j
    BY <1>2, <1>4
  <2> QED BY <1>1, <2>1
<1> QED BY <1>3, <1>4 DEF Fresh

\* The changes in two parts of a log.
LEMMA CutChanges ==
  ASSUME NEW s \in Seq(Entry), NEW p \in 1 .. Len(s)
  PROVE  LET front == SubSeq(s, 1, p)
             back == SubSeq(s, p + 1, Len(s))
         IN  /\ front \in Seq(Entry) /\ back \in Seq(Entry)
             /\ Changes(s) = Changes(front) \union Changes(back)
             /\ \A i \in DOMAIN front : i \in 1 .. p /\ i \in DOMAIN s /\ front[i] = s[i]
             /\ \A i \in DOMAIN back : i \in Nat /\ p + i \in DOMAIN s /\ back[i] = s[p + i]
<1> DEFINE front == SubSeq(s, 1, p)
           back == SubSeq(s, p + 1, Len(s))
<1>1. Len(s) \in Nat /\ DOMAIN s = 1 .. Len(s) /\ \A i \in 1 .. Len(s) : s[i] \in Entry
  BY LenProperties, ElementOfSeq
<1>2. /\ front \in Seq(Entry) /\ Len(front) = p /\ \A i \in 1 .. p : front[i] = s[1 + i - 1]
      /\ back \in Seq(Entry) /\ Len(back) = Len(s) - p
      /\ \A i \in 1 .. Len(s) - p : back[i] = s[(p + 1) + i - 1]
  <2>1. \A i \in 1 .. p : s[i] \in Entry
    BY <1>1
  <2>2. /\ front \in Seq(Entry) /\ Len(front) = p /\ \A i \in 1 .. p : front[i] = s[1 + i - 1]
    BY <1>1, <2>1, SubSeqProperties
  <2>3. back \in Seq(Entry) /\ Len(back) = Len(s) - p
        /\ \A i \in 1 .. Len(s) - p : back[i] = s[(p + 1) + i - 1]
    <3>1. p + 1 \in Int /\ Len(s) \in Int /\ \A i \in p + 1 .. Len(s) : s[i] \in Entry
      BY <1>1
    <3>2. /\ back \in Seq(Entry) /\ Len(back) = IF p + 1 <= Len(s) THEN Len(s) - (p + 1) + 1 ELSE 0
          /\ \A i \in 1 .. Len(back) : back[i] = s[(p + 1) + i - 1]
      BY <3>1, SubSeqProperties
    <3>3. Len(back) = Len(s) - p
      BY <1>1, <3>2
    <3> QED BY <3>2, <3>3
  <2> QED BY <2>2, <2>3
<1> HIDE DEF front, back
<1>3. DOMAIN front = 1 .. p /\ DOMAIN back = 1 .. Len(s) - p
  BY <1>1, <1>2, LenProperties
<1>4. \A i \in DOMAIN front : i \in 1 .. p /\ i \in DOMAIN s /\ front[i] = s[i]
  BY <1>1, <1>2, <1>3
<1>5. \A i \in DOMAIN back : i \in Nat /\ p + i \in DOMAIN s /\ back[i] = s[p + i]
  BY <1>1, <1>2, <1>3
<1>6. ASSUME NEW i \in DOMAIN s
      PROVE  \/ i \in DOMAIN front /\ front[i] = s[i]
             \/ i - p \in DOMAIN back /\ back[i - p] = s[i]
  <2>1. i - p \in DOMAIN back => back[i - p] = s[p + (i - p)]
    BY <1>5
  <2> QED BY <1>1, <1>3, <1>4, <2>1
<1>7. Changes(s) = Changes(front) \union Changes(back)
  BY <1>4, <1>5, <1>6 DEF Changes, ChangesAt
<1> QED BY <1>2, <1>4, <1>5, <1>7 DEF front, back

\* The changes in two logs in a row.
LEMMA JoinChanges ==
  ASSUME NEW s \in Seq(Entry), NEW t \in Seq(Entry)
  PROVE  Changes(s \o t) = Changes(s) \union Changes(t)
<1> DEFINE u == s \o t
<1>1. /\ u \in Seq(Entry) /\ Len(u) = Len(s) + Len(t)
      /\ \A i \in 1 .. Len(s) + Len(t) : u[i] = IF i <= Len(s) THEN s[i] ELSE t[i - Len(s)]
  BY ConcatProperties
<1> HIDE DEF u
<1>2. /\ DOMAIN u = 1 .. Len(s) + Len(t) /\ Len(s) \in Nat /\ Len(t) \in Nat
      /\ DOMAIN s = 1 .. Len(s) /\ DOMAIN t = 1 .. Len(t)
  BY <1>1, LenProperties
<1>3. \A i \in DOMAIN s : i \in DOMAIN u /\ u[i] = s[i]
  BY <1>1, <1>2
<1>4. \A i \in DOMAIN t : i + Len(s) \in DOMAIN u /\ u[i + Len(s)] = t[i]
  BY <1>1, <1>2
<1>5. \A i \in DOMAIN u : \/ i \in DOMAIN s /\ u[i] = s[i]
                          \/ i - Len(s) \in DOMAIN t /\ u[i] = t[i - Len(s)]
  BY <1>1, <1>2
<1>6. Changes(u) = Changes(s) \union Changes(t)
  BY <1>3, <1>4, <1>5 DEF Changes, ChangesAt
<1> QED BY <1>6 DEF u

\* The changes in a log with one more entry.
LEMMA AppendChanges ==
  ASSUME NEW s \in Seq(Entry), s # << >>, NEW e \in Entry
  PROVE  Changes(Append(s, e)) = IF e.cmd \in Change THEN Changes(s) \union {e.cmd} ELSE Changes(s)
<1> DEFINE u == Append(s, e)
           l == Len(s) + 1
<1>1. /\ u \in Seq(Entry) /\ Len(u) = l /\ \A i \in 1 .. Len(s) : u[i] = s[i]
      /\ u[l] = e /\ Len(s) \in Nat
  BY AppendType
<1> HIDE DEF u
<1>2. DOMAIN u = 1 .. l /\ DOMAIN s = 1 .. Len(s)
  BY <1>1, LenProperties
<1>3. l \in DOMAIN u /\ \A i \in DOMAIN s : i \in DOMAIN u /\ u[i] = s[i]
  BY <1>1, <1>2
<1>4. \A i \in DOMAIN u : (i \in DOMAIN s /\ u[i] = s[i]) \/ u[i] = e
  BY <1>1, <1>2
<1>5. Changes(u) = IF e.cmd \in Change THEN Changes(s) \union {e.cmd} ELSE Changes(s)
  BY <1>1, <1>3, <1>4 DEF Changes, ChangesAt
<1> QED BY <1>5 DEF u

-----------------------------------------------------------------------------
(***************************************************************************)
(* What the operators do to the list.                                      *)
(***************************************************************************)
\* Only the log and the list matter.
LEMMA SameTracks ==
  ASSUME NEW n, NEW r, NEW s, s.log = r.log, s.others = r.others
  PROVE  Tracks(n, s) <=> Tracks(n, r)
BY DEF Tracks

\* A change that a node does not refuse, and that no log has, is effective.
LEMMA PassedFurther ==
  ASSUME ChangedOnce, NEW n \in Node, NEW r, Wellformed(n, r), Tracks(n, r),
         NEW at, Indexed(r, at), NEW c \in Change, at[c] = 0,
         ~Refused(r, n, c.op = "add", c.node)
  PROVE  Further(Changes(r.log), c)
<1>1. Change \subseteq Submittable /\ c.op \in {"add", "rem"} /\ c.node \in Node
  BY RaftAssumption DEF Submittable
<1>2. DOMAIN r.log = 1 .. Len(r.log)
  BY WellformedLog
<1>3. c \notin Changes(r.log)
  BY <1>1, <1>2 DEF Changes, ChangesAt, Indexed
<1>4. Changes(r.log) \in SUBSET Change
  BY DEF Changes, ChangesAt
<1>5. \A d \in Changes(r.log) : d.node # c.node
  BY <1>3, <1>4 DEF ChangedOnce
<1>6. c.node \in Peers(n) /\ ~(c.op = "add" <=> c.node \in r.others)
  BY <1>1 DEF Refused, Peers
<1>7. c.node \in r.others <=> c.node \in Cluster
  BY <1>5, <1>6 DEF Tracks, Listing
<1> QED BY <1>1, <1>3, <1>4, <1>6, <1>7 DEF Further, Effective

\* A new leader's no-op is no change.
LEMMA LeadTracks ==
  ASSUME NEW n \in Node, NEW r, Wellformed(n, r), Tracks(n, r)
  PROVE  Tracks(n, BecomeLeader(r, n))
<1> DEFINE e == [cmd |-> NoOp, term |-> r.term]
           s == BecomeLeader(r, n)
<1>1. s.log = Append(r.log, e) /\ s.others = r.others
  BY BecomeLeaderType
<1>2. e \in Entry /\ e.cmd \notin Change /\ r.log \in Seq(Entry) /\ r.log # << >>
  BY WellformedLog, RaftAssumption DEF Entry, Term
<1> HIDE DEF e, s
<1>3. Changes(Append(r.log, e)) = Changes(r.log)
  BY <1>2, AppendChanges
<1> QED BY <1>1, <1>3 DEF Tracks, s

\* A leader makes the changes that it appends.
LEMMA AcceptTracks ==
  ASSUME ChangedOnce, NEW n \in Node, NEW r, Wellformed(n, r), Tracks(n, r),
         NEW at, Indexed(r, at), NEW q \in QueuedCommand, at[q.cmd] = 0
  PROVE  Tracks(n, Accept(r, n, q))
<1>1. CASE Denied(r, n, q.cmd)
  <2>1. Callback(q) \subseteq Submittable /\ "REQUEST_DENIED" \in Reasons
    BY DEF Callback, QueuedCommand, Reasons
  <2>2. Accept(r, n, q) = Call(r, Callback(q), "REQUEST_DENIED")
    BY <1>1 DEF Accept
  <2>3. Alike(r, Accept(r, n, q))
    BY <2>1, <2>2, CallType
  <2> QED BY <2>3, SameTracks DEF Alike
<1>2. CASE ~Denied(r, n, q.cmd)
  <2> DEFINE c == IF q.cmd \in Change THEN DoChangeCluster(r, n, q.cmd, FALSE) ELSE r
             e == [cmd |-> q.cmd, term |-> r.term]
             w == {[idx |-> Len(r.log) + 1, term |-> r.term, cmd |-> k] : k \in Callback(q)}
  <2>1. c \in Reconfigured(n, r)
    <3>1. r \in Reconfigured(n, r)
      BY DEF Reconfigured, Wellformed
    <3> QED BY <3>1, DoChangeClusterType
  <2>2. c \in Fields /\ c.log = r.log
    BY <2>1 DEF Reconfigured
  <2>3. Accept(r, n, q) = [c EXCEPT !.log = Append(@, e), !.waits = @ \union w]
    BY <1>2 DEF Accept
  <2>c. c = IF q.cmd \in Change THEN Forth(r, n, q.cmd) ELSE r
    BY DEF Forth
  <2>e. e.cmd = q.cmd
    OBVIOUS
  <2>4. e \in Entry /\ r.log \in Seq(Entry) /\ r.log # << >>
    BY WellformedLog DEF Entry, Term, QueuedCommand
  <2> HIDE DEF c, e, w
  <2>5. Accept(r, n, q).log = Append(r.log, e) /\ Accept(r, n, q).others = c.others
    BY <2>2, <2>3 DEF Fields
  <2>6. Changes(Append(r.log, e)) = IF q.cmd \in Change THEN Changes(r.log) \union {q.cmd} ELSE Changes(r.log)
    BY <2>4, <2>e, AppendChanges
  <2>7. CASE q.cmd \in Change
    <3>1. ~Refused(r, n, q.cmd.op = "add", q.cmd.node)
      BY <1>2, <2>7 DEF Denied, MayChange
    <3>2. Further(Changes(r.log), q.cmd)
      BY <2>7, <3>1, PassedFurther
    <3>3. Forth(r, n, q.cmd).others = Listing(n, Changes(r.log) \union {q.cmd})
      BY <3>2, ChangeLists DEF Tracks
    <3> QED BY <2>c, <2>5, <2>6, <2>7, <3>3 DEF Tracks
  <2>8. CASE q.cmd \notin Change
    BY <2>c, <2>5, <2>6, <2>8 DEF Tracks
  <2> QED BY <2>7, <2>8
<1> QED BY <1>1, <1>2

\* A follower undoes the changes that it deletes and makes those that it takes.
LEMMA AppendToTracks ==
  ASSUME ChangedOnce, NEW n \in Node, NEW r, Wellformed(n, r), Tracks(n, r),
         NEW at, Lasting(at), Indexed(r, at),
         NEW q \in Appends, q.prevLogIdx \in DOMAIN r.log, Brings(q, at)
  PROVE  Tracks(n, AppendTo(r, n, q))
<1> DEFINE p == q.prevLogIdx
           e == q.entries
           front == SubSeq(r.log, 1, p)
           back == SubSeq(r.log, p + 1, Len(r.log))
           s == AppendTo(r, n, q)
           undone == Undo(r, n, back)
           redone == Redo(undone, n, e)
           log == front \o e
<1>1. /\ p \in 1 .. Len(r.log) /\ Len(r.log) \in Nat /\ r.log \in Seq(Entry)
      /\ DOMAIN r.log = 1 .. Len(r.log) /\ p \in Nat
      /\ e \in Seq(Entry) /\ q.type = "append_entries"
  BY WellformedLog DEF Appends, Log
<1>2. /\ front \in Seq(Entry) /\ back \in Seq(Entry)
      /\ Changes(r.log) = Changes(front) \union Changes(back)
      /\ \A i \in DOMAIN front : i \in 1 .. p /\ i \in DOMAIN r.log /\ front[i] = r.log[i]
      /\ \A i \in DOMAIN back : i \in Nat /\ p + i \in DOMAIN r.log /\ back[i] = r.log[p + i]
  BY <1>1, CutChanges
<1>3. s = [redone EXCEPT !.log = log, !.commit = Min({q.commit, Len(log)})]
  BY DEF AppendTo
<1>4. Changes(log) = Changes(front) \union Changes(e)
  BY <1>1, <1>2, JoinChanges
<1>u. undone = Undo(r, n, back) /\ redone = Redo(undone, n, e)
  OBVIOUS
<1> HIDE DEF p, e, front, back, log, s, undone, redone
<1>5. \A c \in Changes(front) : at[c] \in 0 .. p
  <2>1. Change \subseteq Submittable
    BY DEF Submittable
  <2>2. ASSUME NEW c \in Change, NEW i \in DOMAIN front, front[i].cmd = c
        PROVE  at[c] \in 0 .. p
    <3>1. i \in 1 .. p /\ i \in DOMAIN r.log /\ r.log[i].cmd = c
      BY <1>2, <2>2
    <3>2. at[c] = i
      BY <2>1, <3>1 DEF Indexed
    <3> QED BY <1>1, <3>1, <3>2
  <2> QED BY <2>2 DEF Changes, ChangesAt
<1>6. Changes(front) \in SUBSET Change
  BY DEF Changes, ChangesAt
<1>7. Fresh(back, Changes(front))
  <2>1. Follows(back, p, at)
    BY <1>2 DEF Follows, Indexed
  <2> QED BY <1>1, <1>2, <1>5, <2>1, FollowsFresh
<1>8. Fresh(e, Changes(front))
  <2>1. Follows(e, p, at)
    BY <1>1 DEF Follows, Brings, p, e
  <2> QED BY <1>1, <1>5, <2>1, FollowsFresh
<1>9. undone.others = Listing(n, Changes(front)) /\ undone \in Reconfigured(n, r)
  <2>1. r.others = Listing(n, Changes(front) \union ChangesAt(back, DOMAIN back))
    BY <1>2 DEF Tracks, Changes
  <2>2. undone.others = Listing(n, Changes(front))
    BY <1>2, <1>6, <1>7, <1>u, <2>1, UndoLists
  <2> QED BY <1>2, <1>u, <2>2, UndoType
<1>10. redone.others = Listing(n, Changes(front) \union Changes(e)) /\ redone \in Fields
  <2>1. Wellformed(n, undone)
    BY <1>9 DEF Reconfigured
  <2>2. redone.others = Listing(n, Changes(front) \union ChangesAt(e, DOMAIN e))
    BY <1>1, <1>6, <1>8, <1>9, <1>u, <2>1, RedoLists
  <2>3. redone \in Reconfigured(n, undone)
    BY <1>1, <1>u, <2>1, RedoType
  <2> QED BY <2>2, <2>3 DEF Changes, Reconfigured
<1>11. s.log = log /\ s.others = redone.others
  BY <1>3, <1>10 DEF Fields
<1> QED BY <1>4, <1>10, <1>11 DEF Tracks, s

\* A node that starts has the list that it is told.
LEMMA NewNodeTracks ==
  ASSUME NEW n \in Node
  PROVE  Tracks(n, NewNode(n))
<1> DEFINE e == [cmd |-> NoOp, term |-> 0]
           r == NewNode(n)
<1>1. r.log = <<e>> /\ r.others = Cluster \ {n}
  BY DEF NewNode
<1>2. DOMAIN <<e>> = {1} /\ <<e>>[1].cmd \notin Change
  BY RaftAssumption
<1> HIDE DEF e, r
<1>3. Changes(<<e>>) = {}
  BY <1>2 DEF Changes, ChangesAt
<1>4. Listing(n, {}) = Cluster \ {n}
  BY RaftAssumption DEF Listing, Peers
<1> QED BY <1>1, <1>3, <1>4 DEF Tracks, r

\* A list that tracks the log is the one that the log leads to.
LEMMA TracksFollow ==
  ASSUME ChangedOnce, NEW n \in Node, NEW r, Wellformed(n, r), Tracks(n, r),
         NEW at, Lasting(at), Indexed(r, at)
  PROVE  r.others = Redo(NewNode(n), n, r.log).others
<1>1. r.log \in Seq(Entry)
  BY WellformedLog
<1>2. Fresh(r.log, {})
  <2>1. Follows(r.log, 0, at)
    BY WellformedLog DEF Follows, Indexed
  <2> QED BY <1>1, <2>1, FollowsFresh
<1>3. Listing(n, {}) = Cluster \ {n}
  BY RaftAssumption DEF Listing, Peers
<1>4. Wellformed(n, NewNode(n)) /\ NewNode(n).others = Cluster \ {n}
  BY NewNodeType
<1> DEFINE b == NewNode(n)
<1>5. Wellformed(n, b) /\ b.others = Listing(n, {}) /\ {} \in SUBSET Change
  BY <1>3, <1>4
<1> HIDE DEF b
<1>6. Redo(b, n, r.log).others = Listing(n, {} \union ChangesAt(r.log, DOMAIN r.log))
  BY <1>1, <1>2, <1>5, RedoLists
<1>7. {} \union ChangesAt(r.log, DOMAIN r.log) = Changes(r.log)
  BY DEF Changes
<1> QED BY <1>6, <1>7 DEF Tracks, b

-----------------------------------------------------------------------------
(***************************************************************************)
(* What the actions do to the list.                                        *)
(***************************************************************************)
\* What matters to the list is the same in r and s.
Level(r, s) == s.log = r.log /\ s.others = r.others

\* A pass of the raft thread.
LEMMA TickTracks ==
  ASSUME ChangedOnce, NEW at, Shaped(node, net), Placing(node, net, unused, at), NEW n \in Node,
         Tracks(n, node[n]),
         NEW expired \in BOOLEAN, NEW silent \in BOOLEAN, NEW due \in BOOLEAN, NEW takes \in BOOLEAN,
         MayFind(n, expired, silent, due), takes => node[n].queue # << >>,
         NEW up, Tick(n, expired, silent, due, takes, up)
  PROVE  \E r : node' = Put(node, n, r) /\ Tracks(n, r)
<1> DEFINE elected == IF expired THEN StartElection(node[n], n) ELSE node[n]
           committed == IF elected.state = "LEADER" THEN AdvanceCommit(elected, n) ELSE elected
           fallen == IF silent THEN FallBack(committed) ELSE committed
           ready == Apply(fallen)
           sent == IF due THEN AfterSending(ready, up) ELSE ready
           r == IF takes THEN CheckCommands(sent, n) ELSE sent
<1>1. Wellformed(n, node[n]) /\ Indexed(node[n], at)
  BY DEF Shaped, Placing
<1>2. node' = Put(node, n, r)
  BY DEF Tick, Step, Put
<1>3. /\ Wellformed(n, elected) /\ Indexed(elected, at) /\ elected.queue = node[n].queue
      /\ Tracks(n, elected)
  <2>1. CASE expired
    <3>1. node[n].term < MaxTerm
      BY <2>1 DEF MayFind
    <3>2. PICK t : /\ Wellformed(n, t) /\ t.others = node[n].others /\ t.log = node[n].log
                   /\ StartElection(node[n], n) = IF Majority(t, 1) THEN BecomeLeader(t, n) ELSE t
      BY <1>1, <3>1, StartElectionType
    <3>3. Tracks(n, t)
      BY <3>2, SameTracks
    <3>4. Wellformed(n, BecomeLeader(t, n)) /\ Tracks(n, BecomeLeader(t, n))
      BY <3>2, <3>3, BecomeLeaderType, LeadTracks
    <3>5. Indexed(StartElection(node[n], n), at) /\ StartElection(node[n], n).queue = node[n].queue
      BY <1>1, <3>1, ElectionIndexed
    <3> QED BY <2>1, <3>2, <3>3, <3>4, <3>5
  <2>2. CASE ~expired
    BY <1>1, <2>2
  <2> QED BY <2>1, <2>2
<1> HIDE DEF elected
<1>4. Wellformed(n, committed) /\ Idle(elected, committed) /\ Level(elected, committed)
  <2>1. Idle(elected, elected) /\ Level(elected, elected)
    BY DEF Idle, Level
  <2> QED BY <1>3, <2>1, IdleOperators, AdvanceCommitType DEF Alike, Level
<1> HIDE DEF committed
<1>5. Wellformed(n, fallen) /\ Idle(committed, fallen) /\ Level(committed, fallen)
  <2>1. Idle(committed, committed) /\ Level(committed, committed)
    BY DEF Idle, Level
  <2> QED BY <1>4, <2>1, IdleOperators, FallBackType DEF Level
<1> HIDE DEF fallen
<1>6. Indexed(fallen, at)
  BY <1>3, <1>4, <1>5, IdleIndexed
<1>7. /\ Wellformed(n, ready) /\ Indexed(ready, at) /\ ready.queue = fallen.queue
      /\ Level(fallen, ready)
  BY <1>5, <1>6, ApplyIndexed, ApplyType DEF Alike, Level
<1> HIDE DEF ready
<1>8. Wellformed(n, sent) /\ Idle(ready, sent) /\ Level(ready, sent)
  <2>1. Idle(ready, ready) /\ Level(ready, ready)
    BY DEF Idle, Level
  <2> QED BY <1>7, <2>1, IdleOperators, AfterSendingType DEF Alike, Level
<1> HIDE DEF sent
<1>9. Tracks(n, sent) /\ Indexed(sent, at) /\ sent.queue = node[n].queue
  <2>1. sent.log = elected.log /\ sent.others = elected.others
    BY <1>4, <1>5, <1>7, <1>8 DEF Level
  <2>2. Tracks(n, sent)
    BY <1>3, <2>1, SameTracks
  <2>3. sent.queue = elected.queue
    BY <1>4, <1>5, <1>7, <1>8 DEF Idle
  <2> QED BY <1>3, <1>7, <1>8, <2>2, <2>3, IdleIndexed
<1>10. CASE takes
  <2> DEFINE q == Head(sent.queue)
             t == IF sent.state = "LEADER" THEN Accept(sent, n, q) ELSE Forward(sent, q)
             s == [t EXCEPT !.queue = Tail(sent.queue)]
  <2>1. sent.queue # << >> /\ sent.queue \in Seq(QueuedCommand)
    BY <1>8, <1>9, <1>10 DEF Wellformed, Fields, Queue, QueuedCommand
  <2>2. q \in QueuedCommand
    BY <1>8, <2>1, QueueType
  <2>3. at[q.cmd] = 0
    <3>1. 1 \in DOMAIN node[n].queue /\ q = node[n].queue[1]
      BY <1>9, <2>1, HeadTailProperties, LenProperties, EmptySeq
    <3>2. Pending(node, net, unused, q.cmd, "queue", n, 1)
      BY <3>1 DEF Pending
    <3>3. q.cmd \in Submittable
      BY <2>2 DEF QueuedCommand
    <3> HIDE DEF q
    <3> QED BY <3>2, <3>3 DEF Placing, Alone
  <2>4. CheckCommands(sent, n) = s
    BY DEF CheckCommands
  <2> HIDE DEF q
  <2>5. Tracks(n, t) /\ t \in Fields
    <3>1. CASE sent.state = "LEADER"
      <4>1. Tracks(n, Accept(sent, n, q))
        BY <1>8, <1>9, <2>2, <2>3, AcceptTracks
      <4>2. Wellformed(n, Accept(sent, n, q))
        BY <1>8, <2>2, AcceptType
      <4> QED BY <3>1, <4>1, <4>2 DEF Wellformed
    <3>2. CASE sent.state # "LEADER"
      <4>1. Wellformed(n, Forward(sent, q)) /\ Alike(sent, Forward(sent, q))
        BY <1>8, <2>2, ForwardType
      <4>2. Tracks(n, Forward(sent, q))
        BY <1>9, <4>1, SameTracks DEF Alike
      <4> QED BY <3>2, <4>1, <4>2 DEF Wellformed
    <3> QED BY <3>1, <3>2
  <2> HIDE DEF t
  <2>6. s.log = t.log /\ s.others = t.others
    BY <2>5 DEF Fields
  <2> HIDE DEF s
  <2>7. Tracks(n, s)
    BY <2>5, <2>6, SameTracks
  <2> QED BY <1>2, <1>10, <2>4, <2>7
<1>11. CASE ~takes
  BY <1>2, <1>9, <1>11
<1> QED BY <1>10, <1>11

\* A message.
LEMMA ReceiveTracks ==
  ASSUME ChangedOnce, NEW at, Shaped(node, net), Placing(node, net, unused, at), Lasting(at),
         NEW n \in Node, Tracks(n, node[n]), NEW m \in Peers(n), Receive(n, m)
  PROVE  \E r : node' = Put(node, n, r) /\ Tracks(n, r)
<1> DEFINE q == Head(net[<<m, n>>])
<1>1. /\ Wellformed(n, node[n]) /\ Indexed(node[n], at) /\ node[n] \in Fields
      /\ net[<<m, n>>] # << >> /\ m \in Node /\ <<m, n>> \in Link
  BY Links DEF Shaped, Placing, Receive, Wellformed
<1>2. /\ q \in Under(net[<<m, n>>])
      /\ q.type = "request_vote" => q \in RequestVotes
      /\ q.type = "response_vote" => q \in ResponseVotes
      /\ q.type = "append_entries" => q \in Appends
      /\ q.type = "apply_command" => q \in Forwarded
  BY <1>1, Received
<1>3. \A r, out, up : Step(n, r, Taken(m, n), out, up) => node' = Put(node, n, r)
  BY DEF Step, Put
<1>4. /\ \/ OnRequestVote(n, m, q)
         \/ \E up \in SUBSET node[n].others : OnResponseVote(n, m, q, up)
         \/ OnAppendEntries(n, m, q)
         \/ OnNextNodeIdx(n, m, q)
         \/ OnApplyCommand(n, m, q)
         \/ OnApplyCommandResponse(n, m, q)
  BY DEF Receive
<1> HIDE DEF q
<1>5. CASE OnRequestVote(n, m, q)
  <2> DEFINE r == NewerTerm(node[n], q)
             s == IF GrantsVote(r, q) THEN [r EXCEPT !.votedFor = m] ELSE r
  <2>1. q \in RequestVotes /\ node' = Put(node, n, s)
    BY <1>2, <1>3, <1>5 DEF OnRequestVote
  <2>2. Wellformed(n, r) /\ r.log = node[n].log /\ r.others = node[n].others
    BY <1>1, <2>1, NewerTermType DEF RequestVotes
  <2> HIDE DEF r
  <2>3. s.log = node[n].log /\ s.others = node[n].others
    BY <2>2 DEF Wellformed, Fields
  <2> HIDE DEF s
  <2>4. Tracks(n, s)
    BY <2>3, SameTracks
  <2> QED BY <2>1, <2>4
<1>6. ASSUME NEW up, OnResponseVote(n, m, q, up)
      PROVE  \E r : node' = Put(node, n, r) /\ Tracks(n, r)
  <2> DEFINE r == node[n]
             counts == r.state = "CANDIDATE" /\ q.term = r.term
             wins == counts /\ Majority(r, r.votes + 1)
             voted == IF counts THEN [r EXCEPT !.votes = @ + 1] ELSE r
             leader == BecomeLeader(voted, n)
             sent == AfterSending(leader, up)
  <2>1. IF wins THEN node' = Put(node, n, sent) ELSE node' = Put(node, n, voted)
    BY <1>3, <1>6 DEF OnResponseVote
  <2>2. Wellformed(n, voted) /\ Level(r, voted)
    <3>1. r \in Fields /\ r.votes + 1 \in Nat
      BY <1>1 DEF Fields
    <3>2. [r EXCEPT !.votes = r.votes + 1] \in Fields
      BY <3>1, Zenon DEF Fields
    <3>3. LET s == [r EXCEPT !.votes = r.votes + 1]
          IN  s.log = r.log /\ s.commit = r.commit /\ s.next = r.next /\ s.others = r.others
      BY <3>1 DEF Fields
    <3>4. Wellformed(n, [r EXCEPT !.votes = r.votes + 1])
      BY <1>1, <3>2, <3>3 DEF Wellformed
    <3> QED BY <1>1, <3>3, <3>4 DEF Level
  <2> HIDE DEF wins, voted
  <2>3. Tracks(n, voted)
    BY <2>2, SameTracks DEF Level
  <2>4. Wellformed(n, leader) /\ Tracks(n, leader)
    BY <2>2, <2>3, BecomeLeaderType, LeadTracks
  <2> HIDE DEF leader
  <2>5. Alike(leader, sent)
    BY <2>4, AfterSendingType
  <2> HIDE DEF sent
  <2>6. Tracks(n, sent)
    BY <2>4, <2>5, SameTracks DEF Alike
  <2> QED BY <2>1, <2>3, <2>6
<1>7. CASE OnAppendEntries(n, m, q)
  <2> DEFINE r == Follow(node[n], m, q)
             reply == AppendReply(r, q)
             s == IF reply.success THEN AppendTo(r, n, q) ELSE r
  <2>1. q \in Appends /\ (node' = Put(node, n, node[n]) \/ node' = Put(node, n, s))
    BY <1>2, <1>3, <1>7 DEF OnAppendEntries
  <2>2. Wellformed(n, r) /\ r.log = node[n].log /\ r.others = node[n].others /\ Idle(node[n], r)
    BY <1>1, <2>1, FollowType, IdleOperators DEF Appends
  <2>3. Brings(q, at)
    BY <1>1, <1>2 DEF Placing
  <2> HIDE DEF r
  <2>4. Tracks(n, r) /\ Indexed(r, at)
    BY <1>1, <2>2, SameTracks, IdleIndexed
  <2>5. reply.success => q.prevLogIdx \in DOMAIN r.log
    BY <2>1, <2>2, AppendReplyType
  <2> HIDE DEF reply
  <2>6. Tracks(n, s)
    <3>1. CASE reply.success
      <4>1. Tracks(n, AppendTo(r, n, q))
        BY <2>1, <2>2, <2>3, <2>4, <2>5, <3>1, AppendToTracks
      <4> QED BY <3>1, <4>1
    <3>2. CASE ~reply.success
      BY <2>4, <3>2
    <3> QED BY <3>1, <3>2
  <2> QED BY <2>1, <2>6
<1>8. CASE OnNextNodeIdx(n, m, q)
  <2> DEFINE r == node[n]
             heard == [r EXCEPT !.next[m] = IF q.reset THEN q.next ELSE @,
                                !.match[m] = IF q.success THEN q.next - 1 ELSE @]
             s == IF r.state = "LEADER" THEN heard ELSE r
  <2>1. node' = Put(node, n, s)
    BY <1>3, <1>8 DEF OnNextNodeIdx
  <2>2. s.log = r.log /\ s.others = r.others
    BY <1>1 DEF Fields
  <2> HIDE DEF s
  <2>3. Tracks(n, s)
    BY <2>2, SameTracks
  <2> QED BY <2>1, <2>3
<1>9. CASE OnApplyCommand(n, m, q)
  <2> DEFINE c == [cmd |-> q.cmd, from |-> IF q.id = 0 THEN Nobody ELSE m, id |-> q.id]
             s == Enqueue(node[n], c)
  <2>1. q \in Forwarded /\ node' = Put(node, n, s)
    BY <1>2, <1>3, <1>9 DEF OnApplyCommand
  <2>2. c \in QueuedCommand
    BY <1>1, <2>1 DEF Forwarded, QueuedCommand, Somebody
  <2> HIDE DEF c
  <2>3. Alike(node[n], s)
    BY <1>1, <2>2, EnqueueType
  <2> HIDE DEF s
  <2>4. Tracks(n, s)
    BY <2>3, SameTracks DEF Alike
  <2> QED BY <2>1, <2>4
<1>10. CASE OnApplyCommandResponse(n, m, q)
  <2> DEFINE r == node[n]
             asked == {k \in r.reply : k.id = q.id}
             popped == [r EXCEPT !.reply = @ \ asked]
             c == CHOOSE k \in asked : TRUE
             s == IF asked = {} THEN r ELSE Answered(popped, c, q)
  <2>1. node' = Put(node, n, s)
    BY <1>3, <1>10 DEF OnApplyCommandResponse
  <2> HIDE DEF asked, c
  <2>2. Level(r, popped) /\ popped.called = r.called /\ DOMAIN popped = DOMAIN r
    BY <1>1 DEF Fields, Level
  <2> HIDE DEF popped
  <2>3. Level(r, s)
    BY <1>1, <2>2 DEF Answered, Call, Level, Fields
  <2> HIDE DEF s
  <2>4. Tracks(n, s)
    BY <2>3, SameTracks DEF Level
  <2> QED BY <2>1, <2>4
<1> QED BY <1>4, <1>5, <1>6, <1>7, <1>8, <1>9, <1>10

\* The invariant.
Following(nd, at) == Lasting(at) /\ \A n \in Node : Tracks(n, nd[n])

\* A step of one node.
LEMMA PutFollowing ==
  ASSUME NEW at, Following(node, at), Shaped(node, net), NEW n \in Node, NEW r, Tracks(n, r)
  PROVE  \A k \in Node : Tracks(k, Put(node, n, r)[k])
<1>1. Put(node, n, r)[n] = r /\ \A k \in Node \ {n} : Put(node, n, r)[k] = node[k]
  BY DEF Put, Shaped
<1> QED BY <1>1 DEF Following

\* Every step.
LEMMA StepTracks ==
  ASSUME ChangedOnce, Inv, NEW at, Placing(node, net, unused, at), Following(node, at), [Next]_vars
  PROVE  \A k \in Node : Tracks(k, node'[k])
<1>1. Shaped(node, net) /\ Lasting(at) /\ \A n \in Node : Tracks(n, node[n])
  BY DEF Inv, Sound, Following
<1>2. ASSUME NEW n \in Node,
             NEW expired \in BOOLEAN, NEW silent \in BOOLEAN, NEW due \in BOOLEAN, NEW takes \in BOOLEAN,
             MayFind(n, expired, silent, due), takes => node[n].queue # << >>,
             NEW up, Tick(n, expired, silent, due, takes, up)
      PROVE  \A k \in Node : Tracks(k, node'[k])
  <2>1. PICK r : node' = Put(node, n, r) /\ Tracks(n, r)
    BY <1>1, <1>2, TickTracks
  <2> QED BY <1>1, <2>1, PutFollowing
<1>3. ASSUME NEW n \in Node, NEW m \in Peers(n), Receive(n, m)
      PROVE  \A k \in Node : Tracks(k, node'[k])
  <2>1. PICK r : node' = Put(node, n, r) /\ Tracks(n, r)
    BY <1>1, <1>3, ReceiveTracks
  <2> QED BY <1>1, <2>1, PutFollowing
<1>4. ASSUME NEW n \in Node, NEW cmd \in Submittable, Submit(n, cmd)
      PROVE  \A k \in Node : Tracks(k, node'[k])
  <2> DEFINE c == [cmd |-> cmd, from |-> Nobody, id |-> 0]
             s == Enqueue(node[n], c)
  <2>1. node' = Put(node, n, s)
    BY <1>4 DEF Submit, Put
  <2>2. c \in QueuedCommand
    BY DEF QueuedCommand, Somebody
  <2> HIDE DEF c
  <2>3. Alike(node[n], s)
    BY <1>1, <2>2, EnqueueType DEF Shaped
  <2> HIDE DEF s
  <2>4. Tracks(n, s)
    BY <1>1, <2>3, SameTracks DEF Alike
  <2> QED BY <1>1, <2>1, <2>4, PutFollowing
<1>5. ASSUME NEW n \in Node, Restart(n)
      PROVE  \A k \in Node : Tracks(k, node'[k])
  <2>1. node' = Put(node, n, NewNode(n))
    BY <1>5 DEF Restart, Put
  <2>2. Tracks(n, NewNode(n))
    BY NewNodeTracks
  <2> HIDE DEF NewNode
  <2> QED BY <1>1, <2>1, <2>2, PutFollowing
<1>6. ASSUME NEW n \in Node, NEW m \in Peers(n), Disconnect(m, n)
      PROVE  \A k \in Node : Tracks(k, node'[k])
  BY <1>1, <1>6 DEF Disconnect
<1>7. CASE UNCHANGED vars
  BY <1>1, <1>7 DEF vars
<1> QED
  <2>1. CASE Next
    BY <1>2, <1>3, <1>4, <1>5, <1>6, <2>1 DEF Next
  <2> QED BY <1>7, <2>1

\* A change that gets its index in a step is an effective one.
LEMMA StepLasting ==
  ASSUME ChangedOnce, Inv, NEW at, Placing(node, net, unused, at), Following(node, at), NEW at2,
         at2 = at \/ \E n \in Node : Onward(n, node[n].others, at, at2)
  PROVE  Lasting(at2)
<1>1. CASE at2 = at
  BY <1>1 DEF Following
<1>2. ASSUME NEW n \in Node, Onward(n, node[n].others, at, at2)
      PROVE  Lasting(at2)
  <2>1. Wellformed(n, node[n]) /\ Tracks(n, node[n]) /\ Indexed(node[n], at) /\ Lasting(at)
    BY DEF Inv, Sound, Shaped, Following, Placing
  <2>2. ASSUME NEW c \in Change, at2[c] # at[c]
        PROVE  Effective(c)
    <3>1. at[c] = 0 /\ ~Refused(node[n], n, c.op = "add", c.node)
      BY <1>2, <2>2 DEF Onward, Refused
    <3>2. Further(Changes(node[n].log), c)
      BY <2>1, <3>1, PassedFurther
    <3> QED BY <3>2 DEF Further
  <2> QED BY <2>1, <2>2 DEF Lasting
<1> QED BY <1>1, <1>2

\* The list of nodes is the one that the log describes, if no node is the
\* subject of two changes: an entry that is deleted takes its change with it,
\* on whatever node and however often.
THEOREM OthersTrackLog == ASSUME ChangedOnce PROVE Spec => []OthersFollowLog
<1> DEFINE P == \E at : Placing(node, net, unused, at) /\ Following(node, at)
<1>1. Init => Inv /\ P
  <2> SUFFICES ASSUME Init PROVE Inv /\ P
    OBVIOUS
  <2>1. PICK at : /\ Placing(node, net, unused, at) /\ \A c \in Change : at[c] = 0
    BY InitPlacing DEF Submittable
  <2>2. \A n \in Node : node[n] = NewNode(n)
    BY DEF Init
  <2>3. Following(node, at)
    BY <2>1, <2>2, NewNodeTracks DEF Following, Lasting
  <2> QED BY <2>1, <2>3, InitInv
<1>2. Inv /\ P /\ [Next]_vars => Inv' /\ P'
  <2> SUFFICES ASSUME Inv, NEW at, Placing(node, net, unused, at), Following(node, at), [Next]_vars
               PROVE  Inv' /\ \E at2 : Placing(node', net', unused', at2) /\ Following(node', at2)
    OBVIOUS
  <2>1. Inv'
    BY NextInv
  <2>2. PICK at2 : /\ Placing(node', net', unused', at2)
                   /\ at2 = at \/ \E n \in Node : Onward(n, node[n].others, at, at2)
    BY <2>1, StepPlacing
  <2>3. Following(node', at2)
    BY <2>2, StepTracks, StepLasting DEF Following
  <2> QED BY <2>1, <2>2, <2>3
<1>3. Inv /\ P => OthersFollowLog
  <2> SUFFICES ASSUME Inv, NEW at, Placing(node, net, unused, at), Following(node, at), NEW n \in Node
               PROVE  node[n].others = Redo(NewNode(n), n, node[n].log).others
    BY DEF OthersFollowLog
  <2>1. Wellformed(n, node[n]) /\ Tracks(n, node[n]) /\ Indexed(node[n], at) /\ Lasting(at)
    BY DEF Inv, Sound, Shaped, Following, Placing
  <2> QED BY <2>1, TracksFollow
<1> HIDE DEF P
<1> QED BY <1>1, <1>2, <1>3, PTL DEF Spec
=============================================================================
