-------------------------------- MODULE Raft --------------------------------
(***************************************************************************)
(* The consensus layer (class SyncObj of pysyncobjbc/syncobj.py): leader   *)
(* election, log replication, commitment and application of commands, with *)
(* the journal that belcoin uses, which lives in memory.                   *)
(*                                                                         *)
(* A node is driven by one thread that alternates ticks (_onTick) and      *)
(* messages (_onMessageReceived, called by the poller at the end of a      *)
(* tick); other threads only put commands into its queue.  Time is not     *)
(* modelled: a deadline may have passed at any tick.  The leader's choice  *)
(* of blocks, made in a tick, is module Proposer's subject and here one of *)
(* the ways in which a command is submitted.  A command may come with a    *)
(* callback, and may be a change of the cluster, as add_node of            *)
(* belcoin_node/node.py submits it.  Log compaction, which the code        *)
(* disables, is left out.                                                  *)
(***************************************************************************)
EXTENDS Integers, SequencesExt

CONSTANTS
    Node,
    Cluster,      \* the nodes that every node is told of when it starts
    Command,      \* replicated methods with their arguments
    Change,       \* [op |-> "add" or "rem", node |-> a node]: changes of the cluster
    Watched,      \* the commands that are submitted with a callback
    NoOp,         \* the command of a new leader's first entry
    Nobody,       \* None
    Batch,        \* how many entries fit into appendEntriesBatchSizeBytes
    QueueSize,    \* commandsQueueSize
    MaxTerm,      \* bound on terms
    MaxLog,       \* bound on the length of a leader's log
    MaxInFlight,  \* bound on the messages under way at a time
    MaxRestarts   \* bound on the number of restarts

ASSUME RaftAssumption ==
    /\ IsFiniteSet(Node)
    /\ Nobody \notin Node
    /\ Cluster \subseteq Node
    /\ Change \subseteq [op : {"add", "rem"}, node : Node]
    /\ Watched \subseteq Command \union Change
    /\ NoOp \notin Command \union Change
    /\ Batch \in Nat \ {0}
    /\ QueueSize \in Nat /\ MaxTerm \in Nat /\ MaxLog \in Nat
    /\ MaxInFlight \in Nat /\ MaxRestarts \in Nat

VARIABLES
    node,      \* node[n]: the fields of n's SyncObj
    net,       \* net[<<m, n>>]: what is under way from m to n, in order
    unused,    \* commands nobody has submitted yet
    restarts   \* number of restarts so far

vars == <<node, net, unused, restarts>>

Peers(n) == Node \ {n}

Link == {c \in Node \X Node : c[1] # c[2]}

Submittable == Command \union Change

Majority(r, count) == 2 * count > Cardinality(r.others) + 1

\* Entries carry their term; their index is their position, since the log is
\* never compacted.  done is what has been handed to __doApplyCommand: the
\* entries 2 .. raftLastApplied.  Of a callback the model keeps where it is
\* (reply: commandsWaitingReply, waits: commandsWaitingCommit) and, in called,
\* the reason with which it has been called; it is named by its command.
NewNode(n) ==
    [state |-> "FOLLOWER", term |-> 0, votedFor |-> Nobody, votes |-> 0,
     leader |-> Nobody, log |-> <<[cmd |-> NoOp, term |-> 0]>>, commit |-> 1,
     next |-> [m \in Node |-> 2], match |-> [m \in Node |-> 0], noop |-> 0,
     others |-> Cluster \ {n}, queue |-> << >>, done |-> << >>,
     counter |-> 0, reply |-> {}, waits |-> {}, called |-> {}]

Init ==
    /\ node = [n \in Node |-> NewNode(n)]
    /\ net = [c \in Link |-> << >>]
    /\ unused = Submittable
    /\ restarts = 0

\* votesCount, raftNextIndex, raftMatchIndex and noopIDx are set anew before
\* they are read again: the model forgets them.
Follower(r) ==
    [r EXCEPT !.state = "FOLLOWER", !.votes = 0, !.noop = 0,
              !.next = [m \in Node |-> 2], !.match = [m \in Node |-> 0]]

LastTerm(r) == r.log[Len(r.log)].term

Silence(n) == [m \in Peers(n) |-> << >>]

\* Two nodes stay connected only as long as each has the other on its list.
Listed(c) == c[2] \in node'[c[1]].others /\ c[1] \in node'[c[2]].others

\* Step n -> new state r, with the messages out[m] added to what is under way
\* to the connected nodes m, and what is under way to n replaced by in.
Step(n, r, in, out, up) ==
    /\ node' = [node EXCEPT ![n] = r]
    /\ net' = [c \in Link |->
                 IF ~Listed(c) THEN << >>
                 ELSE IF c[1] = n /\ c[2] \in up THEN net[c] \o out[c[2]]
                 ELSE IF c \in DOMAIN in THEN in[c] ELSE net[c]]
    /\ Cardinality(UNION {{c} \X DOMAIN net'[c] : c \in Link}) <= MaxInFlight

-----------------------------------------------------------------------------
(***************************************************************************)
(* __sendAppendEntries.  Each connected node gets one message; the loop's  *)
(* further messages are those of a further call.                           *)
(***************************************************************************)
\* As PrevLogIdx, but off by one.
PrevLogIdxShort(r, m) == IF r.next[m] - 2 \in DOMAIN r.log THEN r.next[m] - 2 ELSE 0

PrevLogIdx(r, m) == IF r.next[m] - 1 \in DOMAIN r.log THEN r.next[m] - 1 ELSE 0

BatchEnd(r, m) == Min({Len(r.log), r.next[m] + Batch - 1})

AppendEntries(r, m) ==
    [type |-> "append_entries", term |-> r.term, commit |-> r.commit,
     prevLogIdx |-> PrevLogIdx(r, m),
     prevLogTerm |-> IF PrevLogIdx(r, m) = 0 THEN 0 ELSE r.log[PrevLogIdx(r, m)].term,
     entries |-> SubSeq(r.log, r.next[m], BatchEnd(r, m))]

AfterSending(r, up) ==
    [r EXCEPT !.next = [m \in Node |-> IF m \in up /\ r.next[m] <= Len(r.log)
                                       THEN BatchEnd(r, m) + 1 ELSE r.next[m]]]

\* __onBecomeLeader, up to the call of __sendAppendEntries.
BecomeLeader(r, n) ==
    [r EXCEPT !.state = "LEADER",
              !.leader = n,
              !.next = [m \in Node |-> Len(r.log) + 1],
              !.match = [m \in Node |-> 0],
              !.noop = Len(r.log) + 1,
              !.log = Append(@, [cmd |-> NoOp, term |-> r.term])]

-----------------------------------------------------------------------------
(***************************************************************************)
(* The parts of a tick.                                                    *)
(***************************************************************************)
HasCallback(q) == q.from = Nobody /\ q.cmd \in Watched

\* The callback of the queued command q, if it has one in this process.
Callback(q) == IF HasCallback(q) THEN {q.cmd} ELSE {}

Call(r, callbacks, reason) ==
    [r EXCEPT !.called = @ \union {[cmd |-> c, reason |-> reason] : c \in callbacks}]

\* As LeaderChanged, but the callbacks are not forgotten.
LeaderChangedKeeping(r) == Call(r, {c.cmd : c \in r.reply}, "LEADER_CHANGED")

\* __onLeaderChanged: nobody will answer the commands forwarded to the old one.
LeaderChanged(r) ==
    [Call(r, {c.cmd : c \in r.reply}, "LEADER_CHANGED") EXCEPT !.reply = {}]

StartElection(r, n) ==
    LET c == [LeaderChanged(r) EXCEPT !.state = "CANDIDATE", !.leader = Nobody,
                                      !.term = @ + 1, !.votedFor = n, !.votes = 1]
    IN  IF Majority(r, 1) THEN BecomeLeader(c, n) ELSE c

RequestVote(r) ==
    [type |-> "request_vote", term |-> r.term,
     lastLogIdx |-> Len(r.log), lastLogTerm |-> LastTerm(r)]

\* As Replicated, but the leader's own copy is enough.
ReplicatedHere(r, n, i) == i \in DOMAIN r.log

\* A leader commits what a majority has, entry after entry.
Replicated(r, n, i) == Majority(r, 1 + Cardinality({m \in r.others : r.match[m] >= i}))

AdvanceCommit(r, n) ==
    [r EXCEPT !.commit = Max({r.commit} \union
        {i \in r.commit + 1 .. Len(r.log) :
            \A j \in r.commit + 1 .. i : Replicated(r, n, j)})]

FallBack(r) == [Follower(r) EXCEPT !.leader = Nobody]

\* The indexes that are committed and not yet applied.
Newly(r) == Len(r.done) + 2 .. r.commit

\* As Outcome, but without a look at the term.
OutcomeAnyTerm(r, w) == "SUCCESS"

\* A callback that waits for an index learns whether the entry there is its
\* own or one that another leader put in its place.
Outcome(r, w) == IF r.log[w.idx].term = w.term THEN "SUCCESS" ELSE "DISCARDED"

Apply(r) ==
    LET due == {w \in r.waits : w.idx \in Newly(r)}
    IN  [r EXCEPT !.done = @ \o SubSeq(r.log, Len(@) + 2, r.commit),
                  !.waits = @ \ due,
                  !.called = @ \union {[cmd |-> w.cmd, reason |-> Outcome(r, w)] : w \in due}]

\* A change that changes nothing, or that concerns n itself.
Refused(r, n, adding, m) == m = n \/ (adding <=> m \in r.others)

\* __doChangeCluster, forwards or in reverse, by node n.
DoChangeCluster(r, n, change, reverse) ==
    LET adding == (change.op = "add") # reverse
        m == change.node
    IN  IF Refused(r, n, adding, m) THEN r
        ELSE [r EXCEPT !.others = IF adding THEN @ \union {m} ELSE @ \ {m},
                       !.next[m] = IF r.state = "LEADER" /\ adding THEN Len(r.log) + 1 ELSE 2,
                       !.match[m] = 0]

\* __changeCluster lets a change pass.  The code asks whether an earlier change
\* is uncommitted, too, but in a field that nothing ever sets.
MayChange(r, n, change) ==
    /\ Len(r.done) + 1 >= r.noop
    /\ ~Refused(r, n, change.op = "add", change.node)

Denied(r, n, cmd) == cmd \in Change /\ ~MayChange(r, n, cmd)

\* A leader appends the command q to its log, unless it denies it.
Accept(r, n, q) ==
    LET changed == IF q.cmd \in Change THEN DoChangeCluster(r, n, q.cmd, FALSE) ELSE r
    IN  IF Denied(r, n, q.cmd)
        THEN Call(r, Callback(q), "REQUEST_DENIED")
        ELSE [changed EXCEPT
                !.log = Append(@, [cmd |-> q.cmd, term |-> r.term]),
                !.waits = @ \union {[idx |-> Len(r.log) + 1, term |-> r.term, cmd |-> c] :
                                     c \in Callback(q)}]

\* Another node forwards its own commands to its leader, and refuses those that
\* have been forwarded to it with a callback.
Forward(r, q) ==
    IF HasCallback(q)
    THEN [r EXCEPT !.counter = @ + 1,
                   !.reply = @ \union {[id |-> r.counter + 1, cmd |-> q.cmd]}]
    ELSE r

\* As CheckCommands, but the leader leaves the command in the queue.
CheckCommandsKeeping(r, n) ==
    IF r.state = "LEADER" THEN Accept(r, n, Head(r.queue))
                          ELSE [Forward(r, Head(r.queue)) EXCEPT !.queue = Tail(@)]

\* _checkCommandsToApply on the first command of the queue, by a node that
\* knows a leader.
CheckCommands(r, n) ==
    LET q == Head(r.queue)
    IN  [(IF r.state = "LEADER" THEN Accept(r, n, q) ELSE Forward(r, q))
            EXCEPT !.queue = Tail(r.queue)]

Response(id, reason, idx, term) ==
    [type |-> "apply_command_response", id |-> id, reason |-> reason, idx |-> idx, term |-> term]

\* As Answer, but it names the index in front of the command's.
AnswerOffByOne(r, n, q) ==
    IF r.state # "LEADER" THEN Response(q.id, "NOT_LEADER", 0, 0)
    ELSE IF Denied(r, n, q.cmd) THEN Response(q.id, "REQUEST_DENIED", 0, 0)
    ELSE Response(q.id, "SUCCESS", Len(r.log), r.term)

\* The answer to the node that forwarded q.
Answer(r, n, q) ==
    IF r.state # "LEADER" THEN Response(q.id, "NOT_LEADER", 0, 0)
    ELSE IF Denied(r, n, q.cmd) THEN Response(q.id, "REQUEST_DENIED", 0, 0)
    ELSE Response(q.id, "SUCCESS", Len(r.log) + 1, r.term)

ApplyCommand(r, q) ==
    [type |-> "apply_command", cmd |-> q.cmd,
     id |-> IF HasCallback(q) THEN r.counter + 1 ELSE 0]

\* What is sent to m in the course of CheckCommands.
Messages(r, n, m) ==
    LET q == Head(r.queue)
    IN  IF q.from = m THEN <<Answer(r, n, q)>>
        ELSE IF q.from = Nobody /\ r.state # "LEADER" /\ r.leader = m THEN <<ApplyCommand(r, q)>>
        ELSE << >>

\* What a tick of n may find: the election deadline is looked at by a node that
\* does not lead, the silence of the others and the next append_entries by one
\* that does.
MayFind(n, expired, silent, due) ==
    /\ node[n].state # "ENDED"
    /\ expired => node[n].state # "LEADER" /\ node[n].term < MaxTerm
    /\ silent \/ due => node[n].state = "LEADER"
    /\ silent => ~due /\ ~Majority(node[n], 1)

\* A command of its own is all that a leader need not tell anybody about.
Sends(n, due, takes) ==
    due \/ (takes /\ (node[n].state # "LEADER" \/ Head(node[n].queue).from # Nobody))

\* The nodes n may be connected to.  It matters when append_entries or commands
\* are sent; a request_vote that finds no connection is one whose connection
\* breaks at once.
Connected(n, sends) == IF sends THEN SUBSET node[n].others ELSE {node[n].others}

\* _onTick.  expired: the election deadline has passed; silent: a majority has
\* not answered for leaderFallbackTimeout; due: it is time for append_entries;
\* takes: it takes a command from the queue (a tick that has time for several
\* does what several ticks do); up: the connected nodes.
Tick(n, expired, silent, due, takes, up) ==
    LET elected == IF expired THEN StartElection(node[n], n) ELSE node[n]
        committed == IF elected.state = "LEADER" THEN AdvanceCommit(elected, n) ELSE elected
        fallen == IF silent THEN FallBack(committed) ELSE committed
        ready == Apply(fallen)
        sent == IF due THEN AfterSending(ready, up) ELSE ready
    IN  /\ takes => sent.leader # Nobody
        /\ takes /\ sent.state = "LEADER" => Len(sent.log) < MaxLog
        /\ Step(n, IF takes THEN CheckCommands(sent, n) ELSE sent, << >>,
                [m \in Peers(n) |->
                    (IF expired THEN <<RequestVote(elected)>> ELSE << >>)
                    \o (IF due THEN <<AppendEntries(ready, m)>> ELSE << >>)
                    \o (IF takes THEN Messages(sent, n, m) ELSE << >>)],
                up)
        /\ UNCHANGED <<unused, restarts>>

-----------------------------------------------------------------------------
(***************************************************************************)
(* _onMessageReceived, on a message q from m.                              *)
(***************************************************************************)
\* The message in the only queue that it empties by one.
Taken(m, n) == [c \in {<<m, n>>} |-> Tail(net[c])]

UpToDate(r, q) ==
    \/ q.lastLogTerm > LastTerm(r)
    \/ q.lastLogTerm = LastTerm(r) /\ q.lastLogIdx >= Len(r.log)

NewerTerm(r, q) ==
    IF q.term > r.term
    THEN [Follower(r) EXCEPT !.term = q.term, !.votedFor = Nobody, !.leader = Nobody]
    ELSE r

\* As GrantsVote, but to everyone who asks.
GrantsVoteAlways(r, q) == r.state # "LEADER" /\ q.term >= r.term /\ UpToDate(r, q)

\* As GrantsVote, but whatever the candidate's log.
GrantsVoteBlindly(r, q) == r.state # "LEADER" /\ q.term >= r.term /\ r.votedFor = Nobody

GrantsVote(r, q) ==
    /\ r.state # "LEADER"
    /\ q.term >= r.term
    /\ UpToDate(r, q)
    /\ r.votedFor = Nobody

OnRequestVote(n, m, q) ==
    LET r == NewerTerm(node[n], q)
    IN  /\ q.type = "request_vote"
        /\ Step(n, IF GrantsVote(r, q) THEN [r EXCEPT !.votedFor = m] ELSE r,
                Taken(m, n),
                [Silence(n) EXCEPT ![m] =
                    IF GrantsVote(r, q) THEN <<[type |-> "response_vote", term |-> q.term]>>
                                        ELSE << >>],
                {m})

OnResponseVote(n, m, q, up) ==
    LET r == node[n]
        counts == r.state = "CANDIDATE" /\ q.term = r.term
        wins == counts /\ Majority(r, r.votes + 1)
        voted == IF counts THEN [r EXCEPT !.votes = @ + 1] ELSE r
        leader == BecomeLeader(voted, n)
    IN  /\ q.type = "response_vote"
        /\ IF wins THEN Step(n, AfterSending(leader, up), Taken(m, n),
                             [p \in Peers(n) |-> <<AppendEntries(leader, p)>>], up)
                   ELSE Step(n, voted, Taken(m, n), Silence(n), {})

\* A follower of the sender.
Follow(r, m, q) ==
    [Follower(IF r.leader = m THEN r ELSE LeaderChanged(r))
        EXCEPT !.leader = m, !.term = q.term,
               !.votedFor = IF q.term > r.term THEN Nobody ELSE @]

NextNodeIdx(next, reset, success) ==
    [type |-> "next_node_idx", next |-> next, reset |-> reset, success |-> success]

\* As Undo, but from the first one.
UndoForwards(r, n, entries) ==
    FoldLeft(LAMBDA s, e : IF e.cmd \in Change THEN DoChangeCluster(s, n, e.cmd, TRUE) ELSE s,
             r, entries)

\* The cluster changes among entries, undone from the last one or done from the
\* first one.
Undo(r, n, entries) ==
    FoldRight(LAMBDA e, s : IF e.cmd \in Change THEN DoChangeCluster(s, n, e.cmd, TRUE) ELSE s,
              entries, r)

Redo(r, n, entries) ==
    FoldLeft(LAMBDA s, e : IF e.cmd \in Change THEN DoChangeCluster(s, n, e.cmd, FALSE) ELSE s,
             r, entries)

\* As AppendTo, but the cluster changes that are deleted stay in force.
AppendToChanged(r, n, q) ==
    LET log == SubSeq(r.log, 1, q.prevLogIdx) \o q.entries
    IN  [Redo(r, n, q.entries) EXCEPT !.log = log, !.commit = Min({q.commit, Len(log)})]

\* Everything behind prevLogIdx is dropped, even if it is what the message
\* brings; the answer names the last new entry, not the one behind it.
AppendTo(r, n, q) ==
    LET log == SubSeq(r.log, 1, q.prevLogIdx) \o q.entries
        undone == Undo(r, n, SubSeq(r.log, q.prevLogIdx + 1, Len(r.log)))
    IN  [Redo(undone, n, q.entries) EXCEPT !.log = log, !.commit = Min({q.commit, Len(log)})]

\* As AppendReply, but off by one when entries are missing.
AppendReplyShort(r, q) ==
    IF q.prevLogIdx \notin DOMAIN r.log
        THEN NextNodeIdx(Len(r.log), TRUE, FALSE)
    ELSE IF r.log[q.prevLogIdx].term # q.prevLogTerm
        THEN NextNodeIdx(q.prevLogIdx, TRUE, FALSE)
    ELSE NextNodeIdx(q.prevLogIdx + (IF q.entries = << >> THEN 1 ELSE Len(q.entries)), FALSE, TRUE)

\* As AppendReply, but without a look at prevLogTerm.
AppendReplyUnchecked(r, q) ==
    IF q.prevLogIdx \notin DOMAIN r.log
        THEN NextNodeIdx(Len(r.log) + 1, TRUE, FALSE)
    ELSE NextNodeIdx(q.prevLogIdx + (IF q.entries = << >> THEN 1 ELSE Len(q.entries)), FALSE, TRUE)

AppendReply(r, q) ==
    IF q.prevLogIdx \notin DOMAIN r.log
        THEN NextNodeIdx(Len(r.log) + 1, TRUE, FALSE)
    ELSE IF r.log[q.prevLogIdx].term # q.prevLogTerm
        THEN NextNodeIdx(q.prevLogIdx, TRUE, FALSE)
    ELSE NextNodeIdx(q.prevLogIdx + (IF q.entries = << >> THEN 1 ELSE Len(q.entries)), FALSE, TRUE)

OnAppendEntries(n, m, q) ==
    LET r == Follow(node[n], m, q)
        reply == AppendReply(r, q)
    IN  /\ q.type = "append_entries"
        /\ IF q.term < node[n].term
           THEN Step(n, node[n], Taken(m, n), Silence(n), {})
           ELSE Step(n, IF reply.success THEN AppendTo(r, n, q) ELSE r, Taken(m, n),
                     [Silence(n) EXCEPT ![m] = <<reply>>], {m})

OnNextNodeIdx(n, m, q) ==
    LET r == node[n]
        heard == [r EXCEPT !.next[m] = IF q.reset THEN q.next ELSE @,
                           !.match[m] = IF q.success THEN q.next - 1 ELSE @]
    IN  /\ q.type = "next_node_idx"
        /\ Step(n, IF r.state = "LEADER" THEN heard ELSE r, Taken(m, n), Silence(n), {})

\* The queue takes one command more than its size.
Full(queue) == Len(queue) > QueueSize

\* _applyCommand: the command joins the queue, unless that is full.
Enqueue(r, q) ==
    IF Full(r.queue) THEN Call(r, Callback(q), "QUEUE_FULL")
                     ELSE [r EXCEPT !.queue = Append(@, q)]

OnApplyCommand(n, m, q) ==
    LET from == IF q.id = 0 THEN Nobody ELSE m
    IN  /\ q.type = "apply_command"
        /\ Step(n, Enqueue(node[n], [cmd |-> q.cmd, from |-> from, id |-> q.id]), Taken(m, n),
                [Silence(n) EXCEPT ![m] =
                    IF Full(node[n].queue) /\ q.id # 0
                    THEN <<Response(q.id, "QUEUE_FULL", 0, 0)>> ELSE << >>],
                {m})

\* The answer q to the forwarded command c: its callback is called with the
\* error or waits for the index.  Where that has been applied already the code
\* asserts that it has not, and the thread that runs the node ends.
Answered(r, c, q) ==
    IF q.reason # "SUCCESS"
    THEN Call(r, {c.cmd}, q.reason)
    ELSE IF q.idx > Len(r.done) + 1
    THEN [r EXCEPT !.waits = @ \union {[idx |-> q.idx, term |-> q.term, cmd |-> c.cmd]}]
    ELSE [r EXCEPT !.state = "ENDED"]

OnApplyCommandResponse(n, m, q) ==
    LET r == node[n]
        asked == {c \in r.reply : c.id = q.id}
        popped == [r EXCEPT !.reply = @ \ asked]
    IN  /\ q.type = "apply_command_response"
        /\ Step(n, IF asked = {} THEN r ELSE Answered(popped, CHOOSE c \in asked : TRUE, q),
                Taken(m, n), Silence(n), {})

Receive(n, m) ==
    /\ net[<<m, n>>] # << >>
    /\ node[n].state # "ENDED"
    /\ LET q == Head(net[<<m, n>>])
       IN  \/ OnRequestVote(n, m, q)
           \/ \E up \in SUBSET node[n].others : OnResponseVote(n, m, q, up)
           \/ OnAppendEntries(n, m, q)
           \/ OnNextNodeIdx(n, m, q)
           \/ OnApplyCommand(n, m, q)
           \/ OnApplyCommandResponse(n, m, q)
    /\ UNCHANGED <<unused, restarts>>

-----------------------------------------------------------------------------
\* A thread of n calls a replicated method, such as add_block_to_queue, or one
\* of addNodeToCluster and removeNodeFromCluster.
Submit(n, cmd) ==
    /\ cmd \in unused
    /\ node' = [node EXCEPT ![n] = Enqueue(@, [cmd |-> cmd, from |-> Nobody, id |-> 0])]
    /\ unused' = unused \ {cmd}
    /\ UNCHANGED <<net, restarts>>

Cut(links) == net' = [c \in Link |-> IF c \in links THEN << >> ELSE net[c]]

\* The connection of m and n breaks: what was under way, in both directions, is
\* lost.
Disconnect(m, n) ==
    /\ net[<<m, n>>] # << >>
    /\ Cut({<<m, n>>, <<n, m>>})
    /\ UNCHANGED <<node, unused, restarts>>

\* n's process ends and a new one starts, with an empty journal.
Restart(n) ==
    /\ restarts < MaxRestarts
    /\ restarts' = restarts + 1
    /\ node' = [node EXCEPT ![n] = NewNode(n)]
    /\ Cut({<<n, m>> : m \in Node} \union {<<m, n>> : m \in Node})
    /\ UNCHANGED unused

Next ==
    \/ \E n \in Node, expired, silent, due, takes \in BOOLEAN :
          /\ MayFind(n, expired, silent, due)
          /\ takes => node[n].queue # << >>
          /\ \E up \in Connected(n, Sends(n, due, takes)) : Tick(n, expired, silent, due, takes, up)
    \/ \E n \in Node : \E m \in Peers(n) : Receive(n, m)
    \/ \E n \in Node, cmd \in Submittable : Submit(n, cmd)
    \/ \E n \in Node : \E m \in Peers(n) : Disconnect(m, n)
    \/ \E n \in Node : Restart(n)

Spec == Init /\ [][Next]_vars

-----------------------------------------------------------------------------
Entry == [cmd : Submittable \union {NoOp}, term : 0 .. MaxTerm]

\* The types of the variables.  A leader never asks for an index before the
\* first entry, the case in which the code would send a snapshot instead.
TypeOK ==
    /\ \A n \in Node :
          LET r == node[n]
          IN  /\ r.state \in {"FOLLOWER", "CANDIDATE", "LEADER", "ENDED"}
              /\ r.term \in 0 .. MaxTerm
              /\ r.votedFor \in Node \union {Nobody}
              /\ r.votes \in 0 .. Cardinality(Node)
              /\ r.leader \in Node \union {Nobody}
              /\ r.log \in Seq(Entry) /\ r.done \in Seq(Entry)
              /\ r.commit \in 1 .. Len(r.log)
              /\ \A m \in Node : r.next[m] >= 2 /\ r.match[m] >= 0
              /\ r.queue \in Seq([cmd : Submittable, from : Node \union {Nobody}, id : Nat])
              /\ r.others \subseteq Peers(n)
    /\ DOMAIN net = Link
    /\ unused \subseteq Submittable
    /\ restarts \in 0 .. MaxRestarts

\* Two nodes that think they lead do so in different terms: a node votes once
\* per term and votesCount only counts votes of the candidate's own term.
ElectionSafety ==
    \A m, n \in Node :
        node[m].state = "LEADER" /\ node[n].state = "LEADER" /\ node[m].term = node[n].term
            => m = n

\* Logs that agree on the term of an entry agree on everything up to it:
\* what the check of prevLogTerm and the truncation are for.
LogMatching ==
    \A m, n \in Node : \A i \in DOMAIN node[m].log \intersect DOMAIN node[n].log :
        node[m].log[i].term = node[n].log[i].term
            => SubSeq(node[m].log, 1, i) = SubSeq(node[n].log, 1, i)

\* Of two nodes, one has applied exactly what the other has applied, or the
\* beginning of it: every node calls add_block_to_queue with the same blocks in
\* the same order.
StateMachineSafety ==
    \A m, n \in Node :
        LET short == Min({Len(node[m].done), Len(node[n].done)})
        IN  SubSeq(node[m].done, 1, short) = SubSeq(node[n].done, 1, short)

\* What any node has applied is in the log of every leader of that term or a
\* later one, so that no leader can overwrite it.
LeaderCompleteness ==
    \A m, n \in Node :
        node[n].state = "LEADER" /\ node[n].term >= node[m].term
            => /\ Len(node[n].log) > Len(node[m].done)
               /\ SubSeq(node[n].log, 2, Len(node[m].done) + 1) = node[m].done

\* A command is applied once: forwarding it to the leader does not duplicate
\* it, whatever connections and leaders come and go.
AppliedOnce ==
    \A n \in Node : \A i, j \in DOMAIN node[n].done :
        node[n].done[i].cmd = node[n].done[j].cmd /\ node[n].done[i].cmd \in Submittable
            => i = j

\* Where node n keeps the callback of a command that it has submitted.
Places(n, cmd) ==
    LET r == node[n]
    IN  UNION {{<<"queue", i>> : i \in {i \in DOMAIN r.queue :
                                           HasCallback(r.queue[i]) /\ r.queue[i].cmd = cmd}},
               {<<"reply", c.id>> : c \in {c \in r.reply : c.cmd = cmd}},
               {<<"waits", w.idx>> : w \in {w \in r.waits : w.cmd = cmd}},
               {<<"called", c.reason>> : c \in {c \in r.called : c.cmd = cmd}}}

\* A callback is in one place, from the queue to its one call: whatever leaders
\* and connections come and go, it is not called twice and, unless its node
\* restarts, not lost.
CallbackKept ==
    \A cmd \in Watched :
        LET places == UNION {{n} \X Places(n, cmd) : n \in Node}
        IN  /\ Cardinality(places) <= 1
            /\ restarts = 0 /\ cmd \notin unused => Cardinality(places) = 1

Commands(entries) == {entries[i].cmd : i \in DOMAIN entries}

Told(n, reason) == {c.cmd : c \in {d \in node[n].called : d.reason = reason}}

\* Commands whose callback was called with a failure that is not reason.
FailedUnless(reason) ==
    {c.cmd : c \in {d \in UNION {node[n].called : n \in Node} :
                      d.reason \notin {"SUCCESS", reason}}}

Applied == UNION {Commands(node[n].done) : n \in Node}

\* What the log decides is told truly: a callback called with SUCCESS belongs to
\* a command that its node has applied, one called with a failure to a command
\* that no node has applied or will apply.  Says nothing of LEADER_CHANGED, which
\* is told before the log has decided (CallbackTold).
OutcomeTold ==
    /\ \A n \in Node : Told(n, "SUCCESS") \subseteq Commands(node[n].done)
    /\ FailedUnless("LEADER_CHANGED") \cap Applied = {}

\* The comments on the reasons: every failure means that the command has not been
\* committed, LEADER_CHANGED like the others.
CallbackTold ==
    /\ OutcomeTold
    /\ UNION {Told(n, "LEADER_CHANGED") : n \in Node} \cap Applied = {}

\* The assertion on the answer to a forwarded command: its index has not been
\* applied yet, for the leader answers before it sends the entry.  No callback
\* waits for an index that has been applied: it would never be called.
NeverEnded ==
    \A n \in Node : /\ node[n].state # "ENDED"
                    /\ \A w \in node[n].waits : w.idx > Len(node[n].done) + 1

\* The list of nodes is the one that the log describes, whatever changes have
\* been made, deleted with their entries and made again.
OthersFollowLog ==
    \A n \in Node : node[n].others = Redo(NewNode(n), n, node[n].log).others

\* "Previous cluster change request was not commited yet": a leader has at most
\* one change of the cluster in its log that it has not committed.
OneChangeAtATime ==
    \A n \in Node : node[n].state = "LEADER" =>
        Cardinality({i \in node[n].commit + 1 .. Len(node[n].log) :
                        node[n].log[i].cmd \in Change}) <= 1
=============================================================================
