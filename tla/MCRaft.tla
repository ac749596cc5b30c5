------------------------------- MODULE MCRaft -------------------------------
(***************************************************************************)
(* Module Raft on small clusters.                                          *)
(***************************************************************************)
EXTENDS Raft, TLC

Symmetry == Permutations(Node)

CONSTANTS n1, n2, n3, x, y

\* A cluster after two interrupted terms: n1 led term 1 and appended x, n2 led
\* term 2 with the vote of n3, and neither could reach anybody afterwards.

Entries(terms, last) ==
    [i \in DOMAIN terms |-> [cmd |-> IF i = 3 THEN last ELSE NoOp, term |-> terms[i]]]

AfterSplit ==
    [n1 |-> [NewNode(n1) EXCEPT !.term = 1, !.votedFor = n1, !.log = Entries(<<0, 1, 1>>, x)],
     n2 |-> [NewNode(n2) EXCEPT !.term = 2, !.votedFor = n2, !.log = Entries(<<0, 2>>, x)],
     n3 |-> [NewNode(n3) EXCEPT !.term = 2, !.votedFor = n2]]

SplitInit ==
    /\ node = [n \in Node |-> CASE n = n1 -> AfterSplit.n1
                                [] n = n2 -> AfterSplit.n2
                                [] n = n3 -> AfterSplit.n3]
    /\ net = [c \in Link |-> << >>]
    /\ unused = {}
    /\ restarts = 0

SplitSpec == SplitInit /\ [][Next]_vars

Rem(n) == [op |-> "rem", node |-> n]

\* One change of the cluster, and two of which each leaves the other open.
RemN3 == {Rem(n3)}

RemBoth == {Rem(n2), Rem(n3)}

\* A cluster that n1 leads in term 1, and whose nodes have all applied the no-op
\* entry of that term.
Led(n) ==
    [NewNode(n) EXCEPT !.term = 1, !.votedFor = n1, !.leader = n1, !.commit = 2,
                       !.log = Entries(<<0, 1>>, NoOp), !.done = <<[cmd |-> NoOp, term |-> 1]>>]

LedNodes ==
    [n \in Node |-> IF n # n1 THEN Led(n)
                    ELSE [Led(n) EXCEPT !.state = "LEADER", !.votes = 2, !.noop = 2,
                                        !.next = [m \in Node |-> 3],
                                        !.match = [m \in Node |-> IF m = n1 THEN 0 ELSE 2]]]

LedInit ==
    /\ node = LedNodes
    /\ net = [c \in Link |-> << >>]
    /\ unused = Submittable
    /\ restarts = 0

LedSpec == LedInit /\ [][Next]_vars

\* The same cluster when n2 has just been asked to remove n3.
AskedInit ==
    /\ node = [LedNodes EXCEPT ![n2].queue = <<[cmd |-> Rem(n3), from |-> Nobody, id |-> 0]>>]
    /\ net = [c \in Link |-> << >>]
    /\ unused = {}
    /\ restarts = 0

AskedSpec == AskedInit /\ [][Next]_vars

\* Removing a node and adding it again, both in the queue of the leader n1.
ReaddN3 == {Rem(n3), [op |-> "add", node |-> n3]}

ReaddInit ==
    /\ LET own(cmd) == [cmd |-> cmd, from |-> Nobody, id |-> 0]
       IN  node = [LedNodes EXCEPT ![n1].queue =
                      <<own(Rem(n3)), own([op |-> "add", node |-> n3])>>]
    /\ net = [c \in Link |-> << >>]
    /\ unused = {}
    /\ restarts = 0

ReaddSpec == ReaddInit /\ [][Next]_vars
=============================================================================
