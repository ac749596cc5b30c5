-------------------------- MODULE LedgerStepsProofs --------------------------
(***************************************************************************)
(* Proofs about module LedgerSteps, for every set of transactions, every   *)
(* bound and an end of the process between any two writes: claims, flags   *)
(* and their order, and that the writes of a turn look like one, as long   *)
(* as the two threads do not meet (Serial).                                *)
(*                                                                         *)
(* At most one thread is in the middle of a turn; what is left of the turn *)
(* says which stage it is in, and the stage says what the store looks like.*)
(***************************************************************************)
EXTENDS LedgerSteps, LedgerProofs, SequenceTheorems

-----------------------------------------------------------------------------
(***************************************************************************)
(* The loop over a transaction's inputs as a list of steps.                *)
(***************************************************************************)
Access == [op : {"read", "write"}, out : Txn \X Nat]

\* Every write is of the wrapper that was read just before.
FlagList(f) ==
    /\ f \in Seq(Access)
    /\ \A i \in 1 .. Len(f) : f[i].op = "read" =>
          /\ i + 1 <= Len(f)
          /\ f[i + 1] = [op |-> "write", out |-> f[i].out]
    /\ \A i \in 2 .. Len(f) : f[i].op = "write" => f[i - 1].op = "read"

\* The outpoints that a list of steps has still to flag.
Left(q) == {q[i].out : i \in {j \in 1 .. Len(q) : q[j].op = "write"}}

\* A sequence without its first element.
LEMMA TailOf ==
    ASSUME NEW S, NEW q \in Seq(S), q # << >>
    PROVE  /\ Tail(q) \in Seq(S) /\ Len(q) \in Nat /\ Len(q) >= 1 /\ Len(Tail(q)) = Len(q) - 1
           /\ Head(q) = q[1] /\ Head(q) \in S
           /\ \A i \in 1 .. Len(Tail(q)) : Tail(q)[i] = q[i + 1]
  OBVIOUS

\* The first step of a longer list.
LEMMA ConcatFirst ==
    ASSUME NEW S, NEW f \in Seq(S), NEW e \in Seq(S)
    PROVE  /\ f \o e \in Seq(S)
           /\ f = << >> => f \o e = e
           /\ f # << >> => /\ f \o e # << >>
                           /\ Head(f \o e) = Head(f)
                           /\ Tail(f \o e) = Tail(f) \o e
<1>1. f \o e \in Seq(S)
  OBVIOUS
<1>2. f = << >> => f \o e = e
  OBVIOUS
<1>3. ASSUME f # << >>
      PROVE  f \o e # << >> /\ Head(f \o e) = Head(f) /\ Tail(f \o e) = Tail(f) \o e
  <2>1. Len(f) \in Nat /\ Len(e) \in Nat /\ Len(f) >= 1 /\ Len(f \o e) = Len(f) + Len(e)
    BY <1>3
  <2>2. f \o e # << >>
    BY <2>1
  <2>3. Head(f \o e) = Head(f)
    BY <1>1, <1>3, <2>1, <2>2
  <2>4. Tail(f) \in Seq(S) /\ Len(Tail(f)) = Len(f) - 1
    BY <1>3
  <2>5. Tail(f \o e) \in Seq(S) /\ Tail(f) \o e \in Seq(S)
    BY <1>1, <2>2, <2>4
  <2>6. Len(Tail(f \o e)) = Len(f) + Len(e) - 1 /\ Len(Tail(f) \o e) = Len(f) - 1 + Len(e)
    BY <1>1, <2>1, <2>2, <2>4
  <2>7. ASSUME NEW i \in 1 .. Len(Tail(f \o e)) PROVE Tail(f \o e)[i] = (Tail(f) \o e)[i]
    <3>1. Tail(f \o e)[i] = (f \o e)[i + 1]
      BY <1>1, <2>2
    <3>2. (f \o e)[i + 1] = IF i + 1 <= Len(f) THEN f[i + 1] ELSE e[i + 1 - Len(f)]
      BY <2>1, <2>6
    <3>3. (Tail(f) \o e)[i] = IF i <= Len(f) - 1 THEN Tail(f)[i] ELSE e[i - (Len(f) - 1)]
      BY <2>1, <2>4, <2>6
    <3>4. i <= Len(f) - 1 => Tail(f)[i] = f[i + 1]
      BY <1>3, <2>1, <2>6
    <3> QED
      BY <2>1, <2>6, <3>1, <3>2, <3>3, <3>4
  <2>8. Len(Tail(f \o e)) = Len(Tail(f) \o e)
    BY <2>1, <2>6
  <2>9. Tail(f \o e) = Tail(f) \o e
    BY <2>5, <2>7, <2>8, SeqEqual
  <2> QED
    BY <2>2, <2>3, <2>9
<1> QED
  BY <1>1, <1>2, <1>3

\* One step of the loop: after a read comes the write of the same outpoint,
\* which is then no longer left to be flagged.
LEMMA FlagTail ==
    ASSUME NEW f, FlagList(f), f # << >>
    PROVE  /\ FlagList(Tail(f))
           /\ Head(f) \in Access
           /\ Head(f).op = "read" => /\ Tail(f) # << >>
                                     /\ Head(Tail(f)) = [op |-> "write", out |-> Head(f).out]
                                     /\ Left(Tail(f)) = Left(f)
           /\ Head(f).op = "write" => /\ Left(f) = Left(Tail(f)) \union {Head(f).out}
                                      /\ Tail(f) # << >> => Head(Tail(f)).op = "read"
<1> DEFINE g == Tail(f)
           n == Len(f)
<1>1. /\ f \in Seq(Access) /\ g \in Seq(Access) /\ n \in Nat /\ n >= 1 /\ Len(g) = n - 1
      /\ Head(f) = f[1] /\ Head(f) \in Access
      /\ \A i \in 1 .. Len(g) : g[i] = f[i + 1]
  BY TailOf DEF FlagList
<1>2. g # << >> <=> n >= 2
  <2>1. g = << >> <=> Len(g) = 0
    BY <1>1, EmptySeq
  <2> QED
    BY <1>1, <2>1
<1>3. g # << >> => Head(g) = f[2] /\ f[2] \in Access
  BY <1>1, <1>2
<1>4. /\ \A i \in 1 .. n : f[i].op = "read" => i + 1 <= n /\ f[i + 1] = [op |-> "write", out |-> f[i].out]
      /\ \A i \in 2 .. n : f[i].op = "write" => f[i - 1].op = "read"
  BY DEF FlagList
<1>5. 1 \in 1 .. n
  BY <1>1
<1>6. \A a \in Access : a.op = "read" \/ a.op = "write"
  BY DEF Access
<1> HIDE DEF g, n
<1>7. FlagList(g)
  <2>1. ASSUME NEW i \in 1 .. Len(g), g[i].op = "read"
        PROVE  i + 1 <= Len(g) /\ g[i + 1] = [op |-> "write", out |-> g[i].out]
    <3>1. i + 1 \in 1 .. n /\ g[i] = f[i + 1]
      BY <1>1
    <3>2. (i + 1) + 1 <= n /\ f[(i + 1) + 1] = [op |-> "write", out |-> f[i + 1].out]
      BY <1>4, <2>1, <3>1
    <3>3. i + 1 <= Len(g)
      BY <1>1, <3>1, <3>2
    <3>4. g[i + 1] = f[(i + 1) + 1]
      BY <1>1, <3>1, <3>3
    <3> QED
      BY <3>1, <3>2, <3>3, <3>4
  <2>2. ASSUME NEW i \in 2 .. Len(g), g[i].op = "write" PROVE g[i - 1].op = "read"
    <3>1. i + 1 \in 2 .. n /\ g[i] = f[i + 1] /\ i - 1 \in 1 .. Len(g) /\ i \in 1 .. n /\ (i - 1) + 1 = i
          /\ (i + 1) - 1 = i
      BY <1>1
    <3>2. f[(i + 1) - 1].op = "read"
      BY <1>4, <2>2, <3>1
    <3>3. g[i - 1] = f[(i - 1) + 1]
      BY <1>1, <3>1
    <3> QED
      BY <3>1, <3>2, <3>3
  <2> QED
    BY <1>1, <2>1, <2>2 DEF FlagList
<1>8. Left(f) = Left(g) \union (IF Head(f).op = "write" THEN {Head(f).out} ELSE {})
  <2>1. ASSUME NEW o \in Left(f)
        PROVE  o \in Left(g) \union (IF Head(f).op = "write" THEN {Head(f).out} ELSE {})
    <3>1. PICK j \in 1 .. n : f[j].op = "write" /\ o = f[j].out
      BY <2>1 DEF Left, n
    <3>2. CASE j = 1
      BY <1>1, <3>1, <3>2
    <3>3. CASE j # 1
      <4>1. j - 1 \in 1 .. Len(g) /\ (j - 1) + 1 = j
        BY <1>1, <3>3
      <4>2. g[j - 1] = f[j]
        BY <1>1, <4>1
      <4> QED
        BY <3>1, <4>1, <4>2 DEF Left
    <3> QED
      BY <3>2, <3>3
  <2>2. ASSUME NEW o \in Left(g) PROVE o \in Left(f)
    <3>1. PICK j \in 1 .. Len(g) : g[j].op = "write" /\ o = g[j].out
      BY <2>2 DEF Left
    <3>2. j + 1 \in 1 .. n /\ g[j] = f[j + 1]
      BY <1>1
    <3> QED
      BY <3>1, <3>2 DEF Left, n
  <2>3. Head(f).op = "write" => Head(f).out \in Left(f)
    BY <1>1, <1>5 DEF Left, n
  <2> QED
    BY <2>1, <2>2, <2>3
<1>9. ASSUME Head(f).op = "read"
      PROVE  g # << >> /\ Head(g) = [op |-> "write", out |-> Head(f).out] /\ Left(g) = Left(f)
  <2>1. 1 + 1 <= n /\ f[1 + 1] = [op |-> "write", out |-> f[1].out]
    BY <1>1, <1>4, <1>5, <1>9
  <2>2. Left(g) = Left(f)
    BY <1>8, <1>9
  <2> QED
    BY <1>1, <1>2, <1>3, <2>1, <2>2
<1>10. ASSUME Head(f).op = "write", g # << >> PROVE Head(g).op = "read"
  <2>1. 2 \in 2 .. n /\ 2 - 1 = 1
    BY <1>1, <1>2, <1>10
  <2>2. f[2].op = "write" => f[2 - 1].op = "read"
    BY <1>4, <2>1
  <2> QED
    BY <1>1, <1>3, <1>6, <1>10, <2>1, <2>2
<1> QED
  BY <1>1, <1>7, <1>8, <1>9, <1>10 DEF g

\* SetToSeq lists a finite set.
LEMMA ListOfSet ==
    ASSUME NEW S, IsFiniteSet(S)
    PROVE  /\ SetToSeq(S) \in Seq(S)
           /\ \A x \in S : \E i \in 1 .. Len(SetToSeq(S)) : SetToSeq(S)[i] = x
<1> DEFINE c == Cardinality(S)
           f == SetToSeq(S)
<1>1. c \in Nat /\ ExistsBijection(1 .. c, S)
  BY FS_CardinalityType
<1>2. \E g \in [1 .. c -> S] : IsInjective(g)
  BY <1>1 DEF ExistsBijection, Bijection, Injection, IsInjective
<1>3. f \in [1 .. c -> S] /\ IsInjective(f)
  BY <1>2 DEF SetToSeq
<1>4. IsFiniteSet(1 .. c) /\ Cardinality(1 .. c) = c
  BY <1>1, FS_Interval
<1> HIDE DEF f
<1>5. f \in Injection(1 .. c, S)
  BY <1>3 DEF Injection, IsInjective
<1>6. f \in Surjection(1 .. c, S)
  BY <1>4, <1>5, FS_Injection
<1> HIDE DEF c
<1>7. f \in Seq(S) /\ Len(f) = c
  BY <1>1, <1>3
<1> QED
  BY <1>6, <1>7 DEF Surjection, f

\* The loop flags exactly the inputs.
LEMMA FlagInputsList ==
    ASSUME NEW t \in Txn
    PROVE  /\ FlagList(FlagInputs(t))
           /\ Left(FlagInputs(t)) = Inputs[t]
           /\ \A i \in 1 .. Len(FlagInputs(t)) : FlagInputs(t)[i].out \in Inputs[t]
           /\ FlagInputs(t) # << >> => Head(FlagInputs(t)).op = "read"
<1> DEFINE outs == SetToSeq(Inputs[t])
           n == Len(outs)
           f == FlagInputs(t)
<1>1. /\ Inputs[t] \subseteq Txn \X Nat
      /\ outs \in Seq(Inputs[t])
      /\ \A x \in Inputs[t] : \E i \in 1 .. n : outs[i] = x
  BY TxnAssumption, ListOfSet
<1>2. f = [i \in 1 .. 2 * n |-> [op |-> IF i % 2 = 1 THEN "read" ELSE "write",
                                  out |-> outs[(i + 1) \div 2]]]
  BY DEF FlagInputs
<1> HIDE DEF outs
<1>3. n \in Nat /\ \A i \in 1 .. n : outs[i] \in Inputs[t]
  <2>1. Len(outs) \in Nat
    BY <1>1, LenProperties
  <2>2. \A i \in 1 .. Len(outs) : outs[i] \in Inputs[t]
    BY <1>1, ElementOfSeq
  <2> QED
    BY <2>1, <2>2
<1>4. \A i, m \in Nat : i \in 1 .. 2 * m => (i + 1) \div 2 \in 1 .. m
  OBVIOUS
<1> HIDE DEF n, f
<1>5. \A i \in 1 .. 2 * n : /\ f[i].op = (IF i % 2 = 1 THEN "read" ELSE "write")
                            /\ f[i].out = outs[(i + 1) \div 2]
                            /\ f[i].out \in Inputs[t]
                            /\ f[i] = [op |-> f[i].op, out |-> f[i].out]
  BY <1>2, <1>3, <1>4
<1>6. f \in Seq(Access) /\ Len(f) = 2 * n
  <2>1. ASSUME NEW i \in 1 .. 2 * n PROVE f[i] \in Access
    <3>1. f[i].op \in {"read", "write"} /\ f[i].out \in Txn \X Nat
      BY <1>1, <1>5
    <3>2. [op |-> f[i].op, out |-> f[i].out] \in Access
      BY <3>1 DEF Access
    <3> QED
      BY <1>5, <3>2
  <2>2. 2 * n \in Nat /\ f \in [1 .. 2 * n -> Access]
    BY <1>2, <1>3, <2>1
  <2> QED
    BY <2>2
<1>7. ASSUME NEW i \in 1 .. Len(f), f[i].op = "read"
      PROVE  i + 1 <= Len(f) /\ f[i + 1] = [op |-> "write", out |-> f[i].out]
  <2>1. i \in 1 .. 2 * n /\ i % 2 = 1
    BY <1>5, <1>6, <1>7
  <2>2. /\ i + 1 \in 1 .. 2 * n /\ (i + 1) % 2 # 1 /\ ((i + 1) + 1) \div 2 = (i + 1) \div 2
    BY <1>3, <2>1
  <2> QED
    BY <1>5, <1>6, <2>1, <2>2
<1>8. ASSUME NEW i \in 2 .. Len(f), f[i].op = "write" PROVE f[i - 1].op = "read"
  <2>1. i \in 1 .. 2 * n /\ i % 2 # 1
    BY <1>3, <1>5, <1>6, <1>8
  <2>2. i - 1 \in 1 .. 2 * n /\ (i - 1) % 2 = 1
    BY <1>3, <1>6, <2>1
  <2> QED
    BY <1>5, <2>2
<1>9. FlagList(f)
  BY <1>6, <1>7, <1>8 DEF FlagList
<1>10. Left(f) \subseteq Inputs[t]
  BY <1>5, <1>6 DEF Left
<1>11. ASSUME NEW x \in Inputs[t] PROVE x \in Left(f)
  <2>1. PICK i \in 1 .. n : outs[i] = x
    BY <1>1
  <2>2. 2 * i \in 1 .. 2 * n /\ (2 * i) % 2 # 1 /\ ((2 * i) + 1) \div 2 = i
    BY <1>3
  <2>3. f[2 * i].op = "write" /\ f[2 * i].out = x
    BY <1>5, <2>1, <2>2
  <2> QED
    BY <1>6, <2>2, <2>3 DEF Left
<1>12. f # << >> => Head(f).op = "read"
  <2>1. f # << >> => Head(f) = f[1] /\ 1 \in 1 .. 2 * n
    BY <1>6
  <2>2. 1 % 2 = 1
    OBVIOUS
  <2> QED
    BY <1>5, <2>1, <2>2
<1> QED
  BY <1>5, <1>6, <1>9, <1>10, <1>11, <1>12 DEF f

-----------------------------------------------------------------------------
(***************************************************************************)
(* The invariant.                                                          *)
(***************************************************************************)
\* Nobody but X claims what t does, and t is not accepted yet.
Free(s, t, X) ==
    /\ t \notin Accepted(s)
    /\ \A u \in DOMAIN s.db \union (DOMAIN s.pend \ X) : Inputs[u] \intersect Inputs[t] = {}

\* What u claims is stored, and flagged as spent except for late.
Placed(s, u, late) ==
    \A o \in Inputs[u] : /\ o[1] \in DOMAIN s.db
                         /\ o[2] \in DOMAIN Outputs[o[1]]
                         /\ o \in late \/ o[2] \notin s.db[o[1]].utxos

\* As Sound, but the flags of X may still have to be changed.
Claims(s, X) ==
    /\ DOMAIN s.db \intersect DOMAIN s.pend = {}
    /\ NoDoubleSpendIn(s)
    /\ \A u \in Accepted(s) \ X : Placed(s, u, {})

\* f is what is left of the loop over t's inputs, and copy is no older than the
\* wrapper it is a copy of.
Flagging(f, s, cp, t) ==
    /\ FlagList(f)
    /\ \A i \in 1 .. Len(f) : f[i].out \in Inputs[t]
    /\ f # << >> /\ Head(f).op = "write" => cp = <<s.db[Head(f).out[1]]>>

New(s, t) == t \notin DOMAIN s.db /\ InputsExist(s, t)

Fin(fin, t) == <<Step(fin, t, 0)>>

Announce(t, ts) == <<Step("putpend", t, ts)>> \o (FlagInputs(t) \o Fin("processed", t))

StoreAnd(fin, t, ts) == <<Step("putdb", t, ts), Step(fin, t, 0)>>

\* The stages of a turn of process_block's loop, or of update_pend's, that is
\* about transaction t; q is what is left of it.  The claims on outpoints are
\* in order (ok) unless an earlier crash has torn them.
Displacing(q, s, t, ok) ==
    \E c \in Txn, ts \in Nat :
        /\ \/ q = <<Step("delpend", c, 0)>> \o Announce(t, ts)
           \/ q = <<Step("delpend", c, 0)>> \o (FlagInputs(t) \o StoreAnd("processed", t, ts))
        /\ New(s, t)
        /\ ok => Free(s, t, {c})

Announcing(q, s, t, ok) ==
    \E ts \in Nat : /\ q = Announce(t, ts)
                    /\ New(s, t)
                    /\ ok => Free(s, t, {})

Maturing(q, s, t, ok) ==
    \E ts \in Nat : /\ q = <<Step("delpend", t, 0), Step("verify", t, ts)>>
                    /\ t \in DOMAIN s.pend
                    /\ ok => Placed(s, t, {})

Checking(q, s, t, ok) ==
    \E ts \in Nat : /\ q = <<Step("verify", t, ts)>>
                    /\ ok => Free(s, t, {})

Storing(q, f, s, cp, t, ok, fin) ==
    \E ts \in Nat : /\ q = f \o StoreAnd(fin, t, ts)
                    /\ Flagging(f, s, cp, t)
                    /\ New(s, t)
                    /\ ok => Free(s, t, {}) /\ Placed(s, t, Left(f))

Finishing(q, f, s, cp, t, ok, fin) ==
    /\ q = f \o Fin(fin, t)
    /\ Flagging(f, s, cp, t)
    /\ f # << >> => fin = "processed" /\ t \in DOMAIN s.pend /\ InputsExist(s, t)
    /\ ok => (t \in Accepted(s) => Placed(s, t, Left(f)))

Turn(q, s, cp, t, ok, fin) ==
    \/ fin = "processed" /\ (Displacing(q, s, t, ok) \/ Announcing(q, s, t, ok))
    \/ fin = "swept" /\ (Maturing(q, s, t, ok) \/ Checking(q, s, t, ok))
    \/ \E f : Storing(q, f, s, cp, t, ok, fin) \/ Finishing(q, f, s, cp, t, ok, fin)

\* Such a turn is under way, and the claims of all others are in order.
UnderWay(q, s, cp, t, ok, fin) == Turn(q, s, cp, t, ok, fin) /\ (ok => Claims(s, {t}))

-----------------------------------------------------------------------------
(***************************************************************************)
(* The lists of steps of a turn.                                           *)
(***************************************************************************)
Op == {"delpend", "putpend", "putdb", "verify", "processed", "swept"}

AnyStep == [op : Op, txn : Txn, ts : Nat] \union Access

\* One step is a sequence of steps.
LEMMA OneStep ==
    ASSUME NEW op \in Op, NEW c \in Txn, NEW ts \in Nat
    PROVE  /\ <<Step(op, c, ts)>> \in Seq(AnyStep)
           /\ <<Step(op, c, ts)>> # << >> /\ Head(<<Step(op, c, ts)>>) = Step(op, c, ts)
           /\ Tail(<<Step(op, c, ts)>>) = << >>
<1> DEFINE x == Step(op, c, ts)
<1>1. x \in AnyStep
  BY DEF Step, AnyStep
<1> HIDE DEF x
<1>2. <<x>> \in Seq(AnyStep)
  BY <1>1
<1>3. <<x>> # << >> /\ Head(<<x>>) = x
  OBVIOUS
<1>4. Tail(<<x>>) = << >>
  OBVIOUS
<1> QED
  BY <1>2, <1>3, <1>4 DEF x

\* So are two.
LEMMA TwoSteps ==
    ASSUME NEW op \in Op, NEW op2 \in Op, NEW t \in Txn, NEW ts \in Nat, NEW ts2 \in Nat
    PROVE  LET q == <<Step(op, t, ts), Step(op2, t, ts2)>>
           IN  q \in Seq(AnyStep) /\ q # << >> /\ Head(q) = Step(op, t, ts)
               /\ Tail(q) = <<Step(op2, t, ts2)>>
<1> DEFINE x == Step(op, t, ts)
           y == Step(op2, t, ts2)
<1>1. x \in AnyStep /\ y \in AnyStep
  BY DEF Step, AnyStep
<1> HIDE DEF x, y
<1>2. <<x, y>> \in Seq(AnyStep)
  BY <1>1
<1>3. <<x, y>> # << >> /\ Head(<<x, y>>) = x
  OBVIOUS
<1>4. Tail(<<x, y>>) = <<y>>
  <2>1. /\ Tail(<<x, y>>) \in Seq(AnyStep) /\ Len(Tail(<<x, y>>)) = 1
        /\ Tail(<<x, y>>)[1] = <<x, y>>[1 + 1]
    BY <1>2
  <2>2. <<y>> \in Seq(AnyStep) /\ Len(<<y>>) = 1 /\ <<y>>[1] = y /\ <<x, y>>[1 + 1] = y
    BY <1>1
  <2> QED
    BY <2>1, <2>2, SeqEqual
<1> QED
  BY <1>2, <1>3, <1>4 DEF x, y

\* A list of accesses is a list of steps.
LEMMA FlagSteps ==
    ASSUME NEW f, FlagList(f) PROVE f \in Seq(AnyStep)
  BY SeqMonotonic DEF FlagList, AnyStep

\* The last step of a turn, and the last two of one that stores t.
LEMMA LastSteps ==
    ASSUME NEW t \in Txn, NEW ts \in Nat, NEW fin \in {"processed", "swept"}
    PROVE  /\ Fin(fin, t) \in Seq(AnyStep) /\ Fin(fin, t) # << >>
           /\ Head(Fin(fin, t)) = Step(fin, t, 0) /\ Tail(Fin(fin, t)) = << >>
           /\ StoreAnd(fin, t, ts) \in Seq(AnyStep) /\ StoreAnd(fin, t, ts) # << >>
           /\ Head(StoreAnd(fin, t, ts)) = Step("putdb", t, ts)
           /\ Tail(StoreAnd(fin, t, ts)) = Fin(fin, t)
<1>1. fin \in Op /\ "putdb" \in Op /\ 0 \in Nat
  BY DEF Op
<1>2. /\ <<Step(fin, t, 0)>> \in Seq(AnyStep) /\ <<Step(fin, t, 0)>> # << >>
      /\ Head(<<Step(fin, t, 0)>>) = Step(fin, t, 0) /\ Tail(<<Step(fin, t, 0)>>) = << >>
  BY <1>1, OneStep
<1> DEFINE q == <<Step("putdb", t, ts), Step(fin, t, 0)>>
<1>3. /\ q \in Seq(AnyStep) /\ q # << >>
      /\ Head(q) = Step("putdb", t, ts) /\ Tail(q) = <<Step(fin, t, 0)>>
  BY <1>1, TwoSteps
<1> QED
  BY <1>2, <1>3 DEF Fin, StoreAnd

\* What comes before them when t is accepted.
LEMMA AnnounceSteps ==
    ASSUME NEW t \in Txn, NEW ts \in Nat
    PROVE  /\ FlagInputs(t) \in Seq(AnyStep)
           /\ FlagInputs(t) \o Fin("processed", t) \in Seq(AnyStep)
           /\ FlagInputs(t) \o StoreAnd("processed", t, ts) \in Seq(AnyStep)
           /\ Announce(t, ts) \in Seq(AnyStep) /\ Announce(t, ts) # << >>
           /\ Head(Announce(t, ts)) = Step("putpend", t, ts)
           /\ Tail(Announce(t, ts)) = FlagInputs(t) \o Fin("processed", t)
<1>1. FlagInputs(t) \in Seq(AnyStep)
  BY FlagSteps, FlagInputsList
<1>2. /\ Fin("processed", t) \in Seq(AnyStep)
      /\ StoreAnd("processed", t, ts) \in Seq(AnyStep)
  BY LastSteps
<1>3. /\ FlagInputs(t) \o Fin("processed", t) \in Seq(AnyStep)
      /\ FlagInputs(t) \o StoreAnd("processed", t, ts) \in Seq(AnyStep)
  BY <1>1, <1>2, ConcatProperties
<1> DEFINE a == <<Step("putpend", t, ts)>>
           b == FlagInputs(t) \o Fin("processed", t)
<1>4. a \in Seq(AnyStep) /\ a # << >> /\ Head(a) = Step("putpend", t, ts) /\ Tail(a) = << >>
  <2>1. "delpend" \in Op /\ "putpend" \in Op /\ 0 \in Nat
    BY DEF Op
  <2> QED
    BY <2>1, OneStep
<1>5. Announce(t, ts) = a \o b
  BY DEF Announce
<1> HIDE DEF a, b
<1>6. b \in Seq(AnyStep)
  BY <1>3 DEF b
<1>7. /\ a \o b \in Seq(AnyStep) /\ a \o b # << >> /\ Head(a \o b) = Head(a)
      /\ Tail(a \o b) = Tail(a) \o b
  BY <1>4, <1>6, ConcatFirst
<1>8. Tail(a) \o b = b
  BY <1>4, <1>6, ConcatEmptySeq
<1> QED
  BY <1>1, <1>3, <1>4, <1>5, <1>7, <1>8 DEF b

\* A turn that begins with the removal of c.
LEMMA DelSteps ==
    ASSUME NEW c \in Txn, NEW e \in Seq(AnyStep)
    PROVE  LET q == <<Step("delpend", c, 0)>> \o e
           IN  q # << >> /\ Head(q) = Step("delpend", c, 0) /\ Tail(q) = e
<1> DEFINE a == <<Step("delpend", c, 0)>>
<1>1. a \in Seq(AnyStep) /\ a # << >> /\ Head(a) = Step("delpend", c, 0) /\ Tail(a) = << >>
  <2>1. "delpend" \in Op /\ "putpend" \in Op /\ 0 \in Nat
    BY DEF Op
  <2> QED
    BY <2>1, OneStep
<1> HIDE DEF a
<1>2. a \o e # << >> /\ Head(a \o e) = Head(a) /\ Tail(a \o e) = Tail(a) \o e
  BY <1>1, ConcatFirst
<1>3. Tail(a) \o e = e
  BY <1>1, ConcatEmptySeq
<1> QED
  BY <1>1, <1>2, <1>3 DEF a

\* A turn that is still flagging outpoints, and the rest of it.
LEMMA RestOfFlags ==
    ASSUME NEW f, FlagList(f), NEW e \in Seq(AnyStep), NEW q, q = f \o e
    PROVE  /\ q \in Seq(AnyStep)
           /\ f = << >> => q = e
           /\ f # << >> => /\ q # << >> /\ Head(q) = Head(f) /\ Tail(q) = Tail(f) \o e
                           /\ Head(q).op \in {"read", "write"}
<1>1. f \in Seq(AnyStep)
  BY FlagSteps
<1>2. f # << >> => Head(f).op \in {"read", "write"}
  BY FlagTail DEF Access
<1> QED
  BY <1>1, <1>2, ConcatFirst

\* The kind of its next step tells what stage a turn is in.
LEMMA TurnStage ==
    ASSUME NEW t \in Txn, NEW fin \in {"processed", "swept"}, NEW q, NEW s, NEW cp,
           NEW ok \in BOOLEAN, Turn(q, s, cp, t, ok, fin)
    PROVE  /\ q # << >>
           /\ Head(q).op = "delpend" =>
                 \/ fin = "processed" /\ Displacing(q, s, t, ok)
                 \/ fin = "swept" /\ Maturing(q, s, t, ok)
           /\ Head(q).op = "putpend" => fin = "processed" /\ Announcing(q, s, t, ok)
           /\ Head(q).op = "verify" => fin = "swept" /\ Checking(q, s, t, ok)
           /\ Head(q).op = "putdb" => Storing(q, << >>, s, cp, t, ok, fin)
           /\ Head(q).op \in {"read", "write"} =>
                 \E f : /\ f # << >>
                        /\ Storing(q, f, s, cp, t, ok, fin) \/ Finishing(q, f, s, cp, t, ok, fin)
           /\ Head(q).op \in {"processed", "swept"} =>
                 Head(q).op = fin /\ Finishing(q, << >>, s, cp, t, ok, fin)
<1> DEFINE Goal ==
           /\ q # << >>
           /\ Head(q).op = "delpend" =>
                 \/ fin = "processed" /\ Displacing(q, s, t, ok)
                 \/ fin = "swept" /\ Maturing(q, s, t, ok)
           /\ Head(q).op = "putpend" => fin = "processed" /\ Announcing(q, s, t, ok)
           /\ Head(q).op = "verify" => fin = "swept" /\ Checking(q, s, t, ok)
           /\ Head(q).op = "putdb" => Storing(q, << >>, s, cp, t, ok, fin)
           /\ Head(q).op \in {"read", "write"} =>
                 \E f : /\ f # << >>
                        /\ Storing(q, f, s, cp, t, ok, fin) \/ Finishing(q, f, s, cp, t, ok, fin)
           /\ Head(q).op \in {"processed", "swept"} =>
                 Head(q).op = fin /\ Finishing(q, << >>, s, cp, t, ok, fin)
<1>1. \A c, ts : \A o : Step(o, c, ts).op = o
  BY DEF Step
<1>2. ASSUME fin = "processed", Displacing(q, s, t, ok) PROVE Goal
  <2>0. PICK c \in Txn, ts \in Nat :
           \E e \in {Announce(t, ts), FlagInputs(t) \o StoreAnd("processed", t, ts)} :
              q = <<Step("delpend", c, 0)>> \o e
    BY <1>2 DEF Displacing
  <2>1. PICK e \in {Announce(t, ts), FlagInputs(t) \o StoreAnd("processed", t, ts)} :
               q = <<Step("delpend", c, 0)>> \o e
    BY <2>0
  <2>2. e \in Seq(AnyStep)
    BY <2>1, AnnounceSteps
  <2>4. q # << >> /\ Head(q) = Step("delpend", c, 0)
    BY <2>1, <2>2, DelSteps
  <2> QED
    BY <1>1, <1>2, <2>4
<1>3. ASSUME fin = "processed", Announcing(q, s, t, ok) PROVE Goal
  <2>1. PICK ts \in Nat : q = Announce(t, ts)
    BY <1>3 DEF Announcing
  <2>4. q # << >> /\ Head(q) = Step("putpend", t, ts)
    BY <2>1, AnnounceSteps
  <2> QED
    BY <1>1, <1>3, <2>4
<1>4. ASSUME fin = "swept", Maturing(q, s, t, ok) PROVE Goal
  <2>1. PICK ts \in Nat : q = <<Step("delpend", t, 0), Step("verify", t, ts)>>
    BY <1>4 DEF Maturing
  <2>2. q # << >> /\ Head(q) = Step("delpend", t, 0)
    BY <2>1
  <2> QED
    BY <1>1, <1>4, <2>2
<1>5. ASSUME fin = "swept", Checking(q, s, t, ok) PROVE Goal
  <2>1. PICK ts \in Nat : q = <<Step("verify", t, ts)>>
    BY <1>5 DEF Checking
  <2>2. q # << >> /\ Head(q) = Step("verify", t, ts)
    BY <2>1
  <2> QED
    BY <1>1, <1>5, <2>2
<1>6. ASSUME NEW f, Storing(q, f, s, cp, t, ok, fin) PROVE Goal
  <2>1. PICK ts \in Nat : q = f \o StoreAnd(fin, t, ts) /\ FlagList(f)
    BY <1>6 DEF Storing, Flagging
  <2>2. /\ StoreAnd(fin, t, ts) \in Seq(AnyStep) /\ StoreAnd(fin, t, ts) # << >>
        /\ Head(StoreAnd(fin, t, ts)) = Step("putdb", t, ts)
    BY LastSteps
  <2>3. CASE f = << >>
    <3>1. q # << >> /\ Head(q) = Step("putdb", t, ts)
      BY <2>1, <2>2, <2>3, RestOfFlags
    <3> QED
      BY <1>1, <1>6, <2>3, <3>1
  <2>4. CASE f # << >>
    <3>1. q # << >> /\ Head(q).op \in {"read", "write"}
      BY <2>1, <2>2, <2>4, RestOfFlags
    <3> QED
      BY <1>6, <2>4, <3>1
  <2> QED
    BY <2>3, <2>4
<1>7. ASSUME NEW f, Finishing(q, f, s, cp, t, ok, fin) PROVE Goal
  <2>1. q = f \o Fin(fin, t) /\ FlagList(f)
    BY <1>7 DEF Finishing, Flagging
  <2>2. /\ Fin(fin, t) \in Seq(AnyStep) /\ Fin(fin, t) # << >>
        /\ Head(Fin(fin, t)) = Step(fin, t, 0)
    BY LastSteps
  <2>3. CASE f = << >>
    <3>1. q # << >> /\ Head(q) = Step(fin, t, 0)
      BY <2>1, <2>2, <2>3, RestOfFlags
    <3> QED
      BY <1>1, <1>7, <2>3, <3>1
  <2>4. CASE f # << >>
    <3>1. q # << >> /\ Head(q).op \in {"read", "write"}
      BY <2>1, <2>2, <2>4, RestOfFlags
    <3> QED
      BY <1>7, <2>4, <3>1
  <2> QED
    BY <2>3, <2>4
<1> HIDE DEF Goal
<1>8. Goal
  BY <1>2, <1>3, <1>4, <1>5, <1>6, <1>7 DEF Turn
<1> QED
  BY <1>8 DEF Goal

-----------------------------------------------------------------------------
(***************************************************************************)
(* What the steps do to the claims.                                        *)
(***************************************************************************)
\* What is placed stays placed when transactions and cleared flags are added.
LEMMA PlacedLater ==
    ASSUME NEW s, NEW b, NEW u, NEW late, NEW later, Placed(s, u, late),
           \A d \in DOMAIN s.db : /\ d \in DOMAIN b.db
                                  /\ b.db[d].utxos \subseteq s.db[d].utxos,
           \A o \in Inputs[u] \intersect late : o \in later \/ o[2] \notin b.db[o[1]].utxos
    PROVE  Placed(b, u, later)
  BY DEF Placed

\* What is claimed in one store is claimed in another with the same databases.
LEMMA SameClaims ==
    ASSUME NEW s, NEW b, b.db = s.db, b.pend = s.pend
    PROVE  /\ \A t, X : Free(s, t, X) => Free(b, t, X)
           /\ \A t, X : Placed(s, t, X) => Placed(b, t, X)
           /\ \A X : Claims(s, X) => Claims(b, X)
           /\ \A t : New(s, t) => New(b, t)
<1>1. Accepted(b) = Accepted(s)
  BY DEF Accepted
<1>2. \A t, X : Free(s, t, X) => Free(b, t, X)
  BY <1>1 DEF Free
<1>3. \A t, X : Placed(s, t, X) => Placed(b, t, X)
  BY DEF Placed
<1>4. NoDoubleSpendIn(s) => NoDoubleSpendIn(b)
  BY <1>1 DEF NoDoubleSpendIn
<1>5. \A X : Claims(s, X) => Claims(b, X)
  BY <1>1, <1>3, <1>4 DEF Claims
<1>6. \A t : New(s, t) => New(b, t)
  BY DEF New, InputsExist
<1> QED
  BY <1>2, <1>3, <1>5, <1>6

\* When nothing is under way, claims in order make a sound store.
LEMMA ClaimsSound ==
    ASSUME NEW s \in Store
    PROVE  Sound(s) <=> Claims(s, {})
<1>1. ClaimsSpentIn(s) <=> \A u \in Accepted(s) : Placed(s, u, {})
  BY DEF ClaimsSpentIn, Placed
<1> QED
  BY <1>1 DEF Sound, Claims

\* del_from_pending frees the claims of c.
LEMMA DelClaims ==
    ASSUME NEW s \in Store, NEW c, NEW X, Claims(s, X)
    PROVE  /\ Claims(DelFromPending(s, c), X)
           /\ \A t : Free(s, t, {c}) => Free(DelFromPending(s, c), t, {})
           /\ c \in DOMAIN s.pend => Free(DelFromPending(s, c), c, {})
           /\ \A t : New(s, t) => New(DelFromPending(s, c), t)
<1> DEFINE b == DelFromPending(s, c)
<1>1. b.db = s.db /\ DOMAIN b.pend = DOMAIN s.pend \ {c}
  BY DelFields
<1> HIDE DEF b
<1>2. Accepted(b) \subseteq Accepted(s)
  BY <1>1 DEF Accepted
<1>3. \A u, W : Placed(s, u, W) => Placed(b, u, W)
  BY <1>1 DEF Placed
<1>4. NoDoubleSpendIn(b)
  BY <1>2 DEF Claims, NoDoubleSpendIn
<1>5. Claims(b, X)
  BY <1>1, <1>2, <1>3, <1>4 DEF Claims
<1>6. \A t : Free(s, t, {c}) => Free(b, t, {})
  BY <1>1, <1>2 DEF Free
<1>7. ASSUME c \in DOMAIN s.pend PROVE Free(b, c, {})
  <2>1. c \notin DOMAIN s.db /\ c \notin Accepted(b)
    BY <1>1, <1>7 DEF Claims, Accepted
  <2>2. \A u \in Accepted(s) \ {c} : Inputs[u] \intersect Inputs[c] = {}
    BY <1>7 DEF Claims, NoDoubleSpendIn, Accepted
  <2> QED
    BY <1>1, <2>1, <2>2 DEF Free, Accepted
<1>8. \A t : New(s, t) => New(b, t)
  BY <1>1 DEF New, InputsExist
<1> QED
  BY <1>5, <1>6, <1>7, <1>8 DEF b

\* Putting t into pend makes its claims.
LEMMA PutPendClaims ==
    ASSUME NEW s \in Store, NEW t \in Txn, NEW ts \in Nat, New(s, t)
    PROVE  /\ t \in DOMAIN PutInPend(s, t, ts).pend
           /\ InputsExist(PutInPend(s, t, ts), t)
           /\ Placed(PutInPend(s, t, ts), t, Inputs[t])
           /\ Free(s, t, {}) /\ Claims(s, {t}) => Claims(PutInPend(s, t, ts), {t})
<1> DEFINE b == PutInPend(s, t, ts)
<1>1. b.db = s.db /\ DOMAIN b.pend = DOMAIN s.pend \union {t}
  BY DEF PutInPend, Store
<1> HIDE DEF b
<1>2. InputsExist(b, t) /\ Placed(b, t, Inputs[t])
  BY <1>1 DEF New, InputsExist, Placed
<1>3. ASSUME Free(s, t, {}), Claims(s, {t}) PROVE Claims(b, {t})
  <2>1. Accepted(b) = Accepted(s) \union {t}
    BY <1>1 DEF Accepted
  <2>2. \A u \in Accepted(s) : Inputs[u] \intersect Inputs[t] = {}
    BY <1>3 DEF Free, Accepted
  <2>3. NoDoubleSpendIn(b)
    BY <1>3, <2>1, <2>2 DEF Claims, NoDoubleSpendIn
  <2>4. \A u, W : Placed(s, u, W) => Placed(b, u, W)
    BY <1>1 DEF Placed
  <2> QED
    BY <1>1, <1>3, <2>1, <2>3, <2>4 DEF Claims, New
<1> QED
  BY <1>1, <1>2, <1>3 DEF b

\* So does putting it into the database of stored transactions.
LEMMA PutDbClaims ==
    ASSUME NEW s \in Store, NEW t \in Txn, NEW ts \in Nat, New(s, t)
    PROVE  Free(s, t, {}) /\ Claims(s, {t}) /\ Placed(s, t, {})
             => Claims(PutInDb(s, t, ts), {t}) /\ Placed(PutInDb(s, t, ts), t, {})
<1> DEFINE b == PutInDb(s, t, ts)
<1>1. /\ b.pend = s.pend /\ DOMAIN b.db = DOMAIN s.db \union {t}
      /\ \A d \in DOMAIN s.db \ {t} : b.db[d] = s.db[d]
  BY DEF PutInDb, Store
<1> HIDE DEF b
<1>2. t \notin DOMAIN s.db
  BY DEF New
<1>3. ASSUME Free(s, t, {}), Claims(s, {t}), Placed(s, t, {})
      PROVE  Claims(b, {t}) /\ Placed(b, t, {})
  <2>1. Accepted(b) = Accepted(s) \union {t} /\ t \notin DOMAIN s.pend
    BY <1>1, <1>3 DEF Accepted, Free
  <2>2. \A u \in Accepted(s) : Inputs[u] \intersect Inputs[t] = {}
    BY <1>3 DEF Free, Accepted
  <2>3. NoDoubleSpendIn(b)
    BY <1>3, <2>1, <2>2 DEF Claims, NoDoubleSpendIn
  <2>4. \A u : Placed(s, u, {}) => Placed(b, u, {})
    BY <1>1, <1>2 DEF Placed
  <2> QED
    BY <1>1, <1>3, <2>1, <2>3, <2>4 DEF Claims
<1> QED
  BY <1>3 DEF b

\* Flagging one outpoint as spent.
LEMMA SpendClaims ==
    ASSUME NEW s \in Store, NEW o \in Txn \X Nat
    PROVE  /\ \A u, late, later : Placed(s, u, late) /\ late \subseteq later \union {o}
                                    => Placed(Spend(s, {o}), u, later)
           /\ \A X : Claims(s, X) => Claims(Spend(s, {o}), X)
           /\ \A t, X : Free(s, t, X) => Free(Spend(s, {o}), t, X)
           /\ \A t : New(s, t) => New(Spend(s, {o}), t)
           /\ \A t : InputsExist(s, t) => InputsExist(Spend(s, {o}), t)
           /\ \A t \in DOMAIN s.pend : t \in DOMAIN Spend(s, {o}).pend
<1> DEFINE b == Spend(s, {o})
<1>1. /\ DOMAIN b.db = DOMAIN s.db /\ b.pend = s.pend
      /\ \A d \in DOMAIN s.db : b.db[d].utxos = {i \in s.db[d].utxos : <<d, i>> \notin {o}}
  <2> DEFINE O == {o}
  <2>1. /\ DOMAIN Spend(s, O).db = DOMAIN s.db /\ Spend(s, O).pend = s.pend
        /\ \A d \in DOMAIN s.db : Spend(s, O).db[d].utxos = {i \in s.db[d].utxos : <<d, i>> \notin O}
    <3> HIDE DEF O
    <3> QED
      BY SpendFields
  <2> QED
    BY <2>1
<1> HIDE DEF b
<1>2. o = <<o[1], o[2]>>
  OBVIOUS
<1>3. ASSUME NEW u, NEW late, NEW later, Placed(s, u, late), late \subseteq later \union {o}
      PROVE  Placed(b, u, later)
  <2>1. \A d \in DOMAIN s.db : d \in DOMAIN b.db /\ b.db[d].utxos \subseteq s.db[d].utxos
    BY <1>1
  <2>2. o[1] \in DOMAIN s.db => o[2] \notin b.db[o[1]].utxos
    BY <1>1, <1>2
  <2>3. \A x \in Inputs[u] : x[1] \in DOMAIN s.db
    BY <1>3 DEF Placed
  <2>4. \A x \in Inputs[u] \intersect late : x \in later \/ x[2] \notin b.db[x[1]].utxos
    BY <1>3, <2>2, <2>3
  <2> QED
    BY <1>3, <2>1, <2>4, PlacedLater
<1>4. Accepted(b) = Accepted(s)
  BY <1>1 DEF Accepted
<1>5. NoDoubleSpendIn(s) => NoDoubleSpendIn(b)
  BY <1>4 DEF NoDoubleSpendIn
<1>6. \A u : Placed(s, u, {}) => Placed(b, u, {})
  BY <1>3
<1>7. \A X : Claims(s, X) => Claims(b, X)
  BY <1>1, <1>4, <1>5, <1>6 DEF Claims
<1>8. \A t, X : Free(s, t, X) => Free(b, t, X)
  BY <1>1, <1>4 DEF Free
<1>9. \A t : InputsExist(s, t) => InputsExist(b, t)
  BY <1>1 DEF InputsExist
<1>10. \A t : New(s, t) => New(b, t)
  BY <1>1, <1>9 DEF New
<1>11. \A t \in DOMAIN s.pend : t \in DOMAIN b.pend
  BY <1>1
<1> QED
  BY <1>3, <1>7, <1>8, <1>9, <1>10, <1>11 DEF b

\* Writing back a wrapper that is no older than the stored one flags the
\* outpoint and changes nothing else.
LEMMA WriteIsSpend ==
    ASSUME NEW s \in Store, NEW o \in Txn \X Nat, o[1] \in DOMAIN s.db
    PROVE  [s EXCEPT !.db[o[1]] = [s.db[o[1]] EXCEPT !.utxos = @ \ {o[2]}],
                     !.pubOuts = [k \in PubKey |-> @[k] \ {o}]]
             = Spend(s, {o})
<1> DEFINE w == s.db[o[1]]
           new == [w EXCEPT !.utxos = @ \ {o[2]}]
           db1 == [s.db EXCEPT ![o[1]] = new]
           db2 == [d \in DOMAIN s.db |->
                     [ts |-> s.db[d].ts,
                      utxos |-> {i \in s.db[d].utxos : <<d, i>> \notin {o}}]]
<1>1. s.db \in [DOMAIN s.db -> Wrapper]
  BY WrappersElim DEF Store
<1>2. \A d \in DOMAIN s.db : s.db[d] = [ts |-> s.db[d].ts, utxos |-> s.db[d].utxos]
  BY <1>1 DEF Wrapper
<1>3. o = <<o[1], o[2]>>
  OBVIOUS
<1>4. new = [ts |-> w.ts, utxos |-> w.utxos \ {o[2]}]
  <2>1. w \in Wrapper
    BY <1>1
  <2> HIDE DEF w
  <2> QED
    BY <2>1 DEF Wrapper
<1>5. w.utxos \ {o[2]} = {i \in w.utxos : <<o[1], i>> \notin {o}}
  BY <1>3
<1>6. ASSUME NEW d \in DOMAIN s.db PROVE db1[d] = db2[d]
  <2>1. CASE d = o[1]
    BY <1>4, <1>5, <2>1
  <2>2. CASE d # o[1]
    <3>1. {i \in s.db[d].utxos : <<d, i>> \notin {o}} = s.db[d].utxos
      BY <1>3, <2>2
    <3>2. db1[d] = s.db[d]
      BY <2>2
    <3> QED
      BY <1>2, <3>1, <3>2
  <2> QED
    BY <2>1, <2>2
<1>7. db1 = db2
  <2>1. DOMAIN db1 = DOMAIN s.db /\ DOMAIN db2 = DOMAIN s.db
    OBVIOUS
  <2>2. db1 = [d \in DOMAIN s.db |-> db1[d]] /\ db2 = [d \in DOMAIN s.db |-> db2[d]]
    OBVIOUS
  <2> HIDE DEF db1, db2
  <2> QED
    BY <1>6, <2>2
<1>8. Spend(s, {o}) = [s EXCEPT !.db = db2, !.pubOuts = [k \in PubKey |-> s.pubOuts[k] \ {o}]]
  BY DEF Spend
<1>9. [s EXCEPT !.db[o[1]] = new, !.pubOuts = [k \in PubKey |-> @[k] \ {o}]]
        = [s EXCEPT !.db = db1, !.pubOuts = [k \in PubKey |-> s.pubOuts[k] \ {o}]]
  <2> HIDE DEF new
  <2> QED
    BY DEF Store
<1> QED
  BY <1>7, <1>8, <1>9

\* A write of a wrapper keeps the databases' types and flags.
LEMMA SpendKeeps ==
    ASSUME NEW s \in Store, NEW O
    PROVE  Spend(s, O) \in Store /\ Spend(s, O).pend = s.pend /\ Keeps(s, Spend(s, O))
<1> DEFINE b == Spend(s, O)
<1>1. b \in Store
  BY SpendStore
<1>2. b.pend = s.pend /\ DOMAIN b.db = DOMAIN s.db
  BY SpendFields
<1>3. \A d \in DOMAIN s.db : b.db[d].utxos = {i \in s.db[d].utxos : <<d, i>> \notin O}
  BY SpendFields
<1> HIDE DEF b
<1>4. Keeps(s, b)
  BY <1>2, <1>3 DEF Keeps
<1> QED
  BY <1>1, <1>2, <1>4 DEF b

-----------------------------------------------------------------------------
(***************************************************************************)
(* A turn, step by step.                                                   *)
(***************************************************************************)
\* The loop over the inputs starts with the flags as they are.
LEMMA StartFlagging ==
    ASSUME NEW t \in Txn, NEW s, NEW cp
    PROVE  /\ Flagging(FlagInputs(t), s, cp, t)
           /\ Flagging(<< >>, s, cp, t)
           /\ Left(FlagInputs(t)) = Inputs[t] /\ Left(<< >>) = {}
           /\ InputsExist(s, t) => Placed(s, t, Inputs[t])
<1>1. Flagging(FlagInputs(t), s, cp, t)
  BY FlagInputsList DEF Flagging
<1>2. FlagList(<< >>) /\ Left(<< >>) = {}
  BY DEF FlagList, Left
<1>3. Flagging(<< >>, s, cp, t)
  BY <1>2 DEF Flagging
<1>4. InputsExist(s, t) => Placed(s, t, Inputs[t])
  BY DEF InputsExist, Placed
<1> QED
  BY <1>1, <1>2, <1>3, <1>4, FlagInputsList

\* The beginnings of the stages that follow the loop's start.
LEMMA StartStoring ==
    ASSUME NEW t \in Txn, NEW ts \in Nat, NEW s, NEW cp, NEW ok \in BOOLEAN, New(s, t),
           ok => Free(s, t, {}), NEW fin
    PROVE  Turn(FlagInputs(t) \o StoreAnd(fin, t, ts), s, cp, t, ok, fin)
<1> DEFINE f == FlagInputs(t)
<1>1. Flagging(f, s, cp, t) /\ Placed(s, t, Left(f))
  BY StartFlagging DEF New
<1> HIDE DEF f
<1>2. Storing(f \o StoreAnd(fin, t, ts), f, s, cp, t, ok, fin)
  BY <1>1 DEF Storing
<1>3. Turn(f \o StoreAnd(fin, t, ts), s, cp, t, ok, fin)
  BY <1>2 DEF Turn
<1> QED
  BY <1>3 DEF f

\* del_from_pending, by either thread.
LEMMA DelTurn ==
    ASSUME NEW t \in Txn, NEW fin \in {"processed", "swept"}, NEW q, NEW s \in Store, NEW cp,
           NEW ok \in BOOLEAN, UnderWay(q, s, cp, t, ok, fin),
           Head(q).op = "delpend"
    PROVE  /\ UnderWay(Tail(q), DelFromPending(s, Head(q).txn), cp, t, ok, fin)
           /\ fin = "swept" => Head(q).txn = t
<1>0. Turn(q, s, cp, t, ok, fin) /\ (ok => Claims(s, {t}))
  BY DEF UnderWay
<1> DEFINE b == DelFromPending(s, Head(q).txn)
<1>1. \/ fin = "processed" /\ Displacing(q, s, t, ok)
      \/ fin = "swept" /\ Maturing(q, s, t, ok)
  <2> HIDE DEF b
  <2> QED
    BY <1>0, TurnStage
<1>2. ok => Claims(b, {t})
  BY <1>0, DelClaims
<1>3. \A c, ts : \A o : Step(o, c, ts).txn = c
  BY DEF Step
<1>4. ASSUME fin = "processed", Displacing(q, s, t, ok)
      PROVE  Turn(Tail(q), b, cp, t, ok, fin)
  <2>1. PICK c \in Txn, ts \in Nat :
          /\ \/ q = <<Step("delpend", c, 0)>> \o Announce(t, ts)
             \/ q = <<Step("delpend", c, 0)>> \o (FlagInputs(t) \o StoreAnd("processed", t, ts))
          /\ New(s, t)
          /\ ok => Free(s, t, {c})
    BY <1>4 DEF Displacing
  <2>2. Head(q) = Step("delpend", c, 0) /\
        Tail(q) \in {Announce(t, ts), FlagInputs(t) \o StoreAnd("processed", t, ts)}
    <3>1. ASSUME NEW e \in Seq(AnyStep), q = <<Step("delpend", c, 0)>> \o e
          PROVE  Head(q) = Step("delpend", c, 0) /\ Tail(q) = e
      BY <3>1, DelSteps
    <3>2. Announce(t, ts) \in Seq(AnyStep) /\ FlagInputs(t) \o StoreAnd("processed", t, ts) \in Seq(AnyStep)
      BY AnnounceSteps
    <3> QED
      BY <2>1, <3>1, <3>2
  <2>3. b = DelFromPending(s, c)
    BY <1>3, <2>2
  <2>4. New(s, t) => New(DelFromPending(s, c), t)
    BY DelFields DEF New, InputsExist
  <2>5. New(b, t) /\ (ok => Free(b, t, {}))
    BY <1>0, <2>1, <2>3, <2>4, DelClaims
  <2> HIDE DEF b
  <2>6. CASE Tail(q) = Announce(t, ts)
    BY <1>4, <2>5, <2>6 DEF Turn, Announcing
  <2>7. CASE Tail(q) = FlagInputs(t) \o StoreAnd("processed", t, ts)
    BY <1>4, <2>5, <2>7, StartStoring
  <2> QED
    BY <2>2, <2>6, <2>7
<1>5. ASSUME fin = "swept", Maturing(q, s, t, ok)
      PROVE  Turn(Tail(q), b, cp, t, ok, fin) /\ Head(q).txn = t
  <2>1. PICK ts \in Nat : /\ q = <<Step("delpend", t, 0), Step("verify", t, ts)>>
                          /\ t \in DOMAIN s.pend
    BY <1>5 DEF Maturing
  <2>2. Head(q) = Step("delpend", t, 0) /\ Tail(q) = <<Step("verify", t, ts)>>
    BY <2>1, TwoSteps DEF Op
  <2>3. b = DelFromPending(s, t) /\ Head(q).txn = t
    BY <1>3, <2>2
  <2>4. ok => Free(b, t, {})
    BY <1>0, <2>1, <2>3, DelClaims
  <2> HIDE DEF b
  <2> QED
    BY <1>5, <2>2, <2>3, <2>4 DEF Turn, Checking
<1> HIDE DEF b
<1>6. UnderWay(Tail(q), b, cp, t, ok, fin)
  BY <1>1, <1>2, <1>4, <1>5 DEF UnderWay
<1> QED
  BY <1>1, <1>5, <1>6 DEF b

\* The put into pend, by process_block.
LEMMA PutPendTurn ==
    ASSUME NEW t \in Txn, NEW fin \in {"processed", "swept"}, NEW q, NEW s \in Store, NEW cp,
           NEW ok \in BOOLEAN, UnderWay(q, s, cp, t, ok, fin),
           Head(q).op = "putpend"
    PROVE  LET b == PutInPend(s, Head(q).txn, Head(q).ts)
           IN  /\ Head(q).txn = t /\ Head(q).ts \in Nat /\ fin = "processed"
               /\ UnderWay(Tail(q), b, cp, t, ok, fin)
<1>0. Turn(q, s, cp, t, ok, fin) /\ (ok => Claims(s, {t}))
  BY DEF UnderWay
<1> DEFINE b == PutInPend(s, Head(q).txn, Head(q).ts)
<1>1. fin = "processed" /\ Announcing(q, s, t, ok)
  BY <1>0, TurnStage
<1>2. PICK ts \in Nat : q = Announce(t, ts) /\ New(s, t) /\ (ok => Free(s, t, {}))
  BY <1>1 DEF Announcing
<1>3. Head(q) = Step("putpend", t, ts) /\ Tail(q) = FlagInputs(t) \o Fin("processed", t)
  BY <1>2, AnnounceSteps
<1>4. Head(q).txn = t /\ Head(q).ts = ts
  BY <1>3 DEF Step
<1>5. /\ t \in DOMAIN b.pend /\ InputsExist(b, t) /\ Placed(b, t, Inputs[t])
      /\ ok => Claims(b, {t})
  BY <1>0, <1>2, <1>4, PutPendClaims
<1> HIDE DEF b
<1>6. Finishing(Tail(q), FlagInputs(t), b, cp, t, ok, fin)
  BY <1>1, <1>3, <1>5, StartFlagging DEF Finishing
<1>7. UnderWay(Tail(q), b, cp, t, ok, fin)
  BY <1>5, <1>6 DEF Turn, UnderWay
<1> QED
  BY <1>1, <1>2, <1>4, <1>7 DEF b

\* The put into the database of stored transactions, by either thread.
LEMMA PutDbTurn ==
    ASSUME NEW t \in Txn, NEW fin \in {"processed", "swept"}, NEW q, NEW s \in Store, NEW cp,
           NEW ok \in BOOLEAN, UnderWay(q, s, cp, t, ok, fin),
           Head(q).op = "putdb"
    PROVE  LET b == PutInDb(s, Head(q).txn, Head(q).ts)
           IN  /\ Head(q).txn = t /\ Head(q).ts \in Nat /\ t \notin DOMAIN s.db
               /\ UnderWay(Tail(q), b, cp, t, ok, fin)
<1>0. Turn(q, s, cp, t, ok, fin) /\ (ok => Claims(s, {t}))
  BY DEF UnderWay
<1> DEFINE b == PutInDb(s, Head(q).txn, Head(q).ts)
<1>1. Storing(q, << >>, s, cp, t, ok, fin)
  BY <1>0, TurnStage
<1>2. PICK ts \in Nat : /\ q = << >> \o StoreAnd(fin, t, ts)
                        /\ New(s, t)
                        /\ ok => Free(s, t, {}) /\ Placed(s, t, Left(<< >>))
  BY <1>1 DEF Storing
<1>3. q = StoreAnd(fin, t, ts)
  BY <1>2, LastSteps, ConcatEmptySeq
<1>4. Head(q) = Step("putdb", t, ts) /\ Tail(q) = Fin(fin, t)
  BY <1>3, LastSteps
<1>5. Head(q).txn = t /\ Head(q).ts = ts
  BY <1>4 DEF Step
<1>6. Left(<< >>) = {} /\ Flagging(<< >>, b, cp, t)
  BY StartFlagging
<1>7. ok => Claims(b, {t}) /\ Placed(b, t, {})
  BY <1>0, <1>2, <1>5, <1>6, PutDbClaims
<1>8. Tail(q) = << >> \o Fin(fin, t)
  BY <1>4, LastSteps, ConcatEmptySeq
<1> HIDE DEF b
<1>9. Finishing(Tail(q), << >>, b, cp, t, ok, fin)
  BY <1>6, <1>7, <1>8 DEF Finishing
<1>10. UnderWay(Tail(q), b, cp, t, ok, fin)
  BY <1>7, <1>9 DEF Turn, UnderWay
<1> QED
  BY <1>2, <1>5, <1>10 DEF b, New

\* The rest of a turn that stores t, one step of the loop over the inputs later.
LEMMA NextStoring ==
    ASSUME NEW t \in Txn, NEW fin \in {"processed", "swept"}, NEW q, NEW s, NEW cp,
           NEW ok \in BOOLEAN, NEW f, f # << >>, Storing(q, f, s, cp, t, ok, fin),
           NEW b, NEW cp2, Flagging(Tail(f), b, cp2, t), New(s, t) => New(b, t),
           Free(s, t, {}) => Free(b, t, {}),
           Placed(s, t, Left(f)) => Placed(b, t, Left(Tail(f)))
    PROVE  Turn(Tail(q), b, cp2, t, ok, fin)
<1>1. PICK ts \in Nat : /\ q = f \o StoreAnd(fin, t, ts)
                        /\ Flagging(f, s, cp, t)
                        /\ New(s, t)
                        /\ ok => Free(s, t, {}) /\ Placed(s, t, Left(f))
  BY DEF Storing
<1>2. StoreAnd(fin, t, ts) \in Seq(AnyStep) /\ FlagList(f)
  BY <1>1, LastSteps DEF Flagging
<1>3. Tail(q) = Tail(f) \o StoreAnd(fin, t, ts)
  BY <1>1, <1>2, RestOfFlags
<1>4. Storing(Tail(q), Tail(f), b, cp2, t, ok, fin)
  BY <1>1, <1>3 DEF Storing
<1> QED
  BY <1>4 DEF Turn

\* The same of a turn that has written t already.
LEMMA NextFinishing ==
    ASSUME NEW t \in Txn, NEW fin \in {"processed", "swept"}, NEW q, NEW s, NEW cp,
           NEW ok \in BOOLEAN, NEW f, f # << >>, Finishing(q, f, s, cp, t, ok, fin),
           NEW b, NEW cp2, Flagging(Tail(f), b, cp2, t),
           t \in DOMAIN s.pend => t \in DOMAIN b.pend,
           InputsExist(s, t) => InputsExist(b, t),
           Placed(s, t, Left(f)) => Placed(b, t, Left(Tail(f)))
    PROVE  Turn(Tail(q), b, cp2, t, ok, fin)
<1>1. /\ q = f \o Fin(fin, t)
      /\ Flagging(f, s, cp, t)
      /\ fin = "processed" /\ t \in DOMAIN s.pend /\ InputsExist(s, t)
      /\ ok => Placed(s, t, Left(f))
  BY DEF Finishing, Accepted
<1>2. FlagList(f) /\ Fin(fin, t) \in Seq(AnyStep)
  <2>1. 0 \in Nat
    OBVIOUS
  <2> QED
    BY <1>1, <2>1, LastSteps DEF Flagging
<1>3. Tail(q) = Tail(f) \o Fin(fin, t)
  BY <1>1, <1>2, RestOfFlags
<1>4. Finishing(Tail(q), Tail(f), b, cp2, t, ok, fin)
  BY <1>1, <1>3 DEF Finishing
<1> QED
  BY <1>4 DEF Turn

\* A turn that is still flagging is about to make the first step of its loop.
LEMMA FlaggingHead ==
    ASSUME NEW t \in Txn, NEW fin \in {"processed", "swept"}, NEW q, NEW s, NEW cp,
           NEW ok \in BOOLEAN, NEW f, f # << >>,
           Storing(q, f, s, cp, t, ok, fin) \/ Finishing(q, f, s, cp, t, ok, fin)
    PROVE  Head(q) = Head(f) /\ Flagging(f, s, cp, t) /\ InputsExist(s, t)
<1>1. /\ Flagging(f, s, cp, t) /\ InputsExist(s, t)
      /\ \E ts \in Nat : \E e \in {Fin(fin, t), StoreAnd(fin, t, ts)} : q = f \o e
  <2>1. CASE Storing(q, f, s, cp, t, ok, fin)
    BY <2>1 DEF Storing, New
  <2>2. CASE Finishing(q, f, s, cp, t, ok, fin)
    <3>1. 0 \in Nat
      OBVIOUS
    <3> QED
      BY <2>2, <3>1 DEF Finishing
  <2> QED
    BY <2>1, <2>2
<1>2. PICK ts \in Nat : \E e \in {Fin(fin, t), StoreAnd(fin, t, ts)} : q = f \o e
  BY <1>1
<1>5. PICK e \in {Fin(fin, t), StoreAnd(fin, t, ts)} : q = f \o e
  BY <1>2
<1>3. e \in Seq(AnyStep) /\ FlagList(f)
  BY <1>1, LastSteps DEF Flagging
<1>4. Head(q) = Head(f)
  BY <1>5, <1>3, RestOfFlags
<1> QED
  BY <1>1, <1>4

\* A step of the loop over the inputs.
LEMMA FlaggingTail ==
    ASSUME NEW t \in Txn, NEW s, NEW cp, NEW f, f # << >>, Flagging(f, s, cp, t), InputsExist(s, t)
    PROVE  /\ Head(f) \in Access /\ Head(f).out \in Inputs[t]
           /\ Head(f).out \in Txn \X Nat /\ Head(f).out[1] \in DOMAIN s.db
           /\ Head(f).op = "write" => cp = <<s.db[Head(f).out[1]]>>
           /\ Head(f).op = "read" => Flagging(Tail(f), s, <<s.db[Head(f).out[1]]>>, t)
<1> DEFINE g == Tail(f)
<1>1. FlagList(f) /\ f \in Seq(Access) /\ \A i \in 1 .. Len(f) : f[i].out \in Inputs[t]
  BY DEF Flagging, FlagList
<1>2. /\ Head(f) = f[1] /\ 1 \in 1 .. Len(f) /\ Head(f) \in Access
      /\ \A i \in 1 .. Len(g) : g[i] = f[i + 1] /\ i + 1 \in 1 .. Len(f)
  BY <1>1, TailOf
<1>3. /\ Head(f).out \in Inputs[t] /\ Head(f).out \in Txn \X Nat /\ Head(f).out[1] \in DOMAIN s.db
      /\ \A i \in 1 .. Len(g) : g[i].out \in Inputs[t]
  BY <1>1, <1>2, TxnAssumption DEF InputsExist
<1>4. /\ FlagList(g)
      /\ Head(f).op = "read" => Head(g) = [op |-> "write", out |-> Head(f).out]
      /\ Head(f).op = "write" => (g # << >> => Head(g).op = "read")
  BY <1>1, FlagTail
<1> HIDE DEF g
<1>5. Head(f).op = "read" => Flagging(g, s, <<s.db[Head(f).out[1]]>>, t)
  BY <1>3, <1>4 DEF Flagging
<1>7. Head(f).op = "write" => cp = <<s.db[Head(f).out[1]]>>
  BY DEF Flagging
<1> QED
  BY <1>2, <1>3, <1>5, <1>7 DEF g

\* After the write of a wrapper the loop reads the next one.
LEMMA FlaggingOn ==
    ASSUME NEW t, NEW s, NEW cp, NEW f, f # << >>, Flagging(f, s, cp, t),
           Head(f).op = "write", NEW b, NEW cp2
    PROVE  Flagging(Tail(f), b, cp2, t)
<1> DEFINE g == Tail(f)
<1>1. FlagList(f) /\ f \in Seq(Access) /\ \A i \in 1 .. Len(f) : f[i].out \in Inputs[t]
  BY DEF Flagging, FlagList
<1>2. \A i \in 1 .. Len(g) : g[i] = f[i + 1] /\ i + 1 \in 1 .. Len(f)
  BY <1>1, TailOf
<1>3. \A i \in 1 .. Len(g) : g[i].out \in Inputs[t]
  BY <1>1, <1>2
<1>4. FlagList(g) /\ (g # << >> => Head(g).op = "read")
  BY <1>1, FlagTail
<1> HIDE DEF g
<1>5. Flagging(g, b, cp2, t)
  BY <1>3, <1>4 DEF Flagging
<1> QED
  BY <1>5 DEF g

\* The read of a wrapper.
LEMMA ReadTurn ==
    ASSUME NEW t \in Txn, NEW fin \in {"processed", "swept"}, NEW q, NEW s \in Store, NEW cp,
           NEW ok \in BOOLEAN, UnderWay(q, s, cp, t, ok, fin), Head(q).op = "read"
    PROVE  UnderWay(Tail(q), s, <<s.db[Head(q).out[1]]>>, t, ok, fin)
<1>0. Turn(q, s, cp, t, ok, fin) /\ (ok => Claims(s, {t}))
  BY DEF UnderWay
<1>1. PICK f : /\ f # << >>
               /\ Storing(q, f, s, cp, t, ok, fin) \/ Finishing(q, f, s, cp, t, ok, fin)
  BY <1>0, TurnStage
<1>2. Head(q) = Head(f) /\ Flagging(f, s, cp, t) /\ InputsExist(s, t)
  BY <1>1, FlaggingHead
<1>3. Flagging(Tail(f), s, <<s.db[Head(q).out[1]]>>, t)
  BY <1>1, <1>2, FlaggingTail
<1>4. Left(Tail(f)) = Left(f)
  BY <1>1, <1>2, FlagTail DEF Flagging
<1> DEFINE w == <<s.db[Head(q).out[1]]>>
<1>5. ASSUME Storing(q, f, s, cp, t, ok, fin) PROVE Turn(Tail(q), s, w, t, ok, fin)
  BY <1>1, <1>3, <1>4, <1>5, NextStoring
<1>6. ASSUME Finishing(q, f, s, cp, t, ok, fin) PROVE Turn(Tail(q), s, w, t, ok, fin)
  BY <1>1, <1>3, <1>4, <1>6, NextFinishing
<1> HIDE DEF w
<1>7. UnderWay(Tail(q), s, w, t, ok, fin)
  BY <1>0, <1>1, <1>5, <1>6 DEF UnderWay
<1> QED
  BY <1>7 DEF w

\* The wrapper that is about to be written is the one that was read, still the
\* stored one.
Current(q, s, cp) == /\ Head(q).out \in Txn \X Nat
                     /\ Head(q).out[1] \in DOMAIN s.db
                     /\ cp = <<s.db[Head(q).out[1]]>>

\* It is, because nobody else writes while a turn is under way.
LEMMA WriteCurrent ==
    ASSUME NEW t \in Txn, NEW fin \in {"processed", "swept"}, NEW q, NEW s \in Store, NEW cp,
           NEW ok \in BOOLEAN, UnderWay(q, s, cp, t, ok, fin),
           Head(q).op = "write"
    PROVE  Current(q, s, cp)
<1>0. Turn(q, s, cp, t, ok, fin) /\ (ok => Claims(s, {t}))
  BY DEF UnderWay
<1>1. PICK f : /\ f # << >>
               /\ Storing(q, f, s, cp, t, ok, fin) \/ Finishing(q, f, s, cp, t, ok, fin)
  BY <1>0, TurnStage
<1>2. Head(q) = Head(f) /\ Flagging(f, s, cp, t) /\ InputsExist(s, t)
  BY <1>1, FlaggingHead
<1>3. Current(q, s, cp)
  <2>1. Head(f).op = "write"
    BY <1>2
  <2>2. /\ Head(f).out \in Txn \X Nat /\ Head(f).out[1] \in DOMAIN s.db
    <3>1. f # << >> /\ Flagging(f, s, cp, t) /\ InputsExist(s, t)
      BY <1>1, <1>2
    <3> QED
      BY <3>1, FlaggingTail
  <2>3. cp = <<s.db[Head(f).out[1]]>>
    BY <1>1, <1>2, <2>1 DEF Flagging
  <2> QED
    BY <1>2, <2>2, <2>3 DEF Current
<1> QED
  BY <1>3

\* Its write flags one outpoint more.
LEMMA WriteTurn ==
    ASSUME NEW t \in Txn, NEW fin \in {"processed", "swept"}, NEW q, NEW s \in Store, NEW cp,
           NEW ok \in BOOLEAN, UnderWay(q, s, cp, t, ok, fin),
           Head(q).op = "write", NEW o, o = Head(q).out, NEW cp2
    PROVE  UnderWay(Tail(q), Spend(s, {o}), cp2, t, ok, fin)
<1>0. Turn(q, s, cp, t, ok, fin) /\ (ok => Claims(s, {t}))
  BY DEF UnderWay
<1>1. PICK f : /\ f # << >>
               /\ Storing(q, f, s, cp, t, ok, fin) \/ Finishing(q, f, s, cp, t, ok, fin)
  BY <1>0, TurnStage
<1>2. Head(q) = Head(f) /\ Flagging(f, s, cp, t) /\ InputsExist(s, t)
  BY <1>1, FlaggingHead
<1> DEFINE b == Spend(s, {o})
<1>3. o \in Txn \X Nat /\ o[1] \in DOMAIN s.db /\ cp = <<s.db[o[1]]>>
  <2>1. Current(q, s, cp)
    BY WriteCurrent
  <2> QED
    BY <2>1 DEF Current
<1>9. Flagging(Tail(f), b, cp2, t)
  <2> HIDE DEF b
  <2> QED
    BY <1>1, <1>2, FlaggingOn
<1>4. Left(f) = Left(Tail(f)) \union {o}
  BY <1>1, <1>2, FlagTail DEF Flagging
<1>5. /\ Placed(s, t, Left(f)) => Placed(b, t, Left(Tail(f)))
      /\ ok => Claims(b, {t})
      /\ Free(s, t, {}) => Free(b, t, {})
      /\ New(s, t) => New(b, t)
      /\ InputsExist(s, t) => InputsExist(b, t)
      /\ t \in DOMAIN s.pend => t \in DOMAIN b.pend
  BY <1>0, <1>3, <1>4, SpendClaims
<1> HIDE DEF b
<1>6. ASSUME Storing(q, f, s, cp, t, ok, fin) PROVE Turn(Tail(q), b, cp2, t, ok, fin)
  BY <1>1, <1>5, <1>6, <1>9, NextStoring
<1>7. ASSUME Finishing(q, f, s, cp, t, ok, fin) PROVE Turn(Tail(q), b, cp2, t, ok, fin)
  BY <1>1, <1>5, <1>7, <1>9, NextFinishing
<1>8. UnderWay(Tail(q), b, cp2, t, ok, fin)
  BY <1>1, <1>5, <1>6, <1>7 DEF UnderWay
<1> QED
  BY <1>8 DEF b

\* Once t's own claims are flagged too, all claims are.
LEMMA ClaimsClosed ==
    ASSUME NEW s, NEW t, Claims(s, {t}), t \in Accepted(s) => Placed(s, t, {})
    PROVE  Claims(s, {})
<1>1. \A u \in Accepted(s) : Placed(s, u, {})
  BY DEF Claims
<1>2. /\ DOMAIN s.db \intersect DOMAIN s.pend = {} /\ NoDoubleSpendIn(s)
  BY DEF Claims
<1> QED
  BY <1>1, <1>2 DEF Claims

\* Only fewer claims have to be flagged while a turn about t is under way.
LEMMA ClaimsOpened ==
    ASSUME NEW s, NEW t, Claims(s, {}) PROVE Claims(s, {t})
<1>1. /\ DOMAIN s.db \intersect DOMAIN s.pend = {} /\ NoDoubleSpendIn(s)
      /\ \A u \in Accepted(s) : Placed(s, u, {})
  BY DEF Claims
<1> QED
  BY <1>1 DEF Claims

\* The end of a turn: t's claims, if it was accepted, are all flagged.
LEMMA EndTurn ==
    ASSUME NEW t \in Txn, NEW fin \in {"processed", "swept"}, NEW q, NEW s, NEW cp,
           NEW ok \in BOOLEAN, UnderWay(q, s, cp, t, ok, fin),
           Head(q).op \in {"processed", "swept"}
    PROVE  /\ Head(q).op = fin /\ Head(q).txn = t /\ Tail(q) = << >>
           /\ ok => Claims(s, {})
<1>0. Turn(q, s, cp, t, ok, fin) /\ (ok => Claims(s, {t}))
  BY DEF UnderWay
<1>1. Head(q).op = fin /\ Finishing(q, << >>, s, cp, t, ok, fin)
  BY <1>0, TurnStage
<1>2. q = << >> \o Fin(fin, t) /\ (ok => (t \in Accepted(s) => Placed(s, t, Left(<< >>))))
  BY <1>1 DEF Finishing
<1>3. 0 \in Nat
  OBVIOUS
<1>4. /\ Fin(fin, t) \in Seq(AnyStep)
      /\ Head(Fin(fin, t)) = Step(fin, t, 0) /\ Tail(Fin(fin, t)) = << >>
  BY <1>3, LastSteps
<1>5. q = Fin(fin, t)
  BY <1>2, <1>4, ConcatEmptySeq
<1>6. Head(q).txn = t /\ Tail(q) = << >>
  BY <1>4, <1>5 DEF Step
<1>7. Left(<< >>) = {}
  BY StartFlagging
<1>8. ok => Claims(s, {})
  BY <1>0, <1>2, <1>7, ClaimsClosed
<1> QED
  BY <1>1, <1>6, <1>8

\* A turn may start by finishing, when t is not accepted.
LEMMA StartFinishing ==
    ASSUME NEW t \in Txn, NEW s, NEW cp, NEW ok \in BOOLEAN, NEW fin \in {"processed", "swept"},
           ok => t \notin Accepted(s)
    PROVE  Turn(Fin(fin, t), s, cp, t, ok, fin)
<1>1. Flagging(<< >>, s, cp, t)
  BY StartFlagging
<1>2. Fin(fin, t) = << >> \o Fin(fin, t)
  <2>1. 0 \in Nat
    OBVIOUS
  <2> QED
    BY <2>1, LastSteps, ConcatEmptySeq
<1>3. Finishing(Fin(fin, t), << >>, s, cp, t, ok, fin)
  BY <1>1, <1>2 DEF Finishing
<1> QED
  BY <1>3 DEF Turn

\* The lists that write_txn_to_db and process_block put together.
LEMMA WriteSteps ==
    ASSUME NEW t \in Txn, NEW ts \in Nat, NEW fin \in {"processed", "swept"}
    PROVE  /\ WriteToDb(t, ts) \o Fin(fin, t) = FlagInputs(t) \o StoreAnd(fin, t, ts)
           /\ WriteToPend(t, ts) \o Fin(fin, t) = <<Step("putpend", t, ts)>> \o (FlagInputs(t) \o Fin(fin, t))
<1> DEFINE x == Step("putdb", t, ts)
           y == Step(fin, t, 0)
           z == Step("putpend", t, ts)
           f == FlagInputs(t)
<1>1. x \in AnyStep /\ y \in AnyStep /\ z \in AnyStep
  BY DEF Step, AnyStep, Op
<1>2. f \in Seq(AnyStep)
  BY AnnounceSteps
<1> HIDE DEF x, y, z, f
<1>4. <<x>> \in Seq(AnyStep) /\ <<y>> \in Seq(AnyStep) /\ <<z>> \in Seq(AnyStep)
  BY <1>1
<1>3. <<x>> \o <<y>> = <<x, y>>
  <2>1. <<x>> \o <<y>> \in Seq(AnyStep) /\ Len(<<x>> \o <<y>>) = 2
        /\ (<<x>> \o <<y>>)[1] = x /\ (<<x>> \o <<y>>)[2] = y
    BY <1>4, ConcatProperties
  <2>2. <<x, y>> \in Seq(AnyStep) /\ Len(<<x, y>>) = 2
        /\ <<x, y>>[1] = x /\ <<x, y>>[2] = y
    BY <1>1
  <2>3. \A i \in 1 .. 2 : (<<x>> \o <<y>>)[i] = <<x, y>>[i]
    <3>1. \A i \in 1 .. 2 : i = 1 \/ i = 2
      OBVIOUS
    <3> QED
      BY <2>1, <2>2, <3>1
  <2> QED
    BY <2>1, <2>2, <2>3, SeqEqual
<1>5. (f \o <<x>>) \o <<y>> = f \o (<<x>> \o <<y>>)
  BY <1>2, <1>4, ConcatAssociative
<1>6. (<<z>> \o f) \o <<y>> = <<z>> \o (f \o <<y>>)
  BY <1>2, <1>4, ConcatAssociative
<1> QED
  BY <1>3, <1>5, <1>6 DEF x, y, z, f, WriteToDb, WriteToPend, Fin, StoreAnd

\* The steps that follow verify_txn's success, with the replaced transaction.
LEMMA AcceptStepsAre ==
    ASSUME NEW s, NEW t \in Txn, s.now \in Nat
    PROVE  LET e == IF Timelock[t] > 0 THEN Announce(t, s.now)
                                       ELSE FlagInputs(t) \o StoreAnd("processed", t, s.now)
           IN  AcceptSteps(s, t) = IF Conflicts(s, t) = {}
                                   THEN e ELSE <<Step("delpend", Conflict(s, t), 0)>> \o e
<1> DEFINE w == IF Timelock[t] > 0 THEN WriteToPend(t, s.now) ELSE WriteToDb(t, s.now)
           d == IF Conflicts(s, t) = {} THEN << >> ELSE <<Step("delpend", Conflict(s, t), 0)>>
           p == Fin("processed", t)
           e == IF Timelock[t] > 0 THEN Announce(t, s.now)
                                   ELSE FlagInputs(t) \o StoreAnd("processed", t, s.now)
<1> DEFINE A == {Step(o, c, ts) : o \in Op, c \in Txn \union {Conflict(s, t)}, ts \in Nat} \union Access
<1>0. "processed" \in {"processed", "swept"}
  OBVIOUS
<1>1. w \o p = e
  BY <1>0, WriteSteps DEF Announce
<1>2. AcceptSteps(s, t) = (d \o w) \o p
  BY DEF AcceptSteps, Fin
<1>3. Step("putdb", t, s.now) \in A /\ Step("putpend", t, s.now) \in A /\ Step("processed", t, 0) \in A
      /\ Step("delpend", Conflict(s, t), 0) \in A
  BY DEF Op
<1>4. FlagInputs(t) \in Seq(A)
  BY FlagInputsList, SeqMonotonic DEF FlagList
<1> HIDE DEF A
<1>5. w \in Seq(A) /\ p \in Seq(A) /\ d \in Seq(A)
  <2>1. <<Step("putdb", t, s.now)>> \in Seq(A) /\ <<Step("putpend", t, s.now)>> \in Seq(A)
        /\ <<Step("processed", t, 0)>> \in Seq(A) /\ <<Step("delpend", Conflict(s, t), 0)>> \in Seq(A)
        /\ << >> \in Seq(A)
    BY <1>3
  <2>2. WriteToDb(t, s.now) \in Seq(A) /\ WriteToPend(t, s.now) \in Seq(A)
    BY <1>4, <2>1, ConcatProperties DEF WriteToDb, WriteToPend
  <2> QED
    BY <2>1, <2>2 DEF Fin
<1>6. w \o p \in Seq(A)
  BY <1>5, ConcatProperties
<1> HIDE DEF w, p, e
<1>7. (d \o w) \o p = d \o (w \o p)
  <2> HIDE DEF d
  <2> QED
    BY <1>5, ConcatAssociative
<1>8. Conflicts(s, t) = {} => d \o e = e
  BY <1>1, <1>6, ConcatEmptySeq
<1>9. Conflicts(s, t) # {} => d \o e = <<Step("delpend", Conflict(s, t), 0)>> \o e
  OBVIOUS
<1>10. AcceptSteps(s, t) = d \o e
  BY <1>1, <1>2, <1>7
<1> HIDE DEF d
<1> QED
  BY <1>8, <1>9, <1>10 DEF e

\* process_block starts a turn for a transaction that verify_txn accepts.
LEMMA BeginTurn ==
    ASSUME NEW s \in Store, NEW t \in Txn \ Genesis, VerifyTxn(s, t, TRUE), NEW cp,
           NEW ok \in BOOLEAN, ok => Claims(s, {})
    PROVE  UnderWay(AcceptSteps(s, t), s, cp, t, ok, "processed")
<1> DEFINE e == IF Timelock[t] > 0 THEN Announce(t, s.now)
                                   ELSE FlagInputs(t) \o StoreAnd("processed", t, s.now)
           c == Conflict(s, t)
<1>0. ok => Claims(s, {t})
  BY ClaimsOpened
<1>1. New(s, t) /\ s.now \in Nat
  BY DEF VerifyTxn, New, Store
<1>2. ok => Sound(s)
  BY ClaimsSound
<1>3. ok => t \notin Accepted(s)
  BY <1>2, VerifiedIsNew
<1>4. ok => \A u \in Accepted(s) \ Replaced(s, t) : Inputs[u] \intersect Inputs[t] = {}
  BY <1>2, VerifiedIsAlone
<1>5. CASE Conflicts(s, t) = {}
  <2>1. AcceptSteps(s, t) = e
    BY <1>1, <1>5, AcceptStepsAre
  <2>2. ok => Free(s, t, {})
    BY <1>3, <1>4, <1>5 DEF Replaced, Free, Accepted
  <2>3. CASE Timelock[t] > 0
    <3>1. Announcing(AcceptSteps(s, t), s, t, ok)
      BY <1>1, <2>1, <2>2, <2>3 DEF Announcing
    <3> QED
      BY <1>0, <3>1 DEF Turn, UnderWay
  <2>4. CASE ~(Timelock[t] > 0)
    <3>1. AcceptSteps(s, t) = FlagInputs(t) \o StoreAnd("processed", t, s.now)
      BY <2>1, <2>4
    <3> QED
      BY <1>0, <1>1, <2>2, <3>1, StartStoring DEF UnderWay
  <2> QED
    BY <2>3, <2>4
<1>6. CASE Conflicts(s, t) # {}
  <2>1. AcceptSteps(s, t) = <<Step("delpend", c, 0)>> \o e
    BY <1>1, <1>6, AcceptStepsAre
  <2>2. c \in DOMAIN s.pend
    BY <1>6, ConflictFact
  <2>3. c \in Txn
    BY <2>2, StampsElim DEF Store
  <2>4. ok => DOMAIN s.db \intersect DOMAIN s.pend = {}
    BY DEF Claims
  <2>5. ok => Free(s, t, {c})
    BY <1>3, <1>4, <1>6, <2>2, <2>4 DEF Replaced, Free, Accepted
  <2>6. Displacing(AcceptSteps(s, t), s, t, ok)
    <3> HIDE DEF c
    <3>1. CASE Timelock[t] > 0
      BY <1>1, <2>1, <2>3, <2>5, <3>1 DEF Displacing
    <3>2. CASE ~(Timelock[t] > 0)
      BY <1>1, <2>1, <2>3, <2>5, <3>2 DEF Displacing
    <3> QED
      BY <3>1, <3>2
  <2> QED
    BY <1>0, <2>6 DEF Turn, UnderWay
<1> QED
  BY <1>5, <1>6

\* update_pend starts a turn for a transaction whose lock has expired.
LEMMA BeginMaturing ==
    ASSUME NEW s, NEW p \in Txn, p \in DOMAIN s.pend, NEW ts \in Nat, NEW cp,
           NEW ok \in BOOLEAN, ok => Claims(s, {})
    PROVE  UnderWay(<<Step("delpend", p, 0), Step("verify", p, ts)>>, s, cp, p, ok, "swept")
<1>1. ok => Placed(s, p, {})
  BY DEF Claims, Accepted
<1>2. Maturing(<<Step("delpend", p, 0), Step("verify", p, ts)>>, s, p, ok)
  BY <1>1 DEF Maturing
<1>3. ok => Claims(s, {p})
  BY ClaimsOpened
<1> QED
  BY <1>2, <1>3 DEF Turn, UnderWay

\* What a turn comes to that has taken t out of pend, and verifies it.
Verifying(q, s, cp, t, ok) ==
    /\ Head(q).txn = t
    /\ VerifyTxn(s, t, FALSE)
         => UnderWay(WriteToDb(t, Head(q).ts) \o Fin("swept", t), s, cp, t, ok, "swept")
    /\ UnderWay(Fin("swept", t), Reject(s, t), cp, t, ok, "swept")

\* verify_txn of what update_pend has taken out of pend.
LEMMA VerifyTurn ==
    ASSUME NEW t \in Txn, NEW q, NEW s \in Store, NEW cp,
           NEW ok \in BOOLEAN, UnderWay(q, s, cp, t, ok, "swept"), Head(q).op = "verify"
    PROVE  Verifying(q, s, cp, t, ok)
<1>0. Turn(q, s, cp, t, ok, "swept") /\ (ok => Claims(s, {t}))
  BY DEF UnderWay
<1>1. Checking(q, s, t, ok)
  BY <1>0, TurnStage
<1>2. PICK ts \in Nat : q = <<Step("verify", t, ts)>> /\ (ok => Free(s, t, {}))
  BY <1>1 DEF Checking
<1>3. Head(q) = Step("verify", t, ts)
  BY <1>2
<1>4. Head(q).txn = t /\ Head(q).ts = ts
  BY <1>3 DEF Step
<1>5. ASSUME VerifyTxn(s, t, FALSE)
      PROVE  UnderWay(WriteToDb(t, ts) \o Fin("swept", t), s, cp, t, ok, "swept")
  <2>1. New(s, t)
    BY <1>5 DEF VerifyTxn, New
  <2>2. WriteToDb(t, ts) \o Fin("swept", t) = FlagInputs(t) \o StoreAnd("swept", t, ts)
    BY WriteSteps
  <2> QED
    BY <1>0, <1>2, <2>1, <2>2, StartStoring DEF UnderWay
<1> DEFINE b == Reject(s, t)
<1>6. b.db = s.db /\ b.pend = s.pend
  BY RejectFields
<1> HIDE DEF b
<1>7. /\ ok => Claims(b, {t})
      /\ ok => t \notin Accepted(b)
  <2>1. ok => t \notin Accepted(s)
    BY <1>2 DEF Free
  <2> QED
    BY <1>0, <1>6, <2>1, SameClaims DEF Accepted
<1>8. UnderWay(Fin("swept", t), b, cp, t, ok, "swept")
  BY <1>7, StartFinishing DEF UnderWay
<1> QED
  BY <1>4, <1>5, <1>8 DEF b, Verifying

\* What a turn leaves to be flagged of t's claims, once t is accepted: only
\* outpoints that its own list of steps is going to write, and only of a
\* pending transaction.
Pledged(s, t, q, fin) ==
    \E late : /\ Placed(s, t, late)
              /\ \A o \in late : [op |-> "write", out |-> o] \in ToSet(q)
              /\ late # {} => fin = "processed" /\ t \in DOMAIN s.pend

\* Each stage of a turn keeps that promise.
LEMMA TurnPledges ==
    ASSUME NEW t \in Txn, NEW fin \in {"processed", "swept"}, NEW q, NEW s, NEW cp,
           Turn(q, s, cp, t, TRUE, fin), t \in Accepted(s)
    PROVE  Pledged(s, t, q, fin)
<1>1. \A X : ~Free(s, t, X)
  BY DEF Free
<1>2. ASSUME Placed(s, t, {}) PROVE Pledged(s, t, q, fin)
  BY <1>2 DEF Pledged
<1>3. ASSUME NEW f, Finishing(q, f, s, cp, t, TRUE, fin) PROVE Pledged(s, t, q, fin)
  <2>1. /\ q = f \o Fin(fin, t) /\ FlagList(f) /\ Placed(s, t, Left(f))
        /\ f # << >> => fin = "processed" /\ t \in DOMAIN s.pend
    BY <1>3 DEF Finishing, Flagging
  <2>2. 0 \in Nat
    OBVIOUS
  <2>3. f \in Seq(AnyStep) /\ Fin(fin, t) \in Seq(AnyStep)
    BY <2>1, <2>2, FlagSteps, LastSteps
  <2>4. ASSUME NEW o \in Left(f)
        PROVE  [op |-> "write", out |-> o] \in ToSet(q) /\ f # << >>
    <3>1. PICK j \in 1 .. Len(f) : f[j].op = "write" /\ f[j].out = o
      BY <2>4 DEF Left
    <3>2. f[j] \in Access /\ Len(f) \in Nat /\ Len(Fin(fin, t)) \in Nat
      BY <2>1, <2>3 DEF FlagList
    <3>3. f[j] = [op |-> "write", out |-> o]
      BY <3>1, <3>2 DEF Access
    <3>4. q[j] = f[j] /\ j \in 1 .. Len(q) /\ q \in Seq(AnyStep)
      BY <2>1, <2>3, <3>2, ConcatProperties
    <3>5. j \in DOMAIN q
      BY <3>4
    <3>6. f # << >>
      BY <3>2
    <3> QED
      BY <3>3, <3>4, <3>5, <3>6 DEF ToSet
  <2> QED
    BY <2>1, <2>4 DEF Pledged
<1>4. ~Displacing(q, s, t, TRUE) /\ ~Announcing(q, s, t, TRUE) /\ ~Checking(q, s, t, TRUE)
  BY <1>1 DEF Displacing, Announcing, Checking
<1>5. \A f : ~Storing(q, f, s, cp, t, TRUE, fin)
  BY <1>1 DEF Storing
<1>6. Maturing(q, s, t, TRUE) => Placed(s, t, {})
  BY DEF Maturing
<1> QED
  BY <1>2, <1>3, <1>4, <1>5, <1>6 DEF Turn

-----------------------------------------------------------------------------
(***************************************************************************)
(* The inductive invariant.                                                *)
(***************************************************************************)
Finisher(th) == IF th = "reactor" THEN "processed" ELSE "swept"

PlanShape ==
    /\ plan = [th \in Thread |-> plan[th]]
    /\ copy = [th \in Thread |-> copy[th]]
    /\ torn \in BOOLEAN

Quiet ==
    /\ \A th \in Thread : Idle(th)
    /\ \A p \in DOMAIN sweep : p \in DOMAIN store.pend
    /\ ~torn => Claims(store, {})

\* Thread th is in the middle of a turn about t, and the other one is idle.
Busy(th, t) ==
    /\ \A other \in Thread \ {th} : Idle(other)
    /\ ~Idle(th)
    /\ th = "reactor" => applying = << >> /\ processing /\ todo # << >> /\ t = Head(todo)
    /\ th = "raft" => applying # << >>
    /\ \A p \in DOMAIN sweep \ {t} : p \in DOMAIN store.pend
    /\ UnderWay(plan[th], store, copy[th], t, ~torn, Finisher(th))

Stage == Quiet \/ \E th \in Thread, t \in Txn : Busy(th, t)

StepsInv == TypeInv /\ PlanShape /\ Stage

-----------------------------------------------------------------------------
\* The types of the ledger's variables after a step that touches only these.
LEMMA TypeKept ==
    ASSUME TypeInv, store' \in Store, todo' \in Seq(Txn \ Genesis), sweep' \in Stamps,
           applying = << >> => DOMAIN sweep' = {},
           UNCHANGED <<blockQueue, processing, applying, applied, restarts>>
    PROVE  TypeInv'
  BY StoreIff, StampsIff DEF TypeInv, TypeOK

\* What TypeInv says of the variables of a turn.
LEMMA TypeFacts ==
    ASSUME TypeInv
    PROVE  /\ store \in Store /\ sweep \in Stamps /\ todo \in Seq(Txn \ Genesis)
           /\ applying = << >> => DOMAIN sweep = {}
           /\ \A p \in DOMAIN sweep : p \in Txn /\ sweep[p] \in Nat
<1>1. store \in Store /\ sweep \in Stamps
  BY StoreIff, StampsIff DEF TypeInv, TypeOK
<1>2. \A p \in DOMAIN sweep : p \in Txn /\ sweep[p] \in Nat
  BY <1>1, StampsElim
<1> QED
  BY <1>1, <1>2 DEF TypeInv, TypeOK

\* A sweep without one of its entries is still one.
LEMMA SweepWithout ==
    ASSUME NEW f \in Stamps, NEW p
    PROVE  /\ [q \in DOMAIN f \ {p} |-> f[q]] \in Stamps
           /\ DOMAIN [q \in DOMAIN f \ {p} |-> f[q]] = DOMAIN f \ {p}
<1> DEFINE D == DOMAIN f \ {p}
<1>1. D \in SUBSET Txn /\ [q \in D |-> f[q]] \in [D -> Nat]
  BY StampsElim
<1>2. [q \in D |-> f[q]] \in Stamps
  BY <1>1, StampsIntro
<1> QED
  BY <1>2

\* A thread that makes a step is the busy one.
LEMMA WhoIsBusy ==
    ASSUME StepsInv, NEW th \in Thread, ~Idle(th)
    PROVE  \E t \in Txn : Busy(th, t)
  BY DEF StepsInv, Stage, Quiet, Busy

\* With Serial, one who starts something while no thread is busy finds both
\* idle.
LEMMA WhoIsQuiet ==
    ASSUME StepsInv, Serial
    PROVE  /\ ReactorMayRun /\ Idle("reactor") => Quiet
           /\ applying = << >> /\ Idle("reactor") => Quiet
           /\ applying # << >> /\ Idle("raft") => Quiet
<1>1. ASSUME applying = << >>, Idle("reactor") PROVE Quiet
  BY <1>1 DEF StepsInv, Stage, Busy, Thread
<1>2. ASSUME applying # << >>, Idle("raft") PROVE Quiet
  BY <1>2 DEF StepsInv, Stage, Busy, Thread
<1> QED
  BY <1>1, <1>2 DEF ReactorMayRun

\* A step of a turn that leads to another step of it.
LEMMA BusyNext ==
    ASSUME StepsInv, NEW th \in Thread, NEW t \in Txn, Busy(th, t), NEW op, Makes(th, op),
           store' \in Store, UNCHANGED <<todo, sweep>>, copy' = [copy EXCEPT ![th] = copy'[th]],
           UnderWay(Tail(plan[th]), store', copy'[th], t, ~torn, Finisher(th)),
           \A p \in DOMAIN sweep \ {t} : p \in DOMAIN store.pend => p \in DOMAIN store'.pend
    PROVE  StepsInv'
<1>1. TypeInv'
  BY TypeFacts, TypeKept DEF StepsInv, Makes
<1>2. plan' = [plan EXCEPT ![th] = Tail(plan[th])] /\ torn' = torn
  BY DEF Makes
<1>3. /\ plan'[th] = Tail(plan[th])
      /\ \A other \in Thread \ {th} : plan'[other] = plan[other]
      /\ PlanShape'
  BY <1>2 DEF StepsInv, PlanShape
<1>4. Tail(plan[th]) # << >>
  BY TurnStage DEF Finisher, StepsInv, PlanShape, UnderWay
<1>5. Busy(th, t)'
  BY <1>2, <1>3, <1>4 DEF Busy, Idle, Makes
<1> QED
  BY <1>1, <1>3, <1>5 DEF StepsInv, Stage

-----------------------------------------------------------------------------
(***************************************************************************)
(* The steps.                                                              *)
(***************************************************************************)
\* The steps that write nothing to the databases happen outside of turns.
LEMMA WholeStep ==
    ASSUME StepsInv, Serial, Whole
    PROVE  StepsInv' /\ Keeps(store, store')
<1> USE DEF StepsInv
<1>1. UNCHANGED stepVars
  BY DEF Whole
<1>2. Next
  BY <1>1 DEF Whole, Next
<1>3. TypeInv' /\ Keeps(store, store')
  BY <1>2, TypeStep, StoreStep
<1>4. PlanShape'
  BY <1>1 DEF PlanShape, stepVars
<1>5. store \in Store
  BY TypeFacts
<1>6. ASSUME Quiet, store'.db = store.db, store'.pend = store.pend,
             sweep' = sweep \/ sweep' = store.pend
      PROVE  Quiet'
  <2>1. ~torn => Claims(store', {})
    BY <1>6, SameClaims DEF Quiet
  <2> QED
    BY <1>1, <1>6, <2>1 DEF Quiet, Idle, stepVars
<1>7. ASSUME Quiet' PROVE StepsInv'
  BY <1>3, <1>4, <1>7 DEF Stage
<1>8. CASE Idle("reactor") /\ \E t \in Txn \ Genesis : PutTxn(t)
  <2>1. PICK t \in Txn \ Genesis : PutTxn(t)
    BY <1>8
  <2>2. store'.db = store.db /\ store'.pend = store.pend
    BY <1>5, <2>1, AddToMempoolType DEF PutTxn
  <2>3. Quiet /\ sweep' = sweep
    BY <1>8, <2>1, WhoIsQuiet DEF PutTxn
  <2> QED
    BY <1>3, <1>6, <1>7, <2>2, <2>3
<1>9. CASE Idle("reactor") /\ (TryProcessBackoff \/ TryProcess)
  <2>1. Head(blockQueue).time \in Nat
    BY <1>9, BlockTxns DEF TryProcessBackoff, TryProcess, TypeInv, TypeOK
  <2>2. store'.db = store.db /\ store'.pend = store.pend
    BY <1>5, <1>9, <2>1, RetimeType DEF TryProcessBackoff, TryProcess
  <2>3. Quiet /\ sweep' = sweep
    BY <1>9, WhoIsQuiet DEF TryProcessBackoff, TryProcess
  <2> QED
    BY <1>3, <1>6, <1>7, <2>2, <2>3
<1>10. CASE Idle("reactor") /\ FinishBlock
  <2>1. Quiet /\ sweep' = sweep /\ store' = store
    BY <1>10, WhoIsQuiet DEF FinishBlock
  <2> QED
    BY <1>3, <1>6, <1>7, <2>1
<1>11. CASE (Serial => Idle("reactor")) /\ \E b \in Block : AddBlockToQueue(b)
  <2>1. Quiet /\ sweep' = store.pend /\ store' = store
    BY <1>11, WhoIsQuiet DEF AddBlockToQueue
  <2> QED
    BY <1>3, <1>6, <1>7, <2>1
<1>12. CASE Idle("raft") /\ EnqueueBlock
  <2>1. Quiet /\ sweep' = sweep /\ store' = store
    BY <1>12, WhoIsQuiet DEF EnqueueBlock
  <2> QED
    BY <1>3, <1>6, <1>7, <2>1
<1> QED
  BY <1>8, <1>9, <1>10, <1>11, <1>12 DEF Whole

\* process_block turns to a transaction: a turn begins, or verify_txn fails.
LEMMA BeginTxnStep ==
    ASSUME StepsInv, Serial, BeginTxn
    PROVE  StepsInv' /\ Keeps(store, store')
<1> USE DEF StepsInv
<1> DEFINE t == Head(todo)
<1>1. Quiet /\ applying = << >>
  BY WhoIsQuiet DEF BeginTxn, ReactorMayRun
<1>2. store \in Store /\ sweep \in Stamps /\ DOMAIN sweep = {}
  BY <1>1, TypeFacts
<1>3. todo \in Seq(Txn \ Genesis) /\ todo # << >> /\ processing
  BY TypeFacts DEF BeginTxn
<1>4. t \in Txn \ Genesis /\ Tail(todo) \in Seq(Txn \ Genesis)
  BY <1>3
<1>5. CASE ~VerifyTxn(store, t, TRUE)
  <2> DEFINE b == Reject(store, t)
  <2>1. b \in Store /\ b.db = store.db /\ b.pend = store.pend
    BY <1>2, <1>4, RejectStore, RejectFields
  <2>2. store' = b /\ todo' = Tail(todo) /\ plan' = plan
    BY <1>5 DEF BeginTxn
  <2> HIDE DEF b
  <2>3. TypeInv'
    BY <1>2, <1>4, <2>1, <2>2, TypeKept DEF BeginTxn
  <2>4. ~torn => Claims(store', {})
    BY <1>1, <2>1, <2>2, SameClaims DEF Quiet
  <2>5. Quiet'
    BY <1>1, <2>1, <2>2, <2>4 DEF Quiet, Idle, BeginTxn
  <2>6. PlanShape'
    BY <2>2 DEF PlanShape, BeginTxn
  <2>7. Keeps(store, store')
    BY <2>1, <2>2 DEF Keeps
  <2> QED
    BY <2>3, <2>5, <2>6, <2>7 DEF Stage
<1>6. CASE VerifyTxn(store, t, TRUE)
  <2>1. /\ store' = store /\ todo' = todo
        /\ plan' = [plan EXCEPT !["reactor"] = AcceptSteps(store, t)]
    BY <1>6 DEF BeginTxn
  <2>2. UNCHANGED <<blockQueue, processing, applying, sweep, applied, restarts, copy, torn>>
    BY DEF BeginTxn
  <2> HIDE DEF t
  <2>3. TypeInv'
    BY <1>2, <1>3, <2>1, <2>2, TypeKept
  <2>4. /\ plan'["reactor"] = AcceptSteps(store, t)
        /\ plan'["raft"] = plan["raft"]
        /\ PlanShape'
    BY <2>1, <2>2 DEF PlanShape, Thread
  <2>5. /\ torn \in BOOLEAN
        /\ ~torn => Claims(store, {})
    BY <1>1 DEF Quiet, PlanShape
  <2>6. UnderWay(AcceptSteps(store, t), store, copy["reactor"], t, ~torn, "processed")
    <3>1. (~torn) \in BOOLEAN
      BY <2>5
    <3> QED
      BY <1>2, <1>4, <1>6, <2>5, <3>1, BeginTurn
  <2>7. AcceptSteps(store, t) # << >>
    <3>1. (~torn) \in BOOLEAN /\ "processed" \in {"processed", "swept"}
      BY <2>5
    <3> QED
      BY <1>4, <2>6, <3>1, TurnStage DEF UnderWay
  <2>8. Busy("reactor", t)'
    <3>1. t' = t
      BY <2>1 DEF t
    <3>2. Head(todo') = t
      BY <2>1 DEF t
    <3> QED
      BY <1>1, <1>2, <1>3, <2>1, <2>2, <2>4, <2>5, <2>6, <2>7, <3>1, <3>2
      DEF Busy, Idle, Thread, Finisher, Quiet
  <2>9. \E u \in Txn : Busy("reactor", u)'
    <3>1. t' = t
      BY <2>1 DEF t
    <3> QED
      BY <1>4, <2>8, <3>1
  <2>10. Stage'
    BY <2>9 DEF Stage, Thread
  <2>11. Keeps(store, store')
    BY <1>2, <2>1 DEF Keeps
  <2> QED
    BY <2>3, <2>4, <2>10, <2>11
<1> QED
  BY <1>5, <1>6

\* update_pend turns to an entry of its snapshot.
LEMMA BeginMatureStep ==
    ASSUME StepsInv, Serial, NEW p \in DOMAIN sweep, BeginMature(p)
    PROVE  StepsInv' /\ Keeps(store, store')
<1> USE DEF StepsInv
<1>1. applying # << >> /\ Quiet
  BY TypeFacts, WhoIsQuiet DEF BeginMature
<1>2. store \in Store /\ sweep \in Stamps /\ todo \in Seq(Txn \ Genesis) /\ p \in Txn /\ sweep[p] \in Nat
  BY TypeFacts
<1>3. Keeps(store, store')
  BY DEF BeginMature, Keeps
<1>4. CASE ~LockExpired(store, p, sweep[p])
  <2>1. /\ store' = store /\ sweep' = [q \in DOMAIN sweep \ {p} |-> sweep[q]]
        /\ plan' = plan /\ todo' = todo
    BY <1>4 DEF BeginMature
  <2>2. sweep' \in Stamps /\ DOMAIN sweep' = DOMAIN sweep \ {p}
    BY <1>2, <2>1, SweepWithout
  <2>3. TypeInv'
    BY <1>1, <1>2, <2>1, <2>2, TypeKept DEF BeginMature
  <2>4. Quiet'
    BY <1>1, <2>1, <2>2 DEF Quiet, Idle, BeginMature
  <2>5. PlanShape'
    BY <2>1 DEF PlanShape, BeginMature
  <2> QED
    BY <1>3, <2>3, <2>4, <2>5 DEF Stage
<1>5. CASE LockExpired(store, p, sweep[p])
  <2> DEFINE q == <<Step("delpend", p, 0), Step("verify", p, sweep[p])>>
  <2>1. /\ store' = store /\ sweep' = sweep /\ todo' = todo
        /\ plan' = [plan EXCEPT !["raft"] = q]
        /\ UNCHANGED <<blockQueue, processing, applying, applied, restarts, copy, torn>>
    BY <1>5 DEF BeginMature
  <2>2. TypeInv'
    BY <1>1, <1>2, <2>1, TypeKept
  <2>3. p \in DOMAIN store.pend /\ (~torn => Claims(store, {}))
    BY <1>1 DEF Quiet
  <2>4. UnderWay(q, store, copy["raft"], p, ~torn, "swept")
    BY <1>2, <2>3, BeginMaturing
  <2> HIDE DEF q
  <2>5. /\ plan'["raft"] = q
        /\ plan'["reactor"] = plan["reactor"]
        /\ PlanShape'
    BY <2>1 DEF PlanShape, Thread
  <2>6. q # << >>
    BY DEF q
  <2>7. Busy("raft", p)'
    BY <1>1, <2>1, <2>3, <2>4, <2>5, <2>6 DEF Busy, Idle, Thread, Finisher, Quiet
  <2>8. Stage'
    BY <1>2, <2>7 DEF Stage, Thread
  <2> QED
    BY <1>3, <2>2, <2>5, <2>8
<1> QED
  BY <1>4, <1>5

\* The removal of a pending transaction, replaced or matured.
LEMMA DelPendStep ==
    ASSUME StepsInv, NEW th \in Thread, DelPend(th)
    PROVE  StepsInv' /\ Keeps(store, store')
<1>1. PICK t \in Txn : Busy(th, t)
  BY WhoIsBusy DEF DelPend, Makes
<1> DEFINE q == plan[th]
           b == DelFromPending(store, Head(q).txn)
<1>2. /\ store \in Store /\ (~torn) \in BOOLEAN /\ Finisher(th) \in {"processed", "swept"}
      /\ applying = << >> => DOMAIN sweep = {}
  BY TypeFacts DEF StepsInv, Finisher
<1>3. UnderWay(q, store, copy[th], t, ~torn, Finisher(th))
  BY <1>1 DEF Busy
<1>4. Head(q).op = "delpend" /\ store' = b /\ UNCHANGED <<todo, sweep, copy>> /\ Makes(th, "delpend")
  BY DEF DelPend, Makes
<1>5. /\ UnderWay(Tail(q), b, copy[th], t, ~torn, Finisher(th))
      /\ Finisher(th) = "swept" => Head(q).txn = t
  <2> DEFINE ok == ~torn
  <2>1. ok \in BOOLEAN /\ UnderWay(q, store, copy[th], t, ok, Finisher(th))
    BY <1>2, <1>3
  <2> HIDE DEF ok
  <2>2. /\ UnderWay(Tail(q), b, copy[th], t, ok, Finisher(th))
        /\ Finisher(th) = "swept" => Head(q).txn = t
    BY <1>2, <1>4, <2>1, DelTurn
  <2> QED
    BY <2>2 DEF ok
<1>6. b \in Store /\ b.db = store.db /\ DOMAIN b.pend = DOMAIN store.pend \ {Head(q).txn}
  BY <1>2, DelStore, DelFields
<1>7. \A p \in DOMAIN sweep \ {t} : p \in DOMAIN store.pend => p \in DOMAIN b.pend
  BY <1>1, <1>2, <1>5, <1>6 DEF Busy, Finisher, Thread
<1> HIDE DEF b
<1>8. StepsInv'
  <2>1. copy' = [copy EXCEPT ![th] = copy'[th]] /\ copy'[th] = copy[th]
    BY <1>4 DEF StepsInv, PlanShape
  <2> QED
    BY <1>1, <1>4, <1>5, <1>6, <1>7, <2>1, BusyNext
<1>9. Keeps(store, store')
  BY <1>4, <1>6 DEF Keeps
<1> QED
  BY <1>8, <1>9

\* The put of a time-locked transaction.
LEMMA PutPendStep ==
    ASSUME StepsInv, NEW th \in Thread, PutPend(th)
    PROVE  StepsInv' /\ Keeps(store, store')
<1>1. PICK t \in Txn : Busy(th, t)
  BY WhoIsBusy DEF PutPend, Makes
<1> DEFINE q == plan[th]
           b == PutInPend(store, Head(q).txn, Head(q).ts)
<1>2. store \in Store /\ (~torn) \in BOOLEAN /\ Finisher(th) \in {"processed", "swept"}
  BY TypeFacts DEF StepsInv, Finisher
<1>3. UnderWay(q, store, copy[th], t, ~torn, Finisher(th))
  BY <1>1 DEF Busy
<1>4. Head(q).op = "putpend" /\ store' = b /\ UNCHANGED <<todo, sweep, copy>> /\ Makes(th, "putpend")
  BY DEF PutPend, Makes
<1>5. /\ Head(q).txn = t /\ Head(q).ts \in Nat
      /\ UnderWay(Tail(q), b, copy[th], t, ~torn, Finisher(th))
  <2> DEFINE ok == ~torn
  <2>1. ok \in BOOLEAN /\ UnderWay(q, store, copy[th], t, ok, Finisher(th))
    BY <1>2, <1>3
  <2> HIDE DEF ok
  <2>2. /\ Head(q).txn = t /\ Head(q).ts \in Nat
        /\ UnderWay(Tail(q), b, copy[th], t, ok, Finisher(th))
    BY <1>2, <1>4, <2>1, PutPendTurn
  <2> QED
    BY <2>2 DEF ok
<1>6. b \in Store
  BY <1>2, <1>5, PutPendStore
<1>7. b.db = store.db /\ DOMAIN b.pend = DOMAIN store.pend \union {Head(q).txn}
  BY <1>2 DEF PutInPend, Store
<1> HIDE DEF b
<1>8. StepsInv'
  <2>1. copy' = [copy EXCEPT ![th] = copy'[th]] /\ copy'[th] = copy[th]
    BY <1>4 DEF StepsInv, PlanShape
  <2> QED
    BY <1>1, <1>4, <1>5, <1>6, <1>7, <2>1, BusyNext
<1>9. Keeps(store, store')
  BY <1>4, <1>7 DEF Keeps
<1> QED
  BY <1>8, <1>9

\* The put of a transaction that is stored for good, which it was not before.
LEMMA PutDbStep ==
    ASSUME StepsInv, NEW th \in Thread, PutDb(th)
    PROVE  StepsInv' /\ Keeps(store, store')
<1>1. PICK t \in Txn : Busy(th, t)
  BY WhoIsBusy DEF PutDb, Makes
<1> DEFINE q == plan[th]
           b == PutInDb(store, Head(q).txn, Head(q).ts)
<1>2. store \in Store /\ (~torn) \in BOOLEAN /\ Finisher(th) \in {"processed", "swept"}
  BY TypeFacts DEF StepsInv, Finisher
<1>3. UnderWay(q, store, copy[th], t, ~torn, Finisher(th))
  BY <1>1 DEF Busy
<1>4. Head(q).op = "putdb" /\ store' = b /\ UNCHANGED <<todo, sweep, copy>> /\ Makes(th, "putdb")
  BY DEF PutDb, Makes
<1>5. /\ Head(q).txn = t /\ Head(q).ts \in Nat /\ t \notin DOMAIN store.db
      /\ UnderWay(Tail(q), b, copy[th], t, ~torn, Finisher(th))
  <2> DEFINE ok == ~torn
  <2>1. ok \in BOOLEAN /\ UnderWay(q, store, copy[th], t, ok, Finisher(th))
    BY <1>2, <1>3
  <2> HIDE DEF ok
  <2>2. /\ Head(q).txn = t /\ Head(q).ts \in Nat /\ t \notin DOMAIN store.db
        /\ UnderWay(Tail(q), b, copy[th], t, ok, Finisher(th))
    BY <1>2, <1>4, <2>1, PutDbTurn
  <2> QED
    BY <2>2 DEF ok
<1>6. b \in Store
  BY <1>2, <1>5, PutDbStore
<1>7. /\ b.pend = store.pend
      /\ \A d \in DOMAIN store.db : d \in DOMAIN b.db /\ (d # t => b.db[d] = store.db[d])
  BY <1>2, <1>5 DEF PutInDb, Store
<1> HIDE DEF b
<1>8. StepsInv'
  <2>1. copy' = [copy EXCEPT ![th] = copy'[th]] /\ copy'[th] = copy[th]
    BY <1>4 DEF StepsInv, PlanShape
  <2> QED
    BY <1>1, <1>4, <1>5, <1>6, <1>7, <2>1, BusyNext
<1>9. Keeps(store, store')
  BY <1>4, <1>5, <1>7 DEF Keeps
<1> QED
  BY <1>8, <1>9

\* The read of the wrapper whose flag is changed next.
LEMMA ReadStep ==
    ASSUME StepsInv, NEW th \in Thread, ReadWrapper(th)
    PROVE  StepsInv' /\ Keeps(store, store')
<1>1. PICK t \in Txn : Busy(th, t)
  BY WhoIsBusy DEF ReadWrapper, Makes
<1> DEFINE q == plan[th]
           w == <<store.db[Head(q).out[1]]>>
<1>2. store \in Store /\ (~torn) \in BOOLEAN /\ Finisher(th) \in {"processed", "swept"}
  BY TypeFacts DEF StepsInv, Finisher
<1>3. UnderWay(q, store, copy[th], t, ~torn, Finisher(th))
  BY <1>1 DEF Busy
<1>4. /\ Head(q).op = "read" /\ UNCHANGED <<store, todo, sweep>> /\ Makes(th, "read")
      /\ copy' = [copy EXCEPT ![th] = w]
  BY DEF ReadWrapper, Makes
<1>5. UnderWay(Tail(q), store, w, t, ~torn, Finisher(th))
  BY <1>2, <1>3, <1>4, ReadTurn
<1> HIDE DEF w
<1>6. copy'[th] = w /\ copy' = [copy EXCEPT ![th] = copy'[th]]
  BY <1>4 DEF StepsInv, PlanShape
<1>7. StepsInv'
  BY <1>1, <1>2, <1>3, <1>4, <1>5, <1>6, BusyNext
<1>8. Keeps(store, store')
  BY <1>4 DEF Keeps
<1> QED
  BY <1>7, <1>8

\* The write of a wrapper: nothing has touched it since it was read.
LEMMA WriteStep ==
    ASSUME StepsInv, NEW th \in Thread, WriteWrapper(th)
    PROVE  StepsInv' /\ Keeps(store, store')
<1>1. PICK t \in Txn : Busy(th, t)
  BY WhoIsBusy DEF WriteWrapper, Makes
<1> DEFINE q == plan[th]
           o == Head(q).out
           b == Spend(store, {o})
<1>2. store \in Store /\ (~torn) \in BOOLEAN /\ Finisher(th) \in {"processed", "swept"}
  BY TypeFacts DEF StepsInv, Finisher
<1>3. UnderWay(q, store, copy[th], t, ~torn, Finisher(th))
  BY <1>1 DEF Busy
<1>4. /\ Head(q).op = "write" /\ UNCHANGED <<todo, sweep>> /\ Makes(th, "write")
      /\ copy' = [copy EXCEPT ![th] = << >>]
  BY DEF WriteWrapper, Makes
<1>5. /\ o \in Txn \X Nat /\ o[1] \in DOMAIN store.db /\ copy[th] = <<store.db[o[1]]>>
      /\ UnderWay(Tail(q), b, << >>, t, ~torn, Finisher(th))
  <2> DEFINE ok == ~torn
  <2>1. ok \in BOOLEAN /\ UnderWay(q, store, copy[th], t, ok, Finisher(th))
    BY <1>2, <1>3
  <2>0. o = Head(q).out /\ Head(q).op = "write"
    BY <1>4
  <2> HIDE DEF ok, o, q
  <2>2. Current(q, store, copy[th])
    BY <1>2, <2>0, <2>1, WriteCurrent
  <2>3. UnderWay(Tail(q), b, << >>, t, ok, Finisher(th))
    BY <1>2, <2>0, <2>1, WriteTurn
  <2> QED
    BY <2>2, <2>3 DEF ok, o, q, Current
<1>6. store' = b
  <2>1. store' = [store EXCEPT !.db[o[1]] = [copy[th][1] EXCEPT !.utxos = @ \ {o[2]}],
                               !.pubOuts = [k \in PubKey |-> @[k] \ {o}]]
    BY DEF WriteWrapper
  <2>2. copy[th][1] = store.db[o[1]]
    BY <1>5
  <2>3. [store EXCEPT !.db[o[1]] = [store.db[o[1]] EXCEPT !.utxos = @ \ {o[2]}],
                      !.pubOuts = [k \in PubKey |-> @[k] \ {o}]] = b
    BY <1>2, <1>5, WriteIsSpend
  <2> QED
    BY <2>1, <2>2, <2>3
<1>7. b \in Store /\ b.pend = store.pend /\ Keeps(store, b)
  BY <1>2, SpendKeeps
<1> HIDE DEF b, o
<1>8. copy'[th] = << >> /\ copy' = [copy EXCEPT ![th] = copy'[th]]
  BY <1>4 DEF StepsInv, PlanShape
<1>9. StepsInv'
  BY <1>1, <1>4, <1>5, <1>6, <1>7, <1>8, BusyNext
<1> QED
  BY <1>6, <1>7, <1>9

\* verify_txn of a maturing transaction: it is stored next, or dropped.
LEMMA VerifyMatureStep ==
    ASSUME StepsInv, VerifyMature
    PROVE  StepsInv' /\ Keeps(store, store')
<1> DEFINE th == "raft"
           q == plan[th]
<1>0. ~Idle(th) /\ th \in Thread /\ Finisher(th) = "swept"
  BY DEF VerifyMature, Thread, Finisher
<1>1. PICK t \in Txn : Busy(th, t)
  BY <1>0, WhoIsBusy
<1>2. /\ store \in Store /\ (~torn) \in BOOLEAN
      /\ todo \in Seq(Txn \ Genesis) /\ sweep \in Stamps
      /\ applying = << >> => DOMAIN sweep = {}
  BY TypeFacts DEF StepsInv
<1>3. UnderWay(q, store, copy[th], t, ~torn, "swept")
  BY <1>0, <1>1 DEF Busy
<1> DEFINE b == Reject(store, t)
           long == WriteToDb(t, Head(q).ts) \o Fin("swept", t)
           short == Fin("swept", t)
<1>4. /\ Head(q).op = "verify"
      /\ UNCHANGED <<blockQueue, todo, processing, applying, sweep, applied, restarts, copy, torn>>
  BY DEF VerifyMature
<1>5. /\ Head(q).txn = t
      /\ VerifyTxn(store, t, FALSE) => UnderWay(long, store, copy[th], t, ~torn, "swept")
      /\ UnderWay(short, b, copy[th], t, ~torn, "swept")
  <2> DEFINE ok == ~torn
  <2>1. ok \in BOOLEAN /\ UnderWay(q, store, copy[th], t, ok, "swept") /\ Head(q).op = "verify"
    BY <1>2, <1>3, <1>4
  <2> HIDE DEF ok, q
  <2>2. Verifying(q, store, copy[th], t, ok)
    BY <1>2, <2>1, VerifyTurn
  <2> QED
    BY <2>2 DEF ok, q, Verifying
<1>6. b \in Store /\ b.db = store.db /\ b.pend = store.pend
  BY <1>2, RejectStore, RejectFields
<1>7. \/ /\ VerifyTxn(store, t, FALSE) /\ store' = store
         /\ plan' = [plan EXCEPT ![th] = long]
      \/ store' = b /\ plan' = [plan EXCEPT ![th] = short]
  BY <1>5 DEF VerifyMature, Fin
<1> HIDE DEF b, long, short
<1>8. PICK next : /\ plan' = [plan EXCEPT ![th] = next]
                  /\ UnderWay(next, store', copy[th], t, ~torn, "swept")
  BY <1>5, <1>7
<1>9. store' \in Store /\ store'.db = store.db /\ store'.pend = store.pend
  BY <1>2, <1>6, <1>7
<1>10. TypeInv'
  BY <1>2, <1>4, <1>9, TypeKept DEF StepsInv
<1>11. /\ plan'[th] = next /\ plan'["reactor"] = plan["reactor"]
       /\ PlanShape'
  BY <1>4, <1>8 DEF StepsInv, PlanShape, Thread
<1>12. next # << >>
  <2> DEFINE ok == ~torn
  <2>1. ok \in BOOLEAN /\ Turn(next, store', copy[th], t, ok, "swept")
    BY <1>2, <1>8 DEF UnderWay
  <2> HIDE DEF ok
  <2> QED
    BY <2>1, TurnStage
<1>13. Busy(th, t)'
  BY <1>0, <1>1, <1>4, <1>8, <1>9, <1>11, <1>12 DEF Busy, Idle, Thread
<1>14. Keeps(store, store')
  BY <1>9 DEF Keeps
<1> QED
  BY <1>0, <1>10, <1>11, <1>13, <1>14 DEF StepsInv, Stage

\* What the last step of a turn finds.
LEMMA LastStep ==
    ASSUME StepsInv, NEW th \in Thread, NEW op \in {"processed", "swept"}, Makes(th, op)
    PROVE  \E t \in Txn : /\ Busy(th, t) /\ op = Finisher(th) /\ Head(plan[th]).txn = t
                          /\ \A other \in Thread : plan'[other] = << >>
                          /\ ~torn => Claims(store, {})
                          /\ PlanShape /\ copy' = [copy EXCEPT ![th] = copy'[th]] => PlanShape'
<1>1. PICK t \in Txn : Busy(th, t)
  BY WhoIsBusy DEF Makes
<1> DEFINE q == plan[th]
<1>2. (~torn) \in BOOLEAN /\ Finisher(th) \in {"processed", "swept"} /\ Head(q).op = op
  BY DEF Finisher, Makes
<1>3. UnderWay(q, store, copy[th], t, ~torn, Finisher(th))
  BY <1>1 DEF Busy
<1>4. op = Finisher(th) /\ Head(q).txn = t /\ Tail(q) = << >> /\ (~torn => Claims(store, {}))
  <2> DEFINE ok == ~torn
  <2>1. /\ ok \in BOOLEAN /\ UnderWay(q, store, copy[th], t, ok, Finisher(th))
        /\ Head(q).op \in {"processed", "swept"}
    BY <1>2, <1>3
  <2> HIDE DEF ok, q
  <2>2. Head(q).op = Finisher(th) /\ Head(q).txn = t /\ Tail(q) = << >> /\ (ok => Claims(store, {}))
    BY <1>2, <2>1, EndTurn
  <2> QED
    BY <1>2, <2>2 DEF ok, q
<1>5. plan' = [plan EXCEPT ![th] = Tail(plan[th])] /\ torn' = torn
  BY DEF Makes
<1>6. \A other \in Thread : plan'[other] = << >>
  BY <1>1, <1>4, <1>5 DEF StepsInv, PlanShape, Busy, Idle
<1>7. PlanShape /\ copy' = [copy EXCEPT ![th] = copy'[th]] => PlanShape'
  BY <1>5 DEF PlanShape
<1> QED
  BY <1>1, <1>4, <1>6, <1>7

\* remove_from_mempool ends a turn of process_block's loop.
LEMMA ProcessedStep ==
    ASSUME StepsInv, NEW th \in Thread, Processed(th)
    PROVE  StepsInv' /\ Keeps(store, store')
<1>1. Makes(th, "processed") /\ "processed" \in {"processed", "swept"}
  BY DEF Processed
<1>2. PICK t \in Txn : /\ Busy(th, t) /\ "processed" = Finisher(th) /\ Head(plan[th]).txn = t
                       /\ \A other \in Thread : plan'[other] = << >>
                       /\ ~torn => Claims(store, {})
                       /\ PlanShape /\ copy' = [copy EXCEPT ![th] = copy'[th]] => PlanShape'
  BY <1>1, LastStep
<1>3. /\ store' = RemoveFromMempool(store, t) /\ todo' = Tail(todo) /\ UNCHANGED <<sweep, copy>>
      /\ UNCHANGED <<blockQueue, processing, applying, applied, restarts, torn>>
  BY <1>2 DEF Processed, Makes
<1>4. /\ store \in Store /\ sweep \in Stamps /\ todo \in Seq(Txn \ Genesis)
      /\ applying = << >> => DOMAIN sweep = {}
  BY TypeFacts DEF StepsInv
<1>5. th = "reactor" /\ applying = << >> /\ todo # << >>
  BY <1>2 DEF Finisher, Busy
<1>6. store' \in Store /\ store'.db = store.db /\ store'.pend = store.pend
  BY <1>3, <1>4, RemoveStore, RemoveFields
<1>7. Tail(todo) \in Seq(Txn \ Genesis)
  BY <1>4, <1>5
<1>8. TypeInv'
  BY <1>3, <1>4, <1>6, <1>7, TypeKept DEF StepsInv
<1>9. ~torn => Claims(store', {})
  BY <1>2, <1>6, SameClaims
<1>10. Quiet'
  BY <1>2, <1>3, <1>4, <1>5, <1>9 DEF Quiet, Idle
<1>11. PlanShape'
  BY <1>2, <1>3 DEF StepsInv, PlanShape
<1>12. Keeps(store, store')
  BY <1>6 DEF Keeps
<1> QED
  BY <1>8, <1>10, <1>11, <1>12 DEF StepsInv, Stage

\* update_pend's loop goes on to the next entry of its snapshot.
LEMMA SweptStep ==
    ASSUME StepsInv, NEW th \in Thread, Swept(th)
    PROVE  StepsInv' /\ Keeps(store, store')
<1>1. Makes(th, "swept") /\ "swept" \in {"processed", "swept"}
  BY DEF Swept
<1>2. PICK t \in Txn : /\ Busy(th, t) /\ "swept" = Finisher(th) /\ Head(plan[th]).txn = t
                       /\ \A other \in Thread : plan'[other] = << >>
                       /\ ~torn => Claims(store, {})
                       /\ PlanShape /\ copy' = [copy EXCEPT ![th] = copy'[th]] => PlanShape'
  BY <1>1, LastStep
<1>3. /\ sweep' = [p \in DOMAIN sweep \ {t} |-> sweep[p]] /\ UNCHANGED <<store, todo, copy>>
      /\ UNCHANGED <<blockQueue, processing, applying, applied, restarts, torn>>
  BY <1>2 DEF Swept, Makes
<1>4. store \in Store /\ sweep \in Stamps /\ todo \in Seq(Txn \ Genesis)
  BY TypeFacts DEF StepsInv
<1>5. th = "raft" /\ applying # << >> /\ \A p \in DOMAIN sweep \ {t} : p \in DOMAIN store.pend
  BY <1>2 DEF Finisher, Busy, Thread
<1>6. sweep' \in Stamps /\ DOMAIN sweep' = DOMAIN sweep \ {t}
  BY <1>3, <1>4, SweepWithout
<1>7. TypeInv'
  BY <1>3, <1>4, <1>5, <1>6, TypeKept DEF StepsInv
<1>8. Quiet'
  BY <1>2, <1>3, <1>5, <1>6 DEF Quiet, Idle
<1>9. PlanShape'
  BY <1>2, <1>3 DEF StepsInv, PlanShape
<1>10. Keeps(store, store')
  BY <1>3 DEF Keeps
<1> QED
  BY <1>7, <1>8, <1>9, <1>10 DEF StepsInv, Stage

\* What the invariant says of the claims, in whatever stage the threads are.
LEMMA ClaimsNow ==
    ASSUME StepsInv, ~torn
    PROVE  \/ Claims(store, {})
           \/ \E th \in Thread, t \in Txn :
                 /\ Busy(th, t)
                 /\ Claims(store, {t})
                 /\ t \in Accepted(store) => Pledged(store, t, plan[th], Finisher(th))
<1>1. CASE Quiet
  BY <1>1 DEF Quiet
<1>2. CASE \E th \in Thread, t \in Txn : Busy(th, t)
  <2>1. PICK th \in Thread, t \in Txn : Busy(th, t)
    BY <1>2
  <2>2. torn = FALSE
    BY DEF StepsInv, PlanShape
  <2>3. UnderWay(plan[th], store, copy[th], t, TRUE, Finisher(th))
    <3>1. (~torn) = TRUE
      BY <2>2
    <3>2. UnderWay(plan[th], store, copy[th], t, ~torn, Finisher(th))
      BY <2>1 DEF Busy
    <3> QED
      BY <3>1, <3>2
  <2>4. Turn(plan[th], store, copy[th], t, TRUE, Finisher(th)) /\ Claims(store, {t})
    BY <2>3 DEF UnderWay
  <2>5. t \in Accepted(store) => Pledged(store, t, plan[th], Finisher(th))
    BY <2>4, TurnPledges DEF Finisher
  <2> QED
    BY <2>1, <2>4, <2>5
<1> QED
  BY <1>1, <1>2 DEF StepsInv, Stage

\* The process ends anywhere: unless flags of a pending transaction were still
\* to be written, every claim is flagged in what the databases hold.
LEMMA CrashStep ==
    ASSUME StepsInv, Crash
    PROVE  StepsInv' /\ Keeps(store, store')
<1>1. Next
  BY DEF Crash, Next
<1>2. TypeInv' /\ Keeps(store, store')
  BY <1>1, TypeStep, StoreStep DEF StepsInv
<1>3. store \in Store
  BY TypeFacts DEF StepsInv
<1>4. store'.db = store.db /\ store'.pend = store.pend /\ sweep' = Nothing
  BY <1>3, ReopenType DEF Crash, Restart
<1> DEFINE tears == \E i \in DOMAIN plan["reactor"] :
                       /\ plan["reactor"][i].op = "write"
                       /\ todo # << >>
                       /\ Head(todo) \in DOMAIN store.pend
<1>5. torn' = (torn \/ tears)
  BY DEF Crash
<1>6. plan' = [th \in Thread |-> << >>] /\ copy' = [th \in Thread |-> << >>]
  BY DEF Crash
<1>7. PlanShape'
  <2>1. torn' \in BOOLEAN
    BY <1>5
  <2> QED
    BY <1>6, <2>1 DEF PlanShape
<1>8. ASSUME ~torn, ~tears PROVE Claims(store, {})
  <2>1. CASE Claims(store, {})
    BY <2>1
  <2>2. CASE \E th \in Thread, t \in Txn :
                 /\ Busy(th, t)
                 /\ Claims(store, {t})
                 /\ t \in Accepted(store) => Pledged(store, t, plan[th], Finisher(th))
    <3>1. PICK th \in Thread, t \in Txn :
             /\ Busy(th, t)
             /\ Claims(store, {t})
             /\ t \in Accepted(store) => Pledged(store, t, plan[th], Finisher(th))
      BY <2>2
    <3>2. ASSUME t \in Accepted(store) PROVE Placed(store, t, {})
      <4>1. PICK late : /\ Placed(store, t, late)
                        /\ \A o \in late : [op |-> "write", out |-> o] \in ToSet(plan[th])
                        /\ late # {} => Finisher(th) = "processed" /\ t \in DOMAIN store.pend
        BY <3>1, <3>2 DEF Pledged
      <4>2. ASSUME NEW o \in late PROVE FALSE
        <5>1. th = "reactor" /\ t \in DOMAIN store.pend
          BY <4>1, <4>2 DEF Finisher
        <5>2. todo # << >> /\ t = Head(todo)
          BY <3>1, <5>1 DEF Busy
        <5>3. PICK i \in DOMAIN plan["reactor"] :
                 plan["reactor"][i] = [op |-> "write", out |-> o]
          BY <4>1, <4>2, <5>1 DEF ToSet
        <5>4. plan["reactor"][i].op = "write"
          BY <5>3
        <5> QED
          BY <1>8, <5>1, <5>2, <5>4
      <4>3. late = {}
        BY <4>2
      <4> QED
        BY <4>1, <4>3
    <3> QED
      BY <3>1, <3>2, ClaimsClosed
  <2> QED
    BY <1>8, <2>1, <2>2, ClaimsNow
<1>9. ~torn' => Claims(store', {})
  BY <1>4, <1>5, <1>8, SameClaims
<1>10. Quiet'
  BY <1>4, <1>6, <1>9, NothingType DEF Quiet, Idle
<1> QED
  BY <1>2, <1>7, <1>10 DEF StepsInv, Stage

\* Initially nobody is busy and only the coinbase is stored.
LEMMA StepsInvInit == StepsInit => StepsInv
<1> SUFFICES ASSUME StepsInit PROVE StepsInv
  OBVIOUS
<1>1. TypeInv /\ Sound(store)
  BY TypeInit, SoundInit DEF StepsInit
<1>2. Claims(store, {})
  BY <1>1, ClaimsSound DEF Sound
<1>3. DOMAIN sweep = {}
  BY NothingType DEF StepsInit, Init
<1>4. Quiet
  BY <1>2, <1>3 DEF StepsInit, Quiet, Idle
<1>5. PlanShape
  BY DEF StepsInit, PlanShape
<1> QED
  BY <1>1, <1>4, <1>5 DEF StepsInv, Stage

\* Every step of a Serial execution keeps the invariant, every stored
\* transaction and every spent flag.
LEMMA StepsInvStep ==
    ASSUME StepsInv, Serial, StepsNext PROVE StepsInv' /\ Keeps(store, store')
  BY WholeStep, BeginTxnStep, BeginMatureStep, DelPendStep, PutPendStep, PutDbStep, ReadStep,
     WriteStep, ProcessedStep, SweptStep, VerifyMatureStep, CrashStep DEF StepsNext

\* The inductive invariant, when the threads do not meet.
LEMMA StepsInvariant == ASSUME Serial PROVE StepsSpec => []StepsInv
<1>1. StepsInv /\ [StepsNext]_allVars => StepsInv'
  <2>1. ASSUME StepsInv, UNCHANGED allVars PROVE StepsInv'
    <3>1. TypeInv'
      <4>1. UNCHANGED vars
        BY <2>1 DEF allVars
      <4> QED
        BY <2>1, <4>1, TypeStep DEF StepsInv
    <3>2. UNCHANGED <<store, sweep, plan, copy, torn, applying, processing, todo>>
      BY <2>1 DEF allVars, vars, stepVars
    <3>3. PlanShape' /\ Stage'
      BY <2>1, <3>2 DEF StepsInv, PlanShape, Stage, Quiet, Busy, Idle
    <3> QED
      BY <3>1, <3>3 DEF StepsInv
  <2> QED
    BY <2>1, StepsInvStep
<1> QED
  BY <1>1, StepsInvInit, PTL DEF StepsSpec

\* Wherever the process ends between two LevelDB writes, and however often, no
\* outpoint is claimed by two accepted transactions, for every set of
\* transactions and every bound.  The exception the code has, an end between the
\* put of a time-locked transaction and the last flag of its inputs, is the one
\* OneClaim names.
THEOREM ClaimedOnce == ASSUME Serial PROVE StepsSpec => []OneClaim
<1>1. StepsInv => OneClaim
  BY ClaimsNow DEF OneClaim, Claims
<1> QED
  BY <1>1, StepsInvariant, PTL

\* Likewise every claimed output is flagged as spent, or about to be by the
\* thread that accepts the claim: process_block's loop over the inputs misses
\* none, nor does write_txn_to_db's.
THEOREM ClaimsGetFlagged == ASSUME Serial PROVE StepsSpec => []ClaimsFlagged
<1>1. StepsInv => ClaimsFlagged
  <2> SUFFICES ASSUME StepsInv, ~torn, NEW u \in Accepted(store), NEW o \in Inputs[u]
               PROVE  \/ o[1] \in DOMAIN store.db /\ o[2] \notin store.db[o[1]].utxos
                      \/ \E th \in Thread : [op |-> "write", out |-> o] \in ToSet(plan[th])
    BY DEF ClaimsFlagged
  <2>1. ASSUME Placed(store, u, {})
        PROVE  o[1] \in DOMAIN store.db /\ o[2] \notin store.db[o[1]].utxos
    BY <2>1 DEF Placed
  <2>2. CASE Claims(store, {})
    <3>1. Placed(store, u, {})
      BY <2>2 DEF Claims
    <3> QED
      BY <2>1, <3>1
  <2>3. CASE \E th \in Thread, t \in Txn :
                 /\ Busy(th, t)
                 /\ Claims(store, {t})
                 /\ t \in Accepted(store) => Pledged(store, t, plan[th], Finisher(th))
    <3>1. PICK th \in Thread, t \in Txn :
             /\ Claims(store, {t})
             /\ t \in Accepted(store) => Pledged(store, t, plan[th], Finisher(th))
      BY <2>3
    <3>2. CASE u # t
      <4>1. Placed(store, u, {})
        BY <3>1, <3>2 DEF Claims
      <4> QED
        BY <2>1, <4>1
    <3>3. CASE u = t
      <4>1. PICK late : /\ Placed(store, u, late)
                        /\ \A x \in late : [op |-> "write", out |-> x] \in ToSet(plan[th])
        BY <3>1, <3>3 DEF Pledged
      <4> QED
        BY <4>1 DEF Placed
    <3> QED
      BY <3>2, <3>3
  <2> QED
    BY <2>2, <2>3, ClaimsNow
<1> QED
  BY <1>1, StepsInvariant, PTL

\* Likewise no write of a TxnWrapper, which is the write of a copy read earlier,
\* turns a flag back to unspent, and no step loses a stored transaction.
THEOREM FlagsNeverTurnBack == ASSUME Serial PROVE StepsSpec => FlagsStayDown
<1> DEFINE A == \A t \in DOMAIN store.db :
          t \in DOMAIN store'.db /\ store'.db[t].utxos \subseteq store.db[t].utxos
<1>1. StepsInv /\ [StepsNext]_allVars => [A]_allVars
  BY StepsInvStep DEF Keeps
<1> QED
  BY <1>1, StepsInvariant, PTL DEF StepsSpec, FlagsStayDown

-----------------------------------------------------------------------------
(***************************************************************************)
(* Flags one after the other.                                              *)
(***************************************************************************)
\* Two stores with the same contents are the same.
LEMMA SameStore ==
    ASSUME NEW a \in Store, NEW b \in Store,
           a.now = b.now, a.pend = b.pend, a.pubOutsPend = b.pubOutsPend,
           a.mempool = b.mempool, a.invalid = b.invalid,
           DOMAIN a.db = DOMAIN b.db,
           \A d \in DOMAIN a.db : a.db[d].ts = b.db[d].ts /\ a.db[d].utxos = b.db[d].utxos,
           \A k \in PubKey : a.pubOuts[k] = b.pubOuts[k]
    PROVE  a = b
<1>1. a.pubOuts = b.pubOuts
  BY DEF Store, Index
<1>2. /\ a.db \in [DOMAIN a.db -> Wrapper]
      /\ b.db \in [DOMAIN b.db -> Wrapper]
  BY WrappersElim DEF Store
<1>3. \A v, w \in Wrapper : v.ts = w.ts /\ v.utxos = w.utxos => v = w
  BY DEF Wrapper
<1>4. \A d \in DOMAIN a.db : a.db[d] = b.db[d]
  BY <1>2, <1>3
<1>5. a.db = b.db
  BY <1>2, <1>4
<1> QED
  BY <1>1, <1>5 DEF Store

\* Flags set in two goes are flags set.
LEMMA SpendMore ==
    ASSUME NEW s \in Store, NEW A, NEW B
    PROVE  Spend(Spend(s, A), B) = Spend(s, A \union B)
<1> DEFINE a == Spend(s, A)
           b == Spend(a, B)
           O == A \union B
           c == Spend(s, O)
<1>1. a \in Store /\ c \in Store
  BY SpendStore
<1>2. b \in Store
  BY <1>1, SpendStore
<1>3. /\ a.now = s.now /\ a.pend = s.pend /\ a.pubOutsPend = s.pubOutsPend
      /\ a.mempool = s.mempool /\ a.invalid = s.invalid /\ DOMAIN a.db = DOMAIN s.db
      /\ \A d \in DOMAIN s.db : /\ a.db[d].ts = s.db[d].ts
                                /\ a.db[d].utxos = {i \in s.db[d].utxos : <<d, i>> \notin A}
      /\ \A k \in PubKey : a.pubOuts[k] = s.pubOuts[k] \ A
  BY SpendFields
<1>4. /\ c.now = s.now /\ c.pend = s.pend /\ c.pubOutsPend = s.pubOutsPend
      /\ c.mempool = s.mempool /\ c.invalid = s.invalid /\ DOMAIN c.db = DOMAIN s.db
      /\ \A d \in DOMAIN s.db : /\ c.db[d].ts = s.db[d].ts
                                /\ c.db[d].utxos = {i \in s.db[d].utxos : <<d, i>> \notin O}
      /\ \A k \in PubKey : c.pubOuts[k] = s.pubOuts[k] \ O
  <2> HIDE DEF O
  <2> QED
    BY SpendFields
<1> HIDE DEF a
<1>5. /\ b.now = a.now /\ b.pend = a.pend /\ b.pubOutsPend = a.pubOutsPend
      /\ b.mempool = a.mempool /\ b.invalid = a.invalid /\ DOMAIN b.db = DOMAIN a.db
      /\ \A d \in DOMAIN a.db : /\ b.db[d].ts = a.db[d].ts
                                /\ b.db[d].utxos = {i \in a.db[d].utxos : <<d, i>> \notin B}
      /\ \A k \in PubKey : b.pubOuts[k] = a.pubOuts[k] \ B
  BY <1>1, SpendFields
<1> HIDE DEF b, c
<1>6. ASSUME NEW d \in DOMAIN b.db
      PROVE  b.db[d].ts = c.db[d].ts /\ b.db[d].utxos = c.db[d].utxos
  <2>1. /\ a.db[d].ts = s.db[d].ts /\ a.db[d].utxos = {i \in s.db[d].utxos : <<d, i>> \notin A}
        /\ b.db[d].ts = a.db[d].ts /\ b.db[d].utxos = {i \in a.db[d].utxos : <<d, i>> \notin B}
        /\ c.db[d].ts = s.db[d].ts /\ c.db[d].utxos = {i \in s.db[d].utxos : <<d, i>> \notin O}
    BY <1>3, <1>4, <1>5
  <2>2. \A i : i \in b.db[d].utxos <=> i \in c.db[d].utxos
    BY <2>1
  <2> QED
    BY <2>1, <2>2
<1>7. \A k \in PubKey : b.pubOuts[k] = c.pubOuts[k]
  BY <1>3, <1>4, <1>5
<1>8. b = c
  BY <1>1, <1>2, <1>3, <1>4, <1>5, <1>6, <1>7, SameStore
<1> QED
  BY <1>8 DEF a, b, c

\* No flag set, nothing changed.
LEMMA SpendNone ==
    ASSUME NEW s \in Store PROVE Spend(s, {}) = s
<1> DEFINE O == {}
           c == Spend(s, O)
<1>1. c \in Store
  BY SpendStore
<1>2. /\ c.now = s.now /\ c.pend = s.pend /\ c.pubOutsPend = s.pubOutsPend
      /\ c.mempool = s.mempool /\ c.invalid = s.invalid /\ DOMAIN c.db = DOMAIN s.db
      /\ \A d \in DOMAIN s.db : /\ c.db[d].ts = s.db[d].ts
                                /\ c.db[d].utxos = {i \in s.db[d].utxos : <<d, i>> \notin O}
      /\ \A k \in PubKey : c.pubOuts[k] = s.pubOuts[k] \ O
  <2> HIDE DEF O
  <2> QED
    BY SpendFields
<1> HIDE DEF c
<1>3. \A d \in DOMAIN c.db : c.db[d].ts = s.db[d].ts /\ c.db[d].utxos = s.db[d].utxos
  BY <1>2
<1>4. \A k \in PubKey : c.pubOuts[k] = s.pubOuts[k]
  BY <1>2
<1>5. c = s
  BY <1>1, <1>2, <1>3, <1>4, SameStore
<1> QED
  BY <1>5 DEF c

\* Of v, the flags of t's inputs have been set, except for those left.
Spent(s, v, t, left) ==
    \E done \in SUBSET Inputs[t] : done \union left = Inputs[t] /\ s = Spend(v, done)

\* Reading a wrapper changes nothing, writing it back sets one flag.
LEMMA SpentOn ==
    ASSUME NEW v \in Store, NEW t, NEW s, NEW f, FlagList(f), f # << >>,
           Spent(s, v, t, Left(f))
    PROVE  /\ FlagList(Tail(f))
           /\ Head(f).op \in {"read", "write"}
           /\ Head(f).op = "read" => Spent(s, v, t, Left(Tail(f)))
           /\ Head(f).op = "write" => Spent(Spend(s, {Head(f).out}), v, t, Left(Tail(f)))
<1>1. /\ FlagList(Tail(f))
      /\ Head(f).op \in {"read", "write"}
      /\ Head(f).op = "read" => Left(Tail(f)) = Left(f)
      /\ Head(f).op = "write" => Left(f) = Left(Tail(f)) \union {Head(f).out}
  BY FlagTail DEF Access
<1>2. PICK done \in SUBSET Inputs[t] : done \union Left(f) = Inputs[t] /\ s = Spend(v, done)
  BY DEF Spent
<1>3. ASSUME Head(f).op = "write" PROVE Spent(Spend(s, {Head(f).out}), v, t, Left(Tail(f)))
  <2> DEFINE o == Head(f).out
  <2>1. Left(f) = Left(Tail(f)) \union {o}
    BY <1>1, <1>3
  <2> HIDE DEF o
  <2>2. Spend(s, {o}) = Spend(v, done \union {o})
    BY <1>2, SpendMore
  <2>3. (done \union {o}) \in SUBSET Inputs[t] /\ (done \union {o}) \union Left(Tail(f)) = Inputs[t]
    BY <1>2, <2>1
  <2>4. Spent(Spend(s, {o}), v, t, Left(Tail(f)))
    BY <2>2, <2>3 DEF Spent
  <2> QED
    BY <2>4 DEF o
<1> QED
  BY <1>1, <1>3

\* The loop starts with all flags left and ends with none.
LEMMA SpentEnds ==
    ASSUME NEW v \in Store, NEW t \in Txn
    PROVE  /\ Spent(v, v, t, Left(FlagInputs(t)))
           /\ \A s : Spent(s, v, t, Left(<< >>)) => s = Spend(v, Inputs[t])
<1>1. Left(FlagInputs(t)) = Inputs[t] /\ Left(<< >>) = {}
  BY StartFlagging
<1>2. v = Spend(v, {})
  BY SpendNone
<1>3. Spent(v, v, t, Inputs[t])
  BY <1>2 DEF Spent
<1>4. \A s : Spent(s, v, t, {}) => s = Spend(v, Inputs[t])
  BY DEF Spent
<1> QED
  BY <1>1, <1>3, <1>4

-----------------------------------------------------------------------------
(***************************************************************************)
(* Which store, exactly, a turn has made of the store b it began with,     *)
(* when q is what is left of it.                                           *)
(***************************************************************************)
\* On the way from v to WriteTxnToDb(v, t, ts).
ToDb(q, s, v, t, ts, fin) ==
    \/ \E f : FlagList(f) /\ q = f \o StoreAnd(fin, t, ts) /\ Spent(s, v, t, Left(f))
    \/ q = Fin(fin, t) /\ s = WriteTxnToDb(v, t, ts)

\* On the way from v to WriteTxnToPend(v, t, ts).
ToPend(q, s, v, t, ts) ==
    \/ q = Announce(t, ts) /\ s = v
    \/ \E f : /\ FlagList(f) /\ q = f \o Fin("processed", t)
              /\ Spent(s, PutInPend(v, t, ts), t, Left(f))

ToEither(q, s, v, t, ts) ==
    IF Timelock[t] > 0 THEN ToPend(q, s, v, t, ts) ELSE ToDb(q, s, v, t, ts, "processed")

Entry(t, ts) == IF Timelock[t] > 0 THEN Announce(t, ts)
                                   ELSE FlagInputs(t) \o StoreAnd("processed", t, ts)

\* A turn of process_block's loop that accepts t.
Accepting(q, s, b, t) ==
    \/ /\ Conflicts(b, t) # {}
       /\ q = <<Step("delpend", Conflict(b, t), 0)>> \o Entry(t, b.now)
       /\ s = b
    \/ ToEither(q, s, DropReplaced(b, t), t, b.now)

\* A turn of update_pend's loop for an entry p whose lock has expired.
Ripening(q, s, b, p, ts) ==
    LET d == DelFromPending(b, p)
    IN  \/ q = <<Step("delpend", p, 0), Step("verify", p, ts)>> /\ s = b
        \/ q = <<Step("verify", p, ts)>> /\ s = d
        \/ VerifyTxn(d, p, FALSE) /\ ToDb(q, s, d, p, ts, "swept")
        \/ ~VerifyTxn(d, p, FALSE) /\ q = Fin("swept", p) /\ s = Reject(d, p)

\* What an end of the process may find of a write to the database, and of one
\* to the pending database.
TornDb(s, v, t, ts) ==
    s = WriteTxnToDb(v, t, ts) \/ \E done \in SUBSET Inputs[t] : s = Spend(v, done)

TornPend(s, v, t, ts) ==
    s = v \/ \E done \in SUBSET Inputs[t] : s = Spend(PutInPend(v, t, ts), done)

\* One step on the way to the database.
LEMMA ToDbStep ==
    ASSUME NEW t \in Txn, NEW ts \in Nat, NEW fin \in {"processed", "swept"}, NEW v \in Store,
           NEW q, NEW s, ToDb(q, s, v, t, ts, fin)
    PROVE  /\ q \in Seq(AnyStep) /\ q # << >> /\ Head(q).op \in {"read", "write", "putdb", fin}
           /\ Head(q).op = "read" => ToDb(Tail(q), s, v, t, ts, fin)
           /\ Head(q).op = "write" => ToDb(Tail(q), Spend(s, {Head(q).out}), v, t, ts, fin)
           /\ Head(q).op = "putdb" =>
                 ToDb(Tail(q), PutInDb(s, Head(q).txn, Head(q).ts), v, t, ts, fin)
           /\ Head(q).op = fin => s = WriteTxnToDb(v, t, ts) /\ Head(q).txn = t
           /\ TornDb(s, v, t, ts)
<1>0. /\ Fin(fin, t) \in Seq(AnyStep) /\ Fin(fin, t) # << >>
      /\ Head(Fin(fin, t)) = Step(fin, t, 0)
      /\ StoreAnd(fin, t, ts) \in Seq(AnyStep) /\ StoreAnd(fin, t, ts) # << >>
      /\ Head(StoreAnd(fin, t, ts)) = Step("putdb", t, ts)
      /\ Tail(StoreAnd(fin, t, ts)) = Fin(fin, t)
  BY LastSteps
<1>1. /\ Step(fin, t, 0).op = fin /\ Step(fin, t, 0).txn = t /\ Step("putdb", t, ts).op = "putdb"
      /\ Step("putdb", t, ts).txn = t /\ Step("putdb", t, ts).ts = ts
  BY DEF Step
<1>2. CASE q = Fin(fin, t) /\ s = WriteTxnToDb(v, t, ts)
  BY <1>0, <1>1, <1>2 DEF TornDb
<1>3. ASSUME NEW f, FlagList(f), q = f \o StoreAnd(fin, t, ts), Spent(s, v, t, Left(f))
      PROVE  /\ q \in Seq(AnyStep) /\ q # << >> /\ Head(q).op \in {"read", "write", "putdb"}
             /\ Head(q).op = "read" => ToDb(Tail(q), s, v, t, ts, fin)
             /\ Head(q).op = "write" => ToDb(Tail(q), Spend(s, {Head(q).out}), v, t, ts, fin)
             /\ Head(q).op = "putdb" =>
                   ToDb(Tail(q), PutInDb(s, Head(q).txn, Head(q).ts), v, t, ts, fin)
             /\ TornDb(s, v, t, ts)
  <2>1. TornDb(s, v, t, ts)
    BY <1>3 DEF TornDb, Spent
  <2>2. CASE f = << >>
    <3>1. q = StoreAnd(fin, t, ts)
      BY <1>0, <1>3, <2>2, RestOfFlags
    <3>2. s = Spend(v, Inputs[t])
      BY <1>3, <2>2, SpentEnds
    <3>3. PutInDb(s, t, ts) = WriteTxnToDb(v, t, ts)
      BY <3>2 DEF WriteTxnToDb
    <3>4. ToDb(Tail(q), PutInDb(s, Head(q).txn, Head(q).ts), v, t, ts, fin)
      BY <1>0, <1>1, <3>1, <3>3 DEF ToDb
    <3> QED
      BY <1>0, <1>1, <2>1, <3>1, <3>4
  <2>3. CASE f # << >>
    <3>1. /\ q \in Seq(AnyStep) /\ q # << >> /\ Head(q) = Head(f) /\ Tail(q) = Tail(f) \o StoreAnd(fin, t, ts)
      BY <1>0, <1>3, <2>3, RestOfFlags
    <3>2. /\ FlagList(Tail(f)) /\ Head(f).op \in {"read", "write"}
          /\ Head(f).op = "read" => Spent(s, v, t, Left(Tail(f)))
          /\ Head(f).op = "write" => Spent(Spend(s, {Head(f).out}), v, t, Left(Tail(f)))
      BY <1>3, <2>3, SpentOn
    <3> QED
      BY <2>1, <3>1, <3>2 DEF ToDb
  <2> QED
    BY <2>2, <2>3
<1>4. fin # "putdb" /\ fin # "read" /\ fin # "write"
  OBVIOUS
<1> QED
  BY <1>2, <1>3, <1>4 DEF ToDb

\* One step on the way to the pending database.
LEMMA ToPendStep ==
    ASSUME NEW t \in Txn, NEW ts \in Nat, NEW v \in Store,
           NEW q, NEW s, ToPend(q, s, v, t, ts)
    PROVE  /\ q \in Seq(AnyStep) /\ q # << >>
           /\ Head(q).op \in {"read", "write", "putpend", "processed"}
           /\ Head(q).op = "read" => ToPend(Tail(q), s, v, t, ts)
           /\ Head(q).op = "write" => ToPend(Tail(q), Spend(s, {Head(q).out}), v, t, ts)
           /\ Head(q).op = "putpend" =>
                 ToPend(Tail(q), PutInPend(s, Head(q).txn, Head(q).ts), v, t, ts)
           /\ Head(q).op = "processed" => s = WriteTxnToPend(v, t, ts) /\ Head(q).txn = t
           /\ TornPend(s, v, t, ts)
<1> DEFINE w == PutInPend(v, t, ts)
<1>w. w \in Store
  BY PutPendStore
<1>0. /\ Fin("processed", t) \in Seq(AnyStep) /\ Fin("processed", t) # << >>
      /\ Head(Fin("processed", t)) = Step("processed", t, 0)
  BY LastSteps
<1>a. /\ Announce(t, ts) \in Seq(AnyStep) /\ Announce(t, ts) # << >> /\ Head(Announce(t, ts)) = Step("putpend", t, ts)
      /\ Tail(Announce(t, ts)) = FlagInputs(t) \o Fin("processed", t)
  BY AnnounceSteps
<1>1. /\ Step("processed", t, 0).op = "processed" /\ Step("processed", t, 0).txn = t
      /\ Step("putpend", t, ts).op = "putpend"
      /\ Step("putpend", t, ts).txn = t /\ Step("putpend", t, ts).ts = ts
  BY DEF Step
<1>2. CASE q = Announce(t, ts) /\ s = v
  <2>1. FlagList(FlagInputs(t)) /\ Spent(w, w, t, Left(FlagInputs(t)))
    BY <1>w, SpentEnds, FlagInputsList
  <2>2. ToPend(Tail(q), w, v, t, ts)
    BY <1>a, <1>2, <2>1 DEF ToPend
  <2>3. TornPend(s, v, t, ts)
    BY <1>2 DEF TornPend
  <2> QED
    BY <1>a, <1>1, <1>2, <2>2, <2>3
<1>3. ASSUME NEW f, FlagList(f), q = f \o Fin("processed", t), Spent(s, w, t, Left(f))
      PROVE  /\ q \in Seq(AnyStep) /\ q # << >> /\ Head(q).op \in {"read", "write", "processed"}
             /\ Head(q).op = "read" => ToPend(Tail(q), s, v, t, ts)
             /\ Head(q).op = "write" => ToPend(Tail(q), Spend(s, {Head(q).out}), v, t, ts)
             /\ Head(q).op = "processed" => s = WriteTxnToPend(v, t, ts) /\ Head(q).txn = t
             /\ TornPend(s, v, t, ts)
  <2>1. TornPend(s, v, t, ts)
    BY <1>3 DEF Spent, TornPend
  <2> HIDE DEF w
  <2>2. CASE f = << >>
    <3>1. q = Fin("processed", t)
      BY <1>0, <1>3, <2>2, RestOfFlags
    <3>2. s = Spend(w, Inputs[t])
      BY <1>w, <1>3, <2>2, SpentEnds
    <3>3. s = WriteTxnToPend(v, t, ts)
      BY <3>2 DEF WriteTxnToPend, w
    <3> QED
      BY <1>0, <1>1, <2>1, <3>1, <3>3
  <2>3. CASE f # << >>
    <3>1. /\ q \in Seq(AnyStep) /\ q # << >>
          /\ Head(q) = Head(f) /\ Tail(q) = Tail(f) \o Fin("processed", t)
      <4>1. Fin("processed", t) \in Seq(AnyStep) /\ FlagList(f) /\ q = f \o Fin("processed", t)
        BY <1>0, <1>3
      <4> QED
        BY <2>3, <4>1, RestOfFlags
    <3>2. /\ FlagList(Tail(f)) /\ Head(f).op \in {"read", "write"}
          /\ Head(f).op = "read" => Spent(s, w, t, Left(Tail(f)))
          /\ Head(f).op = "write" => Spent(Spend(s, {Head(f).out}), w, t, Left(Tail(f)))
      BY <1>w, <1>3, <2>3, SpentOn
    <3> QED
      BY <2>1, <3>1, <3>2 DEF ToPend, w
  <2> QED
    BY <2>2, <2>3
<1> QED
  BY <1>2, <1>3 DEF ToPend

\* The beginning of either way.
LEMMA EntryWay ==
    ASSUME NEW t \in Txn, NEW ts \in Nat, NEW v \in Store
    PROVE  /\ Entry(t, ts) \in Seq(AnyStep)
           /\ ToEither(Entry(t, ts), v, v, t, ts)
<1>1. CASE Timelock[t] > 0
  BY <1>1, AnnounceSteps DEF Entry, ToEither, ToPend
<1>2. CASE ~(Timelock[t] > 0)
  <2>1. FlagList(FlagInputs(t)) /\ Spent(v, v, t, Left(FlagInputs(t)))
    BY SpentEnds, FlagInputsList
  <2>2. Entry(t, ts) = FlagInputs(t) \o StoreAnd("processed", t, ts)
    BY <1>2 DEF Entry
  <2>3. ToDb(Entry(t, ts), v, v, t, ts, "processed")
    BY <2>1, <2>2 DEF ToDb
  <2>4. Entry(t, ts) \in Seq(AnyStep)
    BY <2>2, AnnounceSteps
  <2> QED
    BY <1>2, <2>3, <2>4 DEF ToEither
<1> QED
  BY <1>1, <1>2

\* What an end of the process may find after what t replaces has been removed.
TornEither(s, v, t, ts) ==
    IF Timelock[t] > 0 THEN TornPend(s, v, t, ts) ELSE TornDb(s, v, t, ts)

\* One step on either way.
LEMMA EitherStep ==
    ASSUME NEW t \in Txn, NEW ts \in Nat, NEW v \in Store,
           NEW q, NEW s, ToEither(q, s, v, t, ts)
    PROVE  /\ q \in Seq(AnyStep) /\ q # << >>
           /\ Head(q).op \in {"read", "write", "putpend", "putdb", "processed"}
           /\ Head(q).op = "read" => ToEither(Tail(q), s, v, t, ts)
           /\ Head(q).op = "write" => ToEither(Tail(q), Spend(s, {Head(q).out}), v, t, ts)
           /\ Head(q).op = "putpend" =>
                 ToEither(Tail(q), PutInPend(s, Head(q).txn, Head(q).ts), v, t, ts)
           /\ Head(q).op = "putdb" =>
                 ToEither(Tail(q), PutInDb(s, Head(q).txn, Head(q).ts), v, t, ts)
           /\ Head(q).op = "processed" =>
                 /\ Head(q).txn = t
                 /\ s = IF Timelock[t] > 0 THEN WriteTxnToPend(v, t, ts) ELSE WriteTxnToDb(v, t, ts)
           /\ TornEither(s, v, t, ts)
<1>1. CASE Timelock[t] > 0
  <2>1. ToPend(q, s, v, t, ts) /\ \A r, b : ToPend(r, b, v, t, ts) => ToEither(r, b, v, t, ts)
    BY <1>1 DEF ToEither
  <2>2. /\ q \in Seq(AnyStep) /\ q # << >>
        /\ Head(q).op \in {"read", "write", "putpend", "processed"}
        /\ Head(q).op = "read" => ToPend(Tail(q), s, v, t, ts)
        /\ Head(q).op = "write" => ToPend(Tail(q), Spend(s, {Head(q).out}), v, t, ts)
        /\ Head(q).op = "putpend" =>
              ToPend(Tail(q), PutInPend(s, Head(q).txn, Head(q).ts), v, t, ts)
        /\ Head(q).op = "processed" => s = WriteTxnToPend(v, t, ts) /\ Head(q).txn = t
        /\ TornPend(s, v, t, ts)
    BY <2>1, ToPendStep
  <2>3. TornEither(s, v, t, ts)
    BY <1>1, <2>2 DEF TornEither
  <2> QED
    BY <1>1, <2>1, <2>2, <2>3
<1>2. CASE ~(Timelock[t] > 0)
  <2>1. /\ ToDb(q, s, v, t, ts, "processed")
        /\ \A r, b : ToDb(r, b, v, t, ts, "processed") => ToEither(r, b, v, t, ts)
    BY <1>2 DEF ToEither
  <2>2. /\ q \in Seq(AnyStep) /\ q # << >> /\ Head(q).op \in {"read", "write", "putdb", "processed"}
        /\ Head(q).op = "read" => ToDb(Tail(q), s, v, t, ts, "processed")
        /\ Head(q).op = "write" => ToDb(Tail(q), Spend(s, {Head(q).out}), v, t, ts, "processed")
        /\ Head(q).op = "putdb" =>
              ToDb(Tail(q), PutInDb(s, Head(q).txn, Head(q).ts), v, t, ts, "processed")
        /\ Head(q).op = "processed" => s = WriteTxnToDb(v, t, ts) /\ Head(q).txn = t
        /\ TornDb(s, v, t, ts)
    BY <2>1, ToDbStep
  <2>3. TornEither(s, v, t, ts)
    BY <1>2, <2>2 DEF TornEither
  <2> QED
    BY <1>2, <2>1, <2>2, <2>3
<1> QED
  BY <1>1, <1>2

\* One step of a turn of process_block's loop, and what it has made of b when
\* it ends or the process does.
LEMMA AcceptingStep ==
    ASSUME NEW t \in Txn, NEW b \in Store, NEW q, NEW s, Accepting(q, s, b, t)
    PROVE  /\ q \in Seq(AnyStep) /\ q # << >>
           /\ Head(q).op \in {"delpend", "read", "write", "putpend", "putdb", "processed"}
           /\ Head(q).op = "delpend" => Accepting(Tail(q), DelFromPending(s, Head(q).txn), b, t)
           /\ Head(q).op = "read" => Accepting(Tail(q), s, b, t)
           /\ Head(q).op = "write" => Accepting(Tail(q), Spend(s, {Head(q).out}), b, t)
           /\ Head(q).op = "putpend" =>
                 Accepting(Tail(q), PutInPend(s, Head(q).txn, Head(q).ts), b, t)
           /\ Head(q).op = "putdb" =>
                 Accepting(Tail(q), PutInDb(s, Head(q).txn, Head(q).ts), b, t)
           /\ Head(q).op = "processed" => s = Accept(b, t) /\ Head(q).txn = t
           /\ s = b \/ TornEither(s, DropReplaced(b, t), t, b.now)
<1> DEFINE v == DropReplaced(b, t)
           c == Conflict(b, t)
<1>1. b.now \in Nat /\ b.pend \in Stamps
  BY DEF Store
<1>2. v \in Store
  BY DelStore DEF DropReplaced
<1>3. CASE Conflicts(b, t) # {} /\ q = <<Step("delpend", c, 0)>> \o Entry(t, b.now) /\ s = b
  <2>1. c \in Txn
    BY <1>1, <1>3, StampsElim DEF Conflict, Conflicts
  <2>2. v = DelFromPending(b, c)
    BY <1>3 DEF DropReplaced
  <2> HIDE DEF c
  <2>3. Entry(t, b.now) \in Seq(AnyStep) /\ ToEither(Entry(t, b.now), v, v, t, b.now)
    BY <1>1, <1>2, EntryWay
  <2>4. /\ q \in Seq(AnyStep) /\ q # << >>
        /\ Head(q) = Step("delpend", c, 0) /\ Tail(q) = Entry(t, b.now)
    <3>1. <<Step("delpend", c, 0)>> \in Seq(AnyStep)
      <4>1. "delpend" \in Op /\ 0 \in Nat
        BY DEF Op
      <4> QED
        BY <2>1, <4>1, OneStep
    <3>2. q \in Seq(AnyStep)
      BY <1>3, <2>3, <3>1, ConcatFirst
    <3> QED
      BY <1>3, <2>1, <2>3, <3>2, DelSteps
  <2>5. Head(q).op = "delpend" /\ Head(q).txn = c
    BY <2>4 DEF Step
  <2>6. Accepting(Tail(q), DelFromPending(s, Head(q).txn), b, t)
    BY <1>3, <2>2, <2>3, <2>4, <2>5 DEF Accepting
  <2> QED
    BY <1>3, <2>4, <2>5, <2>6
<1>4. CASE ToEither(q, s, v, t, b.now)
  <2>1. \A r, a : ToEither(r, a, v, t, b.now) => Accepting(r, a, b, t)
    BY DEF Accepting
  <2>2. Accept(b, t) = IF Timelock[t] > 0 THEN WriteTxnToPend(v, t, b.now)
                                          ELSE WriteTxnToDb(v, t, b.now)
    BY DEF Accept
  <2> HIDE DEF v
  <2>3. /\ q \in Seq(AnyStep) /\ q # << >>
        /\ Head(q).op \in {"read", "write", "putpend", "putdb", "processed"}
        /\ Head(q).op = "read" => ToEither(Tail(q), s, v, t, b.now)
        /\ Head(q).op = "write" => ToEither(Tail(q), Spend(s, {Head(q).out}), v, t, b.now)
        /\ Head(q).op = "putpend" =>
              ToEither(Tail(q), PutInPend(s, Head(q).txn, Head(q).ts), v, t, b.now)
        /\ Head(q).op = "putdb" =>
              ToEither(Tail(q), PutInDb(s, Head(q).txn, Head(q).ts), v, t, b.now)
        /\ Head(q).op = "processed" =>
              /\ Head(q).txn = t
              /\ s = IF Timelock[t] > 0 THEN WriteTxnToPend(v, t, b.now)
                                        ELSE WriteTxnToDb(v, t, b.now)
        /\ TornEither(s, v, t, b.now)
    BY <1>1, <1>2, <1>4, EitherStep
  <2> QED
    BY <2>1, <2>2, <2>3 DEF v
<1> QED
  BY <1>3, <1>4 DEF Accepting

\* The turn begins with the list of AcceptSteps.
LEMMA AcceptingStarts ==
    ASSUME NEW t \in Txn, NEW b \in Store PROVE Accepting(AcceptSteps(b, t), b, b, t)
<1>1. b.now \in Nat
  BY DEF Store
<1>2. AcceptSteps(b, t) = IF Conflicts(b, t) = {} THEN Entry(t, b.now)
                          ELSE <<Step("delpend", Conflict(b, t), 0)>> \o Entry(t, b.now)
  BY <1>1, AcceptStepsAre DEF Entry
<1>3. ToEither(Entry(t, b.now), b, b, t, b.now)
  BY <1>1, EntryWay
<1>4. Conflicts(b, t) = {} => DropReplaced(b, t) = b
  BY DEF DropReplaced
<1> QED
  BY <1>2, <1>3, <1>4 DEF Accepting

\* What a whole turn of update_pend's loop makes of b, and what an end of the
\* process in its middle may find.
Ripe(s, b, p, ts) ==
    LET d == DelFromPending(b, p)
    IN  s = IF VerifyTxn(d, p, FALSE) THEN WriteTxnToDb(d, p, ts) ELSE Reject(d, p)

HalfRipe(s, b, p, ts) ==
    LET d == DelFromPending(b, p)
    IN  \/ s = b
        \/ s = d
        \/ VerifyTxn(d, p, FALSE) /\ TornDb(s, d, p, ts)
        \/ ~VerifyTxn(d, p, FALSE) /\ s = Reject(d, p)

Unfinished(q) == q \in Seq(AnyStep) /\ q # << >>

\* One step of a turn of update_pend's loop.
LEMMA RipeningStep ==
    ASSUME NEW p \in Txn, NEW ts \in Nat, NEW b \in Store, NEW q, NEW s,
           Ripening(q, s, b, p, ts)
    PROVE  /\ Unfinished(q)
           /\ Head(q).op \in {"delpend", "verify", "read", "write", "putdb", "swept"}
           /\ Head(q).op = "delpend" => Ripening(Tail(q), DelFromPending(s, Head(q).txn), b, p, ts)
           /\ Head(q).op = "verify" => /\ s = DelFromPending(b, p)
                                       /\ Head(q).txn = p /\ Head(q).ts = ts
           /\ Head(q).op = "read" => Ripening(Tail(q), s, b, p, ts)
           /\ Head(q).op = "write" => Ripening(Tail(q), Spend(s, {Head(q).out}), b, p, ts)
           /\ Head(q).op = "putdb" =>
                 Ripening(Tail(q), PutInDb(s, Head(q).txn, Head(q).ts), b, p, ts)
           /\ Head(q).op = "swept" => Head(q).txn = p /\ Ripe(s, b, p, ts)
           /\ HalfRipe(s, b, p, ts)
<1> DEFINE d == DelFromPending(b, p)
<1>1. d \in Store
  BY DelStore
<1>2. /\ Step("delpend", p, 0).op = "delpend" /\ Step("delpend", p, 0).txn = p
      /\ Step("verify", p, ts).op = "verify" /\ Step("verify", p, ts).txn = p
      /\ Step("verify", p, ts).ts = ts /\ Step("swept", p, 0).op = "swept"
      /\ Step("swept", p, 0).txn = p /\ 0 \in Nat /\ {"delpend", "verify", "swept"} \subseteq Op
  BY DEF Step, Op
<1>3. CASE q = <<Step("delpend", p, 0), Step("verify", p, ts)>> /\ s = b
  <2>1. /\ q \in Seq(AnyStep) /\ q # << >>
        /\ Head(q) = Step("delpend", p, 0) /\ Tail(q) = <<Step("verify", p, ts)>>
    BY <1>2, <1>3, TwoSteps
  <2>2. Ripening(Tail(q), DelFromPending(s, Head(q).txn), b, p, ts)
    BY <1>2, <1>3, <2>1 DEF Ripening
  <2> QED
    BY <1>2, <1>3, <2>1, <2>2 DEF HalfRipe, Unfinished
<1>4. CASE q = <<Step("verify", p, ts)>> /\ s = d
  <2>1. q \in Seq(AnyStep) /\ q # << >> /\ Head(q) = Step("verify", p, ts)
    BY <1>2, <1>4, OneStep
  <2> QED
    BY <1>2, <1>4, <2>1 DEF HalfRipe, Unfinished
<1>5. CASE VerifyTxn(d, p, FALSE) /\ ToDb(q, s, d, p, ts, "swept")
  <2>1. \A r, a : ToDb(r, a, d, p, ts, "swept") => Ripening(r, a, b, p, ts)
    BY <1>5 DEF Ripening
  <2> HIDE DEF d
  <2>2. /\ q \in Seq(AnyStep) /\ q # << >> /\ Head(q).op \in {"read", "write", "putdb", "swept"}
        /\ Head(q).op = "read" => ToDb(Tail(q), s, d, p, ts, "swept")
        /\ Head(q).op = "write" => ToDb(Tail(q), Spend(s, {Head(q).out}), d, p, ts, "swept")
        /\ Head(q).op = "putdb" =>
              ToDb(Tail(q), PutInDb(s, Head(q).txn, Head(q).ts), d, p, ts, "swept")
        /\ Head(q).op = "swept" => s = WriteTxnToDb(d, p, ts) /\ Head(q).txn = p
        /\ TornDb(s, d, p, ts)
    BY <1>1, <1>5, ToDbStep
  <2> QED
    BY <1>5, <2>1, <2>2 DEF d, Ripe, HalfRipe, Unfinished
<1>6. CASE ~VerifyTxn(d, p, FALSE) /\ q = Fin("swept", p) /\ s = Reject(d, p)
  <2>1. q \in Seq(AnyStep) /\ q # << >> /\ Head(q) = Step("swept", p, 0)
    BY <1>6, LastSteps
  <2> QED
    BY <1>2, <1>6, <2>1 DEF Ripe, HalfRipe, Unfinished
<1> QED
  BY <1>3, <1>4, <1>5, <1>6 DEF Ripening

\* The outcome of verify_txn decides how the turn goes on.
LEMMA RipeningVerified ==
    ASSUME NEW p \in Txn, NEW ts \in Nat, NEW b \in Store
    PROVE  LET d == DelFromPending(b, p)
           IN  IF VerifyTxn(d, p, FALSE)
               THEN Ripening(WriteToDb(p, ts) \o <<Step("swept", p, 0)>>, d, b, p, ts)
               ELSE Ripening(<<Step("swept", p, 0)>>, Reject(d, p), b, p, ts)
<1> DEFINE d == DelFromPending(b, p)
<1>1. d \in Store
  BY DelStore
<1>2. WriteToDb(p, ts) \o <<Step("swept", p, 0)>> = FlagInputs(p) \o StoreAnd("swept", p, ts)
  BY WriteSteps DEF Fin
<1>3. FlagList(FlagInputs(p)) /\ Spent(d, d, p, Left(FlagInputs(p)))
  <2> HIDE DEF d
  <2> QED
    BY <1>1, SpentEnds, FlagInputsList
<1>4. ToDb(FlagInputs(p) \o StoreAnd("swept", p, ts), d, d, p, ts, "swept")
  <2> HIDE DEF d
  <2> QED
    BY <1>3 DEF ToDb
<1>5. CASE VerifyTxn(d, p, FALSE)
  BY <1>2, <1>4, <1>5 DEF Ripening
<1>6. CASE ~VerifyTxn(d, p, FALSE)
  BY <1>6 DEF Ripening, Fin
<1> QED
  BY <1>5, <1>6

-----------------------------------------------------------------------------
(***************************************************************************)
(* The coarse ledger.  Its operators are this module's; its store is what  *)
(* a reader sees who cannot look into a turn.                              *)
(***************************************************************************)
Seen == IF \A th \in Thread : Idle(th) THEN store ELSE before

\* Its functions on stores.
LEMMA TurnsVerify == \A s, t : /\ Turns!VerifyTxn(s, t, TRUE) = VerifyTxn(s, t, TRUE)
                               /\ Turns!VerifyTxn(s, t, FALSE) = VerifyTxn(s, t, FALSE)
  BY DEF VerifyTxn, Turns!VerifyTxn, InputsExist, Turns!InputsExist,
     Authorised, Turns!Authorised, HtlcTimedOut, Turns!HtlcTimedOut,
     Balanced, Turns!Balanced, HasCoins, Turns!HasCoins, SumFunction, Turns!SumFunction,
     SumFunctionOnSet, Turns!SumFunctionOnSet, FoldFunctionOnSet, Turns!FoldFunctionOnSet,
     PendAllows, Turns!PendAllows, Conflicts, Turns!Conflicts,
     Conflict, Turns!Conflict, MayReplace, Turns!MayReplace, LockExpired, Turns!LockExpired,
     Unspent, Turns!Unspent, SumOf, Turns!SumOf, OutputsOf, Turns!OutputsOf,
     MapThenSumSet, Turns!MapThenSumSet, MapThenFoldSet, Turns!MapThenFoldSet,
     AmountOf, Turns!AmountOf

LEMMA TurnsChanges ==
    /\ \A s, t : Turns!AddToMempool(s, t) = AddToMempool(s, t)
    /\ \A s, t : Turns!RemoveFromMempool(s, t) = RemoveFromMempool(s, t)
    /\ \A s, t : Turns!Reject(s, t) = Reject(s, t)
    /\ \A s, t, ts : Turns!LockExpired(s, t, ts) = LockExpired(s, t, ts)
  BY DEF AddToMempool, Turns!AddToMempool, RemoveFromMempool, Turns!RemoveFromMempool,
     Reject, Turns!Reject, LockExpired, Turns!LockExpired

LEMMA TurnsOwned == \A k, T : Turns!OwnedBy(k, T) = OwnedBy(k, T)
  BY DEF OwnedBy, Turns!OwnedBy, OutputsOf, Turns!OutputsOf, KeysOf, Turns!KeysOf

LEMMA TurnsWrites ==
    /\ \A s, p : Turns!DelFromPending(s, p) = DelFromPending(s, p)
    /\ \A s, O : Turns!Spend(s, O) = Spend(s, O)
    /\ \A s, t, ts : Turns!PutInDb(s, t, ts) = PutInDb(s, t, ts)
    /\ \A s, t, ts : Turns!PutInPend(s, t, ts) = PutInPend(s, t, ts)
    /\ \A s : Turns!Reopen(s) = Reopen(s)
  BY TurnsOwned DEF DelFromPending, Turns!DelFromPending, Spend, Turns!Spend,
     PutInDb, Turns!PutInDb, PutInPend, Turns!PutInPend, TxnWrapper, Turns!TxnWrapper,
     Reopen, Turns!Reopen

LEMMA TurnsDrop == \A s, t : Turns!DropReplaced(s, t) = DropReplaced(s, t)
  BY TurnsWrites DEF DropReplaced, Turns!DropReplaced, Conflicts, Turns!Conflicts,
     Conflict, Turns!Conflict

LEMMA TurnsWrite ==
    /\ \A s, t, ts : Turns!WriteTxnToDb(s, t, ts) = WriteTxnToDb(s, t, ts)
    /\ \A s, t, ts : Turns!WriteTxnToPend(s, t, ts) = WriteTxnToPend(s, t, ts)
  BY TurnsWrites DEF WriteTxnToDb, Turns!WriteTxnToDb, WriteTxnToPend, Turns!WriteTxnToPend

LEMMA TurnsProcess == \A s, t : Turns!ProcessTxn(s, t) = ProcessTxn(s, t)
<1>1. \A s, t : Turns!Accept(s, t) = Accept(s, t)
  BY TurnsDrop, TurnsWrite DEF Accept, Turns!Accept
<1> QED
  BY <1>1, TurnsVerify, TurnsChanges DEF ProcessTxn, Turns!ProcessTxn

LEMMA TurnsMature == \A s, p, ts : Turns!MatureTxn(s, p, ts) = MatureTxn(s, p, ts)
  BY TurnsVerify, TurnsChanges, TurnsWrites, TurnsWrite DEF MatureTxn, Turns!MatureTxn

LEMMA TurnsBegins == /\ Turns!EmptyStore = EmptyStore /\ Turns!Block = Block
                     /\ Turns!Nothing = Nothing
  BY TurnsOwned DEF EmptyStore, Turns!EmptyStore, TxnWrapper, Turns!TxnWrapper,
     Block, Turns!Block, Nothing, Turns!Nothing

\* A step that it does not see.
LEMMA TurnsStill ==
    ASSUME Seen' = Seen,
           UNCHANGED <<blockQueue, todo, processing, applying, sweep, applied, restarts>>
    PROVE  UNCHANGED Turns!vars
  BY DEF Turns!vars, Seen

\* Steps between turns.
LEMMA TurnsWhole ==
    ASSUME Seen = store, Seen' = store'
    PROVE  /\ \A t : PutTxn(t) => Turns!PutTxn(t)
           /\ TryProcessBackoff => Turns!TryProcessBackoff
           /\ TryProcess => Turns!TryProcess
           /\ FinishBlock => Turns!FinishBlock
           /\ \A b : AddBlockToQueue(b) => Turns!AddBlockToQueue(b)
           /\ EnqueueBlock => Turns!EnqueueBlock
           /\ Init => Turns!Init
<1>1. \A t : PutTxn(t) => Turns!PutTxn(t)
  BY TurnsChanges DEF PutTxn, Turns!PutTxn, ReactorMayRun, Turns!ReactorMayRun, Seen
<1>2. TryProcessBackoff => Turns!TryProcessBackoff
  BY DEF TryProcessBackoff, Turns!TryProcessBackoff, ReactorMayRun, Turns!ReactorMayRun, Seen
<1>3. TryProcess => Turns!TryProcess
  BY DEF TryProcess, Turns!TryProcess, ReactorMayRun, Turns!ReactorMayRun, Seen
<1>4. FinishBlock => Turns!FinishBlock
  BY DEF FinishBlock, Turns!FinishBlock, ReactorMayRun, Turns!ReactorMayRun, Seen
<1>5. \A b : AddBlockToQueue(b) => Turns!AddBlockToQueue(b)
  BY DEF AddBlockToQueue, Turns!AddBlockToQueue, Seen
<1>6. EnqueueBlock => Turns!EnqueueBlock
  BY DEF EnqueueBlock, Turns!EnqueueBlock, Seen
<1>7. Init => Turns!Init
  BY TurnsBegins DEF Init, Turns!Init, Seen
<1> QED
  BY <1>1, <1>2, <1>3, <1>4, <1>5, <1>6, <1>7

\* A turn of process_block's loop.
LEMMA TurnsProcessNext ==
    ASSUME Seen' = ProcessTxn(Seen, Head(todo)), todo' = Tail(todo), processing, todo # << >>,
           ReactorMayRun,
           UNCHANGED <<blockQueue, processing, applying, sweep, applied, restarts>>
    PROVE  Turns!ProcessNext
  BY TurnsProcess DEF Turns!ProcessNext, ReactorMayRun, Turns!ReactorMayRun, Seen

\* A turn of update_pend's loop.
LEMMA TurnsUpdatePend ==
    ASSUME NEW p, Seen' = MatureTxn(Seen, p, sweep[p]),
           sweep' = [q \in DOMAIN sweep \ {p} |-> sweep[q]],
           UNCHANGED <<blockQueue, todo, processing, applying, applied, restarts>>
    PROVE  Turns!UpdatePend(p)
  BY TurnsMature DEF Turns!UpdatePend, Seen

\* What a new process starts with, whatever it finds in the databases.
Renewed == /\ restarts < MaxRestarts
           /\ restarts' = restarts + 1
           /\ blockQueue' = << >> /\ todo' = << >> /\ processing' = FALSE
           /\ applying' = << >> /\ sweep' = Nothing
           /\ UNCHANGED applied

LEMMA TurnsRestart ==
    ASSUME Renewed, Seen' = Reopen(Seen) PROVE Turns!Restart
  BY TurnsWrites, TurnsBegins DEF Renewed, Turns!Restart, Seen

LEMMA TurnsCrash ==
    ASSUME Renewed, NEW s, Seen' = Reopen(s) PROVE Turns!CrashWith(s)
  BY TurnsWrites, TurnsBegins DEF Renewed, Turns!CrashWith, Seen

\* An end of the process in the middle of accepting a transaction.
LEMMA TurnsCrashInAccept ==
    ASSUME Renewed, NEW s, Seen' = Reopen(s), ReactorMayRun, todo # << >>,
           VerifyTxn(Seen, Head(todo), TRUE),
           TornEither(s, DropReplaced(Seen, Head(todo)), Head(todo), Seen.now)
    PROVE  Turns!CrashInAccept
<1> DEFINE t == Head(todo)
           v == DropReplaced(Seen, t)
           W == {Spend(v, done) : done \in SUBSET Inputs[t]} \union {WriteTxnToDb(v, t, Seen.now)}
           P == {v} \union {Spend(PutInPend(v, t, v.now), done) : done \in SUBSET Inputs[t]}
<1>1. Turns!CrashWith(s)
  BY TurnsCrash
<1>2. Turns!TornWrite(v, t, Seen.now) = W
  BY TurnsWrites, TurnsWrite DEF Turns!TornWrite
<1>3. Turns!TornPend(v, t) = P
  BY TurnsWrites DEF Turns!TornPend
<1>4. v.now = Seen.now
  BY DEF DropReplaced, DelFromPending
<1>5. s \in IF Timelock[t] > 0 THEN P ELSE W
  BY <1>4 DEF TornEither, TornPend, TornDb
<1>6. Turns!VerifyTxn(Seen, t, TRUE) /\ Turns!DropReplaced(Seen, t) = v /\ Turns!ReactorMayRun
  BY TurnsVerify, TurnsDrop DEF ReactorMayRun, Turns!ReactorMayRun
<1>7. s \in IF Timelock[t] > 0 THEN Turns!TornPend(Turns!DropReplaced(Seen, t), t)
                               ELSE Turns!TornWrite(Turns!DropReplaced(Seen, t), t, Seen.now)
  BY <1>2, <1>3, <1>5, <1>6
<1> QED
  BY <1>1, <1>6, <1>7 DEF Turns!CrashInAccept, Seen

\* An end of the process in the middle of letting one mature.
LEMMA TurnsCrashInMature ==
    ASSUME Renewed, NEW s, Seen' = Reopen(s), NEW p \in DOMAIN sweep,
           LockExpired(Seen, p, sweep[p]),
           \/ s = DelFromPending(Seen, p)
           \/ /\ VerifyTxn(DelFromPending(Seen, p), p, FALSE)
              /\ TornDb(s, DelFromPending(Seen, p), p, sweep[p])
           \/ /\ ~VerifyTxn(DelFromPending(Seen, p), p, FALSE)
              /\ s = Reject(DelFromPending(Seen, p), p)
    PROVE  Turns!CrashInMature
<1> DEFINE d == DelFromPending(Seen, p)
           W == {Spend(d, done) : done \in SUBSET Inputs[p]} \union {WriteTxnToDb(d, p, sweep[p])}
<1>1. Turns!CrashWith(s)
  BY TurnsCrash
<1>2. Turns!TornWrite(d, p, sweep[p]) = W
  BY TurnsWrites, TurnsWrite DEF Turns!TornWrite
<1>3. TornDb(s, d, p, sweep[p]) => s \in W
  BY DEF TornDb
<1>4. s \in {d} \union (IF VerifyTxn(d, p, FALSE) THEN W ELSE {Reject(d, p)})
  BY <1>3
<1>5. /\ Turns!DelFromPending(Seen, p) = d /\ Turns!LockExpired(Seen, p, sweep[p])
      /\ Turns!VerifyTxn(d, p, FALSE) = VerifyTxn(d, p, FALSE)
      /\ Turns!Reject(d, p) = Reject(d, p)
  BY TurnsWrites, TurnsChanges, TurnsVerify
<1> HIDE DEF d, W
<1>6. s \in {d} \union (IF Turns!VerifyTxn(d, p, FALSE) THEN Turns!TornWrite(d, p, sweep[p])
                                                         ELSE {Turns!Reject(d, p)})
  BY <1>2, <1>4, <1>5
<1> QED
  BY <1>1, <1>5, <1>6 DEF Turns!CrashInMature, Seen

-----------------------------------------------------------------------------
(***************************************************************************)
(* The invariant: the store is what the turn under way has made of before. *)
(***************************************************************************)
Course(th) ==
    /\ before \in Store
    /\ th = "reactor" => /\ VerifyTxn(before, Head(todo), TRUE)
                         /\ Accepting(plan[th], store, before, Head(todo))
    /\ th = "raft" => \E p \in DOMAIN sweep :
                         /\ LockExpired(before, p, sweep[p])
                         /\ Ripening(plan[th], store, before, p, sweep[p])

CourseInv == \A th \in Thread : ~Idle(th) => Course(th)

\* The thread in the middle of a turn, and what is left of it.
LEMMA OnCourse ==
    ASSUME StepsInv, CourseInv, NEW th \in Thread, ~Idle(th)
    PROVE  /\ Course(th) /\ Seen = before
           /\ \A other \in Thread \ {th} : Idle(other)
           /\ th = "reactor" => /\ applying = << >> /\ ReactorMayRun /\ processing
                                /\ todo # << >> /\ Head(todo) \in Txn
           /\ \A p \in DOMAIN sweep : p \in Txn /\ sweep[p] \in Nat
           /\ plan[th] \in Seq(AnyStep)
<1>1. PICK t \in Txn : Busy(th, t)
  BY WhoIsBusy
<1>2. Course(th) /\ Seen = before
  BY DEF CourseInv, Seen
<1>3. \A p \in DOMAIN sweep : p \in Txn /\ sweep[p] \in Nat
  BY TypeFacts DEF StepsInv
<1>4. \A other \in Thread \ {th} : Idle(other)
  BY <1>1 DEF Busy
<1>5. th = "reactor" => /\ applying = << >> /\ ReactorMayRun /\ processing
                        /\ todo # << >> /\ Head(todo) \in Txn
  BY <1>1 DEF Busy, ReactorMayRun
<1>6. plan[th] \in Seq(AnyStep)
  <2>1. CASE th = "reactor"
    BY <1>2, <1>5, <2>1, AcceptingStep DEF Course
  <2>2. CASE th = "raft"
    BY <1>2, <1>3, <2>2, RipeningStep DEF Course, Unfinished
  <2> QED
    BY <2>1, <2>2 DEF Thread
<1> QED
  BY <1>2, <1>3, <1>4, <1>5, <1>6

\* The list of steps of one thread has changed.
LEMMA PlanChanges ==
    ASSUME StepsInv, NEW th \in Thread, NEW q, plan' = [plan EXCEPT ![th] = q]
    PROVE  /\ plan'[th] = q
           /\ \A other \in Thread \ {th} : plan'[other] = plan[other]
  BY DEF StepsInv, PlanShape

\* Thread th can go on with the rest of its list when the store is s.
Leads(th, s) ==
    /\ Tail(plan[th]) # << >>
    /\ th = "reactor" => Accepting(Tail(plan[th]), s, before, Head(todo))
    /\ th = "raft" => \E p \in DOMAIN sweep :
                         /\ LockExpired(before, p, sweep[p])
                         /\ Ripening(Tail(plan[th]), s, before, p, sweep[p])

\* Where a step leads.
LEMMA Onward ==
    ASSUME StepsInv, CourseInv, NEW th \in Thread, ~Idle(th), NEW q, q = plan[th]
    PROVE  /\ Head(q).op = "delpend" => Leads(th, DelFromPending(store, Head(q).txn))
           /\ Head(q).op = "putpend" => Leads(th, PutInPend(store, Head(q).txn, Head(q).ts))
           /\ Head(q).op = "putdb" => Leads(th, PutInDb(store, Head(q).txn, Head(q).ts))
           /\ Head(q).op = "read" => Leads(th, store)
           /\ Head(q).op = "write" => Leads(th, Spend(store, {Head(q).out}))
<1>1. /\ Course(th) /\ before \in Store
      /\ th = "reactor" => Head(todo) \in Txn
      /\ \A p \in DOMAIN sweep : p \in Txn /\ sweep[p] \in Nat
  BY OnCourse DEF Course
<1>2. CASE th = "reactor"
  <2> DEFINE t == Head(todo)
  <2>1. t \in Txn /\ Accepting(q, store, before, t)
    BY <1>1, <1>2 DEF Course
  <2>2. ASSUME NEW s, Accepting(Tail(q), s, before, t) PROVE Leads(th, s)
    <3>1. Tail(q) # << >>
      BY <1>1, <2>1, <2>2, AcceptingStep
    <3> QED
      BY <1>2, <2>2, <3>1 DEF Leads
  <2> HIDE DEF t
  <2>3. /\ Head(q).op = "delpend" => Accepting(Tail(q), DelFromPending(store, Head(q).txn), before, t)
        /\ Head(q).op = "read" => Accepting(Tail(q), store, before, t)
        /\ Head(q).op = "write" => Accepting(Tail(q), Spend(store, {Head(q).out}), before, t)
        /\ Head(q).op = "putpend" =>
              Accepting(Tail(q), PutInPend(store, Head(q).txn, Head(q).ts), before, t)
        /\ Head(q).op = "putdb" =>
              Accepting(Tail(q), PutInDb(store, Head(q).txn, Head(q).ts), before, t)
    BY <1>1, <2>1, AcceptingStep
  <2> QED
    BY <2>2, <2>3
<1>3. CASE th = "raft"
  <2>1. PICK p \in DOMAIN sweep : /\ LockExpired(before, p, sweep[p])
                                  /\ Ripening(q, store, before, p, sweep[p])
    BY <1>1, <1>3 DEF Course
  <2> DEFINE ts == sweep[p]
  <2>2. p \in Txn /\ ts \in Nat /\ Ripening(q, store, before, p, ts)
    BY <1>1, <2>1
  <2> HIDE DEF ts
  <2>0. before \in Store
    BY <1>1
  <2>3. ASSUME NEW s, Ripening(Tail(q), s, before, p, ts) PROVE Leads(th, s)
    <3> DEFINE r == Tail(q)
    <3>0. Ripening(r, s, before, p, ts)
      BY <2>3
    <3> HIDE DEF r
    <3>1. Unfinished(r)
      BY <2>0, <2>2, <3>0, RipeningStep
    <3>2. r # << >>
      BY <3>1 DEF Unfinished
    <3> QED
      BY <1>3, <2>1, <2>3, <3>2 DEF Leads, r, ts
  <2>4. /\ Head(q).op \in {"delpend", "verify", "read", "write", "putdb", "swept"}
        /\ Head(q).op = "delpend" => Ripening(Tail(q), DelFromPending(store, Head(q).txn), before, p, ts)
        /\ Head(q).op = "read" => Ripening(Tail(q), store, before, p, ts)
        /\ Head(q).op = "write" => Ripening(Tail(q), Spend(store, {Head(q).out}), before, p, ts)
        /\ Head(q).op = "putdb" =>
              Ripening(Tail(q), PutInDb(store, Head(q).txn, Head(q).ts), before, p, ts)
    BY <2>0, <2>2, RipeningStep
  <2> QED
    BY <2>3, <2>4
<1> QED
  BY <1>2, <1>3 DEF Thread

\* A step in the middle of a turn is not seen.
LEMMA CourseOn ==
    ASSUME StepsInv, CourseInv, NEW th \in Thread, NEW op, Makes(th, op),
           UNCHANGED <<todo, sweep>>, Leads(th, store')
    PROVE  CourseInv' /\ UNCHANGED Turns!vars
<1>1. /\ ~Idle(th) /\ plan' = [plan EXCEPT ![th] = Tail(plan[th])]
      /\ before' = IF Len(plan[th]) = 1 THEN EmptyStore ELSE before
      /\ UNCHANGED <<blockQueue, processing, applying, applied, restarts, torn>>
  BY DEF Makes
<1>2. Course(th) /\ Seen = before /\ plan[th] \in Seq(AnyStep)
      /\ \A other \in Thread \ {th} : Idle(other)
  BY <1>1, OnCourse
<1>3. plan[th] # << >> /\ Tail(plan[th]) # << >>
  BY <1>1 DEF Idle, Leads
<1>4. Len(plan[th]) # 1
  <2> DEFINE q == plan[th]
  <2>1. q \in Seq(AnyStep) /\ q # << >> /\ Tail(q) # << >>
    BY <1>2, <1>3
  <2> HIDE DEF q
  <2>2. Len(Tail(q)) = Len(q) - 1 /\ Tail(q) \in Seq(AnyStep)
    BY <2>1, TailOf
  <2>3. Len(q) # 1
    BY <2>1, <2>2, EmptySeq
  <2> QED
    BY <2>3 DEF q
<1>5. before' = before
  BY <1>1, <1>4
<1>6. plan'[th] = Tail(plan[th]) /\ \A other \in Thread \ {th} : plan'[other] = plan[other]
  BY <1>1, PlanChanges
<1>7. \A other \in Thread \ {th} : Idle(other)'
  BY <1>2, <1>6 DEF Idle
<1>8. Course(th)'
  BY <1>2, <1>5, <1>6 DEF Course, Leads
<1>9. CourseInv'
  BY <1>7, <1>8 DEF CourseInv
<1>10. Seen' = before'
  BY <1>3, <1>6 DEF Seen, Idle
<1> QED
  BY <1>1, <1>2, <1>5, <1>9, <1>10, TurnsStill

\* Deletes, puts and reads.
LEMMA DelPendCourse ==
    ASSUME StepsInv, CourseInv, NEW th \in Thread, DelPend(th)
    PROVE  CourseInv' /\ UNCHANGED Turns!vars
<1>1. /\ Makes(th, "delpend") /\ UNCHANGED <<todo, sweep>>
      /\ ~Idle(th) /\ Head(plan[th]).op = "delpend"
      /\ store' = DelFromPending(store, Head(plan[th]).txn)
  BY DEF DelPend, Makes
<1>2. Leads(th, store')
  BY <1>1, Onward
<1> QED
  BY <1>1, <1>2, CourseOn

LEMMA PutPendCourse ==
    ASSUME StepsInv, CourseInv, NEW th \in Thread, PutPend(th)
    PROVE  CourseInv' /\ UNCHANGED Turns!vars
<1>1. /\ Makes(th, "putpend") /\ UNCHANGED <<todo, sweep>>
      /\ ~Idle(th) /\ Head(plan[th]).op = "putpend"
      /\ store' = PutInPend(store, Head(plan[th]).txn, Head(plan[th]).ts)
  BY DEF PutPend, Makes
<1>2. Leads(th, store')
  BY <1>1, Onward
<1> QED
  BY <1>1, <1>2, CourseOn

LEMMA PutDbCourse ==
    ASSUME StepsInv, CourseInv, NEW th \in Thread, PutDb(th)
    PROVE  CourseInv' /\ UNCHANGED Turns!vars
<1>1. /\ Makes(th, "putdb") /\ UNCHANGED <<todo, sweep>>
      /\ ~Idle(th) /\ Head(plan[th]).op = "putdb"
      /\ store' = PutInDb(store, Head(plan[th]).txn, Head(plan[th]).ts)
  BY DEF PutDb, Makes
<1>2. Leads(th, store')
  BY <1>1, Onward
<1> QED
  BY <1>1, <1>2, CourseOn

LEMMA ReadCourse ==
    ASSUME StepsInv, CourseInv, NEW th \in Thread, ReadWrapper(th)
    PROVE  CourseInv' /\ UNCHANGED Turns!vars
<1>1. /\ Makes(th, "read") /\ UNCHANGED <<todo, sweep>>
      /\ ~Idle(th) /\ Head(plan[th]).op = "read" /\ store' = store
  BY DEF ReadWrapper, Makes
<1>2. Leads(th, store')
  BY <1>1, Onward
<1> QED
  BY <1>1, <1>2, CourseOn

\* The write of a wrapper sets one flag, since the copy is what is stored.
LEMMA WriteCourse ==
    ASSUME StepsInv, CourseInv, NEW th \in Thread, WriteWrapper(th)
    PROVE  CourseInv' /\ UNCHANGED Turns!vars
<1> DEFINE o == Head(plan[th]).out
<1>1. /\ Makes(th, "write") /\ UNCHANGED <<todo, sweep>>
      /\ ~Idle(th) /\ Head(plan[th]).op = "write"
  BY DEF WriteWrapper, Makes
<1>2. store' = Spend(store, {o})
  <2>1. store' = [store EXCEPT !.db[o[1]] = [copy[th][1] EXCEPT !.utxos = @ \ {o[2]}],
                               !.pubOuts = [k \in PubKey |-> @[k] \ {o}]]
    BY DEF WriteWrapper
  <2>2. PICK t \in Txn : Busy(th, t)
    BY <1>1, WhoIsBusy
  <2>3. UnderWay(plan[th], store, copy[th], t, ~torn, Finisher(th))
    BY <2>2 DEF Busy
  <2>4. Current(plan[th], store, copy[th])
    <3>1. (~torn) \in BOOLEAN /\ Finisher(th) \in {"processed", "swept"} /\ store \in Store
      BY TypeFacts DEF Finisher, StepsInv
    <3> DEFINE ok == ~torn
    <3>2. ok \in BOOLEAN /\ UnderWay(plan[th], store, copy[th], t, ok, Finisher(th))
      BY <2>3, <3>1
    <3> HIDE DEF ok
    <3> QED
      BY <1>1, <3>1, <3>2, WriteCurrent
  <2>5. o \in Txn \X Nat /\ o[1] \in DOMAIN store.db /\ copy[th][1] = store.db[o[1]]
    BY <2>4 DEF Current
  <2>6. store \in Store
    BY TypeFacts DEF StepsInv
  <2> HIDE DEF o
  <2> QED
    BY <2>1, <2>5, <2>6, WriteIsSpend
<1>3. Leads(th, store')
  BY <1>1, <1>2, Onward
<1> QED
  BY <1>1, <1>3, CourseOn

\* When no thread is in the middle of a turn, a reader sees the store.
LEMMA QuietCourse ==
    /\ (\A th \in Thread : Idle(th)) => Seen = store /\ CourseInv
    /\ (\A th \in Thread : plan'[th] = << >>) => Seen' = store' /\ CourseInv'
  BY DEF Seen, CourseInv, Idle

\* A thread that has just begun a turn, or is in the middle of one.
LEMMA InCourse ==
    ASSUME NEW th \in Thread, Course(th)', plan'[th] # << >>,
           \A other \in Thread \ {th} : plan'[other] = << >>
    PROVE  CourseInv' /\ Seen' = before'
  BY DEF CourseInv, Seen, Idle

LEMMA WholeCourse ==
    ASSUME StepsInv, Serial, Whole PROVE CourseInv' /\ Turns!CrashNext
<1>1. Quiet
  BY WhoIsQuiet DEF Whole, PutTxn, TryProcessBackoff, TryProcess, FinishBlock,
                    AddBlockToQueue, EnqueueBlock
<1>2. \A th \in Thread : plan'[th] = << >>
  BY <1>1 DEF Whole, stepVars, Quiet, Idle
<1>3. Seen = store /\ Seen' = store' /\ CourseInv'
  BY <1>1, <1>2, QuietCourse DEF Quiet
<1>4. \/ \E t \in Txn \ Genesis : PutTxn(t)
      \/ TryProcessBackoff \/ TryProcess \/ FinishBlock
      \/ \E b \in Block : AddBlockToQueue(b)
      \/ EnqueueBlock
  BY DEF Whole
<1>5. \/ \E t \in Txn \ Genesis : Turns!PutTxn(t)
      \/ Turns!TryProcessBackoff \/ Turns!TryProcess \/ Turns!FinishBlock
      \/ \E b \in Turns!Block : Turns!AddBlockToQueue(b)
      \/ Turns!EnqueueBlock
  BY <1>3, <1>4, TurnsWhole, TurnsBegins
<1>6. Turns!Next
  BY <1>5 DEF Turns!Next
<1> QED
  BY <1>3, <1>6 DEF Turns!CrashNext

LEMMA BeginTxnCourse ==
    ASSUME StepsInv, Serial, BeginTxn
    PROVE  CourseInv' /\ (Turns!CrashNext \/ UNCHANGED Turns!vars)
<1> DEFINE t == Head(todo)
<1>1. /\ ReactorMayRun /\ processing /\ todo # << >>
      /\ UNCHANGED <<blockQueue, processing, applying, sweep, applied, restarts>>
  BY DEF BeginTxn
<1>2. Quiet
  BY WhoIsQuiet DEF BeginTxn
<1>3. Seen = store /\ \A th \in Thread : plan[th] = << >>
  BY <1>2, QuietCourse DEF Quiet, Idle
<1>4. t \in Txn /\ store \in Store
  BY <1>1, TypeFacts DEF StepsInv
<1>5. CASE VerifyTxn(store, t, TRUE) /\ UNCHANGED <<store, todo>> /\ before' = store
           /\ plan' = [plan EXCEPT !["reactor"] = AcceptSteps(store, t)]
  <2>1. Accepting(AcceptSteps(store, t), store, store, t)
    BY <1>4, AcceptingStarts
  <2>2. plan'["reactor"] = AcceptSteps(store, t) /\ "reactor" \in Thread
        /\ \A other \in Thread \ {"reactor"} : plan'[other] = << >>
    BY <1>3, <1>5, PlanChanges DEF Thread
  <2>3. plan'["reactor"] # << >>
    <3> DEFINE q == AcceptSteps(store, t)
    <3> HIDE DEF q, t
    <3>1. q # << >>
      BY <1>4, <2>1, AcceptingStep DEF q
    <3> QED
      BY <2>2, <3>1 DEF q, t
  <2>4. Course("reactor")'
    BY <1>4, <1>5, <2>1, <2>2 DEF Course
  <2>5. CourseInv' /\ Seen' = before'
    BY <2>2, <2>3, <2>4, InCourse
  <2>6. UNCHANGED Turns!vars
    BY <1>1, <1>3, <1>5, <2>5, TurnsStill
  <2> QED
    BY <2>5, <2>6
<1>6. CASE ~VerifyTxn(store, t, TRUE) /\ store' = Reject(store, t) /\ todo' = Tail(todo)
           /\ UNCHANGED <<plan, before>>
  <2>1. Seen' = store' /\ CourseInv'
    BY <1>3, <1>6, QuietCourse
  <2>2. Seen' = ProcessTxn(Seen, Head(todo))
    BY <1>3, <1>6, <2>1 DEF ProcessTxn
  <2>3. Turns!ProcessNext
    BY <1>1, <1>6, <2>2, TurnsProcessNext
  <2> QED
    BY <2>1, <2>3 DEF Turns!Next, Turns!CrashNext
<1> QED
  BY <1>5, <1>6 DEF BeginTxn

LEMMA BeginMatureCourse ==
    ASSUME StepsInv, Serial, NEW p \in DOMAIN sweep, BeginMature(p)
    PROVE  CourseInv' /\ (Turns!CrashNext \/ UNCHANGED Turns!vars)
<1>1. /\ Idle("raft")
      /\ UNCHANGED <<store, blockQueue, todo, processing, applying, applied, restarts>>
  BY DEF BeginMature
<1>2. Quiet /\ store \in Store
  BY <1>1, TypeFacts, WhoIsQuiet DEF StepsInv
<1>3. Seen = store /\ \A th \in Thread : plan[th] = << >>
  BY <1>2, QuietCourse DEF Quiet, Idle
<1> DEFINE q == <<Step("delpend", p, 0), Step("verify", p, sweep[p])>>
<1>4. CASE LockExpired(store, p, sweep[p]) /\ before' = store /\ UNCHANGED sweep
           /\ plan' = [plan EXCEPT !["raft"] = q]
  <2>1. plan'["raft"] = q /\ "raft" \in Thread
        /\ \A other \in Thread \ {"raft"} : plan'[other] = << >>
    BY <1>3, <1>4, PlanChanges DEF Thread
  <2>2. q # << >> /\ Ripening(q, store, store, p, sweep[p])
    BY DEF Ripening
  <2>3. Course("raft")'
    BY <1>1, <1>2, <1>4, <2>1, <2>2 DEF Course
  <2>4. CourseInv' /\ Seen' = before'
    BY <2>1, <2>2, <2>3, InCourse
  <2>5. UNCHANGED Turns!vars
    BY <1>1, <1>3, <1>4, <2>4, TurnsStill
  <2> QED
    BY <2>4, <2>5
<1>5. CASE ~LockExpired(store, p, sweep[p]) /\ UNCHANGED <<plan, before>>
           /\ sweep' = [r \in DOMAIN sweep \ {p} |-> sweep[r]]
  <2>1. Seen' = store' /\ CourseInv'
    BY <1>3, <1>5, QuietCourse
  <2>2. Seen' = MatureTxn(Seen, p, sweep[p])
    BY <1>1, <1>3, <1>5, <2>1 DEF MatureTxn
  <2>3. Turns!UpdatePend(p)
    BY <1>1, <1>5, <2>2, TurnsUpdatePend
  <2> QED
    BY <2>1, <2>3 DEF Turns!Next, Turns!CrashNext
<1> QED
  BY <1>4, <1>5 DEF BeginMature

\* Where a turn of update_pend's loop stands.
LEMMA Ripens ==
    ASSUME StepsInv, CourseInv, ~Idle("raft")
    PROVE  \E p \in DOMAIN sweep :
              /\ p \in Txn /\ sweep[p] \in Nat
              /\ LockExpired(before, p, sweep[p])
              /\ Ripening(plan["raft"], store, before, p, sweep[p])
  BY OnCourse DEF Course, Thread

LEMMA VerifyMatureCourse ==
    ASSUME StepsInv, CourseInv, VerifyMature
    PROVE  CourseInv' /\ UNCHANGED Turns!vars
<1> DEFINE q == plan["raft"]
<1>1. /\ ~Idle("raft") /\ Head(q).op = "verify" /\ "raft" \in Thread
      /\ UNCHANGED <<blockQueue, todo, processing, applying, sweep, applied, restarts, before>>
  BY DEF VerifyMature, Thread
<1>2. PICK p \in DOMAIN sweep : /\ p \in Txn /\ sweep[p] \in Nat
                                /\ LockExpired(before, p, sweep[p])
                                /\ Ripening(q, store, before, p, sweep[p])
  BY <1>1, Ripens
<1>3. before \in Store /\ Seen = before /\ \A other \in Thread \ {"raft"} : plan[other] = << >>
  BY <1>1, OnCourse DEF Course, Idle
<1> DEFINE ts == sweep[p]
           d == DelFromPending(before, p)
           long == WriteToDb(p, ts) \o <<Step("swept", p, 0)>>
           short == <<Step("swept", p, 0)>>
<1>4. store = d /\ Head(q).txn = p /\ Head(q).ts = ts
  <2>1. /\ ts \in Nat /\ Ripening(q, store, before, p, ts)
        /\ Head(q).op = "verify"
    BY <1>1, <1>2
  <2> HIDE DEF q, ts
  <2> QED
    BY <1>2, <1>3, <2>1, RipeningStep
<1>5. IF VerifyTxn(d, p, FALSE) THEN Ripening(long, d, before, p, ts)
                                ELSE Ripening(short, Reject(d, p), before, p, ts)
  <2> HIDE DEF ts
  <2> QED
    BY <1>2, <1>3, RipeningVerified DEF ts
<1>6. \E next : /\ plan' = [plan EXCEPT !["raft"] = next]
                /\ Ripening(next, store', before, p, ts)
  <2>1. \/ VerifyTxn(store, p, FALSE) /\ plan' = [plan EXCEPT !["raft"] = long] /\ store' = store
        \/ /\ ~VerifyTxn(store, p, FALSE) /\ plan' = [plan EXCEPT !["raft"] = short]
           /\ store' = Reject(store, p)
    BY <1>4 DEF VerifyMature
  <2> HIDE DEF long, short, d, ts
  <2> QED
    BY <1>4, <1>5, <2>1
<1>7. PICK next : /\ plan' = [plan EXCEPT !["raft"] = next]
                  /\ Ripening(next, store', before, p, ts)
  BY <1>6
<1>8. next # << >>
  <2> HIDE DEF ts
  <2>1. Unfinished(next)
    BY <1>2, <1>3, <1>7, RipeningStep DEF ts
  <2> QED
    BY <2>1 DEF Unfinished
<1>9. plan'["raft"] = next /\ \A other \in Thread \ {"raft"} : plan'[other] = << >>
  BY <1>1, <1>3, <1>7, PlanChanges
<1>10. Course("raft")'
  BY <1>1, <1>2, <1>3, <1>7, <1>9 DEF Course
<1>11. CourseInv' /\ Seen' = before'
  BY <1>1, <1>8, <1>9, <1>10, InCourse
<1> QED
  BY <1>1, <1>3, <1>11, TurnsStill

\* The last step of a turn is the one that is seen.
LEMMA ProcessedCourse ==
    ASSUME StepsInv, CourseInv, NEW th \in Thread, Processed(th)
    PROVE  CourseInv' /\ Turns!CrashNext
<1>1. Makes(th, "processed") /\ "processed" \in {"processed", "swept"}
  BY DEF Processed
<1>2. PICK u \in Txn : /\ Busy(th, u) /\ "processed" = Finisher(th) /\ Head(plan[th]).txn = u
                       /\ \A other \in Thread : plan'[other] = << >>
  BY <1>1, LastStep
<1>3. /\ ~Idle(th) /\ Head(plan[th]).op = "processed"
      /\ store' = RemoveFromMempool(store, u) /\ todo' = Tail(todo)
      /\ UNCHANGED <<blockQueue, processing, applying, sweep, applied, restarts>>
  BY <1>2 DEF Processed, Makes
<1>4. th = "reactor"
  BY <1>2 DEF Finisher
<1> DEFINE t == Head(todo)
           q == plan[th]
<1>5. /\ Seen = before /\ before \in Store /\ VerifyTxn(before, t, TRUE)
      /\ ReactorMayRun /\ processing /\ todo # << >> /\ t \in Txn
      /\ Accepting(q, store, before, t)
  BY <1>3, <1>4, OnCourse DEF Course
<1>6. store = Accept(before, t) /\ Head(q).txn = t
  <2> HIDE DEF q, t
  <2>1. Head(q).op = "processed"
    BY <1>3 DEF q
  <2> QED
    BY <1>5, <2>1, AcceptingStep
<1>7. Seen' = store' /\ CourseInv'
  BY <1>2, QuietCourse
<1>8. Seen' = ProcessTxn(Seen, t)
  BY <1>2, <1>3, <1>5, <1>6, <1>7 DEF ProcessTxn
<1>9. Turns!ProcessNext
  BY <1>3, <1>5, <1>8, TurnsProcessNext
<1> QED
  BY <1>7, <1>9 DEF Turns!Next, Turns!CrashNext

LEMMA SweptCourse ==
    ASSUME StepsInv, CourseInv, NEW th \in Thread, Swept(th)
    PROVE  CourseInv' /\ Turns!CrashNext
<1>1. Makes(th, "swept") /\ "swept" \in {"processed", "swept"}
  BY DEF Swept
<1>2. PICK u \in Txn : /\ "swept" = Finisher(th)
                       /\ \A other \in Thread : plan'[other] = << >>
  BY <1>1, LastStep
<1>3. th = "raft"
  BY <1>2 DEF Finisher, Thread
<1> DEFINE q == plan["raft"]
<1>4. /\ ~Idle("raft") /\ Head(q).op = "swept"
      /\ sweep' = [r \in DOMAIN sweep \ {Head(q).txn} |-> sweep[r]]
      /\ UNCHANGED <<store, blockQueue, todo, processing, applying, applied, restarts>>
  BY <1>3 DEF Swept, Makes
<1>5. PICK p \in DOMAIN sweep : /\ p \in Txn /\ sweep[p] \in Nat
                                /\ LockExpired(before, p, sweep[p])
                                /\ Ripening(q, store, before, p, sweep[p])
  BY <1>4, Ripens
<1>6. Seen = before /\ before \in Store
  BY <1>3, <1>4, OnCourse DEF Course
<1> DEFINE ts == sweep[p]
<1>7. Head(q).txn = p /\ Ripe(store, before, p, ts)
  <2> HIDE DEF q, ts
  <2> QED
    BY <1>4, <1>5, <1>6, RipeningStep DEF ts
<1>8. Seen' = store' /\ CourseInv'
  BY <1>2, QuietCourse
<1>9. Seen' = MatureTxn(Seen, p, sweep[p])
  BY <1>4, <1>5, <1>6, <1>7, <1>8 DEF MatureTxn, Ripe
<1>10. Turns!UpdatePend(p)
  BY <1>4, <1>7, <1>9, TurnsUpdatePend
<1> QED
  BY <1>8, <1>10 DEF Turns!Next, Turns!CrashNext

\* Wherever the process ends, what the next one finds is the state before the
\* turn, or one of the torn states of module LedgerCrash.
LEMMA CrashCourse ==
    ASSUME StepsInv, CourseInv, Crash PROVE CourseInv' /\ Turns!CrashNext
<1>1. Renewed /\ store' = Reopen(store) /\ \A th \in Thread : plan'[th] = << >>
  BY DEF Crash, Restart, Renewed
<1>2. Seen' = Reopen(store) /\ CourseInv'
  BY <1>1, QuietCourse
<1> SUFFICES Turns!CrashNext
  BY <1>2
<1>3. ASSUME Seen = store PROVE Turns!CrashNext
  <2>1. Turns!Restart
    BY <1>1, <1>2, <1>3, TurnsRestart
  <2> QED
    BY <2>1 DEF Turns!Next, Turns!CrashNext
<1>4. CASE \A th \in Thread : Idle(th)
  BY <1>3, <1>4, QuietCourse
<1>5. CASE ~Idle("reactor")
  <2> DEFINE t == Head(todo)
             q == plan["reactor"]
  <2>1. /\ Seen = before /\ before \in Store /\ VerifyTxn(before, t, TRUE)
        /\ ReactorMayRun /\ todo # << >> /\ t \in Txn
        /\ Accepting(q, store, before, t)
    BY <1>5, OnCourse DEF Course, Thread
  <2>2. store = before \/ TornEither(store, DropReplaced(before, t), t, before.now)
    <3> HIDE DEF q, t
    <3> QED
      BY <2>1, AcceptingStep
  <2>3. CASE TornEither(store, DropReplaced(before, t), t, before.now)
    <3>1. Turns!CrashInAccept
      BY <1>1, <1>2, <2>1, <2>3, TurnsCrashInAccept
    <3> QED
      BY <3>1 DEF Turns!CrashNext
  <2> QED
    BY <1>3, <2>1, <2>2, <2>3
<1>6. CASE ~Idle("raft")
  <2> DEFINE q == plan["raft"]
  <2>1. PICK p \in DOMAIN sweep : /\ p \in Txn /\ sweep[p] \in Nat
                                  /\ LockExpired(before, p, sweep[p])
                                  /\ Ripening(q, store, before, p, sweep[p])
    BY <1>6, Ripens
  <2>2. Seen = before /\ before \in Store
    BY <1>6, OnCourse DEF Course, Thread
  <2> DEFINE ts == sweep[p]
  <2>3. HalfRipe(store, before, p, ts)
    <3> HIDE DEF q, ts
    <3> QED
      BY <2>1, <2>2, RipeningStep DEF ts
  <2>4. CASE store # before
    <3> DEFINE d == DelFromPending(before, p)
    <3>1. \/ store = d
          \/ VerifyTxn(d, p, FALSE) /\ TornDb(store, d, p, ts)
          \/ ~VerifyTxn(d, p, FALSE) /\ store = Reject(d, p)
      BY <2>3, <2>4 DEF HalfRipe
    <3>2. Turns!CrashInMature
      BY <1>1, <1>2, <2>1, <2>2, <3>1, TurnsCrashInMature
    <3> QED
      BY <3>2 DEF Turns!CrashNext
  <2> QED
    BY <1>3, <2>2, <2>4
<1> QED
  BY <1>4, <1>5, <1>6 DEF Thread

\* Every step is a step of the coarse ledger, or is not seen there.
LEMMA CourseStep ==
    ASSUME StepsInv, CourseInv, Serial, [StepsNext]_allVars
    PROVE  CourseInv' /\ [Turns!CrashNext]_(Turns!vars)
<1>1. CASE UNCHANGED allVars
  <2>1. UNCHANGED <<store, blockQueue, todo, processing, applying, sweep, applied, restarts,
                    plan, before>>
    BY <1>1 DEF allVars, vars, stepVars
  <2>2. Seen' = Seen
    BY <2>1 DEF Seen, Idle
  <2>3. CourseInv'
    BY <2>1 DEF CourseInv, Course, Idle
  <2> QED
    BY <2>1, <2>2, <2>3, TurnsStill
<1>2. CASE StepsNext
  BY <1>2, WholeCourse, BeginTxnCourse, BeginMatureCourse, DelPendCourse, PutPendCourse,
     PutDbCourse, ReadCourse, WriteCourse, ProcessedCourse, SweptCourse, VerifyMatureCourse,
     CrashCourse DEF StepsNext
<1> QED
  BY <1>1, <1>2

LEMMA CourseBegins == StepsInit => CourseInv /\ Turns!Init
<1> SUFFICES ASSUME StepsInit PROVE CourseInv /\ Turns!Init
  OBVIOUS
<1>1. \A th \in Thread : Idle(th)
  BY DEF StepsInit, Idle
<1>2. Seen = store /\ CourseInv
  BY <1>1, QuietCourse
<1>3. Turns!Init
  BY <1>2, TurnsBegins DEF StepsInit, Init, Turns!Init, Seen
<1> QED
  BY <1>2, <1>3

\* As long as the two threads do not meet, the LevelDB writes of one turn of
\* process_block's loop, or of update_pend's, look like a single write to a
\* reader who cannot look into the turn; an end of the process in the middle of
\* it leaves one of the states that module LedgerCrash lists, and no other.
THEOREM TurnsLookAtomic == ASSUME Serial PROVE StepsSpec => TurnsAtomic
<1>1. StepsInit => CourseInv /\ Turns!Init
  BY CourseBegins
<1>2. StepsInv /\ CourseInv /\ [StepsNext]_allVars
         => CourseInv' /\ [Turns!CrashNext]_(Turns!vars)
  BY CourseStep
<1>3. StepsSpec => []StepsInv
  BY StepsInvariant
<1> QED
  BY <1>1, <1>2, <1>3, PTL DEF StepsSpec, TurnsAtomic, Turns!CrashSpec
=============================================================================
