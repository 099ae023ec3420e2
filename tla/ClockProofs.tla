---------------------------- MODULE ClockProofs ----------------------------
(***************************************************************************)
(* For every finite set of gossipers, every -N and every number of          *)
(* transactions: a proposal is confirmed once and by a threshold, and no    *)
(* gossiper's round outruns the others'.                                    *)
(***************************************************************************)
EXTENDS ThresholdClock, FiniteSetTheorems, TLAPS

(* What SendTLC goroutines have written to the log *)

Sent(g) == g.step # "start"

\* A goroutine holds the transaction of its round; its proposal is in the log.
Goroutines ==
  \A n \in Node :
    /\ txs[n] <= MaxTx[n]
    /\ \A g \in sendTLC[n] :
         /\ g.round < txs[n]
         /\ Sent(g) => g.id \in 1..Len(log[n]) /\ log[n][g.id] = 0
    /\ \A g, h \in sendTLC[n] :
         g.round = h.round \/ (Sent(g) /\ Sent(h) /\ g.id = h.id) => g = h

\* Every entry of the log is some goroutine's.
LogIsSent ==
  \A n \in Node : \A i \in 1..Len(log[n]) :
    \E g \in sendTLC[n] : IF log[n][i] = 0 THEN Sent(g) /\ g.id = i
                                           ELSE g.step = "over" /\ g.id = log[n][i]

LogInv == Goroutines /\ LogIsSent /\ ConfirmedOnce
-----------------------------------------------------------------------------
(* What has been heard *)

Proposal(o, id) == id \in 1..Len(log[o]) /\ log[o][id] = 0

\* What is about a proposal of somebody is about one that has been heard.
Heard ==
  \A n \in Node :
    /\ \A o \in Node : heard[n][o] <= Len(log[o])
    /\ heard[n][n] = 0
    /\ \A h \in handlers[n] \cup tlcCache[n] :
         h.origin # n /\ Proposal(h.origin, h.id) /\ h.id <= heard[n][h.origin]
    /\ \A g, h \in handlers[n] : g.origin = h.origin /\ g.id = h.id => g = h

AcksAreHonest ==
  /\ \A a \in acks : a.id <= heard[a.src][a.dst]
  /\ \A n \in Node : \A p \in ackMap[n] : p[1] <= heard[p[2]][n]

Holders(o, id) == {o} \cup {n \in Node : heard[n][o] >= id}

\* A goroutine past its wait has its threshold.
ConfirmersAreHeld ==
  N >= 3 => \A n \in Node : \A g \in sendTLC[n] : g.step \in {"confirm", "over"} =>
    Cardinality(Holders(n, g.id)) >= Threshold

HeardInv == Heard /\ AcksAreHonest /\ ConfirmersAreHeld
-----------------------------------------------------------------------------
(* The handshakes of a round *)

Handshakes ==
  \A n \in Node :
    /\ IsFiniteSet(finished[n])
    /\ sendPc[n] = "wait" <=> confirmPc[n] = "enter"
    /\ confirmPc[n] = "advance" => pending[n] \notin finished[n]

\* Nobody goes on to a round without -hw3ex3.
NoRounds ==
  ~hw3ex3 => \A n \in Node :
    /\ handlers[n] = {} /\ confirmed[n] = {} /\ counted[n] = {} /\ finished[n] = {}
    /\ sendPc[n] = "idle" /\ confirmPc[n] = "receive" /\ round[n] = 0

RoundInv == Handshakes /\ NoRounds /\ Lockstep
-----------------------------------------------------------------------------
(* The rounds that a gossiper gives to proposals *)

Awaited(n, o, id) == \E h \in handlers[n] : h.step = "compute" /\ h.origin = o /\ h.id = id

\* n has given the proposal its round.
Computed(n, o, id) ==
  Proposal(o, id) /\ (n = o \/ (id <= heard[n][o] /\ ~Awaited(n, o, id)))

ComputedOf(n, o) == {id \in 1..Len(log[o]) : Computed(n, o, id)}

RoundsOf(n, o) ==
  /\ clock[n][o] <= Cardinality(ComputedOf(n, o))
  /\ \A id \in 1..MaxLog(o) :
       IF Computed(n, o, id) THEN roundOf[n][o][id] < clock[n][o] ELSE roundOf[n][o][id] = 0
  /\ \A i, j \in ComputedOf(n, o) : roundOf[n][o][i] = roundOf[n][o][j] => i = j

ClockInv == hw3ex3 => \A n, o \in Node : RoundsOf(n, o)
-----------------------------------------------------------------------------
(* The confirmations that a gossiper counts *)

\* n has had a confirmation of the proposal.
Known(n, o, id) ==
  \E i \in 1..Len(log[o]) : log[o][i] = id /\ id > 0 /\ (n = o \/ i <= heard[n][o])

Tallies ==
  \A n \in Node :
    /\ IsFiniteSet(counted[n])
    /\ \A c \in confirmed[n] : Known(n, c[1], c[2])
    /\ \A c \in counted[n] :
         /\ Known(n, c.origin, c.id)
         /\ <<c.origin, c.id>> \notin confirmed[n]
         /\ c.round # 0 => /\ Computed(n, c.origin, c.id)
                           /\ roundOf[n][c.origin][c.id] = c.round
    /\ \A c, d \in counted[n] : c.origin = d.origin /\ c.id = d.id => c = d

\* A round that is over, or about to be, has its threshold of confirmations.
RoundsHaveThreshold ==
  \A n \in Node :
    /\ \A r \in finished[n] : Cardinality(Counted(n, r)) >= Threshold
    /\ confirmPc[n] = "advance" => Cardinality(Counted(n, pending[n])) >= Threshold

CountInv == Tallies /\ RoundsHaveThreshold

\* The tables of rounds: TypeOK says which one is whose.
Table == UNION {[1..MaxLog(o) -> Nat] : o \in Node}
Shape == roundOf \in [Node -> [Node -> Table]]

IInv == TypeOK /\ Shape /\ LogInv /\ HeardInv /\ RoundInv /\ ClockInv /\ CountInv /\ NoOutrun
-----------------------------------------------------------------------------
(* Types *)

Goroutine == [round : Nat, id : Nat,
              step : {"start", "register", "wait", "gone", "confirm", "over"}]

\* What TypeOK says of one gossiper, of another one, and of the constants.
LEMMA Types ==
  ASSUME TypeOK, NEW n \in Node, NEW o \in Node
  PROVE  /\ flags.numPeers \in Nat /\ flags.hw3ex3 \in BOOLEAN
         /\ log[n] \in Seq(Nat) /\ Len(log[n]) \in Nat
         /\ heard[n][o] \in Nat /\ clock[n][o] \in Nat
         /\ roundOf[n][o] \in [1..MaxLog(o) -> Nat]
         /\ handlers[n] \subseteq Handler /\ tlcCache[n] \subseteq Handler
         /\ sendTLC[n] \subseteq Goroutine
         /\ txs[n] \in Nat /\ round[n] \in Nat /\ ackRound[n] \in Nat
         /\ ackMap[n] \subseteq Nat \X Node
         /\ confirmed[n] \subseteq Node \X Nat
         /\ counted[n] \subseteq [round : Nat, origin : Node, id : Nat]
         /\ pending[n] \in Nat /\ finished[n] \subseteq Nat
         /\ MaxTx[n] \in Nat /\ MaxLog(n) \in Nat
<1>1. MaxTx[n] \in Nat
  BY ConstantsAssumption
<1>2. MaxLog(n) \in Nat
  BY <1>1 DEF MaxLog
<1>3. flags \in [numPeers : Nat, hw3ex3 : BOOLEAN, ackAll : BOOLEAN]
  BY ConstantsAssumption DEF TypeOK
<1>4. log[n] \in Seq(Nat) /\ Len(log[n]) \in Nat
  BY DEF TypeOK
<1>5. heard[n][o] \in Nat /\ clock[n][o] \in Nat
  BY DEF TypeOK
<1>9. roundOf[n][o] \in [1..MaxLog(o) -> Nat]
  <2>1. \A m, p \in Node : roundOf[m][p] \in [1..MaxLog(p) -> Nat]
    BY DEF TypeOK
  <2> QED BY <2>1, Zenon
<1>6. /\ handlers[n] \subseteq Handler /\ tlcCache[n] \subseteq Handler
      /\ sendTLC[n] \subseteq Goroutine
  BY DEF TypeOK, Goroutine
<1>7. /\ txs[n] \in Nat /\ round[n] \in Nat /\ ackRound[n] \in Nat
      /\ pending[n] \in Nat /\ finished[n] \subseteq Nat
  BY DEF TypeOK
<1>8. /\ ackMap[n] \subseteq Nat \X Node
      /\ confirmed[n] \subseteq Node \X Nat
      /\ counted[n] \subseteq [round : Nat, origin : Node, id : Nat]
  BY DEF TypeOK
<1> QED BY <1>1, <1>2, <1>3, <1>4, <1>5, <1>6, <1>7, <1>8, <1>9

\* The threshold is half of -N, rounded up.
LEMMA ThresholdBounds ==
  ASSUME TypeOK, NEW n \in Node
  PROVE  /\ Threshold \in Nat
         /\ 2 * Threshold >= N
         /\ N > 0 => Threshold > 0
<1>1. N \in Nat
  BY Types DEF N
<1> QED BY <1>1 DEF Threshold
-----------------------------------------------------------------------------
(* The log of a gossiper and its SendTLC goroutines *)

\* What Becomes does to the goroutines.
LEMMA BecomesEffect ==
  ASSUME TypeOK, NEW n \in Node, NEW g \in sendTLC[n], NEW h, Becomes(n, g, h)
  PROVE  /\ sendTLC'[n] = (sendTLC[n] \ {g}) \cup {h}
         /\ \A m \in Node : m # n => sendTLC'[m] = sendTLC[m]
BY DEF Becomes, TypeOK

\* LogInv speaks of one gossiper at a time.
LogInvOf(n) ==
  /\ txs[n] <= MaxTx[n]
  /\ \A g \in sendTLC[n] :
       /\ g.round < txs[n]
       /\ Sent(g) => g.id \in 1..Len(log[n]) /\ log[n][g.id] = 0
  /\ \A g, h \in sendTLC[n] :
       g.round = h.round \/ (Sent(g) /\ Sent(h) /\ g.id = h.id) => g = h
  /\ \A i \in 1..Len(log[n]) :
       \E g \in sendTLC[n] : IF log[n][i] = 0 THEN Sent(g) /\ g.id = i
                                              ELSE g.step = "over" /\ g.id = log[n][i]
  /\ \A i, j \in 1..Len(log[n]) : log[n][i] > 0 =>
       /\ log[n][i] < i /\ log[n][log[n][i]] = 0
       /\ log[n][j] = log[n][i] => i = j

\* LogInv says that of every gossiper, and no more.
LEMMA LogInvByNode == LogInv <=> \A n \in Node : LogInvOf(n)
BY DEF LogInv, LogInvOf, Goroutines, LogIsSent, ConfirmedOnce

\* The others' logs are their own affair.
LEMMA LogInvOfOthers ==
  ASSUME LogInv, NEW n \in Node,
         \A m \in Node : m # n => log'[m] = log[m] /\ sendTLC'[m] = sendTLC[m] /\ txs'[m] = txs[m],
         LogInvOf(n)'
  PROVE  LogInv'
<1>1. ASSUME NEW m \in Node, m # n
      PROVE  LogInvOf(m)'
  BY <1>1, LogInvByNode DEF LogInvOf
<1>2. \A m \in Node : LogInvOf(m)'
  BY <1>1
<1> QED BY <1>2 DEF LogInv, LogInvOf, Goroutines, LogIsSent, ConfirmedOnce

\* A goroutine that goes on, and neither proposes nor confirms, writes nothing.
LEMMA LogOfMove ==
  ASSUME TypeOK, LogInv, NEW n \in Node, NEW g \in sendTLC[n], NEW h, Becomes(n, g, h),
         Sent(g), Sent(h), g.step # "over", h.round = g.round, h.id = g.id,
         log' = log, txs' = txs
  PROVE  LogInv'
<1>1. /\ sendTLC'[n] = (sendTLC[n] \ {g}) \cup {h}
      /\ \A m \in Node : m # n => sendTLC'[m] = sendTLC[m]
  BY BecomesEffect
<1>2. LogInvOf(n)
  BY LogInvByNode
<1>3. \A i \in 1..Len(log[n]) :
         \E k \in sendTLC'[n] : IF log[n][i] = 0 THEN Sent(k) /\ k.id = i
                                                ELSE k.step = "over" /\ k.id = log[n][i]
  <2> SUFFICES ASSUME NEW i \in 1..Len(log[n])
               PROVE  \E k \in sendTLC'[n] : IF log[n][i] = 0 THEN Sent(k) /\ k.id = i
                                                ELSE k.step = "over" /\ k.id = log[n][i]
    OBVIOUS
  <2>1. PICK k \in sendTLC[n] : IF log[n][i] = 0 THEN Sent(k) /\ k.id = i
                                                ELSE k.step = "over" /\ k.id = log[n][i]
    BY <1>2 DEF LogInvOf
  <2>2. CASE k = g
    BY <2>1, <2>2, <1>1
  <2>3. CASE k # g
    BY <2>1, <2>3, <1>1
  <2> QED BY <2>2, <2>3
<1>4. \A k, l \in sendTLC'[n] :
        k.round = l.round \/ (Sent(k) /\ Sent(l) /\ k.id = l.id) => k = l
  BY <1>1, <1>2 DEF LogInvOf
<1>5. \A k \in sendTLC'[n] :
         /\ k.round < txs[n]
         /\ Sent(k) => k.id \in 1..Len(log[n]) /\ log[n][k.id] = 0
  BY <1>1, <1>2 DEF LogInvOf
<1>6. LogInvOf(n)'
  BY <1>2, <1>3, <1>4, <1>5 DEF LogInvOf, Sent
<1> QED BY <1>1, <1>6, LogInvOfOthers

\* A new goroutine holds a new transaction.
LEMMA LogOfTakeTx ==
  ASSUME TypeOK, LogInv, NEW n \in Node, TakeTx(n)
  PROVE  LogInv'
<1>0. txs[n] \in Nat /\ MaxTx[n] \in Nat /\ sendTLC[n] \subseteq Goroutine
  BY Types
<1> DEFINE h == [round |-> txs[n], id |-> 0, step |-> "start"]
<1>1. /\ sendTLC'[n] = sendTLC[n] \cup {h}
      /\ txs'[n] = txs[n] + 1 /\ txs[n] < MaxTx[n] /\ log' = log
      /\ \A m \in Node : m # n => sendTLC'[m] = sendTLC[m] /\ txs'[m] = txs[m]
  BY DEF TakeTx, TypeOK, gossipVars
<1>2. h.round = txs[n] /\ ~Sent(h)
  BY DEF Sent
<1> HIDE DEF h
<1>3. LogInvOf(n)
  BY LogInvByNode
<1>4. \A k \in sendTLC[n] : k.round \in Nat /\ k.round < txs[n]
  BY <1>0, <1>3 DEF LogInvOf, Goroutine
<1>5. \A k, l \in sendTLC'[n] :
        k.round = l.round \/ (Sent(k) /\ Sent(l) /\ k.id = l.id) => k = l
  BY <1>0, <1>1, <1>2, <1>3, <1>4 DEF LogInvOf
<1>6. \A k \in sendTLC'[n] :
         /\ k.round < txs'[n]
         /\ Sent(k) => k.id \in 1..Len(log[n]) /\ log[n][k.id] = 0
  BY <1>0, <1>1, <1>2, <1>3, <1>4 DEF LogInvOf
<1>7. \A i \in 1..Len(log[n]) :
         \E k \in sendTLC'[n] : IF log[n][i] = 0 THEN Sent(k) /\ k.id = i
                                                ELSE k.step = "over" /\ k.id = log[n][i]
  BY <1>1, <1>3 DEF LogInvOf
<1>8. txs'[n] <= MaxTx[n]
  BY <1>0, <1>1
<1>9. LogInvOf(n)'
  BY <1>1, <1>3, <1>5, <1>6, <1>7, <1>8 DEF LogInvOf, Sent
<1> QED BY <1>1, <1>9, LogInvOfOthers

\* What Propose and Confirm append to the log of their gossiper.
LEMMA AppendEffect ==
  ASSUME TypeOK, NEW n \in Node, NEW x \in Nat, log' = [log EXCEPT ![n] = Append(@, x)]
  PROVE  /\ log'[n] \in Seq(Nat)
         /\ Len(log'[n]) = Len(log[n]) + 1
         /\ log'[n][Len(log[n]) + 1] = x
         /\ \A i \in 1..Len(log[n]) : log'[n][i] = log[n][i]
         /\ \A m \in Node : m # n => log'[m] = log[m]
<1>1. log[n] \in Seq(Nat)
  BY Types
<1>2. log'[n] = Append(log[n], x) /\ \A m \in Node : m # n => log'[m] = log[m]
  BY DEF TypeOK
<1> QED BY <1>1, <1>2

\* The goroutine that proposes, and what it becomes.
LEMMA ProposeEffect ==
  ASSUME TypeOK, NEW n \in Node, Propose(n)
  PROVE  \E g \in sendTLC[n], h \in Goroutine :
           /\ g.step = "start"
           /\ h.round = g.round /\ h.id = Len(log[n]) + 1 /\ h.step = AfterProposal
           /\ Becomes(n, g, h)
           /\ log' = [log EXCEPT ![n] = Append(@, 0)]
           /\ ComputeRound(n, n, Len(log[n]) + 1)
<1>1. PICK g \in sendTLC[n] :
        /\ g.step = "start"
        /\ log' = [log EXCEPT ![n] = Append(@, 0)]
        /\ ComputeRound(n, n, Len(log[n]) + 1)
        /\ Becomes(n, g, [g EXCEPT !.id = Len(log[n]) + 1, !.step = AfterProposal])
  BY DEF Propose
<1>2. PICK h : h = [g EXCEPT !.id = Len(log[n]) + 1, !.step = AfterProposal]
  OBVIOUS
<1>3. g \in Goroutine /\ Len(log[n]) \in Nat
  BY Types
<1>4. AfterProposal \in {"register", "confirm"}
  BY DEF AfterProposal
<1>5. h \in Goroutine /\ h.round = g.round /\ h.id = Len(log[n]) + 1 /\ h.step = AfterProposal
  <2>1. PICK i \in Nat, st \in {"register", "confirm"} : i = Len(log[n]) + 1 /\ st = AfterProposal
    BY <1>3, <1>4, SMTT(30)
  <2>2. h = [g EXCEPT !.id = i, !.step = st]
    BY <1>2, <2>1
  <2>3. h \in Goroutine /\ h.round = g.round /\ h.id = i /\ h.step = st
    BY <1>3, <2>2 DEF Goroutine
  <2> QED BY <2>1, <2>3
<1> QED BY <1>1, <1>2, <1>5

\* The goroutine that confirms, and what it becomes.
LEMMA ConfirmEffect ==
  ASSUME TypeOK, NEW n \in Node, Confirm(n)
  PROVE  \E g \in sendTLC[n], h \in Goroutine :
           /\ g.step = "confirm" /\ g \in Goroutine
           /\ h.round = g.round /\ h.id = g.id /\ h.step = "over"
           /\ Becomes(n, g, h)
           /\ log' = [log EXCEPT ![n] = Append(@, g.id)]
           /\ confirmed' = [confirmed EXCEPT ![n] = @ \cup ToCount(n, g.id)]
<1>1. PICK g \in sendTLC[n] :
        /\ g.step = "confirm"
        /\ log' = [log EXCEPT ![n] = Append(@, g.id)]
        /\ confirmed' = [confirmed EXCEPT ![n] = @ \cup ToCount(n, g.id)]
        /\ Becomes(n, g, [g EXCEPT !.step = "over"])
  BY DEF Confirm
<1>2. PICK h : h = [g EXCEPT !.step = "over"]
  OBVIOUS
<1>3. g \in Goroutine
  BY Types
<1>4. h \in Goroutine /\ h.round = g.round /\ h.id = g.id /\ h.step = "over"
  BY <1>2, <1>3 DEF Goroutine
<1> QED BY <1>1, <1>2, <1>3, <1>4

\* A proposal stands at the end of the log, and its goroutine knows where.
LEMMA LogOfPropose ==
  ASSUME TypeOK, LogInv, NEW n \in Node, Propose(n)
  PROVE  LogInv'
<1>0. /\ txs[n] \in Nat /\ sendTLC[n] \subseteq Goroutine
      /\ Len(log[n]) \in Nat /\ log[n] \in Seq(Nat)
  BY Types
<1>1. PICK g \in sendTLC[n], h \in Goroutine :
           /\ g.step = "start"
           /\ h.round = g.round /\ h.id = Len(log[n]) + 1 /\ h.step = AfterProposal
           /\ Becomes(n, g, h)
           /\ log' = [log EXCEPT ![n] = Append(@, 0)]
  BY ProposeEffect
<1>2. /\ sendTLC'[n] = (sendTLC[n] \ {g}) \cup {h}
      /\ \A m \in Node : m # n => sendTLC'[m] = sendTLC[m]
  BY <1>1, BecomesEffect
<1>3. /\ Len(log'[n]) = Len(log[n]) + 1
      /\ log'[n][Len(log[n]) + 1] = 0
      /\ \A i \in 1..Len(log[n]) : log'[n][i] = log[n][i]
      /\ \A m \in Node : m # n => log'[m] = log[m]
  BY <1>1, AppendEffect
<1>4. txs' = txs
  BY DEF Propose, sendVars
<1>5. LogInvOf(n)
  BY LogInvByNode
<1>6. ~Sent(g) /\ Sent(h)
  BY <1>1 DEF Sent, AfterProposal
<1>7. \A k \in sendTLC[n] : Sent(k) => k.id # h.id /\ k # g
  BY <1>0, <1>1, <1>5, <1>6 DEF LogInvOf
<1>8. \A k, l \in sendTLC'[n] :
        k.round = l.round \/ (Sent(k) /\ Sent(l) /\ k.id = l.id) => k = l
  BY <1>1, <1>2, <1>5, <1>7 DEF LogInvOf
<1>9. \A k \in sendTLC'[n] :
         /\ k.round < txs[n]
         /\ Sent(k) => k.id \in 1..Len(log'[n]) /\ log'[n][k.id] = 0
  <2>1. \A k \in sendTLC[n] :
         /\ k.round < txs[n]
         /\ Sent(k) => k.id \in 1..Len(log[n]) /\ log[n][k.id] = 0
    BY <1>5 DEF LogInvOf
  <2>2. h.round < txs[n] /\ h.id \in 1..Len(log'[n]) /\ log'[n][h.id] = 0
    BY <2>1, <1>0, <1>1, <1>3
  <2>3. ASSUME NEW k \in sendTLC[n], Sent(k)
        PROVE  k.id \in 1..Len(log'[n]) /\ log'[n][k.id] = 0
    BY <2>1, <2>3, <1>0, <1>3
  <2> QED BY <2>1, <2>2, <2>3, <1>2
<1>10. ASSUME NEW i \in 1..Len(log'[n])
       PROVE  \E k \in sendTLC'[n] : IF log'[n][i] = 0 THEN Sent(k) /\ k.id = i
                                                ELSE k.step = "over" /\ k.id = log'[n][i]
  <2>1. CASE i = Len(log[n]) + 1
    BY <2>1, <1>1, <1>2, <1>3, <1>6
  <2>2. CASE i # Len(log[n]) + 1
    <3>1. i \in 1..Len(log[n])
      BY <2>2, <1>0, <1>3
    <3>2. PICK k \in sendTLC[n] : IF log[n][i] = 0 THEN Sent(k) /\ k.id = i
                                                ELSE k.step = "over" /\ k.id = log[n][i]
      BY <3>1, <1>5 DEF LogInvOf
    <3>3. k # g
      BY <3>2, <1>1, <1>6
    <3> QED BY <3>1, <3>2, <3>3, <1>2, <1>3
  <2> QED BY <2>1, <2>2
<1>11. ASSUME NEW i \in 1..Len(log'[n]), NEW j \in 1..Len(log'[n]), log'[n][i] > 0
       PROVE  /\ log'[n][i] < i /\ log'[n][log'[n][i]] = 0
              /\ log'[n][j] = log'[n][i] => i = j
  <2>0. i # Len(log[n]) + 1
    BY <1>3, <1>11
  <2>1. i \in 1..Len(log[n]) /\ log'[n][i] = log[n][i] /\ log[n][i] \in Nat
    BY <2>0, <1>0, <1>3, SMTT(30)
  <2>2. log[n][i] < i /\ log[n][log[n][i]] = 0
    BY <2>1, <1>5, <1>11 DEF LogInvOf
  <2>3. log[n][i] \in 1..Len(log[n])
    BY <2>1, <2>2, <1>0, <1>11
  <2>4. CASE j \in 1..Len(log[n])
    BY <2>1, <2>2, <2>3, <2>4, <1>3, <1>5, <1>11 DEF LogInvOf
  <2>5. CASE j = Len(log[n]) + 1
    BY <2>1, <2>2, <2>3, <2>5, <1>3, <1>11
  <2> QED BY <2>4, <2>5, <1>0, <1>3
<1>12. LogInvOf(n)'
  BY <1>4, <1>5, <1>8, <1>9, <1>10, <1>11 DEF LogInvOf, Sent
<1> QED BY <1>2, <1>3, <1>4, <1>12, LogInvOfOthers

\* A confirmation is the only one of its goroutine's proposal.
LEMMA LogOfConfirm ==
  ASSUME TypeOK, LogInv, NEW n \in Node, Confirm(n)
  PROVE  LogInv'
<1>0. /\ txs[n] \in Nat /\ sendTLC[n] \subseteq Goroutine
      /\ Len(log[n]) \in Nat /\ log[n] \in Seq(Nat)
  BY Types
<1>1. PICK g \in sendTLC[n], h \in Goroutine :
           /\ g.step = "confirm" /\ g \in Goroutine
           /\ h.round = g.round /\ h.id = g.id /\ h.step = "over"
           /\ Becomes(n, g, h)
           /\ log' = [log EXCEPT ![n] = Append(@, g.id)]
  BY ConfirmEffect
<1>2. /\ sendTLC'[n] = (sendTLC[n] \ {g}) \cup {h}
      /\ \A m \in Node : m # n => sendTLC'[m] = sendTLC[m]
  BY <1>1, BecomesEffect
<1>g. g.id \in Nat
  BY <1>1 DEF Goroutine
<1>3. /\ Len(log'[n]) = Len(log[n]) + 1
      /\ log'[n][Len(log[n]) + 1] = g.id
      /\ \A i \in 1..Len(log[n]) : log'[n][i] = log[n][i]
      /\ \A m \in Node : m # n => log'[m] = log[m]
  BY <1>1, <1>g, AppendEffect
<1>4. txs' = txs
  BY DEF Confirm, sendVars
<1>5. LogInvOf(n)
  BY LogInvByNode
<1>6. Sent(g) /\ Sent(h)
  BY <1>1 DEF Sent
<1>7. g.id \in 1..Len(log[n]) /\ log[n][g.id] = 0
  BY <1>5, <1>6 DEF LogInvOf
<1>8. \A k, l \in sendTLC'[n] :
        k.round = l.round \/ (Sent(k) /\ Sent(l) /\ k.id = l.id) => k = l
  BY <1>1, <1>2, <1>5, <1>6 DEF LogInvOf
<1>9. \A k \in sendTLC'[n] :
         /\ k.round < txs[n]
         /\ Sent(k) => k.id \in 1..Len(log'[n]) /\ log'[n][k.id] = 0
  <2>1. \A k \in sendTLC[n] :
         /\ k.round < txs[n]
         /\ Sent(k) => k.id \in 1..Len(log[n]) /\ log[n][k.id] = 0
    BY <1>5 DEF LogInvOf
  <2>2. h.round < txs[n] /\ h.id \in 1..Len(log'[n]) /\ log'[n][h.id] = 0
    BY <2>1, <1>0, <1>1, <1>3, <1>7
  <2>3. ASSUME NEW k \in sendTLC[n], Sent(k)
        PROVE  k.id \in 1..Len(log'[n]) /\ log'[n][k.id] = 0
    BY <2>1, <2>3, <1>0, <1>3
  <2> QED BY <2>1, <2>2, <2>3, <1>2
<1>10. ASSUME NEW i \in 1..Len(log[n])
       PROVE  log[n][i] # g.id
  <2> SUFFICES ASSUME log[n][i] = g.id PROVE FALSE
    OBVIOUS
  <2>1. PICK k \in sendTLC[n] : k.step = "over" /\ k.id = g.id
    BY <1>5, <1>7, <1>0, SMTT(30) DEF LogInvOf
  <2>2. k = g
    BY <2>1, <1>5, <1>6 DEF LogInvOf, Sent
  <2> QED BY <2>1, <2>2, <1>1
<1>11. ASSUME NEW i \in 1..Len(log'[n])
       PROVE  \E k \in sendTLC'[n] : IF log'[n][i] = 0 THEN Sent(k) /\ k.id = i
                                                ELSE k.step = "over" /\ k.id = log'[n][i]
  <2>1. CASE i = Len(log[n]) + 1
    BY <2>1, <1>0, <1>1, <1>2, <1>3, <1>7
  <2>2. CASE i # Len(log[n]) + 1
    <3>1. i \in 1..Len(log[n])
      BY <2>2, <1>0, <1>3
    <3>2. PICK k \in sendTLC[n] : IF log[n][i] = 0 THEN Sent(k) /\ k.id = i
                                                ELSE k.step = "over" /\ k.id = log[n][i]
      BY <3>1, <1>5 DEF LogInvOf
    <3>3. CASE k = g
      BY <3>1, <3>2, <3>3, <1>1, <1>2, <1>3, <1>6
    <3>4. CASE k # g
      BY <3>1, <3>2, <3>4, <1>2, <1>3
    <3> QED BY <3>3, <3>4
  <2> QED BY <2>1, <2>2
<1>12. ASSUME NEW i \in 1..Len(log'[n]), NEW j \in 1..Len(log'[n]), log'[n][i] > 0
       PROVE  /\ log'[n][i] < i /\ log'[n][log'[n][i]] = 0
              /\ log'[n][j] = log'[n][i] => i = j
  <2>1. CASE i \in 1..Len(log[n])
    <3>1. log'[n][i] = log[n][i] /\ log[n][i] \in Nat
      BY <2>1, <1>0, <1>3
    <3>2. log[n][i] < i /\ log[n][log[n][i]] = 0
      BY <2>1, <3>1, <1>5, <1>12 DEF LogInvOf
    <3>3. log[n][i] \in 1..Len(log[n])
      BY <2>1, <3>1, <3>2, <1>0, <1>12
    <3>4. CASE j \in 1..Len(log[n])
      BY <2>1, <3>1, <3>2, <3>3, <3>4, <1>3, <1>5, <1>12 DEF LogInvOf
    <3>5. CASE j = Len(log[n]) + 1
      BY <2>1, <3>1, <3>2, <3>3, <3>5, <1>3, <1>10
    <3> QED BY <3>4, <3>5, <1>0, <1>3
  <2>2. CASE i = Len(log[n]) + 1
    <3>1. log'[n][i] = g.id /\ g.id < i /\ log'[n][g.id] = 0
      BY <2>2, <1>0, <1>3, <1>7
    <3>2. log'[n][j] = g.id => i = j
      BY <2>2, <1>0, <1>3, <1>10
    <3> QED BY <3>1, <3>2
  <2> QED BY <2>1, <2>2, <1>0, <1>3
<1>13. LogInvOf(n)'
  BY <1>4, <1>5, <1>8, <1>9, <1>11, <1>12 DEF LogInvOf, Sent
<1> QED BY <1>2, <1>3, <1>4, <1>13, LogInvOfOthers

\* The goroutine that goes on in Register, GiveUp or Deliver, and to what.
LEMMA MoveEffect ==
  ASSUME TypeOK, NEW n \in Node, Register(n) \/ GiveUp(n) \/ Deliver(n)
  PROVE  \/ sendTLC' = sendTLC
         \/ \E g \in sendTLC[n], h \in Goroutine :
              /\ g.step \in {"register", "wait"} /\ h.step \in {"wait", "gone", "confirm"}
              /\ h.round = g.round /\ h.id = g.id
              /\ Becomes(n, g, h)
              /\ h.step = "confirm" => Enough(Cardinality(Witnesses(n, g.id)))
<1>1. ASSUME NEW g \in sendTLC[n], NEW st \in {"wait", "gone", "confirm"}
      PROVE  LET h == [g EXCEPT !.step = st] IN
               h \in Goroutine /\ h.step = st /\ h.round = g.round /\ h.id = g.id
  <2>1. g \in Goroutine
    BY Types
  <2> QED BY <2>1 DEF Goroutine
<1>2. CASE Register(n)
  <2>1. PICK g \in sendTLC[n] : g.step = "register" /\ Becomes(n, g, [g EXCEPT !.step = "wait"])
    BY <1>2 DEF Register
  <2> QED BY <2>1, <1>1
<1>3. CASE GiveUp(n)
  <2>1. PICK g \in sendTLC[n] : g.step = "wait" /\ Becomes(n, g, [g EXCEPT !.step = "gone"])
    BY <1>3 DEF GiveUp
  <2> QED BY <2>1, <1>1
<1>4. CASE Deliver(n)
  <2>1. PICK g \in sendTLC[n] :
          /\ g.step = "wait"
          /\ IF Enough(Cardinality(Witnesses(n, g.id)))
             THEN Becomes(n, g, [g EXCEPT !.step = "confirm"])
             ELSE sendTLC' = sendTLC
    BY <1>4 DEF Deliver
  <2> QED BY <2>1, <1>1
<1> QED BY <1>2, <1>3, <1>4

\* One step of one gossiper.
Act(n) == \/ TakeTx(n) \/ SendTLC(n) \/ HandleTLCMessage(n) \/ HandleTLCAck(n)
          \/ Deliver(n) \/ HandleConfirmedMessage(n)

\* The log and its goroutines keep together.
LEMMA LogStep ==
  ASSUME TypeOK, LogInv, NEW n \in Node, Act(n)
  PROVE  LogInv'
<1>1. CASE TakeTx(n)
  BY <1>1, LogOfTakeTx
<1>2. CASE Propose(n)
  BY <1>2, LogOfPropose
<1>3. CASE Confirm(n)
  BY <1>3, LogOfConfirm
<1>4. ASSUME log' = log, sendTLC' = sendTLC, txs' = txs
      PROVE  LogInv'
  BY <1>4 DEF LogInv, Goroutines, LogIsSent, ConfirmedOnce
<1>5. CASE Register(n) \/ GiveUp(n) \/ Deliver(n)
  <2>1. log' = log /\ txs' = txs
    BY <1>5 DEF Register, GiveUp, Deliver, gossipVars, sendVars
  <2>2. CASE sendTLC' = sendTLC
    BY <2>1, <2>2, <1>4
  <2>3. CASE sendTLC' # sendTLC
    <3>1. PICK g \in sendTLC[n], h \in Goroutine :
              /\ g.step \in {"register", "wait"} /\ h.step \in {"wait", "gone", "confirm"}
              /\ h.round = g.round /\ h.id = g.id
              /\ Becomes(n, g, h)
      BY <1>5, <2>3, MoveEffect
    <3>2. Sent(g) /\ Sent(h) /\ g.step # "over"
      BY <3>1 DEF Sent
    <3> QED BY <2>1, <3>1, <3>2, LogOfMove
  <2> QED BY <2>2, <2>3
<1>6. CASE HandleTLCMessage(n) \/ HandleTLCAck(n) \/ HandleConfirmedMessage(n)
  <2>1. log' = log /\ sendTLC' = sendTLC /\ txs' = txs
    BY <1>6 DEF HandleTLCMessage, Receive, Compute, RoundAck, HandleTLCAck,
                HandleConfirmedMessage, CountConfirmed, Advance, EnterRound, gossipVars, sendVars
  <2> QED BY <2>1, <1>4
<1> QED BY <1>1, <1>2, <1>3, <1>5, <1>6 DEF Act, SendTLC

\* A set is no larger than another it can be mapped into without collisions.
LEMMA NoLarger ==
  ASSUME NEW S, NEW T, IsFiniteSet(T), NEW f \in [S -> T],
         \A x, y \in S : f[x] = f[y] => x = y
  PROVE  IsFiniteSet(S) /\ Cardinality(S) <= Cardinality(T)
<1>1. f \in Injection(S, T)
  BY DEF Injection, IsInjective
<1> QED BY <1>1, FS_Injection

\* As many numbers as there are.
LEMMA IntervalCard ==
  ASSUME NEW k \in Nat
  PROVE  /\ IsFiniteSet(1..k) /\ Cardinality(1..k) = k
         /\ IsFiniteSet(0..(k - 1)) /\ Cardinality(0..(k - 1)) = k
<1>1. 0 \in Int /\ 1 \in Int /\ k \in Int /\ k - 1 \in Int
  OBVIOUS
<1>2. IsFiniteSet(1..k) /\ Cardinality(1..k) = IF 1 > k THEN 0 ELSE k - 1 + 1
  BY <1>1, FS_Interval
<1>3. IsFiniteSet(0..(k - 1)) /\ Cardinality(0..(k - 1)) = IF 0 > k - 1 THEN 0 ELSE (k - 1) - 0 + 1
  BY <1>1, FS_Interval
<1> QED BY <1>2, <1>3

ProposalsOf(o) == {i \in 1..Len(log[o]) : log[o][i] = 0}

\* The proposals that are made are those of the transactions taken.
LEMMA ProposalsFit ==
  ASSUME TypeOK, LogInv, NEW n \in Node, NEW T, IsFiniteSet(T),
         \A g \in sendTLC[n] : Sent(g) => g.round \in T
  PROVE  Cardinality(ProposalsOf(n)) <= Cardinality(T)
<1>1. LogInvOf(n)
  BY LogInvByNode
<1> DEFINE By(i) == CHOOSE g \in sendTLC[n] : Sent(g) /\ g.id = i
           f == [i \in ProposalsOf(n) |-> By(i).round]
<1>2. ASSUME NEW i \in ProposalsOf(n)
      PROVE  By(i) \in sendTLC[n] /\ By(i).id = i /\ Sent(By(i))
  <2>1. \E g \in sendTLC[n] : Sent(g) /\ g.id = i
    BY <1>1 DEF LogInvOf, ProposalsOf
  <2> QED BY <2>1
<1> HIDE DEF By
<1>3. \A i, j \in ProposalsOf(n) : f[i] = f[j] => i = j
  <2>1. \A g, h \in sendTLC[n] : g.round = h.round => g = h
    BY <1>1 DEF LogInvOf
  <2> QED BY <1>2, <2>1
<1>4. f \in [ProposalsOf(n) -> T]
  BY <1>2
<1> HIDE DEF f
<1> QED BY <1>3, <1>4, NoLarger

\* There are at most as many confirmations as proposals.
LEMMA HalfAreProposals ==
  ASSUME TypeOK, LogInv, NEW n \in Node
  PROVE  /\ IsFiniteSet(ProposalsOf(n)) /\ Cardinality(ProposalsOf(n)) \in Nat
         /\ Proposals(n) = Cardinality(ProposalsOf(n))
         /\ Len(log[n]) <= 2 * Cardinality(ProposalsOf(n))
<1>0. Len(log[n]) \in Nat /\ log[n] \in Seq(Nat)
  BY Types
<1>1. LogInvOf(n)
  BY LogInvByNode
<1>2. IsFiniteSet(1..Len(log[n])) /\ Cardinality(1..Len(log[n])) = Len(log[n])
  BY <1>0, IntervalCard
<1>3. IsFiniteSet(ProposalsOf(n)) /\ Cardinality(ProposalsOf(n)) \in Nat
  BY <1>2, FS_Subset, FS_CardinalityType DEF ProposalsOf
<1>4. Proposals(n) = Cardinality(ProposalsOf(n))
  BY DEF Proposals, ProposalsOf
<1> DEFINE C == 1..Len(log[n]) \ ProposalsOf(n)
<1>5. Cardinality(C) <= Cardinality(ProposalsOf(n))
  <2> DEFINE f == [i \in C |-> log[n][i]]
  <2>1. ASSUME NEW i \in C
        PROVE  f[i] \in ProposalsOf(n)
    <3>1. i \in 1..Len(log[n]) /\ log[n][i] \in Nat /\ log[n][i] > 0
      BY <1>0 DEF ProposalsOf
    <3>2. log[n][i] < i /\ log[n][log[n][i]] = 0
      BY <3>1, <1>1 DEF LogInvOf
    <3>3. log[n][i] \in 1..Len(log[n])
      BY <3>1, <3>2, <1>0
    <3> QED BY <3>2, <3>3 DEF ProposalsOf
  <2>2. ASSUME NEW i \in C, NEW j \in C, f[i] = f[j]
        PROVE  i = j
    <3>1. i \in 1..Len(log[n]) /\ j \in 1..Len(log[n]) /\ log[n][i] > 0
      BY <1>0 DEF ProposalsOf
    <3> QED BY <3>1, <2>2, <1>1 DEF LogInvOf
  <2>3. f \in [C -> ProposalsOf(n)]
    BY <2>1
  <2> HIDE DEF f
  <2> QED BY <2>2, <2>3, <1>3, NoLarger
<1>6. Cardinality(C) = Cardinality(1..Len(log[n])) - Cardinality(1..Len(log[n]) \cap ProposalsOf(n))
  BY <1>2, FS_Difference
<1>7. 1..Len(log[n]) \cap ProposalsOf(n) = ProposalsOf(n)
  BY DEF ProposalsOf
<1> HIDE DEF C
<1>8. Cardinality(C) = Len(log[n]) - Cardinality(ProposalsOf(n))
  BY <1>2, <1>6, <1>7
<1>9. Len(log[n]) <= 2 * Cardinality(ProposalsOf(n))
  BY <1>0, <1>3, <1>5, <1>8
<1> QED BY <1>3, <1>4, <1>9

\* There are no more proposals than transactions, and the log keeps to its
\* bound, also when a goroutine has its proposal still to make.
LEMMA LogBounded ==
  ASSUME TypeOK, LogInv, NEW n \in Node
  PROVE  /\ Proposals(n) \in Nat /\ Proposals(n) <= txs[n]
         /\ Len(log[n]) <= MaxLog(n)
         /\ (\E g \in sendTLC[n] : ~Sent(g)) => Len(log[n]) + 1 <= MaxLog(n)
<1>0. /\ txs[n] \in Nat /\ MaxTx[n] \in Nat /\ Len(log[n]) \in Nat
      /\ sendTLC[n] \subseteq Goroutine
  BY Types
<1>1. LogInvOf(n)
  BY LogInvByNode
<1>2. IsFiniteSet(0..(txs[n] - 1)) /\ Cardinality(0..(txs[n] - 1)) = txs[n]
  BY <1>0, IntervalCard
<1>3. \A g \in sendTLC[n] : g.round \in 0..(txs[n] - 1)
  BY <1>0, <1>1 DEF LogInvOf, Goroutine
<1>4. /\ Cardinality(ProposalsOf(n)) \in Nat
      /\ Proposals(n) = Cardinality(ProposalsOf(n))
      /\ Len(log[n]) <= 2 * Cardinality(ProposalsOf(n))
  BY HalfAreProposals
<1>5. Cardinality(ProposalsOf(n)) <= txs[n]
  <2>1. Cardinality(ProposalsOf(n)) <= Cardinality(0..(txs[n] - 1))
    BY <1>2, <1>3, ProposalsFit
  <2> QED BY <2>1, <1>2
<1>6. ASSUME NEW g \in sendTLC[n], ~Sent(g)
      PROVE  Cardinality(ProposalsOf(n)) <= txs[n] - 1
  <2> DEFINE T == 0..(txs[n] - 1) \ {g.round}
  <2>1. \A h \in sendTLC[n] : Sent(h) => h.round \in T
    BY <1>1, <1>3, <1>6 DEF LogInvOf
  <2>2. IsFiniteSet(T) /\ Cardinality(T) = txs[n] - 1
    <3>1. g.round \in 0..(txs[n] - 1)
      BY <1>3, <1>6
    <3>2. /\ IsFiniteSet(T)
          /\ Cardinality(T) = IF g.round \in 0..(txs[n] - 1)
                                THEN Cardinality(0..(txs[n] - 1)) - 1
                                ELSE Cardinality(0..(txs[n] - 1))
      BY <1>2, FS_RemoveElement
    <3> QED BY <1>2, <3>1, <3>2
  <2> HIDE DEF T
  <2>3. Cardinality(ProposalsOf(n)) <= Cardinality(T)
    BY <2>1, <2>2, ProposalsFit
  <2> QED BY <2>2, <2>3
<1>7. txs[n] <= MaxTx[n]
  BY <1>1 DEF LogInvOf
<1>8. Len(log[n]) <= 2 * MaxTx[n]
  BY <1>0, <1>4, <1>5, <1>7
<1>9. ASSUME NEW g \in sendTLC[n], ~Sent(g)
      PROVE  Len(log[n]) + 1 <= 2 * MaxTx[n]
  BY <1>0, <1>4, <1>6, <1>7, <1>9
<1> QED BY <1>4, <1>5, <1>8, <1>9 DEF MaxLog
-----------------------------------------------------------------------------
(* Hearing, acknowledging and holding *)

\* The logs only grow, at their end.
LEMMA LogGrows ==
  ASSUME TypeOK, NEW n \in Node, Act(n)
  PROVE  \A m \in Node : /\ Len(log[m]) <= Len(log'[m])
                         /\ \A i \in 1..Len(log[m]) : log'[m][i] = log[m][i]
<1>0. \A m \in Node : Len(log[m]) \in Nat
  BY Types
<1>1. CASE Propose(n)
  <2>1. log' = [log EXCEPT ![n] = Append(@, 0)]
    BY <1>1 DEF Propose
  <2> QED BY <2>1, <1>0, AppendEffect
<1>2. CASE Confirm(n)
  <2>1. PICK g \in sendTLC[n] : g \in Goroutine /\ log' = [log EXCEPT ![n] = Append(@, g.id)]
    BY <1>2, ConfirmEffect
  <2>2. g.id \in Nat
    BY <2>1 DEF Goroutine
  <2> QED BY <2>1, <2>2, <1>0, AppendEffect
<1>3. CASE ~Propose(n) /\ ~Confirm(n)
  <2>1. log' = log
    BY <1>3 DEF Act, SendTLC, TakeTx, Register, GiveUp, Deliver, HandleTLCMessage, Receive, Compute,
       RoundAck, HandleTLCAck, HandleConfirmedMessage, CountConfirmed, Advance, EnterRound, gossipVars
  <2> QED BY <2>1, <1>0
<1> QED BY <1>1, <1>2, <1>3

\* Receive is the only step that hears, and hears one message.
LEMMA HeardGrows ==
  ASSUME TypeOK, NEW n \in Node, Act(n)
  PROVE  \/ heard' = heard /\ ~ \E o \in Node : Receive(n, o)
         \/ \E o \in Node :
              /\ Receive(n, o)
              /\ n # o /\ heard[n][o] < Len(log[o]) /\ log' = log
              /\ heard'[n][o] = heard[n][o] + 1
              /\ \A m, p \in Node : m # n \/ p # o => heard'[m][p] = heard[m][p]
<1>1. CASE \E o \in Node : Receive(n, o)
  <2>1. PICK o \in Node : Receive(n, o)
    BY <1>1
  <2>2. /\ n # o /\ heard[n][o] < Len(log[o]) /\ log' = log
        /\ heard' = [heard EXCEPT ![n][o] = @ + 1]
    BY <2>1 DEF Receive
  <2>3. /\ heard'[n][o] = heard[n][o] + 1
        /\ \A m, p \in Node : m # n \/ p # o => heard'[m][p] = heard[m][p]
    BY <2>2 DEF TypeOK
  <2> QED BY <2>1, <2>2, <2>3
<1>2. CASE ~ \E o \in Node : Receive(n, o)
  <2>1. heard' = heard
    BY <1>2 DEF Act, SendTLC, TakeTx, Propose, Confirm, Register, GiveUp, Deliver, HandleTLCMessage,
       Compute, RoundAck, HandleTLCAck, HandleConfirmedMessage, CountConfirmed, Advance, EnterRound,
       gossipVars
  <2> QED BY <2>1, <1>2
<1> QED BY <1>1, <1>2

\* Nothing that was heard is forgotten.
LEMMA HeardOnlyGrows ==
  ASSUME TypeOK, NEW n \in Node, Act(n)
  PROVE  \A m, o \in Node : heard[m][o] \in Nat /\ heard'[m][o] \in Nat /\ heard[m][o] <= heard'[m][o]
<1>1. \A m, o \in Node : heard[m][o] \in Nat
  BY Types
<1> QED BY <1>1, HeardGrows

\* The length of a log stays a number.
LEMMA LenIsInt ==
  ASSUME TypeOK, NEW n \in Node, Act(n), NEW o \in Node
  PROVE  Len(log'[o]) \in Int
<1>1. Len(log[o]) \in Nat
  BY Types
<1>2. CASE log' = log
  BY <1>1, <1>2
<1>3. CASE Propose(n) \/ Confirm(n)
  <2>1. \E x \in Nat : log' = [log EXCEPT ![n] = Append(@, x)]
    <3>1. CASE Propose(n)
      BY <3>1 DEF Propose
    <3>2. CASE Confirm(n)
      BY <3>2, ConfirmEffect DEF Goroutine
    <3> QED BY <3>1, <3>2, <1>3
  <2>2. Len(log'[o]) = Len(log[o]) + 1 \/ log'[o] = log[o]
    BY <2>1, AppendEffect
  <2> QED BY <2>2, <1>1
<1>4. log' = log \/ Propose(n) \/ Confirm(n)
  BY DEF Act, SendTLC, TakeTx, Register, GiveUp, Deliver, HandleTLCMessage, Receive, Compute,
     RoundAck, HandleTLCAck, HandleConfirmedMessage, CountConfirmed, Advance, EnterRound, gossipVars
<1> QED BY <1>2, <1>3, <1>4

\* A proposal stays one.
LEMMA ProposalStays ==
  ASSUME TypeOK, NEW n \in Node, Act(n), NEW o \in Node, NEW id, Proposal(o, id)
  PROVE  Proposal(o, id)'
<1>1. /\ Len(log[o]) \in Nat /\ Len(log[o]) <= Len(log'[o])
      /\ \A i \in 1..Len(log[o]) : log'[o][i] = log[o][i]
  BY LogGrows, Types
<1>2. id \in 1..Len(log[o]) /\ log[o][id] = 0
  BY DEF Proposal
<1>3. Len(log'[o]) \in Int
  BY LenIsInt
<1> QED BY <1>1, <1>2, <1>3 DEF Proposal

\* Who is waiting for its round, or cached, in the goroutines of n.
Entry(n, h) == h.origin # n /\ Proposal(h.origin, h.id) /\ h.id <= heard[n][h.origin]

\* What n has heard it has still heard.
LEMMA EntryStays ==
  ASSUME TypeOK, NEW n \in Node, Act(n), NEW m \in Node, NEW h \in Handler, Entry(m, h)
  PROVE  Entry(m, h)'
<1>1. h.origin \in Node /\ h.id \in Nat
  BY DEF Handler
<1>2. Proposal(h.origin, h.id)'
  BY <1>1, ProposalStays DEF Entry
<1>3. heard[m][h.origin] \in Nat /\ heard'[m][h.origin] \in Nat /\ heard[m][h.origin] <= heard'[m][h.origin]
  BY <1>1, HeardOnlyGrows
<1> QED BY <1>1, <1>2, <1>3 DEF Entry

\* The new handler of Receive.
NewHandler(o, id) == [origin |-> o, id |-> id, round |-> 0, step |-> "compute"]

\* What a step does to the handlers of its gossiper.
LEMMA HandlersEffect ==
  ASSUME TypeOK, NEW n \in Node, Act(n)
  PROVE  /\ \A m \in Node : m # n => handlers'[m] = handlers[m] /\ tlcCache'[m] = tlcCache[m]
         /\ \/ handlers'[n] = handlers[n] /\ tlcCache'[n] = tlcCache[n] /\ ~Compute(n)
            \/ \E o \in Node :
                 /\ Receive(n, o) /\ hw3ex3 /\ log[o][heard[n][o] + 1] = 0
                 /\ handlers'[n] = handlers[n] \cup {NewHandler(o, heard[n][o] + 1)}
                 /\ tlcCache'[n] = tlcCache[n]
            \/ \E h \in handlers[n], k \in Handler :
                 /\ h.step = "compute" /\ k.step = "wrapped" /\ k.origin = h.origin /\ k.id = h.id
                 /\ ComputeRound(n, h.origin, h.id)
                 /\ handlers'[n] = (handlers[n] \ {h}) \cup {k}
                 /\ tlcCache'[n] = tlcCache[n]
            \/ \E h \in handlers[n] :
                 /\ h.step = "wrapped"
                 /\ handlers'[n] = handlers[n] \ {h}
                 /\ tlcCache'[n] \subseteq tlcCache[n] \cup {h}
                 /\ ~Compute(n) /\ UNCHANGED clockVars
<1>0. handlers[n] \subseteq Handler
  BY Types
<1>1. CASE handlers' = handlers /\ tlcCache' = tlcCache /\ ~Compute(n)
  BY <1>1
<1>2. ASSUME NEW o \in Node, Receive(n, o), handlers' # handlers
      PROVE  /\ hw3ex3 /\ log[o][heard[n][o] + 1] = 0
             /\ handlers' = [handlers EXCEPT ![n] = @ \cup {NewHandler(o, heard[n][o] + 1)}]
             /\ tlcCache' = tlcCache
  BY <1>2 DEF Receive, NewHandler, roundAckVars
<1>3. CASE Compute(n)
  <2>1. PICK h \in handlers[n] :
          /\ h.step = "compute"
          /\ ComputeRound(n, h.origin, h.id)
          /\ handlers' = [handlers EXCEPT ![n] = (@ \ {h}) \cup
                      {[h EXCEPT !.round = clock[n][h.origin], !.step = "wrapped"]}]
    BY <1>3 DEF Compute
  <2>2. h \in Handler /\ clock[n][h.origin] \in Nat
    BY <1>0, Types DEF Handler
  <2>3. PICK r \in Nat : r = clock[n][h.origin]
    BY <2>2
  <2>4. PICK k : k = [h EXCEPT !.round = r, !.step = "wrapped"]
    OBVIOUS
  <2>5. k \in Handler /\ k.step = "wrapped" /\ k.origin = h.origin /\ k.id = h.id
    BY <2>2, <2>4 DEF Handler
  <2>6. handlers' = [handlers EXCEPT ![n] = (@ \ {h}) \cup {k}]
    BY <2>1, <2>3, <2>4
  <2>7. tlcCache' = tlcCache
    BY <1>3 DEF Compute, roundAckVars
  <2>8. /\ handlers'[n] = (handlers[n] \ {h}) \cup {k}
        /\ \A m \in Node : m # n => handlers'[m] = handlers[m]
    BY <2>6 DEF TypeOK
  <2> QED BY <2>1, <2>5, <2>7, <2>8
<1>4. CASE RoundAck(n)
  <2>1. PICK h \in handlers[n] :
          /\ h.step = "wrapped"
          /\ handlers' = [handlers EXCEPT ![n] = @ \ {h}]
          /\ \/ tlcCache' = tlcCache
             \/ tlcCache' = [tlcCache EXCEPT ![n] = @ \cup {h}]
    BY <1>4 DEF RoundAck
  <2>2. UNCHANGED clockVars
    BY <1>4 DEF RoundAck
  <2>3. /\ handlers'[n] = handlers[n] \ {h}
        /\ tlcCache'[n] \subseteq tlcCache[n] \cup {h}
        /\ \A m \in Node : m # n => handlers'[m] = handlers[m] /\ tlcCache'[m] = tlcCache[m]
    BY <2>1 DEF TypeOK
  <2>4. ~Compute(n)
    <3>1. ASSUME NEW k \in handlers[n], k.step = "compute",
                 clock' = [clock EXCEPT ![n][k.origin] = @ + 1]
          PROVE  FALSE
      <4>1. k.origin \in Node
        BY <1>0 DEF Handler
      <4>2. clock[n][k.origin] \in Nat
        BY <4>1, Types
      <4>3. clock'[n][k.origin] = clock[n][k.origin] + 1
        BY <3>1, <4>1 DEF TypeOK
      <4> QED BY <2>2, <4>2, <4>3 DEF clockVars
    <3> QED BY <3>1 DEF Compute, ComputeRound
  <2> QED BY <2>1, <2>2, <2>3, <2>4
<1>5. CASE ~Compute(n) /\ ~RoundAck(n) /\ ~(handlers' = handlers /\ tlcCache' = tlcCache)
  <2>1. PICK o \in Node : Receive(n, o) /\ handlers' # handlers
    BY <1>5 DEF Act, SendTLC, TakeTx, Propose, Confirm, Register, GiveUp, Deliver, HandleTLCMessage,
       Receive, HandleTLCAck, HandleConfirmedMessage, CountConfirmed, Advance, EnterRound, roundAckVars
  <2>2. /\ hw3ex3 /\ log[o][heard[n][o] + 1] = 0
        /\ handlers' = [handlers EXCEPT ![n] = @ \cup {NewHandler(o, heard[n][o] + 1)}]
        /\ tlcCache' = tlcCache
    BY <2>1, <1>2
  <2>3. /\ handlers'[n] = handlers[n] \cup {NewHandler(o, heard[n][o] + 1)}
        /\ \A m \in Node : m # n => handlers'[m] = handlers[m]
    BY <2>2 DEF TypeOK
  <2> QED BY <2>1, <2>2, <2>3
<1> QED BY <1>1, <1>3, <1>4, <1>5

\* Handlers and cache keep to what has been heard.
LEMMA HeardStep ==
  ASSUME TypeOK, Heard, NEW n \in Node, Act(n)
  PROVE  Heard'
<1>0. \A m, o \in Node : /\ heard[m][o] \in Nat /\ Len(log[o]) \in Nat
                         /\ heard[m][o] <= Len(log[o]) /\ heard[m][m] = 0
  BY Types DEF Heard
<1>1. ASSUME NEW m \in Node, NEW o \in Node
      PROVE  heard'[m][o] <= Len(log'[o]) /\ heard'[m][m] = 0
  <2>1. Len(log[o]) <= Len(log'[o])
    BY LogGrows
  <2>2. CASE heard' = heard
    <3>1. heard[m][o] <= Len(log[o]) /\ heard[m][o] \in Nat /\ Len(log[o]) \in Nat
      BY <1>0
    <3>2. Len(log'[o]) \in Int
      BY LenIsInt
    <3> QED BY <2>1, <2>2, <3>1, <3>2, <1>0
  <2>3. CASE heard' # heard
    <3>1. PICK q \in Node :
              /\ n # q /\ heard[n][q] < Len(log[q]) /\ log' = log
              /\ heard'[n][q] = heard[n][q] + 1
              /\ \A k, p \in Node : k # n \/ p # q => heard'[k][p] = heard[k][p]
      BY <2>3, HeardGrows
    <3>2. heard'[m][m] = 0
      BY <3>1, <1>0
    <3>3. CASE m = n /\ o = q
      BY <3>1, <3>2, <3>3, <1>0
    <3>4. CASE m # n \/ o # q
      BY <3>1, <3>2, <3>4, <1>0
    <3> QED BY <3>3, <3>4
  <2> QED BY <2>2, <2>3
<1>2. ASSUME NEW m \in Node
      PROVE  /\ \A h \in handlers'[m] \cup tlcCache'[m] : Entry(m, h)'
             /\ \A g, h \in handlers'[m] : g.origin = h.origin /\ g.id = h.id => g = h
  <2>0. /\ \A h \in handlers[m] \cup tlcCache[m] : h \in Handler /\ Entry(m, h)
        /\ \A g, h \in handlers[m] : g.origin = h.origin /\ g.id = h.id => g = h
    BY Types DEF Heard, Entry
  <2>1. \A h \in handlers[m] \cup tlcCache[m] : Entry(m, h)'
    BY <2>0, EntryStays
  <2>2. CASE handlers'[m] = handlers[m] /\ tlcCache'[m] = tlcCache[m]
    BY <2>0, <2>1, <2>2
  <2>3. ASSUME m = n, NEW o \in Node, Receive(n, o), log[o][heard[n][o] + 1] = 0,
               handlers'[n] = handlers[n] \cup {NewHandler(o, heard[n][o] + 1)},
               tlcCache'[n] = tlcCache[n]
        PROVE  /\ \A h \in handlers'[m] \cup tlcCache'[m] : Entry(m, h)'
               /\ \A g, h \in handlers'[m] : g.origin = h.origin /\ g.id = h.id => g = h
    <3>1. PICK id \in Nat : id = heard[n][o] + 1
      BY <1>0
    <3>2. /\ n # o /\ heard[n][o] < Len(log[o]) /\ log' = log
          /\ heard' = [heard EXCEPT ![n][o] = @ + 1]
      BY <2>3 DEF Receive
    <3>3. heard'[n][o] = id /\ id \in 1..Len(log[o]) /\ log[o][id] = 0
      <4>1. heard'[n][o] = heard[n][o] + 1
        BY <3>2 DEF TypeOK
      <4>2. id \in 1..Len(log[o])
        BY <3>1, <3>2, <1>0
      <4> QED BY <2>3, <3>1, <4>1, <4>2
    <3>4. PICK k : k = NewHandler(o, id)
      OBVIOUS
    <3>5. k.origin = o /\ k.id = id
      BY <3>4 DEF NewHandler
    <3>6. Entry(m, k)'
      BY <2>3, <3>2, <3>3, <3>5 DEF Entry, Proposal
    <3>7. \A h \in handlers[n] : h.origin = o => h.id < id
      <4>1. \A h \in handlers[n] : h.id <= heard[n][h.origin] /\ h.id \in Nat
        BY <2>0, <2>3 DEF Entry, Handler
      <4> QED BY <4>1, <3>1, <1>0
    <3>8. \A h \in handlers[n] : h.origin = o => h.id # id
      BY <3>7, <3>1
    <3>9. handlers'[n] = handlers[n] \cup {k}
      BY <2>3, <3>1, <3>4
    <3>10. \A g, h \in handlers'[n] : g.origin = h.origin /\ g.id = h.id => g = h
      BY <2>0, <2>3, <3>5, <3>8, <3>9
    <3> QED BY <2>1, <2>3, <3>6, <3>9, <3>10
  <2>4. ASSUME m = n, NEW h \in handlers[n], NEW k \in Handler,
               k.origin = h.origin, k.id = h.id,
               handlers'[n] = (handlers[n] \ {h}) \cup {k}, tlcCache'[n] = tlcCache[n]
        PROVE  /\ \A g \in handlers'[m] \cup tlcCache'[m] : Entry(m, g)'
               /\ \A g, l \in handlers'[m] : g.origin = l.origin /\ g.id = l.id => g = l
    <3>1. Entry(m, k)'
      BY <2>1, <2>4 DEF Entry
    <3> QED BY <2>0, <2>1, <2>4, <3>1
  <2>5. ASSUME m = n, NEW h \in handlers[n], handlers'[n] = handlers[n] \ {h},
               tlcCache'[n] \subseteq tlcCache[n] \cup {h}
        PROVE  /\ \A g \in handlers'[m] \cup tlcCache'[m] : Entry(m, g)'
               /\ \A g, l \in handlers'[m] : g.origin = l.origin /\ g.id = l.id => g = l
    BY <2>0, <2>1, <2>5
  <2> QED BY <2>2, <2>3, <2>4, <2>5, HandlersEffect
<1> QED BY <1>1, <1>2 DEF Heard, Entry

\* An acknowledgement on its way has been there, or is of something heard.
LEMMA AcksEffect ==
  ASSUME TypeOK, Heard, NEW n \in Node, Act(n)
  PROVE  \A a \in acks' :
           \/ a \in acks
           \/ a.src = n /\ a.dst \in Node /\ a.id <= heard'[n][a.dst]
<1>0. \A h \in handlers[n] \cup tlcCache[n] : h \in Handler /\ Entry(n, h)
  BY Types DEF Heard, Entry
<1>1. \A h \in handlers[n] \cup tlcCache[n] :
        h.origin \in Node /\ h.id \in Nat /\ h.id <= heard'[n][h.origin]
  <2>1. \A h \in handlers[n] \cup tlcCache[n] :
          h.origin \in Node /\ h.id \in Nat /\ h.id <= heard[n][h.origin]
    BY <1>0 DEF Entry, Handler
  <2>2. \A o \in Node : heard[n][o] \in Nat /\ heard'[n][o] \in Nat /\ heard[n][o] <= heard'[n][o]
    BY HeardOnlyGrows
  <2> QED BY <2>1, <2>2
<1>2. ASSUME NEW got, NEW a \in Ack(n, got)
      PROVE  \E p \in got : a.src = n /\ a.dst = p[1] /\ a.id = p[2]
  BY <1>2 DEF Ack
<1>3. CASE HandleTLCAck(n) \/ Deliver(n)
  <2>1. acks' \subseteq acks
    BY <1>3 DEF HandleTLCAck, Deliver
  <2> QED BY <2>1
<1>4. CASE RoundAck(n)
  <2>1. PICK h \in handlers[n] : \/ acks' = acks \cup Ack(n, {<<h.origin, h.id>>})
                                 \/ acks' = acks
    BY <1>4 DEF RoundAck
  <2>2. ASSUME NEW a \in Ack(n, {<<h.origin, h.id>>})
        PROVE  a.src = n /\ a.dst \in Node /\ a.id <= heard'[n][a.dst]
    BY <1>1, <1>2, <2>2
  <2> QED BY <2>1, <2>2
<1>5. CASE EnterRound(n)
  <2> DEFINE got == {<<h.origin, h.id>> : h \in {h \in tlcCache[n] : h.round = ackRound'[n]}}
  <2>1. acks' = acks \cup Ack(n, got)
    BY <1>5 DEF EnterRound
  <2>2. ASSUME NEW a \in Ack(n, got)
        PROVE  a.src = n /\ a.dst \in Node /\ a.id <= heard'[n][a.dst]
    <3>1. PICK p \in got : a.src = n /\ a.dst = p[1] /\ a.id = p[2]
      BY <1>2, <2>2
    <3>2. PICK h \in tlcCache[n] : p = <<h.origin, h.id>>
      OBVIOUS
    <3> QED BY <3>1, <3>2, <1>1
  <2> QED BY <2>1, <2>2
<1>6. CASE \E o \in Node : Receive(n, o)
  <2>1. PICK o \in Node : Receive(n, o)
    BY <1>6
  <2>2. acks' = acks \/ acks' = acks \cup Ack(n, {<<o, heard[n][o] + 1>>})
    BY <2>1 DEF Receive
  <2>3. heard'[n][o] = heard[n][o] + 1 /\ heard[n][o] \in Nat
    <3>1. heard' = [heard EXCEPT ![n][o] = @ + 1]
      BY <2>1 DEF Receive
    <3> QED BY <3>1, Types DEF TypeOK
  <2>4. ASSUME NEW a \in Ack(n, {<<o, heard[n][o] + 1>>})
        PROVE  a.src = n /\ a.dst \in Node /\ a.id <= heard'[n][a.dst]
    <3>1. a.src = n /\ a.dst = o /\ a.id = heard[n][o] + 1
      BY <1>2, <2>4
    <3> QED BY <3>1, <2>3
  <2> QED BY <2>2, <2>4
<1>7. CASE ~(HandleTLCAck(n) \/ Deliver(n)) /\ ~RoundAck(n) /\ ~EnterRound(n)
           /\ ~(\E o \in Node : Receive(n, o))
  <2>1. acks' = acks
    BY <1>7 DEF Act, SendTLC, TakeTx, Propose, Confirm, Register, GiveUp, HandleTLCMessage, Compute,
                HandleConfirmedMessage, CountConfirmed, Advance
  <2> QED BY <2>1
<1> QED BY <1>3, <1>4, <1>5, <1>6, <1>7

\* An acknowledgement that is counted was on its way.
LEMMA AckMapEffect ==
  ASSUME TypeOK, NEW n \in Node, Act(n)
  PROVE  \A m \in Node : \A p \in ackMap'[m] :
           \/ p \in ackMap[m]
           \/ \E a \in acks : a.dst = m /\ p = <<a.id, a.src>>
<1>1. CASE HandleTLCAck(n)
  <2>1. PICK a \in acks : a.dst = n /\ ackMap' = [ackMap EXCEPT ![n] = @ \cup {<<a.id, a.src>>}]
    BY <1>1 DEF HandleTLCAck
  <2> QED BY <2>1 DEF TypeOK
<1>2. CASE ~HandleTLCAck(n)
  <2>1. ackMap' = ackMap
    BY <1>2 DEF Act, SendTLC, TakeTx, Propose, Confirm, Register, GiveUp, Deliver, HandleTLCMessage,
       Receive, Compute, RoundAck, HandleConfirmedMessage, CountConfirmed, Advance, EnterRound, ackVars
  <2> QED BY <2>1
<1> QED BY <1>1, <1>2

\* Nobody acknowledges what it has not heard.
LEMMA AcksStep ==
  ASSUME TypeOK, Heard, AcksAreHonest, NEW n \in Node, Act(n)
  PROVE  AcksAreHonest'
<1>1. ASSUME NEW a \in acks
      PROVE  a.src \in Node /\ a.dst \in Node /\ a.id \in Nat /\ a.id <= heard'[a.src][a.dst]
  <2>1. a.src \in Node /\ a.dst \in Node /\ a.id \in Nat
    BY DEF TypeOK
  <2>2. /\ a.id <= heard[a.src][a.dst] /\ heard[a.src][a.dst] <= heard'[a.src][a.dst]
        /\ heard[a.src][a.dst] \in Nat /\ heard'[a.src][a.dst] \in Nat
    BY <2>1, HeardOnlyGrows DEF AcksAreHonest
  <2> QED BY <2>1, <2>2
<1>2. \A a \in acks' : a.id <= heard'[a.src][a.dst]
  BY <1>1, AcksEffect
<1>3. ASSUME NEW m \in Node, NEW p \in ackMap'[m]
      PROVE  p[1] <= heard'[p[2]][m]
  <2>1. CASE p \in ackMap[m]
    <3>1. p[1] \in Nat /\ p[2] \in Node
      BY <2>1, Types
    <3>2. /\ p[1] <= heard[p[2]][m] /\ heard[p[2]][m] <= heard'[p[2]][m]
          /\ heard[p[2]][m] \in Nat /\ heard'[p[2]][m] \in Nat
      BY <2>1, <3>1, HeardOnlyGrows DEF AcksAreHonest
    <3> QED BY <3>1, <3>2
  <2>2. CASE \E a \in acks : a.dst = m /\ p = <<a.id, a.src>>
    BY <2>2, <1>1
  <2> QED BY <2>1, <2>2, AckMapEffect
<1> QED BY <1>2, <1>3 DEF AcksAreHonest

\* Holders only join.
LEMMA HoldersGrow ==
  ASSUME TypeOK, NEW n \in Node, Act(n), NEW o \in Node, NEW id \in Nat
  PROVE  /\ IsFiniteSet(Holders(o, id)')
         /\ Cardinality(Holders(o, id)) \in Nat /\ Cardinality(Holders(o, id)') \in Nat
         /\ Cardinality(Holders(o, id)) <= Cardinality(Holders(o, id)')
<1>1. Holders(o, id) \subseteq Holders(o, id)'
  <2>1. \A m \in Node : heard[m][o] \in Nat /\ heard'[m][o] \in Nat /\ heard[m][o] <= heard'[m][o]
    BY HeardOnlyGrows
  <2> QED BY <2>1 DEF Holders
<1>2. Holders(o, id) \subseteq Node /\ Holders(o, id)' \subseteq Node /\ IsFiniteSet(Node)
  BY ConstantsAssumption DEF Holders
<1>3. IsFiniteSet(Holders(o, id)) /\ IsFiniteSet(Holders(o, id)')
  BY <1>2, FS_Subset
<1> QED BY <1>1, <1>3, FS_Subset, FS_CardinalityType

\* -N and the mode are what they were.
LEMMA FlagsStay ==
  ASSUME NEW n \in Node, Act(n)
  PROVE  flags' = flags
BY DEF Act, SendTLC, TakeTx, Propose, Confirm, Register, GiveUp, Deliver, HandleTLCMessage, Receive,
       Compute, RoundAck, HandleTLCAck, HandleConfirmedMessage, CountConfirmed, Advance, EnterRound

\* A step that a goroutine makes before it confirms, or its confirmation.
LEMMA GoroutinesEffect ==
  ASSUME TypeOK, NEW n \in Node, Act(n), NEW m \in Node, NEW h \in sendTLC'[m],
         h.step \in {"confirm", "over"}
  PROVE  \/ h \in sendTLC[m]
         \/ /\ m = n /\ Propose(n) /\ h.step = AfterProposal
         \/ \E g \in sendTLC[m] : /\ m = n /\ g.id = h.id /\ g \in Goroutine
                                  /\ \/ g.step = "confirm"
                                     \/ Enough(Cardinality(Witnesses(n, g.id)))
<1>1. CASE TakeTx(n)
  <2>1. sendTLC' = [sendTLC EXCEPT ![n] = @ \cup {[round |-> txs[n], id |-> 0, step |-> "start"]}]
    BY <1>1 DEF TakeTx
  <2>2. h \in sendTLC[m] \/ h = [round |-> txs[n], id |-> 0, step |-> "start"]
    BY <2>1 DEF TypeOK
  <2> QED BY <2>2
<1>2. CASE Propose(n)
  <2>1. PICK g \in sendTLC[n], k \in Goroutine : k.step = AfterProposal /\ Becomes(n, g, k)
    BY <1>2, ProposeEffect
  <2> QED BY <2>1, <1>2, BecomesEffect
<1>3. CASE Confirm(n)
  <2>1. PICK g \in sendTLC[n], k \in Goroutine :
          g.step = "confirm" /\ g \in Goroutine /\ k.id = g.id /\ Becomes(n, g, k)
    BY <1>3, ConfirmEffect
  <2> QED BY <2>1, BecomesEffect
<1>4. CASE Register(n) \/ GiveUp(n) \/ Deliver(n)
  <2>1. CASE sendTLC' = sendTLC
    BY <2>1
  <2>2. CASE sendTLC' # sendTLC
    <3>1. PICK g \in sendTLC[n], k \in Goroutine :
              /\ k.step \in {"wait", "gone", "confirm"}
              /\ k.id = g.id
              /\ Becomes(n, g, k)
              /\ k.step = "confirm" => Enough(Cardinality(Witnesses(n, g.id)))
      BY <1>4, <2>2, MoveEffect
    <3>2. g \in Goroutine
      BY Types
    <3> QED BY <3>1, <3>2, BecomesEffect
  <2> QED BY <2>1, <2>2
<1>5. CASE HandleTLCMessage(n) \/ HandleTLCAck(n) \/ HandleConfirmedMessage(n)
  <2>1. sendTLC' = sendTLC
    BY <1>5 DEF HandleTLCMessage, Receive, Compute, RoundAck, HandleTLCAck,
                HandleConfirmedMessage, CountConfirmed, Advance, EnterRound
  <2> QED BY <2>1
<1> QED BY <1>1, <1>2, <1>3, <1>4, <1>5 DEF Act, SendTLC

\* Who waits for its threshold goes on with its threshold.
LEMMA ConfirmersStep ==
  ASSUME TypeOK, HeardInv, NEW n \in Node, Act(n)
  PROVE  ConfirmersAreHeld'
<1>0. N' = N /\ Threshold' = Threshold /\ N \in Nat /\ Threshold \in Nat
  <2>1. flags' = flags
    BY FlagsStay
  <2>2. N' = N /\ Threshold' = Threshold
    BY <2>1 DEF N, Threshold
  <2> QED BY <2>2, Types, ThresholdBounds DEF N
<1>1. SUFFICES ASSUME N >= 3, NEW m \in Node, NEW h \in sendTLC'[m], h.step \in {"confirm", "over"}
               PROVE  Cardinality(Holders(m, h.id)') >= Threshold
  BY <1>0 DEF ConfirmersAreHeld
<1>2. ASSUME NEW g \in sendTLC[m], g \in Goroutine, g.id = h.id,
             Cardinality(Holders(m, g.id)) >= Threshold
      PROVE  Cardinality(Holders(m, h.id)') >= Threshold
  <2>1. PICK id \in Nat : id = h.id
    BY <1>2 DEF Goroutine
  <2>2. /\ Cardinality(Holders(m, id)) \in Nat /\ Cardinality(Holders(m, id)') \in Nat
        /\ Cardinality(Holders(m, id)) <= Cardinality(Holders(m, id)')
    BY HoldersGrow
  <2>3. Cardinality(Holders(m, id)) >= Threshold
    BY <1>2, <2>1
  <2>4. Cardinality(Holders(m, id)') >= Threshold
    BY <2>2, <2>3, <1>0
  <2>5. Holders(m, h.id)' = Holders(m, id)'
    BY <2>1 DEF Holders
  <2> QED BY <2>4, <2>5
<1>3. ASSUME NEW g \in sendTLC[m], g.step \in {"confirm", "over"}
      PROVE  Cardinality(Holders(m, g.id)) >= Threshold
  BY <1>1, <1>3 DEF HeardInv, ConfirmersAreHeld
<1>4. CASE h \in sendTLC[m]
  <2>1. h \in Goroutine
    BY <1>4, Types
  <2> QED BY <2>1, <1>1, <1>2, <1>3, <1>4
<1>5. ~(h.step = AfterProposal)
  BY <1>1 DEF AfterProposal
<1>6. ASSUME NEW g \in sendTLC[m], m = n, g.id = h.id, g \in Goroutine,
             g.step = "confirm" \/ Enough(Cardinality(Witnesses(n, g.id)))
      PROVE  Cardinality(Holders(m, h.id)') >= Threshold
  <2>1. CASE g.step = "confirm"
    BY <2>1, <1>2, <1>3, <1>6
  <2>2. CASE Enough(Cardinality(Witnesses(n, g.id)))
    <3>1. PICK id \in Nat : id = g.id
      BY <1>6 DEF Goroutine
    <3>2. \A p \in Node : <<id, p>> \in ackMap[n] => id <= heard[p][n]
      BY DEF HeardInv, AcksAreHonest
    <3>3. \A p \in Node : heard[p][n] \in Nat
      BY Types
    <3>4. Witnesses(n, id) \subseteq Holders(n, id)
      BY <3>2, <3>3 DEF Witnesses, Holders
    <3>5. Holders(n, id) \subseteq Node /\ IsFiniteSet(Node)
      BY ConstantsAssumption DEF Holders
    <3>6. IsFiniteSet(Holders(n, id))
      BY <3>5, FS_Subset
    <3>7. /\ Cardinality(Witnesses(n, id)) <= Cardinality(Holders(n, id))
          /\ IsFiniteSet(Witnesses(n, id))
      BY <3>4, <3>6, FS_Subset
    <3>8. Cardinality(Witnesses(n, id)) \in Nat /\ Cardinality(Holders(n, id)) \in Nat
      BY <3>6, <3>7, FS_CardinalityType
    <3>9. Cardinality(Witnesses(n, id)) >= Threshold
      BY <2>2, <3>1 DEF Enough
    <3>10. Cardinality(Holders(m, g.id)) >= Threshold
      BY <1>0, <1>6, <3>1, <3>7, <3>8, <3>9
    <3> QED BY <3>10, <1>2, <1>6
  <2> QED BY <2>1, <2>2, <1>6
<1> QED BY <1>1, <1>4, <1>5, <1>6, GoroutinesEffect

\* What has been heard stays consistent.
LEMMA HeardInvStep ==
  ASSUME TypeOK, HeardInv, NEW n \in Node, Act(n)
  PROVE  HeardInv'
BY HeardStep, AcksStep, ConfirmersStep DEF HeardInv
-----------------------------------------------------------------------------
(* Rounds and their handshakes *)

\* The counters of a gossiper that has just begun a step.
RoundOfNode(n) ==
  /\ IsFiniteSet(finished[n])
  /\ sendPc[n] = "wait" <=> confirmPc[n] = "enter"
  /\ confirmPc[n] = "advance" => pending[n] \notin finished[n]
  /\ hw3ex3 =>
       /\ round[n] = txs[n] - (IF sendPc[n] = "offer" THEN 1 ELSE 0)
       /\ ackRound[n] = round[n] - (IF confirmPc[n] = "enter" THEN 1 ELSE 0)
       /\ Cardinality(finished[n]) = round[n]

\* Each gossiper has its own handshakes.
LEMMA RoundByNode == Handshakes /\ Lockstep <=> \A n \in Node : RoundOfNode(n)
BY DEF Handshakes, Lockstep, RoundOfNode

\* Counters change at the handshakes only.
LEMMA HandshakeStep ==
  ASSUME TypeOK, RoundInv, NEW n \in Node, Act(n)
  PROVE  Handshakes' /\ Lockstep'
<1>0. flags' = flags /\ hw3ex3 \in BOOLEAN
  BY FlagsStay, Types DEF hw3ex3
<1>t. /\ txs[n] \in Nat /\ round[n] \in Nat /\ ackRound[n] \in Nat
      /\ pending[n] \in Nat /\ finished[n] \subseteq Nat
      /\ sendPc[n] \in {"idle", "offer", "wait"} /\ confirmPc[n] \in {"receive", "advance", "enter"}
  BY Types DEF TypeOK
<1>1. \A m \in Node : RoundOfNode(m)
  BY RoundByNode DEF RoundInv
<1>2. SUFFICES \A m \in Node : RoundOfNode(m)'
  BY DEF Handshakes, Lockstep, RoundOfNode
<1>3. ASSUME NEW m \in Node, sendPc'[m] = sendPc[m], confirmPc'[m] = confirmPc[m], txs'[m] = txs[m],
             round'[m] = round[m], ackRound'[m] = ackRound[m], finished'[m] = finished[m],
             pending'[m] = pending[m]
      PROVE  RoundOfNode(m)'
  BY <1>0, <1>1, <1>3 DEF RoundOfNode, hw3ex3
<1>4. CASE TakeTx(n)
  <2>1. /\ sendPc[n] = "idle" /\ txs'[n] = txs[n] + 1
        /\ sendPc'[n] = IF hw3ex3 THEN "offer" ELSE "idle"
        /\ \A m \in Node : m # n => sendPc'[m] = sendPc[m] /\ txs'[m] = txs[m]
        /\ UNCHANGED <<confirmPc, round, ackRound, finished, pending>>
    BY <1>4 DEF TakeTx, TypeOK, roundAckVars, confirmVars
  <2>2. RoundOfNode(n)
    BY <1>1
  <2>3. RoundOfNode(n)'
    BY <2>1, <2>2, <1>0, <1>t DEF RoundOfNode, hw3ex3
  <2> QED BY <2>1, <2>3, <1>3
<1>5. CASE CountConfirmed(n)
  <2>1. /\ confirmPc[n] = "receive"
        /\ \/ confirmPc' = confirmPc /\ pending' = pending
           \/ \E r : /\ r \notin finished[n]
                     /\ confirmPc' = [confirmPc EXCEPT ![n] = "advance"]
                     /\ pending' = [pending EXCEPT ![n] = r]
        /\ UNCHANGED <<sendPc, txs, round, ackRound, finished>>
    BY <1>5 DEF CountConfirmed, sendVars, roundAckVars
  <2>2. CASE confirmPc' = confirmPc /\ pending' = pending
    BY <2>1, <2>2, <1>3
  <2>3. CASE ~(confirmPc' = confirmPc /\ pending' = pending)
    <3>1. /\ confirmPc'[n] = "advance" /\ pending'[n] \notin finished[n]
          /\ \A m \in Node : m # n => confirmPc'[m] = confirmPc[m] /\ pending'[m] = pending[m]
      BY <2>1, <2>3 DEF TypeOK
    <3>2. RoundOfNode(n)
      BY <1>1
    <3>3. RoundOfNode(n)'
      BY <2>1, <3>1, <3>2, <1>0 DEF RoundOfNode, hw3ex3
    <3> QED BY <2>1, <3>1, <3>3, <1>3
  <2> QED BY <2>2, <2>3
<1>6. CASE Advance(n)
  <2>1. /\ confirmPc[n] = "advance" /\ sendPc[n] = "offer"
        /\ finished'[n] = finished[n] \cup {pending[n]}
        /\ round'[n] = round[n] + 1 /\ confirmPc'[n] = "enter" /\ sendPc'[n] = "wait"
        /\ \A m \in Node : m # n => /\ finished'[m] = finished[m] /\ round'[m] = round[m]
                                    /\ confirmPc'[m] = confirmPc[m] /\ sendPc'[m] = sendPc[m]
                                    /\ pending'[m] = pending[m]
        /\ UNCHANGED <<txs, ackRound>>
    BY <1>6 DEF Advance, TypeOK, roundAckVars
  <2>2. RoundOfNode(n)
    BY <1>1
  <2>3. /\ IsFiniteSet(finished'[n])
        /\ Cardinality(finished'[n]) = Cardinality(finished[n]) + 1
    BY <2>1, <2>2, FS_AddElement DEF RoundOfNode
  <2>4. RoundOfNode(n)'
    BY <2>1, <2>2, <2>3, <1>0, <1>t DEF RoundOfNode, hw3ex3
  <2> QED BY <2>1, <2>4, <1>3
<1>7. CASE EnterRound(n)
  <2>1. /\ confirmPc[n] = "enter" /\ ackRound'[n] = ackRound[n] + 1
        /\ confirmPc'[n] = "receive" /\ sendPc'[n] = "idle"
        /\ \A m \in Node : m # n => /\ ackRound'[m] = ackRound[m]
                                    /\ confirmPc'[m] = confirmPc[m] /\ sendPc'[m] = sendPc[m]
        /\ UNCHANGED <<txs, round, finished, pending>>
    BY <1>7 DEF EnterRound, TypeOK
  <2>2. RoundOfNode(n)
    BY <1>1
  <2>3. RoundOfNode(n)'
    BY <2>1, <2>2, <1>0, <1>t DEF RoundOfNode, hw3ex3
  <2> QED BY <2>1, <2>3, <1>3
<1>8. CASE SendTLC(n) \/ HandleTLCMessage(n) \/ HandleTLCAck(n) \/ Deliver(n)
  <2>1. UNCHANGED <<sendPc, confirmPc, txs, round, ackRound, finished, pending>>
    BY <1>8 DEF SendTLC, Propose, Confirm, Register, GiveUp, Deliver, HandleTLCMessage, Receive,
       Compute, RoundAck, HandleTLCAck, sendVars, roundAckVars, confirmVars
  <2> QED BY <2>1, <1>3
<1> QED BY <1>4, <1>5, <1>6, <1>7, <1>8 DEF Act, HandleConfirmedMessage

\* Where a confirmation in ConfirmedMessageCh comes from.
LEMMA ConfirmedEffect ==
  ASSUME TypeOK, NEW n \in Node, Act(n)
  PROVE  /\ \A m \in Node : m # n => confirmed'[m] = confirmed[m]
         /\ \A c \in confirmed'[n] :
              \/ c \in confirmed[n]
              \/ /\ hw3ex3
                 /\ \/ /\ Confirm(n)
                       /\ \E g \in sendTLC[n] : /\ g.step = "confirm" /\ c = <<n, g.id>>
                                                /\ log' = [log EXCEPT ![n] = Append(@, g.id)]
                    \/ \E o \in Node : /\ Receive(n, o) /\ c = <<o, log[o][heard[n][o] + 1]>>
                                       /\ log[o][heard[n][o] + 1] > 0
<1>1. CASE Confirm(n)
  <2>1. PICK g \in sendTLC[n] : /\ g.step = "confirm"
                                /\ log' = [log EXCEPT ![n] = Append(@, g.id)]
                                /\ confirmed' = [confirmed EXCEPT ![n] = @ \cup ToCount(n, g.id)]
    BY <1>1 DEF Confirm
  <2> QED BY <2>1, <1>1 DEF ToCount, TypeOK
<1>2. CASE \E o \in Node : Receive(n, o)
  <2>1. PICK o \in Node : Receive(n, o)
    BY <1>2
  <2>2. \/ confirmed' = confirmed
        \/ /\ log[o][heard[n][o] + 1] > 0
           /\ confirmed' = [confirmed EXCEPT ![n] = @ \cup ToCount(o, log[o][heard[n][o] + 1])]
    BY <2>1 DEF Receive
  <2>3. PICK x : x = log[o][heard[n][o] + 1]
    OBVIOUS
  <2>4. ToCount(o, x) \subseteq {<<o, x>>} /\ (ToCount(o, x) # {} => hw3ex3)
    BY DEF ToCount
  <2>5. /\ \A m \in Node : m # n => confirmed'[m] = confirmed[m]
        /\ \A c \in confirmed'[n] : c \in confirmed[n] \/ (x > 0 /\ c \in ToCount(o, x))
    <3>1. CASE confirmed' = confirmed
      BY <3>1
    <3>2. CASE confirmed' # confirmed
      <4>1. PICK T : T = ToCount(o, x)
        OBVIOUS
      <4>2. x > 0 /\ confirmed' = [confirmed EXCEPT ![n] = @ \cup T]
        BY <2>2, <2>3, <3>2, <4>1
      <4>3. confirmed \in [Node -> SUBSET (Node \X Nat)]
        BY DEF TypeOK
      <4>4. confirmed'[n] = confirmed[n] \cup T /\ \A m \in Node : m # n => confirmed'[m] = confirmed[m]
        BY <4>2, <4>3
      <4> QED BY <4>1, <4>2, <4>4
    <3> QED BY <3>1, <3>2
  <2>6. \A c \in confirmed'[n] : c \in confirmed[n] \/ (hw3ex3 /\ c = <<o, x>> /\ x > 0)
    BY <2>4, <2>5
  <2> QED BY <2>1, <2>3, <2>5, <2>6
<1>3. CASE CountConfirmed(n)
  <2>1. PICK c \in confirmed[n] : confirmed' = [confirmed EXCEPT ![n] = @ \ {c}]
    BY <1>3 DEF CountConfirmed
  <2> QED BY <2>1 DEF TypeOK
<1>4. CASE ~Confirm(n) /\ ~(\E o \in Node : Receive(n, o)) /\ ~CountConfirmed(n)
  <2>1. confirmed' = confirmed
    BY <1>4 DEF Act, SendTLC, TakeTx, Propose, Register, GiveUp, Deliver, HandleTLCMessage,
       Compute, RoundAck, HandleTLCAck, HandleConfirmedMessage, Advance, EnterRound
  <2> QED BY <2>1
<1> QED BY <1>1, <1>2, <1>3, <1>4

\* Without rounds nothing that belongs to them ever happens.
LEMMA NoRoundsStep ==
  ASSUME TypeOK, NoRounds, NEW n \in Node, Act(n)
  PROVE  NoRounds'
<1>0. flags' = flags
  BY FlagsStay
<1> SUFFICES ASSUME ~hw3ex3, NEW m \in Node
             PROVE  /\ handlers'[m] = {} /\ confirmed'[m] = {} /\ counted'[m] = {} /\ finished'[m] = {}
                    /\ sendPc'[m] = "idle" /\ confirmPc'[m] = "receive" /\ round'[m] = 0
  BY <1>0 DEF NoRounds, hw3ex3
<1>1. /\ handlers[m] = {} /\ confirmed[m] = {} /\ counted[m] = {} /\ finished[m] = {}
      /\ sendPc[m] = "idle" /\ confirmPc[m] = "receive" /\ round[m] = 0
  BY DEF NoRounds
<1>2. /\ confirmPc[n] = "receive" /\ confirmed[n] = {} /\ handlers[n] = {}
  BY DEF NoRounds
<1>3. handlers'[m] = {}
  BY <1>1, <1>2, HandlersEffect
<1>4. confirmed'[m] = {}
  BY <1>1, <1>2, ConfirmedEffect
<1>5. ~HandleConfirmedMessage(n)
  BY <1>2 DEF HandleConfirmedMessage, CountConfirmed, Advance, EnterRound
<1>6. UNCHANGED <<counted, finished, confirmPc, round>>
  BY <1>5 DEF Act, TakeTx, SendTLC, Propose, Confirm, Register, GiveUp, Deliver, HandleTLCMessage,
       Receive, Compute, RoundAck, HandleTLCAck, confirmVars
<1>7. sendPc' = sendPc \/ sendPc' = [sendPc EXCEPT ![n] = "idle"]
  BY <1>5 DEF Act, TakeTx, SendTLC, Propose, Confirm, Register, GiveUp, Deliver, HandleTLCMessage,
       Receive, Compute, RoundAck, HandleTLCAck, sendVars
<1>8. sendPc'[m] = "idle"
  BY <1>1, <1>7 DEF TypeOK
<1> QED BY <1>1, <1>3, <1>4, <1>6, <1>8

\* Every step keeps the handshakes in their order.
LEMMA RoundInvStep ==
  ASSUME TypeOK, RoundInv, NEW n \in Node, Act(n)
  PROVE  RoundInv'
BY HandshakeStep, NoRoundsStep DEF RoundInv
-----------------------------------------------------------------------------
(* The rounds that a gossiper computes *)

\* What ComputeRound does to the tables.
LEMMA ComputeRoundEffect ==
  ASSUME TypeOK, Shape, NEW n \in Node, NEW o \in Node, NEW id \in 1..MaxLog(o),
         ComputeRound(n, o, id)
  PROVE  /\ clock'[n][o] = clock[n][o] + 1
         /\ roundOf'[n][o][id] = clock[n][o]
         /\ \A i \in 1..MaxLog(o) : i # id => roundOf'[n][o][i] = roundOf[n][o][i]
         /\ \A m, p \in Node : m # n \/ p # o =>
              clock'[m][p] = clock[m][p] /\ roundOf'[m][p] = roundOf[m][p]
<1>1. clock' = [clock EXCEPT ![n][o] = @ + 1]
  BY DEF ComputeRound
<1>2. /\ clock'[n][o] = clock[n][o] + 1
      /\ \A m, p \in Node : m # n \/ p # o => clock'[m][p] = clock[m][p]
  BY <1>1 DEF TypeOK
<1>3. roundOf' = [roundOf EXCEPT ![n] = [roundOf[n] EXCEPT ![o] =
                    [roundOf[n][o] EXCEPT ![id] = clock[n][o]]]]
  BY DEF ComputeRound
<1>4. /\ roundOf'[n][o] = [roundOf[n][o] EXCEPT ![id] = clock[n][o]]
      /\ \A m, p \in Node : m # n \/ p # o => roundOf'[m][p] = roundOf[m][p]
  BY <1>3 DEF Shape
<1>5. roundOf[n][o] \in [1..MaxLog(o) -> Nat]
  BY Types
<1> QED BY <1>2, <1>4, <1>5

\* A round that is computed is a new one.
LEMMA RoundsOfCompute ==
  ASSUME TypeOK, Shape, NEW n \in Node, NEW o \in Node, RoundsOf(n, o),
         Len(log[o]) <= MaxLog(o), Len(log'[o]) \in Int,
         NEW id \in 1..MaxLog(o), ComputeRound(n, o, id),
         IsFiniteSet(ComputedOf(n, o)), id \notin ComputedOf(n, o),
         \A i \in Nat : Computed(n, o, i)' <=> Computed(n, o, i) \/ i = id
  PROVE  RoundsOf(n, o)'
<1>1. /\ clock'[n][o] = clock[n][o] + 1
      /\ roundOf'[n][o][id] = clock[n][o]
      /\ \A i \in 1..MaxLog(o) : i # id => roundOf'[n][o][i] = roundOf[n][o][i]
  BY ComputeRoundEffect
<1>2. /\ clock[n][o] \in Nat /\ MaxLog(o) \in Nat
      /\ \A i \in 1..MaxLog(o) : roundOf[n][o][i] \in Nat
      /\ Len(log[o]) \in Nat
  <2>1. roundOf[n][o] \in [1..MaxLog(o) -> Nat]
    BY Types
  <2> QED BY <2>1, Types
<1>3. MaxLog(o)' = MaxLog(o)
  BY DEF MaxLog
<1>4. \A i : i \in ComputedOf(n, o) <=> i \in Nat /\ Computed(n, o, i)
  BY <1>2 DEF ComputedOf, Computed, Proposal
<1>6. \A i : i \in ComputedOf(n, o)' <=> i \in Nat /\ Computed(n, o, i)'
  BY DEF ComputedOf, Computed, Proposal
<1>7. ComputedOf(n, o)' = ComputedOf(n, o) \cup {id}
  BY <1>2, <1>4, <1>6
<1>8. Cardinality(ComputedOf(n, o)') = Cardinality(ComputedOf(n, o)) + 1
  BY <1>7, FS_AddElement
<1>9. clock'[n][o] <= Cardinality(ComputedOf(n, o)')
  <2>1. Cardinality(ComputedOf(n, o)) \in Nat /\ clock[n][o] <= Cardinality(ComputedOf(n, o))
    BY FS_CardinalityType DEF RoundsOf
  <2> QED BY <2>1, <1>1, <1>2, <1>8
<1>10. ASSUME NEW i \in 1..MaxLog(o)
       PROVE  IF Computed(n, o, i)' THEN roundOf'[n][o][i] < clock'[n][o] ELSE roundOf'[n][o][i] = 0
  <2>1. IF Computed(n, o, i) THEN roundOf[n][o][i] < clock[n][o] ELSE roundOf[n][o][i] = 0
    BY DEF RoundsOf
  <2>2. i \in Nat
    BY <1>2
  <2>3. CASE i = id
    BY <2>2, <2>3, <1>1, <1>2
  <2>4. CASE i # id
    BY <2>1, <2>2, <2>4, <1>1, <1>2
  <2> QED BY <2>3, <2>4
<1>11. ASSUME NEW i \in ComputedOf(n, o)', NEW j \in ComputedOf(n, o)', roundOf'[n][o][i] = roundOf'[n][o][j]
       PROVE  i = j
  <2>1. ASSUME NEW k \in ComputedOf(n, o)
        PROVE  /\ k \in 1..MaxLog(o) /\ k # id
               /\ roundOf'[n][o][k] = roundOf[n][o][k] /\ roundOf[n][o][k] < clock[n][o]
               /\ roundOf[n][o][k] \in Nat
    <3>1. k \in 1..MaxLog(o)
      BY <1>2 DEF ComputedOf
    <3> QED BY <3>1, <1>1, <1>2, <1>4 DEF RoundsOf
  <2>2. \A k \in ComputedOf(n, o)' : k = id \/ k \in ComputedOf(n, o)
    BY <1>7
  <2>6. \A k \in ComputedOf(n, o) : roundOf'[n][o][k] # clock[n][o]
    BY <2>1, <1>2
  <2>3. CASE i = id /\ j # id
    BY <2>2, <2>3, <2>6, <1>1, <1>11
  <2>4. CASE i # id /\ j = id
    BY <2>2, <2>4, <2>6, <1>1, <1>11
  <2>5. CASE i # id /\ j # id
    BY <2>1, <2>2, <2>5, <1>11 DEF RoundsOf
  <2> QED BY <2>3, <2>4, <2>5
<1> QED BY <1>3, <1>9, <1>10, <1>11 DEF RoundsOf

\* Rounds that are not touched, of proposals that are not either.
LEMMA RoundsUntouched ==
  ASSUME TypeOK, NEW n \in Node, NEW o \in Node, RoundsOf(n, o), Len(log'[o]) \in Int,
         clock'[n][o] = clock[n][o], roundOf'[n][o] = roundOf[n][o],
         \A i \in Nat : Computed(n, o, i)' <=> Computed(n, o, i)
  PROVE  RoundsOf(n, o)'
<1>1. Len(log[o]) \in Nat /\ MaxLog(o) \in Nat
  BY Types
<1>2. MaxLog(o)' = MaxLog(o)
  BY DEF MaxLog
<1>3. \A i : i \in ComputedOf(n, o) <=> i \in Nat /\ Computed(n, o, i)
  BY <1>1 DEF ComputedOf, Computed, Proposal
<1>4. \A i : i \in ComputedOf(n, o)' <=> i \in Nat /\ Computed(n, o, i)'
  BY DEF ComputedOf, Computed, Proposal
<1>5. ComputedOf(n, o)' = ComputedOf(n, o)
  BY <1>3, <1>4
<1>6. \A i \in 1..MaxLog(o) : Computed(n, o, i)' <=> Computed(n, o, i)
  BY <1>1
<1> QED BY <1>2, <1>5, <1>6 DEF RoundsOf

\* A gossiper's computed proposals are finitely many, at IDs in the bound.
LEMMA ComputedFinite ==
  ASSUME TypeOK, LogInv, NEW n \in Node, NEW o \in Node
  PROVE  IsFiniteSet(ComputedOf(n, o)) /\ Len(log[o]) \in Nat /\ Len(log[o]) <= MaxLog(o)
<1>1. Len(log[o]) \in Nat /\ Len(log[o]) <= MaxLog(o)
  BY Types, LogBounded
<1>2. IsFiniteSet(1..Len(log[o]))
  BY <1>1, IntervalCard
<1>3. ComputedOf(n, o) \subseteq 1..Len(log[o])
  BY DEF ComputedOf
<1> QED BY <1>1, <1>2, <1>3, FS_Subset

\* A gossiper gives its own proposal a round when it makes it.
LEMMA RoundsOfPropose ==
  ASSUME TypeOK, Shape, LogInv, Heard, NEW n \in Node, Propose(n),
         \A m, o \in Node : RoundsOf(m, o)
  PROVE  \A m, o \in Node : RoundsOf(m, o)'
<1>0. Act(n)
  BY DEF Act, SendTLC
<1>1. PICK g \in sendTLC[n] :
           /\ g.step = "start"
           /\ log' = [log EXCEPT ![n] = Append(@, 0)]
           /\ ComputeRound(n, n, Len(log[n]) + 1)
  BY ProposeEffect
<1>2. heard' = heard /\ handlers' = handlers
  BY DEF Propose
<1>3. PICK id \in Nat : id = Len(log[n]) + 1
  BY Types, SMTT(30)
<1>4. /\ Len(log'[n]) = id /\ log'[n][id] = 0
      /\ \A i \in 1..Len(log[n]) : log'[n][i] = log[n][i]
      /\ \A m \in Node : m # n => log'[m] = log[m]
  BY <1>1, <1>3, AppendEffect, ZenonT(40)
<1>5. id \in 1..MaxLog(n) /\ Len(log[n]) \in Nat
  <2>1. ~Sent(g)
    BY <1>1 DEF Sent
  <2>2. Len(log[n]) + 1 <= MaxLog(n)
    BY <2>1, LogBounded
  <2>3. MaxLog(n) \in Nat /\ Len(log[n]) \in Nat
    BY Types
  <2> QED BY <2>2, <2>3, <1>3
<1>6. \A i \in Nat : Proposal(n, i)' <=> Proposal(n, i) \/ i = id
  BY <1>3, <1>4, <1>5 DEF Proposal
<1>7. \A m, o \in Node : Len(log'[o]) \in Int
  BY <1>0, LenIsInt
<1>8. ComputeRound(n, n, id)
  BY <1>1, <1>3
<1>9. ASSUME NEW m \in Node, NEW o \in Node
      PROVE  RoundsOf(m, o)'
  <2>1. CASE m = n /\ o = n
    <3>1. \A i \in Nat : Computed(n, n, i)' <=> Computed(n, n, i) \/ i = id
      BY <1>6 DEF Computed
    <3>2. id \notin ComputedOf(n, n)
      BY <1>3, <1>5 DEF ComputedOf
    <3> QED BY <2>1, <3>1, <3>2, <1>5, <1>7, <1>8, ComputedFinite, RoundsOfCompute
  <2>2. CASE o = n /\ m # n
    <3>1. clock'[m][o] = clock[m][o] /\ roundOf'[m][o] = roundOf[m][o]
      BY <2>2, <1>5, <1>8, ComputeRoundEffect
    <3>2. heard[m][n] < id
      BY <1>3, <1>5, Types DEF Heard
    <3>3. \A i \in Nat : i <= heard[m][n] => i # id
      BY <3>2, <1>3, Types
    <3>4. \A i \in Nat : Computed(m, o, i)' <=> Computed(m, o, i)
      BY <2>2, <3>3, <1>2, <1>6 DEF Computed, Awaited
    <3> QED BY <3>1, <3>4, <1>7, RoundsUntouched
  <2>3. CASE o # n
    <3>1. clock'[m][o] = clock[m][o] /\ roundOf'[m][o] = roundOf[m][o]
      BY <2>3, <1>5, <1>8, ComputeRoundEffect
    <3>2. log'[o] = log[o]
      BY <2>3, <1>4
    <3>3. \A i \in Nat : Computed(m, o, i)' <=> Computed(m, o, i)
      BY <3>2, <1>2 DEF Computed, Awaited, Proposal
    <3> QED BY <3>1, <3>3, <1>7, RoundsUntouched
  <2> QED BY <2>1, <2>2, <2>3
<1> QED BY <1>9

\* A confirmation is no proposal.
LEMMA RoundsOfConfirm ==
  ASSUME TypeOK, LogInv, NEW n \in Node, Confirm(n), \A m, o \in Node : RoundsOf(m, o)
  PROVE  \A m, o \in Node : RoundsOf(m, o)'
<1>0. Act(n)
  BY DEF Act, SendTLC
<1>1. PICK g \in sendTLC[n] :
        /\ g.step = "confirm" /\ g \in Goroutine
        /\ log' = [log EXCEPT ![n] = Append(@, g.id)]
  BY ConfirmEffect
<1>2. heard' = heard /\ handlers' = handlers /\ clock' = clock /\ roundOf' = roundOf
  BY DEF Confirm, clockVars
<1>3. g.id \in Nat /\ g.id # 0
  <2>1. LogInvOf(n) /\ Sent(g)
    BY <1>1, LogInvByNode DEF Sent
  <2> QED BY <2>1, Types DEF LogInvOf
<1>4. /\ Len(log'[n]) = Len(log[n]) + 1 /\ log'[n][Len(log[n]) + 1] # 0
      /\ \A i \in 1..Len(log[n]) : log'[n][i] = log[n][i]
      /\ \A m \in Node : m # n => log'[m] = log[m]
  BY <1>1, <1>3, AppendEffect
<1>5. \A i \in Nat : Proposal(n, i)' <=> Proposal(n, i)
  BY <1>4, Types, SMTT(30) DEF Proposal
<1>6. \A o \in Node : \A i \in Nat : Proposal(o, i)' <=> Proposal(o, i)
  BY <1>4, <1>5 DEF Proposal
<1>7. \A m, o \in Node : \A i \in Nat : Computed(m, o, i)' <=> Computed(m, o, i)
  BY <1>2, <1>6 DEF Computed, Awaited
<1> QED BY <1>0, <1>2, <1>7, LenIsInt, RoundsUntouched

\* A proposal that is received waits for its round.
LEMMA RoundsOfReceive ==
  ASSUME TypeOK, Heard, hw3ex3, NEW n \in Node, NEW o \in Node, Receive(n, o),
         \A m, p \in Node : RoundsOf(m, p)
  PROVE  \A m, p \in Node : RoundsOf(m, p)'
<1>0. Act(n)
  BY DEF Act, HandleTLCMessage
<1>1. /\ log' = log /\ clock' = clock /\ roundOf' = roundOf /\ n # o /\ heard[n][o] < Len(log[o])
      /\ heard' = [heard EXCEPT ![n][o] = @ + 1]
  <2>1. n # o /\ heard[n][o] < Len(log[o]) /\ heard' = [heard EXCEPT ![n][o] = @ + 1]
    BY DEF Receive
  <2>2. log' = log /\ UNCHANGED clockVars
    BY DEF Receive
  <2>3. clock' = clock /\ roundOf' = roundOf
    BY <2>2 DEF clockVars
  <2> QED BY <2>1, <2>2, <2>3
<1>2. PICK id \in Nat : id = heard[n][o] + 1
  <2>1. heard[n][o] \in Nat
    BY Types
  <2> QED BY <2>1
<1>3. heard'[n][o] = id /\ \A m, p \in Node : m # n \/ p # o => heard'[m][p] = heard[m][p]
  BY <1>1, <1>2 DEF TypeOK
<1>4. \/ log[o][id] = 0 /\ handlers' = [handlers EXCEPT ![n] = @ \cup {NewHandler(o, id)}]
      \/ log[o][id] # 0 /\ handlers' = handlers
  <2>1. log[o][id] \in Nat
    BY <1>1, <1>2, Types, SMTT(30)
  <2> QED BY <2>1, <1>2 DEF Receive, NewHandler
<1>5. PICK k : k = NewHandler(o, id)
  OBVIOUS
<1>6. k.origin = o /\ k.id = id /\ k.step = "compute"
  BY <1>5 DEF NewHandler
<1>7. ASSUME NEW m \in Node, NEW p \in Node, m # n \/ p # o, NEW i \in Nat
      PROVE  Computed(m, p, i)' <=> Computed(m, p, i)
  <2>1. Awaited(m, p, i)' <=> Awaited(m, p, i)
    <3>1. CASE handlers' = handlers
      BY <3>1 DEF Awaited
    <3>2. CASE handlers' = [handlers EXCEPT ![n] = @ \cup {k}]
      <4>1. /\ handlers'[n] = handlers[n] \cup {k}
            /\ m # n => handlers'[m] = handlers[m]
        BY <3>2 DEF TypeOK
      <4> QED BY <4>1, <1>6, <1>7 DEF Awaited
    <3> QED BY <3>1, <3>2, <1>4, <1>5
  <2> QED BY <2>1, <1>1, <1>3, <1>7 DEF Computed, Proposal
<1>8. ASSUME NEW i \in Nat
      PROVE  Computed(n, o, i)' <=> Computed(n, o, i)
  <2>1. heard[n][o] \in Nat
    BY Types
  <2>2. i <= id <=> i <= heard[n][o] \/ i = id
    BY <2>1, <1>2
  <2>3. ~(id <= heard[n][o])
    BY <2>1, <1>2
  <2>4. CASE log[o][id] = 0
    <3>1. handlers'[n] = handlers[n] \cup {k}
      BY <2>4, <1>4, <1>5 DEF TypeOK
    <3>2. Awaited(n, o, id)'
      BY <3>1, <1>6 DEF Awaited
    <3>3. i # id => (Awaited(n, o, i)' <=> Awaited(n, o, i))
      BY <3>1, <1>6 DEF Awaited
    <3> QED BY <2>2, <2>3, <3>2, <3>3, <1>1, <1>3 DEF Computed, Proposal
  <2>5. CASE log[o][id] # 0
    <3>1. handlers' = handlers
      BY <2>5, <1>4
    <3> QED BY <2>2, <2>3, <2>5, <3>1, <1>1, <1>3 DEF Computed, Proposal, Awaited
  <2> QED BY <2>4, <2>5
<1>9. ASSUME NEW m \in Node, NEW p \in Node
      PROVE  RoundsOf(m, p)'
  <2>1. \A i \in Nat : Computed(m, p, i)' <=> Computed(m, p, i)
    <3>1. CASE m = n /\ p = o
      BY <3>1, <1>8
    <3>2. CASE m # n \/ p # o
      BY <3>2, <1>7
    <3> QED BY <3>1, <3>2
  <2>2. clock'[m][p] = clock[m][p] /\ roundOf'[m][p] = roundOf[m][p]
    BY <1>1
  <2> QED BY <2>1, <2>2, <1>0, LenIsInt, RoundsUntouched
<1> QED BY <1>9

\* ... and gets it once.
LEMMA RoundsOfHandler ==
  ASSUME TypeOK, Shape, LogInv, Heard, NEW n \in Node, Compute(n),
         \A m, p \in Node : RoundsOf(m, p)
  PROVE  \A m, p \in Node : RoundsOf(m, p)'
<1>0. Act(n)
  BY DEF Act, HandleTLCMessage
<1>1. log' = log /\ heard' = heard
  BY DEF Compute, gossipVars
<1>2. PICK h \in handlers[n], k \in Handler :
        /\ h.step = "compute" /\ k.step = "wrapped" /\ k.origin = h.origin /\ k.id = h.id
        /\ ComputeRound(n, h.origin, h.id)
        /\ handlers'[n] = (handlers[n] \ {h}) \cup {k}
        /\ \A m \in Node : m # n => handlers'[m] = handlers[m]
  <2>1. ~(\E o \in Node : Receive(n, o))
    <3>1. ASSUME NEW o \in Node, Receive(n, o)
          PROVE  FALSE
      <4>1. heard' = [heard EXCEPT ![n][o] = @ + 1]
        BY <3>1 DEF Receive
      <4>2. heard'[n][o] = heard[n][o] + 1
        BY <4>1 DEF TypeOK
      <4>3. heard[n][o] \in Nat
        BY Types
      <4> QED BY <4>2, <4>3, <1>1
    <3> QED BY <3>1
  <2>2. ~UNCHANGED clockVars
    <3>1. PICK h \in handlers[n] : clock' = [clock EXCEPT ![n][h.origin] = @ + 1]
      BY DEF Compute, ComputeRound
    <3>2. PICK o \in Node : o = h.origin
      BY Types DEF Handler
    <3>3. clock'[n][o] = clock[n][o] + 1
      BY <3>1, <3>2 DEF TypeOK
    <3>4. clock[n][o] \in Nat
      BY Types
    <3> QED BY <3>3, <3>4 DEF clockVars
  <2> QED BY <2>1, <2>2, <1>0, HandlersEffect
<1>3. PICK o \in Node, id \in Nat : o = h.origin /\ id = h.id
  BY Types DEF Handler
<1>4. n # o /\ Proposal(o, id) /\ id <= heard[n][o]
  BY <1>3 DEF Heard
<1>5. \A g \in handlers[n] : g.origin = o /\ g.id = id => g = h
  BY <1>3 DEF Heard
<1>6. Awaited(n, o, id) /\ ~Awaited(n, o, id)'
  BY <1>2, <1>3, <1>5 DEF Awaited
<1>7. ASSUME NEW m \in Node, NEW p \in Node, NEW i, m # n \/ p # o \/ i # id
      PROVE  Awaited(m, p, i)' <=> Awaited(m, p, i)
  <2>1. CASE m # n
    BY <2>1, <1>2 DEF Awaited
  <2>2. CASE m = n
    BY <2>2, <1>2, <1>3, <1>7 DEF Awaited
  <2> QED BY <2>1, <2>2
<1>8. id \in 1..MaxLog(o)
  <2>1. Len(log[o]) \in Nat /\ Len(log[o]) <= MaxLog(o) /\ MaxLog(o) \in Nat
    BY ComputedFinite, Types
  <2> QED BY <2>1, <1>4 DEF Proposal
<1>9. ComputeRound(n, o, id)
  BY <1>2, <1>3
<1>10. ASSUME NEW m \in Node, NEW p \in Node
       PROVE  RoundsOf(m, p)'
  <2>1. CASE m = n /\ p = o
    <3>1. \A i \in Nat : Computed(n, o, i)' <=> Computed(n, o, i) \/ i = id
      BY <1>1, <1>4, <1>6, <1>7 DEF Computed, Proposal
    <3>2. id \notin ComputedOf(n, o)
      BY <1>4, <1>6 DEF ComputedOf, Computed
    <3> QED BY <2>1, <3>1, <3>2, <1>0, <1>8, <1>9, LenIsInt, ComputedFinite, RoundsOfCompute
  <2>2. CASE m # n \/ p # o
    <3>1. clock'[m][p] = clock[m][p] /\ roundOf'[m][p] = roundOf[m][p]
      BY <2>2, <1>8, <1>9, ComputeRoundEffect
    <3>2. \A i \in Nat : Computed(m, p, i)' <=> Computed(m, p, i)
      BY <2>2, <1>1, <1>7 DEF Computed, Proposal
    <3> QED BY <3>1, <3>2, <1>0, LenIsInt, RoundsUntouched
  <2> QED BY <2>1, <2>2
<1> QED BY <1>10

\* Nobody else touches a round.
LEMMA ClockInvStep ==
  ASSUME TypeOK, Shape, LogInv, Heard, ClockInv, NEW n \in Node, Act(n)
  PROVE  ClockInv'
<1>0. flags' = flags
  BY FlagsStay
<1> SUFFICES ASSUME hw3ex3 PROVE \A m, o \in Node : RoundsOf(m, o)'
  BY <1>0 DEF ClockInv, hw3ex3
<1>1. \A m, o \in Node : RoundsOf(m, o)
  BY DEF ClockInv
<1>2. CASE Propose(n) \/ Confirm(n) \/ Compute(n) \/ \E o \in Node : Receive(n, o)
  BY <1>1, <1>2, RoundsOfPropose, RoundsOfConfirm, RoundsOfHandler, RoundsOfReceive
<1>3. CASE ~(Propose(n) \/ Confirm(n) \/ Compute(n) \/ \E o \in Node : Receive(n, o))
  <2>1. log' = log /\ heard' = heard /\ clock' = clock /\ roundOf' = roundOf
    BY <1>3 DEF Act, TakeTx, SendTLC, Register, GiveUp, Deliver, HandleTLCMessage, RoundAck,
       HandleTLCAck, HandleConfirmedMessage, CountConfirmed, Advance, EnterRound, gossipVars, clockVars
  <2>2. ASSUME NEW m \in Node, NEW o \in Node, NEW i \in Nat
        PROVE  Awaited(m, o, i)' <=> Awaited(m, o, i)
    <3>1. CASE handlers'[m] = handlers[m]
      BY <3>1 DEF Awaited
    <3>2. CASE handlers'[m] # handlers[m]
      <4>1. m = n /\ \E h \in handlers[n] : h.step = "wrapped" /\ handlers'[n] = handlers[n] \ {h}
        <5>1. ~(\E p \in Node : Receive(n, p))
          BY <1>3
        <5>2. ASSUME NEW h \in handlers[n], h.step = "compute", ComputeRound(n, h.origin, h.id)
              PROVE  FALSE
          <6>1. PICK p \in Node : p = h.origin
            BY Types DEF Handler
          <6>2. clock' = [clock EXCEPT ![n][p] = @ + 1]
            BY <5>2, <6>1 DEF ComputeRound
          <6>3. clock'[n][p] = clock[n][p] + 1
            BY <6>2 DEF TypeOK
          <6>4. clock[n][p] \in Nat
            BY Types
          <6> QED BY <6>3, <6>4, <2>1
        <5> QED BY <3>2, <5>1, <5>2, HandlersEffect
      <4> QED BY <4>1 DEF Awaited
    <3> QED BY <3>1, <3>2
  <2>3. \A m, o \in Node : \A i \in Nat : Computed(m, o, i)' <=> Computed(m, o, i)
    BY <2>1, <2>2 DEF Computed, Proposal
  <2> QED BY <2>1, <2>3, <1>1, LenIsInt, RoundsUntouched
<1> QED BY <1>2, <1>3
-----------------------------------------------------------------------------
(* Confirmations, from the log to the tally of a round *)

\* Only a proposal is confirmed.
LEMMA KnownIsProposal ==
  ASSUME TypeOK, LogInv, NEW n \in Node, NEW o \in Node, NEW id, Known(n, o, id)
  PROVE  id \in Nat /\ Proposal(o, id)
<1>1. /\ log[o] \in Seq(Nat) /\ Len(log[o]) \in Nat
      /\ \A i \in 1..Len(log[o]) : log[o][i] \in Nat
  <2>1. log[o] \in Seq(Nat) /\ Len(log[o]) \in Nat
    BY Types
  <2> QED BY <2>1
<1>2. PICK i \in 1..Len(log[o]) : log[o][i] = id /\ id > 0
  BY DEF Known
<1>3. id \in Nat
  BY <1>1, <1>2
<1>4. log[o][i] < i /\ log[o][log[o][i]] = 0
  BY <1>2, LogInvByNode DEF LogInvOf
<1> QED BY <1>1, <1>2, <1>3, <1>4 DEF Proposal

\* A confirmation that has come in has come in for good.
LEMMA KnownStays ==
  ASSUME TypeOK, NEW n \in Node, Act(n), NEW m \in Node, NEW o \in Node, NEW id, Known(m, o, id)
  PROVE  Known(m, o, id)'
<1>1. PICK i \in 1..Len(log[o]) : log[o][i] = id /\ id > 0 /\ (m = o \/ i <= heard[m][o])
  BY DEF Known
<1>2. /\ Len(log[o]) \in Nat /\ Len(log[o]) <= Len(log'[o]) /\ Len(log'[o]) \in Int
      /\ log'[o][i] = log[o][i]
  <2>1. Len(log[o]) \in Nat
    BY Types
  <2> QED BY <2>1, LogGrows, LenIsInt
<1>3. heard[m][o] \in Nat /\ heard'[m][o] \in Nat /\ heard[m][o] <= heard'[m][o]
  BY HeardOnlyGrows
<1>4. i \in 1..Len(log'[o]) /\ log'[o][i] = id
  BY <1>1, <1>2
<1>5. m = o \/ i <= heard'[m][o]
  BY <1>1, <1>3, <1>2
<1> QED BY <1>1, <1>4, <1>5 DEF Known

\* Rounds are written by Propose and by Compute.
LEMMA RoundOfEffect ==
  ASSUME NEW n \in Node, Act(n), ~Propose(n), ~Compute(n)
  PROVE  roundOf' = roundOf
BY DEF Act, TakeTx, SendTLC, Register, GiveUp, Confirm, Deliver, HandleTLCMessage, Receive,
   RoundAck, HandleTLCAck, HandleConfirmedMessage, CountConfirmed, Advance, EnterRound, clockVars

\* A proposal keeps the round that it has got.
LEMMA ComputedStays ==
  ASSUME TypeOK, Shape, LogInv, Heard, NEW n \in Node, Act(n),
         NEW m \in Node, NEW o \in Node, NEW id, Computed(m, o, id)
  PROVE  Computed(m, o, id)' /\ roundOf'[m][o][id] = roundOf[m][o][id]
<1>1. Proposal(o, id) /\ Proposal(o, id)'
  BY ProposalStays DEF Computed
<1>2. /\ Len(log[o]) \in Nat /\ Len(log[o]) <= MaxLog(o) /\ MaxLog(o) \in Nat
      /\ id \in 1..MaxLog(o) /\ id \in Nat /\ id <= Len(log[o])
  <2>1. Len(log[o]) \in Nat /\ Len(log[o]) <= MaxLog(o) /\ MaxLog(o) \in Nat
    BY Types, ComputedFinite
  <2>2. id \in 1..Len(log[o])
    BY <1>1 DEF Proposal
  <2> QED BY <2>1, <2>2
<1>3. /\ heard[m][o] \in Nat /\ heard'[m][o] \in Nat /\ heard[m][o] <= heard'[m][o]
      /\ heard[n][o] \in Nat
  BY HeardOnlyGrows
<1>4. ASSUME m # o
      PROVE  id <= heard[m][o] /\ ~Awaited(m, o, id)'
  <2>1. id <= heard[m][o] /\ ~Awaited(m, o, id)
    BY <1>4 DEF Computed
  <2> SUFFICES ASSUME NEW k \in handlers'[m], k.step = "compute", k.origin = o, k.id = id
               PROVE  FALSE
    BY <2>1 DEF Awaited
  <2>2. k \notin handlers[m]
    BY <2>1 DEF Awaited
  <2>3. CASE m # n
    BY <2>2, <2>3, HandlersEffect
  <2>4. CASE m = n
    <3>1. PICK p \in Node : Receive(n, p) /\ k = NewHandler(p, heard[n][p] + 1)
      BY <2>2, <2>4, HandlersEffect
    <3>2. p = o /\ id = heard[n][p] + 1
      BY <3>1 DEF NewHandler
    <3> QED BY <3>2, <2>1, <2>4, <1>3
  <2> QED BY <2>3, <2>4
<1>5. Computed(m, o, id)'
  <2>1. CASE m = o
    BY <2>1, <1>1 DEF Computed
  <2>2. CASE m # o
    BY <2>2, <1>1, <1>2, <1>3, <1>4 DEF Computed
  <2> QED BY <2>1, <2>2
<1>6. roundOf'[m][o][id] = roundOf[m][o][id]
  <2>1. CASE Propose(n)
    <3>1. PICK i \in Nat : i = Len(log[n]) + 1
      <4>1. Len(log[n]) \in Nat
        BY Types
      <4> QED BY <4>1
    <3>2. PICK g \in sendTLC[n] : g.step = "start" /\ ComputeRound(n, n, Len(log[n]) + 1)
      BY <2>1, ProposeEffect
    <3>3. ~Sent(g)
      BY <3>2 DEF Sent
    <3>4. i \in 1..MaxLog(n)
      <4>1. Len(log[n]) + 1 <= MaxLog(n) /\ Len(log[n]) \in Nat /\ MaxLog(n) \in Nat
        BY <3>3, LogBounded, Types
      <4> QED BY <4>1, <3>1
    <3>5. ComputeRound(n, n, i)
      BY <3>1, <3>2
    <3>6. m = n /\ o = n => id # i
      BY <1>2, <3>1
    <3> QED BY <3>4, <3>5, <3>6, <1>2, ComputeRoundEffect
  <2>2. CASE Compute(n)
    <3>1. PICK h \in handlers[n] : h.step = "compute" /\ ComputeRound(n, h.origin, h.id)
      BY <2>2 DEF Compute
    <3>2. PICK p \in Node, i \in Nat : p = h.origin /\ i = h.id
      BY Types DEF Handler
    <3>3. n # p /\ Proposal(p, i)
      BY <3>2 DEF Heard
    <3>4. i \in 1..MaxLog(p)
      <4>1. Len(log[p]) \in Nat /\ Len(log[p]) <= MaxLog(p) /\ MaxLog(p) \in Nat
        BY Types, ComputedFinite
      <4> QED BY <3>3, <4>1 DEF Proposal
    <3>5. ComputeRound(n, p, i)
      BY <3>1, <3>2
    <3>6. m = n /\ o = p => id # i
      BY <3>1, <3>2, <3>3 DEF Computed, Awaited
    <3> QED BY <3>4, <3>5, <3>6, <1>2, ComputeRoundEffect
  <2>3. CASE ~Propose(n) /\ ~Compute(n)
    BY <2>3, RoundOfEffect
  <2> QED BY <2>1, <2>2, <2>3
<1> QED BY <1>5, <1>6

\* A confirmation that comes in is of a proposal that has not been counted.
LEMMA NewConfirmation ==
  ASSUME TypeOK, LogInv, Heard, NEW n \in Node, Act(n),
         NEW c \in confirmed'[n], c \notin confirmed[n]
  PROVE  /\ Known(n, c[1], c[2])' /\ ~Known(n, c[1], c[2])
         /\ confirmed[n] \subseteq confirmed'[n]
<1>1. CASE Confirm(n)
  <2>1. PICK g \in sendTLC[n] : /\ g.step = "confirm" /\ c = <<n, g.id>>
                                /\ log' = [log EXCEPT ![n] = Append(@, g.id)]
    <3>1. \A o \in Node : ~(Receive(n, o) /\ log[o][heard[n][o] + 1] > 0 /\ c = <<o, log[o][heard[n][o] + 1]>>)
      <4>1. ASSUME NEW o \in Node, Receive(n, o)
            PROVE  FALSE
        <5>1. log' = log /\ Len(log[n]) \in Nat
          BY <4>1, Types DEF Receive
        <5>2. PICK g \in sendTLC[n] : g.id \in Nat /\ log' = [log EXCEPT ![n] = Append(@, g.id)]
          BY <1>1, ConfirmEffect DEF Goroutine
        <5>3. Len(log'[n]) = Len(log[n]) + 1
          BY <5>2, AppendEffect
        <5> QED BY <5>1, <5>3
      <4> QED BY <4>1
    <3> QED BY <3>1, ConfirmedEffect
  <2>2. g.id \in Nat /\ g.id > 0
    <3>1. LogInvOf(n) /\ Sent(g)
      BY <2>1, LogInvByNode DEF Sent
    <3>2. Len(log[n]) \in Nat
      BY Types
    <3> QED BY <3>1, <3>2 DEF LogInvOf
  <2>3. PICK id \in Nat : id = g.id
    BY <2>2
  <2>4. Len(log'[n]) = Len(log[n]) + 1 /\ log'[n][Len(log[n]) + 1] = id /\ Len(log[n]) \in Nat
    BY <2>1, <2>2, <2>3, AppendEffect, Types
  <2>5. Known(n, n, id)'
    BY <2>2, <2>3, <2>4 DEF Known
  <2>6. ~Known(n, n, id)
    <3>1. SUFFICES ASSUME NEW i \in 1..Len(log[n]), log[n][i] = id
                   PROVE  FALSE
      BY DEF Known
    <3>2. PICK k \in sendTLC[n] : k.step = "over" /\ k.id = id
      BY <3>1, <2>2, <2>3, LogInvByNode DEF LogInvOf
    <3>3. k = g
      BY <3>2, <2>1, <2>3, LogInvByNode DEF LogInvOf, Sent
    <3> QED BY <3>2, <3>3, <2>1
  <2>7. confirmed[n] \subseteq confirmed'[n]
    BY <1>1 DEF Confirm, TypeOK
  <2> QED BY <2>1, <2>3, <2>5, <2>6, <2>7
<1>2. CASE ~Confirm(n)
  <2>1. PICK o \in Node : /\ Receive(n, o) /\ c = <<o, log[o][heard[n][o] + 1]>>
                          /\ log[o][heard[n][o] + 1] > 0
    BY <1>2, ConfirmedEffect
  <2>2. n # o /\ heard[n][o] < Len(log[o]) /\ log' = log /\ heard' = [heard EXCEPT ![n][o] = @ + 1]
    <3>1. n # o /\ heard[n][o] < Len(log[o]) /\ heard' = [heard EXCEPT ![n][o] = @ + 1]
      BY <2>1 DEF Receive
    <3>2. log' = log
      BY <2>1 DEF Receive
    <3> QED BY <3>1, <3>2
  <2>3. heard[n][o] \in Nat /\ Len(log[o]) \in Nat
    BY Types
  <2>4. PICK i \in Nat : i = heard[n][o] + 1
    BY <2>3
  <2>5. i \in 1..Len(log[o]) /\ heard'[n][o] = i
    <3>1. heard'[n][o] = heard[n][o] + 1
      BY <2>2 DEF TypeOK
    <3> QED BY <3>1, <2>2, <2>3, <2>4
  <2>6. PICK id : id = log[o][i]
    OBVIOUS
  <2>7. id > 0 /\ c[1] = o /\ c[2] = id
    BY <2>1, <2>4, <2>6
  <2>8. Known(n, o, id)'
    BY <2>2, <2>5, <2>6, <2>7 DEF Known
  <2>9. ~Known(n, o, id)
    <3>1. SUFFICES ASSUME NEW j \in 1..Len(log[o]), log[o][j] = id, j <= heard[n][o]
                   PROVE  FALSE
      BY <2>2 DEF Known
    <3>2. i = j
      BY <3>1, <2>5, <2>6, <2>7, LogInvByNode DEF LogInvOf
    <3> QED BY <3>1, <3>2, <2>3, <2>4
  <2>10. confirmed[n] \subseteq confirmed'[n]
    <3>1. \/ confirmed' = confirmed
          \/ \E T : confirmed' = [confirmed EXCEPT ![n] = @ \cup T]
      BY <2>1 DEF Receive
    <3>2. ASSUME NEW T, confirmed' = [confirmed EXCEPT ![n] = @ \cup T]
          PROVE  confirmed[n] \subseteq confirmed'[n]
      <4>1. confirmed \in [Node -> SUBSET (Node \X Nat)]
        BY DEF TypeOK
      <4>2. confirmed'[n] = confirmed[n] \cup T
        BY <3>2, <4>1
      <4> QED BY <4>2
    <3> QED BY <3>1, <3>2
  <2> QED BY <2>7, <2>8, <2>9, <2>10
<1> QED BY <1>1, <1>2

NewTally(n, o, id) == [round |-> roundOf[n][o][id], origin |-> o, id |-> id]

\* What is counted, and when a round has enough.
LEMMA CountEffect ==
  ASSUME TypeOK, NEW n \in Node, CountConfirmed(n)
  PROVE  \E o \in Node, id \in Nat :
           /\ <<o, id>> \in confirmed[n]
           /\ confirmed'[n] = confirmed[n] \ {<<o, id>>}
           /\ \/ counted' = counted /\ confirmPc' = confirmPc /\ pending' = pending
              \/ /\ roundOf[n][o][id] \notin finished[n]
                 /\ counted' = [counted EXCEPT ![n] = @ \cup {NewTally(n, o, id)}]
                 /\ \/ confirmPc' = confirmPc /\ pending' = pending
                    \/ /\ Enough(Cardinality(Counted(n, roundOf[n][o][id])) + 1)
                       /\ confirmPc' = [confirmPc EXCEPT ![n] = "advance"]
                       /\ pending' = [pending EXCEPT ![n] = roundOf[n][o][id]]
<1>1. PICK c \in confirmed[n] :
        /\ confirmed' = [confirmed EXCEPT ![n] = @ \ {c}]
        /\ IF roundOf[n][c[1]][c[2]] \in finished[n]
          THEN UNCHANGED <<counted, confirmPc, pending>>
          ELSE /\ counted' = [counted EXCEPT ![n] = @ \cup
                    {[round |-> roundOf[n][c[1]][c[2]], origin |-> c[1], id |-> c[2]]}]
               /\ IF Enough(Cardinality(Counted(n, roundOf[n][c[1]][c[2]])) + 1)
                  THEN /\ confirmPc' = [confirmPc EXCEPT ![n] = "advance"]
                       /\ pending' = [pending EXCEPT ![n] = roundOf[n][c[1]][c[2]]]
                  ELSE UNCHANGED <<confirmPc, pending>>
  BY DEF CountConfirmed
<1>2. PICK o \in Node, id \in Nat : c = <<o, id>>
  BY Types
<1>3. c[1] = o /\ c[2] = id
  BY <1>2
<1>4. confirmed'[n] = confirmed[n] \ {<<o, id>>}
  BY <1>1, <1>2 DEF TypeOK
<1>5. \/ counted' = counted /\ confirmPc' = confirmPc /\ pending' = pending
      \/ /\ roundOf[n][o][id] \notin finished[n]
         /\ counted' = [counted EXCEPT ![n] = @ \cup {NewTally(n, o, id)}]
         /\ \/ confirmPc' = confirmPc /\ pending' = pending
            \/ /\ Enough(Cardinality(Counted(n, roundOf[n][o][id])) + 1)
               /\ confirmPc' = [confirmPc EXCEPT ![n] = "advance"]
               /\ pending' = [pending EXCEPT ![n] = roundOf[n][o][id]]
  BY <1>1, <1>3 DEF NewTally
<1> QED BY <1>1, <1>2, <1>4, <1>5

\* Nothing else is counted.
LEMMA CountedEffect ==
  ASSUME NEW n \in Node, Act(n), ~CountConfirmed(n)
  PROVE  counted' = counted
BY DEF Act, TakeTx, SendTLC, Propose, Register, GiveUp, Confirm, Deliver, HandleTLCMessage, Receive,
   Compute, RoundAck, HandleTLCAck, HandleConfirmedMessage, Advance, EnterRound, confirmVars

\* Tallies speak of one gossiper at a time.
TallyOf(n) ==
  /\ IsFiniteSet(counted[n])
  /\ \A c \in confirmed[n] : Known(n, c[1], c[2])
  /\ \A c \in counted[n] :
       /\ Known(n, c.origin, c.id)
       /\ <<c.origin, c.id>> \notin confirmed[n]
       /\ c.round # 0 => /\ Computed(n, c.origin, c.id)
                         /\ roundOf[n][c.origin][c.id] = c.round
  /\ \A c, d \in counted[n] : c.origin = d.origin /\ c.id = d.id => c = d

\* Confirmations come in while nothing is counted.
LEMMA TallyReceives ==
  ASSUME TypeOK, Shape, LogInv, Heard, NEW n \in Node, Act(n),
         NEW m \in Node, TallyOf(m), counted'[m] = counted[m]
  PROVE  TallyOf(m)'
<1>0. /\ \A c \in counted[m] : c.origin \in Node
      /\ \A c \in confirmed[m] : c[1] \in Node
  <2>1. counted[m] \subseteq [round : Nat, origin : Node, id : Nat] /\ confirmed[m] \subseteq Node \X Nat
    BY Types
  <2> QED BY <2>1
<1>1. ASSUME NEW c \in confirmed'[m]
      PROVE  \/ c \in confirmed[m]
             \/ Known(m, c[1], c[2])' /\ ~Known(m, c[1], c[2])
  <2>1. CASE m = n
    BY <2>1, NewConfirmation
  <2>2. CASE m # n
    BY <2>2, ConfirmedEffect
  <2> QED BY <2>1, <2>2
<1>2. ASSUME NEW c \in confirmed'[m]
      PROVE  Known(m, c[1], c[2])'
  <2>1. CASE c \in confirmed[m]
    <3>1. Known(m, c[1], c[2]) /\ c[1] \in Node
      BY <2>1, <1>0 DEF TallyOf
    <3> QED BY <3>1, KnownStays
  <2>2. CASE c \notin confirmed[m]
    BY <2>2, <1>1
  <2> QED BY <2>1, <2>2
<1>3. ASSUME NEW c \in counted[m]
      PROVE  /\ Known(m, c.origin, c.id)'
             /\ <<c.origin, c.id>> \notin confirmed'[m]
             /\ c.round # 0 => /\ Computed(m, c.origin, c.id)'
                               /\ roundOf'[m][c.origin][c.id] = c.round
  <2>1. /\ Known(m, c.origin, c.id) /\ c.origin \in Node
        /\ <<c.origin, c.id>> \notin confirmed[m]
        /\ c.round # 0 => /\ Computed(m, c.origin, c.id)
                          /\ roundOf[m][c.origin][c.id] = c.round
    BY <1>0 DEF TallyOf
  <2>2. Known(m, c.origin, c.id)'
    BY <2>1, KnownStays
  <2>3. <<c.origin, c.id>> \notin confirmed'[m]
    BY <2>1, <1>1
  <2>4. c.round # 0 => /\ Computed(m, c.origin, c.id)'
                       /\ roundOf'[m][c.origin][c.id] = c.round
    BY <2>1, ComputedStays
  <2> QED BY <2>2, <2>3, <2>4
<1>4. /\ IsFiniteSet(counted'[m])
      /\ \A c, d \in counted'[m] : c.origin = d.origin /\ c.id = d.id => c = d
  BY DEF TallyOf
<1> QED BY <1>2, <1>3, <1>4 DEF TallyOf

\* A confirmation is counted once, and for the round of its proposal.
LEMMA TallyCounts ==
  ASSUME TypeOK, Shape, LogInv, Heard, NoRounds, ClockInv, NEW n \in Node, CountConfirmed(n), TallyOf(n)
  PROVE  TallyOf(n)'
<1>0. Act(n)
  BY DEF Act, HandleConfirmedMessage
<1>1. PICK o \in Node, id \in Nat :
           /\ <<o, id>> \in confirmed[n]
           /\ confirmed'[n] = confirmed[n] \ {<<o, id>>}
           /\ \/ counted' = counted
              \/ counted' = [counted EXCEPT ![n] = @ \cup {NewTally(n, o, id)}]
  BY CountEffect
<1>2. log' = log /\ heard' = heard /\ roundOf' = roundOf /\ handlers' = handlers
  BY DEF CountConfirmed, gossipVars, clockVars
<1>3. PICK t : t = NewTally(n, o, id)
  OBVIOUS
<1>4. t.round = roundOf[n][o][id] /\ t.origin = o /\ t.id = id
  BY <1>3 DEF NewTally
<1>5. counted'[n] \subseteq counted[n] \cup {t}
  BY <1>1, <1>3 DEF TypeOK
<1>6. /\ \A p \in Node : \A i : Known(n, p, i)' <=> Known(n, p, i)
      /\ \A p \in Node : \A i : Computed(n, p, i)' <=> Computed(n, p, i)
  BY <1>2 DEF Known, Computed, Awaited, Proposal
<1>7. Known(n, o, id)
  <2>1. PICK c : c = <<o, id>>
    OBVIOUS
  <2>2. c \in confirmed[n] /\ c[1] = o /\ c[2] = id
    BY <2>1, <1>1
  <2> QED BY <2>2 DEF TallyOf
<1>8. hw3ex3
  BY <1>1 DEF NoRounds
<1>9. t.round # 0 => Computed(n, o, id)
  <2>1. RoundsOf(n, o)
    BY <1>8 DEF ClockInv
  <2>2. id \in 1..Len(log[o])
    BY <1>7, KnownIsProposal DEF Proposal
  <2>3. Len(log[o]) \in Nat /\ Len(log[o]) <= MaxLog(o) /\ MaxLog(o) \in Nat
    BY Types, ComputedFinite
  <2>4. id \in 1..MaxLog(o)
    BY <2>2, <2>3
  <2> QED BY <2>1, <2>4, <1>4 DEF RoundsOf
<1>10. \A c \in counted[n] :
         /\ c.origin \in Node /\ Known(n, c.origin, c.id)
         /\ <<c.origin, c.id>> \notin confirmed[n]
         /\ c.round # 0 => /\ Computed(n, c.origin, c.id)
                           /\ roundOf[n][c.origin][c.id] = c.round
  <2>1. counted[n] \subseteq [round : Nat, origin : Node, id : Nat]
    BY Types
  <2> QED BY <2>1 DEF TallyOf
<1>11. ASSUME NEW c \in counted[n]
       PROVE  ~(c.origin = o /\ c.id = id)
  BY <1>1, <1>10
<1>12. IsFiniteSet(counted'[n])
  <2>1. IsFiniteSet(counted[n] \cup {t})
    BY FS_AddElement DEF TallyOf
  <2> QED BY <2>1, <1>5, FS_Subset
<1>13. \A c \in confirmed'[n] : Known(n, c[1], c[2])'
  <2>1. confirmed[n] \subseteq Node \X Nat
    BY Types
  <2>2. \A c \in confirmed'[n] : c[1] \in Node /\ Known(n, c[1], c[2])
    BY <2>1, <1>1 DEF TallyOf
  <2> QED BY <2>2, <1>6
<1>14. ASSUME NEW c \in counted'[n]
       PROVE  /\ Known(n, c.origin, c.id)'
              /\ <<c.origin, c.id>> \notin confirmed'[n]
              /\ c.round # 0 => /\ Computed(n, c.origin, c.id)'
                                /\ roundOf'[n][c.origin][c.id] = c.round
  <2>1. CASE c = t
    BY <2>1, <1>1, <1>2, <1>4, <1>6, <1>7, <1>9
  <2>2. CASE c # t
    <3>1. c \in counted[n]
      BY <2>2, <1>5
    <3>2. <<c.origin, c.id>> \notin confirmed'[n]
      BY <3>1, <1>1, <1>10
    <3> QED BY <3>1, <3>2, <1>2, <1>6, <1>10
  <2> QED BY <2>1, <2>2
<1>15. \A c, d \in counted'[n] : c.origin = d.origin /\ c.id = d.id => c = d
  BY <1>4, <1>5, <1>11 DEF TallyOf
<1> QED BY <1>12, <1>13, <1>14, <1>15 DEF TallyOf

\* The tallies of all gossipers.
LEMMA TalliesStep ==
  ASSUME TypeOK, Shape, LogInv, Heard, NoRounds, ClockInv, Tallies, NEW n \in Node, Act(n)
  PROVE  Tallies'
<1>1. \A m \in Node : TallyOf(m)
  BY DEF Tallies, TallyOf
<1>2. ASSUME NEW m \in Node
      PROVE  TallyOf(m)'
  <2>1. CASE m = n /\ CountConfirmed(n)
    BY <2>1, <1>1, TallyCounts
  <2>2. CASE ~CountConfirmed(n)
    BY <2>2, <1>1, TallyReceives, CountedEffect
  <2>3. CASE m # n /\ CountConfirmed(n)
    <3>1. counted'[m] = counted[m]
      <4>1. \/ counted' = counted
            \/ \E t : counted' = [counted EXCEPT ![n] = @ \cup {t}]
        BY <2>3, CountEffect
      <4> QED BY <4>1, <2>3 DEF TypeOK
    <3> QED BY <3>1, <1>1, TallyReceives
  <2> QED BY <2>1, <2>2, <2>3
<1>3. \A m \in Node : TallyOf(m)'
  BY <1>2
<1> QED BY <1>3 DEF Tallies, TallyOf
-----------------------------------------------------------------------------
(* A round that is over has its threshold *)

\* Of finitely many tallies, those of a round are of finitely many proposals.
LEMMA TalliedFinite ==
  ASSUME NEW C, IsFiniteSet(C), NEW r
  PROVE  IsFiniteSet({<<c.origin, c.id>> : c \in {c \in C : c.round = r}})
<1> DEFINE S == {c \in C : c.round = r}
           T == {<<c.origin, c.id>> : c \in S}
           f == [c \in S |-> <<c.origin, c.id>>]
<1>1. IsFiniteSet(S)
  BY FS_Subset
<1>2. f \in Surjection(S, T)
  BY DEF Surjection
<1>3. IsFiniteSet(T)
  BY <1>1, <1>2, FS_Surjection
<1> QED BY <1>3

\* The proposals counted for a round are finitely many.
LEMMA CountedFinite ==
  ASSUME TypeOK, Tallies, NEW n \in Node, NEW r
  PROVE  IsFiniteSet(Counted(n, r)) /\ Cardinality(Counted(n, r)) \in Nat
<1>1. IsFiniteSet(counted[n])
  BY DEF Tallies
<1>2. IsFiniteSet(Counted(n, r))
  BY <1>1, TalliedFinite DEF Counted
<1> QED BY <1>2, FS_CardinalityType

\* What has been counted stays counted.
LEMMA CountedGrows ==
  ASSUME TypeOK, Tallies, Tallies', NEW n \in Node, Act(n), NEW m \in Node, NEW r
  PROVE  /\ Counted(m, r) \subseteq Counted(m, r)'
         /\ Cardinality(Counted(m, r)) \in Nat /\ Cardinality(Counted(m, r)') \in Nat
         /\ Cardinality(Counted(m, r)) <= Cardinality(Counted(m, r)')
<1>1. counted[m] \subseteq counted'[m]
  <2>1. CASE ~CountConfirmed(n)
    BY <2>1, CountedEffect
  <2>2. CASE CountConfirmed(n)
    <3>1. \/ counted' = counted
          \/ \E t : counted' = [counted EXCEPT ![n] = @ \cup {t}]
      BY <2>2, CountEffect
    <3>2. ASSUME NEW t, counted' = [counted EXCEPT ![n] = @ \cup {t}]
          PROVE  counted[m] \subseteq counted'[m]
      <4>1. /\ counted'[n] = counted[n] \cup {t}
            /\ \A l \in Node : l # n => counted'[l] = counted[l]
        BY <3>2 DEF TypeOK
      <4> QED BY <4>1
    <3> QED BY <3>1, <3>2
  <2> QED BY <2>1, <2>2
<1>2. Counted(m, r) \subseteq Counted(m, r)'
  BY <1>1 DEF Counted
<1>3. IsFiniteSet(Counted(m, r)')
  <2>1. IsFiniteSet(counted'[m])
    BY DEF Tallies
  <2> QED BY <2>1, TalliedFinite DEF Counted
<1> QED BY <1>2, <1>3, FS_Subset, FS_CardinalityType

\* The confirmation that ends a round is one more.
LEMMA CountConfirmedCounts ==
  ASSUME TypeOK, Tallies, NEW n \in Node, NEW o \in Node, NEW id \in Nat, NEW r,
         <<o, id>> \in confirmed[n], r = roundOf[n][o][id],
         counted' = [counted EXCEPT ![n] = @ \cup {NewTally(n, o, id)}],
         Enough(Cardinality(Counted(n, r)) + 1)
  PROVE  Cardinality(Counted(n, r)') >= Threshold
<1>2. PICK t : t = NewTally(n, o, id)
  OBVIOUS
<1>3. t.round = r /\ t.origin = o /\ t.id = id
  BY <1>2 DEF NewTally
<1>4. counted'[n] = counted[n] \cup {t}
  BY <1>2 DEF TypeOK
<1>5. <<o, id>> \notin Counted(n, r)
  BY DEF Counted, Tallies
<1>6. Counted(n, r)' = Counted(n, r) \cup {<<o, id>>}
  BY <1>3, <1>4 DEF Counted
<1>7. Cardinality(Counted(n, r) \cup {<<o, id>>}) = Cardinality(Counted(n, r)) + 1
  BY <1>5, CountedFinite, FS_AddElement
<1> QED BY <1>6, <1>7 DEF Enough

\* Rounds end with a threshold, or go on.
LEMMA RoundsHaveThresholdStep ==
  ASSUME TypeOK, Tallies, Tallies', RoundsHaveThreshold, NEW n \in Node, Act(n)
  PROVE  RoundsHaveThreshold'
<1>0. flags' = flags /\ Threshold' = Threshold /\ Threshold \in Nat
  <2>1. flags' = flags
    BY FlagsStay
  <2> QED BY <2>1, ThresholdBounds DEF Threshold, N
<1>1. ASSUME NEW m \in Node, NEW r, Cardinality(Counted(m, r)) >= Threshold
      PROVE  Cardinality(Counted(m, r)') >= Threshold
  BY <1>0, <1>1, CountedGrows
<1>2. ASSUME NEW m \in Node, NEW r \in finished'[m]
      PROVE  Cardinality(Counted(m, r)') >= Threshold
  <2>1. CASE r \in finished[m]
    BY <2>1, <1>1 DEF RoundsHaveThreshold
  <2>2. CASE r \notin finished[m]
    <3>1. confirmPc[n] = "advance" /\ finished' = [finished EXCEPT ![n] = @ \cup {pending[n]}]
      BY <2>2, <1>2 DEF Act, TakeTx, SendTLC, Propose, Register, GiveUp, Confirm, Deliver,
         HandleTLCMessage, Receive, Compute, RoundAck, HandleTLCAck, HandleConfirmedMessage,
         CountConfirmed, Advance, EnterRound, confirmVars
    <3>2. m = n /\ r = pending[n]
      <4>1. finished \in [Node -> SUBSET Nat]
        BY DEF TypeOK
      <4>2. PICK p : p = pending[n]
        OBVIOUS
      <4>3. finished'[n] = finished[n] \cup {p} /\ \A l \in Node : l # n => finished'[l] = finished[l]
        BY <3>1, <4>1, <4>2
      <4> QED BY <4>2, <4>3, <2>2, <1>2
    <3> QED BY <3>1, <3>2, <1>1 DEF RoundsHaveThreshold
  <2> QED BY <2>1, <2>2
<1>3. ASSUME NEW m \in Node, NEW p, p = pending'[m], confirmPc'[m] = "advance"
      PROVE  Cardinality(Counted(m, p)') >= Threshold
  <2>1. CASE confirmPc[m] = "advance" /\ pending'[m] = pending[m]
    BY <2>1, <1>1, <1>3 DEF RoundsHaveThreshold
  <2>2. CASE ~(confirmPc[m] = "advance" /\ pending'[m] = pending[m])
    <3>1. CountConfirmed(n)
      <4>1. CASE Advance(n) \/ EnterRound(n)
        <5>1. \E st, v : /\ confirmPc' = [confirmPc EXCEPT ![n] = st] /\ st # "advance"
                         /\ pending' = pending \/ pending' = [pending EXCEPT ![n] = v]
          BY <4>1 DEF Advance, EnterRound
        <5> QED BY <5>1, <2>2, <1>3 DEF TypeOK
      <4>2. CASE ~CountConfirmed(n) /\ ~Advance(n) /\ ~EnterRound(n)
        <5>1. confirmPc' = confirmPc /\ pending' = pending
          BY <4>2 DEF Act, TakeTx, SendTLC, Propose, Register, GiveUp, Confirm, Deliver,
             HandleTLCMessage, Receive, Compute, RoundAck, HandleTLCAck, HandleConfirmedMessage,
             confirmVars
        <5> QED BY <5>1, <2>2, <1>3
      <4> QED BY <4>1, <4>2
    <3>2. PICK o \in Node, id \in Nat :
           /\ <<o, id>> \in confirmed[n]
           /\ \/ confirmPc' = confirmPc /\ pending' = pending
              \/ /\ counted' = [counted EXCEPT ![n] = @ \cup {NewTally(n, o, id)}]
                 /\ Enough(Cardinality(Counted(n, roundOf[n][o][id])) + 1)
                 /\ confirmPc' = [confirmPc EXCEPT ![n] = "advance"]
                 /\ pending' = [pending EXCEPT ![n] = roundOf[n][o][id]]
      BY <3>1, CountEffect
    <3>3. PICK r : r = roundOf[n][o][id]
      OBVIOUS
    <3>4. confirmPc' = [confirmPc EXCEPT ![n] = "advance"] /\ pending' = [pending EXCEPT ![n] = r]
      BY <3>2, <3>3, <2>2, <1>3
    <3>5. m = n /\ pending'[m] = r
      BY <3>4, <2>2, <1>3 DEF TypeOK
    <3>6. /\ <<o, id>> \in confirmed[n] /\ Enough(Cardinality(Counted(n, r)) + 1)
          /\ counted' = [counted EXCEPT ![n] = @ \cup {NewTally(n, o, id)}]
      BY <3>2, <3>3, <2>2, <1>3
    <3>7. Cardinality(Counted(n, r)') >= Threshold
      BY <3>3, <3>6, CountConfirmedCounts
    <3> QED BY <3>5, <3>7, <1>3
  <2> QED BY <2>1, <2>2
<1>4. \A m \in Node : confirmPc'[m] = "advance" => Cardinality(Counted(m, pending[m])') >= Threshold
  <2>1. ASSUME NEW m \in Node, confirmPc'[m] = "advance"
        PROVE  Cardinality(Counted(m, pending[m])') >= Threshold
    <3>1. PICK p : p = pending'[m]
      OBVIOUS
    <3> QED BY <2>1, <3>1, <1>3
  <2> QED BY <2>1
<1> QED BY <1>0, <1>2, <1>4 DEF RoundsHaveThreshold
-----------------------------------------------------------------------------
(* Types are kept *)

\* Acknowledgements of proposals are acknowledgements.
LEMMA AckType ==
  ASSUME NEW n \in Node, NEW got \in SUBSET (Node \X Nat)
  PROVE  Ack(n, got) \in SUBSET [src : Node, dst : Node, id : Nat]
<1>1. ASSUME NEW p \in got
      PROVE  [src |-> n, dst |-> p[1], id |-> p[2]] \in [src : Node, dst : Node, id : Nat]
  <2>1. p[1] \in Node /\ p[2] \in Nat
    OBVIOUS
  <2> QED BY <2>1
<1> QED BY <1>1 DEF Ack

\* Goroutines become goroutines.
LEMMA BecomesType ==
  ASSUME TypeOK, NEW n \in Node, NEW g, NEW h \in Goroutine, Becomes(n, g, h)
  PROVE  sendTLC' \in [Node -> SUBSET Goroutine]
<1>1. sendTLC \in [Node -> SUBSET Goroutine]
  BY DEF TypeOK, Goroutine
<1>2. PICK T : T = (sendTLC[n] \ {g}) \cup {h}
  OBVIOUS
<1>3. T \in SUBSET Goroutine
  BY <1>1, <1>2
<1>4. sendTLC' = [sendTLC EXCEPT ![n] = T]
  BY <1>2 DEF Becomes
<1> QED BY <1>1, <1>3, <1>4

\* Rounds are numbers, in tables of their gossiper's size.
LEMMA RoundType ==
  ASSUME TypeOK, Shape, NEW n \in Node, NEW o \in Node, NEW id \in 1..MaxLog(o),
         ComputeRound(n, o, id)
  PROVE  /\ clock' \in [Node -> [Node -> Nat]]
         /\ \A m, p \in Node : roundOf'[m][p] \in [1..MaxLog(p) -> Nat]
         /\ Shape'
<1>1. clock[n][o] \in Nat /\ roundOf[n][o] \in [1..MaxLog(o) -> Nat]
  BY Types
<1>2. PICK T : T = [roundOf[n][o] EXCEPT ![id] = clock[n][o]]
  OBVIOUS
<1>3. T \in [1..MaxLog(o) -> Nat]
  BY <1>1, <1>2
<1>4. T \in Table
  BY <1>3 DEF Table
<1>5. roundOf' = [roundOf EXCEPT ![n] = [roundOf[n] EXCEPT ![o] = T]]
  BY <1>2 DEF ComputeRound
<1>6. PICK R : R = [roundOf[n] EXCEPT ![o] = T]
  OBVIOUS
<1>7. roundOf[n] \in [Node -> Table]
  BY DEF Shape
<1>8. R \in [Node -> Table] /\ R[o] = T /\ \A p \in Node : p # o => R[p] = roundOf[n][p]
  BY <1>4, <1>6, <1>7
<1>9. /\ roundOf' \in [Node -> [Node -> Table]]
      /\ roundOf'[n] = R /\ \A m \in Node : m # n => roundOf'[m] = roundOf[m]
  BY <1>5, <1>6, <1>8 DEF Shape
<1>10. \A m, p \in Node : roundOf[m][p] \in [1..MaxLog(p) -> Nat]
  BY DEF TypeOK
<1>11. ASSUME NEW m \in Node, NEW p \in Node
       PROVE  roundOf'[m][p] \in [1..MaxLog(p) -> Nat]
  <2>1. CASE m = n /\ p = o
    BY <2>1, <1>3, <1>8, <1>9
  <2>2. CASE ~(m = n /\ p = o)
    <3>1. roundOf'[m][p] = roundOf[m][p]
      BY <2>2, <1>8, <1>9
    <3> QED BY <3>1, <1>10, Zenon
  <2> QED BY <2>1, <2>2
<1>12. Shape'
  BY <1>9 DEF Shape, Table, MaxLog
<1>13. clock' \in [Node -> [Node -> Nat]]
  <2>1. clock' = [clock EXCEPT ![n] = [clock[n] EXCEPT ![o] = clock[n][o] + 1]]
    BY DEF ComputeRound
  <2>2. clock \in [Node -> [Node -> Nat]]
    BY DEF TypeOK
  <2>3. clock[n][o] + 1 \in Nat
    BY <1>1
  <2>4. [clock[n] EXCEPT ![o] = clock[n][o] + 1] \in [Node -> Nat]
    BY <2>2, <2>3
  <2> QED BY <2>1, <2>2, <2>4
<1> QED BY <1>11, <1>12, <1>13

\* What SendTLC writes.
LEMMA TypeOfSendTLC ==
  ASSUME TypeOK, Shape, LogInv, NEW n \in Node, SendTLC(n) \/ Deliver(n) \/ TakeTx(n)
  PROVE  TypeOK' /\ Shape'
<1>1. CASE Propose(n)
  <2>1. PICK g \in sendTLC[n], h \in Goroutine :
           /\ g.step = "start"
           /\ Becomes(n, g, h)
           /\ log' = [log EXCEPT ![n] = Append(@, 0)]
           /\ ComputeRound(n, n, Len(log[n]) + 1)
    BY <1>1, ProposeEffect
  <2>2. PICK id \in Nat : id = Len(log[n]) + 1
    <3>1. Len(log[n]) \in Nat
      BY Types
    <3> QED BY <3>1
  <2>3. id \in 1..MaxLog(n)
    <3>1. ~Sent(g)
      BY <2>1 DEF Sent
    <3>2. Len(log[n]) + 1 <= MaxLog(n) /\ Len(log[n]) \in Nat /\ MaxLog(n) \in Nat
      BY <3>1, LogBounded, Types
    <3> QED BY <3>2, <2>2
  <2>4. ComputeRound(n, n, id)
    BY <2>1, <2>2
  <2>5. /\ clock' \in [Node -> [Node -> Nat]]
        /\ \A m, p \in Node : roundOf'[m][p] \in [1..MaxLog(p) -> Nat]
        /\ Shape'
    BY <2>3, <2>4, RoundType
  <2>6. log' \in [Node -> Seq(Nat)]
    BY <2>1 DEF TypeOK
  <2>7. sendTLC' \in [Node -> SUBSET Goroutine]
    BY <2>1, BecomesType
  <2>8. UNCHANGED <<flags, heard, handlers, sendVars, acks, ackVars, roundAckVars, confirmed, confirmVars>>
    BY <1>1 DEF Propose
  <2> QED BY <2>5, <2>6, <2>7, <2>8
          DEF TypeOK, Goroutine, sendVars, ackVars, roundAckVars, confirmVars, MaxLog
<1>2. CASE Confirm(n)
  <2>1. PICK g \in sendTLC[n], h \in Goroutine :
           /\ g \in Goroutine
           /\ Becomes(n, g, h)
           /\ log' = [log EXCEPT ![n] = Append(@, g.id)]
           /\ confirmed' = [confirmed EXCEPT ![n] = @ \cup ToCount(n, g.id)]
    BY <1>2, ConfirmEffect
  <2>2. g.id \in Nat
    BY <2>1 DEF Goroutine
  <2>3. log' \in [Node -> Seq(Nat)]
    BY <2>1, <2>2 DEF TypeOK
  <2>4. confirmed' \in [Node -> SUBSET (Node \X Nat)]
    <3>1. ToCount(n, g.id) \subseteq Node \X Nat
      BY <2>2 DEF ToCount
    <3> QED BY <2>1, <3>1 DEF TypeOK
  <2>5. sendTLC' \in [Node -> SUBSET Goroutine]
    BY <2>1, BecomesType
  <2>6. UNCHANGED <<flags, heard, handlers, clockVars, sendVars, acks, ackVars, roundAckVars, confirmVars>>
    BY <1>2 DEF Confirm
  <2> QED BY <2>3, <2>4, <2>5, <2>6
          DEF TypeOK, Shape, Table, Goroutine, clockVars, sendVars, ackVars, roundAckVars, confirmVars, MaxLog
<1>3. CASE Register(n) \/ GiveUp(n)
  <2>1. sendTLC' \in [Node -> SUBSET Goroutine]
    <3>1. CASE sendTLC' = sendTLC
      BY <3>1 DEF TypeOK, Goroutine
    <3>2. CASE sendTLC' # sendTLC
      BY <3>2, <1>3, MoveEffect, BecomesType
    <3> QED BY <3>1, <3>2
  <2>2. UNCHANGED <<flags, gossipVars, handlers, clockVars, sendVars, acks, ackVars, roundAckVars,
                    confirmed, confirmVars>>
    BY <1>3 DEF Register, GiveUp
  <2> QED BY <2>1, <2>2 DEF TypeOK, Shape, Table, Goroutine, gossipVars, clockVars, sendVars, ackVars,
             roundAckVars, confirmVars, MaxLog
<1>4. CASE Deliver(n)
  <2>1. sendTLC' \in [Node -> SUBSET Goroutine]
    <3>1. CASE sendTLC' = sendTLC
      BY <3>1 DEF TypeOK, Goroutine
    <3>2. CASE sendTLC' # sendTLC
      BY <3>2, <1>4, MoveEffect, BecomesType
    <3> QED BY <3>1, <3>2
  <2>2. PICK g \in sendTLC[n] :
          /\ handoff' = [handoff EXCEPT ![n] = Idle]
          /\ \/ finishMap' = [finishMap EXCEPT ![n] = @ \cup {g.id}]
             \/ finishMap' = finishMap
          /\ acks' \subseteq acks
    BY <1>4 DEF Deliver
  <2>3. handoff' \in [Node -> [id : Nat, open : BOOLEAN]]
    <3>1. Idle \in [id : Nat, open : BOOLEAN]
      BY DEF Idle
    <3> QED BY <3>1, <2>2 DEF TypeOK
  <2>4. finishMap' \in [Node -> SUBSET Nat]
    <3>1. g.id \in Nat
      BY Types DEF Goroutine
    <3>2. finishMap \in [Node -> SUBSET Nat]
      BY DEF TypeOK
    <3>3. PICK i \in Nat : i = g.id
      BY <3>1
    <3>4. finishMap' = [finishMap EXCEPT ![n] = @ \cup {i}] \/ finishMap' = finishMap
      BY <2>2, <3>3
    <3> QED BY <3>2, <3>4
  <2>5. acks' \in SUBSET [src : Node, dst : Node, id : Nat]
    BY <2>2 DEF TypeOK
  <2>6. UNCHANGED <<flags, gossipVars, handlers, clockVars, sendVars, ackMap, roundAckVars,
                    confirmed, confirmVars>>
    BY <1>4 DEF Deliver
  <2> QED BY <2>1, <2>3, <2>4, <2>5, <2>6 DEF TypeOK, Shape, Table, Goroutine, gossipVars, clockVars,
             sendVars, roundAckVars, confirmVars, MaxLog
<1>5. CASE TakeTx(n)
  <2>1. PICK h : h = [round |-> txs[n], id |-> 0, step |-> "start"]
    OBVIOUS
  <2>2. txs[n] \in Nat
    BY Types
  <2>3. h \in Goroutine
    BY <2>1, <2>2 DEF Goroutine
  <2>4. sendTLC' = [sendTLC EXCEPT ![n] = @ \cup {h}]
    BY <1>5, <2>1 DEF TakeTx
  <2>5. sendTLC' \in [Node -> SUBSET Goroutine]
    <3>1. sendTLC \in [Node -> SUBSET Goroutine]
      BY DEF TypeOK, Goroutine
    <3> QED BY <2>3, <2>4, <3>1
  <2>6. txs' \in [Node -> Nat]
    <3>1. txs' = [txs EXCEPT ![n] = txs[n] + 1]
      BY <1>5 DEF TakeTx
    <3>2. txs[n] + 1 \in Nat
      BY <2>2
    <3> QED BY <3>1, <3>2 DEF TypeOK
  <2>7. sendPc' \in [Node -> {"idle", "offer", "wait"}]
    BY <1>5 DEF TakeTx, TypeOK
  <2>8. UNCHANGED <<flags, gossipVars, handlers, clockVars, acks, ackVars, roundAckVars,
                    confirmed, confirmVars>>
    BY <1>5 DEF TakeTx
  <2> QED BY <2>5, <2>6, <2>7, <2>8 DEF TypeOK, Shape, Table, Goroutine, gossipVars, clockVars,
             ackVars, roundAckVars, confirmVars, MaxLog
<1> QED BY <1>1, <1>2, <1>3, <1>4, <1>5 DEF SendTLC
\* What HandleTLCMessage and the acknowledgements write.
LEMMA TypeOfHandlers ==
  ASSUME TypeOK, Shape, LogInv, Heard, NEW n \in Node, HandleTLCMessage(n) \/ HandleTLCAck(n)
  PROVE  TypeOK' /\ Shape'
<1>0. /\ handlers[n] \subseteq Handler /\ handlers \in [Node -> SUBSET Handler]
      /\ acks \subseteq [src : Node, dst : Node, id : Nat]
  BY DEF TypeOK
<1>1. ASSUME NEW o \in Node, Receive(n, o)
      PROVE  TypeOK' /\ Shape'
  <2>1. PICK id \in Nat : id = heard[n][o] + 1
    <3>1. heard[n][o] \in Nat
      BY Types
    <3> QED BY <3>1
  <2>2. PICK x \in Nat : x = log[o][id]
    <3>1. log[o] \in Seq(Nat) /\ Len(log[o]) \in Nat /\ heard[n][o] < Len(log[o]) /\ heard[n][o] \in Nat
      BY <1>1, Types DEF Receive
    <3>2. id \in 1..Len(log[o])
      BY <2>1, <3>1
    <3>3. log[o][id] \in Nat
      BY <3>1, <3>2
    <3> QED BY <3>3
  <2>3. heard' \in [Node -> [Node -> Nat]]
    <3>1. heard' = [heard EXCEPT ![n] = [heard[n] EXCEPT ![o] = heard[n][o] + 1]]
      BY <1>1 DEF Receive
    <3>2. heard \in [Node -> [Node -> Nat]]
      BY DEF TypeOK
    <3>3. heard[n][o] + 1 \in Nat
      BY <2>1
    <3>4. [heard[n] EXCEPT ![o] = heard[n][o] + 1] \in [Node -> Nat]
      BY <3>2, <3>3
    <3> QED BY <3>1, <3>2, <3>4
  <2>4. /\ handlers' = handlers \/ handlers' = [handlers EXCEPT ![n] = @ \cup {NewHandler(o, id)}]
        /\ acks' = acks \/ acks' = acks \cup Ack(n, {<<o, id>>})
        /\ confirmed' = confirmed \/ confirmed' = [confirmed EXCEPT ![n] = @ \cup ToCount(o, x)]
    BY <1>1, <2>1, <2>2 DEF Receive, NewHandler
  <2>5. handlers' \in [Node -> SUBSET Handler]
    <3>1. PICK k : k = NewHandler(o, id)
      OBVIOUS
    <3>2. k \in Handler
      BY <3>1 DEF NewHandler, Handler
    <3> QED BY <3>1, <3>2, <2>4, <1>0
  <2>6. acks' \in SUBSET [src : Node, dst : Node, id : Nat]
    <3>1. {<<o, id>>} \in SUBSET (Node \X Nat)
      OBVIOUS
    <3> QED BY <3>1, <2>4, <1>0, AckType
  <2>7. confirmed' \in [Node -> SUBSET (Node \X Nat)]
    <3>1. PICK T : T = ToCount(o, x)
      OBVIOUS
    <3>2. T \subseteq Node \X Nat
      BY <3>1 DEF ToCount
    <3>3. confirmed \in [Node -> SUBSET (Node \X Nat)]
      BY DEF TypeOK
    <3> QED BY <3>1, <3>2, <3>3, <2>4
  <2>8. UNCHANGED <<flags, log, clockVars, sendVars, sendTLC, ackVars, roundAckVars, confirmVars>>
    BY <1>1 DEF Receive
  <2> QED BY <2>3, <2>5, <2>6, <2>7, <2>8 DEF TypeOK, Shape, Table, clockVars, sendVars, ackVars,
             roundAckVars, confirmVars, MaxLog
<1>2. CASE Compute(n)
  <2>1. PICK h \in handlers[n] :
          /\ ComputeRound(n, h.origin, h.id)
          /\ handlers' = [handlers EXCEPT ![n] = (@ \ {h}) \cup
                      {[h EXCEPT !.round = clock[n][h.origin], !.step = "wrapped"]}]
    BY <1>2 DEF Compute
  <2>2. PICK o \in Node, id \in Nat : o = h.origin /\ id = h.id
    BY <1>0 DEF Handler
  <2>3. id \in 1..MaxLog(o)
    <3>1. Proposal(o, id)
      BY <2>2 DEF Heard
    <3>2. Len(log[o]) \in Nat /\ Len(log[o]) <= MaxLog(o) /\ MaxLog(o) \in Nat
      BY Types, ComputedFinite
    <3> QED BY <3>1, <3>2 DEF Proposal
  <2>4. ComputeRound(n, o, id)
    BY <2>1, <2>2
  <2>5. /\ clock' \in [Node -> [Node -> Nat]]
        /\ \A m, p \in Node : roundOf'[m][p] \in [1..MaxLog(p) -> Nat]
        /\ Shape'
    BY <2>3, <2>4, RoundType
  <2>6. handlers' \in [Node -> SUBSET Handler]
    <3>1. PICK r \in Nat : r = clock[n][h.origin]
      <4>1. clock[n][o] \in Nat
        BY Types
      <4> QED BY <4>1, <2>2
    <3>2. PICK k : k = [h EXCEPT !.round = r, !.step = "wrapped"]
      OBVIOUS
    <3>3. k \in Handler
      BY <3>2, <1>0 DEF Handler
    <3>4. handlers' = [handlers EXCEPT ![n] = (@ \ {h}) \cup {k}]
      BY <2>1, <3>1, <3>2
    <3> QED BY <3>3, <3>4, <1>0
  <2>7. UNCHANGED <<flags, gossipVars, sendVars, sendTLC, acks, ackVars, roundAckVars,
                    confirmed, confirmVars>>
    BY <1>2 DEF Compute
  <2> QED BY <2>5, <2>6, <2>7 DEF TypeOK, gossipVars, sendVars, ackVars, roundAckVars, confirmVars, MaxLog
<1>3. CASE RoundAck(n)
  <2>1. PICK h \in handlers[n] :
          /\ handlers' = [handlers EXCEPT ![n] = @ \ {h}]
          /\ acks' = acks \/ acks' = acks \cup Ack(n, {<<h.origin, h.id>>})
          /\ tlcCache' = tlcCache \/ tlcCache' = [tlcCache EXCEPT ![n] = @ \cup {h}]
    BY <1>3 DEF RoundAck
  <2>2. h \in Handler
    BY <1>0
  <2>3. handlers' \in [Node -> SUBSET Handler]
    BY <2>1, <1>0
  <2>4. acks' \in SUBSET [src : Node, dst : Node, id : Nat]
    <3>1. h.origin \in Node /\ h.id \in Nat
      BY <2>2 DEF Handler
    <3>2. {<<h.origin, h.id>>} \in SUBSET (Node \X Nat)
      BY <3>1
    <3> QED BY <3>2, <2>1, <1>0, AckType
  <2>5. tlcCache' \in [Node -> SUBSET Handler]
    <3>1. tlcCache \in [Node -> SUBSET Handler]
      BY DEF TypeOK
    <3> QED BY <3>1, <2>1, <2>2
  <2>6. UNCHANGED <<flags, gossipVars, clockVars, sendVars, sendTLC, ackVars, ackRound,
                    confirmed, confirmVars>>
    BY <1>3 DEF RoundAck
  <2> QED BY <2>3, <2>4, <2>5, <2>6 DEF TypeOK, Shape, Table, gossipVars, clockVars, sendVars, ackVars,
             confirmVars, MaxLog
<1>4. CASE HandleTLCAck(n)
  <2>1. PICK a \in acks :
          /\ acks' = acks \ {a}
          /\ ackMap' = [ackMap EXCEPT ![n] = @ \cup {<<a.id, a.src>>}]
          /\ \E b \in BOOLEAN : handoff' = [handoff EXCEPT ![n] = [id |-> a.id, open |-> b]]
    BY <1>4 DEF HandleTLCAck
  <2>2. a.id \in Nat /\ a.src \in Node
    BY <1>0
  <2>3. ackMap' \in [Node -> SUBSET (Nat \X Node)]
    <3>1. PICK e : e = <<a.id, a.src>>
      OBVIOUS
    <3>2. e \in Nat \X Node
      BY <3>1, <2>2
    <3>3. ackMap \in [Node -> SUBSET (Nat \X Node)]
      BY DEF TypeOK
    <3> QED BY <3>1, <3>2, <3>3, <2>1
  <2>4. handoff' \in [Node -> [id : Nat, open : BOOLEAN]]
    <3>1. PICK b \in BOOLEAN : handoff' = [handoff EXCEPT ![n] = [id |-> a.id, open |-> b]]
      BY <2>1
    <3>2. PICK e : e = [id |-> a.id, open |-> b]
      OBVIOUS
    <3>3. e \in [id : Nat, open : BOOLEAN]
      BY <3>2, <2>2
    <3>4. handoff \in [Node -> [id : Nat, open : BOOLEAN]]
      BY DEF TypeOK
    <3> QED BY <3>1, <3>2, <3>3, <3>4
  <2>5. acks' \in SUBSET [src : Node, dst : Node, id : Nat]
    BY <2>1, <1>0
  <2>6. UNCHANGED <<flags, gossipVars, handlers, clockVars, sendVars, sendTLC, finishMap, roundAckVars,
                    confirmed, confirmVars>>
    BY <1>4 DEF HandleTLCAck
  <2> QED BY <2>3, <2>4, <2>5, <2>6 DEF TypeOK, Shape, Table, gossipVars, clockVars, sendVars,
             roundAckVars, confirmVars, MaxLog
<1> QED BY <1>1, <1>2, <1>3, <1>4 DEF HandleTLCMessage

\* What HandleConfirmedMessage writes.
LEMMA TypeOfRounds ==
  ASSUME TypeOK, Shape, LogInv, Tallies, NEW n \in Node, HandleConfirmedMessage(n)
  PROVE  TypeOK' /\ Shape'
<1>1. CASE CountConfirmed(n)
  <2>1. PICK o \in Node, id \in Nat :
           /\ <<o, id>> \in confirmed[n]
           /\ \/ counted' = counted /\ confirmPc' = confirmPc /\ pending' = pending
              \/ /\ counted' = [counted EXCEPT ![n] = @ \cup {NewTally(n, o, id)}]
                 /\ \/ confirmPc' = confirmPc /\ pending' = pending
                    \/ /\ confirmPc' = [confirmPc EXCEPT ![n] = "advance"]
                       /\ pending' = [pending EXCEPT ![n] = roundOf[n][o][id]]
    BY <1>1, CountEffect
  <2>2. PICK r \in Nat : r = roundOf[n][o][id]
    <3>1. Known(n, o, id)
      <4>1. PICK c : c = <<o, id>>
        OBVIOUS
      <4>2. c \in confirmed[n] /\ c[1] = o /\ c[2] = id
        BY <4>1, <2>1
      <4> QED BY <4>2 DEF Tallies
    <3>2. id \in 1..Len(log[o])
      BY <3>1, KnownIsProposal DEF Proposal
    <3>3. Len(log[o]) \in Nat /\ Len(log[o]) <= MaxLog(o) /\ MaxLog(o) \in Nat
      BY Types, ComputedFinite
    <3>4. id \in 1..MaxLog(o)
      BY <3>2, <3>3
    <3>5. roundOf[n][o] \in [1..MaxLog(o) -> Nat]
      BY Types
    <3>6. roundOf[n][o][id] \in Nat
      BY <3>4, <3>5
    <3> QED BY <3>6
  <2>3. counted' \in [Node -> SUBSET [round : Nat, origin : Node, id : Nat]]
    <3>1. PICK t : t = NewTally(n, o, id)
      OBVIOUS
    <3>2. t \in [round : Nat, origin : Node, id : Nat]
      BY <2>2, <3>1 DEF NewTally
    <3>3. counted \in [Node -> SUBSET [round : Nat, origin : Node, id : Nat]]
      BY DEF TypeOK
    <3>4. counted' = counted \/ counted' = [counted EXCEPT ![n] = @ \cup {t}]
      BY <2>1, <3>1
    <3> QED BY <3>2, <3>3, <3>4
  <2>4. confirmPc' \in [Node -> {"receive", "advance", "enter"}]
    BY <2>1 DEF TypeOK
  <2>5. pending' \in [Node -> Nat]
    <3>1. pending' = pending \/ pending' = [pending EXCEPT ![n] = r]
      BY <2>1, <2>2
    <3> QED BY <3>1 DEF TypeOK
  <2>6. confirmed' \in [Node -> SUBSET (Node \X Nat)]
    <3>1. PICK c : confirmed' = [confirmed EXCEPT ![n] = @ \ {c}]
      BY <1>1 DEF CountConfirmed
    <3>2. confirmed \in [Node -> SUBSET (Node \X Nat)]
      BY DEF TypeOK
    <3> QED BY <3>1, <3>2
  <2>7. UNCHANGED <<flags, gossipVars, handlers, clockVars, sendVars, sendTLC, acks, ackVars,
                    roundAckVars, finished, round>>
    BY <1>1 DEF CountConfirmed
  <2> QED BY <2>3, <2>4, <2>5, <2>6, <2>7 DEF TypeOK, Shape, Table, gossipVars, clockVars, sendVars,
             ackVars, roundAckVars, MaxLog
<1>2. CASE Advance(n)
  <2>1. finished' \in [Node -> SUBSET Nat]
    <3>1. PICK p \in Nat : p = pending[n]
      BY Types
    <3>2. finished' = [finished EXCEPT ![n] = @ \cup {p}]
      BY <1>2, <3>1 DEF Advance
    <3>3. finished \in [Node -> SUBSET Nat]
      BY DEF TypeOK
    <3> QED BY <3>2, <3>3
  <2>2. round' \in [Node -> Nat]
    <3>1. round' = [round EXCEPT ![n] = round[n] + 1] /\ round[n] \in Nat
      BY <1>2, Types DEF Advance
    <3>2. round[n] + 1 \in Nat
      BY <3>1
    <3> QED BY <3>1, <3>2 DEF TypeOK
  <2>3. /\ confirmPc' \in [Node -> {"receive", "advance", "enter"}]
        /\ sendPc' \in [Node -> {"idle", "offer", "wait"}]
        /\ pending' \in [Node -> Nat]
    BY <1>2 DEF Advance, TypeOK
  <2>4. UNCHANGED <<flags, gossipVars, handlers, clockVars, txs, sendTLC, acks, ackVars, roundAckVars,
                    confirmed, counted>>
    BY <1>2 DEF Advance
  <2> QED BY <2>1, <2>2, <2>3, <2>4 DEF TypeOK, Shape, Table, gossipVars, clockVars, ackVars,
             roundAckVars, MaxLog
<1>3. CASE EnterRound(n)
  <2>1. ackRound' \in [Node -> Nat]
    <3>1. ackRound' = [ackRound EXCEPT ![n] = ackRound[n] + 1] /\ ackRound[n] \in Nat
      BY <1>3, Types DEF EnterRound
    <3>2. ackRound[n] + 1 \in Nat
      BY <3>1
    <3> QED BY <3>1, <3>2 DEF TypeOK
  <2>2. acks' \in SUBSET [src : Node, dst : Node, id : Nat]
    <3>1. PICK got : got = {<<h.origin, h.id>> : h \in {h \in tlcCache[n] : h.round = ackRound'[n]}}
      OBVIOUS
    <3>2. tlcCache[n] \subseteq Handler
      BY Types
    <3>3. got \in SUBSET (Node \X Nat)
      BY <3>1, <3>2 DEF Handler
    <3>4. acks' = acks \cup Ack(n, got)
      BY <1>3, <3>1 DEF EnterRound
    <3>5. acks \in SUBSET [src : Node, dst : Node, id : Nat]
      BY DEF TypeOK
    <3> QED BY <3>3, <3>4, <3>5, AckType
  <2>3. /\ confirmPc' \in [Node -> {"receive", "advance", "enter"}]
        /\ sendPc' \in [Node -> {"idle", "offer", "wait"}]
    BY <1>3 DEF EnterRound, TypeOK
  <2>4. UNCHANGED <<flags, gossipVars, handlers, clockVars, txs, sendTLC, ackVars, tlcCache,
                    confirmed, counted, pending, finished, round>>
    BY <1>3 DEF EnterRound
  <2> QED BY <2>1, <2>2, <2>3, <2>4 DEF TypeOK, Shape, Table, gossipVars, clockVars, ackVars, MaxLog
<1> QED BY <1>1, <1>2, <1>3 DEF HandleConfirmedMessage

\* Every step keeps to the types.
LEMMA TypeStep ==
  ASSUME TypeOK, Shape, LogInv, Heard, Tallies, NEW n \in Node, Act(n)
  PROVE  TypeOK' /\ Shape'
BY TypeOfSendTLC, TypeOfHandlers, TypeOfRounds DEF Act
-----------------------------------------------------------------------------
(* No round outruns the proposals *)

\* Of a round in which every gossiper counts once, no more is counted than
\* there are gossipers.
LEMMA OnceByOrigin ==
  ASSUME TypeOK, Tallies, NEW n \in Node, NEW r, NEW T, IsFiniteSet(T),
         \A c \in counted[n] : c.round = r => c.origin \in T,
         \A c, d \in counted[n] : c.round = r /\ d.round = r /\ c.origin = d.origin => c.id = d.id
  PROVE  Cardinality(Counted(n, r)) <= Cardinality(T)
<1> DEFINE f == [x \in Counted(n, r) |-> x[1]]
<1>1. ASSUME NEW x \in Counted(n, r)
      PROVE  \E c \in counted[n] : c.round = r /\ x = <<c.origin, c.id>> /\ x[1] = c.origin
  <2>1. PICK c \in counted[n] : c.round = r /\ x = <<c.origin, c.id>>
    BY DEF Counted
  <2>2. x[1] = c.origin
    BY <2>1
  <2> QED BY <2>1, <2>2
<1>2. f \in [Counted(n, r) -> T]
  BY <1>1
<1>3. ASSUME NEW x \in Counted(n, r), NEW y \in Counted(n, r), f[x] = f[y]
      PROVE  x = y
  <2>1. PICK c \in counted[n] : c.round = r /\ x = <<c.origin, c.id>> /\ x[1] = c.origin
    BY <1>1
  <2>2. PICK d \in counted[n] : d.round = r /\ y = <<d.origin, d.id>> /\ y[1] = d.origin
    BY <1>1
  <2>3. c.origin = d.origin
    BY <2>1, <2>2, <1>3
  <2>4. c.id = d.id
    BY <2>1, <2>2, <2>3
  <2> QED BY <2>1, <2>2, <2>3, <2>4
<1> HIDE DEF f
<1> QED BY <1>2, <1>3, NoLarger

\* The proposals that a gossiper has numbered have been made.
LEMMA ClockFits ==
  ASSUME TypeOK, LogInv, NEW n \in Node, NEW o \in Node, RoundsOf(n, o)
  PROVE  clock[n][o] <= Proposals(o)
<1>1. IsFiniteSet(ProposalsOf(o)) /\ Proposals(o) = Cardinality(ProposalsOf(o)) /\ Proposals(o) \in Nat
  BY HalfAreProposals
<1>2. ComputedOf(n, o) \subseteq ProposalsOf(o)
  BY DEF ComputedOf, Computed, Proposal, ProposalsOf
<1>3. /\ Cardinality(ComputedOf(n, o)) <= Cardinality(ProposalsOf(o))
      /\ Cardinality(ComputedOf(n, o)) \in Nat
  BY <1>1, <1>2, FS_Subset, FS_CardinalityType
<1>4. clock[n][o] \in Nat /\ clock[n][o] <= Cardinality(ComputedOf(n, o))
  BY Types DEF RoundsOf
<1> QED BY <1>1, <1>3, <1>4

\* Proposals are only added.
LEMMA ProposalsGrow ==
  ASSUME TypeOK, LogInv, NEW n \in Node, Act(n), NEW o \in Node
  PROVE  Proposals(o) \in Nat /\ Proposals(o)' \in Nat /\ Proposals(o) <= Proposals(o)'
<1>1. /\ IsFiniteSet(ProposalsOf(o)) /\ Cardinality(ProposalsOf(o)) \in Nat
      /\ Proposals(o) = Cardinality(ProposalsOf(o))
  BY HalfAreProposals
<1>2. /\ Len(log[o]) \in Nat /\ Len(log'[o]) \in Int /\ Len(log[o]) <= Len(log'[o])
      /\ \A i \in 1..Len(log[o]) : log'[o][i] = log[o][i]
  <2>1. Len(log[o]) \in Nat
    BY Types
  <2> QED BY <2>1, LenIsInt, LogGrows
<1>3. ProposalsOf(o) \subseteq ProposalsOf(o)'
  BY <1>2 DEF ProposalsOf
<1>4. IsFiniteSet(ProposalsOf(o)')
  <2>1. PICK k \in Nat : k = Len(log'[o])
    BY <1>2
  <2>2. ProposalsOf(o)' \subseteq 1..k
    BY <2>1 DEF ProposalsOf
  <2> QED BY <2>2, IntervalCard, FS_Subset
<1>5. Proposals(o)' = Cardinality(ProposalsOf(o)')
  BY DEF Proposals, ProposalsOf
<1>6. Cardinality(ProposalsOf(o)') \in Nat /\ Cardinality(ProposalsOf(o)) <= Cardinality(ProposalsOf(o)')
  BY <1>3, <1>4, FS_Subset, FS_CardinalityType
<1> QED BY <1>1, <1>5, <1>6

Reached(r) == {o \in Node : Proposals(o) >= r}

\* Gossipers that have reached a round have reached the earlier ones.
LEMMA ReachedFinite ==
  ASSUME TypeOK, LogInv, NEW r \in Nat, NEW s \in Nat, s <= r
  PROVE  /\ IsFiniteSet(Reached(r)) /\ Cardinality(Reached(r)) \in Nat
         /\ Cardinality(Reached(s)) \in Nat
         /\ Cardinality(Reached(r)) <= Cardinality(Reached(s))
<1>1. \A o \in Node : Proposals(o) \in Nat
  BY HalfAreProposals
<1>2. Reached(r) \subseteq Reached(s)
  BY <1>1 DEF Reached
<1>3. IsFiniteSet(Reached(r)) /\ IsFiniteSet(Reached(s))
  BY ConstantsAssumption, FS_Subset DEF Reached
<1> QED BY <1>2, <1>3, FS_Subset, FS_CardinalityType

\* One of the finished rounds is late enough.
LEMMA LateRound ==
  ASSUME NEW k \in Nat, NEW S \in SUBSET Nat, IsFiniteSet(S), Cardinality(S) = k + 1
  PROVE  \E r \in S : r >= k
<1> SUFFICES ASSUME \A r \in S : ~(r >= k) PROVE FALSE
  OBVIOUS
<1>1. S \subseteq 0..(k - 1)
  <2>1. ASSUME NEW r \in S
        PROVE  r \in 0..(k - 1)
    <3>1. r \in Nat /\ ~(r >= k)
      OBVIOUS
    <3> QED BY <3>1
  <2> QED BY <2>1
<1>2. IsFiniteSet(0..(k - 1)) /\ Cardinality(0..(k - 1)) = k
  BY IntervalCard
<1>3. Cardinality(S) <= Cardinality(0..(k - 1))
  BY <1>1, <1>2, FS_Subset
<1>4. k + 1 <= k
  BY <1>2, <1>3
<1> QED BY <1>4

\* A threshold of gossipers has proposed for every round that has a threshold
\* of confirmations, also if some of those count for a round not their own.
LEMMA CountedHaveProposed ==
  ASSUME TypeOK, LogInv, ClockInv, RoundInv, Tallies, NoOutrun, hw3ex3,
         NEW n \in Node, NEW r \in Nat, round[n] <= r, Cardinality(Counted(n, r)) >= Threshold
  PROVE  Cardinality(Reached(round[n] + 1)) >= Threshold
<1>0. /\ round[n] \in Nat /\ Threshold \in Nat /\ Cardinality(Counted(n, r)) \in Nat
      /\ \A o \in Node : Proposals(o) \in Nat
      /\ \A c \in counted[n] : c.origin \in Node /\ Known(n, c.origin, c.id) /\ Proposal(c.origin, c.id)
  <2>1. round[n] \in Nat /\ Threshold \in Nat /\ Cardinality(Counted(n, r)) \in Nat
    BY Types, ThresholdBounds, CountedFinite
  <2>2. \A o \in Node : Proposals(o) \in Nat
    BY HalfAreProposals
  <2>3. ASSUME NEW c \in counted[n]
        PROVE  c.origin \in Node /\ Known(n, c.origin, c.id) /\ Proposal(c.origin, c.id)
    <3>1. counted[n] \subseteq [round : Nat, origin : Node, id : Nat]
      BY Types
    <3>2. c.origin \in Node /\ Known(n, c.origin, c.id)
      BY <3>1 DEF Tallies
    <3> QED BY <3>2, KnownIsProposal
  <2> QED BY <2>1, <2>2, <2>3
<1>1. \A o \in Node : RoundsOf(n, o)
  BY DEF ClockInv
<1>2. PICK k \in Nat : k = round[n] + 1
  BY <1>0
<1>3. IsFiniteSet(Reached(k)) /\ Cardinality(Reached(k)) \in Nat
  BY ReachedFinite
<1>4. CASE r # 0
  <2>1. ASSUME NEW c \in counted[n], c.round = r
        PROVE  /\ c.origin \in Reached(k)
               /\ c.id \in ComputedOf(n, c.origin)
               /\ roundOf[n][c.origin][c.id] = r
    <3>0. PICK o \in Node : o = c.origin
      BY <1>0
    <3>1. PICK id : o = c.origin /\ id = c.id
      BY <1>0, <3>0
    <3>2. Computed(n, o, id) /\ roundOf[n][o][id] = r /\ id \in 1..Len(log[o])
      BY <2>1, <3>1, <1>0, <1>4 DEF Tallies, Proposal
    <3>3. Len(log[o]) \in Nat /\ Len(log[o]) <= MaxLog(o) /\ MaxLog(o) \in Nat
      BY Types, ComputedFinite
    <3>4. id \in 1..MaxLog(o)
      BY <3>2, <3>3
    <3>5. r < clock[n][o]
      BY <3>2, <3>4, <1>1 DEF RoundsOf
    <3>6. clock[n][o] \in Nat /\ clock[n][o] <= Proposals(o) /\ Proposals(o) \in Nat
      BY <1>1, <1>0, ClockFits, Types
    <3>7. Proposals(o) >= k
      BY <3>5, <3>6, <1>0, <1>2
    <3> QED BY <3>1, <3>2, <3>7 DEF Reached, ComputedOf
  <2>2. \A c, d \in counted[n] : c.round = r /\ d.round = r /\ c.origin = d.origin => c.id = d.id
    BY <2>1, <1>0, <1>1 DEF RoundsOf
  <2>3. Cardinality(Counted(n, r)) <= Cardinality(Reached(k))
    BY <2>1, <2>2, <1>3, OnceByOrigin
  <2>4. Cardinality(Reached(k)) >= Threshold
    BY <2>3, <1>0, <1>3
  <2> QED BY <2>4, <1>2
<1>5. CASE r = 0
  <2>1. k = 1
    BY <1>0, <1>2, <1>5
  <2>2. ASSUME NEW c \in counted[n]
        PROVE  c.origin \in Reached(1)
    <3>0. PICK o \in Node : o = c.origin
      BY <1>0
    <3>1. PICK id : o = c.origin /\ id = c.id
      BY <1>0, <3>0
    <3>2. id \in ProposalsOf(o)
      BY <3>1, <1>0 DEF Proposal, ProposalsOf
    <3>3. IsFiniteSet(ProposalsOf(o)) /\ Proposals(o) = Cardinality(ProposalsOf(o))
      BY HalfAreProposals
    <3>4. Proposals(o) # 0
      BY <3>2, <3>3, FS_EmptySet
    <3>5. Proposals(o) >= 1
      BY <3>4, <1>0
    <3> QED BY <3>1, <3>5 DEF Reached
  <2>3. CASE \A c, d \in counted[n] : c.round = r /\ d.round = r /\ c.origin = d.origin => c.id = d.id
    <3>1. Cardinality(Counted(n, r)) <= Cardinality(Reached(k))
      BY <2>1, <2>2, <2>3, <1>3, OnceByOrigin
    <3>2. Cardinality(Reached(k)) >= Threshold
      BY <3>1, <1>0, <1>3
    <3> QED BY <3>2, <1>2
  <2>4. CASE ~(\A c, d \in counted[n] : c.round = r /\ d.round = r /\ c.origin = d.origin => c.id = d.id)
    <3>1. PICK c \in counted[n], d \in counted[n] : c.origin = d.origin /\ c.id # d.id
      BY <2>4
    <3>0. PICK o \in Node : o = c.origin
      BY <1>0
    <3>2. PICK i, j : o = c.origin /\ i = c.id /\ j = d.id
      BY <1>0, <3>0
    <3>3. i \in ProposalsOf(o) /\ j \in ProposalsOf(o) /\ i # j
      BY <3>1, <3>2, <1>0 DEF Proposal, ProposalsOf
    <3>4. /\ IsFiniteSet(ProposalsOf(o)) /\ Proposals(o) = Cardinality(ProposalsOf(o))
      BY HalfAreProposals
    <3>5. Cardinality({i, j}) = 2 /\ {i, j} \subseteq ProposalsOf(o)
      <4>1. IsFiniteSet({i}) /\ Cardinality({i}) = 1
        BY FS_Singleton
      <4>2. Cardinality({i} \cup {j}) = Cardinality({i}) + 1
        BY <4>1, <3>3, FS_AddElement
      <4>3. {i} \cup {j} = {i, j}
        OBVIOUS
      <4>4. Cardinality({i, j}) = 2
        BY <4>1, <4>2, <4>3
      <4> QED BY <4>4, <3>3
    <3>6. Proposals(o) >= 2
      <4>1. Cardinality({i, j}) <= Cardinality(ProposalsOf(o))
        BY <3>4, <3>5, FS_Subset
      <4> QED BY <4>1, <3>4, <3>5, <1>0
    <3>7. txs[o] >= 2 /\ txs[o] \in Nat /\ round[o] \in Nat
      <4>1. Proposals(o) <= txs[o] /\ txs[o] \in Nat /\ round[o] \in Nat
        BY LogBounded, Types
      <4> QED BY <4>1, <3>6, <1>0
    <3>8. round[o] >= 1
      <4>1. round[o] = txs[o] - (IF sendPc[o] = "offer" THEN 1 ELSE 0)
        BY DEF RoundInv, Lockstep
      <4>2. round[o] = txs[o] - 1 \/ round[o] = txs[o]
        BY <4>1, <3>7
      <4> QED BY <4>2, <3>7
    <3>9. Cardinality(Reached(round[o])) >= Threshold
      BY <3>7, <3>8 DEF NoOutrun, Reached
    <3>10. PICK s \in Nat : s = round[o]
      BY <3>7
    <3>11. Cardinality(Reached(s)) <= Cardinality(Reached(k)) /\ Cardinality(Reached(s)) \in Nat
      BY <3>8, <3>10, <2>1, ReachedFinite
    <3>12. Cardinality(Reached(s)) >= Threshold
      BY <3>9, <3>10
    <3>13. Cardinality(Reached(k)) >= Threshold
      BY <3>11, <3>12, <1>0, <1>3
    <3> QED BY <3>13, <1>2
  <2> QED BY <2>3, <2>4
<1> QED BY <1>4, <1>5

\* A gossiper goes on to a round when a threshold has proposed for it.
LEMMA NoOutrunStep ==
  ASSUME TypeOK, LogInv, ClockInv, RoundInv, CountInv, NoOutrun, NEW n \in Node, Act(n)
  PROVE  NoOutrun'
<1>0. flags' = flags /\ Threshold' = Threshold /\ Threshold \in Nat
  <2>1. flags' = flags
    BY FlagsStay
  <2> QED BY <2>1, ThresholdBounds DEF Threshold, N
<1>1. ASSUME NEW r \in Nat, Cardinality(Reached(r)) >= Threshold
      PROVE  Cardinality(Reached(r)') >= Threshold
  <2>1. \A o \in Node : Proposals(o) \in Nat /\ Proposals(o)' \in Nat /\ Proposals(o) <= Proposals(o)'
    BY ProposalsGrow
  <2>2. Reached(r) \subseteq Reached(r)'
    BY <2>1 DEF Reached
  <2>3. IsFiniteSet(Reached(r)')
    BY ConstantsAssumption, FS_Subset DEF Reached
  <2>4. /\ Cardinality(Reached(r)) <= Cardinality(Reached(r)')
        /\ Cardinality(Reached(r)) \in Nat /\ Cardinality(Reached(r)') \in Nat
    BY <2>2, <2>3, FS_Subset, FS_CardinalityType
  <2> QED BY <2>4, <1>0, <1>1
<1>2. ASSUME NEW m \in Node, NEW k, k = round'[m], k > 0
      PROVE  Cardinality(Reached(k)') >= Threshold
  <2>1. round[m] \in Nat
    BY Types
  <2>2. CASE round'[m] = round[m]
    <3>1. Cardinality(Reached(k)) >= Threshold
      BY <2>2, <1>2 DEF NoOutrun, Reached
    <3>2. k \in Nat
      BY <2>1, <2>2, <1>2
    <3> QED BY <3>1, <3>2, <1>1
  <2>3. CASE round'[m] # round[m]
    <3>1. Advance(n)
      BY <2>3 DEF Act, TakeTx, SendTLC, Propose, Register, GiveUp, Confirm, Deliver, HandleTLCMessage,
         Receive, Compute, RoundAck, HandleTLCAck, HandleConfirmedMessage, CountConfirmed, EnterRound,
         confirmVars
    <3>2. confirmPc[n] = "advance" /\ round' = [round EXCEPT ![n] = @ + 1]
      BY <3>1 DEF Advance
    <3>3. m = n /\ k = round[n] + 1
      BY <3>2, <2>3, <1>2 DEF TypeOK
    <3>4. hw3ex3
      BY <3>2 DEF RoundInv, NoRounds
    <3>5. /\ IsFiniteSet(finished[n]) /\ finished[n] \subseteq Nat /\ pending[n] \in Nat
          /\ Cardinality(finished[n]) = round[n] /\ pending[n] \notin finished[n]
      BY <3>2, <3>4, Types DEF RoundInv, Handshakes, Lockstep
    <3>6. PICK S \in SUBSET Nat : S = finished[n] \cup {pending[n]}
      BY <3>5
    <3>7. IsFiniteSet(S) /\ Cardinality(S) = round[n] + 1
      BY <3>5, <3>6, FS_AddElement
    <3>8. PICK r \in S : r >= round[n]
      BY <3>3, <3>7, <2>1, LateRound
    <3>9. r \in Nat /\ round[n] <= r
      BY <3>3, <3>8, <2>1
    <3>10. Cardinality(Counted(n, r)) >= Threshold
      BY <3>2, <3>6, <3>8 DEF CountInv, RoundsHaveThreshold
    <3>11. Cardinality(Reached(round[n] + 1)) >= Threshold
      BY <3>4, <3>9, <3>10, CountedHaveProposed DEF CountInv
    <3>12. Cardinality(Reached(k)) >= Threshold
      BY <3>3, <3>11
    <3>13. k \in Nat
      BY <3>3, <2>1
    <3> QED BY <3>12, <3>13, <1>1
  <2> QED BY <2>2, <2>3
<1>3. \A m \in Node : round'[m] > 0 => Cardinality(Reached(round[m])') >= Threshold
  <2>1. ASSUME NEW m \in Node, round'[m] > 0
        PROVE  Cardinality(Reached(round[m])') >= Threshold
    <3>1. PICK k : k = round'[m]
      OBVIOUS
    <3> QED BY <2>1, <3>1, <1>2
  <2> QED BY <2>1
<1> QED BY <1>0, <1>3 DEF NoOutrun, Reached
-----------------------------------------------------------------------------
(* The invariants that follow *)

\* HandleConfirmedMessage counts a majority, or a confirmation that overtook.
LEMMA MajorityOrMisplaced == IInv => AdvancesOnMajority
<1> SUFFICES ASSUME IInv, NEW n \in Node, NEW r \in finished[n],
                    \A c \in counted[n] : c.round = r => ~Misplaced(n, c)
             PROVE  \/ 2 * Cardinality({c[1] : c \in Counted(n, r)}) > N
                    \/ 2 * Cardinality({c[1] : c \in Counted(n, r)}) = N
  BY DEF AdvancesOnMajority
<1>1. TypeOK /\ LogInv /\ Tallies
  BY DEF IInv, CountInv
<1>2. PICK T : T = {c[1] : c \in Counted(n, r)}
  OBVIOUS
<1>3. hw3ex3
  BY DEF IInv, RoundInv, NoRounds
<1>4. ASSUME NEW c \in counted[n]
      PROVE  c.origin \in Node /\ Known(n, c.origin, c.id)
  <2>1. counted[n] \subseteq [round : Nat, origin : Node, id : Nat]
    BY <1>1, Types
  <2> QED BY <2>1, <1>1 DEF Tallies
<1>5. ASSUME NEW c \in counted[n], c.round = r
      PROVE  c.origin \in T
  <2>1. <<c.origin, c.id>> \in Counted(n, r)
    BY <1>5 DEF Counted
  <2>2. PICK x \in Counted(n, r) : x = <<c.origin, c.id>>
    BY <2>1
  <2>3. x[1] = c.origin
    BY <2>2
  <2> QED BY <2>3, <1>2
<1>6. T \subseteq Node
  <2>1. ASSUME NEW x \in Counted(n, r)
        PROVE  x[1] \in Node
    <3>1. PICK c \in counted[n] : x = <<c.origin, c.id>>
      BY DEF Counted
    <3> QED BY <3>1, <1>4
  <2> QED BY <2>1, <1>2
<1>7. IsFiniteSet(T) /\ Cardinality(T) \in Nat
  BY <1>6, ConstantsAssumption, FS_Subset, FS_CardinalityType
<1>8. ASSUME NEW c \in counted[n], c.round = r
      PROVE  c.id \in ComputedOf(n, c.origin) /\ roundOf[n][c.origin][c.id] = r
  <2>0. PICK o \in Node : o = c.origin
    BY <1>4
  <2>1. PICK id : o = c.origin /\ id = c.id /\ Known(n, o, id)
    BY <1>4, <2>0
  <2>2. id \in Nat /\ Proposal(o, id)
    BY <2>1, <1>1, KnownIsProposal
  <2>3. roundOf[n][o][id] = r /\ ~Awaited(n, o, id)
    BY <2>1, <1>8 DEF Misplaced, Awaited
  <2>4. n = o \/ id <= heard[n][o]
    <3>1. PICK i \in 1..Len(log[o]) : log[o][i] = id /\ id > 0 /\ (n = o \/ i <= heard[n][o])
      BY <2>1 DEF Known
    <3>2. id < i
      BY <3>1, <1>1, LogInvByNode DEF LogInvOf
    <3>3. heard[n][o] \in Nat /\ Len(log[o]) \in Nat
      BY <1>1, Types
    <3> QED BY <3>1, <3>2, <3>3, <2>2
  <2>5. id \in ComputedOf(n, o)
    BY <2>2, <2>3, <2>4 DEF ComputedOf, Computed, Proposal
  <2> QED BY <2>1, <2>3, <2>5
<1>9. \A c, d \in counted[n] : c.round = r /\ d.round = r /\ c.origin = d.origin => c.id = d.id
  <2>1. \A o \in Node : RoundsOf(n, o)
    BY <1>3 DEF IInv, ClockInv
  <2> QED BY <2>1, <1>4, <1>8 DEF RoundsOf
<1>10. Cardinality(Counted(n, r)) <= Cardinality(T)
  BY <1>1, <1>5, <1>7, <1>9, OnceByOrigin
<1>11. Cardinality(Counted(n, r)) >= Threshold /\ Cardinality(Counted(n, r)) \in Nat
  <2>1. Cardinality(Counted(n, r)) >= Threshold
    BY DEF IInv, CountInv, RoundsHaveThreshold
  <2> QED BY <2>1, <1>1, CountedFinite
<1>12. Threshold \in Nat /\ 2 * Threshold >= N /\ N \in Nat
  BY <1>1, ThresholdBounds, Types DEF N
<1>13. 2 * Cardinality(T) >= N
  BY <1>7, <1>10, <1>11, <1>12
<1>14. 2 * Cardinality(T) > N \/ 2 * Cardinality(T) = N
  BY <1>7, <1>12, <1>13
<1> QED BY <1>2, <1>14

\* A confirmation is some goroutine's, which had its threshold.
LEMMA ConfirmationIsHeld == IInv => ConfirmedIsHeld
<1> SUFFICES ASSUME IInv, N >= 3, NEW o \in Node, NEW i \in 1..Len(log[o]), log[o][i] > 0
             PROVE  Cardinality({o} \cup {n \in Node : heard[n][o] >= log[o][i]}) >= Threshold
  BY DEF ConfirmedIsHeld
<1>1. TypeOK /\ LogInv /\ ConfirmersAreHeld
  BY DEF IInv, HeardInv
<1>2. LogInvOf(o)
  BY <1>1, LogInvByNode
<1>3. log[o][i] # 0
  <2>1. log[o] \in Seq(Nat) /\ Len(log[o]) \in Nat
    BY <1>1, Types
  <2>2. log[o][i] \in Nat
    BY <2>1
  <2> QED BY <2>2
<1>4. PICK g \in sendTLC[o] : g.step = "over" /\ g.id = log[o][i]
  BY <1>2, <1>3 DEF LogInvOf
<1>5. Cardinality(Holders(o, g.id)) >= Threshold
  BY <1>1, <1>4 DEF ConfirmersAreHeld
<1> QED BY <1>4, <1>5 DEF Holders
-----------------------------------------------------------------------------
(* The specification *)

\* The initial state: nothing is in the log, nothing has been heard.
LEMMA InitInv == Init => IInv
<1> SUFFICES ASSUME Init PROVE IInv
  OBVIOUS
<1>1. \A n \in Node : log[n] = <<>> /\ Len(log[n]) = 0 /\ sendTLC[n] = {} /\ txs[n] = 0
  BY DEF Init
<1>2. \A o \in Node : MaxTx[o] \in Nat /\ MaxLog(o) \in Nat
  BY ConstantsAssumption DEF MaxLog
<1>3. ASSUME NEW n \in Node, NEW o \in Node
      PROVE  /\ roundOf[n][o] = [id \in 1..MaxLog(o) |-> 0]
             /\ roundOf[n][o] \in [1..MaxLog(o) -> Nat]
  <2>1. roundOf[n][o] = [id \in 1..MaxLog(o) |-> 0]
    BY DEF Init
  <2>2. [id \in 1..MaxLog(o) |-> 0] \in [1..MaxLog(o) -> Nat]
    OBVIOUS
  <2> QED BY <2>1, <2>2
<1>4. TypeOK
  <2>1. \A n, o \in Node : roundOf[n][o] \in [1..MaxLog(o) -> Nat]
    BY <1>3
  <2>2. log \in [Node -> Seq(Nat)]
    BY DEF Init
  <2>3. handoff \in [Node -> [id : Nat, open : BOOLEAN]]
    BY DEF Init, Idle
  <2> QED BY <2>1, <2>2, <2>3 DEF Init, TypeOK
<1>5. Shape
  <2>1. \A n \in Node : roundOf[n] = [o \in Node |-> [id \in 1..MaxLog(o) |-> 0]]
    BY DEF Init
  <2>2. \A o \in Node : [id \in 1..MaxLog(o) |-> 0] \in Table
    BY DEF Table
  <2>3. [o \in Node |-> [id \in 1..MaxLog(o) |-> 0]] \in [Node -> Table]
    BY <2>2
  <2>4. roundOf = [n \in Node |-> [o \in Node |-> [id \in 1..MaxLog(o) |-> 0]]]
    BY DEF Init
  <2> QED BY <2>3, <2>4 DEF Shape
<1>6. LogInv
  <2>1. \A n \in Node : LogInvOf(n)
    BY <1>1, <1>2 DEF LogInvOf
  <2> QED BY <2>1, LogInvByNode
<1>7. HeardInv
  <2>1. Heard
    BY <1>1 DEF Init, Heard
  <2>2. AcksAreHonest
    BY DEF Init, AcksAreHonest
  <2>3. ConfirmersAreHeld
    BY <1>1 DEF ConfirmersAreHeld
  <2> QED BY <2>1, <2>2, <2>3 DEF HeardInv
<1>8. RoundInv
  <2>1. ASSUME NEW n \in Node
        PROVE  RoundOfNode(n)
    <3>1. /\ finished[n] = {} /\ sendPc[n] = "idle" /\ confirmPc[n] = "receive"
          /\ round[n] = 0 /\ txs[n] = 0 /\ ackRound[n] = 0
      BY DEF Init
    <3>2. IsFiniteSet({}) /\ Cardinality({}) = 0
      BY FS_EmptySet
    <3> QED BY <3>1, <3>2 DEF RoundOfNode
  <2>2. Handshakes /\ Lockstep
    BY <2>1, RoundByNode
  <2>3. NoRounds
    BY DEF Init, NoRounds
  <2> QED BY <2>2, <2>3 DEF RoundInv
<1>9. ClockInv
  <2>1. ASSUME NEW n \in Node, NEW o \in Node
        PROVE  RoundsOf(n, o)
    <3>1. \A id : ~Computed(n, o, id)
      BY <1>1 DEF Computed, Proposal
    <3>2. ComputedOf(n, o) = {}
      BY <3>1 DEF ComputedOf
    <3>3. Cardinality(ComputedOf(n, o)) = 0
      BY <3>2, FS_EmptySet
    <3>4. clock[n][o] = 0
      BY DEF Init
    <3>5. clock[n][o] <= Cardinality(ComputedOf(n, o))
      BY <3>3, <3>4
    <3>6. \A id \in 1..MaxLog(o) : roundOf[n][o][id] = 0
      <4>1. roundOf[n][o] = [id \in 1..MaxLog(o) |-> 0]
        BY <1>3, Zenon
      <4> QED BY <4>1
    <3>7. \A id \in 1..MaxLog(o) :
            IF Computed(n, o, id) THEN roundOf[n][o][id] < clock[n][o] ELSE roundOf[n][o][id] = 0
      BY <3>1, <3>6
    <3>8. \A i, j \in ComputedOf(n, o) : roundOf[n][o][i] = roundOf[n][o][j] => i = j
      BY <3>2
    <3> QED BY <3>5, <3>7, <3>8 DEF RoundsOf
  <2> QED BY <2>1 DEF ClockInv
<1>10. CountInv
  <2>1. Tallies
    BY FS_EmptySet DEF Init, Tallies
  <2>2. RoundsHaveThreshold
    BY DEF Init, RoundsHaveThreshold
  <2> QED BY <2>1, <2>2 DEF CountInv
<1>11. NoOutrun
  BY DEF Init, NoOutrun
<1> QED BY <1>4, <1>5, <1>6, <1>7, <1>8, <1>9, <1>10, <1>11 DEF IInv

\* Every step of every gossiper keeps the invariant.
LEMMA StepInv == IInv /\ [Next]_vars => IInv'
<1> SUFFICES ASSUME IInv, [Next]_vars PROVE IInv'
  OBVIOUS
<1>1. CASE UNCHANGED vars
  <2>1. UNCHANGED <<flags, log, heard, handlers, clock, roundOf, sendPc, txs, sendTLC, acks, ackMap>>
    BY <1>1 DEF vars, gossipVars, clockVars, sendVars, ackVars
  <2>2. UNCHANGED <<finishMap, handoff, ackRound, tlcCache, confirmed, counted, confirmPc, pending,
                    finished, round>>
    BY <1>1 DEF vars, ackVars, roundAckVars, confirmVars
  <2>3. TypeOK' /\ Shape'
    BY <2>1, <2>2 DEF IInv, TypeOK, Shape, Table, MaxLog
  <2>4. LogInv'
    BY <2>1 DEF IInv, LogInv, Goroutines, LogIsSent, ConfirmedOnce
  <2>5. HeardInv'
    BY <2>1, <2>2 DEF IInv, HeardInv, Heard, Proposal, AcksAreHonest, ConfirmersAreHeld, Holders, N,
                      Threshold
  <2>6. RoundInv'
    BY <2>1, <2>2 DEF IInv, RoundInv, Handshakes, NoRounds, Lockstep, hw3ex3
  <2>7. ClockInv'
    <3>1. \A n, o \in Node : RoundsOf(n, o)' <=> RoundsOf(n, o)
      BY <2>1 DEF RoundsOf, ComputedOf, Computed, Awaited, Proposal, MaxLog
    <3> QED BY <3>1, <2>1 DEF IInv, ClockInv, hw3ex3
  <2>8. CountInv'
    <3>1. Tallies'
      BY <2>1, <2>2 DEF IInv, CountInv, Tallies, Known, Computed, Awaited, Proposal
    <3>2. RoundsHaveThreshold'
      BY <2>1, <2>2 DEF IInv, CountInv, RoundsHaveThreshold, Counted, N, Threshold
    <3> QED BY <3>1, <3>2 DEF CountInv
  <2>9. NoOutrun'
    BY <2>1, <2>2 DEF IInv, NoOutrun, Proposals, N, Threshold
  <2> QED BY <2>3, <2>4, <2>5, <2>6, <2>7, <2>8, <2>9 DEF IInv
<1>2. ASSUME NEW n \in Node, Act(n)
      PROVE  IInv'
  <2>1. /\ TypeOK /\ Shape /\ LogInv /\ HeardInv /\ Heard /\ RoundInv /\ NoRounds /\ ClockInv
        /\ CountInv /\ Tallies /\ RoundsHaveThreshold /\ NoOutrun
    BY DEF IInv, HeardInv, RoundInv, CountInv
  <2>2. TypeOK' /\ Shape'
    BY <2>1, <1>2, TypeStep
  <2>3. LogInv'
    BY <2>1, <1>2, LogStep
  <2>4. HeardInv'
    BY <2>1, <1>2, HeardInvStep
  <2>5. RoundInv'
    BY <2>1, <1>2, RoundInvStep
  <2>6. ClockInv'
    BY <2>1, <1>2, ClockInvStep
  <2>7. Tallies'
    BY <2>1, <1>2, TalliesStep
  <2>8. RoundsHaveThreshold'
    BY <2>1, <2>7, <1>2, RoundsHaveThresholdStep
  <2>9. NoOutrun'
    BY <2>1, <1>2, NoOutrunStep
  <2> QED BY <2>2, <2>3, <2>4, <2>5, <2>6, <2>7, <2>8, <2>9 DEF IInv, CountInv
<1>3. CASE Next
  <2>1. PICK n \in Node : Act(n)
    BY <1>3 DEF Next, Act
  <2> QED BY <2>1, <1>2
<1> QED BY <1>1, <1>3

\* Module ThresholdClock keeps the inductive invariant, whatever the number of
\* gossipers, the flags and the bounds.
THEOREM Invariance == Spec => []IInv
BY InitInv, StepInv, PTL DEF Spec

\* The state has the types that the code declares.
THEOREM TypeCorrect == Spec => []TypeOK
<1>1. IInv => TypeOK
  BY DEF IInv
<1> QED BY <1>1, Invariance, PTL

\* SendTLC confirms a proposal only when a threshold of gossipers holds it.
THEOREM ConfirmationsAreHeld == Spec => []ConfirmedIsHeld
BY ConfirmationIsHeld, Invariance, PTL

\* SendTLC confirms a proposal once, after it has made it.
THEOREM ConfirmationsAreUnique == Spec => []ConfirmedOnce
<1>1. IInv => ConfirmedOnce
  BY DEF IInv, LogInv
<1> QED BY <1>1, Invariance, PTL

\* The handshakes of HandleRoundSend, HandleConfirmedMessage and RoundTLCAck
\* keep their three counters of rounds together.
THEOREM CountersInLockstep == Spec => []Lockstep
<1>1. IInv => Lockstep
  BY DEF IInv, RoundInv
<1> QED BY <1>1, Invariance, PTL

\* HandleConfirmedMessage never takes its gossiper to a round for which fewer
\* than a threshold of gossipers have proposed.
THEOREM RoundsDoNotOutrun == Spec => []NoOutrun
<1>1. IInv => NoOutrun
  BY DEF IInv
<1> QED BY <1>1, Invariance, PTL

\* Every finished round had confirmations of half the gossipers or more, or
\* counted one that overtook the goroutine computing its proposal's round.
THEOREM RoundsHaveMajority == Spec => []AdvancesOnMajority
BY MajorityOrMisplaced, Invariance, PTL
=============================================================================
