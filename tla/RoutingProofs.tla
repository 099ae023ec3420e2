--------------------------- MODULE RoutingProofs ---------------------------
(***************************************************************************)
(* For every network of gossipers, every number of messages and packets'   *)
(* every way: next hops lead in a circle only through an entry that lags,  *)
(* a relay knows the destination or is about to, and a packet in a settled *)
(* network of at most HopLimit + 1 gossipers arrives within its limit.     *)
(***************************************************************************)
EXTENDS Routing, FiniteSetTheorems, WellFoundedInduction, TLAPS

PacketRecord == [state : {"none", "moving"} \cup Ended, dst : Node \cup {Nowhere},
                 at : Node \cup {Nowhere}, left : 1..HopLimit, calm : BOOLEAN]

\* n has learnt that p is a next hop towards o from message i of o.
Sourced(n, o, p, i) ==
  n # o /\ i \in 1..have[n][o] /\ i <= have[p][o] /\ log[o][i] = "routed"

\* An origin has all that it originated, nobody has more.
LogInv ==
  /\ \A o \in Node : have[o][o] = Len(log[o])
  /\ \A n, o \in Node : have[n][o] <= Len(log[o])

\* What waits for a router and what it has stored came with a message for it,
\* from a gossiper that had the message.
PendingInv ==
  \A n \in Node : \A pair \in pending[n] : Sourced(n, pair.origin, pair.relayer, pair.id)
TableInv ==
  \A n, o \in Node : IF table[n][o] = Nowhere THEN from[n][o] = 0
                                              ELSE Sourced(n, o, table[n][o], from[n][o])

\* n's router knows o, or a handler is about to tell it.
KnowsOrLearns(n, o) == table[n][o] # Nowhere \/ \E pair \in pending[n] : pair.origin = o

\* A message for the router has reached it or waits to.
KnownInv ==
  \A n, o \in Node :
    n # o /\ (\E i \in 1..have[n][o] : log[o][i] = "routed") => KnowsOrLearns(n, o)

\* The gossipers that gave n message i of o, as far as n's router still knows.
Givers(n, o, i) ==
  {p \in Node : \/ [origin |-> o, relayer |-> p, id |-> i] \in pending[n]
                \/ table[n][o] = p /\ from[n][o] = i}

\* One message spreads along a tree: no set of gossipers has it only from
\* among themselves.
TreeInv ==
  \A o \in Node : \A i \in Nat \ {0} : \A circle \in (SUBSET Node) \ {{}} :
    \E n \in circle : Givers(n, o, i) \cap circle = {}

\* The gossipers that a packet for d can come by from m on.
Onward(S, d) == \A m \in S : table[m][d] # Nowhere => table[m][d] \in S
Ahead(m, d) == {x \in Node : \A S \in SUBSET Node : m \in S /\ Onward(S, d) => x \in S}

\* No longer way than the hop limit allows: the code's limit of 10 is for
\* networks of at most 11 gossipers.
Reachable == IsFiniteSet(Node) /\ Cardinality(Node) <= HopLimit + 1

\* A packet under way is at a gossiper that knows its destination or is about
\* to.  While nobody announces anything a settled network stays as it is, and a
\* packet sent in it may take as many hops as there are gossipers ahead.
PacketOK(p) ==
  /\ p.state = "moving" => /\ p.at \in Node /\ p.dst \in Node
                           /\ p.at = p.dst \/ KnowsOrLearns(p.at, p.dst)
  /\ p.calm => /\ Settled
               /\ p.state = "unknown" => p.at = Nowhere
               /\ Reachable =>
                    /\ p.state # "limit"
                    /\ p.state = "moving" => Cardinality(Ahead(p.at, p.dst)) <= p.left

PacketInv == \A k \in Kind : PacketOK(packet[k])

RouteInv == LogInv /\ PendingInv /\ TableInv /\ KnownInv /\ TreeInv

IInv == TypeOK /\ RouteInv /\ PacketInv

-----------------------------------------------------------------------------
(* The last message learnt *)

\* A set of numbers has a least one.
LEMMA Least ==
  ASSUME NEW T \in SUBSET Nat, T # {}
  PROVE  \E m \in T : \A y \in T : m <= y
<1> DEFINE R == {ss \in Nat \X Nat : ss[1] < ss[2]}
<1>1. IsWellFoundedOn(R, Nat)
  BY NatLessThanWellFounded DEF OpToRel
<1>2. \A x, y \in Nat : <<y, x>> \in R <=> y < x
  OBVIOUS
<1> HIDE DEF R
<1>3. PICK x \in T : \A y \in T : ~ (<<y, x>> \in R)
  BY <1>1, WFMin
<1>4. \A y \in T : ~(y < x)
  BY <1>2, <1>3
<1> QED BY <1>4

\* A set of numbers with a bound has a largest one.
LEMMA Largest ==
  ASSUME NEW T \in SUBSET Nat, T # {}, NEW b \in Nat, \A y \in T : y <= b
  PROVE  \E m \in T : \A y \in T : y <= m
<1> DEFINE Below == {x \in Nat : b - x \in T}
<1>1. Below # {}
  <2>1. PICK y \in T : TRUE
    OBVIOUS
  <2>2. b - y \in Nat /\ b - (b - y) = y
    OBVIOUS
  <2> QED BY <2>1, <2>2
<1>2. PICK x \in Below : \A y \in Below : x <= y
  <2> HIDE DEF Below
  <2>1. Below \in SUBSET Nat
    BY DEF Below
  <2> QED BY <1>1, <2>1, Least
<1>3. b - x \in T
  OBVIOUS
<1>4. ASSUME NEW y \in T PROVE y <= b - x
  <2>1. b - y \in Nat /\ b - (b - y) = y
    OBVIOUS
  <2>2. b - y \in Below
    BY <2>1
  <2>3. x <= b - y
    BY <1>2, <2>2
  <2> QED BY <2>3
<1> QED BY <1>3, <1>4

\* What the tables and the logs are, entry by entry.
LEMMA Types ==
  ASSUME TypeOK, NEW n \in Node, NEW o \in Node
  PROVE  /\ have[n][o] \in Nat /\ from[n][o] \in Nat
         /\ table[n][o] \in Node \cup {Nowhere}
         /\ pending[n] \in SUBSET Pair
         /\ log[o] \in Seq({"routed", "block"}) /\ Len(log[o]) \in Nat
         /\ \A i \in 1..Len(log[o]) : log[o][i] \in {"routed", "block"}
<1>1. log[o] \in Seq({"routed", "block"})
  BY DEF TypeOK
<1> QED BY <1>1 DEF TypeOK

\* Latest is the last message for the router among those learnt.
LEMMA LatestIsLast ==
  ASSUME TypeOK, NEW n \in Node, NEW o \in Node
  PROVE  /\ Latest(n, o) \in Nat
         /\ \A i \in 1..have[n][o] : log[o][i] = "routed" => i <= Latest(n, o)
<1> DEFINE routed == {i \in 1..have[n][o] : log[o][i] = "routed"}
<1>1. have[n][o] \in Nat
  BY Types
<1>2. routed \cup {0} \in SUBSET Nat /\ \A y \in routed \cup {0} : y <= have[n][o]
  BY <1>1
<1>3. Latest(n, o) = CHOOSE m \in routed \cup {0} : \A i \in routed : i <= m
  BY DEF Latest
<1>4. \A i \in 1..have[n][o] : log[o][i] = "routed" => i \in routed
  OBVIOUS
<1> HIDE DEF routed
<1>5. PICK m \in routed \cup {0} : \A y \in routed \cup {0} : y <= m
  BY <1>1, <1>2, Largest
<1>6. /\ Latest(n, o) \in routed \cup {0}
      /\ \A i \in routed : i <= Latest(n, o)
  BY <1>3, <1>5, Zenon
<1> QED BY <1>2, <1>4, <1>6
-----------------------------------------------------------------------------
(* What the invariant says of circles *)

\* A table entry that stands on the last message has a giver that stands on a
\* later one or on the same; so a circle would have one message only from itself.
LEMMA NoCircleWithoutLag ==
  ASSUME TypeOK, RouteInv
  PROVE  LoopNeedsLag
<1> SUFFICES ASSUME NEW o \in Node, NEW circle \in (SUBSET Node) \ {{}},
                    \A n \in circle : table[n][o] \in circle,
                    \A n \in circle : ~(from[n][o] < Latest(n, o))
             PROVE  FALSE
  BY DEF LoopNeedsLag
<1> DEFINE marks == {from[n][o] : n \in circle}
<1>1. /\ marks \in SUBSET Nat /\ marks # {}
      /\ \A n \in circle : from[n][o] \in marks
      /\ \A i \in marks : \E n \in circle : i = from[n][o]
  <2>1. \A n \in circle : from[n][o] \in Nat
    BY Types
  <2>2. PICK n \in circle : TRUE
    OBVIOUS
  <2>3. from[n][o] \in marks
    OBVIOUS
  <2> QED BY <2>1, <2>3
<1>2. ASSUME NEW n \in circle
      PROVE  /\ table[n][o] \in circle /\ table[n][o] \in Node
             /\ n # o /\ from[n][o] \in 1..have[n][o] /\ from[n][o] <= Len(log[o])
             /\ from[n][o] <= have[table[n][o]][o]
             /\ log[o][from[n][o]] = "routed"
  <2>1. table[n][o] \in circle /\ table[n][o] \in Node /\ n \in Node
    OBVIOUS
  <2>2. table[n][o] # Nowhere
    BY <2>1, RoutingAssumption
  <2>3. Sourced(n, o, table[n][o], from[n][o])
    BY <2>1, <2>2 DEF RouteInv, TableInv
  <2>4. have[n][o] <= Len(log[o]) /\ have[n][o] \in Nat /\ Len(log[o]) \in Nat
    BY <2>1, Types DEF RouteInv, LogInv
  <2> QED BY <2>1, <2>3, <2>4 DEF Sourced
<1>3. \A i \in marks : i <= Len(log[o])
  BY <1>1, <1>2
<1> HIDE DEF marks
<1>4. Len(log[o]) \in Nat
  BY Types
<1>5. PICK last \in marks : \A i \in marks : i <= last
  BY <1>1, <1>3, <1>4, Largest
<1> DEFINE lasting == {n \in circle : from[n][o] = last}
<1>6. lasting \in (SUBSET Node) \ {{}}
  BY <1>1, <1>5
<1>7. last \in Nat \ {0}
  BY <1>1, <1>2, <1>5
<1>8. ASSUME NEW n \in lasting
      PROVE  table[n][o] \in lasting
  <2>1. table[n][o] \in circle /\ table[n][o] \in Node /\ n \in circle /\ from[n][o] = last
    BY <1>2
  <2>2. PICK p \in Node : p = table[n][o]
    BY <2>1
  <2>3. last <= have[p][o] /\ log[o][last] = "routed" /\ p \in circle
    BY <1>2, <2>1, <2>2
  <2>4. have[p][o] \in Nat /\ Latest(p, o) \in Nat /\ from[p][o] \in Nat
    BY Types, LatestIsLast
  <2>5. last \in 1..have[p][o]
    BY <1>7, <2>3, <2>4
  <2>6. last <= Latest(p, o)
    BY <2>3, <2>5, LatestIsLast
  <2>7. ~(from[p][o] < Latest(p, o))
    BY <2>3
  <2>8. from[p][o] <= last
    BY <1>1, <1>5, <2>3
  <2>9. from[p][o] = last
    BY <1>7, <2>4, <2>6, <2>7, <2>8
  <2> QED BY <2>2, <2>3, <2>9
<1>9. \A n \in lasting : table[n][o] \in Givers(n, o, last) \cap lasting
  BY <1>6, <1>8 DEF Givers
<1>10. \E n \in lasting : Givers(n, o, last) \cap lasting = {}
  BY <1>6, <1>7 DEF RouteInv, TreeInv
<1> QED BY <1>9, <1>10

\* No next hops of a settled network lead in a circle.
LEMMA SettledHasNoCircle ==
  ASSUME TypeOK, RouteInv, Settled,
         NEW d \in Node, NEW circle \in (SUBSET Node) \ {{}}
  PROVE  \E n \in circle : table[n][d] \notin circle
<1> SUFFICES ASSUME \A n \in circle : table[n][d] \in circle
             PROVE  FALSE
  OBVIOUS
<1>1. PICK n \in circle : from[n][d] < Latest(n, d)
  BY NoCircleWithoutLag DEF LoopNeedsLag
<1>2. table[n][d] # Nowhere /\ n \in Node
  BY RoutingAssumption
<1>3. n # d
  BY <1>2 DEF RouteInv, TableInv, Sourced
<1>4. from[n][d] = Latest(n, d)
  BY <1>2, <1>3 DEF Settled
<1>5. from[n][d] \in Nat
  BY <1>2, Types
<1> QED BY <1>1, <1>4, <1>5
-----------------------------------------------------------------------------
(* The gossipers ahead of a packet *)

\* A packet is among the gossipers ahead of it, and cannot leave them.
LEMMA AheadStays ==
  ASSUME TypeOK, NEW m \in Node, NEW d \in Node
  PROVE  /\ m \in Ahead(m, d) /\ Ahead(m, d) \in SUBSET Node
         /\ Onward(Ahead(m, d), d)
<1>1. m \in Ahead(m, d) /\ Ahead(m, d) \in SUBSET Node
  BY DEF Ahead
<1>2. ASSUME NEW x \in Ahead(m, d), table[x][d] # Nowhere
      PROVE  table[x][d] \in Ahead(m, d)
  <2>1. x \in Node /\ table[x][d] \in Node
    BY <1>1, <1>2, Types
  <2>2. ASSUME NEW S \in SUBSET Node, m \in S, Onward(S, d)
        PROVE  table[x][d] \in S
    <3>1. x \in S
      BY <2>2 DEF Ahead
    <3> QED BY <1>2, <2>2, <3>1 DEF Onward
  <2> QED BY <2>1, <2>2 DEF Ahead
<1> QED BY <1>1, <1>2 DEF Onward

\* ... and they are the fewest that it cannot leave.
LEMMA AheadIsLeast ==
  ASSUME NEW m \in Node, NEW d \in Node, NEW S \in SUBSET Node, m \in S, Onward(S, d)
  PROVE  Ahead(m, d) \subseteq S
BY DEF Ahead

\* A hop leaves at least its sender behind, when no next hops lead in a circle.
LEMMA HopLeavesBehind ==
  ASSUME TypeOK, NEW m \in Node, NEW d \in Node, table[m][d] # Nowhere,
         \A circle \in (SUBSET Node) \ {{}} : \E n \in circle : table[n][d] \notin circle
  PROVE  Ahead(table[m][d], d) \subseteq Ahead(m, d) \ {m}
<1>1. PICK p \in Node : p = table[m][d]
  BY Types
<1>2. Ahead(p, d) \subseteq Ahead(m, d)
  <2>1. /\ m \in Ahead(m, d) /\ Ahead(m, d) \in SUBSET Node
        /\ Onward(Ahead(m, d), d)
    BY AheadStays
  <2>2. p \in Ahead(m, d)
    BY <1>1, <2>1 DEF Onward
  <2> QED BY <2>1, <2>2, AheadIsLeast
<1>3. ASSUME NEW y \in Node, NEW S \in SUBSET Node, Onward(S, d),
             table[y][d] # Nowhere => table[y][d] \in S
      PROVE  Ahead(y, d) \subseteq S \cup {y}
  <2>1. S \cup {y} \in SUBSET Node /\ y \in S \cup {y}
    OBVIOUS
  <2>2. Onward(S \cup {y}, d)
    BY <1>3 DEF Onward
  <2> QED BY <2>1, <2>2, AheadIsLeast
<1>4. ASSUME m \in Ahead(p, d)
      PROVE  FALSE
  <2> DEFINE C == {y \in Node : m \in Ahead(y, d)}
  <2>1. m \in C /\ p \in C
    BY <1>4, AheadStays
  <2>2. ASSUME NEW y \in C
        PROVE  table[y][d] \in C
    <3>1. CASE table[y][d] = Nowhere
      <4>1. Ahead(y, d) \subseteq {} \cup {y}
        <5>1. Onward({}, d) /\ {} \in SUBSET Node
          BY DEF Onward
        <5> QED BY <1>3, <3>1, <5>1
      <4>2. m = y
        BY <4>1
      <4> QED BY <3>1, <4>2
    <3>2. CASE table[y][d] # Nowhere
      <4>1. PICK q \in Node : q = table[y][d]
        BY <3>2, Types
      <4>2. Ahead(y, d) \subseteq Ahead(q, d) \cup {y}
        <5>1. /\ Onward(Ahead(q, d), d) /\ Ahead(q, d) \in SUBSET Node
              /\ q \in Ahead(q, d)
          BY AheadStays
        <5> QED BY <1>3, <4>1, <5>1
      <4>3. CASE m = y
        BY <1>1, <2>1, <4>3
      <4>4. CASE m # y
        BY <4>1, <4>2, <4>4
      <4> QED BY <4>3, <4>4
    <3> QED BY <3>1, <3>2
  <2>3. C \in (SUBSET Node) \ {{}}
    BY <2>1
  <2> HIDE DEF C
  <2> QED BY <2>2, <2>3
<1> QED BY <1>1, <1>2, <1>4
-----------------------------------------------------------------------------
(* Init, and the steps that change what gossipers have learnt *)

\* The invariant holds initially.
LEMMA InitInv == Init => IInv
<1> SUFFICES ASSUME Init PROVE IInv
  OBVIOUS
<1>1. \A k \in Kind : packet[k] = None
  BY DEF Init
<1>2. None \in PacketRecord /\ None.state = "none" /\ ~None.calm
  BY RoutingAssumption DEF None, PacketRecord
<1>3. TypeOK
  <2>1. packet \in [Kind -> PacketRecord]
    BY <1>2 DEF Init
  <2>2. <<>> \in Seq({"routed", "block"})
    OBVIOUS
  <2> QED BY <2>1, <2>2 DEF Init, TypeOK, PacketRecord, Pair
<1>4. LogInv /\ PendingInv /\ TableInv
  BY DEF Init, LogInv, PendingInv, TableInv
<1>5. KnownInv
  BY DEF Init, KnownInv
<1>6. TreeInv
  <2> SUFFICES ASSUME NEW o \in Node, NEW i \in Nat \ {0}, NEW circle \in (SUBSET Node) \ {{}}
               PROVE  \E n \in circle : Givers(n, o, i) \cap circle = {}
    BY DEF TreeInv
  <2>1. PICK n \in circle : n \in Node
    OBVIOUS
  <2>2. pending[n] = {} /\ from[n][o] = 0
    BY <2>1 DEF Init
  <2>3. Givers(n, o, i) = {}
    BY <2>2 DEF Givers
  <2> QED BY <2>3
<1>7. PacketInv
  BY <1>1, <1>2 DEF PacketInv, PacketOK
<1> QED BY <1>3, <1>4, <1>5, <1>6, <1>7 DEF IInv, RouteInv

\* The type invariant in two parts, as steps change one or the other.
TypeOfRoutes ==
  /\ log \in [Node -> Seq({"routed", "block"})]
  /\ have \in [Node -> [Node -> Nat]]
  /\ pending \in [Node -> SUBSET Pair]
  /\ table \in [Node -> [Node -> Node \cup {Nowhere}]]
  /\ from \in [Node -> [Node -> Nat]]
TypeOfRest ==
  /\ locked \in [Node -> BOOLEAN] /\ deaf \in [Node -> BOOLEAN]
  /\ listing \in [Node -> BOOLEAN] /\ down \in [Node -> BOOLEAN]
  /\ packet \in [Kind -> PacketRecord]

\* The two parts are the whole.
LEMMA TypeParts == TypeOK <=> TypeOfRoutes /\ TypeOfRest
BY DEF TypeOK, TypeOfRoutes, TypeOfRest, PacketRecord

\* An announcement makes a log one longer and ends every packet's calm.
LEMMA AnnounceInv ==
  ASSUME IInv, NEW s \in Node, Announce(s)
  PROVE  IInv'
<1>0. TypeOfRoutes /\ TypeOfRest
  BY TypeParts DEF IInv
<1>1. PICK what \in {"routed", "block"} : log' = [log EXCEPT ![s] = Append(@, what)]
  BY DEF Announce
<1>2. /\ have' = [have EXCEPT ![s][s] = @ + 1]
      /\ packet' = [k \in Kind |-> [packet[k] EXCEPT !.calm = FALSE]]
      /\ UNCHANGED <<pending, table, from, locked, deaf, listing, down>>
  BY DEF Announce, routes, faults
<1>3. /\ log[s] \in Seq({"routed", "block"}) /\ Len(log[s]) \in Nat
      /\ log'[s] = Append(log[s], what)
      /\ \A o \in Node \ {s} : log'[o] = log[o]
  BY <1>0, <1>1 DEF TypeOfRoutes
<1>4. /\ log'[s] \in Seq({"routed", "block"})
      /\ Len(log'[s]) = Len(log[s]) + 1
      /\ \A i \in 1..Len(log[s]) : log'[s][i] = log[s][i]
  BY <1>3
<1>5. /\ \A n, o \in Node : have'[n][o] = IF n = s /\ o = s THEN have[n][o] + 1 ELSE have[n][o]
      /\ have' \in [Node -> [Node -> Nat]]
  <2>1. have \in [Node -> [Node -> Nat]] /\ have[s] \in [Node -> Nat] /\ have[s][s] + 1 \in Nat
    BY <1>0 DEF TypeOfRoutes
  <2>2. \A n \in Node : have[n] \in [Node -> Nat]
    BY <2>1
  <2>3. \A n \in Node : have'[n] = IF n = s THEN [have[s] EXCEPT ![s] = @ + 1] ELSE have[n]
    BY <1>2, <2>1
  <2>4. have' \in [Node -> [Node -> Nat]]
    BY <1>2, <2>1
  <2> QED BY <2>1, <2>2, <2>3, <2>4
<1>6. TypeOfRoutes'
  <2>1. log' \in [Node -> Seq({"routed", "block"})]
    BY <1>0, <1>1, <1>4 DEF TypeOfRoutes
  <2> QED BY <1>0, <1>2, <1>5, <2>1 DEF TypeOfRoutes
<1>7. \A k \in Kind : /\ packet'[k] \in PacketRecord /\ ~packet'[k].calm
                      /\ packet'[k].state = packet[k].state
                      /\ packet'[k].at = packet[k].at /\ packet'[k].dst = packet[k].dst
  <2> SUFFICES ASSUME NEW k \in Kind
               PROVE  /\ packet'[k] \in PacketRecord /\ ~packet'[k].calm
                      /\ packet'[k].state = packet[k].state
                      /\ packet'[k].at = packet[k].at /\ packet'[k].dst = packet[k].dst
    OBVIOUS
  <2>1. packet[k] \in PacketRecord
    BY <1>0 DEF TypeOfRest
  <2>2. packet'[k] = [packet[k] EXCEPT !.calm = FALSE]
    BY <1>2
  <2> QED BY <2>1, <2>2 DEF PacketRecord
<1>8. TypeOfRest'
  <2>1. packet' \in [Kind -> PacketRecord]
    BY <1>2, <1>7
  <2> QED BY <1>0, <1>2, <2>1 DEF TypeOfRest
<1>9. LogInv'
  <2>1. ASSUME NEW n \in Node, NEW o \in Node
        PROVE  have'[n][o] <= Len(log'[o]) /\ (n = o => have'[n][o] = Len(log'[o]))
    <3>1. have[n][o] \in Nat /\ Len(log[o]) \in Nat /\ have[n][o] <= Len(log[o])
      BY Types DEF IInv, RouteInv, LogInv
    <3>2. n = o => have[n][o] = Len(log[o])
      BY DEF IInv, RouteInv, LogInv
    <3>3. Len(log'[o]) = IF o = s THEN Len(log[o]) + 1 ELSE Len(log[o])
      BY <1>3, <1>4
    <3>4. have'[n][o] = IF n = s /\ o = s THEN have[n][o] + 1 ELSE have[n][o]
      BY <1>5
    <3> QED BY <3>1, <3>2, <3>3, <3>4
  <2> QED BY <2>1 DEF LogInv
<1>10. ASSUME NEW n \in Node, NEW o \in Node, NEW i \in 1..have[n][o]
       PROVE  log'[o][i] = log[o][i] /\ i \in 1..have'[n][o]
  <2>1. have[n][o] \in Nat /\ have[n][o] <= Len(log[o]) /\ Len(log[o]) \in Nat
    BY Types DEF IInv, RouteInv, LogInv
  <2>2. i \in 1..Len(log[o])
    BY <2>1
  <2>3. have'[n][o] >= have[n][o] /\ have'[n][o] \in Nat
    <3>1. have'[n][o] = IF n = s /\ o = s THEN have[n][o] + 1 ELSE have[n][o]
      BY <1>5
    <3> QED BY <2>1, <3>1
  <2>4. log'[o][i] = log[o][i]
    BY <1>3, <1>4, <2>2
  <2>5. i \in 1..have'[n][o]
    BY <2>1, <2>3
  <2> QED BY <2>4, <2>5
<1>11. ASSUME NEW n \in Node, NEW o \in Node, NEW p \in Node, NEW i, Sourced(n, o, p, i)
       PROVE  Sourced(n, o, p, i)'
  <2>1. i \in 1..have[n][o] /\ i <= have[p][o] /\ log[o][i] = "routed" /\ n # o
    BY <1>11 DEF Sourced
  <2>2. have[n][o] \in Nat /\ have[p][o] \in Nat
    BY Types DEF IInv
  <2>3. i <= have'[p][o]
    <3>1. have'[p][o] = IF p = s /\ o = s THEN have[p][o] + 1 ELSE have[p][o]
      BY <1>5
    <3> QED BY <2>1, <2>2, <3>1
  <2> QED BY <1>10, <2>1, <2>3 DEF Sourced
<1>12. PendingInv'
  <2> SUFFICES ASSUME NEW n \in Node, NEW pair \in pending[n]
               PROVE  Sourced(n, pair.origin, pair.relayer, pair.id)'
    BY <1>2 DEF PendingInv
  <2>1. pair \in Pair
    BY Types DEF IInv
  <2>2. pair.origin \in Node /\ pair.relayer \in Node
    BY <2>1 DEF Pair
  <2>3. Sourced(n, pair.origin, pair.relayer, pair.id)
    BY DEF IInv, RouteInv, PendingInv
  <2> QED BY <1>11, <2>2, <2>3
<1>13. TableInv'
  <2> SUFFICES ASSUME NEW n \in Node, NEW o \in Node
               PROVE  IF table[n][o] = Nowhere THEN from[n][o] = 0
                                               ELSE Sourced(n, o, table[n][o], from[n][o])'
    BY <1>2 DEF TableInv, Sourced
  <2>1. CASE table[n][o] = Nowhere
    BY <2>1 DEF IInv, RouteInv, TableInv
  <2>2. CASE table[n][o] # Nowhere
    <3>1. table[n][o] \in Node
      BY <2>2, Types DEF IInv
    <3>2. Sourced(n, o, table[n][o], from[n][o])
      BY <2>2 DEF IInv, RouteInv, TableInv
    <3>3. PICK p \in Node, i \in Nat : p = table[n][o] /\ i = from[n][o]
      BY <3>1, Types DEF IInv
    <3>4. Sourced(n, o, p, i)'
      BY <1>11, <3>2, <3>3
    <3> QED BY <1>2, <2>2, <3>3, <3>4 DEF Sourced
  <2> QED BY <2>1, <2>2
<1>14. \A n, o \in Node : KnowsOrLearns(n, o) => KnowsOrLearns(n, o)'
  BY <1>2 DEF KnowsOrLearns
<1>15. KnownInv'
  <2> SUFFICES ASSUME NEW n \in Node, NEW o \in Node, n # o,
                      NEW i \in 1..have'[n][o], log'[o][i] = "routed"
               PROVE  KnowsOrLearns(n, o)
    BY <1>14 DEF KnownInv
  <2>1. have'[n][o] = have[n][o]
    BY <1>5
  <2>2. i \in 1..have[n][o] /\ log[o][i] = "routed"
    BY <1>10, <2>1
  <2> QED BY <2>2 DEF IInv, RouteInv, KnownInv
<1>16. TreeInv'
  BY <1>2 DEF IInv, RouteInv, TreeInv, Givers
<1>17. PacketInv'
  BY <1>7, <1>14 DEF IInv, PacketInv, PacketOK
<1>18. TypeOK'
  BY <1>6, <1>8 DEF TypeOK, TypeOfRoutes, TypeOfRest, PacketRecord
<1> QED BY <1>9, <1>12, <1>13, <1>15, <1>16, <1>17, <1>18 DEF IInv, RouteInv

\* Who gave a message, and who took it, has it.
LEMMA GiversHave ==
  ASSUME IInv, NEW n \in Node, NEW o \in Node, NEW i \in Nat \ {0}, NEW q \in Givers(n, o, i)
  PROVE  q \in Node /\ i <= have[q][o] /\ i <= have[n][o]
<1>1. q \in Node /\ (\/ [origin |-> o, relayer |-> q, id |-> i] \in pending[n]
                     \/ table[n][o] = q /\ from[n][o] = i)
  BY DEF Givers
<1>2. have[n][o] \in Nat
  BY Types DEF IInv
<1>3. Sourced(n, o, q, i)
  <2>1. CASE [origin |-> o, relayer |-> q, id |-> i] \in pending[n]
    <3>1. PICK pair \in pending[n] : pair = [origin |-> o, relayer |-> q, id |-> i]
      BY <2>1
    <3>2. Sourced(n, pair.origin, pair.relayer, pair.id)
      BY DEF IInv, RouteInv, PendingInv
    <3>3. pair.origin = o /\ pair.relayer = q /\ pair.id = i
      BY <3>1
    <3> QED BY <3>2, <3>3
  <2>2. CASE table[n][o] = q /\ from[n][o] = i
    <3>1. table[n][o] # Nowhere
      BY <1>1, <2>2, RoutingAssumption
    <3> QED BY <2>2, <3>1 DEF IInv, RouteInv, TableInv
  <2> QED BY <1>1, <2>1, <2>2
<1> QED BY <1>1, <1>2, <1>3 DEF Sourced

\* In a settled network there is nothing to learn and nothing to route.
LEMMA SettledIsStill ==
  ASSUME IInv, Settled, NEW n \in Node
  PROVE  /\ pending[n] = {}
         /\ \A p, o \in Node : ~(have[n][o] < have[p][o])
<1>1. pending[n] = {}
  BY DEF Settled
<1>2. ASSUME NEW p \in Node, NEW o \in Node
      PROVE  ~(have[n][o] < have[p][o])
  <2>1. have[n][o] = Len(log[o])
    BY DEF Settled, IInv, RouteInv, LogInv
  <2>2. have[p][o] <= Len(log[o]) /\ have[p][o] \in Nat /\ Len(log[o]) \in Nat
    BY Types DEF IInv, RouteInv, LogInv
  <2> QED BY <2>1, <2>2
<1> QED BY <1>1, <1>2

\* What a gossiper learns it has from one that learnt it before.
LEMMA LearnInv ==
  ASSUME IInv, NEW n \in Node, NEW p \in Node, NEW o \in Node, Learn(n, p, o)
  PROVE  IInv'
<1>0. TypeOfRoutes /\ TypeOfRest
  BY TypeParts DEF IInv
<1>1. /\ p \in Peers[n] /\ have[n][o] < have[p][o]
      /\ UNCHANGED <<log, table, from, locked, deaf, listing, down, packet>>
  BY DEF Learn, routes, faults
<1>2. /\ have[n][o] \in Nat /\ have[p][o] \in Nat /\ Len(log[o]) \in Nat
      /\ have[p][o] <= Len(log[o]) /\ have[o][o] = Len(log[o])
  BY Types DEF IInv, RouteInv, LogInv
<1>3. n # o /\ n # p
  BY <1>1, <1>2, RoutingAssumption
<1>4. PICK id \in Nat \ {0} : id = have[n][o] + 1
  BY <1>2
<1>5. /\ have' = [have EXCEPT ![n][o] = id]
      /\ pending' = IF log[o][id] = "routed"
                      THEN [pending EXCEPT ![n] = @ \cup {[origin |-> o, relayer |-> p, id |-> id]}]
                      ELSE pending
  BY <1>4 DEF Learn
<1>6. PICK new \in Pair : new = [origin |-> o, relayer |-> p, id |-> id]
  BY DEF Pair
<1>7. new.origin = o /\ new.relayer = p /\ new.id = id
  BY <1>6
<1>8. \A m \in Node : /\ pending'[m] \subseteq pending[m] \cup {new}
                      /\ m # n \/ log[o][id] # "routed" => pending'[m] = pending[m]
                      /\ m = n /\ log[o][id] = "routed" => new \in pending'[m]
                      /\ pending[m] \subseteq pending'[m]
  BY <1>0, <1>5, <1>6 DEF TypeOfRoutes
<1>9. pending' \in [Node -> SUBSET Pair]
  BY <1>0, <1>5, <1>6 DEF TypeOfRoutes
<1>10. /\ \A m, q \in Node : have'[m][q] = IF m = n /\ q = o THEN id ELSE have[m][q]
       /\ have' \in [Node -> [Node -> Nat]]
  <2>1. have \in [Node -> [Node -> Nat]] /\ have[n] \in [Node -> Nat]
    BY <1>0 DEF TypeOfRoutes
  <2>2. \A m \in Node : have[m] \in [Node -> Nat]
    BY <2>1
  <2>3. \A m \in Node : have'[m] = IF m = n THEN [have[n] EXCEPT ![o] = id] ELSE have[m]
    BY <1>5, <2>1
  <2>4. have' \in [Node -> [Node -> Nat]]
    BY <1>5, <2>1
  <2> QED BY <2>1, <2>2, <2>3, <2>4
<1>11. TypeOK'
  BY <1>0, <1>1, <1>9, <1>10 DEF TypeOK, TypeOfRoutes, TypeOfRest, PacketRecord
<1>12. \A m, q \in Node : have[m][q] \in Nat /\ have[m][q] <= have'[m][q] /\ have'[m][q] \in Nat
  <2> SUFFICES ASSUME NEW m \in Node, NEW q \in Node
               PROVE  have[m][q] \in Nat /\ have[m][q] <= have'[m][q] /\ have'[m][q] \in Nat
    OBVIOUS
  <2>1. have[m][q] \in Nat
    BY Types DEF IInv
  <2>2. have'[m][q] = IF m = n /\ q = o THEN id ELSE have[m][q]
    BY <1>10
  <2> QED BY <1>4, <2>1, <2>2
<1>13. LogInv'
  <2>1. ASSUME NEW m \in Node, NEW q \in Node
        PROVE  have'[m][q] <= Len(log[q]) /\ (m = q => have'[m][q] = Len(log[q]))
    <3>1. have'[m][q] = IF m = n /\ q = o THEN id ELSE have[m][q]
      BY <1>10
    <3>2. have[m][q] <= Len(log[q]) /\ (m = q => have[m][q] = Len(log[q]))
      BY DEF IInv, RouteInv, LogInv
    <3>3. id <= Len(log[o])
      BY <1>1, <1>2, <1>4
    <3> QED BY <1>3, <3>1, <3>2, <3>3
  <2> QED BY <1>1, <2>1 DEF LogInv
<1>14. ASSUME NEW m \in Node, NEW q \in Node, NEW r \in Node, NEW i, Sourced(m, q, r, i)
       PROVE  Sourced(m, q, r, i)'
  <2>1. i \in 1..have[m][q] /\ i <= have[r][q] /\ log[q][i] = "routed" /\ m # q
    BY <1>14 DEF Sourced
  <2>2. i \in 1..have'[m][q] /\ i <= have'[r][q]
    BY <1>12, <2>1
  <2> QED BY <1>1, <2>1, <2>2 DEF Sourced
<1>15. PendingInv'
  <2> SUFFICES ASSUME NEW m \in Node, NEW pair \in pending'[m]
               PROVE  Sourced(m, pair.origin, pair.relayer, pair.id)'
    BY DEF PendingInv
  <2>1. CASE pair \in pending[m]
    <3>1. pair \in Pair
      BY <2>1, Types DEF IInv
    <3>2. pair.origin \in Node /\ pair.relayer \in Node
      BY <3>1 DEF Pair
    <3>3. Sourced(m, pair.origin, pair.relayer, pair.id)
      BY <2>1 DEF IInv, RouteInv, PendingInv
    <3> QED BY <1>14, <3>2, <3>3
  <2>2. CASE pair \notin pending[m]
    <3>1. pair = new /\ m = n /\ log[o][id] = "routed"
      BY <1>8, <2>2
    <3>2. have'[n][o] = id /\ have'[p][o] = have[p][o]
      BY <1>3, <1>10
    <3>3. id \in 1..have'[n][o] /\ id <= have'[p][o]
      BY <1>1, <1>2, <1>4, <3>2
    <3>4. Sourced(n, o, p, id)'
      BY <1>1, <1>3, <3>1, <3>3 DEF Sourced
    <3> QED BY <1>7, <3>1, <3>4
  <2> QED BY <2>1, <2>2
<1>16. TableInv'
  <2> SUFFICES ASSUME NEW m \in Node, NEW q \in Node
               PROVE  IF table[m][q] = Nowhere THEN from[m][q] = 0
                                               ELSE Sourced(m, q, table[m][q], from[m][q])'
    BY <1>1 DEF TableInv, Sourced
  <2>1. CASE table[m][q] = Nowhere
    BY <2>1 DEF IInv, RouteInv, TableInv
  <2>2. CASE table[m][q] # Nowhere
    <3>1. table[m][q] \in Node
      BY <2>2, Types DEF IInv
    <3>2. Sourced(m, q, table[m][q], from[m][q])
      BY <2>2 DEF IInv, RouteInv, TableInv
    <3>3. PICK r \in Node, i \in Nat : r = table[m][q] /\ i = from[m][q]
      BY <3>1, Types DEF IInv
    <3>4. Sourced(m, q, r, i)'
      BY <1>14, <3>2, <3>3
    <3> QED BY <1>1, <2>2, <3>3, <3>4 DEF Sourced
  <2> QED BY <2>1, <2>2
<1>17. \A m, q \in Node : KnowsOrLearns(m, q) => KnowsOrLearns(m, q)'
  BY <1>1, <1>8 DEF KnowsOrLearns
<1>18. KnownInv'
  <2> SUFFICES ASSUME NEW m \in Node, NEW q \in Node, m # q,
                      NEW i \in 1..have'[m][q], log[q][i] = "routed"
               PROVE  KnowsOrLearns(m, q)'
    BY <1>1 DEF KnownInv
  <2>1. CASE i \in 1..have[m][q]
    BY <1>17, <2>1 DEF IInv, RouteInv, KnownInv
  <2>2. CASE i \notin 1..have[m][q]
    <3>1. have[m][q] \in Nat /\ have'[m][q] \in Nat /\ have'[m][q] = IF m = n /\ q = o THEN id ELSE have[m][q]
      BY <1>10, <1>12
    <3>2. m = n /\ q = o /\ i = id
      BY <1>4, <2>2, <3>1
    <3>3. new \in pending'[m] /\ new.origin = q
      BY <1>7, <1>8, <3>2
    <3> QED BY <3>3 DEF KnowsOrLearns
  <2> QED BY <2>1, <2>2
<1>19. TreeInv'
  <2> SUFFICES ASSUME NEW q \in Node, NEW i \in Nat \ {0}, NEW circle \in (SUBSET Node) \ {{}}
               PROVE  \E m \in circle : Givers(m, q, i)' \cap circle = {}
    BY DEF TreeInv
  <2>1. ASSUME NEW C \in (SUBSET Node) \ {{}}
        PROVE  \E m \in C : m \in Node /\ Givers(m, q, i) \cap C = {}
    <3>1. \E m \in C : Givers(m, q, i) \cap C = {}
      BY DEF IInv, RouteInv, TreeInv
    <3> QED BY <3>1
  <2>2. \A m \in Node : /\ Givers(m, q, i)' \subseteq Givers(m, q, i) \cup {p}
                        /\ m # n \/ q # o \/ i # id => Givers(m, q, i)' = Givers(m, q, i)
    BY <1>1, <1>6, <1>8 DEF Givers
  <2>3. CASE q # o \/ i # id \/ n \notin circle \/ p \notin circle
    <3>1. PICK m \in circle : m \in Node /\ Givers(m, q, i) \cap circle = {}
      BY <2>1
    <3> QED BY <2>2, <2>3, <3>1
  <2>4. CASE q = o /\ i = id /\ n \in circle /\ p \in circle
    <3>1. circle \ {n} \in (SUBSET Node) \ {{}}
      BY <1>3, <2>4
    <3>2. PICK m \in circle \ {n} : m \in Node /\ Givers(m, q, i) \cap (circle \ {n}) = {}
      BY <2>1, <3>1
    <3>3. n \notin Givers(m, q, i)
      BY <1>2, <1>4, <2>4, <3>2, GiversHave
    <3> QED BY <2>2, <3>2, <3>3
  <2> QED BY <2>3, <2>4
<1>20. \A k \in Kind : ~packet[k].calm
  BY <1>1, SettledIsStill DEF IInv, PacketInv, PacketOK
<1>21. PacketInv'
  BY <1>1, <1>17, <1>20 DEF IInv, PacketInv, PacketOK
<1> QED BY <1>11, <1>13, <1>15, <1>16, <1>18, <1>19, <1>21 DEF IInv, RouteInv

\* The router stores what it was fed: a handler's word becomes an entry.
LEMMA RouteStepInv ==
  ASSUME IInv, NEW n \in Node, Route(n)
  PROVE  IInv'
<1>0. TypeOfRoutes /\ TypeOfRest
  BY TypeParts DEF IInv
<1>1. PICK pair \in pending[n] :
        /\ Store(n, pair)
        /\ pending' = [pending EXCEPT ![n] = @ \ {pair}]
  BY DEF Route
<1>2. /\ UNCHANGED <<log, have, locked, deaf, listing, packet>>
      /\ \E hit \in BOOLEAN : down' = [down EXCEPT ![n] = hit]
  <2>1. \E hit \in IF listing[n] THEN BOOLEAN ELSE {FALSE} : down' = [down EXCEPT ![n] = hit]
    BY DEF Route
  <2>2. PICK hit \in BOOLEAN : down' = [down EXCEPT ![n] = hit]
    BY <2>1
  <2> QED BY <2>2 DEF Route, learnt
<1>3. pair \in Pair
  BY Types DEF IInv
<1>4. PICK o \in Node, p \in Node, id \in Nat \ {0} :
        pair = [origin |-> o, relayer |-> p, id |-> id]
  BY <1>3 DEF Pair
<1>5. pair.origin = o /\ pair.relayer = p /\ pair.id = id
  BY <1>4
<1>6. /\ table' = [table EXCEPT ![n][o] = p]
      /\ from' = [from EXCEPT ![n][o] = id]
  BY <1>1, <1>5 DEF Store
<1>7. /\ \A m, q \in Node : table'[m][q] = IF m = n /\ q = o THEN p ELSE table[m][q]
      /\ table' \in [Node -> [Node -> Node \cup {Nowhere}]]
  <2>1. table \in [Node -> [Node -> Node \cup {Nowhere}]]
        /\ table[n] \in [Node -> Node \cup {Nowhere}]
    BY <1>0 DEF TypeOfRoutes
  <2>2. \A m \in Node : table[m] \in [Node -> Node \cup {Nowhere}]
    BY <2>1
  <2>3. \A m \in Node : table'[m] = IF m = n THEN [table[n] EXCEPT ![o] = p] ELSE table[m]
    BY <1>6, <2>1
  <2>4. table' \in [Node -> [Node -> Node \cup {Nowhere}]]
    BY <1>6, <2>1
  <2> QED BY <2>1, <2>2, <2>3, <2>4
<1>8. /\ \A m, q \in Node : from'[m][q] = IF m = n /\ q = o THEN id ELSE from[m][q]
      /\ from' \in [Node -> [Node -> Nat]]
  <2>1. from \in [Node -> [Node -> Nat]] /\ from[n] \in [Node -> Nat]
    BY <1>0 DEF TypeOfRoutes
  <2>2. \A m \in Node : from[m] \in [Node -> Nat]
    BY <2>1
  <2>3. \A m \in Node : from'[m] = IF m = n THEN [from[n] EXCEPT ![o] = id] ELSE from[m]
    BY <1>6, <2>1
  <2>4. from' \in [Node -> [Node -> Nat]]
    BY <1>6, <2>1
  <2> QED BY <2>1, <2>2, <2>3, <2>4
<1>9. /\ \A m \in Node : /\ pending'[m] \subseteq pending[m]
                         /\ pending[m] \subseteq pending'[m] \cup {pair}
                         /\ m # n => pending'[m] = pending[m]
      /\ pending' \in [Node -> SUBSET Pair]
  BY <1>0, <1>1 DEF TypeOfRoutes
<1>10. TypeOK'
  <2>1. down' \in [Node -> BOOLEAN]
    BY <1>0, <1>2 DEF TypeOfRest
  <2>2. TypeOfRoutes'
    BY <1>0, <1>2, <1>7, <1>8, <1>9 DEF TypeOfRoutes
  <2> QED BY <1>0, <1>2, <2>1, <2>2 DEF TypeOK, TypeOfRoutes, TypeOfRest, PacketRecord
<1>11. LogInv'
  BY <1>2 DEF IInv, RouteInv, LogInv
<1>12. PendingInv'
  BY <1>2, <1>9 DEF IInv, RouteInv, PendingInv, Sourced
<1>13. Sourced(n, o, p, id)
  BY <1>5 DEF IInv, RouteInv, PendingInv
<1>14. TableInv'
  <2> SUFFICES ASSUME NEW m \in Node, NEW q \in Node
               PROVE  IF table'[m][q] = Nowhere THEN from'[m][q] = 0
                                                ELSE Sourced(m, q, table'[m][q], from'[m][q])
    BY <1>2 DEF TableInv, Sourced
  <2>1. CASE m = n /\ q = o
    <3>1. table'[m][q] = p /\ from'[m][q] = id /\ p # Nowhere
      BY <1>7, <1>8, <2>1, RoutingAssumption
    <3> QED BY <1>13, <2>1, <3>1
  <2>2. CASE ~(m = n /\ q = o)
    <3>1. table'[m][q] = table[m][q] /\ from'[m][q] = from[m][q]
      BY <1>7, <1>8, <2>2
    <3> QED BY <3>1 DEF IInv, RouteInv, TableInv
  <2> QED BY <2>1, <2>2
<1>15. ASSUME NEW m \in Node, NEW q \in Node, KnowsOrLearns(m, q)
       PROVE  KnowsOrLearns(m, q)'
  <2>1. CASE m = n /\ q = o
    <3>1. table'[m][q] = p /\ p # Nowhere
      BY <1>7, <2>1, RoutingAssumption
    <3> QED BY <3>1 DEF KnowsOrLearns
  <2>2. CASE ~(m = n /\ q = o)
    <3>1. table'[m][q] = table[m][q]
      BY <1>7, <2>2
    <3>2. \A x \in pending[m] : x.origin = q => x \in pending'[m]
      BY <1>5, <1>9, <2>2
    <3> QED BY <1>15, <3>1, <3>2 DEF KnowsOrLearns
  <2> QED BY <2>1, <2>2
<1>16. KnownInv'
  BY <1>2, <1>15 DEF IInv, RouteInv, KnownInv
<1>17. ASSUME NEW m \in Node, NEW q \in Node, NEW i \in Nat \ {0}
       PROVE  Givers(m, q, i)' \subseteq Givers(m, q, i)
  <2>1. CASE m = n /\ q = o
    <3>1. table'[m][q] = p /\ from'[m][q] = id
      BY <1>7, <1>8, <2>1
    <3>2. ASSUME i = id PROVE [origin |-> q, relayer |-> p, id |-> i] \in pending[m]
      BY <1>4, <2>1, <3>2
    <3> QED BY <1>9, <3>1, <3>2 DEF Givers
  <2>2. CASE ~(m = n /\ q = o)
    <3>1. table'[m][q] = table[m][q] /\ from'[m][q] = from[m][q]
      BY <1>7, <1>8, <2>2
    <3> QED BY <1>9, <3>1 DEF Givers
  <2> QED BY <2>1, <2>2
<1>18. TreeInv'
  <2> SUFFICES ASSUME NEW q \in Node, NEW i \in Nat \ {0}, NEW circle \in (SUBSET Node) \ {{}}
               PROVE  \E m \in circle : Givers(m, q, i)' \cap circle = {}
    BY DEF TreeInv
  <2>1. PICK m \in circle : Givers(m, q, i) \cap circle = {}
    BY DEF IInv, RouteInv, TreeInv
  <2>2. Givers(m, q, i)' \subseteq Givers(m, q, i)
    BY <1>17
  <2> QED BY <2>1, <2>2
<1>19. \A k \in Kind : ~packet[k].calm
  BY <1>1, SettledIsStill DEF IInv, PacketInv, PacketOK
<1>20. PacketInv'
  BY <1>2, <1>15, <1>19 DEF IInv, PacketInv, PacketOK
<1> QED BY <1>10, <1>11, <1>12, <1>14, <1>16, <1>18, <1>20 DEF IInv, RouteInv
-----------------------------------------------------------------------------
(* Steps that move packets *)

\* Steps that leave the logs, the router and the packets alone.
LEMMA RoutesUnchanged ==
  ASSUME IInv, UNCHANGED <<log, have, pending, table, from>>
  PROVE  RouteInv'
<1>1. LogInv' /\ PendingInv' /\ TableInv'
  BY DEF IInv, RouteInv, LogInv, PendingInv, TableInv, Sourced
<1>2. KnownInv'
  BY DEF IInv, RouteInv, KnownInv, KnowsOrLearns
<1>3. TreeInv'
  BY DEF IInv, RouteInv, TreeInv, Givers
<1> QED BY <1>1, <1>2, <1>3 DEF RouteInv

\* What holds of a packet is about it, the logs and the router.
LEMMA PacketStays ==
  ASSUME NEW p, PacketOK(p), UNCHANGED <<log, have, pending, table, from>>
  PROVE  PacketOK(p)'
<1>1. Settled' = Settled
  BY DEF Settled, Latest
<1>2. \A n, d : KnowsOrLearns(n, d)' = KnowsOrLearns(n, d)
  BY DEF KnowsOrLearns
<1>3. \A n, d : Ahead(n, d)' = Ahead(n, d)
  BY DEF Ahead, Onward
<1> QED BY <1>1, <1>2, <1>3 DEF PacketOK

\* One packet becomes r, and flags may change.
LEMMA PacketStep ==
  ASSUME IInv, UNCHANGED <<log, have, pending, table, from, listing, down>>,
         locked' \in [Node -> BOOLEAN], deaf' \in [Node -> BOOLEAN],
         NEW k \in Kind, NEW r \in PacketRecord, PacketOK(r),
         packet' = [packet EXCEPT ![k] = r]
  PROVE  IInv'
<1>0. TypeOfRoutes /\ TypeOfRest
  BY TypeParts DEF IInv
<1>1. /\ packet' \in [Kind -> PacketRecord] /\ packet'[k] = r
      /\ \A j \in Kind \ {k} : packet'[j] = packet[j]
  BY <1>0 DEF TypeOfRest
<1>2. TypeOK'
  BY <1>0, <1>1 DEF TypeOK, TypeOfRoutes, TypeOfRest, PacketRecord
<1>3. RouteInv'
  BY RoutesUnchanged
<1>4. ASSUME NEW j \in Kind
      PROVE  PacketOK(packet[j])'
  <2>1. PICK p \in PacketRecord : p = packet'[j]
    BY <1>1
  <2>2. PacketOK(p)
    BY <1>1, <2>1 DEF IInv, PacketInv
  <2>3. PacketOK(p)'
    BY <2>2, PacketStays
  <2> QED BY <2>1, <2>3 DEF PacketOK
<1>5. PacketInv'
  BY <1>4 DEF PacketInv
<1> QED BY <1>2, <1>3, <1>5 DEF IInv

\* A next hop is the destination, or knows or is about to know where to go on.
LEMMA NextHopKnows ==
  ASSUME IInv, NEW n \in Node, NEW d \in Node, table[n][d] # Nowhere
  PROVE  /\ table[n][d] \in Node
         /\ table[n][d] = d \/ KnowsOrLearns(table[n][d], d)
<1>1. PICK p \in Node, i \in Nat : p = table[n][d] /\ i = from[n][d]
  BY Types DEF IInv
<1>2. Sourced(n, d, p, i)
  BY <1>1 DEF IInv, RouteInv, TableInv
<1>3. have[p][d] \in Nat /\ i \in 1..have[p][d] /\ log[d][i] = "routed"
  BY <1>2, Types DEF IInv, Sourced
<1>4. p # d => KnowsOrLearns(p, d)
  BY <1>3 DEF IInv, RouteInv, KnownInv
<1> QED BY <1>1, <1>4

\* A hop in a settled network has fewer gossipers ahead than its sender had.
LEMMA CalmHop ==
  ASSUME IInv, Settled, IsFiniteSet(Node), NEW n \in Node, NEW d \in Node, table[n][d] # Nowhere
  PROVE  /\ Cardinality(Ahead(table[n][d], d)) \in Nat \ {0}
         /\ Cardinality(Ahead(n, d)) \in Nat
         /\ Cardinality(Ahead(table[n][d], d)) < Cardinality(Ahead(n, d))
         /\ Cardinality(Ahead(n, d)) <= Cardinality(Node)
<1>1. PICK p \in Node : p = table[n][d]
  BY Types DEF IInv
<1>2. Ahead(p, d) \subseteq Ahead(n, d) \ {n}
  BY <1>1, SettledHasNoCircle, HopLeavesBehind DEF IInv
<1>3. /\ p \in Ahead(p, d) /\ n \in Ahead(n, d)
      /\ Ahead(p, d) \in SUBSET Node /\ Ahead(n, d) \in SUBSET Node
  BY AheadStays DEF IInv
<1>4. /\ IsFiniteSet(Ahead(n, d)) /\ IsFiniteSet(Ahead(p, d))
      /\ Cardinality(Ahead(n, d)) <= Cardinality(Node)
  BY <1>3, FS_Subset
<1>5. /\ IsFiniteSet(Ahead(n, d) \ {n})
      /\ Cardinality(Ahead(n, d) \ {n}) = Cardinality(Ahead(n, d)) - 1
  BY <1>3, <1>4, FS_RemoveElement
<1>6. Cardinality(Ahead(p, d)) <= Cardinality(Ahead(n, d) \ {n})
  BY <1>2, <1>5, FS_Subset
<1>7. /\ Cardinality(Ahead(n, d)) \in Nat /\ Cardinality(Ahead(p, d)) \in Nat
      /\ Cardinality(Ahead(p, d)) # 0
  BY <1>3, <1>4, FS_CardinalityType, FS_EmptySet
<1> QED BY <1>1, <1>4, <1>5, <1>6, <1>7

\* The limit of a packet is within its type: nothing wraps.
LEMMA Decremented ==
  ASSUME NEW left \in 1..HopLimit
  PROVE  Decrement(left) = left - 1
<1>1. left - 1 \in Nat /\ MaxUint + 1 \in Nat \ {0} /\ left - 1 < MaxUint + 1
  BY RoutingAssumption
<1>2. \A a \in Nat, b \in Nat \ {0} : a < b => a % b = a
  OBVIOUS
<1> QED BY <1>1, <1>2 DEF Decrement

\* A packet under way in a settled network: its gossiper is its destination, or
\* has a next hop and two hops left.
LEMMA CalmMoves ==
  ASSUME IInv, NEW k \in Kind, packet[k].calm, packet[k].state = "moving",
         packet[k].at # packet[k].dst
  PROVE  /\ table[packet[k].at][packet[k].dst] # Nowhere
         /\ Reachable =>
              /\ packet[k].left - 1 # 0
              /\ Cardinality(Ahead(table[packet[k].at][packet[k].dst], packet[k].dst))
                   <= packet[k].left - 1
<1>1. PICK n \in Node, d \in Node : n = packet[k].at /\ d = packet[k].dst
  BY DEF IInv, PacketInv, PacketOK
<1>2. /\ Settled /\ KnowsOrLearns(n, d)
      /\ Reachable => Cardinality(Ahead(n, d)) <= packet[k].left
  BY <1>1 DEF IInv, PacketInv, PacketOK
<1>3. table[n][d] # Nowhere
  BY <1>2, SettledIsStill DEF KnowsOrLearns
<1>4. packet[k].left \in 1..HopLimit /\ HopLimit \in Nat
  BY TypeParts, RoutingAssumption DEF IInv, TypeOfRest, PacketRecord
<1>5. Reachable => /\ Cardinality(Ahead(table[n][d], d)) \in Nat \ {0}
                   /\ Cardinality(Ahead(n, d)) \in Nat
                   /\ Cardinality(Ahead(table[n][d], d)) < Cardinality(Ahead(n, d))
  BY <1>2, <1>3, CalmHop DEF Reachable
<1>6. Reachable => /\ packet[k].left - 1 # 0
                   /\ Cardinality(Ahead(table[n][d], d)) <= packet[k].left - 1
  BY <1>2, <1>4, <1>5
<1> QED BY <1>1, <1>3, <1>6

\* A packet that comes to an end is not in the way of the invariant, ...
LEMMA PacketEnds ==
  ASSUME IInv, NEW k \in Kind, NEW how \in Ended, packet[k].state = "moving",
         packet[k].calm => how # "unknown" /\ (Reachable => how # "limit")
  PROVE  /\ [packet[k] EXCEPT !.state = how] \in PacketRecord
         /\ PacketOK([packet[k] EXCEPT !.state = how])
<1>1. packet[k] \in PacketRecord
  BY TypeParts DEF IInv, TypeOfRest
<1>2. PICK r : r = [packet[k] EXCEPT !.state = how]
  OBVIOUS
<1>3. r \in PacketRecord /\ r.state = how /\ r.calm = packet[k].calm
  BY <1>1, <1>2 DEF PacketRecord
<1>4. PacketOK(packet[k])
  BY DEF IInv, PacketInv
<1>5. PacketOK(r)
  BY <1>3, <1>4 DEF PacketOK, Ended
<1> QED BY <1>2, <1>3, <1>5

\* ... nor is one that is sent on.
LEMMA PacketHops ==
  ASSUME IInv, NEW n \in Node, NEW k \in Kind, Arrives(n, k),
         packet[k].dst # n, packet[k].left - 1 # 0, table[n][packet[k].dst] # Nowhere
  PROVE  LET r == [packet[k] EXCEPT !.at = table[n][packet[k].dst], !.left = packet[k].left - 1]
         IN  r \in PacketRecord /\ PacketOK(r)
<1>1. packet[k] \in PacketRecord /\ packet[k].state = "moving" /\ packet[k].at = n
  BY TypeParts DEF IInv, TypeOfRest, Arrives
<1>2. PacketOK(packet[k])
  BY DEF IInv, PacketInv
<1>3. PICK d \in Node : d = packet[k].dst
  BY <1>1, <1>2 DEF PacketOK
<1>4. PICK p \in Node : p = table[n][d] /\ (p = d \/ KnowsOrLearns(p, d))
  BY <1>3, NextHopKnows
<1>5. PICK r : r = [packet[k] EXCEPT !.at = p, !.left = packet[k].left - 1]
  OBVIOUS
<1>6. packet[k].left - 1 \in 1..HopLimit
  <2>1. packet[k].left \in 1..HopLimit
    BY <1>1 DEF PacketRecord
  <2> QED BY <2>1, RoutingAssumption
<1>7. /\ r \in PacketRecord /\ r.state = "moving" /\ r.at = p /\ r.dst = d
      /\ r.left = packet[k].left - 1 /\ r.calm = packet[k].calm
  BY <1>1, <1>3, <1>5, <1>6 DEF PacketRecord
<1>8. r.calm => /\ Settled
                /\ Reachable => Cardinality(Ahead(p, d)) <= r.left
  BY <1>1, <1>2, <1>3, <1>4, <1>7, CalmMoves DEF PacketOK
<1>9. PacketOK(r)
  BY <1>4, <1>7, <1>8 DEF PacketOK
<1> QED BY <1>3, <1>4, <1>5, <1>7, <1>9

\* A gossiper that is sent a packet for d: it is d, or it finds a next hop, or
\* it ends the packet; in a settled network within the limit.
LEMMA Arrival ==
  ASSUME IInv, NEW n \in Node, NEW k \in Kind, Arrives(n, k),
         UNCHANGED <<log, have, pending, table, from, listing, down>>,
         locked' \in [Node -> BOOLEAN], deaf' \in [Node -> BOOLEAN],
         LET left == Decrement(packet[k].left)
             d == packet[k].dst
         IN  \/ Ends(k, "delivered") \/ Ends(k, "waits")
             \/ d # n /\ left = 0 /\ Ends(k, "limit")
             \/ d # n /\ table[n][d] = Nowhere /\ Ends(k, "unknown")
             \/ d # n /\ left # 0 /\ table[n][d] # Nowhere /\ Hop(n, k, left)
  PROVE  IInv'
<1>1. /\ packet[k] \in PacketRecord /\ packet[k].state = "moving" /\ packet[k].at = n
      /\ packet \in [Kind -> PacketRecord]
  BY TypeParts DEF IInv, TypeOfRest, Arrives
<1>2. packet[k].left \in 1..HopLimit
  BY <1>1 DEF PacketRecord
<1>3. Decrement(packet[k].left) = packet[k].left - 1
  BY <1>2, Decremented
<1>4. ASSUME NEW how \in Ended, Ends(k, how),
             packet[k].calm => how # "unknown" /\ (Reachable => how # "limit")
      PROVE  IInv'
  <2>1. PICK r \in PacketRecord : r = [packet[k] EXCEPT !.state = how] /\ PacketOK(r)
    BY <1>1, <1>4, PacketEnds
  <2>2. packet' = [packet EXCEPT ![k] = r]
    BY <1>1, <1>4, <2>1 DEF Ends
  <2> QED BY <2>1, <2>2, PacketStep
<1>5. CASE Ends(k, "delivered") \/ Ends(k, "waits")
  BY <1>4, <1>5 DEF Ended
<1>6. CASE packet[k].dst # n /\ packet[k].left - 1 = 0 /\ Ends(k, "limit")
  <2>1. packet[k].calm => ~Reachable
    BY <1>1, <1>6, CalmMoves
  <2> QED BY <1>4, <1>6, <2>1 DEF Ended
<1>7. CASE packet[k].dst # n /\ table[n][packet[k].dst] = Nowhere /\ Ends(k, "unknown")
  <2>1. ~packet[k].calm
    BY <1>1, <1>7, CalmMoves
  <2> QED BY <1>4, <1>7, <2>1 DEF Ended
<1>8. CASE /\ packet[k].dst # n /\ packet[k].left - 1 # 0
           /\ table[n][packet[k].dst] # Nowhere /\ Hop(n, k, packet[k].left - 1)
  <2>1. PICK r \in PacketRecord :
          /\ r = [packet[k] EXCEPT !.at = table[n][packet[k].dst], !.left = packet[k].left - 1]
          /\ PacketOK(r)
    BY <1>8, PacketHops
  <2>2. packet' = [packet EXCEPT ![k] = r]
    BY <1>1, <1>8, <2>1 DEF Hop
  <2> QED BY <2>1, <2>2, PacketStep
<1> QED BY <1>3, <1>5, <1>6, <1>7, <1>8

\* HandlePrivateMsg keeps the invariant.
LEMMA PrivateInv ==
  ASSUME IInv, NEW n \in Node, HandlePrivateMsg(n)
  PROVE  IInv'
<1>1. /\ Arrives(n, "private") /\ "private" \in Kind
      /\ UNCHANGED <<log, have, pending, table, from, locked, deaf, listing, down>>
  BY DEF HandlePrivateMsg, Kind, learnt, routes, faults
<1>2. locked' \in [Node -> BOOLEAN] /\ deaf' \in [Node -> BOOLEAN]
  BY <1>1, TypeParts DEF IInv, TypeOfRest
<1>3. LET left == Decrement(packet["private"].left)
          d == packet["private"].dst
      IN  \/ Ends("private", "delivered") \/ Ends("private", "waits")
          \/ d # n /\ left = 0 /\ Ends("private", "limit")
          \/ d # n /\ table[n][d] = Nowhere /\ Ends("private", "unknown")
          \/ d # n /\ left # 0 /\ table[n][d] # Nowhere /\ Hop(n, "private", left)
  BY DEF HandlePrivateMsg
<1> QED BY <1>1, <1>2, <1>3, Arrival

\* The listen loop's relaying keeps the invariant.
LEMMA HandleInv ==
  ASSUME IInv, NEW n \in Node, Handle(n)
  PROVE  IInv'
<1>1. /\ Arrives(n, "forwarded") /\ "forwarded" \in Kind
      /\ UNCHANGED <<log, have, pending, table, from, listing, down>>
  BY DEF Handle, Kind, learnt, routes
<1>2. locked \in [Node -> BOOLEAN] /\ deaf \in [Node -> BOOLEAN]
  BY TypeParts DEF IInv, TypeOfRest
<1>3. locked' \in [Node -> BOOLEAN] /\ deaf' \in [Node -> BOOLEAN]
  BY <1>2 DEF Handle, ForwardPkt
<1>4. packet["forwarded"].left \in 1..HopLimit
  BY <1>1, TypeParts DEF IInv, TypeOfRest, PacketRecord
<1>5. PICK left \in Nat : left = Decrement(packet["forwarded"].left)
  BY <1>4, Decremented, RoutingAssumption
<1>6. LET d == packet["forwarded"].dst
      IN  \/ Ends("forwarded", "delivered") \/ Ends("forwarded", "waits")
          \/ d # n /\ left = 0 /\ Ends("forwarded", "limit")
          \/ d # n /\ table[n][d] = Nowhere /\ Ends("forwarded", "unknown")
          \/ d # n /\ left # 0 /\ table[n][d] # Nowhere /\ Hop(n, "forwarded", left)
  BY <1>5 DEF Handle, ForwardPkt
<1> QED BY <1>1, <1>3, <1>5, <1>6, Arrival

\* A packet is sent off with all the hops it may need.
LEMMA SendInv ==
  ASSUME IInv, NEW n \in Node, NEW k \in Kind, NEW d \in Node, Send(n, k, d)
  PROVE  IInv'
<1>1. /\ UNCHANGED <<log, have, pending, table, from, locked, deaf, listing, down>>
      /\ packet' = [packet EXCEPT ![k] =
           [@ EXCEPT !.dst = d, !.at = table[n][d], !.left = HopLimit, !.calm = Settled,
                     !.state = IF table[n][d] = Nowhere THEN "unknown" ELSE "moving"]]
  <2>1. UNCHANGED <<log, have, pending, table, from, locked, deaf, listing, down>>
    BY DEF Send, learnt, routes, faults
  <2> QED BY <2>1, Zenon DEF Send
<1>2. packet \in [Kind -> PacketRecord] /\ packet[k] \in PacketRecord
      /\ locked' \in [Node -> BOOLEAN] /\ deaf' \in [Node -> BOOLEAN]
  BY <1>1, TypeParts DEF IInv, TypeOfRest
<1>3. PICK calm \in BOOLEAN : calm = Settled
  BY DEF Settled
<1>4. PICK p \in Node \cup {Nowhere} : p = table[n][d]
  BY Types DEF IInv
<1>5. PICK state \in {"unknown", "moving"} : state = IF p = Nowhere THEN "unknown" ELSE "moving"
  OBVIOUS
<1>6. PICK r : r = [packet[k] EXCEPT !.dst = d, !.at = p, !.left = HopLimit, !.calm = calm,
                                     !.state = state]
  OBVIOUS
<1>7. HopLimit \in 1..HopLimit /\ HopLimit \in Nat
  BY RoutingAssumption
<1>8. /\ r \in PacketRecord /\ r.state = state /\ r.at = p /\ r.dst = d
      /\ r.left = HopLimit /\ r.calm = calm
  BY <1>2, <1>6, <1>7 DEF PacketRecord, Ended
<1>9. packet' = [packet EXCEPT ![k] = r]
  BY <1>1, <1>3, <1>4, <1>5, <1>6
<1>10. p # Nowhere => p \in Node /\ (p = d \/ KnowsOrLearns(p, d))
  BY <1>4, NextHopKnows
<1>11. Reachable /\ p # Nowhere /\ Settled => Cardinality(Ahead(p, d)) <= HopLimit
  <2> SUFFICES ASSUME Reachable, p # Nowhere, Settled
               PROVE  Cardinality(Ahead(p, d)) <= HopLimit
    OBVIOUS
  <2>1. /\ Cardinality(Ahead(p, d)) \in Nat /\ Cardinality(Ahead(n, d)) \in Nat
        /\ Cardinality(Ahead(p, d)) < Cardinality(Ahead(n, d))
        /\ Cardinality(Ahead(n, d)) <= Cardinality(Node)
    BY <1>4, CalmHop DEF Reachable
  <2>2. Cardinality(Node) <= HopLimit + 1 /\ Cardinality(Node) \in Nat
    BY FS_CardinalityType DEF Reachable
  <2> QED BY <1>7, <2>1, <2>2
<1>12. PacketOK(r)
  BY <1>3, <1>5, <1>8, <1>10, <1>11 DEF PacketOK
<1> QED BY <1>1, <1>2, <1>8, <1>9, <1>12, PacketStep

\* Losing a packet and listing the map keep the invariant.
LEMMA LoseInv ==
  ASSUME IInv, NEW k \in Kind, Lose(k)
  PROVE  IInv'
<1>1. /\ UNCHANGED <<log, have, pending, table, from, locked, deaf, listing, down>>
      /\ packet[k].state = "moving" /\ Ends(k, "lost")
  BY DEF Lose, learnt, routes, faults
<1>2. /\ packet \in [Kind -> PacketRecord]
      /\ locked' \in [Node -> BOOLEAN] /\ deaf' \in [Node -> BOOLEAN]
  BY <1>1, TypeParts DEF IInv, TypeOfRest
<1>3. PICK r \in PacketRecord : r = [packet[k] EXCEPT !.state = "lost"] /\ PacketOK(r)
  BY <1>1, PacketEnds DEF Ended
<1>4. packet' = [packet EXCEPT ![k] = r]
  BY <1>1, <1>2, <1>3 DEF Ends
<1> QED BY <1>1, <1>2, <1>3, <1>4, PacketStep

\* A step that leaves packets alone, and the logs and the router, keeps the invariant.
LEMMA ListingInv ==
  ASSUME IInv, UNCHANGED <<log, have, pending, table, from, locked, deaf, down, packet>>,
         listing' \in [Node -> BOOLEAN]
  PROVE  IInv'
<1>1. TypeOK'
  BY TypeParts DEF IInv, TypeOK
<1>2. RouteInv'
  BY RoutesUnchanged
<1>3. ASSUME NEW k \in Kind
      PROVE  PacketOK(packet[k])'
  <2>1. PICK p : p = packet[k]
    OBVIOUS
  <2>2. PacketOK(p)'
    BY <2>1, PacketStays DEF IInv, PacketInv
  <2> QED BY <2>1, <2>2 DEF PacketOK
<1> QED BY <1>1, <1>2, <1>3 DEF IInv, PacketInv
-----------------------------------------------------------------------------
(* Every step, and the specification *)

\* Every step keeps the invariant.
LEMMA StepInv ==
  ASSUME IInv, [Next]_vars
  PROVE  IInv'
<1>1. CASE \E o \in Node : Announce(o) \/ Route(o)
  BY <1>1, AnnounceInv, RouteStepInv
<1>2. CASE \E o \in Node : GetRoutable(o)
  <2>1. PICK o \in Node : GetRoutable(o)
    BY <1>2
  <2>2. listing \in [Node -> BOOLEAN]
    BY DEF IInv, TypeOK
  <2>3. listing' \in [Node -> BOOLEAN]
    BY <2>1, <2>2 DEF GetRoutable
  <2> QED BY <2>1, <2>3, ListingInv DEF GetRoutable, learnt, routes
<1>3. CASE \E n, p, o \in Node : Learn(n, p, o)
  BY <1>3, LearnInv
<1>4. CASE \E n, d \in Node, k \in Kind : Send(n, k, d)
  BY <1>4, SendInv
<1>5. CASE \E n \in Node : HandlePrivateMsg(n) \/ Handle(n)
  BY <1>5, PrivateInv, HandleInv
<1>6. CASE \E k \in Kind : Lose(k)
  BY <1>6, LoseInv
<1>7. CASE UNCHANGED vars
  <2>1. listing' \in [Node -> BOOLEAN]
    BY <1>7 DEF IInv, TypeOK, vars, faults
  <2> QED BY <1>7, <2>1, ListingInv DEF vars, routes, faults
<1> QED BY <1>1, <1>2, <1>3, <1>4, <1>5, <1>6, <1>7 DEF Next

\* The invariant is one of the specification.
THEOREM Invariance == Spec => []IInv
<1>1. Init => IInv
  BY InitInv
<1>2. IInv /\ [Next]_vars => IInv'
  BY StepInv
<1> QED BY <1>1, <1>2, PTL DEF Spec

\* Variables keep to their types: no packet is sent on with an exhausted limit
\* (gossiper.go:148, privateHandler.go:29), so the unsigned limit never wraps.
THEOREM TypeCorrect == Spec => []TypeOK
<1>1. IInv => TypeOK
  BY DEF IInv
<1> QED BY <1>1, Invariance, PTL

\* StartRouting (routing.go:41) has no sequence numbers and takes its pairs in any
\* order, yet next hops lead in a circle only through an entry that lags.
THEOREM NoLoopWithoutLag == Spec => []LoopNeedsLag
<1>1. IInv => LoopNeedsLag
  BY NoCircleWithoutLag DEF IInv
<1> QED BY <1>1, Invariance, PTL

\* ForwardPkt (util.go:10) meets an unknown destination, and leaves its mutex
\* locked, only while a handler is about to tell the router.
THEOREM RelaysKnowOrLearn == Spec => []RelayKnowsOrLearns
<1>1. IInv => RelayKnowsOrLearns
  BY DEF IInv, PacketInv, PacketOK, KnowsOrLearns, RelayKnowsOrLearns
<1> QED BY <1>1, Invariance, PTL

\* With tables that stand on the last messages no packet meets a gossiper that
\* does not know its destination; nor does one run out of its limit, in networks
\* no larger than the limit is made for.
THEOREM SettledDelivers == ASSUME Reachable PROVE Spec => []SettledRoutesDeliver
<1>1. IInv => SettledRoutesDeliver
  BY DEF IInv, PacketInv, PacketOK, SettledRoutesDeliver
<1> QED BY <1>1, Invariance, PTL
=============================================================================
