---------------------------- MODULE GossipProofs ----------------------------
(***************************************************************************)
(* For every set of gossipers, every peer graph, every bound and every     *)
(* network behaviour: when each gossiper numbers its messages consistently *)
(* (NoMixing), its store is what RumorLog promises.                        *)
(***************************************************************************)
EXTENDS Gossip, FiniteSetTheorems, TLAPS

\* A stored message is of a kind its origin produces.
KindOfOrigin ==
  \A n, o \in Node : \A i \in 1..Len(rumors[n][o]) : rumors[n][o][i].kind \in Kinds[o]

StoredOwn(n, m) ==
  /\ m.origin = n
  /\ m.id \in 1..Len(rumors[n][n])
  /\ rumors[n][n][m.id] = m

\* The messages of the goroutines between their two critical sections.
UncountedAreStored ==
  \A n \in Node :
    /\ IsFiniteSet(uncounted[n])
    /\ \A m \in uncounted[n] : StoredOwn(n, m)
    /\ Kinds[n] \cap {"tlc", "block"} = {} => uncounted[n] = {}

\* What a packet says is backed by the log of its sender.
Backed(pkt) ==
  IF pkt.type = "msg"
  THEN /\ pkt.msg.id <= Len(rumors[pkt.src][pkt.msg.origin])
       /\ rumors[pkt.src][pkt.msg.origin][pkt.msg.id] = pkt.msg
  ELSE \A o \in Node : pkt.want[o] <= Len(rumors[pkt.src][o]) + 1

PacketsBacked == \A pkt \in net : Backed(pkt)

LogInv == TypeOK /\ StoredUnderItsID /\ KindOfOrigin /\ PrefixOfOrigin

IInv == LogInv /\ CountedExactly /\ UncountedAreStored /\ PacketsBacked

\* The logs only grow.
Grows == \A n, o \in Node :
  /\ Len(rumors[n][o]) <= Len(rumors'[n][o])
  /\ \A i \in 1..Len(rumors[n][o]) : rumors'[n][o][i] = rumors[n][o][i]
-----------------------------------------------------------------------------
\* What Store does to each log.
LEMMA StoreEffect ==
  ASSUME TypeOK, NEW n \in Node, NEW o \in Node, NEW m \in Message, Store(n, o, m)
  PROVE  /\ rumors' \in [Node -> [Node -> Seq(Message)]]
         /\ Len(rumors'[n][o]) = Len(rumors[n][o]) + 1
         /\ rumors'[n][o][Len(rumors[n][o]) + 1] = m
         /\ \A i \in 1..Len(rumors[n][o]) : rumors'[n][o][i] = rumors[n][o][i]
         /\ \A p, q \in Node : p # n \/ q # o => rumors'[p][q] = rumors[p][q]
         /\ Grows
<1>1. rumors[n][o] \in Seq(Message)
  BY DEF TypeOK
<1>2. rumors' = [rumors EXCEPT ![n] = [rumors[n] EXCEPT ![o] = Append(rumors[n][o], m)]]
  BY DEF Store, TypeOK
<1>3. rumors'[n][o] = Append(rumors[n][o], m)
  BY <1>2 DEF TypeOK
<1>4. Append(rumors[n][o], m) \in Seq(Message)
  BY <1>1
<1>5. \A p, q \in Node : p # n \/ q # o => rumors'[p][q] = rumors[p][q]
  BY <1>2 DEF TypeOK
<1>6. rumors' \in [Node -> [Node -> Seq(Message)]]
  BY <1>2, <1>4 DEF TypeOK
<1>7. /\ Len(rumors'[n][o]) = Len(rumors[n][o]) + 1
      /\ rumors'[n][o][Len(rumors[n][o]) + 1] = m
      /\ \A i \in 1..Len(rumors[n][o]) : rumors'[n][o][i] = rumors[n][o][i]
  BY <1>1, <1>3
<1>8. Grows
  <2> SUFFICES ASSUME NEW p \in Node, NEW q \in Node
               PROVE  /\ Len(rumors[p][q]) <= Len(rumors'[p][q])
                      /\ \A i \in 1..Len(rumors[p][q]) : rumors'[p][q][i] = rumors[p][q][i]
    BY DEF Grows
  <2>1. Len(rumors[p][q]) \in Nat
    BY DEF TypeOK
  <2>2. CASE p = n /\ q = o
    BY <2>1, <2>2, <1>7
  <2>3. CASE p # n \/ q # o
    BY <2>1, <2>3, <1>5
  <2> QED BY <2>2, <2>3
<1> QED BY <1>5, <1>6, <1>7, <1>8

\* An entry fits when it is the next one of its log, and not an invention of
\* anybody but the origin.
Fits(n, o, m) ==
  /\ m.origin = o
  /\ m.id = Len(rumors[n][o]) + 1
  /\ m.kind \in Kinds[o]
  /\ n # o => m.id <= Len(rumors[o][o]) /\ rumors[o][o][m.id] = m

\* Storing an entry that fits keeps the logs in order.
LEMMA StoreFits ==
  ASSUME LogInv, NEW n \in Node, NEW o \in Node, NEW m \in Message,
         Fits(n, o, m), Store(n, o, m)
  PROVE  StoredUnderItsID' /\ KindOfOrigin' /\ PrefixOfOrigin'
<1> USE DEF LogInv
<1>0. \A p, q \in Node : Len(rumors[p][q]) \in Nat
  BY DEF TypeOK
<1>1. /\ Len(rumors'[n][o]) = Len(rumors[n][o]) + 1
      /\ rumors'[n][o][Len(rumors[n][o]) + 1] = m
      /\ \A i \in 1..Len(rumors[n][o]) : rumors'[n][o][i] = rumors[n][o][i]
      /\ \A p, q \in Node : p # n \/ q # o => rumors'[p][q] = rumors[p][q]
      /\ Grows
  BY StoreEffect
<1>2. ASSUME NEW p \in Node, NEW q \in Node, NEW i \in 1..Len(rumors'[p][q])
      PROVE  /\ rumors'[p][q][i].origin = q
             /\ rumors'[p][q][i].id = i
             /\ rumors'[p][q][i].kind \in Kinds[q]
  <2>1. CASE p = n /\ q = o /\ i = Len(rumors[n][o]) + 1
    BY <2>1, <1>1 DEF Fits
  <2>2. CASE p = n /\ q = o /\ i # Len(rumors[n][o]) + 1
    <3>1. i \in 1..Len(rumors[n][o])
      BY <2>2, <1>0, <1>1
    <3> QED BY <3>1, <2>2, <1>1 DEF StoredUnderItsID, KindOfOrigin
  <2>3. CASE p # n \/ q # o
    BY <2>3, <1>1 DEF StoredUnderItsID, KindOfOrigin
  <2> QED BY <2>1, <2>2, <2>3
<1>3. ASSUME NEW p \in Node, NEW q \in Node
      PROVE  /\ Len(rumors'[p][q]) <= Len(rumors'[q][q])
             /\ \A i \in 1..Len(rumors'[p][q]) : rumors'[p][q][i] = rumors'[q][q][i]
  <2>0. /\ Len(rumors[p][q]) <= Len(rumors[q][q])
        /\ \A i \in 1..Len(rumors[p][q]) : rumors[p][q][i] = rumors[q][q][i]
    BY DEF PrefixOfOrigin
  <2>1. CASE p = q
    BY <2>1, <1>0, <1>1
  <2>2. CASE p # q /\ p = n /\ q = o
    <3>1. rumors'[q][q] = rumors[q][q]
      BY <2>2, <1>1
    <3>2. /\ Len(rumors[p][q]) + 1 <= Len(rumors[q][q])
          /\ rumors[q][q][Len(rumors[p][q]) + 1] = m
      BY <2>2 DEF Fits
    <3>3. ASSUME NEW i \in 1..Len(rumors'[p][q])
          PROVE  rumors'[p][q][i] = rumors'[q][q][i]
      <4>1. i \in 1..Len(rumors[p][q]) \/ i = Len(rumors[p][q]) + 1
        BY <2>2, <1>0, <1>1
      <4> QED BY <4>1, <3>1, <3>2, <2>0, <2>2, <1>1
    <3> QED BY <3>1, <3>2, <3>3, <2>2, <1>1
  <2>3. CASE p # q /\ (p # n \/ q # o)
    <3>1. rumors'[p][q] = rumors[p][q]
      BY <2>3, <1>1
    <3>2. /\ Len(rumors[q][q]) <= Len(rumors'[q][q])
          /\ \A i \in 1..Len(rumors[q][q]) : rumors'[q][q][i] = rumors[q][q][i]
      BY <1>1 DEF Grows
    <3>3. ASSUME NEW i \in 1..Len(rumors[p][q])
          PROVE  rumors[p][q][i] = rumors'[q][q][i]
      <4>1. i \in 1..Len(rumors[q][q])
        BY <2>0, <1>0
      <4> QED BY <4>1, <3>2, <2>0
    <3>4. Len(rumors'[q][q]) \in Nat
      BY StoreEffect
    <3> QED BY <3>1, <3>2, <3>3, <3>4, <2>0, <1>0
  <2> QED BY <2>1, <2>2, <2>3
<1> QED BY <1>2, <1>3 DEF StoredUnderItsID, KindOfOrigin, PrefixOfOrigin
-----------------------------------------------------------------------------
(* Packets *)

\* What a growing log has backed, it keeps backing.
LEMMA BackedStays ==
  ASSUME rumors \in [Node -> [Node -> Seq(Message)]],
         rumors' \in [Node -> [Node -> Seq(Message)]],
         Grows, NEW pkt \in Packet, Backed(pkt)
  PROVE  Backed(pkt)'
<1>1. \A s, o \in Node : rumors[s][o] \in Seq(Message) /\ rumors'[s][o] \in Seq(Message)
  OBVIOUS
<1>2. \A s, o \in Node : Len(rumors[s][o]) \in Nat /\ Len(rumors'[s][o]) \in Nat
  BY <1>1
<1>3. CASE pkt.type = "msg"
  <2>1. pkt.src \in Node /\ pkt.msg.origin \in Node /\ pkt.msg.id \in Nat \ {0}
    BY <1>3 DEF Packet, Message
  <2> DEFINE s == pkt.src  o == pkt.msg.origin  i == pkt.msg.id
  <2>2. i <= Len(rumors[s][o]) /\ rumors[s][o][i] = pkt.msg
    BY <1>3 DEF Backed
  <2>3. Len(rumors[s][o]) <= Len(rumors'[s][o])
    BY <2>1 DEF Grows
  <2>4. i \in 1..Len(rumors[s][o])
    BY <1>2, <2>1, <2>2
  <2>5. rumors'[s][o][i] = rumors[s][o][i]
    BY <2>1, <2>4 DEF Grows
  <2>6. i <= Len(rumors'[s][o])
    BY <1>2, <2>1, <2>2, <2>3
  <2> QED BY <2>2, <2>5, <2>6, <1>3 DEF Backed
<1>4. CASE pkt.type # "msg"
  <2>1. pkt.src \in Node /\ pkt.want \in [Node -> Nat \ {0}]
    BY <1>4 DEF Packet
  <2>2. ASSUME NEW o \in Node PROVE pkt.want[o] <= Len(rumors'[pkt.src][o]) + 1
    <3> DEFINE w == pkt.want[o]  k == Len(rumors[pkt.src][o])  l == Len(rumors'[pkt.src][o])
    <3>1. w <= k + 1
      BY <1>4 DEF Backed
    <3>2. k <= l
      BY <2>1 DEF Grows
    <3>3. w \in Nat /\ k \in Nat /\ l \in Nat
      BY <2>1, <1>2
    <3> HIDE DEF w, k, l
    <3>4. w <= l + 1
      BY <3>1, <3>2, <3>3
    <3> QED BY <3>4 DEF w, l
  <2> QED BY <2>2, <1>4 DEF Backed
<1> QED BY <1>3, <1>4

\* While the logs grow, a step keeps the network backed when what it sends is.
LEMMA TransmitBacked ==
  ASSUME TypeOK, PacketsBacked, Grows, rumors' \in [Node -> [Node -> Seq(Message)]],
         NEW got, NEW out, got \subseteq net, out \subseteq Packet,
         \A pkt \in out : Backed(pkt)', Transmit(got, out)
  PROVE  net' \in SUBSET Packet /\ PacketsBacked'
<1>1. net' \subseteq net \cup out
  BY DEF Transmit
<1>2. net' \in SUBSET Packet
  BY <1>1 DEF TypeOK
<1>3. ASSUME NEW pkt \in net PROVE Backed(pkt)'
  BY BackedStays DEF TypeOK, PacketsBacked
<1> QED BY <1>1, <1>2, <1>3 DEF PacketsBacked

\* Mongering what the log holds sends a backed packet.
LEMMA MongersBacked ==
  ASSUME NEW n \in Node, NEW m \in Message, NEW from \in SUBSET Node, NEW excluded,
         m.id <= Len(rumors'[n][m.origin]), rumors'[n][m.origin][m.id] = m,
         NEW out \in Mongers(n, m, from, excluded)
  PROVE  out \subseteq Packet /\ \A pkt \in out : Backed(pkt)'
<1>1. \A chosen \in RandomPeer(from, excluded) : chosen \subseteq Node
  BY DEF RandomPeer
<1>2. \A p \in Node : MsgPacket(n, p, m) \in Packet /\ Backed(MsgPacket(n, p, m))'
  BY DEF MsgPacket, Packet, Backed
<1>3. PICK chosen \in RandomPeer(from, excluded) : out = {MsgPacket(n, p, m) : p \in chosen}
  BY DEF Mongers
<1> QED BY <1>1, <1>2, <1>3

\* The counter never runs ahead of the log.
LEMMA CountedAtMost ==
  ASSUME TypeOK, CountedExactly, UncountedAreStored
  PROVE  \A n, o \in Node : status[n][o] <= Len(rumors[n][o]) + 1
<1> SUFFICES ASSUME NEW n \in Node, NEW o \in Node
             PROVE  status[n][o] <= Len(rumors[n][o]) + 1
  OBVIOUS
<1>1. Cardinality(uncounted[n]) \in Nat
  BY FS_CardinalityType DEF UncountedAreStored
<1>2. Len(rumors[n][o]) \in Nat
  BY DEF TypeOK
<1>3. status[n][o] = 1 + Len(rumors[n][o])
                     - (IF n = o THEN Cardinality(uncounted[n]) ELSE 0)
  BY DEF CountedExactly
<1> QED BY <1>1, <1>2, <1>3

\* A status packet made from such a counter is backed.
LEMMA StatusBacked ==
  ASSUME NEW n \in Node, NEW p \in Node, NEW want \in [Node -> Nat \ {0}],
         \A o \in Node : want[o] <= Len(rumors'[n][o]) + 1
  PROVE  StatusPacket(n, p, want) \in Packet /\ Backed(StatusPacket(n, p, want))'
BY DEF StatusPacket, Packet, Backed
-----------------------------------------------------------------------------
(* Origination *)

\* A gossiper that stores its own next message publishes it.
LEMMA OwnStore ==
  ASSUME IInv, NEW n \in Node, NEW m \in Message, m.id <= MaxOwn[n],
         Fits(n, n, m), Store(n, n, m)
  PROVE  /\ rumors' \in [Node -> [Node -> Seq(Message)]]
         /\ StoredUnderItsID' /\ KindOfOrigin' /\ PrefixOfOrigin'
         /\ Grows
         /\ Len(rumors'[n][n]) = Len(rumors[n][n]) + 1
         /\ \A p, q \in Node : p # n \/ q # n => rumors'[p][q] = rumors[p][q]
         /\ m.id <= Len(rumors'[n][n]) /\ rumors'[n][n][m.id] = m
         /\ Log!Publish(n)
<1>1. TypeOK /\ LogInv
  BY DEF IInv, LogInv
<1>2. m.id = Len(rumors[n][n]) + 1 /\ m.origin = n
  BY DEF Fits
<1>3. m \in Entry
  BY <1>2 DEF Entry, Message
<1>4. Log!Publish(n)
  BY <1>3 DEF Log!Publish, Log!Extend, Store
<1>5. StoredUnderItsID' /\ KindOfOrigin' /\ PrefixOfOrigin'
  BY <1>1, StoreFits
<1>6. Len(rumors[n][n]) \in Nat
  BY <1>1 DEF TypeOK
<1> QED BY <1>1, <1>2, <1>4, <1>5, <1>6, StoreEffect

\* A stored message stays stored.
LEMMA OwnStoredStays ==
  ASSUME IInv, Grows, rumors' \in [Node -> [Node -> Seq(Message)]]
  PROVE  \A p \in Node : \A m \in uncounted[p] : StoredOwn(p, m)'
<1> SUFFICES ASSUME NEW p \in Node, NEW m \in uncounted[p] PROVE StoredOwn(p, m)'
  OBVIOUS
<1>1. StoredOwn(p, m)
  BY DEF IInv, UncountedAreStored
<1>2. /\ Len(rumors[p][p]) <= Len(rumors'[p][p])
      /\ \A i \in 1..Len(rumors[p][p]) : rumors'[p][p][i] = rumors[p][p][i]
  BY DEF Grows
<1>3. rumors[p][p] \in Seq(Message) /\ rumors'[p][p] \in Seq(Message)
  BY DEF IInv, LogInv, TypeOK
<1>4. Len(rumors[p][p]) \in Nat /\ Len(rumors'[p][p]) \in Nat
  BY <1>3
<1> QED BY <1>1, <1>2, <1>4 DEF StoredOwn

\* Storing and counting at once keeps the counter exact.
LEMMA OwnCounted ==
  ASSUME IInv, NEW n \in Node, uncounted' = uncounted,
         rumors' \in [Node -> [Node -> Seq(Message)]],
         Len(rumors'[n][n]) = Len(rumors[n][n]) + 1,
         \A p, q \in Node : p # n \/ q # n => rumors'[p][q] = rumors[p][q],
         Grows,
         status' = [status EXCEPT ![n][n] = @ + 1]
  PROVE  /\ status' \in [Node -> [Node -> Nat \ {0}]]
         /\ CountedExactly' /\ UncountedAreStored'
<1>0. /\ \A p \in Node : Cardinality(uncounted[p]) \in Nat
      /\ \A p, q \in Node : Len(rumors[p][q]) \in Nat /\ status[p][q] \in Nat
  <2>1. \A p \in Node : Cardinality(uncounted[p]) \in Nat
    BY FS_CardinalityType DEF IInv, UncountedAreStored
  <2>2. \A p, q \in Node : Len(rumors[p][q]) \in Nat /\ status[p][q] \in Nat
    BY DEF IInv, LogInv, TypeOK
  <2> QED BY <2>1, <2>2
<1>1. status' \in [Node -> [Node -> Nat \ {0}]]
  BY DEF IInv, LogInv, TypeOK
<1>2. /\ status'[n][n] = status[n][n] + 1
      /\ \A p, q \in Node : p # n \/ q # n => status'[p][q] = status[p][q]
  BY DEF IInv, LogInv, TypeOK
<1>3. CountedExactly'
  <2> SUFFICES ASSUME NEW p \in Node, NEW q \in Node
               PROVE  status'[p][q] = 1 + Len(rumors'[p][q])
                                        - (IF p = q THEN Cardinality(uncounted'[p]) ELSE 0)
    BY DEF CountedExactly
  <2>1. status[p][q] = 1 + Len(rumors[p][q])
                         - (IF p = q THEN Cardinality(uncounted[p]) ELSE 0)
    BY DEF IInv, CountedExactly
  <2>2. CASE p = n /\ q = n
    <3>1. /\ status[n][n] = 1 + Len(rumors[n][n]) - Cardinality(uncounted[n])
          /\ Cardinality(uncounted[n]) \in Nat /\ Len(rumors[n][n]) \in Nat
      BY <2>1, <2>2, <1>0
    <3>2. \A s, l, k \in Nat : s = 1 + l - k => s + 1 = 1 + (l + 1) - k
      OBVIOUS
    <3>3. status[n][n] + 1 = 1 + (Len(rumors[n][n]) + 1) - Cardinality(uncounted[n])
      BY <3>1, <3>2, <1>0
    <3>4. status'[n][n] = 1 + Len(rumors'[n][n]) - Cardinality(uncounted'[n])
      BY <3>3, <1>2
    <3> QED BY <3>4, <2>2
  <2>3. CASE p # n \/ q # n
    BY <2>1, <2>3, <1>0, <1>2
  <2> QED BY <2>2, <2>3
<1>4. UncountedAreStored'
  BY OwnStoredStays DEF IInv, UncountedAreStored
<1> QED BY <1>1, <1>3, <1>4

\* The three originations that hold both locks, given that the message fits.
LEMMA StoreAndCount ==
  ASSUME IInv, NEW n \in Node, NEW m \in Message, m.id <= MaxOwn[n],
         Fits(n, n, m), Store(n, n, m),
         status' = [status EXCEPT ![n][n] = @ + 1],
         NEW out \in Mongers(n, m, peers[n], {}), Transmit({}, out),
         UNCHANGED <<uncounted, peers>>
  PROVE  IInv' /\ Log!Publish(n)
<1>1. /\ rumors' \in [Node -> [Node -> Seq(Message)]]
      /\ StoredUnderItsID' /\ KindOfOrigin' /\ PrefixOfOrigin'
      /\ Grows
      /\ Len(rumors'[n][n]) = Len(rumors[n][n]) + 1
      /\ \A p, q \in Node : p # n \/ q # n => rumors'[p][q] = rumors[p][q]
      /\ m.id <= Len(rumors'[n][n]) /\ rumors'[n][n][m.id] = m
      /\ Log!Publish(n)
  BY OwnStore
<1>2. status' \in [Node -> [Node -> Nat \ {0}]] /\ CountedExactly' /\ UncountedAreStored'
  BY <1>1, OwnCounted
<1>3. peers[n] \in SUBSET Node /\ m.origin = n
  BY DEF IInv, LogInv, TypeOK, Fits
<1>4. out \subseteq Packet /\ \A pkt \in out : Backed(pkt)'
  BY <1>1, <1>3, MongersBacked
<1>5. net' \in SUBSET Packet /\ PacketsBacked'
  BY <1>1, <1>4, TransmitBacked DEF IInv, LogInv
<1>6. TypeOK'
  BY <1>1, <1>2, <1>5 DEF TypeOK, IInv, LogInv
<1> QED BY <1>1, <1>2, <1>5, <1>6 DEF IInv, LogInv

\* The next own message fits the own log.
LEMMA NextOwnFits ==
  ASSUME IInv, NEW n \in Node, NEW k, MayOriginate(n, k)
  PROVE  /\ NextOwn(n, k) \in Message
         /\ Fits(n, n, NextOwn(n, k))
         /\ NextOwn(n, k).id <= MaxOwn[n]
         /\ NextOwn(n, k).id = Len(rumors[n][n]) + 1
<1>1. Len(rumors[n][n]) \in Nat
  BY DEF IInv, LogInv, TypeOK
<1>2. k \in Kinds[n] /\ k \in Kind /\ MaxOwn[n] \in Nat
  BY ConstantsAssumption DEF MayOriginate
<1> QED BY <1>1, <1>2 DEF MayOriginate, NextOwn, Message, Fits

\* A gossiper that sends neither blocks nor TLC messages counts what it stores.
LEMMA NothingUncounted ==
  ASSUME IInv, NEW n \in Node, Kinds[n] \cap {"tlc", "block"} = {}
  PROVE  uncounted[n] = {} /\ status[n][n] = Len(rumors[n][n]) + 1
<1>1. uncounted[n] = {}
  BY DEF IInv, UncountedAreStored
<1>2. Cardinality(uncounted[n]) = 0
  BY <1>1, FS_EmptySet
<1>3. status[n][n] = 1 + Len(rumors[n][n]) - 0
  BY <1>2 DEF IInv, CountedExactly
<1>4. Len(rumors[n][n]) \in Nat
  BY DEF IInv, LogInv, TypeOK
<1> QED BY <1>1, <1>3, <1>4

\* ClientRumor keeps the inductive invariant.
LEMMA ClientRumorStep ==
  ASSUME IInv, NEW n \in Node, ClientRumor(n)
  PROVE  IInv' /\ Log!Publish(n)
<1> DEFINE m == NextOwn(n, "rumor")
<1>1. /\ MayOriginate(n, "rumor")
      /\ Store(n, n, m)
      /\ status' = [status EXCEPT ![n][n] = @ + 1]
      /\ \E out \in Mongers(n, m, peers[n], {}) : Transmit({}, out)
      /\ UNCHANGED <<uncounted, peers>>
  BY DEF ClientRumor
<1>2. m \in Message /\ Fits(n, n, m) /\ m.id <= MaxOwn[n]
  BY <1>1, NextOwnFits
<1> HIDE DEF m
<1> QED BY <1>1, <1>2, StoreAndCount

\* FirstHeartbeat keeps the inductive invariant.
LEMMA FirstHeartbeatStep ==
  ASSUME NoMixing, IInv, NEW n \in Node, FirstHeartbeat(n)
  PROVE  IInv' /\ Log!Publish(n)
<1> DEFINE m == [origin |-> n, id |-> 1, kind |-> "heartbeat"]
<1>1. /\ MayOriginate(n, "heartbeat")
      /\ \A i \in 1..Len(rumors[n][n]) : rumors[n][n][i].kind # "heartbeat"
      /\ Store(n, n, m)
      /\ status' = [status EXCEPT ![n][n] = 2]
      /\ \E out \in Mongers(n, m, peers[n], {}) : Transmit({}, out)
      /\ UNCHANGED <<uncounted, peers>>
  BY DEF FirstHeartbeat
<1>2. Kinds[n] = {"heartbeat"}
  BY <1>1 DEF NoMixing, MayOriginate
<1>3. Len(rumors[n][n]) \in Nat /\ status \in [Node -> [Node -> Nat \ {0}]]
  BY DEF IInv, LogInv, TypeOK
<1>4. Len(rumors[n][n]) = 0
  <2>1. \A i \in 1..Len(rumors[n][n]) : FALSE
    BY <1>1, <1>2 DEF IInv, LogInv, KindOfOrigin
  <2> QED BY <1>3, <2>1
<1>5. status[n][n] = 1
  <2>1. status[n][n] = Len(rumors[n][n]) + 1
    BY <1>2, NothingUncounted
  <2> QED BY <1>4, <2>1
<1>6. status' = [status EXCEPT ![n][n] = @ + 1]
  BY <1>1, <1>3, <1>5
<1>7. m = NextOwn(n, "heartbeat")
  BY <1>4 DEF NextOwn
<1>8. m \in Message /\ Fits(n, n, m) /\ m.id <= MaxOwn[n]
  BY <1>1, <1>7, NextOwnFits
<1> HIDE DEF m
<1> QED BY <1>1, <1>6, <1>8, StoreAndCount

\* Heartbeat keeps the inductive invariant.
LEMMA HeartbeatStep ==
  ASSUME NoMixing, IInv, NEW n \in Node, Heartbeat(n)
  PROVE  IInv' /\ Log!Publish(n)
<1> DEFINE m == [origin |-> n, id |-> status[n][n], kind |-> "heartbeat"]
<1>1. /\ MayOriginate(n, "heartbeat")
      /\ Store(n, n, m)
      /\ status' = [status EXCEPT ![n][n] = @ + 1]
      /\ \E out \in Mongers(n, m, peers[n], {}) : Transmit({}, out)
      /\ UNCHANGED <<uncounted, peers>>
  BY DEF Heartbeat
<1>2. Kinds[n] = {"heartbeat"}
  BY <1>1 DEF NoMixing, MayOriginate
<1>3. status[n][n] = Len(rumors[n][n]) + 1
  BY <1>2, NothingUncounted
<1>4. m = NextOwn(n, "heartbeat")
  BY <1>3 DEF NextOwn
<1>5. m \in Message /\ Fits(n, n, m) /\ m.id <= MaxOwn[n]
  BY <1>1, <1>4, NextOwnFits
<1> HIDE DEF m
<1> QED BY <1>1, <1>5, StoreAndCount

\* StoreOwn keeps the inductive invariant.
LEMMA StoreOwnStep ==
  ASSUME IInv, NEW n \in Node, StoreOwn(n)
  PROVE  IInv' /\ Log!Publish(n)
<1>1. PICK k \in {"tlc", "block"} :
        /\ MayOriginate(n, k)
        /\ Store(n, n, NextOwn(n, k))
        /\ uncounted' = [uncounted EXCEPT ![n] = @ \cup {NextOwn(n, k)}]
        /\ UNCHANGED <<status, peers, net>>
  BY DEF StoreOwn
<1>0. PICK m \in Message : m = NextOwn(n, k)
  BY <1>1, NextOwnFits
<1>2. Fits(n, n, m) /\ m.id <= MaxOwn[n] /\ m.id = Len(rumors[n][n]) + 1
  BY <1>0, <1>1, NextOwnFits
<1>3. k \in Kinds[n]
  BY <1>1 DEF MayOriginate
<1>4. /\ rumors' \in [Node -> [Node -> Seq(Message)]]
      /\ StoredUnderItsID' /\ KindOfOrigin' /\ PrefixOfOrigin'
      /\ Grows
      /\ Len(rumors'[n][n]) = Len(rumors[n][n]) + 1
      /\ \A p, q \in Node : p # n \/ q # n => rumors'[p][q] = rumors[p][q]
      /\ rumors'[n][n][m.id] = m
      /\ Log!Publish(n)
  BY <1>0, <1>1, <1>2, OwnStore
<1>5. TypeOK'
  BY <1>0, <1>1, <1>4 DEF IInv, LogInv, TypeOK
<1>6. PacketsBacked'
  BY <1>1, <1>4, BackedStays DEF PacketsBacked, IInv, LogInv, TypeOK
<1>7. /\ uncounted'[n] = uncounted[n] \cup {m}
      /\ \A p \in Node \ {n} : uncounted'[p] = uncounted[p]
  BY <1>0, <1>1 DEF IInv, LogInv, TypeOK
<1>8. \A p \in Node : Len(rumors[p][p]) \in Nat
  BY DEF IInv, LogInv, TypeOK
<1>9. m \notin uncounted[n]
  BY <1>2, <1>8 DEF IInv, UncountedAreStored, StoredOwn
<1>10. UncountedAreStored'
  <2> SUFFICES ASSUME NEW p \in Node
               PROVE  /\ IsFiniteSet(uncounted'[p])
                      /\ \A x \in uncounted'[p] : StoredOwn(p, x)'
                      /\ Kinds[p] \cap {"tlc", "block"} = {} => uncounted'[p] = {}
    BY DEF UncountedAreStored
  <2>0. /\ IsFiniteSet(uncounted[p])
        /\ \A x \in uncounted[p] : StoredOwn(p, x)'
        /\ Kinds[p] \cap {"tlc", "block"} = {} => uncounted[p] = {}
    BY <1>4, OwnStoredStays DEF IInv, UncountedAreStored
  <2>1. CASE p = n
    <3>1. IsFiniteSet(uncounted'[n])
      BY <1>7, <2>0, <2>1, FS_AddElement
    <3>2. m.id \in 1..Len(rumors'[n][n])
      BY <1>2, <1>4, <1>8
    <3>3. StoredOwn(n, m)'
      BY <3>2, <1>2, <1>4 DEF StoredOwn, Fits
    <3>4. \A x \in uncounted'[n] : StoredOwn(n, x)'
      BY <3>3, <1>7, <2>0, <2>1
    <3> QED BY <3>1, <3>4, <1>3, <2>1
  <2>2. CASE p # n
    BY <2>0, <2>2, <1>7
  <2> QED BY <2>1, <2>2
<1>11. CountedExactly'
  <2> SUFFICES ASSUME NEW p \in Node, NEW q \in Node
               PROVE  status[p][q] = 1 + Len(rumors'[p][q])
                                       - (IF p = q THEN Cardinality(uncounted'[p]) ELSE 0)
    BY <1>1 DEF CountedExactly
  <2>0. status[p][q] = 1 + Len(rumors[p][q])
                         - (IF p = q THEN Cardinality(uncounted[p]) ELSE 0)
    BY DEF IInv, CountedExactly
  <2>1. CASE p = n /\ q = n
    <3>1. IsFiniteSet(uncounted[n])
      BY DEF IInv, UncountedAreStored
    <3>2. /\ Cardinality(uncounted'[n]) = Cardinality(uncounted[n]) + 1
          /\ Cardinality(uncounted[n]) \in Nat
      BY <3>1, <1>7, <1>9, FS_AddElement, FS_CardinalityType, ZenonT(40)
    <3>3. \A l, c \in Nat : 1 + l - c = 1 + (l + 1) - (c + 1)
      OBVIOUS
    <3>4. 1 + Len(rumors[n][n]) - Cardinality(uncounted[n])
            = 1 + (Len(rumors[n][n]) + 1) - (Cardinality(uncounted[n]) + 1)
      BY <3>2, <3>3, <1>8
    <3> QED BY <2>0, <2>1, <3>2, <3>4, <1>4
  <2>2. CASE p # n \/ q # n
    BY <2>0, <2>2, <1>4, <1>7
  <2> QED BY <2>1, <2>2
<1> QED BY <1>4, <1>5, <1>6, <1>10, <1>11 DEF IInv, LogInv

\* Logs that do not change grow, in the sense of Grows.
LEMMA UnchangedGrows ==
  ASSUME IInv, UNCHANGED rumors
  PROVE  Grows /\ rumors' \in [Node -> [Node -> Seq(Message)]]
<1>1. \A p, q \in Node : Len(rumors[p][q]) \in Nat
  BY DEF IInv, LogInv, TypeOK
<1> QED BY <1>1 DEF Grows, IInv, LogInv, TypeOK

\* CountOwn keeps the inductive invariant.
LEMMA CountOwnStep ==
  ASSUME IInv, NEW n \in Node, CountOwn(n)
  PROVE  IInv' /\ UNCHANGED rumors
<1>1. PICK m \in uncounted[n] :
        /\ status' = [status EXCEPT ![n][n] = @ + 1]
        /\ uncounted' = [uncounted EXCEPT ![n] = @ \ {m}]
        /\ \E out \in Mongers(n, m, peers[n], {}) : Transmit({}, out)
        /\ UNCHANGED <<rumors, peers>>
  BY DEF CountOwn
<1>2. PICK out \in Mongers(n, m, peers[n], {}) : Transmit({}, out)
  BY <1>1
<1>3. Grows /\ rumors' \in [Node -> [Node -> Seq(Message)]]
  BY <1>1, UnchangedGrows
<1>4. m \in Message /\ peers[n] \in SUBSET Node
  BY DEF IInv, LogInv, TypeOK
<1>5. StoredOwn(n, m)
  BY DEF IInv, UncountedAreStored
<1>6. m.id <= Len(rumors'[n][m.origin]) /\ rumors'[n][m.origin][m.id] = m
  BY <1>1, <1>5 DEF StoredOwn
<1>7. out \subseteq Packet /\ \A pkt \in out : Backed(pkt)'
  BY <1>4, <1>6, MongersBacked
<1>8. net' \in SUBSET Packet /\ PacketsBacked'
  BY <1>2, <1>3, <1>7, TransmitBacked DEF IInv, LogInv
<1>9. /\ status' \in [Node -> [Node -> Nat \ {0}]]
      /\ status'[n][n] = status[n][n] + 1
      /\ \A p, q \in Node : p # n \/ q # n => status'[p][q] = status[p][q]
  BY <1>1 DEF IInv, LogInv, TypeOK
<1>10. /\ uncounted'[n] = uncounted[n] \ {m}
       /\ \A p \in Node \ {n} : uncounted'[p] = uncounted[p]
       /\ uncounted' \in [Node -> SUBSET Message]
  BY <1>1 DEF IInv, LogInv, TypeOK
<1>11. TypeOK'
  BY <1>1, <1>3, <1>8, <1>9, <1>10 DEF TypeOK, IInv, LogInv
<1>12. UncountedAreStored'
  <2> SUFFICES ASSUME NEW p \in Node
               PROVE  /\ IsFiniteSet(uncounted'[p])
                      /\ \A x \in uncounted'[p] : StoredOwn(p, x)'
                      /\ Kinds[p] \cap {"tlc", "block"} = {} => uncounted'[p] = {}
    BY DEF UncountedAreStored
  <2>1. /\ IsFiniteSet(uncounted[p])
        /\ \A x \in uncounted[p] : StoredOwn(p, x)'
        /\ Kinds[p] \cap {"tlc", "block"} = {} => uncounted[p] = {}
    BY <1>3, OwnStoredStays DEF IInv, UncountedAreStored
  <2>2. uncounted'[p] \subseteq uncounted[p]
    BY <1>10
  <2> QED BY <2>1, <2>2, FS_Subset
<1>13. CountedExactly'
  <2> SUFFICES ASSUME NEW p \in Node, NEW q \in Node
               PROVE  status'[p][q] = 1 + Len(rumors'[p][q])
                                        - (IF p = q THEN Cardinality(uncounted'[p]) ELSE 0)
    BY DEF CountedExactly
  <2>0. status[p][q] = 1 + Len(rumors[p][q])
                         - (IF p = q THEN Cardinality(uncounted[p]) ELSE 0)
    BY DEF IInv, CountedExactly
  <2>1. CASE p = n /\ q = n
    <3>1. IsFiniteSet(uncounted[n])
      BY DEF IInv, UncountedAreStored
    <3>2. Cardinality(uncounted[n]) \in Nat
      BY <3>1, FS_CardinalityType
    <3>6. Cardinality(uncounted[n] \ {m}) = Cardinality(uncounted[n]) - 1
      BY <3>1, FS_RemoveElement
    <3>7. Cardinality(uncounted'[n]) = Cardinality(uncounted[n]) - 1
      BY <3>6, <1>10
    <3>3. \A l, c \in Nat : 1 + l - c + 1 = 1 + l - (c - 1)
      OBVIOUS
    <3>4. Len(rumors[n][n]) \in Nat
      BY DEF IInv, LogInv, TypeOK
    <3>5. 1 + Len(rumors[n][n]) - Cardinality(uncounted[n]) + 1
            = 1 + Len(rumors[n][n]) - (Cardinality(uncounted[n]) - 1)
      BY <3>2, <3>3, <3>4
    <3> QED BY <2>0, <2>1, <3>5, <3>7, <1>1, <1>9
  <2>2. CASE p # n \/ q # n
    BY <2>0, <2>2, <1>1, <1>9, <1>10
  <2> QED BY <2>1, <2>2
<1>14. StoredUnderItsID' /\ KindOfOrigin' /\ PrefixOfOrigin'
  BY <1>1 DEF IInv, LogInv, StoredUnderItsID, KindOfOrigin, PrefixOfOrigin
<1> QED BY <1>1, <1>8, <1>11, <1>12, <1>13, <1>14 DEF IInv, LogInv
-----------------------------------------------------------------------------
(* Reception *)

\* What n may learn: a message of another origin that the sender of a packet
\* holds.  A rumor of its own that comes back is never the expected one.
LEMMA ExpectedFits ==
  ASSUME NoMixing, IInv, NEW pkt \in net, pkt.type = "msg", NEW n \in Node, pkt.dst = n,
         pkt.msg.origin = n => pkt.msg.kind \in {"rumor", "heartbeat"},
         Expected(n, pkt.msg)
  PROVE  /\ pkt.msg.origin # n
         /\ Fits(n, pkt.msg.origin, pkt.msg)
         /\ pkt.src \in Node
         /\ Len(rumors[pkt.src][pkt.msg.origin]) > Len(rumors[n][pkt.msg.origin])
         /\ rumors[pkt.src][pkt.msg.origin][Len(rumors[n][pkt.msg.origin]) + 1] = pkt.msg
<1> DEFINE m == pkt.msg  o == pkt.msg.origin  s == pkt.src  i == pkt.msg.id
<1>1. m \in Message /\ o \in Node /\ s \in Node /\ i \in Nat \ {0}
  BY DEF IInv, LogInv, TypeOK, Packet, Message
<1>2. i <= Len(rumors[s][o]) /\ rumors[s][o][i] = m
  BY DEF IInv, PacketsBacked, Backed
<1>3. \A p, q \in Node : Len(rumors[p][q]) \in Nat
  BY DEF IInv, LogInv, TypeOK
<1>4. /\ Len(rumors[s][o]) <= Len(rumors[o][o])
      /\ \A j \in 1..Len(rumors[s][o]) : rumors[s][o][j] = rumors[o][o][j]
  BY <1>1 DEF IInv, LogInv, PrefixOfOrigin
<1>5. i \in 1..Len(rumors[s][o])
  BY <1>1, <1>2, <1>3
<1>6. m.kind \in Kinds[o]
  BY <1>1, <1>2, <1>5 DEF IInv, LogInv, KindOfOrigin
<1>7. status[n][o] = i
  BY DEF Expected
<1>8. o # n
  <2> SUFFICES ASSUME o = n PROVE FALSE
    OBVIOUS
  <2>1. Kinds[n] \cap {"tlc", "block"} = {}
    BY <1>6 DEF NoMixing
  <2>2. i = Len(rumors[n][n]) + 1
    BY <1>7, <2>1, NothingUncounted
  <2> QED BY <1>1, <1>2, <1>3, <1>4, <2>2, SMTT(30)
<1>9. i = Len(rumors[n][o]) + 1
  <2>1. status[n][o] = 1 + Len(rumors[n][o]) - 0
    BY <1>1, <1>8 DEF IInv, CountedExactly
  <2> QED BY <1>1, <1>3, <1>7, <2>1
<1>10. Fits(n, o, m)
  <2>1. i <= Len(rumors[o][o])
    <3>1. \A x, y, z \in Nat : x <= y /\ y <= z => x <= z
      OBVIOUS
    <3>2. i \in Nat /\ Len(rumors[s][o]) \in Nat /\ Len(rumors[o][o]) \in Nat
      BY <1>1, <1>3
    <3> QED BY <1>2, <1>4, <3>1, <3>2
  <2>2. rumors[o][o][i] = m
    BY <1>2, <1>4, <1>5
  <2> QED BY <2>1, <2>2, <1>6, <1>9 DEF Fits
<1>11. Len(rumors[s][o]) > Len(rumors[n][o])
  BY <1>1, <1>2, <1>3, <1>9
<1> QED BY <1>1, <1>2, <1>8, <1>9, <1>10, <1>11

\* The outcome of Update, common to the three handlers of messages.
UpdateOutcome(n, m) ==
  /\ rumors' \in [Node -> [Node -> Seq(Message)]]
  /\ status' \in [Node -> [Node -> Nat \ {0}]]
  /\ StoredUnderItsID' /\ KindOfOrigin' /\ PrefixOfOrigin'
  /\ CountedExactly' /\ UncountedAreStored'
  /\ Grows
  /\ Expected(n, m) => m.id <= Len(rumors'[n][m.origin]) /\ rumors'[n][m.origin][m.id] = m
  /\ \A o \in Node : status'[n][o] <= Len(rumors'[n][o]) + 1
  /\ UNCHANGED rumors \/ \E p, o \in Node : Log!Learn(n, p, o)

\* A message not expected changes no log.
LEMMA UpdateIdle ==
  ASSUME IInv, NEW n \in Node, NEW m, UNCHANGED <<rumors, status, uncounted>>, ~Expected(n, m)
  PROVE  UpdateOutcome(n, m)
<1>1. Grows /\ rumors' \in [Node -> [Node -> Seq(Message)]]
  BY UnchangedGrows
<1>2. /\ status' \in [Node -> [Node -> Nat \ {0}]]
      /\ StoredUnderItsID' /\ KindOfOrigin' /\ PrefixOfOrigin'
  BY DEF IInv, LogInv, TypeOK, StoredUnderItsID, KindOfOrigin, PrefixOfOrigin
<1>3. CountedExactly' /\ UncountedAreStored'
  BY DEF IInv, CountedExactly, UncountedAreStored, StoredOwn
<1>4. \A o \in Node : status'[n][o] <= Len(rumors'[n][o]) + 1
  BY CountedAtMost DEF IInv, LogInv
<1> QED BY <1>1, <1>2, <1>3, <1>4 DEF UpdateOutcome

\* An expected message is the next of its origin: storing it keeps the invariant.
LEMMA UpdateStores ==
  ASSUME NoMixing, IInv, NEW pkt \in net, pkt.type = "msg", NEW n \in Node, pkt.dst = n,
         pkt.msg.origin = n => pkt.msg.kind \in {"rumor", "heartbeat"},
         Expected(n, pkt.msg), Update(n, pkt.msg), UNCHANGED uncounted
  PROVE  UpdateOutcome(n, pkt.msg)
<1>0. PICK m \in Message, o \in Node : m = pkt.msg /\ o = pkt.msg.origin
  BY DEF IInv, LogInv, TypeOK, Packet, Message
<1>1. /\ Store(n, o, m)
      /\ status' = [status EXCEPT ![n][o] = @ + 1]
  BY <1>0 DEF Update
<1>2. /\ o # n
      /\ Fits(n, o, m)
      /\ pkt.src \in Node
      /\ Len(rumors[pkt.src][o]) > Len(rumors[n][o])
      /\ rumors[pkt.src][o][Len(rumors[n][o]) + 1] = m
  BY <1>0, ExpectedFits
<1>3. /\ rumors' \in [Node -> [Node -> Seq(Message)]]
      /\ Len(rumors'[n][o]) = Len(rumors[n][o]) + 1
      /\ rumors'[n][o][Len(rumors[n][o]) + 1] = m
      /\ \A p, q \in Node : p # n \/ q # o => rumors'[p][q] = rumors[p][q]
      /\ Grows
  BY <1>1, StoreEffect DEF IInv, LogInv
<1>4. StoredUnderItsID' /\ KindOfOrigin' /\ PrefixOfOrigin'
  BY <1>1, <1>2, StoreFits DEF IInv
<1>5. /\ status' \in [Node -> [Node -> Nat \ {0}]]
      /\ status'[n][o] = status[n][o] + 1
      /\ \A p, q \in Node : p # n \/ q # o => status'[p][q] = status[p][q]
  BY <1>1 DEF IInv, LogInv, TypeOK
<1>6. \A p, q \in Node : Len(rumors[p][q]) \in Nat /\ status[p][q] \in Nat
  BY DEF IInv, LogInv, TypeOK
<1>7. UncountedAreStored'
  BY <1>3, OwnStoredStays DEF IInv, UncountedAreStored
<1>8. CountedExactly'
  <2> SUFFICES ASSUME NEW p \in Node, NEW q \in Node
               PROVE  status'[p][q] = 1 + Len(rumors'[p][q])
                                        - (IF p = q THEN Cardinality(uncounted'[p]) ELSE 0)
    BY DEF CountedExactly
  <2>0. status[p][q] = 1 + Len(rumors[p][q])
                         - (IF p = q THEN Cardinality(uncounted[p]) ELSE 0)
    BY DEF IInv, CountedExactly
  <2>1. CASE p = n /\ q = o
    <3>1. status[n][o] = 1 + Len(rumors[n][o]) - 0
      BY <2>0, <2>1, <1>2
    <3>2. status'[n][o] = 1 + Len(rumors'[n][o]) - 0
      BY <3>1, <1>3, <1>5, <1>6
    <3> QED BY <3>2, <2>1, <1>2
  <2>2. CASE p # n \/ q # o
    BY <2>0, <2>2, <1>3, <1>5
  <2> QED BY <2>1, <2>2
<1>9. m.id <= Len(rumors'[n][o]) /\ rumors'[n][o][m.id] = m
  BY <1>2, <1>3, <1>6 DEF Fits
<1>10. ASSUME NEW q \in Node PROVE status'[n][q] <= Len(rumors'[n][q]) + 1
  <2>1. status[n][q] <= Len(rumors[n][q]) + 1
    BY CountedAtMost DEF IInv, LogInv
  <2>2. CASE q = o
    BY <2>1, <2>2, <1>3, <1>5, <1>6, SMTT(30)
  <2>3. CASE q # o
    BY <2>1, <2>3, <1>3, <1>5
  <2> QED BY <2>2, <2>3
<1>11. Log!Learn(n, pkt.src, o)
  BY <1>1, <1>2 DEF Log!Learn, Log!Extend, Store
<1> QED BY <1>0, <1>2, <1>3, <1>4, <1>5, <1>7, <1>8, <1>9, <1>10, <1>11 DEF UpdateOutcome

\* Update keeps the inductive invariant.
LEMMA UpdateStep ==
  ASSUME NoMixing, IInv, NEW pkt \in net, pkt.type = "msg", NEW n \in Node, pkt.dst = n,
         pkt.msg.origin = n => pkt.msg.kind \in {"rumor", "heartbeat"},
         Update(n, pkt.msg), UNCHANGED uncounted
  PROVE  UpdateOutcome(n, pkt.msg)
<1>1. CASE Expected(n, pkt.msg)
  BY <1>1, UpdateStores
<1>2. CASE ~Expected(n, pkt.msg)
  BY <1>2, UpdateIdle DEF Update
<1> QED BY <1>1, <1>2

\* A handler that updates, mongers what is new and answers keeps the invariant.
LEMMA UpdateAndAnswer ==
  ASSUME IInv, NEW pkt \in net, pkt.type = "msg", NEW n \in Node, pkt.dst = n,
         UpdateOutcome(n, pkt.msg), UNCHANGED uncounted, peers' \in [Node -> SUBSET Node],
         NEW from \in SUBSET Node, NEW excluded, NEW out,
         out = {} \/ (Expected(n, pkt.msg) /\ out \in Mongers(n, pkt.msg, from, excluded)),
         Transmit({pkt}, out \cup {Reply(pkt)})
  PROVE  IInv'
<1>1. pkt.msg \in Message /\ pkt.msg.origin \in Node /\ pkt.src \in Node
  BY DEF IInv, LogInv, TypeOK, Packet, Message
<1>2. out \subseteq Packet /\ \A p \in out : Backed(p)'
  BY <1>1, MongersBacked DEF UpdateOutcome
<1>3. PICK want \in [Node -> Nat \ {0}] : want = status'[n]
  BY DEF UpdateOutcome
<1>4. PICK r \in Packet : r = Reply(pkt) /\ Backed(r)'
  BY <1>1, <1>3, StatusBacked DEF UpdateOutcome, Reply
<1>5. PICK sent : sent = out \cup {r}
  OBVIOUS
<1>6. sent \subseteq Packet /\ \A p \in sent : Backed(p)'
  BY <1>2, <1>4, <1>5
<1>7. Transmit({pkt}, sent)
  BY <1>4, <1>5
<1>8. net' \in SUBSET Packet /\ PacketsBacked'
  BY <1>6, <1>7, TransmitBacked DEF UpdateOutcome, IInv, LogInv
<1> QED BY <1>8 DEF UpdateOutcome, IInv, LogInv, TypeOK

Learns(n) == UNCHANGED rumors \/ \E p, o \in Node : Log!Learn(n, p, o)

\* A sender becomes a peer.
LEMMA PeersTyped ==
  ASSUME IInv, NEW n \in Node, NEW pkt \in net, UpdatePeers(n, pkt.src)
  PROVE  peers' \in [Node -> SUBSET Node]
BY DEF IInv, LogInv, TypeOK, UpdatePeers, Packet

\* Steps that only send packets backed by the unchanged logs.
LEMMA SendStep ==
  ASSUME IInv, UNCHANGED <<rumors, status, uncounted>>, peers' \in [Node -> SUBSET Node],
         NEW got, got \subseteq net, NEW out, out \subseteq Packet,
         \A pkt \in out : Backed(pkt)', Transmit(got, out)
  PROVE  IInv'
<1>1. Grows /\ rumors' \in [Node -> [Node -> Seq(Message)]]
  BY UnchangedGrows
<1>2. net' \in SUBSET Packet /\ PacketsBacked'
  BY <1>1, TransmitBacked DEF IInv, LogInv
<1>3. TypeOK'
  BY <1>2 DEF IInv, LogInv, TypeOK
<1>4. StoredUnderItsID' /\ KindOfOrigin' /\ PrefixOfOrigin'
  BY DEF IInv, LogInv, StoredUnderItsID, KindOfOrigin, PrefixOfOrigin
<1>5. CountedExactly' /\ UncountedAreStored'
  BY DEF IInv, CountedExactly, UncountedAreStored, StoredOwn
<1> QED BY <1>2, <1>3, <1>4, <1>5 DEF IInv, LogInv

\* Consuming a packet without an effect.
LEMMA DropStep ==
  ASSUME IInv, NEW pkt \in net, Transmit({pkt}, {}), UNCHANGED <<rumors, status, uncounted, peers>>
  PROVE  IInv'
<1>1. peers' \in [Node -> SUBSET Node]
  BY DEF IInv, LogInv, TypeOK
<1> QED BY <1>1, SendStep

\* HandleRumor keeps the inductive invariant.
LEMMA HandleRumorStep ==
  ASSUME NoMixing, IInv, NEW n \in Node, HandleRumor(n)
  PROVE  IInv' /\ Learns(n)
<1>1. PICK pkt \in net :
        /\ pkt.type = "msg" /\ pkt.dst = n /\ pkt.msg.kind \in {"rumor", "heartbeat"}
        /\ UpdatePeers(n, pkt.src)
        /\ Update(n, pkt.msg)
        /\ \E out \in IF Expected(n, pkt.msg)
                      THEN Mongers(n, pkt.msg, peers'[n], {pkt.src}) ELSE {{}} :
             Transmit({pkt}, out \cup {Reply(pkt)})
        /\ UNCHANGED uncounted
  BY DEF HandleRumor
<1>2. peers' \in [Node -> SUBSET Node]
  BY <1>1, PeersTyped
<1>3. PICK out : /\ out = {} \/ (Expected(n, pkt.msg) /\ out \in Mongers(n, pkt.msg, peers'[n], {pkt.src}))
                 /\ Transmit({pkt}, out \cup {Reply(pkt)})
  BY <1>1
<1>4. UpdateOutcome(n, pkt.msg)
  BY <1>1, UpdateStep
<1>5. PICK from \in SUBSET Node : from = peers'[n]
  BY <1>2
<1>6. IInv'
  BY <1>1, <1>2, <1>3, <1>4, <1>5, UpdateAndAnswer
<1> QED BY <1>4, <1>6 DEF UpdateOutcome, Learns

\* HandleTLCMessage keeps the inductive invariant.
LEMMA HandleTLCMessageStep ==
  ASSUME NoMixing, IInv, NEW n \in Node, HandleTLCMessage(n)
  PROVE  IInv' /\ Learns(n)
<1>1. PICK pkt \in net :
        /\ pkt.type = "msg" /\ pkt.dst = n /\ pkt.msg.kind = "tlc"
        /\ IF pkt.msg.origin = n
           THEN Transmit({pkt}, {}) /\ UNCHANGED <<rumors, status>>
           ELSE /\ Update(n, pkt.msg)
                /\ \E out \in IF Expected(n, pkt.msg)
                              THEN Mongers(n, pkt.msg, peers[n], {pkt.src}) ELSE {{}} :
                     Transmit({pkt}, out \cup {Reply(pkt)})
        /\ UNCHANGED <<uncounted, peers>>
  BY DEF HandleTLCMessage
<1>2. CASE pkt.msg.origin = n
  BY <1>1, <1>2, DropStep DEF Learns
<1>3. CASE pkt.msg.origin # n
  <2>1. PICK out : /\ out = {} \/ (Expected(n, pkt.msg) /\ out \in Mongers(n, pkt.msg, peers[n], {pkt.src}))
                   /\ Transmit({pkt}, out \cup {Reply(pkt)})
    BY <1>1, <1>3
  <2>2. UpdateOutcome(n, pkt.msg)
    BY <1>1, <1>3, UpdateStep
  <2>3. peers' \in [Node -> SUBSET Node] /\ peers[n] \in SUBSET Node
    BY <1>1 DEF IInv, LogInv, TypeOK
  <2>4. IInv'
    BY <1>1, <2>1, <2>2, <2>3, UpdateAndAnswer
  <2> QED BY <2>2, <2>4 DEF UpdateOutcome, Learns
<1> QED BY <1>2, <1>3

\* HandleReceivingBlock keeps the inductive invariant.
LEMMA HandleReceivingBlockStep ==
  ASSUME NoMixing, IInv, NEW n \in Node, HandleReceivingBlock(n)
  PROVE  IInv' /\ Learns(n)
<1>1. PICK pkt \in net, future \in BOOLEAN, recent \in BOOLEAN :
        /\ pkt.type = "msg" /\ pkt.dst = n /\ pkt.msg.kind = "block"
        /\ IF future \/ pkt.msg.origin = n
           THEN Transmit({pkt}, {}) /\ UNCHANGED <<rumors, status>>
           ELSE /\ Update(n, pkt.msg)
                /\ \E out \in IF Expected(n, pkt.msg) /\ recent
                              THEN Mongers(n, pkt.msg, peers[n], {pkt.src}) ELSE {{}} :
                     Transmit({pkt}, out \cup {Reply(pkt)})
        /\ UNCHANGED <<uncounted, peers>>
  BY DEF HandleReceivingBlock
<1>2. CASE future \/ pkt.msg.origin = n
  BY <1>1, <1>2, DropStep DEF Learns
<1>3. CASE ~(future \/ pkt.msg.origin = n)
  <2>1. PICK out : /\ out = {} \/ (Expected(n, pkt.msg) /\ out \in Mongers(n, pkt.msg, peers[n], {pkt.src}))
                   /\ Transmit({pkt}, out \cup {Reply(pkt)})
    BY <1>1, <1>3
  <2>2. UpdateOutcome(n, pkt.msg)
    BY <1>1, <1>3, UpdateStep
  <2>3. peers' \in [Node -> SUBSET Node] /\ peers[n] \in SUBSET Node
    BY <1>1 DEF IInv, LogInv, TypeOK
  <2>4. IInv'
    BY <1>1, <2>1, <2>2, <2>3, UpdateAndAnswer
  <2> QED BY <2>2, <2>4 DEF UpdateOutcome, Learns
<1> QED BY <1>2, <1>3

\* The current status is backed, whoever it is sent to.
LEMMA OwnStatusBacked ==
  ASSUME IInv, NEW n \in Node, NEW p \in Node, UNCHANGED rumors
  PROVE  \A out : out = {StatusPacket(n, p, status[n])} =>
                    out \subseteq Packet /\ \A pkt \in out : Backed(pkt)'
<1>1. PICK want \in [Node -> Nat \ {0}] : want = status[n]
  BY DEF IInv, LogInv, TypeOK
<1>2. \A o \in Node : want[o] <= Len(rumors'[n][o]) + 1
  BY <1>1, CountedAtMost DEF IInv, LogInv
<1>3. PICK r \in Packet : r = StatusPacket(n, p, status[n]) /\ Backed(r)'
  BY <1>1, <1>2, StatusBacked
<1> QED BY <1>3

\* HandleStatus keeps the inductive invariant.
LEMMA HandleStatusStep ==
  ASSUME IInv, NEW n \in Node, HandleStatus(n)
  PROVE  IInv' /\ UNCHANGED rumors
<1>1. PICK pkt \in net :
        /\ pkt.type = "status" /\ pkt.dst = n
        /\ UpdatePeers(n, pkt.src)
        /\ \/ Provide(n, pkt)
           \/ /\ Ahead(n, pkt.want) = {}
              /\ Transmit({pkt}, IF Behind(n, pkt.want) = {} THEN {}
                                 ELSE {StatusPacket(n, pkt.src, status[n])})
        /\ UNCHANGED <<rumors, status, uncounted>>
  BY DEF HandleStatus
<1>2. peers' \in [Node -> SUBSET Node]
  BY <1>1, PeersTyped
<1>3. pkt.src \in Node /\ pkt.want \in [Node -> Nat \ {0}]
  BY <1>1 DEF IInv, LogInv, TypeOK, Packet
<1>4. CASE Provide(n, pkt)
  <2>1. PICK o \in Ahead(n, pkt.want) :
          Transmit({pkt}, {MsgPacket(n, pkt.src, rumors[n][o][pkt.want[o]])})
    BY <1>4 DEF Provide
  <2>2. o \in Node /\ pkt.want[o] < status[n][o]
    BY <2>1, <1>3 DEF Ahead, IInv, LogInv, TypeOK
  <2>3. status[n][o] <= Len(rumors[n][o]) + 1
    BY <2>2, CountedAtMost DEF IInv, LogInv
  <2>4. status[n][o] \in Nat /\ Len(rumors[n][o]) \in Nat /\ pkt.want[o] \in Nat \ {0}
    BY <2>2, <1>3 DEF IInv, LogInv, TypeOK
  <2>5. pkt.want[o] \in 1..Len(rumors[n][o])
    BY <2>2, <2>3, <2>4
  <2>6. PICK m \in Message : m = rumors[n][o][pkt.want[o]]
    BY <2>2, <2>5 DEF IInv, LogInv, TypeOK
  <2>7. m.origin = o /\ m.id = pkt.want[o]
    BY <2>2, <2>5, <2>6 DEF IInv, LogInv, StoredUnderItsID
  <2>8. m.id <= Len(rumors'[n][m.origin]) /\ rumors'[n][m.origin][m.id] = m
    BY <2>4, <2>5, <2>6, <2>7, <1>1
  <2>9. PICK out : out = {MsgPacket(n, pkt.src, m)}
    OBVIOUS
  <2>10. out \subseteq Packet /\ \A p \in out : Backed(p)'
    BY <2>8, <2>9, <1>3 DEF MsgPacket, Packet, Backed
  <2>11. Transmit({pkt}, out)
    BY <2>1, <2>6, <2>9
  <2> QED BY <2>10, <2>11, <1>1, <1>2, SendStep
<1>5. CASE /\ Ahead(n, pkt.want) = {}
           /\ Transmit({pkt}, IF Behind(n, pkt.want) = {} THEN {}
                              ELSE {StatusPacket(n, pkt.src, status[n])})
  <2>1. PICK out : /\ out = IF Behind(n, pkt.want) = {} THEN {}
                            ELSE {StatusPacket(n, pkt.src, status[n])}
                   /\ Transmit({pkt}, out)
    BY <1>5
  <2>2. out \subseteq Packet /\ \A p \in out : Backed(p)'
    BY <2>1, <1>1, <1>3, OwnStatusBacked
  <2> QED BY <2>1, <2>2, <1>1, <1>2, SendStep
<1> QED BY <1>1, <1>4, <1>5

\* AntiEntropy keeps the inductive invariant.
LEMMA AntiEntropyStep ==
  ASSUME IInv, NEW n \in Node, AntiEntropy(n)
  PROVE  IInv' /\ UNCHANGED rumors
<1>1. PICK p \in peers[n] : Transmit({}, {StatusPacket(n, p, status[n])})
  BY DEF AntiEntropy
<1>2. UNCHANGED <<rumors, status, uncounted, peers>>
  BY DEF AntiEntropy
<1>3. p \in Node /\ peers' \in [Node -> SUBSET Node]
  BY <1>2 DEF IInv, LogInv, TypeOK
<1>4. PICK out : out = {StatusPacket(n, p, status[n])} /\ Transmit({}, out)
  BY <1>1
<1>5. out \subseteq Packet /\ \A pkt \in out : Backed(pkt)'
  BY <1>2, <1>3, <1>4, OwnStatusBacked
<1> QED BY <1>2, <1>3, <1>4, <1>5, SendStep

\* FlipCoinMonger keeps the inductive invariant.
LEMMA FlipCoinMongerStep ==
  ASSUME IInv, NEW n \in Node, FlipCoinMonger(n)
  PROVE  IInv' /\ UNCHANGED rumors
<1>1. UNCHANGED <<rumors, status, uncounted, peers>>
  BY DEF FlipCoinMonger
<1>0. PICK o \in Node : \E i \in 1 .. status[n][o] - 1 :
        \E out \in Mongers(n, rumors[n][o][i], peers[n], {}) : Transmit({}, out)
  BY DEF FlipCoinMonger
<1>2. PICK i \in 1 .. status[n][o] - 1 :
        \E out \in Mongers(n, rumors[n][o][i], peers[n], {}) : Transmit({}, out)
  BY <1>0
<1>3. status[n][o] <= Len(rumors[n][o]) + 1
  BY CountedAtMost DEF IInv, LogInv
<1>4. status[n][o] \in Nat /\ Len(rumors[n][o]) \in Nat
  BY DEF IInv, LogInv, TypeOK
<1>5. i \in 1..Len(rumors[n][o])
  BY <1>3, <1>4
<1>6. PICK m \in Message : m = rumors[n][o][i]
  BY <1>5 DEF IInv, LogInv, TypeOK
<1>7. m.origin = o /\ m.id = i
  BY <1>5, <1>6 DEF IInv, LogInv, StoredUnderItsID
<1>8. m.id <= Len(rumors'[n][m.origin]) /\ rumors'[n][m.origin][m.id] = m
  BY <1>1, <1>4, <1>5, <1>6, <1>7
<1>9. PICK from \in SUBSET Node : from = peers[n]
  BY DEF IInv, LogInv, TypeOK
<1>10. PICK out \in Mongers(n, m, from, {}) : Transmit({}, out)
  BY <1>2, <1>6, <1>9
<1>11. out \subseteq Packet /\ \A pkt \in out : Backed(pkt)'
  BY <1>8, MongersBacked
<1>12. peers' \in [Node -> SUBSET Node]
  BY <1>1 DEF IInv, LogInv, TypeOK
<1> QED BY <1>1, <1>10, <1>11, <1>12, SendStep
-----------------------------------------------------------------------------
(* The theorems *)

\* The inductive invariant holds initially.
LEMMA InitHolds == ASSUME Init PROVE IInv
<1>1. TypeOK
  BY ConstantsAssumption DEF Init, TypeOK
<1>2. StoredUnderItsID /\ KindOfOrigin /\ PrefixOfOrigin
  BY DEF Init, StoredUnderItsID, KindOfOrigin, PrefixOfOrigin
<1>3. CountedExactly
  <2>1. Cardinality({}) = 0
    BY FS_EmptySet
  <2> QED BY <2>1 DEF Init, CountedExactly
<1>4. UncountedAreStored
  BY FS_EmptySet DEF Init, UncountedAreStored
<1>5. PacketsBacked
  BY DEF Init, PacketsBacked
<1> QED BY <1>1, <1>2, <1>3, <1>4, <1>5 DEF IInv, LogInv

\* Every step keeps the invariant, and is a step of RumorLog or changes no log.
LEMMA StepHolds ==
  ASSUME NoMixing, IInv, Next
  PROVE  IInv' /\ [Log!Next]_rumors
<1>1. PICK n \in Node : Originate(n) \/ Receive(n) \/ AntiEntropy(n) \/ FlipCoinMonger(n)
  BY DEF Next
<1>2. CASE ClientRumor(n)
  BY <1>2, ClientRumorStep DEF Log!Next
<1>3. CASE FirstHeartbeat(n)
  BY <1>3, FirstHeartbeatStep DEF Log!Next
<1>4. CASE Heartbeat(n)
  BY <1>4, HeartbeatStep DEF Log!Next
<1>5. CASE StoreOwn(n)
  BY <1>5, StoreOwnStep DEF Log!Next
<1>6. CASE CountOwn(n)
  BY <1>6, CountOwnStep
<1>7. CASE HandleRumor(n)
  BY <1>7, HandleRumorStep DEF Learns, Log!Next
<1>8. CASE HandleTLCMessage(n)
  BY <1>8, HandleTLCMessageStep DEF Learns, Log!Next
<1>9. CASE HandleReceivingBlock(n)
  BY <1>9, HandleReceivingBlockStep DEF Learns, Log!Next
<1>10. CASE HandleStatus(n)
  BY <1>10, HandleStatusStep
<1>11. CASE AntiEntropy(n)
  BY <1>11, AntiEntropyStep
<1>12. CASE FlipCoinMonger(n)
  BY <1>12, FlipCoinMongerStep
<1> QED BY <1>1, <1>2, <1>3, <1>4, <1>5, <1>6, <1>7, <1>8, <1>9, <1>10, <1>11, <1>12
        DEF Originate, Receive

\* The invariant survives a step that changes nothing.
LEMMA StutterHolds == ASSUME IInv, UNCHANGED vars PROVE IInv'
<1>1. LogInv'
  BY DEF vars, IInv, LogInv, TypeOK, StoredUnderItsID, KindOfOrigin, PrefixOfOrigin
<1>2. CountedExactly' /\ UncountedAreStored'
  BY DEF vars, IInv, CountedExactly, UncountedAreStored, StoredOwn
<1>3. PacketsBacked'
  BY DEF vars, IInv, PacketsBacked, Backed
<1> QED BY <1>1, <1>2, <1>3 DEF IInv

\* The inductive invariant, with its types: what the other theorems rest on.
THEOREM Invariance == ASSUME NoMixing PROVE Spec => []IInv
<1>1. Init => IInv
  BY InitHolds
<1>2. IInv /\ [Next]_vars => IInv'
  BY StepHolds, StutterHolds
<1> QED BY <1>1, <1>2, PTL DEF Spec

\* Types: in particular no counter drops below its initial 1 and no status
\* packet asks for a message number 0, which would index a log at -1.
THEOREM TypeCorrect == ASSUME NoMixing PROVE Spec => []TypeOK
<1>1. IInv => TypeOK
  BY DEF IInv, LogInv
<1> QED BY <1>1, Invariance, PTL

\* RumorBuffer.get returns the message asked for, at every gossiper.
THEOREM GetFindsTheID == ASSUME NoMixing PROVE Spec => []StoredUnderItsID
<1>1. IInv => StoredUnderItsID
  BY DEF IInv, LogInv
<1> QED BY <1>1, Invariance, PTL

\* Every gossiper holds an initial segment of every origin's log.
THEOREM CopiesArePrefixes == ASSUME NoMixing PROVE Spec => []PrefixOfOrigin
<1>1. IInv => PrefixOfOrigin
  BY DEF IInv, LogInv
<1> QED BY <1>1, Invariance, PTL

\* The two critical sections of an origination never lose or double a count.
THEOREM CountersExact == ASSUME NoMixing PROVE Spec => []CountedExactly
<1>1. IInv => CountedExactly
  BY DEF IInv
<1> QED BY <1>1, Invariance, PTL

\* A status packet, however late, never asks to skip a message.
THEOREM StatusNeverSkips == ASSUME NoMixing PROVE Spec => []WantsTheNext
<1>1. IInv => WantsTheNext
  BY DEF IInv, PacketsBacked, Backed, WantsTheNext
<1> QED BY <1>1, Invariance, PTL

\* Gossip implements the abstract replicated log.
THEOREM Refinement == ASSUME NoMixing PROVE Spec => ImplementsRumorLog
<1>1. Init => Log!Init
  BY DEF Init, Log!Init
<1>2. IInv /\ [Next]_vars => [Log!Next]_rumors
  BY StepHolds DEF vars
<1> QED BY <1>1, <1>2, Invariance, PTL DEF Spec, ImplementsRumorLog, Log!Spec
=============================================================================
