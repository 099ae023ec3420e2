------------------------------- MODULE Gossip -------------------------------
(***************************************************************************)
(* Rumor mongering and anti-entropy between gossipers.  Client rumors,     *)
(* heartbeats, TLC messages and block rumors of one gossiper share one log *)
(* (RumorBuffer.Rumors[Name]) and one counter (StatusBuffer.Status[Name]). *)
(* UDP may lose and reorder packets, and duplicate them if CanDuplicate.   *)
(*                                                                         *)
(* status[n][o] = 1 stands for an absent entry of the code's map: no       *)
(* operation stores a value below 2, and every reader treats an absent     *)
(* entry as it would treat 1.                                              *)
(***************************************************************************)
EXTENDS Integers, Sequences, FiniteSets

CONSTANTS Node,         \* gossipers; a gossiper's name stands for its address
          Kinds,        \* Kinds[n]: the kinds of message that n originates
          InitPeers,    \* InitPeers[n]: the -peers flag of n
          MaxOwn,       \* MaxOwn[n], bound: messages originated by n
          MaxInFlight,  \* bound: packets in the network
          CanDuplicate  \* may the network deliver a packet twice?

Kind == {"rumor", "heartbeat", "tlc", "block"}

ASSUME ConstantsAssumption ==
  /\ Kinds \in [Node -> SUBSET Kind]
  /\ InitPeers \in [Node -> SUBSET Node]
  /\ MaxOwn \in [Node -> Nat]
  /\ MaxInFlight \in Nat
  /\ CanDuplicate \in BOOLEAN

VARIABLES rumors,     \* rumors[n][o]: RumorBuffer of n for origin o
          status,     \* status[n][o]: StatusBuffer of n, next ID expected from o
          uncounted,  \* own messages stored by a goroutine that has released
                      \* the RumorBuffer lock and not yet bumped the status
          peers,      \* peers[n]: PeersBuffer of n
          net         \* packets in flight

vars == <<rumors, status, uncounted, peers, net>>

Message == [origin : Node, id : Nat \ {0}, kind : Kind]
Packet  == [type : {"msg"}, src : Node, dst : Node, msg : Message]
             \cup [type : {"status"}, src : Node, dst : Node, want : [Node -> Nat \ {0}]]

Init == /\ rumors = [n \in Node |-> [o \in Node |-> <<>>]]
        /\ status = [n \in Node |-> [o \in Node |-> 1]]
        /\ uncounted = [n \in Node |-> {}]
        /\ peers = InitPeers
        /\ net = {}
-----------------------------------------------------------------------------
(* The network *)

MsgPacket(n, d, m) == [type |-> "msg", src |-> n, dst |-> d, msg |-> m]
StatusPacket(n, d, want) == [type |-> "status", src |-> n, dst |-> d, want |-> want]

\* One step takes the packets of got from the network and sends those of out;
\* any of out may be lost, any of got may stay for a second delivery.
Transmit(got, out) ==
  \E kept \in SUBSET out, again \in IF CanDuplicate THEN SUBSET got ELSE {{}} :
    /\ net' = (net \ got) \cup again \cup kept
    /\ Cardinality(net') <= MaxInFlight

\* The outcomes of SelectRandomPeer(excluded, 1): nobody when none is left.
RandomPeer(from, excluded) ==
  IF from \ excluded = {} THEN {{}} ELSE {{p} : p \in from \ excluded}

\* MongerRumor without a target: the packet goes to one random peer.
Mongers(n, m, from, excluded) ==
  {{MsgPacket(n, p, m) : p \in chosen} : chosen \in RandomPeer(from, excluded)}

UpdatePeers(n, sender) == peers' = [peers EXCEPT ![n] = @ \cup {sender}]
-----------------------------------------------------------------------------
(* Origination *)

\* Mutant of NextOwn: IDs from 0, as indices are.
NextOwnFromZero(n, k) == [origin |-> n, id |-> Len(rumors[n][n]), kind |-> k]

NextOwn(n, k) == [origin |-> n, id |-> Len(rumors[n][n]) + 1, kind |-> k]

MayOriginate(n, k) == k \in Kinds[n] /\ Len(rumors[n][n]) < MaxOwn[n]

Store(n, o, m) == rumors' = [rumors EXCEPT ![n][o] = Append(@, m)]

\* HandleClient, rumor case: both locks are held from the ID to the mongering.
ClientRumor(n) ==
  /\ MayOriginate(n, "rumor")
  /\ LET m == NextOwn(n, "rumor") IN
       /\ Store(n, n, m)
       /\ status' = [status EXCEPT ![n][n] = @ + 1]
       /\ \E out \in Mongers(n, m, peers[n], {}) : Transmit({}, out)
  /\ UNCHANGED <<uncounted, peers>>

\* StartHeartbeat, the initial beat: ID 1 and status 2 whatever was there.
FirstHeartbeat(n) ==
  /\ MayOriginate(n, "heartbeat")
  /\ \A i \in 1..Len(rumors[n][n]) : rumors[n][n][i].kind # "heartbeat"
  /\ LET m == [origin |-> n, id |-> 1, kind |-> "heartbeat"] IN
       /\ Store(n, n, m)
       /\ status' = [status EXCEPT ![n][n] = 2]
       /\ \E out \in Mongers(n, m, peers[n], {}) : Transmit({}, out)
  /\ UNCHANGED <<uncounted, peers>>

\* StartHeartbeat, the ticker: the ID is the status, not the log's length.
Heartbeat(n) ==
  /\ MayOriginate(n, "heartbeat")
  /\ \E i \in 1..Len(rumors[n][n]) : rumors[n][n][i].kind = "heartbeat"
  /\ LET m == [origin |-> n, id |-> status[n][n], kind |-> "heartbeat"] IN
       /\ Store(n, n, m)
       /\ status' = [status EXCEPT ![n][n] = @ + 1]
       /\ \E out \in Mongers(n, m, peers[n], {}) : Transmit({}, out)
  /\ UNCHANGED <<uncounted, peers>>

\* HandleSendingBlocks and SendTLC, first critical section: number and store.
StoreOwn(n) ==
  \E k \in {"tlc", "block"} :
    /\ MayOriginate(n, k)
    /\ Store(n, n, NextOwn(n, k))
    /\ uncounted' = [uncounted EXCEPT ![n] = @ \cup {NextOwn(n, k)}]
    /\ UNCHANGED <<status, peers, net>>

\* Mutant of CountOwn: the counter is set from the log instead of bumped.
CountOwnFromLog(n) ==
  \E m \in uncounted[n] :
    /\ status' = [status EXCEPT ![n][n] = Len(rumors[n][n]) + 1]
    /\ uncounted' = [uncounted EXCEPT ![n] = @ \ {m}]
    /\ \E out \in Mongers(n, m, peers[n], {}) : Transmit({}, out)
    /\ UNCHANGED <<rumors, peers>>

\* ... second critical section, under the other lock: count it, then monger.
CountOwn(n) ==
  \E m \in uncounted[n] :
    /\ status' = [status EXCEPT ![n][n] = @ + 1]
    /\ uncounted' = [uncounted EXCEPT ![n] = @ \ {m}]
    /\ \E out \in Mongers(n, m, peers[n], {}) : Transmit({}, out)
    /\ UNCHANGED <<rumors, peers>>
-----------------------------------------------------------------------------
(* Reception *)

\* Mutants of Expected: a gap is accepted; a duplicate is accepted.
ExpectedOrLater(n, m)   == status[n][m.origin] <= m.id
ExpectedOrEarlier(n, m) == status[n][m.origin] >= m.id

Expected(n, m) == status[n][m.origin] = m.id

\* Mutants of Update: a message out of order is counted although it is not
\* stored; ID 1 always founds a new log (the test of known_peer is lost).
UpdateCountsAnyway(n, m) ==
  /\ IF Expected(n, m) THEN Store(n, m.origin, m) ELSE UNCHANGED rumors
  /\ status' = [status EXCEPT ![n][m.origin] = @ + 1]
UpdateForgets(n, m) ==
  IF m.id = 1
  THEN /\ rumors' = [rumors EXCEPT ![n][m.origin] = <<m>>]
       /\ status' = [status EXCEPT ![n][m.origin] = 2]
  ELSE IF Expected(n, m)
  THEN /\ Store(n, m.origin, m)
       /\ status' = [status EXCEPT ![n][m.origin] = @ + 1]
  ELSE UNCHANGED <<rumors, status>>

\* Update: store the message exactly when it is the next one of its origin.
Update(n, m) ==
  IF Expected(n, m)
  THEN /\ Store(n, m.origin, m)
       /\ status' = [status EXCEPT ![n][m.origin] = @ + 1]
  ELSE UNCHANGED <<rumors, status>>

\* The deferred answer: the status right after Update.
Reply(pkt) == StatusPacket(pkt.dst, pkt.src, status'[pkt.dst])

\* HandleRumor, after StartHandling has recorded the sender as a peer.
HandleRumor(n) ==
  \E pkt \in net :
    /\ pkt.type = "msg" /\ pkt.dst = n /\ pkt.msg.kind \in {"rumor", "heartbeat"}
    /\ UpdatePeers(n, pkt.src)
    /\ Update(n, pkt.msg)
    /\ \E out \in IF Expected(n, pkt.msg)
                  THEN Mongers(n, pkt.msg, peers'[n], {pkt.src}) ELSE {{}} :
         Transmit({pkt}, out \cup {Reply(pkt)})
    /\ UNCHANGED uncounted

\* HandleTLCMessage; StartHandling ignores the gossiper's own TLC messages.
HandleTLCMessage(n) ==
  \E pkt \in net :
    /\ pkt.type = "msg" /\ pkt.dst = n /\ pkt.msg.kind = "tlc"
    /\ IF pkt.msg.origin = n
       THEN Transmit({pkt}, {}) /\ UNCHANGED <<rumors, status>>
       ELSE /\ Update(n, pkt.msg)
            /\ \E out \in IF Expected(n, pkt.msg)
                          THEN Mongers(n, pkt.msg, peers[n], {pkt.src}) ELSE {{}} :
                 Transmit({pkt}, out \cup {Reply(pkt)})
    /\ UNCHANGED <<uncounted, peers>>

\* HandleReceivingBlock.  Whether the block is of a future round, and whether
\* it is recent enough to monger, depends on the blockchain (module Blockchain)
\* and is left open here.
HandleReceivingBlock(n) ==
  \E pkt \in net, future, recent \in BOOLEAN :
    /\ pkt.type = "msg" /\ pkt.dst = n /\ pkt.msg.kind = "block"
    /\ IF future \/ pkt.msg.origin = n
       THEN Transmit({pkt}, {}) /\ UNCHANGED <<rumors, status>>
       ELSE /\ Update(n, pkt.msg)
            /\ \E out \in IF Expected(n, pkt.msg) /\ recent
                          THEN Mongers(n, pkt.msg, peers[n], {pkt.src}) ELSE {{}} :
                 Transmit({pkt}, out \cup {Reply(pkt)})
    /\ UNCHANGED <<uncounted, peers>>

\* Mutant of Ahead: the peer must be two behind.
AheadByTwo(n, want) == {o \in Node : status[n][o] > want[o] + 1}

\* MoreUpdated: the origins for which n, or the peer, is ahead of the other.
Ahead(n, want)  == {o \in Node : status[n][o] > want[o]}
Behind(n, want) == {o \in Node : status[n][o] < want[o]}

\* ProvideMongering: the first message the peer lacks, of some such origin.
Provide(n, pkt) ==
  \E o \in Ahead(n, pkt.want) :
    Transmit({pkt}, {MsgPacket(n, pkt.src, rumors[n][o][pkt.want[o]])})

\* HandleStatus: provide first; request (send the own status) only when there
\* is nothing to provide; otherwise the two are in sync.
HandleStatus(n) ==
  \E pkt \in net :
    /\ pkt.type = "status" /\ pkt.dst = n
    /\ UpdatePeers(n, pkt.src)
    /\ \/ Provide(n, pkt)
       \/ /\ Ahead(n, pkt.want) = {}
          /\ Transmit({pkt}, IF Behind(n, pkt.want) = {} THEN {}
                             ELSE {StatusPacket(n, pkt.src, status[n])})
    /\ UNCHANGED <<rumors, status, uncounted>>

\* StartAntiEntropy: the status goes to one random peer.
AntiEntropy(n) ==
  /\ \E p \in peers[n] : Transmit({}, {StatusPacket(n, p, status[n])})
  /\ UNCHANGED <<rumors, status, uncounted, peers>>

\* The goroutine MongerRumor leaves behind flips a coin after an answer or a
\* timeout and mongers the message again.  It may do so at any later time,
\* for whatever this gossiper holds and has already mongered.
FlipCoinMonger(n) ==
  /\ \E o \in Node : \E i \in 1 .. status[n][o] - 1 :
       /\ rumors[n][o][i] \notin uncounted[n]
       /\ \E out \in Mongers(n, rumors[n][o][i], peers[n], {}) : Transmit({}, out)
  /\ UNCHANGED <<rumors, status, uncounted, peers>>
-----------------------------------------------------------------------------
Originate(n) == \/ ClientRumor(n)
                \/ FirstHeartbeat(n)
                \/ Heartbeat(n)
                \/ StoreOwn(n)
                \/ CountOwn(n)

Receive(n) == \/ HandleRumor(n)
              \/ HandleTLCMessage(n)
              \/ HandleReceivingBlock(n)
              \/ HandleStatus(n)

Next == \E n \in Node : \/ Originate(n)
                        \/ Receive(n)
                        \/ AntiEntropy(n)
                        \/ FlipCoinMonger(n)

Spec == Init /\ [][Next]_vars

(* Scheduling: handlers run; the ticker of StartAntiEntropy fires for ever and
   its random choice hits every peer again and again; a packet sent again and
   again gets through at some time. *)
StatusGetsThrough(n, p) ==
  AntiEntropy(n) /\ StatusPacket(n, p, status[n]) \in net' \ net

ProvisionGetsThrough(n, p) ==
  HandleStatus(n) /\ \E pkt \in net' \ net : pkt.type = "msg" /\ pkt.dst = p

Fairness ==
  \A n \in Node : /\ WF_vars(Receive(n))
                  /\ WF_vars(CountOwn(n))
                  /\ \A p \in Node \ {n} : /\ SF_vars(StatusGetsThrough(n, p))
                                            /\ SF_vars(ProvisionGetsThrough(n, p))

FairSpec == Spec /\ Fairness
-----------------------------------------------------------------------------
(* Properties *)

\* Every log is a sequence of messages, every counter a positive number, and
\* only packets between gossipers are in flight.
TypeOK ==
  /\ rumors \in [Node -> [Node -> Seq(Message)]]
  /\ status \in [Node -> [Node -> Nat \ {0}]]
  /\ uncounted \in [Node -> SUBSET Message]
  /\ peers \in [Node -> SUBSET Node]
  /\ net \in SUBSET Packet

\* RumorBuffer.get: the message stored at ID - 1 for an origin is the message
\* of that origin with that ID, whichever handler stored it and in whatever
\* order packets arrived.
StoredUnderItsID ==
  \A n, o \in Node : \A i \in 1..Len(rumors[n][o]) :
    rumors[n][o][i].origin = o /\ rumors[n][o][i].id = i

\* Update: what a gossiper holds of an origin's log is an initial segment of
\* the log the origin itself holds: no gap, no reordering, no foreign entry.
PrefixOfOrigin ==
  \A n, o \in Node :
    /\ Len(rumors[n][o]) <= Len(rumors[o][o])
    /\ \A i \in 1..Len(rumors[n][o]) : rumors[n][o][i] = rumors[o][o][i]

\* The counter trails the log by exactly the messages that goroutines have
\* stored but not counted: between the two critical sections of
\* HandleSendingBlocks and SendTLC nothing is counted twice or forgotten.
CountedExactly ==
  \A n, o \in Node :
    status[n][o] = 1 + Len(rumors[n][o])
                     - (IF n = o THEN Cardinality(uncounted[n]) ELSE 0)

\* A status packet, however old, asks for at most one message beyond what its
\* sender holds: ProvideMongering never skips a message the sender lacks.
WantsTheNext ==
  \A pkt \in net : pkt.type = "status" =>
    \A o \in Node : pkt.want[o] <= Len(rumors[pkt.src][o]) + 1

\* Every step extends the logs as the abstract replicated log allows: a
\* gossiper appends to its own log, or learns its next entry from a holder.
Entry == UNION {[origin : {o}, id : 1..MaxOwn[o], kind : Kind] : o \in Node}
Log == INSTANCE RumorLog WITH Rumor <- Entry, copy <- rumors
ImplementsRumorLog == Log!Spec

\* README.md "Reliable gossiping": whatever an origin has stored in its own log
\* reaches every gossiper, although any packet may be lost.
Delivered ==
  \A n, o \in Node : \A i \in 1..MaxOwn[o] :
    Len(rumors[o][o]) >= i ~> Len(rumors[n][o]) >= i

\* The configurations in which the claims above hold: the goroutines of a
\* gossiper number its messages consistently.  A client rumor (or the initial
\* heartbeat) counts what HandleSendingBlocks or SendTLC has only stored.
NoMixing ==
  \A n \in Node : \/ Kinds[n] \subseteq {"tlc", "block"}
                  \/ Kinds[n] = {"rumor"}
                  \/ Kinds[n] = {"heartbeat"}
=============================================================================
