------------------------------ MODULE Routing ------------------------------
(***************************************************************************)
(* Next hops and hop limits.  A gossiper that learns a rumor or a TLC      *)
(* message gives the router the peer it came from as the next hop towards  *)
(* its origin; private messages and forwarded packets follow these tables. *)
(*                                                                         *)
(* Logs are those of Gossip, reduced to what was learnt in which order: a  *)
(* gossiper takes the messages of an origin one by one, each from some     *)
(* peer that has it.  Block rumors are in the logs but not for the router. *)
(***************************************************************************)
EXTENDS Integers, Sequences, FiniteSets

CONSTANTS Node,      \* gossipers; a gossiper's name stands for its address
          Peers,     \* Peers[n]: the gossipers that exchange packets with n
          MaxOwn,    \* MaxOwn[n], bound: messages originated by n
          Watched,   \* gossipers whose web page is open: GetRoutable is called
          HopLimit,  \* the limit that every packet starts with
          MaxUint,   \* the largest value of the limit's type, 2^32 - 1 in the code
          Nowhere    \* no entry in the table

ASSUME RoutingAssumption ==
  /\ Peers \in [Node -> SUBSET Node]
  /\ \A n \in Node : n \notin Peers[n]
  /\ MaxOwn \in [Node -> Nat]
  /\ Watched \subseteq Node
  /\ MaxUint \in Nat /\ HopLimit \in 1..MaxUint
  /\ Nowhere \notin Node

VARIABLES log,      \* log[o]: what o originated, "routed" or "block" each
          have,     \* have[n][o]: how many of them n has learnt
          pending,  \* pending[n]: handlers that wait to feed router.Ch, or whose
                    \* pair the router holds without having stored it
          table,    \* table[n][o]: DSDV.Map of n
          from,     \* from[n][o]: the message the entry was made from, or 0
          locked,   \* locked[n]: ForwardPkt returned with Dsdv.Mux held
          deaf,     \* deaf[n]: the listen loop waits for that mutex
          listing,  \* listing[n]: GetRoutable is iterating over the map
          down,     \* down[n]: n ended with a concurrent map iteration and write
          packet    \* packet[k]: a packet of kind k on its way

learnt == <<log, have>>
routes == <<table, from>>
faults == <<locked, deaf, listing, down>>
vars == <<log, have, pending, routes, faults, packet>>

\* HandlePrivateMsg serves the first kind; data requests and replies, search
\* replies and acknowledgements are forwarded by the listen loop.
Kind == {"private", "forwarded"}
None == [state |-> "none", dst |-> Nowhere, at |-> Nowhere, left |-> HopLimit, calm |-> FALSE]
Ended == {"delivered", "limit", "unknown", "waits", "lost"}
Pair == [origin : Node, relayer : Node, id : Nat \ {0}]

Init == /\ log = [o \in Node |-> <<>>]
        /\ have = [n \in Node |-> [o \in Node |-> 0]]
        /\ pending = [n \in Node |-> {}]
        /\ table = [n \in Node |-> [o \in Node |-> Nowhere]]
        /\ from = [n \in Node |-> [o \in Node |-> 0]]
        /\ locked = [n \in Node |-> FALSE]
        /\ deaf = [n \in Node |-> FALSE]
        /\ listing = [n \in Node |-> FALSE]
        /\ down = [n \in Node |-> FALSE]
        /\ packet = [k \in Kind |-> None]
-----------------------------------------------------------------------------
(* The router *)

Serves(n) == ~deaf[n] /\ ~down[n]

\* The last message of o that n has learnt and that was for the router, or 0.
Latest(n, o) ==
  LET routed == {i \in 1..have[n][o] : log[o][i] = "routed"}
  IN  CHOOSE m \in routed \cup {0} : \A i \in routed : i <= m

\* Every message has reached everybody, and every table stands on the last one.
Settled == \A n \in Node : /\ pending[n] = {}
                           /\ \A o \in Node \ {n} : /\ have[n][o] = Len(log[o])
                                                    /\ from[n][o] = Latest(n, o)

\* o originates a rumor, a heartbeat, a TLC message or a block.
Announce(o) ==
  /\ ~down[o]
  /\ Len(log[o]) < MaxOwn[o]
  /\ \E what \in {"routed", "block"} : log' = [log EXCEPT ![o] = Append(@, what)]
  /\ have' = [have EXCEPT ![o][o] = @ + 1]
  /\ packet' = [k \in Kind |-> [packet[k] EXCEPT !.calm = FALSE]]
  /\ UNCHANGED <<pending, routes, faults>>

\* Mutant of Learn: the router is fed whether the message was learnt or not.
LearnOrHearAgain(n, p, o) ==
  /\ Serves(n)
  /\ p \in Peers[n]
  /\ have[n][o] <= have[p][o]
  /\ \/ have[n][o] < have[p][o] /\ have' = [have EXCEPT ![n][o] = @ + 1]
     \/ have[n][o] > 0 /\ n # o /\ UNCHANGED have
  /\ pending' = IF log[o][have'[n][o]] = "routed"
                  THEN [pending EXCEPT ![n] = @ \cup {[origin |-> o, relayer |-> p, id |-> have'[n][o]]}]
                  ELSE pending
  /\ UNCHANGED <<log, routes, faults, packet>>

\* HandleRumor, HandleTLCMessage or HandleReceivingBlock of n with the next
\* message of o from p; Update has it in the log before the router hears of it.
Learn(n, p, o) ==
  /\ Serves(n)
  /\ p \in Peers[n]
  /\ have[n][o] < have[p][o]
  /\ LET id == have[n][o] + 1 IN
       /\ have' = [have EXCEPT ![n][o] = id]
       /\ pending' = IF log[o][id] = "routed"
                       THEN [pending EXCEPT ![n] = @ \cup {[origin |-> o, relayer |-> p, id |-> id]}]
                       ELSE pending
  /\ UNCHANGED <<log, routes, faults, packet>>

\* Mutant of Store: origin and relayer swapped.
StoreSwapped(n, pair) ==
  /\ table' = [table EXCEPT ![n][pair.relayer] = pair.origin]
  /\ from' = [from EXCEPT ![n][pair.relayer] = pair.id]

Store(n, pair) ==
  /\ table' = [table EXCEPT ![n][pair.origin] = pair.relayer]
  /\ from' = [from EXCEPT ![n][pair.origin] = pair.id]

\* StartRouting: the waiting handlers are served in any order.  A write while
\* the map is being iterated may end the process.
Route(n) ==
  /\ ~down[n] /\ ~locked[n]
  /\ \E pair \in pending[n] : /\ Store(n, pair)
                              /\ pending' = [pending EXCEPT ![n] = @ \ {pair}]
  /\ \E hit \in IF listing[n] THEN BOOLEAN ELSE {FALSE} : down' = [down EXCEPT ![n] = hit]
  /\ UNCHANGED <<learnt, locked, deaf, listing, packet>>

\* GetRoutable starts and ends its iteration, without the mutex.
GetRoutable(n) ==
  /\ n \in Watched
  /\ ~down[n]
  /\ listing' = [listing EXCEPT ![n] = ~@]
  /\ UNCHANGED <<learnt, pending, routes, locked, deaf, down, packet>>
-----------------------------------------------------------------------------
(* Packets *)

\* HopLimit is unsigned: 0 - 1 is the largest value.
Decrement(left) == (left - 1) % (MaxUint + 1)

Ends(k, how) == packet' = [packet EXCEPT ![k].state = how]

\* The next hop of n is looked up under the mutex and the packet sent to it.
Hop(n, k, left) ==
  packet' = [packet EXCEPT ![k].at = table[n][packet[k].dst], ![k].left = left]

\* A client command, a file request, a reply or an acknowledgement: without an
\* entry the packet is addressed to the empty string, which nobody receives.
Send(n, k, d) ==
  /\ ~down[n] /\ ~locked[n]
  /\ packet[k].state # "moving"
  /\ packet' = [packet EXCEPT ![k] =
       [@ EXCEPT !.dst = d, !.at = table[n][d], !.left = HopLimit, !.calm = Settled,
                 !.state = IF table[n][d] = Nowhere THEN "unknown" ELSE "moving"]]
  /\ UNCHANGED <<learnt, pending, routes, faults>>

Arrives(n, k) == Serves(n) /\ packet[k].state = "moving" /\ packet[k].at = n

\* Mutant of HandlePrivateMsg: the limit is tested before the destination.
PrivateLimitFirst(n) ==
  /\ Arrives(n, "private")
  /\ LET left == Decrement(packet["private"].left)
         d == packet["private"].dst
     IN  \/ left # 0 /\ d = n /\ Ends("private", "delivered")
         \/ left = 0 /\ Ends("private", "limit")
         \/ left # 0 /\ d # n /\ locked[n] /\ Ends("private", "waits")
         \/ left # 0 /\ d # n /\ ~locked[n] /\ table[n][d] = Nowhere /\ Ends("private", "unknown")
         \/ left # 0 /\ d # n /\ ~locked[n] /\ table[n][d] # Nowhere /\ Hop(n, "private", left)
  /\ UNCHANGED <<learnt, pending, routes, faults>>

\* Mutant of HandlePrivateMsg: no test of the limit.
PrivateUnlimited(n) ==
  /\ Arrives(n, "private")
  /\ LET left == Decrement(packet["private"].left)
         d == packet["private"].dst
     IN  \/ d = n /\ Ends("private", "delivered")
         \/ d # n /\ locked[n] /\ Ends("private", "waits")
         \/ d # n /\ ~locked[n] /\ table[n][d] = Nowhere /\ Ends("private", "unknown")
         \/ d # n /\ ~locked[n] /\ table[n][d] # Nowhere /\ Hop(n, "private", left)
  /\ UNCHANGED <<learnt, pending, routes, faults>>

\* In a goroutine of its own, which waits for ever if the mutex was left locked.
HandlePrivateMsg(n) ==
  /\ Arrives(n, "private")
  /\ LET left == Decrement(packet["private"].left)
         d == packet["private"].dst
     IN  \/ d = n /\ Ends("private", "delivered")
         \/ d # n /\ left = 0 /\ Ends("private", "limit")
         \/ d # n /\ left # 0 /\ locked[n] /\ Ends("private", "waits")
         \/ d # n /\ left # 0 /\ ~locked[n] /\ table[n][d] = Nowhere /\ Ends("private", "unknown")
         \/ d # n /\ left # 0 /\ ~locked[n] /\ table[n][d] # Nowhere /\ Hop(n, "private", left)
  /\ UNCHANGED <<learnt, pending, routes, faults>>

\* Mutant of ForwardPkt: the limit that was tested is not the one that is sent.
ForwardUndecremented(n, d, left) ==
  /\ ~locked[n] /\ table[n][d] # Nowhere /\ Hop(n, "forwarded", left + 1)
  /\ UNCHANGED <<locked, deaf>>

\* In the listen loop: an unknown destination leaves the mutex locked, and the
\* next packet to be forwarded stops the loop.
ForwardPkt(n, d, left) ==
  \/ /\ locked[n]
     /\ deaf' = [deaf EXCEPT ![n] = TRUE]
     /\ Ends("forwarded", "waits")
     /\ UNCHANGED locked
  \/ /\ ~locked[n] /\ table[n][d] = Nowhere
     /\ locked' = [locked EXCEPT ![n] = TRUE]
     /\ Ends("forwarded", "unknown")
     /\ UNCHANGED deaf
  \/ /\ ~locked[n] /\ table[n][d] # Nowhere
     /\ Hop(n, "forwarded", left)
     /\ UNCHANGED <<locked, deaf>>

\* StartHandling for DataRequest, DataReply, SearchReply and ACK.
Handle(n) ==
  /\ Arrives(n, "forwarded")
  /\ LET left == Decrement(packet["forwarded"].left)
         d == packet["forwarded"].dst
     IN  \/ d = n /\ Ends("forwarded", "delivered") /\ UNCHANGED <<locked, deaf>>
         \/ d # n /\ left = 0 /\ Ends("forwarded", "limit") /\ UNCHANGED <<locked, deaf>>
         \/ d # n /\ left > 0 /\ ForwardPkt(n, d, left)
  /\ UNCHANGED <<learnt, pending, routes, listing, down>>

\* UDP loses a packet, or its receiver does not listen any more.
Lose(k) ==
  /\ packet[k].state = "moving"
  /\ Ends(k, "lost")
  /\ UNCHANGED <<learnt, pending, routes, faults>>

Next == \/ \E o \in Node : Announce(o) \/ Route(o) \/ GetRoutable(o)
        \/ \E n, p, o \in Node : Learn(n, p, o)
        \/ \E n, d \in Node, k \in Kind : Send(n, k, d)
        \/ \E n \in Node : HandlePrivateMsg(n) \/ Handle(n)
        \/ \E k \in Kind : Lose(k)

\* A packet that is on its way arrives or is lost, and what arrives is served.
Fairness == /\ \A k \in Kind : WF_vars(Lose(k) /\ ~Serves(packet[k].at))
            /\ \A n \in Node : WF_vars(HandlePrivateMsg(n)) /\ WF_vars(Handle(n))

Spec == Init /\ [][Next]_vars /\ Fairness
-----------------------------------------------------------------------------
(* Properties *)

\* Every variable keeps to its type; in particular no packet is sent on with an
\* exhausted limit, which the next gossiper would decrement to the largest one.
TypeOK ==
  /\ log \in [Node -> Seq({"routed", "block"})]
  /\ have \in [Node -> [Node -> Nat]]
  /\ pending \in [Node -> SUBSET Pair]
  /\ table \in [Node -> [Node -> Node \cup {Nowhere}]]
  /\ from \in [Node -> [Node -> Nat]]
  /\ locked \in [Node -> BOOLEAN] /\ deaf \in [Node -> BOOLEAN]
  /\ listing \in [Node -> BOOLEAN] /\ down \in [Node -> BOOLEAN]
  /\ packet \in [Kind -> [state : {"none", "moving"} \cup Ended, dst : Node \cup {Nowhere},
                           at : Node \cup {Nowhere}, left : 1..HopLimit, calm : BOOLEAN]]

\* Next hops towards an origin can lead in a circle only through a gossiper
\* whose entry is older than what it has learnt from that origin: the router is
\* asynchronous and has no sequence numbers, but it is fed new messages only.
LoopNeedsLag ==
  \A o \in Node : \A circle \in (SUBSET Node) \ {{}} :
    (\A n \in circle : table[n][o] \in circle) => \E n \in circle : from[n][o] < Latest(n, o)

\* A packet is sent on only to a gossiper that knows the destination, is it, or
\* has a handler about to tell its router: ForwardPkt's early return, which
\* leaves the mutex locked, is reachable only in that window.
RelayKnowsOrLearns ==
  \A k \in Kind : LET p == packet[k] IN
    p.state = "moving" =>
      \/ p.at = p.dst
      \/ table[p.at][p.dst] # Nowhere
      \/ \E pair \in pending[p.at] : pair.origin = p.dst

\* A packet sent when every message has reached everybody and every table
\* stands on the last one, and overtaken by no new message, neither runs out of
\* its limit nor meets a gossiper that does not know its destination.
SettledRoutesDeliver ==
  \A k \in Kind : LET p == packet[k] IN
    p.calm => /\ p.state # "limit"
              /\ p.state = "unknown" => p.at = Nowhere   \* p.dst is unknown to the sender

\* Every packet comes to an end, also on tables that lead in a circle.
EveryPacketEnds == \A k \in Kind : packet[k].state = "moving" ~> packet[k].state # "moving"
=============================================================================
