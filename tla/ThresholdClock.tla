--------------------------- MODULE ThresholdClock ---------------------------
(***************************************************************************)
(* Transactions confirmed by a threshold of gossipers, and the threshold   *)
(* logical clock of -hw3ex3 on top of it: gossipers work in rounds.  In a  *)
(* round a gossiper proposes one transaction, collects acknowledgements,   *)
(* broadcasts a confirmation, and goes on once enough proposals of the     *)
(* round are confirmed.  Without the flag every transaction is proposed at *)
(* once, acknowledged by whoever receives it, and there are no rounds.     *)
(*                                                                         *)
(* Gossip is abstracted to what module Gossip establishes: log[o] reaches  *)
(* every gossiper in order, at any later time.  Acknowledgements are UDP   *)
(* packets that arrive at any time or never.                               *)
(***************************************************************************)
EXTENDS Integers, Sequences, FiniteSets

CONSTANTS Node,      \* the gossipers that are up
          Flags,     \* the command lines that they may have been started with
          MaxTx,     \* MaxTx[n], bound: transactions the clients of n submit
          MaxHeard   \* MaxHeard[n][o], bound: messages of o that reach n

ASSUME ConstantsAssumption == /\ IsFiniteSet(Node)
                              /\ Flags \subseteq [numPeers : Nat, hw3ex3 : BOOLEAN, ackAll : BOOLEAN]
                              /\ MaxTx \in [Node -> Nat]
                              /\ MaxHeard \in [Node -> [Node -> Nat]]

VARIABLES
  flags,      \* the command line, the same at all gossipers
  log,        \* log[o]: TLC messages of o, a message's ID being its position;
              \* 0 is a proposal, id > 0 confirms the proposal with that ID
  heard,      \* heard[n][o]: how many of them n has stored
  handlers,   \* HandleTLCMessage goroutines of n, after Update
  clock,      \* TLCClock.Clock: proposals of o that n has numbered
  roundOf,    \* TLCClock.Map: their rounds; a missing entry reads 0
  sendPc,     \* where HandleRoundSend of n is
  txs,        \* its variable round: transactions taken
  sendTLC,    \* SendTLC goroutines of n
  acks,       \* ACK packets in flight
  ackMap,     \* ackMap of HandleTLCAck, as pairs of a proposal and a peer
  finishMap,  \* finishMap of HandleTLCAck
  handoff,    \* the send on terminateCh where HandleTLCAck of n is
  ackRound,   \* round of RoundTLCAck
  tlcCache,   \* tlcCache of RoundTLCAck
  confirmed,  \* confirmations in ConfirmedMessageCh, or held by a goroutine
              \* that sends them there: they come out in any order
  counted,    \* confirmed proposals that HandleConfirmedMessage has counted
  confirmPc,  \* where HandleConfirmedMessage of n is
  pending,    \* the round it is about to finish
  finished,   \* roundFinishMap
  round       \* g.Round

gossipVars == <<log, heard>>
clockVars == <<clock, roundOf>>
sendVars == <<sendPc, txs>>
ackVars == <<ackMap, finishMap, handoff>>
roundAckVars == <<ackRound, tlcCache>>
confirmVars == <<counted, confirmPc, pending, finished, round>>
vars == <<flags, gossipVars, handlers, clockVars, sendVars, sendTLC, acks, ackVars,
          roundAckVars, confirmed, confirmVars>>

N == flags.numPeers
hw3ex3 == flags.hw3ex3

Idle == [id |-> 0, open |-> FALSE]
MaxLog(o) == 2 * MaxTx[o]

Init == /\ flags \in Flags
        /\ log = [o \in Node |-> <<>>]
        /\ heard = [n \in Node |-> [o \in Node |-> 0]]
        /\ handlers = [n \in Node |-> {}]
        /\ clock = [n \in Node |-> [o \in Node |-> 0]]
        /\ roundOf = [n \in Node |-> [o \in Node |-> [id \in 1..MaxLog(o) |-> 0]]]
        /\ sendPc = [n \in Node |-> "idle"]
        /\ txs = [n \in Node |-> 0]
        /\ sendTLC = [n \in Node |-> {}]
        /\ acks = {}
        /\ ackMap = [n \in Node |-> {}]
        /\ finishMap = [n \in Node |-> {}]
        /\ handoff = [n \in Node |-> Idle]
        /\ ackRound = [n \in Node |-> 0]
        /\ tlcCache = [n \in Node |-> {}]
        /\ confirmed = [n \in Node |-> {}]
        /\ counted = [n \in Node |-> {}]
        /\ confirmPc = [n \in Node |-> "receive"]
        /\ pending = [n \in Node |-> 0]
        /\ finished = [n \in Node |-> {}]
        /\ round = [n \in Node |-> 0]
-----------------------------------------------------------------------------
(* Rounds and acknowledgements *)

\* math.Ceil(float64(NumPeers) / 2)
Threshold == (N + 1) \div 2

\* Mutant of ComputeRound: the round is read before the clock is set up.
ComputeRoundEarly(n, o, id) ==
  /\ roundOf' = [roundOf EXCEPT ![n][o][id] = clock[n][o] - 1]
  /\ clock' = [clock EXCEPT ![n][o] = @ + 1]

\* ComputeRound: the next proposal of o gets the next round of o.
ComputeRound(n, o, id) ==
  /\ roundOf' = [roundOf EXCEPT ![n][o][id] = clock[n][o]]
  /\ clock' = [clock EXCEPT ![n][o] = @ + 1]

\* ACK of the proposals <<o, id>> of got.  HandleTLCAck ignores what it has
\* counted or finished, so such packets are left out.
Ack(n, got) == {[src |-> n, dst |-> p[1], id |-> p[2]] :
                  p \in {p \in got : p[2] \notin finishMap[p[1]]}}

\* The witnesses of a proposal of n: n itself and who has acknowledged it.
Witnesses(n, id) == {n} \cup {p \in Node : <<id, p>> \in ackMap[n]}

\* Mutant of Enough: one less will do.
EnoughButOne(count) == count >= Threshold - 1

Enough(count) == count >= Threshold
-----------------------------------------------------------------------------
(* HandleRoundSend and SendTLC *)

\* HandleRoundSend takes a transaction and starts SendTLC with its own round.
\* HandleClient starts it for every transaction without -hw3ex3; the round,
\* which is not looked at then, keeps the goroutines apart.
TakeTx(n) ==
  /\ sendPc[n] = "idle" /\ txs[n] < MaxTx[n]
  /\ sendTLC' = [sendTLC EXCEPT ![n] = @ \cup {[round |-> txs[n], id |-> 0, step |-> "start"]}]
  /\ txs' = [txs EXCEPT ![n] = @ + 1]
  /\ sendPc' = [sendPc EXCEPT ![n] = IF hw3ex3 THEN "offer" ELSE "idle"]
  /\ UNCHANGED <<flags, gossipVars, handlers, clockVars, acks, ackVars, roundAckVars,
                 confirmed, confirmVars>>

\* Mutant of Becomes: the goroutine does not leave its loop.
BecomesToo(n, g, h) == sendTLC' = [sendTLC EXCEPT ![n] = @ \cup {h}]

Becomes(n, g, h) == sendTLC' = [sendTLC EXCEPT ![n] = (@ \ {g}) \cup {h}]

\* Mutant of AfterProposal: three gossipers count as fewer than three.
AfterProposalOfThree == IF N > 3 THEN "register" ELSE "confirm"

\* With fewer than three gossipers SendTLC goes on to confirm.
AfterProposal == IF N >= 3 THEN "register" ELSE "confirm"

\* SendTLC, step 1.
Propose(n) ==
  \E g \in sendTLC[n] :
    /\ g.step = "start"
    /\ LET id == Len(log[n]) + 1 IN
         /\ log' = [log EXCEPT ![n] = Append(@, 0)]
         /\ ComputeRound(n, n, id)
         /\ Becomes(n, g, [g EXCEPT !.id = id, !.step = AfterProposal])
    /\ UNCHANGED <<flags, heard, handlers, sendVars, acks, ackVars, roundAckVars, confirmed, confirmVars>>

\* Step 2: from here on HandleTLCAck finds a channel for this proposal.
Register(n) ==
  \E g \in sendTLC[n] :
    /\ g.step = "register"
    /\ Becomes(n, g, [g EXCEPT !.step = "wait"])
    /\ UNCHANGED <<flags, gossipVars, handlers, clockVars, sendVars, acks, ackVars, roundAckVars,
                   confirmed, confirmVars>>

\* Step 3, the ticker, once the gossiper has advanced: the goroutine returns
\* and its channel stays registered.  Otherwise the ticker mongers again.
GiveUp(n) ==
  \E g \in sendTLC[n] :
    /\ hw3ex3 /\ g.step = "wait" /\ round[n] > g.round
    /\ Becomes(n, g, [g EXCEPT !.step = "gone"])
    /\ UNCHANGED <<flags, gossipVars, handlers, clockVars, sendVars, acks, ackVars, roundAckVars,
                   confirmed, confirmVars>>

\* What a confirmation puts into ConfirmedMessageCh, which only rounds need.
ToCount(o, id) == IF hw3ex3 THEN {<<o, id>>} ELSE {}

\* Step 4: the confirmation is a TLC message too.
Confirm(n) ==
  \E g \in sendTLC[n] :
    /\ g.step = "confirm"
    /\ log' = [log EXCEPT ![n] = Append(@, g.id)]
    /\ confirmed' = [confirmed EXCEPT ![n] = @ \cup ToCount(n, g.id)]
    /\ Becomes(n, g, [g EXCEPT !.step = "over"])
    /\ UNCHANGED <<flags, heard, handlers, clockVars, sendVars, acks, ackVars, roundAckVars, confirmVars>>
-----------------------------------------------------------------------------
(* HandleTLCMessage and RoundTLCAck *)

\* HandleTLCMessage up to Update, for the next message of o, with the ACK that
\* it sends at once, or the confirmation that it passes on.
Receive(n, o) ==
  /\ n # o /\ heard[n][o] < Len(log[o]) /\ heard[n][o] < MaxHeard[n][o]
  /\ heard' = [heard EXCEPT ![n][o] = @ + 1]
  /\ LET id == heard[n][o] + 1
         of == log[o][id]
     IN  \/ /\ of = 0 /\ hw3ex3
            /\ handlers' = [handlers EXCEPT ![n] = @ \cup
                 {[origin |-> o, id |-> id, round |-> 0, step |-> "compute"]}]
            /\ UNCHANGED <<acks, confirmed>>
         \/ /\ of = 0 /\ ~hw3ex3
            /\ acks' = acks \cup Ack(n, {<<o, id>>})
            /\ UNCHANGED <<handlers, confirmed>>
         \/ /\ of > 0
            /\ confirmed' = [confirmed EXCEPT ![n] = @ \cup ToCount(o, of)]
            /\ UNCHANGED <<handlers, acks>>
  /\ UNCHANGED <<flags, log, clockVars, sendVars, sendTLC, ackVars, roundAckVars, confirmVars>>

\* ... an unconfirmed message in a round: ComputeRound, in this goroutine;
Compute(n) ==
  \E h \in handlers[n] :
    /\ h.step = "compute"
    /\ ComputeRound(n, h.origin, h.id)
    /\ handlers' = [handlers EXCEPT ![n] = (@ \ {h}) \cup
                      {[h EXCEPT !.round = clock[n][h.origin], !.step = "wrapped"]}]
    /\ UNCHANGED <<flags, gossipVars, sendVars, sendTLC, acks, ackVars, roundAckVars,
                   confirmed, confirmVars>>

\* ... then the rendezvous with RoundTLCAck on WrappedTLCCh.
RoundAck(n) ==
  \E h \in handlers[n] :
    /\ h.step = "wrapped"
    /\ handlers' = [handlers EXCEPT ![n] = @ \ {h}]
    /\ IF flags.ackAll \/ (h.round >= ackRound[n] /\ h.round = clock[n][h.origin] - 1)
       THEN /\ acks' = acks \cup Ack(n, {<<h.origin, h.id>>})
            /\ UNCHANGED tlcCache
       ELSE /\ tlcCache' = IF h.round > ackRound[n]
                           THEN [tlcCache EXCEPT ![n] = @ \cup {h}] ELSE tlcCache
            /\ UNCHANGED acks
    /\ UNCHANGED <<flags, gossipVars, clockVars, sendVars, sendTLC, ackVars, ackRound,
                   confirmed, confirmVars>>

-----------------------------------------------------------------------------
(* HandleTLCAck *)

\* An acknowledgement is counted once per peer, and offered to the goroutine
\* of its proposal; before Register there is only a nil channel to offer it on.
HandleTLCAck(n) ==
  \E a \in acks :
    /\ a.dst = n /\ handoff[n] = Idle
    /\ acks' = acks \ {a}
    /\ ackMap' = [ackMap EXCEPT ![n] = @ \cup {<<a.id, a.src>>}]
    /\ handoff' = [handoff EXCEPT ![n] =
         [id |-> a.id, open |-> \E g \in sendTLC[n] : g.id = a.id /\ g.step # "register"]]
    /\ UNCHANGED <<flags, gossipVars, handlers, clockVars, sendVars, sendTLC, finishMap, roundAckVars,
                   confirmed, confirmVars>>

\* The rendezvous on terminateCh; both sides compare with the threshold.
Deliver(n) ==
  \E g \in sendTLC[n] :
    /\ handoff[n].open /\ g.id = handoff[n].id /\ g.step = "wait"
    /\ handoff' = [handoff EXCEPT ![n] = Idle]
    /\ IF Enough(Cardinality(Witnesses(n, g.id)))
       THEN /\ finishMap' = [finishMap EXCEPT ![n] = @ \cup {g.id}]
            /\ Becomes(n, g, [g EXCEPT !.step = "confirm"])
            /\ acks' = {a \in acks : a.dst # n \/ a.id # g.id}
       ELSE UNCHANGED <<finishMap, sendTLC, acks>>
    /\ UNCHANGED <<flags, gossipVars, handlers, clockVars, sendVars, ackMap, roundAckVars,
                   confirmed, confirmVars>>
-----------------------------------------------------------------------------
(* HandleConfirmedMessage *)

\* The proposals counted for round r.
Counted(n, r) == {<<c.origin, c.id>> : c \in {c \in counted[n] : c.round = r}}

\* The confirmation counts for the round its proposal was given, if any.
CountConfirmed(n) ==
  /\ confirmPc[n] = "receive"
  /\ \E c \in confirmed[n] : LET o == c[1]  id == c[2]  r == roundOf[n][o][id] IN
       /\ confirmed' = [confirmed EXCEPT ![n] = @ \ {c}]
       /\ IF r \in finished[n]
          THEN UNCHANGED <<counted, confirmPc, pending>>
          ELSE /\ counted' = [counted EXCEPT ![n] = @ \cup {[round |-> r, origin |-> o, id |-> id]}]
               /\ IF Enough(Cardinality(Counted(n, r)) + 1)
                  THEN /\ confirmPc' = [confirmPc EXCEPT ![n] = "advance"]
                       /\ pending' = [pending EXCEPT ![n] = r]
                  ELSE UNCHANGED <<confirmPc, pending>>
  /\ UNCHANGED <<flags, gossipVars, handlers, clockVars, sendVars, sendTLC, acks, ackVars,
                 roundAckVars, finished, round>>

\* Mutant of Advance: it does not wait for HandleRoundSend.
AdvanceAlone(n) ==
  /\ confirmPc[n] = "advance"
  /\ finished' = [finished EXCEPT ![n] = @ \cup {pending[n]}]
  /\ round' = [round EXCEPT ![n] = @ + 1]
  /\ confirmPc' = [confirmPc EXCEPT ![n] = "enter"]
  /\ pending' = [pending EXCEPT ![n] = 0]
  /\ UNCHANGED <<flags, gossipVars, handlers, clockVars, sendVars, sendTLC, acks, ackVars,
                 roundAckVars, confirmed, counted>>

\* The rendezvous on sendCh: nobody advances without a transaction of its own.
Advance(n) ==
  /\ confirmPc[n] = "advance" /\ sendPc[n] = "offer"
  /\ finished' = [finished EXCEPT ![n] = @ \cup {pending[n]}]
  /\ round' = [round EXCEPT ![n] = @ + 1]
  /\ confirmPc' = [confirmPc EXCEPT ![n] = "enter"]
  /\ sendPc' = [sendPc EXCEPT ![n] = "wait"]
  /\ pending' = [pending EXCEPT ![n] = 0]
  /\ UNCHANGED <<flags, gossipVars, handlers, clockVars, txs, sendTLC, acks, ackVars, roundAckVars,
                 confirmed, counted>>

\* The rendezvous on TLCRoundCh, where RoundTLCAck acknowledges what it has
\* cached for the new round, and the one on confirmCh, which frees
\* HandleRoundSend for the next transaction.
EnterRound(n) ==
  /\ confirmPc[n] = "enter"
  /\ ackRound' = [ackRound EXCEPT ![n] = @ + 1]
  /\ acks' = acks \cup
       Ack(n, {<<h.origin, h.id>> : h \in {h \in tlcCache[n] : h.round = ackRound'[n]}})
  /\ confirmPc' = [confirmPc EXCEPT ![n] = "receive"]
  /\ sendPc' = [sendPc EXCEPT ![n] = "idle"]
  /\ UNCHANGED <<flags, gossipVars, handlers, clockVars, txs, sendTLC, ackVars, tlcCache,
                 confirmed, counted, pending, finished, round>>
-----------------------------------------------------------------------------
SendTLC(n) == Propose(n) \/ Register(n) \/ GiveUp(n) \/ Confirm(n)

HandleTLCMessage(n) ==
  (\E o \in Node : Receive(n, o)) \/ Compute(n) \/ RoundAck(n)

HandleConfirmedMessage(n) == CountConfirmed(n) \/ Advance(n) \/ EnterRound(n)

Next == \E n \in Node : \/ TakeTx(n)
                        \/ SendTLC(n)
                        \/ HandleTLCMessage(n)
                        \/ HandleTLCAck(n)
                        \/ Deliver(n)
                        \/ HandleConfirmedMessage(n)

Spec == Init /\ [][Next]_vars
-----------------------------------------------------------------------------
(* Properties *)

Handler == [origin : Node, id : Nat, round : Nat, step : {"compute", "wrapped"}]

TypeOK ==
  /\ flags \in Flags
  /\ log \in [Node -> Seq(Nat)]
  /\ heard \in [Node -> [Node -> Nat]]
  /\ handlers \in [Node -> SUBSET Handler]
  /\ clock \in [Node -> [Node -> Nat]]
  /\ \A n, o \in Node : roundOf[n][o] \in [1..MaxLog(o) -> Nat]
  /\ sendPc \in [Node -> {"idle", "offer", "wait"}]
  /\ txs \in [Node -> Nat]
  /\ sendTLC \in [Node -> SUBSET [round : Nat, id : Nat,
                    step : {"start", "register", "wait", "gone", "confirm", "over"}]]
  /\ acks \in SUBSET [src : Node, dst : Node, id : Nat]
  /\ ackMap \in [Node -> SUBSET (Nat \X Node)]
  /\ finishMap \in [Node -> SUBSET Nat]
  /\ handoff \in [Node -> [id : Nat, open : BOOLEAN]]
  /\ ackRound \in [Node -> Nat]
  /\ tlcCache \in [Node -> SUBSET Handler]
  /\ confirmed \in [Node -> SUBSET (Node \X Nat)]
  /\ counted \in [Node -> SUBSET [round : Nat, origin : Node, id : Nat]]
  /\ confirmPc \in [Node -> {"receive", "advance", "enter"}]
  /\ pending \in [Node -> Nat]
  /\ finished \in [Node -> SUBSET Nat]
  /\ round \in [Node -> Nat]

\* SendTLC "Broadcast confirmation to all peers after receiving majority ack":
\* a confirmed proposal is held by a threshold of gossipers, whichever
\* acknowledgements, of whichever proposals, got through.
ConfirmedIsHeld ==
  N >= 3 => \A o \in Node : \A i \in 1..Len(log[o]) : log[o][i] > 0 =>
    Cardinality({o} \cup {n \in Node : heard[n][o] >= log[o][i]}) >= Threshold

\* A proposal is confirmed by one message only, and after it was made, although
\* acknowledgements keep coming in and goroutines of several rounds overlap.
ConfirmedOnce ==
  \A o \in Node : \A i, j \in 1..Len(log[o]) : log[o][i] > 0 =>
    /\ log[o][i] < i /\ log[o][log[o][i]] = 0
    /\ log[o][j] = log[o][i] => i = j

\* The handshakes on sendCh, TLCRoundCh and confirmCh keep the round counters
\* of three goroutines together: HandleRoundSend's, g.Round and RoundTLCAck's.
Lockstep ==
  hw3ex3 => \A n \in Node :
    /\ round[n] = txs[n] - (IF sendPc[n] = "offer" THEN 1 ELSE 0)
    /\ ackRound[n] = round[n] - (IF confirmPc[n] = "enter" THEN 1 ELSE 0)
    /\ Cardinality(finished[n]) = round[n]

Proposals(o) == Cardinality({i \in 1..Len(log[o]) : log[o][i] = 0})

\* The threshold clock: no gossiper's round outruns the proposals of a
\* threshold of gossipers, whatever rounds its goroutines compute for them.
NoOutrun ==
  \A n \in Node : round[n] > 0 =>
    Cardinality({o \in Node : Proposals(o) >= round[n]}) >= Threshold

\* A counted confirmation stands under another round than its proposal got: it
\* overtook the goroutine that computes that round, and read 0 instead.
Misplaced(n, c) ==
  \/ roundOf[n][c.origin][c.id] # c.round
  \/ \E h \in handlers[n] : h.step = "compute" /\ h.origin = c.origin /\ h.id = c.id

\* HandleConfirmedMessage: "Increment round when receives majority confirmed
\* message from current round".  It counts messages, and those of one gossiper
\* can count twice in a round; but only if one of them overtook its proposal.
\* Of an even number of gossipers the half is enough, which is no majority.
AdvancesOnMajority ==
  \A n \in Node : \A r \in finished[n] :
    \/ 2 * Cardinality({c[1] : c \in Counted(n, r)}) > N
    \/ 2 * Cardinality({c[1] : c \in Counted(n, r)}) = N
    \/ \E c \in counted[n] : c.round = r /\ Misplaced(n, c)
=============================================================================
