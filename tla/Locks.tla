------------------------------- MODULE Locks -------------------------------
(***************************************************************************)
(* The mutexes of one gossiper and the goroutines that nest them.  A       *)
(* handler is abstracted to what it does to mutexes and to the unbuffered  *)
(* channel of the router, in program order; a branch on data is a choice   *)
(* between paths.  What the handlers do to the data is in Gossip.          *)
(*                                                                         *)
(* NetworkHandler.Send is not a point of waiting here: StartSending takes  *)
(* every packet without a lock.  The channels of mongering goroutines,     *)
(* and the mutexes around them, are in Mongering.                          *)
(***************************************************************************)
EXTENDS Naturals, Sequences

CONSTANTS Thread,   \* goroutines that serve one packet, command or tick at a time
          Router,   \* the goroutine of StartRouting
          Returned, \* a goroutine that returned with a mutex locked
          Duty      \* Duty[t]: the handlers that t may run

Mutex == {"status", "rumors", "peers", "dsdv", "clock", "blockchains", "blocks"}
Lock(l)   == [op |-> "lock", on |-> l]
Unlock(l) == [op |-> "unlock", on |-> l]
Visit(l)  == [op |-> "visit", on |-> l]       \* a critical section without waiting
Leave(l)  == [op |-> "leave", on |-> l]       \* return without Unlock
Feed      == [op |-> "feed", on |-> "dsdv"]   \* g.Dsdv.Ch <- ...
-----------------------------------------------------------------------------
(* The handlers: each a set of paths *)

Hold(l, body) == <<Lock(l)>> \o body \o <<Unlock(l)>>
Brief(l) == <<Visit(l)>>
Then(first, second) == {p \o q : p \in first, q \in second}

\* Mutant of Update: the early return on a message not expected keeps the lock.
UpdateKeepsLock(seen, learnt) ==
  Then({<<Lock("status")>>}, seen) \cup Then({Hold("status", Brief("rumors"))}, learnt)

\* Update, then what the caller does when the message was not / was learnt.
Update(seen, learnt) ==
  Then({Brief("status")}, seen) \cup Then({Hold("status", Brief("rumors"))}, learnt)

StatusBack == Brief("status")              \* the argument of the deferred Send
ACK == Brief("dsdv")
SelectRandomPeer == Brief("peers")         \* what MongerRumor locks, AckChs aside

HandleRumor == Update({StatusBack}, {StatusBack \o <<Feed>> \o SelectRandomPeer})

\* An unconfirmed message is acknowledged or given its round (-hw3ex3).
HandleTLCMessage ==
  Update({StatusBack},
         {StatusBack \o answer \o <<Feed>> \o SelectRandomPeer : answer \in {<<>>, ACK, Brief("clock")}})

\* Mutant of GetOrCreateBlockchain: the new chain's lock is taken first.
CreateBlockchainFirst == {Brief("blockchains"), Hold("blocks", Brief("blockchains")),
                          Hold("blockchains", Brief("blocks"))}

GetOrCreateBlockchain == {Brief("blockchains"), Hold("blockchains", Brief("blocks"))}

HandleReceivingBlock ==
  Then(GetOrCreateBlockchain, Update({StatusBack}, {StatusBack, StatusBack \o SelectRandomPeer}))

ProvidePath == Hold("status", Brief("rumors"))
StatusPaths == Then({Brief("status")}, {<<>>, ProvidePath, Brief("status")})

StartHeartbeat ==
  {<<Lock("status"), Lock("rumors"), Unlock("status"), Unlock("rumors")>> \o SelectRandomPeer}

StartAntiEntropy == {Brief("peers") \o Brief("status"), Brief("peers")}

HandleSendingBlocks == {Brief("rumors") \o Brief("status") \o SelectRandomPeer}

\* HandleClient, rumor case: RumorBuffer's lock is held over StatusBuffer's
\* and both over MongerRumor's choice of a peer.
ClientRumor == {Hold("rumors", Hold("status", SelectRandomPeer))}

\* SendTLC up to its wait for acknowledgements, and after it; in -hw3ex3 mode
\* the vector clock is read under RumorBuffer's lock.
SendTLC(clock) ==
  {Hold("rumors", clock \o Brief("clock")) \o Brief("status") \o SelectRandomPeer,
   Hold("rumors", clock) \o Brief("status") \o SelectRandomPeer}

RoundTLCAck == {ACK, Hold("clock", ACK), Brief("clock")}
HandleConfirmedMessage == {Brief("clock")}

\* Simple mode sends to every peer, SelectRandomPeer and UpdatePeers look at all.
Simple         == {Brief("peers")}
\* A private message, a client's or a peer's, and ForwardPkt look up the next
\* hop; for an unknown destination ForwardPkt returns with Dsdv.Mux locked.
PrivateMsg     == {Brief("dsdv")}
Forward        == {Brief("dsdv")}
ForwardUnknown == {<<Lock("dsdv"), Leave("dsdv")>>}

\* FlipCoinMonger, in MongerRumor's goroutine after an answer or a timeout.
FlipCoin == {SelectRandomPeer}

Handler == [rumor |-> HandleRumor, tlc |-> HandleTLCMessage, block |-> HandleReceivingBlock,
            status |-> StatusPaths, heartbeat |-> StartHeartbeat,
            antiEntropy |-> StartAntiEntropy, sendBlock |-> HandleSendingBlocks,
            clientRumor |-> ClientRumor, clientVote |-> GetOrCreateBlockchain,
            simple |-> Simple, private |-> PrivateMsg, forward |-> Forward,
            forwardUnknown |-> ForwardUnknown, flipCoin |-> FlipCoin,
            sendTLC |-> SendTLC(<<>>), sendTLCInRound |-> SendTLC(Brief("status")),
            roundAck |-> RoundTLCAck, confirmed |-> HandleConfirmedMessage]

StartRouting == Brief("dsdv")

ASSUME DutyAssumption == /\ {Router, Returned} \cap Thread = {} /\ Router # Returned
                         /\ Duty \in [Thread -> SUBSET DOMAIN Handler]
-----------------------------------------------------------------------------
VARIABLES job,     \* job[t]: what t has still to do
          holder   \* holder[l]: the goroutines that hold l

vars == <<job, holder>>

Init == /\ job = [t \in Thread \cup {Router} |-> <<>>]
        /\ holder = [l \in Mutex |-> {}]

\* A packet, a command or a tick of a timer arrives for an idle goroutine.
Begin(t) == /\ job[t] = <<>>
            /\ \E h \in Duty[t] : \E path \in Handler[h] : job' = [job EXCEPT ![t] = path]
            /\ UNCHANGED holder

Wants(t, op) == job[t] # <<>> /\ Head(job[t]).op = op

Acquire(t) == LET l == Head(job[t]).on IN
  /\ Wants(t, "lock")
  /\ holder[l] = {}
  /\ holder' = [holder EXCEPT ![l] = {t}]
  /\ job' = [job EXCEPT ![t] = Tail(@)]

\* A section inside which nothing is waited for is one step: nobody can wait
\* for its end longer than it takes.
Pass(t) == /\ Wants(t, "visit")
           /\ holder[Head(job[t]).on] = {}
           /\ job' = [job EXCEPT ![t] = Tail(@)]
           /\ UNCHANGED holder

Release(t) == LET l == Head(job[t]).on IN
  /\ Wants(t, "unlock")
  /\ holder' = [holder EXCEPT ![l] = {}]
  /\ job' = [job EXCEPT ![t] = Tail(@)]

\* The early return of ForwardPkt: nobody is left to unlock.
Return(t) == LET l == Head(job[t]).on IN
  /\ Wants(t, "leave")
  /\ holder' = [holder EXCEPT ![l] = {Returned}]
  /\ job' = [job EXCEPT ![t] = Tail(@)]

\* HandleRumor hands the router an entry; the router then takes its lock.
FeedRouter(t) == /\ Wants(t, "feed")
                 /\ job[Router] = <<>>
                 /\ job' = [job EXCEPT ![t] = Tail(@), ![Router] = StartRouting]
                 /\ UNCHANGED holder

Step(t) == Acquire(t) \/ Pass(t) \/ Release(t) \/ Return(t) \/ FeedRouter(t)

Next == \/ \E t \in Thread : Begin(t)
        \/ \E t \in Thread \cup {Router} : Step(t)

\* Go's mutexes and channels serve their waiters in turn (a waiter that has
\* waited for a millisecond is handed the mutex), so a step that is possible
\* again and again is taken.  Nothing makes work arrive.
Spec == Init /\ [][Next]_vars /\ \A t \in Thread \cup {Router} : SF_vars(Step(t))
-----------------------------------------------------------------------------
\* The goroutines that t cannot move without.
WaitsFor(t) ==
  CASE Wants(t, "lock") \/ Wants(t, "visit") -> holder[Head(job[t]).on]
    [] Wants(t, "feed") -> IF job[Router] = <<>> THEN {} ELSE {Router}
    [] OTHER -> {}

Circular(set) == set # {} /\ \A t \in set : WaitsFor(t) \cap set # {}

\* HandleClient (clientHandler.go:47) and, in -hw3ex3 mode, SendTLC
\* (blockchain.go:239) want StatusBuffer's mutex while they hold RumorBuffer's;
\* everybody else takes these two the other way round.
Reversed(t) == (Wants(t, "lock") \/ Wants(t, "visit")) /\ Head(job[t]).on = "status" /\ t \in holder["rumors"]

\* However handlers are interleaved, goroutines wait for each other in a circle
\* (or one for itself) only through the reversed nesting: the mutexes of
\* gossiper.go, util.go, mongerHandler.go, blockchain.go, naiveBlockchain.go and
\* the router's channel have one order otherwise.
CircleNeedsReversal ==
  \A set \in SUBSET (Thread \cup {Router}) :
    Circular(set) => \E t \in set : Reversed(t)

\* What stops a gossiper for good: a circle, or the mutex that ForwardPkt keeps
\* (util.go:15) when it does not know the next hop.
Broken == \/ holder["dsdv"] = {Returned}
          \/ \E set \in SUBSET (Thread \cup {Router}) :
               Circular(set) /\ \E t \in set : Reversed(t)

\* README.md:32 "Reliable gossiping: Guarantee delivering rumor in
\* RumorMongering mode" needs every handler to come to its end: what a
\* gossiper has begun to serve it finishes, so its locks come free again,
\* unless one of those two flaws has struck.
FinishesUnlessBroken ==
  \A t \in Thread \cup {Router} : job[t] # <<>> ~> (job[t] = <<>> \/ Broken)
=============================================================================
