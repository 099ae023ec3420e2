----------------------------- MODULE Mongering -----------------------------
(***************************************************************************)
(* What a gossiper does about a message after it has sent it: MongerRumor  *)
(* starts a goroutine that registers a channel in AckChs and waits for an  *)
(* answer or a timeout; HandleStatus starts a goroutine Ack that looks the *)
(* channels up and sends on them while it holds the mutexes of             *)
(* PeerStatuses and of AckChs.                                             *)
(*                                                                         *)
(* The key of a channel is the peer's address, the origin's name and the   *)
(* ID written one after the other, with nothing between them: message 11   *)
(* of "node" and message 1 of "node1" have one key.                        *)
(* Whether the messages arrive is in Gossip; here a peer's status is       *)
(* whatever it may have held so far.                                       *)
(***************************************************************************)
EXTENDS Naturals, FiniteSets, Functions

CONSTANTS Peer, Origin,
          Count,    \* bound: Count[o], how many messages o originates
          MaxID,    \* the largest of them
          KeyOf,    \* KeyOf[<<p, o, i>>]: the text of p, o and i
          Monger,   \* bound: goroutines of MongerRumor at a time
          Acker     \* bound: status packets being served at a time

CONSTANT Nobody     \* no goroutine; an unlocked mutex; an absent entry

ID     == 1..MaxID
NextID == 1..(MaxID + 1)
Message == Peer \X Origin \X ID          \* a message mongered to a peer
Lookup  == Peer \X Origin \X NextID
Key  == Range(KeyOf)
Want == [Origin -> NextID]      \* a status; 1 stands for an absent entry

ASSUME CountAssumption == MaxID \in Nat /\ Count \in [Origin -> 0..MaxID]
ASSUME SlotsAssumption == Nobody \notin Monger \cup Acker

\* Of concatenation: after one address and one name, different IDs read
\* differently.
ASSUME KeyAssumption ==
  /\ DOMAIN KeyOf = Lookup
  /\ \A p \in Peer, o \in Origin : \A i, j \in NextID :
       KeyOf[<<p, o, i>>] = KeyOf[<<p, o, j>>] => i = j

VARIABLES next,       \* next[o]: StatusBuffer
          monger,     \* monger[g]: the goroutines of MongerRumor
          chs,        \* AckChs.Chs: whose channel is registered under a key
          open,       \* the goroutines whose channel is not closed
          acker,      \* acker[k]: the goroutines of HandleStatus
          recorded,   \* recorded[p][o]: PeerStatuses.Map
          statusesMux, chsMux,   \* who holds PeerStatuses.Mux, AckChs.Mux
          crashed     \* has a goroutine panicked?

mongerVars == <<monger, chs, open>>
muxVars    == <<statusesMux, chsMux>>
allVars == <<next, mongerVars, acker, recorded, muxVars, crashed>>

Idle == [pc |-> "idle"]
Started(m) == [pc |-> "register", message |-> m]

MongeringInit ==
  /\ next = [o \in Origin |-> 1]
  /\ monger = [g \in Monger |-> Idle]
  /\ chs = [k \in Key |-> Nobody]
  /\ open = {}
  /\ acker = [k \in Acker |-> Idle]
  /\ recorded = [p \in Peer |-> [o \in Origin |-> 1]]
  /\ statusesMux = Nobody
  /\ chsMux = Nobody
  /\ crashed = FALSE
-----------------------------------------------------------------------------
(* MongerRumor *)

\* MongerRumor sends the message and starts a goroutine to wait for an answer.
MongerRumor(m) == \E g \in Monger : /\ monger[g] = Idle
                                    /\ monger' = [monger EXCEPT ![g] = Started(m)]

\* A message is new here: it is stored and mongered to a random peer.
Learn == \E o \in Origin, p \in Peer :
  /\ ~crashed
  /\ next[o] <= Count[o]
  /\ next' = [next EXCEPT ![o] = @ + 1]
  /\ MongerRumor(<<p, o, next[o]>>)
  /\ UNCHANGED <<chs, open, acker, recorded, muxVars, crashed>>

MyKey(g) == KeyOf[monger[g].message]

\* Step 2: a key that another goroutine registered is overwritten.
Register(g) ==
  /\ ~crashed
  /\ monger[g].pc = "register"
  /\ chsMux = Nobody
  /\ chs' = [chs EXCEPT ![MyKey(g)] = g]
  /\ open' = open \cup {g}
  /\ monger' = [monger EXCEPT ![g].pc = "wait"]
  /\ UNCHANGED <<next, acker, recorded, muxVars, crashed>>

Timeout(g) ==
  /\ ~crashed
  /\ monger[g].pc = "wait"
  /\ monger' = [monger EXCEPT ![g].pc = "expire"]
  /\ UNCHANGED <<next, chs, open, acker, recorded, muxVars, crashed>>

\* Mutant of Retire: the channel is closed, its entry stays.
RetireLeavesEntry(g) == /\ open' = open \ {g}
                        /\ UNCHANGED chs

\* delete(g.AckChs.Chs, key); close(ackCh), in one critical section.  The
\* entry may be another goroutine's by now.
Retire(g) == /\ chs' = [chs EXCEPT ![MyKey(g)] = Nobody]
             /\ open' = open \ {g}

\* FlipCoinMonger: stop, or monger to a peer other than this one.
FlipCoinMonger(g) ==
  LET m == monger[g].message IN
  \E to \in {Idle} \cup {Started([m EXCEPT ![1] = p]) : p \in Peer \ {m[1]}} :
    monger' = [monger EXCEPT ![g] = to]

Expire(g) ==
  /\ ~crashed
  /\ monger[g].pc = "expire"
  /\ chsMux = Nobody
  /\ Retire(g)
  /\ FlipCoinMonger(g)
  /\ UNCHANGED <<next, acker, recorded, muxVars, crashed>>

\* An answer carries the NextID that it was looked up by (Ack).  That is the
\* ID of the message, or a number that ends in its digits or they in it: never
\* ID - 1, so that the first branch is not taken.  What the second does not
\* take either selects again, on a channel that is now closed, and the
\* goroutine panics, on the nil that it receives or on closing it again.
Answered(g) ==
  /\ ~crashed
  /\ monger[g].pc = "answered"
  /\ chsMux = Nobody
  /\ Retire(g)
  /\ IF ~monger[g].isSync /\ monger[g].nextID >= monger[g].message[3]
     THEN /\ monger' = [monger EXCEPT ![g] = Idle]
          /\ UNCHANGED crashed
     ELSE /\ crashed' = TRUE
          /\ UNCHANGED monger
  /\ UNCHANGED <<next, acker, recorded, muxVars>>
-----------------------------------------------------------------------------
(* HandleStatus *)

Ahead(want)  == {o \in Origin : next[o] > want[o]}
Behind(want) == {o \in Origin : next[o] < want[o]}

\* MoreUpdated compares; Ack gets a goroutine, and ProvideMongering follows.
\* A peer may have heard any messages by now, or not yet when it sent this.
HandleStatus(k) == \E p \in Peer : \E want \in Want :
  /\ ~crashed
  /\ acker[k] = Idle
  /\ \A o \in Origin : want[o] <= Count[o] + 1
  /\ acker' = [acker EXCEPT ![k] =
       [pc |-> "start", peer |-> p, want |-> want, provides |-> Ahead(want) # {},
        isSync |-> Ahead(want) = {} /\ Behind(want) = {},
        todo |-> {o \in Origin : want[o] # 1}, at |-> Nobody, sends |-> 0]]
  /\ UNCHANGED <<next, mongerVars, recorded, muxVars, crashed>>

\* Runs beside Ack; next may have grown since MoreUpdated.
ProvideMongering(k) ==
  /\ ~crashed
  /\ acker[k] # Idle
  /\ acker[k].provides
  /\ \E o \in Ahead(acker[k].want) : MongerRumor(<<acker[k].peer, o, acker[k].want[o]>>)
  /\ acker' = [acker EXCEPT ![k].provides = FALSE]
  /\ UNCHANGED <<next, chs, open, recorded, muxVars, crashed>>

At(k, pc) == acker[k] # Idle /\ acker[k].pc = pc
To(k, pc) == acker' = [acker EXCEPT ![k].pc = pc]

AckLocks(k) ==
  /\ ~crashed
  /\ UNCHANGED <<next, mongerVars, recorded, crashed>>
  /\ \/ /\ At(k, "start")
        /\ statusesMux = Nobody
        /\ statusesMux' = k
        /\ To(k, "second")
        /\ UNCHANGED chsMux
     \/ /\ At(k, "second")
        /\ chsMux = Nobody
        /\ chsMux' = k
        /\ To(k, "origin")
        /\ UNCHANGED statusesMux

\* What Ack looks up for each id of its loop is NextID, not id: the message that
\* the peer still lacks.
Wanted(k, o) == <<acker[k].peer, o, acker[k].want[o]>>
Registered(k, o) == chs[KeyOf[Wanted(k, o)]]

\* One answer for every id from the recorded one to NextID.
Answers(k, o) ==
  IF Registered(k, o) = Nobody THEN 0
  ELSE Cardinality(recorded[acker[k].peer][o]..acker[k].want[o])

AckOrigin(k) ==
  /\ ~crashed
  /\ At(k, "origin")
  /\ \E o \in acker[k].todo :
       acker' = [acker EXCEPT ![k].pc = "send", ![k].at = o, ![k].sends = Answers(k, o)]
  /\ UNCHANGED <<next, mongerVars, recorded, muxVars, crashed>>

\* ack_ch <- ... waits for its receiver, with both mutexes held.
AckSend(k) ==
  /\ ~crashed
  /\ At(k, "send")
  /\ acker[k].sends > 0
  /\ LET g == Registered(k, acker[k].at) IN
       /\ monger[g].pc = "wait"
       /\ monger' = [monger EXCEPT ![g] =
            [pc |-> "answered", message |-> monger[g].message, isSync |-> acker[k].isSync,
             nextID |-> acker[k].want[acker[k].at]]]
  /\ acker' = [acker EXCEPT ![k].sends = @ - 1]
  /\ UNCHANGED <<next, chs, open, recorded, muxVars, crashed>>

AckRecord(k) ==
  /\ ~crashed
  /\ At(k, "send")
  /\ acker[k].sends = 0
  /\ LET o == acker[k].at IN
       /\ recorded' = [recorded EXCEPT ![acker[k].peer][o] = acker[k].want[o]]
       /\ acker' = [acker EXCEPT ![k].pc = "origin", ![k].todo = @ \ {o}]
  /\ UNCHANGED <<next, mongerVars, muxVars, crashed>>

AckUnlock(k) ==
  /\ ~crashed
  /\ At(k, "origin")
  /\ acker[k].todo = {}
  /\ statusesMux' = Nobody /\ chsMux' = Nobody
  /\ To(k, "end")
  /\ UNCHANGED <<next, mongerVars, recorded, crashed>>

\* Both goroutines of the status packet have returned.
Served(k) ==
  /\ ~crashed
  /\ At(k, "end")
  /\ ~acker[k].provides
  /\ acker' = [acker EXCEPT ![k] = Idle]
  /\ UNCHANGED <<next, mongerVars, recorded, muxVars, crashed>>
-----------------------------------------------------------------------------
MongerStep(g) == Register(g) \/ Timeout(g) \/ Expire(g) \/ Answered(g)

AckStep(k) == \/ ProvideMongering(k) \/ AckLocks(k) \/ AckOrigin(k) \/ AckSend(k)
              \/ AckRecord(k) \/ AckUnlock(k) \/ Served(k)

MongeringNext ==
  \/ Learn
  \/ \E g \in Monger : MongerStep(g)
  \/ \E k \in Acker : HandleStatus(k) \/ AckStep(k)

\* Goroutines run, timers fire, mutexes are granted in turn.  Packets need
\* not arrive.
MongeringSpec ==
  /\ MongeringInit /\ [][MongeringNext]_allVars
  /\ \A g \in Monger : SF_allVars(MongerStep(g))
  /\ \A k \in Acker : SF_allVars(AckStep(k))
-----------------------------------------------------------------------------
(* Properties *)

\* Ack never sends on a closed channel, which would panic, although goroutines
\* overwrite and delete each other's entries of AckChs and time out while Ack
\* looks them up (mongerHandler.go:47-49, 63-66, 78-81, statusHandler.go:73).
\* Whoever it answers waits about a message whose key reads as the one looked
\* up.  That is the message itself, the next one that the peer needs, or one
\* of another origin or to another peer whose key reads the same.
SendsFindTheirChannel ==
  \A k \in Acker : At(k, "send") /\ acker[k].sends > 0 =>
    LET g == Registered(k, acker[k].at)
        answered == monger[g].message
        wanted   == Wanted(k, acker[k].at)
    IN /\ g \in open
       /\ KeyOf[answered] = KeyOf[wanted]
       /\ answered[1] = wanted[1] /\ answered[2] = wanted[2] => answered = wanted

\* An entry of AckChs outlives neither its goroutine nor its channel, so that
\* AckChs holds at most one entry per mongering goroutine under way, also
\* where messages share a key.
EntriesAreLive ==
  \A key \in Key : chs[key] # Nobody =>
    /\ chs[key] \in open
    /\ monger[chs[key]].pc \in {"wait", "expire", "answered"}
    /\ MyKey(chs[key]) = key

\* mongerHandler.go:15 "FlipCoinMonger if rumor is not needed or timeout": a
\* goroutine that has begun to wait for an answer comes to its end.
MongeringEnds ==
  \A g \in Monger : monger[g].pc = "wait" ~> monger[g].pc \in {"idle", "register"}
=============================================================================
