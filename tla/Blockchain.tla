----------------------------- MODULE Blockchain -----------------------------
(***************************************************************************)
(* One election: every gossiper proposes a block per round, gossips it,    *)
(* waits for the proposals of all others and appends the fittest.          *)
(*                                                                         *)
(* Gossip is abstracted to what module Gossip establishes: o's blocks are  *)
(* a log, and what is stored there reaches every other gossiper in that    *)
(* order, at any later time.  A block's hash covers its predecessor's      *)
(* hash and its ballot, so a hash stands for the ballots up to the block.  *)
(* Fitness values are 64-bit random numbers: two proposals of one round    *)
(* never draw the same.                                                    *)
(***************************************************************************)
EXTENDS Integers, Sequences, FiniteSets

CONSTANTS Node,       \* the gossipers
          N,          \* their flag -N, "number of peers in the system"
          Ballot,     \* ballots: a voter with the hash of a vote
          VoterOf,    \* VoterOf[b]: VoterUuid
          Casts,      \* Casts[n]: ballots the clients of n will cast
          Fitness     \* the values of Rand()

ASSUME ConstantsAssumption ==
  /\ N \in Nat
  /\ DOMAIN VoterOf = Ballot
  /\ Casts \in [Node -> SUBSET Ballot]
  /\ Fitness \subseteq Nat

VARIABLES pc,         \* where the HandleRound goroutine of n is
          blocks,     \* Blocks of n, without the genesis block
          nextId,     \* NextId of n
          voters,     \* the map voters of HandleRound: voters in the chain
          buffer,     \* Buffer of n: ballots to propose, oldest first
          voterMap,   \* VoterMap of n: voters of received proposals
          current,    \* currentBlock of HandleRound
          received,   \* receivedMap of HandleRound: origins heard this round
          proposed,   \* the blocks n has created, in order
          taken,      \* how many of them HandleSendingBlocks has taken from SendCh
          stored,     \* how many of them it has put into the log of n
          heard,      \* heard[n][o]: how many of the stored blocks of o n holds
          handlers,   \* HandleReceivingBlock goroutines of n, after Update
          toCast      \* ballots the clients have not sent yet

roundVars == <<pc, blocks, nextId, voters, current, received, proposed, taken>>
gossipVars == <<stored, heard>>
vars == <<roundVars, buffer, voterMap, gossipVars, handlers, toCast>>

NoBlock == [round |-> 0]

Init == /\ pc = [n \in Node |-> "pick"]
        /\ blocks = [n \in Node |-> <<>>]
        /\ nextId = [n \in Node |-> 1]
        /\ voters = [n \in Node |-> {}]
        /\ buffer = [n \in Node |-> <<>>]
        /\ voterMap = [n \in Node |-> {}]
        /\ current = [n \in Node |-> NoBlock]
        /\ received = [n \in Node |-> {}]
        /\ proposed = [n \in Node |-> <<>>]
        /\ taken = [n \in Node |-> 0]
        /\ stored = [n \in Node |-> 0]
        /\ heard = [n \in Node |-> [o \in Node |-> 0]]
        /\ handlers = [n \in Node |-> {}]
        /\ toCast = Casts
-----------------------------------------------------------------------------
(* Votes *)

\* HandleReceivingVote
CastVote(n) ==
  \E b \in toCast[n] :
    /\ toCast' = [toCast EXCEPT ![n] = @ \ {b}]
    /\ buffer' = [buffer EXCEPT ![n] = Append(@, b)]
    /\ UNCHANGED <<roundVars, voterMap, gossipVars, handlers>>
-----------------------------------------------------------------------------
(* HandleRound *)

\* The hash of the last block of n.
LastHash(n) == [i \in 1..Len(blocks[n]) |-> blocks[n][i].ballot]

\* CheckBlockValidty
Valid(n, b) == b.prev = LastHash(n)

\* Rand(): a value no proposal of this round has drawn.
Drawn(r) == {proposed[o][r].fitness : o \in {o \in Node : r <= Len(proposed[o])}}

Proposable(n) == {i \in 1..Len(buffer[n]) : VoterOf[buffer[n][i]] \notin voters[n]}

\* Mutant of NewBlock: the round is the index of the last block, not the next.
NewBlockOfLastRound(n, b, f) ==
  [origin |-> n, round |-> nextId[n] - 1, ballot |-> b, prev |-> LastHash(n), fitness |-> f]

\* The proposal of n for the current round.
NewBlock(n, b, f) ==
  [origin |-> n, round |-> nextId[n], ballot |-> b, prev |-> LastHash(n), fitness |-> f]

\* Mutant of Trimmed: the ballot to propose is dropped too.
TrimmedPast(n, i) == SubSeq(buffer[n], i + 1, Len(buffer[n]))

\* The buffer without the ballots before the one to propose, which stays.
Trimmed(n, i) == SubSeq(buffer[n], i, Len(buffer[n]))

\* With nothing to propose the buffer is emptied and the loop starts over;
\* otherwise the ballots before the first proposable one are dropped.
Pick(n) ==
  /\ pc[n] = "pick"
  /\ buffer[n] # <<>>
  /\ \/ /\ Proposable(n) = {}
        /\ buffer' = [buffer EXCEPT ![n] = <<>>]
        /\ UNCHANGED roundVars
     \/ \E i \in Proposable(n), f \in Fitness \ Drawn(nextId[n]) :
        /\ \A j \in Proposable(n) : i <= j
        /\ buffer' = [buffer EXCEPT ![n] = Trimmed(n, i)]
        /\ LET block == NewBlock(n, buffer[n][i], f) IN
             /\ current' = [current EXCEPT ![n] = block]
             /\ proposed' = [proposed EXCEPT ![n] = Append(@, block)]
        /\ pc' = [pc EXCEPT ![n] = "offer"]
        /\ UNCHANGED <<blocks, nextId, voters, received, taken>>
  /\ UNCHANGED <<voterMap, gossipVars, handlers, toCast>>

\* The rendezvous on the unbuffered SendCh.
Offer(n) ==
  /\ pc[n] = "offer"
  /\ taken[n] = stored[n]
  /\ taken' = [taken EXCEPT ![n] = @ + 1]
  /\ received' = [received EXCEPT ![n] = {}]
  /\ pc' = [pc EXCEPT ![n] = "collect"]
  /\ UNCHANGED <<blocks, nextId, voters, current, proposed, buffer, voterMap,
                 gossipVars, handlers, toCast>>

\* Mutant of Fitter: the latest valid proposal wins.
FitterLatest(n, b) == IF Valid(n, b) THEN b ELSE current[n]

\* The better of the two for HandleRound of n.
Fitter(n, b) ==
  IF Valid(n, b) /\ b.fitness > current[n].fitness THEN b ELSE current[n]

\* Mutant of Commit: the winner's voter is not recorded.
CommitForgetsVoter(n, b) ==
  /\ pc' = [pc EXCEPT ![n] = "pick"]
  /\ current' = [current EXCEPT ![n] = NoBlock]
  /\ blocks' = [blocks EXCEPT ![n] = Append(@, b)]
  /\ nextId' = [nextId EXCEPT ![n] = @ + 1]
  /\ UNCHANGED voters

\* The round is over: append the winner, or start over when its voter is
\* already recorded.
Commit(n, b) ==
  /\ pc' = [pc EXCEPT ![n] = "pick"]
  /\ current' = [current EXCEPT ![n] = NoBlock]
  /\ IF VoterOf[b.ballot] \in voters[n]
     THEN UNCHANGED <<blocks, nextId, voters>>
     ELSE /\ voters' = [voters EXCEPT ![n] = @ \cup {VoterOf[b.ballot]}]
          /\ blocks' = [blocks EXCEPT ![n] = Append(@, b)]
          /\ nextId' = [nextId EXCEPT ![n] = @ + 1]

\* Mutant of AllHeard: the round ends one proposal early.
AllHeardButOne(origins) == 1 + Cardinality(origins) >= N - 1

\* Proposals of all others have been collected.
AllHeard(origins) == 1 + Cardinality(origins) = N

\* The rendezvous on the unbuffered ReceiveCh with a handler that has got
\* there: a second proposal of the same origin is ignored; the round ends when
\* 1 + the number of origins reaches N.
Collect(n) ==
  /\ pc[n] = "collect"
  /\ \E h \in handlers[n] :
       /\ h.step = "hand"
       /\ handlers' = [handlers EXCEPT ![n] = @ \ {h}]
       /\ IF h.block.origin \in received[n]
          THEN UNCHANGED roundVars
          ELSE /\ received' = [received EXCEPT ![n] = @ \cup {h.block.origin}]
               /\ UNCHANGED <<proposed, taken>>
               /\ IF AllHeard(received'[n])
                  THEN Commit(n, Fitter(n, h.block))
                  ELSE /\ current' = [current EXCEPT ![n] = Fitter(n, h.block)]
                       /\ UNCHANGED <<pc, blocks, nextId, voters>>
  /\ UNCHANGED <<buffer, voterMap, gossipVars, toCast>>
-----------------------------------------------------------------------------
(* Between the blockchain and the gossip layer *)

\* HandleSendingBlocks: store the block; from then on gossip delivers it.
SendBlock(n) ==
  /\ stored[n] < taken[n]
  /\ stored' = [stored EXCEPT ![n] = @ + 1]
  /\ UNCHANGED <<roundVars, buffer, voterMap, heard, handlers, toCast>>

\* HandleReceivingBlock up to Update, for the next block of o.  A block of a
\* future round is refused before it is stored, and offered again later.
ReceiveBlock(n, o) ==
  /\ n # o
  /\ heard[n][o] < stored[o]
  /\ LET next == proposed[o][heard[n][o] + 1] IN
       /\ next.round <= nextId[n]
       /\ handlers' = [handlers EXCEPT ![n] = @ \cup {[block |-> next, step |-> "check"]}]
  /\ heard' = [heard EXCEPT ![n][o] = @ + 1]
  /\ UNCHANGED <<roundVars, buffer, voterMap, stored, toCast>>

Advance(n, h, step) ==
  handlers' = [handlers EXCEPT ![n] = (@ \ {h}) \cup {[h EXCEPT !.step = step]}]

\* Mutant of AfterRoundCheck: the ballot is never buffered.
AfterRoundCheckHandsOver(n, voter) == "hand"

\* The first proposal of a voter goes through the buffer.
AfterRoundCheck(n, voter) == IF voter \in voterMap[n] THEN "hand" ELSE "buffer"

\* ... the goroutine ends when the block is not of the current round, else it
\* claims the voter in VoterMap, under VoterMapMux.
CheckRound(n) ==
  \E h \in handlers[n] :
    /\ h.step = "check"
    /\ LET voter == VoterOf[h.block.ballot] IN
         IF h.block.round # nextId[n]
         THEN /\ handlers' = [handlers EXCEPT ![n] = @ \ {h}]
              /\ UNCHANGED voterMap
         ELSE /\ Advance(n, h, AfterRoundCheck(n, voter))
              /\ voterMap' = [voterMap EXCEPT ![n] = @ \cup {voter}]
    /\ UNCHANGED <<roundVars, buffer, gossipVars, toCast>>

\* ... and, when it was the first, buffers the ballot, under BufferMux.
BufferBallot(n) ==
  \E h \in handlers[n] :
    /\ h.step = "buffer"
    /\ buffer' = [buffer EXCEPT ![n] = Append(@, h.block.ballot)]
    /\ Advance(n, h, "hand")
    /\ UNCHANGED <<roundVars, voterMap, gossipVars, toCast>>
-----------------------------------------------------------------------------
HandleRound(n) == Pick(n) \/ Offer(n) \/ Collect(n)

HandleReceivingBlock(n) ==
  (\E o \in Node : ReceiveBlock(n, o)) \/ CheckRound(n) \/ BufferBallot(n)

Next == \E n \in Node : \/ CastVote(n)
                        \/ HandleRound(n)
                        \/ SendBlock(n)
                        \/ HandleReceivingBlock(n)

Spec == Init /\ [][Next]_vars
-----------------------------------------------------------------------------
(* Properties *)

Block == [origin : Node, round : Nat \ {0}, ballot : Ballot, prev : Seq(Ballot),
          fitness : Fitness]

TypeOK ==
  /\ pc \in [Node -> {"pick", "offer", "collect"}]
  /\ blocks \in [Node -> Seq(Block)]
  /\ nextId \in [Node -> Nat \ {0}]
  /\ voters \in [Node -> SUBSET {VoterOf[b] : b \in Ballot}]
  /\ buffer \in [Node -> Seq(Ballot)]
  /\ voterMap \in [Node -> SUBSET {VoterOf[b] : b \in Ballot}]
  /\ current \in [Node -> Block \cup {NoBlock}]
  /\ received \in [Node -> SUBSET Node]
  /\ proposed \in [Node -> Seq(Block)]
  /\ taken \in [Node -> Nat]
  /\ stored \in [Node -> Nat]
  /\ heard \in [Node -> [Node -> Nat]]
  /\ handlers \in [Node -> SUBSET [block : Block, step : {"check", "buffer", "hand"}]]
  /\ toCast \in [Node -> SUBSET Ballot]

\* Two gossipers never append different blocks in the same round, although
\* each compares the proposals in the order they happen to arrive.
Agreement ==
  \A n, m \in Node : \A i \in 1..Len(blocks[n]) :
    i <= Len(blocks[m]) => blocks[n][i] = blocks[m][i]

\* No chain records a voter twice, although voters cast at several gossipers
\* and ballots travel in other gossipers' proposals.
OneBallotPerVoter ==
  \A n \in Node : \A i, j \in 1..Len(blocks[n]) :
    VoterOf[blocks[n][i].ballot] = VoterOf[blocks[n][j].ballot] => i = j

\* HandleReceivingBlock reads NextId before it blocks on ReceiveCh; HandleRound
\* may advance in between, yet never takes a proposal of another round for one
\* of its own, nor one that does not extend its chain.
NoStaleHandoff ==
  \A n \in Node : \A h \in handlers[n] : h.step # "check" =>
    h.block.round = nextId[n] /\ Valid(n, h.block)

\* VoterMap marks a voter before the ballot is buffered, in another critical
\* section.  A marked voter is recorded in the chain, or its ballot is buffered
\* or about to be, so ignoring the later proposals of that voter loses nothing.
MarkedIsKept ==
  \A n \in Node : \A v \in voterMap[n] :
    \/ v \in voters[n]
    \/ \E i \in 1..Len(buffer[n]) : VoterOf[buffer[n][i]] = v
    \/ \E h \in handlers[n] : h.step = "buffer" /\ VoterOf[h.block.ballot] = v

\* Trimming the buffer never drops a ballot of an unrecorded voter.
CastIsKept ==
  \A n \in Node : \A b \in Casts[n] \ toCast[n] :
    \/ VoterOf[b] \in voters[n]
    \/ \E i \in 1..Len(buffer[n]) : VoterOf[buffer[n][i]] = VoterOf[b]

\* The chains implement the ledger; the longest chain is the ledger.
Longest == CHOOSE n \in Node : \A m \in Node : Len(blocks[m]) <= Len(blocks[n])
TheLedger == INSTANCE Ledger WITH
  cast <- UNION {Casts[n] \ toCast[n] : n \in Node},
  ledger <- LastHash(Longest),
  adopted <- [n \in Node |-> Len(blocks[n])]
ImplementsLedger == TheLedger!Spec

\* Every voter whose ballot was cast anywhere is recorded by every gossiper;
\* gossipers without a ballot of their own have joined in with received ones.
CastIsRecorded ==
  \A n \in Node : \A b \in Casts[n] \ toCast[n] : \A m \in Node : VoterOf[b] \in voters[m]

\* Nothing that n does in this election without a new message is enabled: its
\* proposal is not awaited, and neither HandleRound nor a handler can go on.
Halted(n) ==
  /\ pc[n] = "pick" =>
       \/ buffer[n] = <<>>
       \/ Proposable(n) # {} /\ Fitness \subseteq Drawn(nextId[n])
  /\ pc[n] = "offer" => taken[n] # stored[n]
  /\ taken[n] <= stored[n]
  /\ \A h \in handlers[n] : h.step = "hand" /\ pc[n] # "collect"

\* The block of o that n has not heard is stored, and not of a future round.
Welcome(n, o) ==
  /\ heard[n][o] < stored[o]
  /\ proposed[o][heard[n][o] + 1].round <= nextId[n]

\* The deployment the claims above are about: -N counts the gossipers.
Deployed == IsFiniteSet(Node) /\ N = Cardinality(Node) /\ N >= 2

\* Rand() has a value for every gossiper of a round: it draws from 2^64.
EnoughFitness == IsFiniteSet(Fitness) => Cardinality(Fitness) >= N
=============================================================================
