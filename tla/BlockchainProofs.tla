-------------------------- MODULE BlockchainProofs --------------------------
(***************************************************************************)
(* For every set of gossipers that -N counts, every ballot and every client *)
(* behaviour: the chains agree, record a voter once, lose no ballot, and    *)
(* implement the ledger of module Ledger; and the election ends, at rest    *)
(* only when every ballot that was cast is recorded.                        *)
(***************************************************************************)
EXTENDS Blockchain, FiniteSetTheorems, SequenceTheorems, TLAPS

\* A round is one block of the chain and one proposal, offered once.
Counts ==
  \A n \in Node :
    /\ nextId[n] = Len(blocks[n]) + 1
    /\ Len(proposed[n]) = IF pc[n] = "pick" THEN nextId[n] - 1 ELSE nextId[n]
    /\ taken[n] = IF pc[n] = "offer" THEN nextId[n] - 1 ELSE Len(proposed[n])
    /\ stored[n] <= taken[n]

\* Nobody is more than a round behind a gossiper it has heard.
HeardInTime ==
  \A n, o \in Node :
    /\ heard[n][o] <= stored[o]
    /\ heard[n][o] <= nextId[n]
    /\ n # o => nextId[n] - 1 <= heard[n][o]

\* A proposal names its proposer and its round.
ProposalsNamed ==
  \A o \in Node : \A r \in 1..Len(proposed[o]) :
    proposed[o][r].origin = o /\ proposed[o][r].round = r

\* A proposal extends the chain its proposer had, with a voter new to it.
ProposalsExtend ==
  \A o \in Node : \A r \in 1..Len(proposed[o]) :
    /\ proposed[o][r].prev = [i \in 1..(r - 1) |-> blocks[o][i].ballot]
    /\ \A i \in 1..(r - 1) :
         VoterOf[proposed[o][r].ballot] # VoterOf[blocks[o][i].ballot]

\* Two proposals of one round never draw the same fitness.
FitnessDiffers ==
  \A o, p \in Node : \A r \in 1..Len(proposed[o]) :
    r <= Len(proposed[p]) /\ proposed[o][r].fitness = proposed[p][r].fitness => o = p

\* The winner of a round was proposed in it, and beats all its proposals.
ChainIsFittest ==
  \A n \in Node : \A i \in 1..Len(blocks[n]) :
    /\ \E o \in Node : blocks[n][i] = proposed[o][i]
    /\ \A o \in Node : /\ i <= Len(proposed[o])
                       /\ proposed[o][i].fitness <= blocks[n][i].fitness

VotersAreRecorded ==
  \A n \in Node : voters[n] = {VoterOf[blocks[n][i].ballot] : i \in 1..Len(blocks[n])}

\* A handler carries a proposal its gossiper has heard; past the round check,
\* one of the current round.
HandlersCarryProposals ==
  \A n \in Node : \A h \in handlers[n] :
    /\ h.block.origin # n
    /\ h.block.round <= heard[n][h.block.origin]
    /\ h.block = proposed[h.block.origin][h.block.round]
    /\ h.step # "check" => h.block.round = nextId[n]

\* No proposal is handled twice, and none whose origin has been counted.
HandledOnce ==
  \A n \in Node :
    /\ \A g, h \in handlers[n] : g.block = h.block => g = h
    /\ pc[n] = "collect" =>
         \A h \in handlers[n] : h.block.round = nextId[n] => h.block.origin \notin received[n]

\* The candidate of n is a proposal of n or of an origin n has counted, and
\* beats all of those.
Candidate(n) ==
  /\ pc[n] = "offer" => current[n] = proposed[n][nextId[n]]
  /\ pc[n] = "collect" =>
       /\ n \notin received[n]
       /\ \A o \in received[n] : heard[n][o] = nextId[n]
       /\ \E o \in received[n] \cup {n} : current[n] = proposed[o][nextId[n]]
       /\ \A o \in received[n] \cup {n} :
            proposed[o][nextId[n]].fitness <= current[n].fitness

CurrentIsFittest == \A n \in Node : Candidate(n)

RoundInv == /\ Counts /\ HeardInTime /\ ProposalsNamed /\ ProposalsExtend
            /\ FitnessDiffers /\ ChainIsFittest /\ VotersAreRecorded
            /\ HandlersCarryProposals /\ HandledOnce /\ CurrentIsFittest

IInv == TypeOK /\ RoundInv

\* What has been cast at any gossiper.
CastBallots == UNION {Casts[n] \ toCast[n] : n \in Node}

\* A buffered or proposed ballot was cast by a client.
BallotsAreCast ==
  \A n \in Node :
    /\ \A i \in 1..Len(buffer[n]) : buffer[n][i] \in CastBallots
    /\ \A r \in 1..Len(proposed[n]) : proposed[n][r].ballot \in CastBallots
    /\ toCast[n] \subseteq Casts[n]
-----------------------------------------------------------------------------
(* What the types say of single gossipers, blocks and handlers. *)

Handler == [block : Block, step : {"check", "buffer", "hand"}]

\* What a block is made of.
LEMMA BlockFields ==
  ASSUME NEW b \in Block
  PROVE  /\ b.origin \in Node
         /\ b.round \in Nat \ {0}
         /\ b.ballot \in Ballot
         /\ b.prev \in Seq(Ballot)
         /\ b.fitness \in Nat
BY ConstantsAssumption DEF Block

\* A handler holds a block, and is at one of its steps.
LEMMA HandlerFields ==
  ASSUME NEW h \in Handler
  PROVE  h.block \in Block /\ h.step \in {"check", "buffer", "hand"}
BY DEF Handler

\* What TypeOK says of one gossiper.
LEMMA Types ==
  ASSUME TypeOK, NEW n \in Node
  PROVE  /\ pc[n] \in {"pick", "offer", "collect"}
         /\ blocks[n] \in Seq(Block) /\ Len(blocks[n]) \in Nat
         /\ nextId[n] \in Nat \ {0}
         /\ buffer[n] \in Seq(Ballot) /\ Len(buffer[n]) \in Nat
         /\ received[n] \subseteq Node
         /\ proposed[n] \in Seq(Block) /\ Len(proposed[n]) \in Nat
         /\ taken[n] \in Nat
         /\ stored[n] \in Nat
         /\ \A o \in Node : heard[n][o] \in Nat
         /\ handlers[n] \subseteq Handler
         /\ \A i \in 1..Len(blocks[n]) : blocks[n][i] \in Block
         /\ \A i \in 1..Len(proposed[n]) : proposed[n][i] \in Block
<1>1. /\ blocks[n] \in Seq(Block) /\ buffer[n] \in Seq(Ballot) /\ proposed[n] \in Seq(Block)
  BY DEF TypeOK
<1>2. /\ Len(blocks[n]) \in Nat /\ Len(buffer[n]) \in Nat /\ Len(proposed[n]) \in Nat
      /\ \A i \in 1..Len(blocks[n]) : blocks[n][i] \in Block
      /\ \A i \in 1..Len(proposed[n]) : proposed[n][i] \in Block
  BY <1>1
<1>3. handlers \in [Node -> SUBSET Handler]
  BY DEF TypeOK, Handler
<1> QED BY <1>1, <1>2, <1>3 DEF TypeOK

\* Handlers are added, removed and advanced one by one.
LEMMA HandlersType ==
  ASSUME TypeOK, NEW n \in Node, NEW S, S \subseteq handlers[n], NEW h \in Handler,
         \/ handlers' = [handlers EXCEPT ![n] = S \cup {h}]
         \/ handlers' = [handlers EXCEPT ![n] = S]
  PROVE  /\ handlers' \in [Node -> SUBSET [block : Block, step : {"check", "buffer", "hand"}]]
         /\ handlers'[n] \subseteq handlers[n] \cup {h}
         /\ \A m \in Node : m # n => handlers'[m] = handlers[m]
<1>1. handlers \in [Node -> SUBSET Handler]
  BY DEF TypeOK, Handler
<1>2. handlers' \in [Node -> SUBSET Handler]
  BY <1>1
<1> QED BY <1>1, <1>2 DEF Handler
-----------------------------------------------------------------------------
(* The inductive invariant holds initially, and every step preserves it. *)

\* Nothing has been proposed, heard or adopted at the start.
LEMMA InitInv ==
  ASSUME Init PROVE IInv
<1>0. /\ Len(<<>>) = 0
      /\ 1..0 = {}
  OBVIOUS
<1>1. TypeOK
  BY ConstantsAssumption DEF Init, TypeOK
<1>2. Counts /\ HeardInTime /\ ProposalsNamed /\ ProposalsExtend /\ FitnessDiffers
      /\ ChainIsFittest
  BY <1>0 DEF Init, Counts, HeardInTime, ProposalsNamed, ProposalsExtend, FitnessDiffers, ChainIsFittest
<1>3. VotersAreRecorded
  BY <1>0 DEF Init, VotersAreRecorded
<1>4. HandlersCarryProposals /\ HandledOnce /\ CurrentIsFittest
  BY DEF Init, HandlersCarryProposals, HandledOnce, CurrentIsFittest, Candidate
<1> QED BY <1>1, <1>2, <1>3, <1>4 DEF IInv, RoundInv

\* RoundInv does not depend on the buffers, the marked voters or the clients.
LEMMA RoundFrame ==
  ASSUME RoundInv, UNCHANGED <<roundVars, gossipVars, handlers>>
  PROVE  RoundInv'
<1>0. /\ UNCHANGED <<pc, blocks, nextId, voters, current, received, proposed, taken>>
      /\ UNCHANGED <<stored, heard, handlers>>
  BY DEF roundVars, gossipVars
<1>1. /\ Counts' /\ HeardInTime' /\ ProposalsNamed' /\ ProposalsExtend'
      /\ FitnessDiffers'      /\ ChainIsFittest' /\ VotersAreRecorded'
  BY <1>0 DEF RoundInv, Counts, HeardInTime, ProposalsNamed, ProposalsExtend, FitnessDiffers,
              ChainIsFittest, VotersAreRecorded
<1>2. HandlersCarryProposals' /\ HandledOnce' /\ CurrentIsFittest'
  BY <1>0 DEF RoundInv, HandlersCarryProposals, HandledOnce, CurrentIsFittest, Candidate
<1> QED BY <1>1, <1>2 DEF RoundInv

\* A ballot of a client touches the buffer only.
LEMMA CastVoteInv ==
  ASSUME IInv, NEW n \in Node, CastVote(n)
  PROVE  IInv'
<1>1. TypeOK'
  <2> PICK b \in toCast[n] : buffer' = [buffer EXCEPT ![n] = Append(@, b)]
    BY DEF CastVote
  <2>1. b \in Ballot
    BY DEF IInv, TypeOK
  <2>2. Append(buffer[n], b) \in Seq(Ballot)
    BY <2>1 DEF IInv, TypeOK
  <2>3. buffer' \in [Node -> Seq(Ballot)]
    BY <2>2 DEF IInv, TypeOK
  <2>4. toCast' \in [Node -> SUBSET Ballot]
    BY SMTT(30) DEF IInv, TypeOK, CastVote
  <2> QED BY <2>3, <2>4 DEF IInv, TypeOK, CastVote, roundVars, gossipVars
<1>2. RoundInv'
  BY RoundFrame DEF IInv, CastVote
<1> QED BY <1>1, <1>2 DEF IInv

\* A proposal that was taken is stored.
LEMMA SendBlockInv ==
  ASSUME IInv, NEW n \in Node, SendBlock(n)
  PROVE  IInv'
<1> USE DEF IInv, RoundInv
<1>0. /\ stored' = [stored EXCEPT ![n] = stored[n] + 1]
      /\ stored[n] < taken[n]
      /\ UNCHANGED <<pc, blocks, nextId, voters, current, received, proposed, taken>>
      /\ UNCHANGED <<buffer, voterMap, heard, handlers, toCast>>
  BY DEF SendBlock, roundVars
<1>1. TypeOK'
  BY <1>0 DEF TypeOK
<1>2. Counts'
  BY <1>0 DEF Counts, TypeOK
<1>3. HeardInTime'
  <2>1. \A o \in Node : stored[o] \in Nat /\ stored'[o] \in Nat /\ stored[o] <= stored'[o]
    BY <1>0, SMTT(30) DEF TypeOK
  <2>2. \A p, o \in Node : heard[p][o] \in Nat
    BY DEF TypeOK
  <2> QED BY <2>1, <2>2, <1>0 DEF HeardInTime
<1>4. ProposalsNamed' /\ ProposalsExtend' /\ FitnessDiffers' /\ ChainIsFittest' /\ VotersAreRecorded'
  BY <1>0 DEF ProposalsNamed, ProposalsExtend, FitnessDiffers, ChainIsFittest, VotersAreRecorded
<1>5. HandlersCarryProposals' /\ HandledOnce' /\ CurrentIsFittest'
  BY <1>0 DEF HandlersCarryProposals, HandledOnce, CurrentIsFittest, Candidate
<1> QED BY <1>1, <1>2, <1>3, <1>4, <1>5

\* The next message of a gossiper is its proposal of that round.
LEMMA NextProposal ==
  ASSUME IInv, NEW n \in Node, NEW o \in Node, heard[n][o] < stored[o]
  PROVE  /\ heard[n][o] + 1 \in 1..Len(proposed[o])
         /\ proposed[o][heard[n][o] + 1] \in Block
         /\ proposed[o][heard[n][o] + 1].origin = o
         /\ proposed[o][heard[n][o] + 1].round = heard[n][o] + 1
<1>1. stored[o] <= taken[o] /\ taken[o] <= Len(proposed[o])
  BY Types, SMTT(30) DEF IInv, RoundInv, Counts
<1>2. heard[n][o] + 1 \in 1..Len(proposed[o])
  BY <1>1, Types DEF IInv
<1>3. ProposalsNamed /\ TypeOK
  BY DEF IInv, RoundInv
<1> QED BY <1>2, <1>3, Types DEF ProposalsNamed

\* What is received is a proposal that its origin has made.
LEMMA ReceiveBlockInv ==
  ASSUME IInv, NEW n \in Node, NEW o \in Node, ReceiveBlock(n, o)
  PROVE  IInv'
<1> USE DEF IInv, RoundInv
<1> DEFINE r == heard[n][o] + 1
           next == proposed[o][r]
           new == [block |-> next, step |-> "check"]
<1>0. /\ n # o
      /\ heard[n][o] < stored[o]
      /\ next.round <= nextId[n]
      /\ handlers' = [handlers EXCEPT ![n] = handlers[n] \cup {new}]
      /\ heard' = [heard EXCEPT ![n] = [heard[n] EXCEPT ![o] = r]]
      /\ UNCHANGED <<pc, blocks, nextId, voters, current, received, proposed, taken>>
      /\ UNCHANGED <<buffer, voterMap, stored, toCast>>
  BY DEF ReceiveBlock, roundVars, TypeOK
<1>a. r = heard[n][o] + 1 /\ heard[n][o] \in Nat /\ r \in Nat
  BY SMTT(30) DEF TypeOK
<1>b. next = proposed[o][r] /\ new.block = next /\ new.step = "check"
  OBVIOUS
<1>1. r \in 1..Len(proposed[o]) /\ next \in Block /\ next.origin = o /\ next.round = r
  BY <1>0, NextProposal
<1>c. new \in Handler
  BY <1>1 DEF Handler
<1> HIDE DEF new, next, r
<1>3. /\ heard'[n][o] = r
      /\ \A p, q \in Node : p # n \/ q # o => heard'[p][q] = heard[p][q]
      /\ heard' \in [Node -> [Node -> Nat]]
  BY <1>0, <1>a DEF TypeOK
<1>4. TypeOK'
  <2>1. handlers' \in [Node -> SUBSET [block : Block, step : {"check", "buffer", "hand"}]]
    BY <1>0, <1>c, HandlersType
  <2> QED BY <2>1, <1>0, <1>3 DEF TypeOK
<1>5. Counts' /\ ProposalsNamed' /\ ProposalsExtend' /\ FitnessDiffers' /\ ChainIsFittest' /\ VotersAreRecorded'
  <2>0. /\ UNCHANGED <<pc, blocks, nextId, voters, proposed, taken, stored>>
    BY <1>0
  <2>1. Counts' /\ VotersAreRecorded'
    BY <2>0 DEF Counts, VotersAreRecorded
  <2>2. ProposalsNamed' /\ ProposalsExtend' /\ FitnessDiffers' /\ ChainIsFittest'
    BY <2>0 DEF ProposalsNamed, ProposalsExtend, FitnessDiffers, ChainIsFittest
  <2> QED BY <2>1, <2>2
<1>6. HeardInTime'
  <2>0. stored[o] \in Nat /\ nextId[n] \in Nat
    BY Types
  <2>1. r <= stored[o] /\ r <= nextId[n] /\ nextId[n] - 1 <= r
    BY <2>0, <1>0, <1>a, <1>1 DEF HeardInTime
  <2> QED BY <2>1, <1>0, <1>3 DEF HeardInTime
<1>7. ASSUME NEW h \in handlers[n]
      PROVE  h.block # next
  <2>1. h.block.round <= heard[n][h.block.origin]
    BY DEF HandlersCarryProposals
  <2> QED BY <2>1, <1>1, <1>a
<1>8. HandlersCarryProposals'
  <2> SUFFICES ASSUME NEW p \in Node, NEW h \in handlers'[p]
               PROVE  /\ h.block.origin # p
                      /\ h.block.round <= heard'[p][h.block.origin]
                      /\ h.block = proposed[h.block.origin][h.block.round]
                      /\ h.step # "check" => h.block.round = nextId[p]
    BY <1>0 DEF HandlersCarryProposals
  <2>1. CASE p = n /\ h = new
    <3>1. h.block = next /\ h.step = "check"
      BY <2>1, <1>b
    <3> QED BY <3>1, <2>1, <1>0, <1>1, <1>3, <1>a, <1>b
  <2>2. CASE h \in handlers[p]
    <3>1. h.block.origin \in Node /\ h.block.round \in Nat
      BY <2>2, Types, HandlerFields, BlockFields
    <3>2. \A q \in Node : heard[p][q] \in Nat /\ heard'[p][q] \in Nat
      BY <1>3, Types
    <3>3. \A q \in Node : heard[p][q] <= heard'[p][q]
      BY <3>2, <1>3, <1>a
    <3> QED BY <3>1, <3>2, <3>3, <2>2 DEF HandlersCarryProposals
  <2> QED BY <2>1, <2>2, <1>0 DEF TypeOK
<1>9. HandledOnce'
  <2>1. ASSUME NEW p \in Node, NEW g \in handlers'[p], NEW h \in handlers'[p], g.block = h.block
        PROVE  g = h
    <3>1. CASE p = n
      <4>1. g \in handlers[n] \cup {new} /\ h \in handlers[n] \cup {new}
        BY <3>1, <1>0, <1>c, HandlersType
      <4> QED BY <4>1, <3>1, <2>1, <1>7, <1>b DEF HandledOnce
    <3>2. CASE p # n
      <4>1. g \in handlers[p] /\ h \in handlers[p]
        BY <3>2, <1>0, <1>c, HandlersType
      <4> QED BY <4>1, <2>1 DEF HandledOnce
    <3> QED BY <3>1, <3>2
  <2>2. ASSUME NEW p \in Node, pc[p] = "collect", NEW h \in handlers'[p],
               h.block.round = nextId[p]
        PROVE  h.block.origin \notin received[p]
    <3>1. CASE p = n /\ h = new
      <4>1. h.block = next
        BY <3>1, <1>b
      <4>2. r = nextId[n]
        BY <4>1, <2>2, <3>1, <1>1
      <4>3. heard[n][o] # nextId[n]
        BY <4>2, <1>a
      <4> QED BY <4>1, <4>3, <3>1, <2>2, <1>1 DEF CurrentIsFittest, Candidate
    <3>2. CASE h \in handlers[p]
      BY <3>2, <2>2 DEF HandledOnce
    <3> QED BY <3>1, <3>2, <1>0 DEF TypeOK
  <2> QED BY <2>1, <2>2, <1>0 DEF HandledOnce
<1>10. CurrentIsFittest'
  <2> SUFFICES ASSUME NEW p \in Node, pc[p] = "collect", NEW q \in received[p]
               PROVE  heard'[p][q] = nextId[p]
    BY <1>0 DEF CurrentIsFittest, Candidate
  <2>1. q \in Node /\ heard[p][q] = nextId[p]
    BY DEF CurrentIsFittest, Candidate, TypeOK
  <2>2. CASE p = n /\ q = o
    <3>1. nextId[n] \in Nat
      BY Types
    <3> QED BY <2>1, <2>2, <3>1, <1>0, <1>1, <1>a
  <2>3. CASE p # n \/ q # o
    BY <2>1, <2>3, <1>3
  <2> QED BY <2>2, <2>3
<1> QED BY <1>4, <1>5, <1>6, <1>8, <1>9, <1>10

\* A goroutine that ends, or passes the round check with its block.
LEMMA HandlerMoves ==
  ASSUME IInv, NEW n \in Node, NEW h \in handlers[n], NEW g \in Handler,
         UNCHANGED <<roundVars, gossipVars>>,
         \/ handlers' = [handlers EXCEPT ![n] = handlers[n] \ {h}]
         \/ /\ handlers' = [handlers EXCEPT ![n] = (handlers[n] \ {h}) \cup {g}]
            /\ g.block = h.block
            /\ h.block.round = nextId[n]
  PROVE  /\ RoundInv'
         /\ handlers' \in [Node -> SUBSET [block : Block, step : {"check", "buffer", "hand"}]]
<1> USE DEF IInv, RoundInv
<1>0. /\ UNCHANGED <<pc, blocks, nextId, voters, current, received, proposed, taken>>
      /\ UNCHANGED <<stored, heard>>
  BY DEF roundVars, gossipVars
<1>1. handlers[n] \ {h} \subseteq handlers[n]
  OBVIOUS
<1>2. /\ handlers' \in [Node -> SUBSET [block : Block, step : {"check", "buffer", "hand"}]]
      /\ \A m \in Node : m # n => handlers'[m] = handlers[m]
  BY <1>1, HandlersType, ZenonT(40)
<1>3. \/ handlers'[n] = handlers[n] \ {h}
      \/ /\ handlers'[n] = (handlers[n] \ {h}) \cup {g}
         /\ g.block = h.block
         /\ h.block.round = nextId[n]
  BY DEF TypeOK
<1>4. Counts' /\ HeardInTime' /\ VotersAreRecorded'
  BY <1>0 DEF Counts, HeardInTime, VotersAreRecorded
<1>5. ProposalsNamed' /\ ProposalsExtend' /\ FitnessDiffers' /\ ChainIsFittest'
  BY <1>0 DEF ProposalsNamed, ProposalsExtend, FitnessDiffers, ChainIsFittest
<1>6. CurrentIsFittest'
  BY <1>0 DEF CurrentIsFittest, Candidate
<1>7. ASSUME NEW p \in Node, NEW x \in handlers'[p]
      PROVE  \/ x \in handlers[p]
             \/ /\ p = n
                /\ x.block = h.block
                /\ h.block.round = nextId[n]
  <2>1. CASE p = n
    BY <2>1, <1>3
  <2>2. CASE p # n
    BY <2>2, <1>2
  <2> QED BY <2>1, <2>2
<1>8. HandlersCarryProposals'
  <2> SUFFICES ASSUME NEW p \in Node, NEW x \in handlers'[p]
               PROVE  /\ x.block.origin # p
                      /\ x.block.round <= heard[p][x.block.origin]
                      /\ x.block = proposed[x.block.origin][x.block.round]
                      /\ x.step # "check" => x.block.round = nextId[p]
    BY <1>0 DEF HandlersCarryProposals
  <2> QED BY <1>7 DEF HandlersCarryProposals
<1>9. HandledOnce'
  <2>1. ASSUME NEW p \in Node, NEW x \in handlers'[p], NEW y \in handlers'[p],
               x.block = y.block
        PROVE  x = y
    <3>1. CASE p = n
      BY <3>1, <2>1, <1>3 DEF HandledOnce
    <3>2. CASE p # n
      BY <3>2, <2>1, <1>2 DEF HandledOnce
    <3> QED BY <3>1, <3>2
  <2>2. ASSUME NEW p \in Node, pc[p] = "collect", NEW x \in handlers'[p],
               x.block.round = nextId[p]
        PROVE  x.block.origin \notin received[p]
    BY <2>2, <1>7 DEF HandledOnce
  <2> QED BY <2>1, <2>2, <1>0 DEF HandledOnce
<1> QED BY <1>2, <1>4, <1>5, <1>6, <1>8, <1>9

\* A block of another round is dropped.
LEMMA CheckRoundInv ==
  ASSUME IInv, NEW n \in Node, CheckRound(n)
  PROVE  IInv'
<1>1. PICK h \in handlers[n] :
        LET voter == VoterOf[h.block.ballot] IN
        /\ IF h.block.round # nextId[n]
           THEN /\ handlers' = [handlers EXCEPT ![n] = @ \ {h}]
                /\ UNCHANGED voterMap
           ELSE /\ Advance(n, h, AfterRoundCheck(n, voter))
                /\ voterMap' = [voterMap EXCEPT ![n] = @ \cup {voter}]
        /\ UNCHANGED <<roundVars, buffer, gossipVars, toCast>>
  BY DEF CheckRound
<1> DEFINE voter == VoterOf[h.block.ballot]
           g == [h EXCEPT !.step = AfterRoundCheck(n, voter)]
<1>2. h \in Handler /\ h.block.ballot \in Ballot /\ TypeOK
  BY Types, HandlerFields, BlockFields DEF IInv
<1>3. g \in Handler /\ g.block = h.block
  BY <1>2 DEF Handler, AfterRoundCheck
<1>4. \/ handlers' = [handlers EXCEPT ![n] = handlers[n] \ {h}]
      \/ /\ handlers' = [handlers EXCEPT ![n] = (handlers[n] \ {h}) \cup {g}]
         /\ h.block.round = nextId[n]
  BY <1>1 DEF Advance
<1> HIDE DEF g
<1>5. /\ RoundInv'
      /\ handlers' \in [Node -> SUBSET [block : Block, step : {"check", "buffer", "hand"}]]
  BY <1>1, <1>3, <1>4, HandlerMoves
<1>6. voterMap' \in [Node -> SUBSET {VoterOf[b] : b \in Ballot}]
  <2> DEFINE Voters == {VoterOf[b] : b \in Ballot}
  <2>1. voter \in Voters
    BY <1>2
  <2>2. voterMap \in [Node -> SUBSET Voters]
    BY <1>2 DEF TypeOK
  <2>3. voterMap' = voterMap \/ voterMap' = [voterMap EXCEPT ![n] = @ \cup {voter}]
    BY <1>1
  <2> HIDE DEF voter, Voters
  <2>4. voterMap' \in [Node -> SUBSET Voters]
    BY <2>1, <2>2, <2>3
  <2> QED BY <2>4 DEF Voters
<1>7. TypeOK'
  BY <1>1, <1>2, <1>5, <1>6 DEF TypeOK, roundVars, gossipVars
<1> QED BY <1>5, <1>7 DEF IInv

\* A valid block leaves its ballot in the buffer.
LEMMA BufferBallotInv ==
  ASSUME IInv, NEW n \in Node, BufferBallot(n)
  PROVE  IInv'
<1>1. PICK h \in handlers[n] :
        /\ h.step = "buffer"
        /\ buffer' = [buffer EXCEPT ![n] = Append(@, h.block.ballot)]
        /\ Advance(n, h, "hand")
        /\ UNCHANGED <<roundVars, voterMap, gossipVars, toCast>>
  BY DEF BufferBallot
<1> DEFINE g == [h EXCEPT !.step = "hand"]
<1>2. h \in Handler /\ h.block.ballot \in Ballot /\ TypeOK
  BY Types, HandlerFields, BlockFields DEF IInv
<1>3. g \in Handler /\ g.block = h.block
  BY <1>2 DEF Handler
<1>4. /\ handlers' = [handlers EXCEPT ![n] = (handlers[n] \ {h}) \cup {g}]
      /\ h.block.round = nextId[n]
  BY <1>1 DEF Advance, IInv, RoundInv, HandlersCarryProposals
<1> HIDE DEF g
<1>5. /\ RoundInv'
      /\ handlers' \in [Node -> SUBSET [block : Block, step : {"check", "buffer", "hand"}]]
  BY <1>1, <1>3, <1>4, HandlerMoves
<1>6. buffer' \in [Node -> Seq(Ballot)]
  <2>1. Append(buffer[n], h.block.ballot) \in Seq(Ballot)
    BY <1>2, Types
  <2> QED BY <2>1, <1>1, <1>2 DEF TypeOK
<1>7. TypeOK'
  BY <1>1, <1>2, <1>5, <1>6 DEF TypeOK, roundVars, gossipVars
<1> QED BY <1>5, <1>7 DEF IInv

\* HandleRound takes its own proposal into the round.
LEMMA OfferInv ==
  ASSUME IInv, NEW n \in Node, Offer(n)
  PROVE  IInv'
<1> USE DEF IInv, RoundInv
<1>0. /\ pc[n] = "offer"
      /\ taken[n] = stored[n]
      /\ taken' = [taken EXCEPT ![n] = taken[n] + 1]
      /\ received' = [received EXCEPT ![n] = {}]
      /\ pc' = [pc EXCEPT ![n] = "collect"]
      /\ UNCHANGED <<blocks, nextId, voters, current, proposed, buffer, voterMap>>
      /\ UNCHANGED <<stored, heard, handlers, toCast>>
  BY DEF Offer, gossipVars
<1>1. TypeOK'
  BY <1>0 DEF TypeOK
<1>2. /\ pc'[n] = "collect" /\ received'[n] = {} /\ taken'[n] = taken[n] + 1
      /\ \A m \in Node : m # n => /\ pc'[m] = pc[m]
                                  /\ received'[m] = received[m]
                                  /\ taken'[m] = taken[m]
  BY <1>0 DEF TypeOK
<1>3. Counts'
  BY <1>0, <1>2, Types DEF Counts
<1>4. HeardInTime' /\ VotersAreRecorded'
  BY <1>0 DEF HeardInTime, VotersAreRecorded
<1>5. ProposalsNamed' /\ ProposalsExtend' /\ FitnessDiffers' /\ ChainIsFittest'
  BY <1>0, SMTT(30) DEF ProposalsNamed, ProposalsExtend, FitnessDiffers, ChainIsFittest
<1>6. HandlersCarryProposals' /\ HandledOnce'
  BY <1>0, <1>2 DEF HandlersCarryProposals, HandledOnce
<1>7. CurrentIsFittest'
  <2> SUFFICES ASSUME NEW p \in Node
               PROVE  Candidate(p)'
    BY DEF CurrentIsFittest
  <2>1. CASE p = n
    <3>1. current[n] = proposed[n][nextId[n]]
      BY <1>0 DEF CurrentIsFittest, Candidate
    <3>2. nextId[n] \in 1..Len(proposed[n])
      BY <1>0, Types DEF Counts
    <3>3. proposed[n][nextId[n]].fitness \in Nat
      BY <3>2, Types, BlockFields
    <3> QED BY <2>1, <3>1, <3>3, <1>0, <1>2 DEF Candidate
  <2>2. CASE p # n
    BY <2>2, <1>0, <1>2 DEF CurrentIsFittest, Candidate
  <2> QED BY <2>1, <2>2
<1> QED BY <1>1, <1>3, <1>4, <1>5, <1>6, <1>7

\* What has been heard, handled or collected has been proposed.
LEMMA HeardIsProposed ==
  ASSUME IInv, NEW n \in Node
  PROVE  /\ \A o \in Node : heard[n][o] <= Len(proposed[o])
         /\ \A h \in handlers[n] : /\ h.block.origin \in Node
                                  /\ h.block.round \in 1..Len(proposed[h.block.origin])
         /\ pc[n] # "pick" => nextId[n] \in 1..Len(proposed[n])
         /\ pc[n] = "collect" =>
              \A o \in received[n] \cup {n} : o \in Node /\ nextId[n] \in 1..Len(proposed[o])
<1> USE DEF IInv, RoundInv
<1>1. \A o \in Node : heard[n][o] <= Len(proposed[o]) /\ heard[n][o] \in Nat /\ Len(proposed[o]) \in Nat
  BY Types DEF Counts, HeardInTime
<1>2. ASSUME NEW h \in handlers[n]
      PROVE  h.block.origin \in Node /\ h.block.round \in 1..Len(proposed[h.block.origin])
  <2>1. h.block.origin \in Node /\ h.block.round \in Nat \ {0}
    BY Types, HandlerFields, BlockFields
  <2>2. h.block.round <= heard[n][h.block.origin]
    BY DEF HandlersCarryProposals
  <2> QED BY <2>1, <2>2, <1>1
<1>3. pc[n] # "pick" => nextId[n] \in 1..Len(proposed[n])
  BY Types DEF Counts
<1>4. ASSUME pc[n] = "collect", NEW o \in received[n] \cup {n}
      PROVE  o \in Node /\ nextId[n] \in 1..Len(proposed[o])
  <2>1. CASE o = n
    BY <2>1, <1>3, <1>4
  <2>2. CASE o \in received[n]
    <3>1. o \in Node /\ heard[n][o] = nextId[n]
      BY <2>2, <1>4, Types DEF CurrentIsFittest, Candidate
    <3> QED BY <3>1, <1>1, Types
  <2> QED BY <2>1, <2>2
<1> QED BY <1>1, <1>2, <1>3, <1>4

\* A proposal extends its gossiper's chain.
LEMMA PickInv ==
  ASSUME IInv, NEW n \in Node, Pick(n)
  PROVE  IInv'
<1> USE DEF IInv, RoundInv
<1>1. CASE buffer' = [buffer EXCEPT ![n] = <<>>] /\ UNCHANGED roundVars
  <2>1. UNCHANGED <<voterMap, gossipVars, handlers, toCast>>
    BY DEF Pick
  <2>2. RoundInv'
    BY <1>1, <2>1, RoundFrame
  <2>3. <<>> \in Seq(Ballot)
    OBVIOUS
  <2>4. TypeOK'
    BY <1>1, <2>1, <2>3 DEF TypeOK, roundVars, gossipVars
  <2> QED BY <2>2, <2>4
<1>2. ASSUME NEW i \in Proposable(n), NEW f \in Fitness \ Drawn(nextId[n]),
             pc[n] = "pick",
             buffer' = [buffer EXCEPT ![n] = Trimmed(n, i)],
             current' = [current EXCEPT ![n] = NewBlock(n, buffer[n][i], f)],
             proposed' = [proposed EXCEPT ![n] = Append(@, NewBlock(n, buffer[n][i], f))],
             pc' = [pc EXCEPT ![n] = "offer"],
             UNCHANGED <<blocks, nextId, voters, received, taken>>,
             UNCHANGED <<voterMap, stored, heard, handlers, toCast>>
      PROVE  IInv'
  <2> DEFINE b == NewBlock(n, buffer[n][i], f)
             r == nextId[n]
  <2>1. /\ i \in 1..Len(buffer[n]) /\ buffer[n][i] \in Ballot
        /\ VoterOf[buffer[n][i]] \notin voters[n]
    BY Types DEF Proposable
  <2>2. LastHash(n) \in Seq(Ballot)
    BY Types, BlockFields DEF LastHash
  <2>3. /\ b \in Block
        /\ b.origin = n /\ b.round = r /\ b.prev = LastHash(n) /\ b.fitness = f
        /\ b.ballot = buffer[n][i]
    BY <2>1, <2>2, Types DEF NewBlock, Block
  <2>4. /\ r \in Nat \ {0} /\ Len(blocks[n]) = r - 1 /\ Len(proposed[n]) = r - 1
        /\ proposed[n] \in Seq(Block)
    BY <1>2, Types DEF Counts
  <2>5. /\ current' = [current EXCEPT ![n] = b]
        /\ proposed' = [proposed EXCEPT ![n] = Append(proposed[n], b)]
    BY <1>2
  <2> HIDE DEF b, r
  <2>6. Append(proposed[n], b) \in Seq(Block)
    BY <2>3, <2>4
  <2>7. /\ proposed' \in [Node -> Seq(Block)]
        /\ proposed'[n] = Append(proposed[n], b)
        /\ \A o \in Node : o # n => proposed'[o] = proposed[o]
    BY <2>5, <2>6 DEF TypeOK
  <2>8. /\ Len(proposed'[n]) = r
        /\ proposed'[n][r] = b
        /\ \A k \in 1..(r - 1) : proposed'[n][k] = proposed[n][k]
    BY <2>3, <2>4, <2>7
  <2>9. \A o \in Node : \A k \in 1..Len(proposed[o]) :
           k \in 1..Len(proposed'[o]) /\ proposed'[o][k] = proposed[o][k]
    BY <2>4, <2>7, <2>8, SMTT(30)
  <2>10. \A o \in Node : \A k \in 1..Len(proposed'[o]) :
           k \in 1..Len(proposed[o]) \/ (o = n /\ k = r)
    <3> SUFFICES ASSUME NEW o \in Node, NEW k \in 1..Len(proposed'[o])
                 PROVE  k \in 1..Len(proposed[o]) \/ (o = n /\ k = r)
      OBVIOUS
    <3>1. CASE o = n
      BY <3>1, <2>4, <2>8
    <3>2. CASE o # n
      BY <3>2, <2>7
    <3> QED BY <3>1, <3>2
  <2>11. TypeOK'
    <3>1. Trimmed(n, i) \in Seq(Ballot)
      BY <2>1, Types DEF Trimmed
    <3>2. buffer' \in [Node -> Seq(Ballot)]
      BY <3>1, <1>2 DEF TypeOK
    <3>3. current' \in [Node -> Block \cup {NoBlock}]
      BY <2>3, <2>5 DEF TypeOK
    <3> QED BY <3>2, <3>3, <2>7, <1>2 DEF TypeOK
  <2>12. Counts' /\ HeardInTime' /\ VotersAreRecorded'
    <3>1. Counts'
      <4> SUFFICES ASSUME NEW m \in Node
                   PROVE  /\ nextId[m] = Len(blocks[m]) + 1
                          /\ Len(proposed'[m]) = IF pc'[m] = "pick" THEN nextId[m] - 1 ELSE nextId[m]
                          /\ taken[m] = IF pc'[m] = "offer" THEN nextId[m] - 1 ELSE Len(proposed'[m])
                          /\ stored[m] <= taken[m]
        BY <1>2 DEF Counts
      <4>1. CASE m = n
        <5>1. pc'[n] = "offer"
          BY <1>2 DEF TypeOK
        <5> QED BY <4>1, <5>1, <1>2, <2>8, <2>4 DEF Counts, r
      <4>2. CASE m # n
        <5>1. pc'[m] = pc[m]
          BY <4>2, <1>2 DEF TypeOK
        <5> QED BY <4>2, <5>1, <2>7 DEF Counts
      <4> QED BY <4>1, <4>2
    <3> QED BY <3>1, <1>2 DEF HeardInTime, VotersAreRecorded
  <2>13. ProposalsNamed'
    BY <2>3, <2>8, <2>9, <2>10 DEF ProposalsNamed
  <2>14. ProposalsExtend'
    <3>1. b.prev = [k \in 1..(r - 1) |-> blocks[n][k].ballot]
      BY <2>3, <2>4 DEF LastHash
    <3>2. \A k \in 1..(r - 1) : VoterOf[b.ballot] # VoterOf[blocks[n][k].ballot]
      BY <2>1, <2>3, <2>4 DEF VotersAreRecorded
    <3> SUFFICES ASSUME NEW o \in Node, NEW k \in 1..Len(proposed'[o])
                 PROVE  /\ proposed'[o][k].prev = [j \in 1..(k - 1) |-> blocks[o][j].ballot]
                        /\ \A j \in 1..(k - 1) :
                             VoterOf[proposed'[o][k].ballot] # VoterOf[blocks[o][j].ballot]
      BY <1>2 DEF ProposalsExtend
    <3>3. CASE o = n /\ k = r
      BY <3>1, <3>2, <3>3, <2>8
    <3>4. CASE k \in 1..Len(proposed[o])
      BY <3>4, <2>9 DEF ProposalsExtend
    <3> QED BY <3>3, <3>4, <2>10
  <2>15. FitnessDiffers'
    <3>1. \A o \in Node : r \in 1..Len(proposed[o]) => proposed[o][r].fitness # f
      BY <1>2, Types DEF Drawn, r
    <3> SUFFICES ASSUME NEW o \in Node, NEW p \in Node, NEW k \in 1..Len(proposed'[o]),
                        k <= Len(proposed'[p]), o # p,
                        proposed'[o][k].fitness = proposed'[p][k].fitness
                 PROVE  FALSE
      BY DEF FitnessDiffers
    <3>2. k \in 1..Len(proposed'[p])
      OBVIOUS
    <3>3. CASE k \in 1..Len(proposed[o]) /\ k \in 1..Len(proposed[p])
      BY <3>3, <2>9, SMTT(30) DEF FitnessDiffers
    <3>4. CASE o = n /\ k = r /\ k \in 1..Len(proposed[p])
      BY <3>4, <3>1, <2>3, <2>8, <2>9
    <3>5. CASE p = n /\ k = r /\ k \in 1..Len(proposed[o])
      BY <3>5, <3>1, <2>3, <2>8, <2>9
    <3> QED BY <3>2, <3>3, <3>4, <3>5, <2>10
  <2>16. ChainIsFittest'
    <3> SUFFICES ASSUME NEW m \in Node, NEW k \in 1..Len(blocks[m])
                 PROVE  /\ \E o \in Node : blocks[m][k] = proposed'[o][k]
                        /\ \A o \in Node : /\ k <= Len(proposed'[o])
                                           /\ proposed'[o][k].fitness <= blocks[m][k].fitness
      BY <1>2 DEF ChainIsFittest
    <3>1. \A o \in Node : k \in 1..Len(proposed[o])
      BY Types DEF ChainIsFittest
    <3>2. \A o \in Node : k \in 1..Len(proposed'[o]) /\ proposed'[o][k] = proposed[o][k]
      BY <3>1, <2>9
    <3>3. PICK o \in Node : blocks[m][k] = proposed[o][k]
      BY DEF ChainIsFittest
    <3>4. blocks[m][k] = proposed'[o][k]
      BY <3>2, <3>3
    <3>5. ASSUME NEW q \in Node
          PROVE  k <= Len(proposed'[q]) /\ proposed'[q][k].fitness <= blocks[m][k].fitness
      BY <3>2, SMTT(30) DEF ChainIsFittest
    <3> QED BY <3>4, <3>5
  <2>17. HandlersCarryProposals' /\ HandledOnce'
    <3>1. \A m \in Node : pc'[m] = "collect" => pc[m] = "collect"
      BY <1>2 DEF TypeOK
    <3>2. HandledOnce'
      BY <3>1, <1>2 DEF HandledOnce
    <3>3. \A m \in Node : \A h \in handlers[m] :
            proposed'[h.block.origin][h.block.round] = proposed[h.block.origin][h.block.round]
      BY <2>9, HeardIsProposed
    <3> QED BY <3>2, <3>3, <1>2 DEF HandlersCarryProposals
  <2>18. CurrentIsFittest'
    <3> SUFFICES ASSUME NEW p \in Node
                 PROVE  Candidate(p)'
      BY DEF CurrentIsFittest
    <3>1. CASE p = n
      <4>1. pc'[n] = "offer" /\ current'[n] = b
        BY <1>2, <2>5 DEF TypeOK
      <4> QED BY <3>1, <4>1, <2>8, <1>2 DEF r, Candidate
    <3>2. CASE p # n
      <4>1. pc'[p] = pc[p] /\ current'[p] = current[p] /\ proposed'[p] = proposed[p]
        BY <3>2, <1>2, <2>7 DEF TypeOK
      <4>2. pc[p] = "collect" => \A o \in received[p] \cup {p} :
              proposed'[o][nextId[p]] = proposed[o][nextId[p]]
        BY <2>9, HeardIsProposed
      <4>3. CASE pc[p] = "collect"
        <5>0. Candidate(p)
          BY DEF CurrentIsFittest
        <5>1. PICK o \in received[p] \cup {p} : current[p] = proposed[o][nextId[p]]
          BY <4>3, <5>0 DEF Candidate
        <5>2. current'[p] = proposed'[o][nextId[p]]
          BY <4>1, <4>2, <4>3, <5>1
        <5>3. \A q \in received[p] \cup {p} :
                proposed'[q][nextId[p]].fitness <= current'[p].fitness
          BY <4>1, <4>2, <4>3, <5>0 DEF Candidate
        <5>4. p \notin received[p] /\ \A q \in received[p] : heard[p][q] = nextId[p]
          BY <4>3, <5>0 DEF Candidate
        <5>5. pc'[p] # "offer"
          BY <4>1, <4>3
        <5> QED BY <5>2, <5>3, <5>4, <5>5, <1>2 DEF Candidate
      <4>4. CASE pc[p] # "collect"
        BY <4>1, <4>4, <1>2 DEF CurrentIsFittest, Candidate
      <4> QED BY <4>3, <4>4
    <3> QED BY <3>1, <3>2
  <2> QED BY <2>11, <2>12, <2>13, <2>14, <2>15, <2>16, <2>17, <2>18
<1> QED BY <1>1, <1>2 DEF Pick, gossipVars
-----------------------------------------------------------------------------
(* What the inductive invariant says of the chains. *)

\* The winner of a round is unique, so equal rounds hold equal blocks.
LEMMA ChainsAgree ==
  ASSUME IInv PROVE Agreement
<1> USE DEF IInv, RoundInv
<1> SUFFICES ASSUME NEW n \in Node, NEW m \in Node, NEW i \in 1..Len(blocks[n]),
                    i <= Len(blocks[m])
             PROVE  blocks[n][i] = blocks[m][i]
  BY DEF Agreement
<1>1. i \in 1..Len(blocks[m])
  OBVIOUS
<1>2. PICK o \in Node : blocks[n][i] = proposed[o][i]
  BY DEF ChainIsFittest
<1>3. PICK p \in Node : blocks[m][i] = proposed[p][i]
  BY <1>1 DEF ChainIsFittest
<1>4. i \in 1..Len(proposed[o]) /\ i <= Len(proposed[p])
  BY Types DEF ChainIsFittest
<1>5. /\ proposed[p][i].fitness <= proposed[o][i].fitness
      /\ proposed[o][i].fitness <= proposed[p][i].fitness
  BY <1>1, <1>2, <1>3 DEF ChainIsFittest
<1>6. proposed[o][i].fitness \in Nat /\ proposed[p][i].fitness \in Nat
  BY <1>1, <1>2, <1>3, Types, BlockFields
<1>7. o = p
  BY <1>4, <1>5, <1>6 DEF FitnessDiffers
<1> QED BY <1>2, <1>3, <1>7

\* What a proposal has before it is what n has there, whoever made it.
LEMMA ProposerAgrees ==
  ASSUME IInv, NEW n \in Node, NEW o \in Node, NEW r \in 1..Len(proposed[o]),
         r - 1 <= Len(blocks[n])
  PROVE  \A i \in 1..(r - 1) : blocks[o][i] = blocks[n][i]
<1>1. TypeOK /\ Agreement
  BY ChainsAgree DEF IInv
<1>2. Len(proposed[o]) <= Len(blocks[o]) + 1
  <2>1. /\ nextId[o] = Len(blocks[o]) + 1
        /\ Len(proposed[o]) = IF pc[o] = "pick" THEN nextId[o] - 1 ELSE nextId[o]
    BY DEF IInv, RoundInv, Counts
  <2> QED BY <1>1, <2>1, Types
<1>3. r \in Nat /\ r - 1 <= Len(blocks[o]) /\ Len(blocks[o]) \in Nat /\ Len(blocks[n]) \in Nat
  BY <1>1, <1>2, Types
<1> QED BY <1>1, <1>3 DEF Agreement

\* So it extends the chain of n ...
LEMMA ProposalFits ==
  ASSUME IInv, NEW n \in Node, NEW o \in Node, NEW r \in 1..Len(proposed[o]),
         r - 1 <= Len(blocks[n])
  PROVE  proposed[o][r].prev = [i \in 1..(r - 1) |-> blocks[n][i].ballot]
<1>1. \A i \in 1..(r - 1) : blocks[o][i] = blocks[n][i]
  BY ProposerAgrees
<1>2. [i \in 1..(r - 1) |-> blocks[o][i].ballot] = [i \in 1..(r - 1) |-> blocks[n][i].ballot]
  BY <1>1
<1>3. proposed[o][r].prev = [i \in 1..(r - 1) |-> blocks[o][i].ballot]
  BY DEF IInv, RoundInv, ProposalsExtend
<1> QED BY <1>2, <1>3

\* ... and its voter is new there.
LEMMA ProposalIsNew ==
  ASSUME IInv, NEW n \in Node, NEW o \in Node, NEW r \in 1..Len(proposed[o]),
         r - 1 <= Len(blocks[n])
  PROVE  \A i \in 1..(r - 1) :
           VoterOf[proposed[o][r].ballot] # VoterOf[blocks[n][i].ballot]
<1>1. \A i \in 1..(r - 1) : blocks[o][i] = blocks[n][i]
  BY ProposerAgrees
<1>2. \A i \in 1..(r - 1) :
        VoterOf[proposed[o][r].ballot] # VoterOf[blocks[o][i].ballot]
  BY DEF IInv, RoundInv, ProposalsExtend
<1> QED BY <1>1, <1>2

\* A block on its way to HandleRound is of the round that it collects.
LEMMA HandoffIsFresh ==
  ASSUME IInv PROVE NoStaleHandoff
<1> SUFFICES ASSUME NEW n \in Node, NEW h \in handlers[n], h.step # "check"
             PROVE  h.block.round = nextId[n] /\ Valid(n, h.block)
  BY DEF NoStaleHandoff
<1> DEFINE o == h.block.origin
           r == nextId[n]
<1>1. o \in Node /\ h.block.round \in 1..Len(proposed[o])
  BY HeardIsProposed
<1>2. h.block = proposed[o][h.block.round] /\ h.block.round = r
  BY DEF IInv, RoundInv, HandlersCarryProposals
<1>3. r - 1 = Len(blocks[n]) /\ r \in Nat
  BY Types DEF IInv, RoundInv, Counts
<1> HIDE DEF o, r
<1>4. h.block.prev = [i \in 1..(r - 1) |-> blocks[n][i].ballot]
  BY <1>1, <1>2, <1>3, ProposalFits, SMTT(30)
<1>5. h.block.prev = LastHash(n)
  BY <1>3, <1>4 DEF LastHash
<1> QED BY <1>2, <1>5 DEF Valid, r

\* The ballots of a chain are of different voters.
LEMMA VotersDiffer ==
  ASSUME IInv PROVE OneBallotPerVoter
<1>1. ASSUME NEW n \in Node, NEW i \in 1..Len(blocks[n]), NEW j \in 1..Len(blocks[n]), i < j
      PROVE  VoterOf[blocks[n][i].ballot] # VoterOf[blocks[n][j].ballot]
  <2>1. PICK o \in Node : blocks[n][j] = proposed[o][j]
    BY DEF IInv, RoundInv, ChainIsFittest
  <2>2. j \in 1..Len(proposed[o])
    BY Types DEF IInv, RoundInv, ChainIsFittest
  <2>3. i \in 1..(j - 1) /\ j - 1 <= Len(blocks[n])
    BY <1>1, Types DEF IInv
  <2>4. \A k \in 1..(j - 1) : VoterOf[proposed[o][j].ballot] # VoterOf[blocks[n][k].ballot]
    BY <2>2, <2>3, ProposalIsNew
  <2> QED BY <2>1, <2>3, <2>4
<1> SUFFICES ASSUME NEW n \in Node, NEW i \in 1..Len(blocks[n]), NEW j \in 1..Len(blocks[n]),
                    VoterOf[blocks[n][i].ballot] = VoterOf[blocks[n][j].ballot]
             PROVE  i = j
  BY DEF OneBallotPerVoter
<1>2. ~(i < j) /\ ~(j < i)
  BY <1>1
<1> QED BY <1>2
-----------------------------------------------------------------------------
(* The end of a round. *)

\* 1 + Cardinality(origins) = N counts every other gossiper.
LEMMA AllHeardMeansAll ==
  ASSUME Deployed, NEW n \in Node, NEW origins \in SUBSET (Node \ {n}), AllHeard(origins)
  PROVE  origins = Node \ {n}
<1>1. /\ IsFiniteSet(Node \ {n})
      /\ Cardinality(Node \ {n}) = Cardinality(Node) - 1
  BY FS_RemoveElement DEF Deployed
<1>2. Cardinality(Node) \in Nat /\ IsFiniteSet(origins)
  BY <1>1, FS_CardinalityType, FS_Subset DEF Deployed
<1>3. Cardinality(origins) \in Nat
  BY <1>2, FS_CardinalityType
<1>4. Cardinality(origins) = Cardinality(Node \ {n})
  BY <1>1, <1>2, <1>3 DEF AllHeard, Deployed
<1> QED BY <1>1, <1>4, FS_Subset

\* A handler that meets HandleRound hands over a new proposal of this round,
\* and the better of it and the candidate is the new candidate.
LEMMA HandedOver ==
  ASSUME IInv, NEW n \in Node, pc[n] = "collect", NEW h \in handlers[n], h.step = "hand"
  PROVE  LET o == h.block.origin
             origins == received[n] \cup {o}
             r == nextId[n]
             w == Fitter(n, h.block)
         IN  /\ o \notin received[n]
             /\ origins \in SUBSET (Node \ {n})
             /\ \A q \in origins : heard[n][q] = r
             /\ \E q \in origins \cup {n} : w = proposed[q][r]
             /\ \A q \in origins \cup {n} : proposed[q][r].fitness <= w.fitness
             /\ \A g \in handlers[n] \ {h} : g.block.round = r => g.block.origin \notin origins
<1> USE DEF IInv, RoundInv
<1> DEFINE o == h.block.origin
           origins == received[n] \cup {o}
           r == nextId[n]
           w == Fitter(n, h.block)
<1>1. o \in Node /\ o # n
  BY HeardIsProposed DEF HandlersCarryProposals
<1>2. h.block.round = r /\ h.block = proposed[o][r] /\ r <= heard[n][o]
  BY DEF HandlersCarryProposals
<1>3. o \notin received[n]
  BY <1>2 DEF HandledOnce
<1>4. Candidate(n)
  BY DEF CurrentIsFittest
<1>5. origins \in SUBSET (Node \ {n})
  BY <1>1, <1>4, Types DEF Candidate
<1>6. \A q \in origins : heard[n][q] = r
  BY <1>1, <1>2, <1>4, Types DEF Candidate, HeardInTime
<1>7. Valid(n, h.block)
  BY HandoffIsFresh DEF NoStaleHandoff
<1>8. w = IF h.block.fitness > current[n].fitness THEN h.block ELSE current[n]
  BY <1>7 DEF Fitter
<1>9. \E q \in origins \cup {n} : w = proposed[q][r]
  BY <1>2, <1>4, <1>8 DEF Candidate
<1>10. \A q \in origins \cup {n} : proposed[q][r].fitness <= w.fitness
  <2>1. \A q \in received[n] \cup {n} : proposed[q][r].fitness <= current[n].fitness
    BY <1>4 DEF Candidate
  <2>2. \A q \in received[n] \cup {n} : q \in Node /\ r \in 1..Len(proposed[q])
    BY HeardIsProposed
  <2>3. r \in 1..Len(proposed[o])
    BY <1>2, HeardIsProposed
  <2>4. \A q \in origins \cup {n} : proposed[q][r].fitness \in Nat
    BY <1>1, <2>2, <2>3, Types, BlockFields
  <2>5. current[n].fitness \in Nat
    BY <1>4, <2>4 DEF Candidate
  <2> QED BY <1>2, <1>8, <2>1, <2>4, <2>5
<1>11. ASSUME NEW g \in handlers[n] \ {h}, g.block.round = r
       PROVE  g.block.origin \notin origins
  <2>1. g.block.origin \notin received[n]
    BY <1>11 DEF HandledOnce
  <2>2. CASE g.block.origin = o
    <3>1. g.block = proposed[o][r]
      BY <1>11, <2>2 DEF HandlersCarryProposals
    <3> QED BY <3>1, <1>2 DEF HandledOnce
  <2> QED BY <2>1, <2>2
<1> QED BY <1>3, <1>5, <1>6, <1>9, <1>10, <1>11

\* The round goes on: the candidate may change, and one more origin is counted.
LEMMA CollectGoesOn ==
  ASSUME IInv, NEW n \in Node, pc[n] = "collect", NEW h \in handlers[n], h.step = "hand",
         handlers' = [handlers EXCEPT ![n] = handlers[n] \ {h}],
         received' = [received EXCEPT ![n] = received[n] \cup {h.block.origin}],
         current' = [current EXCEPT ![n] = Fitter(n, h.block)],
         UNCHANGED <<pc, blocks, nextId, voters, proposed, taken>>,
         UNCHANGED <<buffer, voterMap, stored, heard, toCast>>
  PROVE  IInv'
<1> USE DEF IInv, RoundInv
<1> DEFINE o == h.block.origin
           origins == received[n] \cup {o}
           r == nextId[n]
           w == Fitter(n, h.block)
<1>1. /\ origins \in SUBSET (Node \ {n})
      /\ \A q \in origins : heard[n][q] = r
      /\ \E q \in origins \cup {n} : w = proposed[q][r]
      /\ \A q \in origins \cup {n} : proposed[q][r].fitness <= w.fitness
      /\ \A g \in handlers[n] \ {h} : g.block.round = r => g.block.origin \notin origins
  BY HandedOver
<1>2. h \in Handler /\ handlers[n] \ {h} \subseteq handlers[n]
  BY Types
<1>3. /\ handlers' \in [Node -> SUBSET [block : Block, step : {"check", "buffer", "hand"}]]
      /\ \A m \in Node : m # n => handlers'[m] = handlers[m]
  BY <1>2, HandlersType
<1>4. handlers'[n] = handlers[n] \ {h}
  BY DEF TypeOK
<1>5. w \in Block
  <2>1. current[n] \in Block
    <3>1. Candidate(n)
      BY DEF CurrentIsFittest
    <3> QED BY <3>1, HeardIsProposed, Types DEF Candidate
  <2> QED BY <2>1, <1>2, HandlerFields DEF Fitter
<1> HIDE DEF w, o
<1>6. current' = [current EXCEPT ![n] = w] /\ received' = [received EXCEPT ![n] = origins]
  BY DEF w, o
<1> HIDE DEF origins
<1>7. TypeOK'
  <2>1. current' \in [Node -> Block \cup {NoBlock}]
    BY <1>5, <1>6 DEF TypeOK
  <2>2. origins \in SUBSET Node
    BY <1>1
  <2>3. received' \in [Node -> SUBSET Node]
    BY <2>2, <1>6 DEF TypeOK
  <2> QED BY <2>1, <2>3, <1>3 DEF TypeOK
<1>8. /\ current'[n] = w /\ received'[n] = origins
      /\ \A m \in Node : m # n => current'[m] = current[m] /\ received'[m] = received[m]
  BY <1>6 DEF TypeOK
<1>9. Counts' /\ HeardInTime' /\ VotersAreRecorded'
  BY DEF Counts, HeardInTime, VotersAreRecorded
<1>10. ProposalsNamed' /\ ProposalsExtend' /\ FitnessDiffers' /\ ChainIsFittest'
  BY DEF ProposalsNamed, ProposalsExtend, FitnessDiffers, ChainIsFittest
<1>11. \A m \in Node : handlers'[m] \subseteq handlers[m]
  BY <1>3, <1>4
<1>12. HandlersCarryProposals'
  BY <1>11 DEF HandlersCarryProposals
<1>13. HandledOnce'
  <2>1. ASSUME NEW m \in Node, pc[m] = "collect", NEW g \in handlers'[m],
               g.block.round = nextId[m]
        PROVE  g.block.origin \notin received'[m]
    <3>1. CASE m = n
      BY <2>1, <3>1, <1>1, <1>4, <1>8
    <3>2. CASE m # n
      BY <2>1, <3>2, <1>3, <1>8 DEF HandledOnce
    <3> QED BY <3>1, <3>2
  <2> QED BY <2>1, <1>11 DEF HandledOnce
<1>14. CurrentIsFittest'
  <2> SUFFICES ASSUME NEW m \in Node
               PROVE  Candidate(m)'
    BY DEF CurrentIsFittest
  <2>1. CASE m = n
    BY <2>1, <1>1, <1>8 DEF Candidate
  <2>2. CASE m # n
    BY <2>2, <1>8 DEF CurrentIsFittest, Candidate
  <2> QED BY <2>1, <2>2
<1> QED BY <1>7, <1>9, <1>10, <1>12, <1>13, <1>14

\* A proposal that beats all others of the round, and whose voter is new.
Wins(n, w) ==
  /\ w \in Block
  /\ VoterOf[w.ballot] \notin voters[n]
  /\ \E q \in Node : w = proposed[q][nextId[n]]
  /\ \A q \in Node : nextId[n] <= Len(proposed[q])
  /\ \A q \in Node : proposed[q][nextId[n]].fitness <= w.fitness

\* All others have been heard, and no handler of this round is left but h.
Complete(n, h) ==
  /\ \A q \in Node \ {n} : heard[n][q] = nextId[n]
  /\ \A g \in handlers[n] \ {h} : g.block.round # nextId[n]

\* The last proposal of a round leaves the winner as the candidate.
LEMMA RoundEnds ==
  ASSUME Deployed, IInv, NEW n \in Node, pc[n] = "collect",
         NEW h \in handlers[n], h.step = "hand",
         AllHeard(received[n] \cup {h.block.origin}),
         NEW w, w = Fitter(n, h.block)
  PROVE  Wins(n, w) /\ Complete(n, h)
<1> USE DEF IInv, RoundInv
<1> DEFINE o == h.block.origin
           origins == received[n] \cup {o}
           r == nextId[n]
<1>1. /\ origins \in SUBSET (Node \ {n})
      /\ \A q \in origins : heard[n][q] = r
      /\ \E q \in origins \cup {n} : w = proposed[q][r]
      /\ \A q \in origins \cup {n} : proposed[q][r].fitness <= w.fitness
      /\ \A g \in handlers[n] \ {h} : g.block.round = r => g.block.origin \notin origins
  BY HandedOver
<1>2. origins = Node \ {n}
  BY <1>1, AllHeardMeansAll
<1> HIDE DEF origins
<1>3. PICK q \in Node : w = proposed[q][r]
  BY <1>1, <1>2
<1>4. \A p \in Node : r \in 1..Len(proposed[p])
  <2>1. r \in 1..Len(proposed[n])
    BY HeardIsProposed
  <2>2. \A p \in Node \ {n} : r <= Len(proposed[p])
    BY <1>1, <1>2, HeardIsProposed
  <2> QED BY <2>1, <2>2, Types
<1>5. w \in Block
  BY <1>3, <1>4, Types
<1>6. VoterOf[w.ballot] \notin voters[n]
  <2>1. Len(blocks[n]) = r - 1 /\ r \in Nat /\ r - 1 <= Len(blocks[n])
    BY Types DEF Counts
  <2> HIDE DEF r, IInv
  <2>2. \A i \in 1..(r - 1) : VoterOf[proposed[q][r].ballot] # VoterOf[blocks[n][i].ballot]
    BY <1>4, <2>1, ProposalIsNew
  <2> QED BY <2>1, <2>2, <1>3 DEF IInv, VotersAreRecorded
<1>7. \A g \in handlers[n] \ {h} : g.block.round # r
  <2> SUFFICES ASSUME NEW g \in handlers[n] \ {h}, g.block.round = r
               PROVE  FALSE
    OBVIOUS
  <2>1. g.block.origin \in Node \ {n}
    BY HeardIsProposed DEF HandlersCarryProposals
  <2> QED BY <2>1, <1>1, <1>2
<1>8. \A p \in Node : proposed[p][r].fitness <= w.fitness
  BY <1>1, <1>2
<1>9. \A p \in Node \ {n} : heard[n][p] = r
  BY <1>1, <1>2
<1>10. \A p \in Node : r <= Len(proposed[p])
  BY <1>4
<1> QED BY <1>3, <1>5, <1>6, <1>7, <1>8, <1>9, <1>10 DEF Wins, Complete

\* What the step that ends a round changes.
LEMMA CommitEffect ==
  ASSUME Deployed, IInv, NEW n \in Node, pc[n] = "collect",
         NEW h \in handlers[n], h.step = "hand",
         AllHeard(received[n] \cup {h.block.origin}), Commit(n, Fitter(n, h.block))
  PROVE  /\ pc' = [pc EXCEPT ![n] = "pick"]
         /\ current' = [current EXCEPT ![n] = NoBlock]
         /\ voters' = [voters EXCEPT ![n] = @ \cup {VoterOf[Fitter(n, h.block).ballot]}]
         /\ blocks' = [blocks EXCEPT ![n] = Append(@, Fitter(n, h.block))]
         /\ nextId' = [nextId EXCEPT ![n] = @ + 1]
<1>1. VoterOf[Fitter(n, h.block).ballot] \notin voters[n]
  BY RoundEnds DEF Wins
<1> QED BY <1>1 DEF Commit

\* The last block of a round appends the fittest one to the chain.
LEMMA CollectEnds ==
  ASSUME Deployed, IInv, NEW n \in Node, pc[n] = "collect",
         NEW h \in handlers[n], h.step = "hand",
         AllHeard(received[n] \cup {h.block.origin}), Commit(n, Fitter(n, h.block)),
         NEW w, w = Fitter(n, h.block),
         handlers' = [handlers EXCEPT ![n] = handlers[n] \ {h}],
         received' = [received EXCEPT ![n] = received[n] \cup {h.block.origin}],
         UNCHANGED <<proposed, taken>>,
         UNCHANGED <<buffer, voterMap, stored, heard, toCast>>
  PROVE  IInv'
<1>1. Wins(n, w) /\ Complete(n, h)
  BY RoundEnds
<1> DEFINE r == nextId[n]
<1>2. /\ pc' = [pc EXCEPT ![n] = "pick"]
      /\ current' = [current EXCEPT ![n] = NoBlock]
      /\ voters' = [voters EXCEPT ![n] = voters[n] \cup {VoterOf[w.ballot]}]
      /\ blocks' = [blocks EXCEPT ![n] = Append(blocks[n], w)]
      /\ nextId' = [nextId EXCEPT ![n] = r + 1]
  BY CommitEffect
<1> USE DEF IInv, RoundInv
<1>3. h \in Handler /\ handlers[n] \ {h} \subseteq handlers[n]
  BY Types
<1>4. /\ handlers' \in [Node -> SUBSET [block : Block, step : {"check", "buffer", "hand"}]]
      /\ \A m \in Node : m # n => handlers'[m] = handlers[m]
  BY <1>3, HandlersType
<1>5. handlers'[n] = handlers[n] \ {h}
  BY DEF TypeOK
<1>6. /\ r \in Nat \ {0} /\ nextId[n] = r
      /\ blocks[n] \in Seq(Block) /\ Len(blocks[n]) = r - 1
  BY Types DEF Counts
<1>a. /\ w \in Block
      /\ \E q \in Node : w = proposed[q][r]
      /\ \A q \in Node : r <= Len(proposed[q])
      /\ \A q \in Node : proposed[q][r].fitness <= w.fitness
      /\ \A q \in Node \ {n} : heard[n][q] = r
      /\ \A g \in handlers[n] \ {h} : g.block.round # r
  BY <1>1 DEF Wins, Complete
<1> HIDE DEF r
<1>7. Append(blocks[n], w) \in Seq(Block)
  BY <1>a, <1>6
<1>8. /\ blocks' \in [Node -> Seq(Block)]
      /\ blocks'[n] = Append(blocks[n], w)
      /\ \A m \in Node : m # n => blocks'[m] = blocks[m]
  BY <1>2, <1>7 DEF TypeOK
<1>9. /\ Len(blocks'[n]) = r
      /\ blocks'[n][r] = w
      /\ \A i \in 1..(r - 1) : blocks'[n][i] = blocks[n][i]
  BY <1>a, <1>6, <1>8
<1>10. /\ pc'[n] = "pick" /\ nextId'[n] = r + 1
       /\ voters'[n] = voters[n] \cup {VoterOf[w.ballot]}
       /\ \A m \in Node : m # n => /\ pc'[m] = pc[m]
                                   /\ nextId'[m] = nextId[m]
                                   /\ voters'[m] = voters[m]
                                   /\ current'[m] = current[m]
                                   /\ received'[m] = received[m]
  BY <1>2 DEF TypeOK
<1>11. TypeOK'
  <2> DEFINE Voters == {VoterOf[b] : b \in Ballot}
             origins == received[n] \cup {h.block.origin}
  <2>1. VoterOf[w.ballot] \in Voters
    BY <1>a, BlockFields
  <2>2. origins \in SUBSET Node
    BY HeardIsProposed, Types
  <2>3. voters \in [Node -> SUBSET Voters] /\ received \in [Node -> SUBSET Node]
    BY DEF TypeOK
  <2>4. received' = [received EXCEPT ![n] = origins]
    OBVIOUS
  <2> HIDE DEF Voters, origins
  <2>5. voters' \in [Node -> SUBSET Voters] /\ received' \in [Node -> SUBSET Node]
    BY <1>2, <2>1, <2>2, <2>3, <2>4
  <2>6. nextId' \in [Node -> Nat \ {0}]
    BY <1>2, <1>6 DEF TypeOK
  <2>7. /\ pc' \in [Node -> {"pick", "offer", "collect"}]
        /\ current' \in [Node -> Block \cup {NoBlock}]
    BY <1>2 DEF TypeOK
  <2> QED BY <1>4, <1>8, <2>5, <2>6, <2>7 DEF TypeOK, Voters
<1>12. Counts'
  <2>1. Len(proposed[n]) = r /\ taken[n] = r /\ stored[n] <= taken[n]
    BY <1>6, Types DEF Counts
  <2> SUFFICES ASSUME NEW m \in Node
               PROVE  /\ nextId'[m] = Len(blocks'[m]) + 1
                      /\ Len(proposed[m]) = IF pc'[m] = "pick" THEN nextId'[m] - 1 ELSE nextId'[m]
                      /\ taken[m] = IF pc'[m] = "offer" THEN nextId'[m] - 1 ELSE Len(proposed[m])
                      /\ stored[m] <= taken[m]
    BY DEF Counts
  <2>2. CASE m = n
    BY <2>1, <2>2, <1>6, <1>9, <1>10
  <2>3. CASE m # n
    BY <2>3, <1>8, <1>10, ZenonT(40) DEF Counts
  <2> QED BY <2>2, <2>3
<1>13. HeardInTime'
  <2>1. \A o \in Node : heard[n][o] \in Nat /\ heard[n][o] <= r
    BY <1>6, Types DEF HeardInTime
  <2>2. \A o \in Node : heard[n][o] <= r + 1
    BY <2>1, <1>6
  <2>3. \A o \in Node : n # o => (r + 1) - 1 <= heard[n][o]
    BY <1>a, <1>6
  <2> QED BY <2>2, <2>3, <1>10 DEF HeardInTime
<1>14. ProposalsNamed' /\ FitnessDiffers'
  BY DEF ProposalsNamed, FitnessDiffers
<1>15. ProposalsExtend'
  <2> SUFFICES ASSUME NEW o \in Node, NEW k \in 1..Len(proposed'[o])
               PROVE  /\ proposed'[o][k].prev = [i \in 1..(k - 1) |-> blocks'[o][i].ballot]
                      /\ \A i \in 1..(k - 1) :
                           VoterOf[proposed'[o][k].ballot] # VoterOf[blocks'[o][i].ballot]
    BY DEF ProposalsExtend
  <2>0. proposed' = proposed /\ k \in 1..Len(proposed[o])
    OBVIOUS
  <2>1. \A i \in 1..(k - 1) : blocks'[o][i] = blocks[o][i]
    <3>1. CASE o = n
      <4>1. Len(proposed[n]) = r
        BY <1>6 DEF Counts
      <4> QED BY <3>1, <4>1, <2>0, <1>6, <1>9
    <3>2. CASE o # n
      BY <3>2, <1>8
    <3> QED BY <3>1, <3>2
  <2>2. [i \in 1..(k - 1) |-> blocks'[o][i].ballot] = [i \in 1..(k - 1) |-> blocks[o][i].ballot]
    BY <2>1
  <2>3. /\ proposed[o][k].prev = [i \in 1..(k - 1) |-> blocks[o][i].ballot]
        /\ \A i \in 1..(k - 1) :
             VoterOf[proposed[o][k].ballot] # VoterOf[blocks[o][i].ballot]
    BY <2>0 DEF ProposalsExtend
  <2> QED BY <2>0, <2>1, <2>2, <2>3
<1>16. ChainIsFittest'
  <2> SUFFICES ASSUME NEW m \in Node, NEW i \in 1..Len(blocks'[m])
               PROVE  /\ \E o \in Node : blocks'[m][i] = proposed[o][i]
                      /\ \A o \in Node : /\ i <= Len(proposed[o])
                                         /\ proposed[o][i].fitness <= blocks'[m][i].fitness
    BY DEF ChainIsFittest
  <2>1. CASE m = n /\ i = r
    BY <2>1, <1>a, <1>9
  <2>2. CASE i \in 1..Len(blocks[m]) /\ blocks'[m][i] = blocks[m][i]
    BY <2>2 DEF ChainIsFittest
  <2>3. CASE m # n
    BY <2>2, <2>3, <1>8
  <2>4. CASE m = n /\ i # r
    <3>1. i \in 1..(r - 1)
      BY <2>4, <1>6, <1>9
    <3> QED BY <3>1, <2>2, <2>4, <1>6, <1>9
  <2> QED BY <2>1, <2>3, <2>4
<1>17. VotersAreRecorded'
  <2> SUFFICES ASSUME NEW m \in Node
               PROVE  voters'[m] = {VoterOf[blocks'[m][i].ballot] : i \in 1..Len(blocks'[m])}
    BY DEF VotersAreRecorded
  <2>1. CASE m = n
    <3>1. voters[n] = {VoterOf[blocks[n][i].ballot] : i \in 1..(r - 1)}
      BY <1>6 DEF VotersAreRecorded
    <3>2. voters[n] = {VoterOf[blocks'[n][i].ballot] : i \in 1..(r - 1)}
      BY <3>1, <1>9
    <3>3. 1..r = (1..(r - 1)) \cup {r}
      BY <1>6
    <3> QED BY <2>1, <3>2, <3>3, <1>9, <1>10
  <2>2. CASE m # n
    <3>1. blocks'[m] = blocks[m] /\ voters'[m] = voters[m]
      BY <2>2, <1>8, <1>10
    <3> QED BY <3>1 DEF VotersAreRecorded
  <2> QED BY <2>1, <2>2
<1>18. HandlersCarryProposals'
  <2> SUFFICES ASSUME NEW m \in Node, NEW g \in handlers'[m]
               PROVE  /\ g.block.origin # m
                      /\ g.block.round <= heard[m][g.block.origin]
                      /\ g.block = proposed[g.block.origin][g.block.round]
                      /\ g.step # "check" => g.block.round = nextId'[m]
    BY DEF HandlersCarryProposals
  <2>1. CASE m = n
    <3>1. g \in handlers[n] \ {h} /\ g.block.round # r
      BY <2>1, <1>a, <1>5
    <3>2. g.step = "check"
      BY <3>1, <1>6 DEF HandlersCarryProposals
    <3> QED BY <2>1, <3>1, <3>2 DEF HandlersCarryProposals
  <2>2. CASE m # n
    BY <2>2, <1>4, <1>10 DEF HandlersCarryProposals
  <2> QED BY <2>1, <2>2
<1>19. HandledOnce'
  <2>1. ASSUME NEW m \in Node
        PROVE  \A g, k \in handlers'[m] : g.block = k.block => g = k
    BY <1>4, <1>5 DEF HandledOnce
  <2>2. ASSUME NEW m \in Node, pc'[m] = "collect", NEW g \in handlers'[m],
               g.block.round = nextId'[m]
        PROVE  g.block.origin \notin received'[m]
    BY <2>2, <1>4, <1>10 DEF HandledOnce
  <2> QED BY <2>1, <2>2 DEF HandledOnce
<1>20. CurrentIsFittest'
  <2> SUFFICES ASSUME NEW m \in Node
               PROVE  Candidate(m)'
    BY DEF CurrentIsFittest
  <2>1. CASE m = n
    BY <2>1, <1>10 DEF Candidate
  <2>2. CASE m # n
    BY <2>2, <1>10 DEF CurrentIsFittest, Candidate
  <2> QED BY <2>1, <2>2
<1> QED BY <1>11, <1>12, <1>13, <1>14, <1>15, <1>16, <1>17, <1>18, <1>19, <1>20

\* HandleRound collects a block, or ends its round with it.
LEMMA CollectInv ==
  ASSUME Deployed, IInv, NEW n \in Node, Collect(n)
  PROVE  IInv'
<1>1. PICK h \in handlers[n] :
        /\ h.step = "hand"
        /\ handlers' = [handlers EXCEPT ![n] = @ \ {h}]
        /\ IF h.block.origin \in received[n]
           THEN UNCHANGED roundVars
           ELSE /\ received' = [received EXCEPT ![n] = @ \cup {h.block.origin}]
                /\ UNCHANGED <<proposed, taken>>
                /\ IF AllHeard(received'[n])
                   THEN Commit(n, Fitter(n, h.block))
                   ELSE /\ current' = [current EXCEPT ![n] = Fitter(n, h.block)]
                        /\ UNCHANGED <<pc, blocks, nextId, voters>>
  BY DEF Collect
<1>2. pc[n] = "collect" /\ UNCHANGED <<buffer, voterMap, stored, heard, toCast>>
  BY DEF Collect, gossipVars
<1>3. h.block.origin \notin received[n]
  BY <1>1, <1>2, HandedOver
<1>4. received'[n] = received[n] \cup {h.block.origin}
  BY <1>1, <1>3 DEF IInv, TypeOK
<1>5. CASE AllHeard(received[n] \cup {h.block.origin})
  BY <1>1, <1>2, <1>3, <1>4, <1>5, CollectEnds
<1>6. CASE ~AllHeard(received[n] \cup {h.block.origin})
  BY <1>1, <1>2, <1>3, <1>4, <1>6, CollectGoesOn
<1> QED BY <1>5, <1>6
-----------------------------------------------------------------------------
(* The theorems, for gossipers that -N counts. *)

\* Every step keeps the inductive invariant.
LEMMA StepInv ==
  ASSUME Deployed, IInv, [Next]_vars
  PROVE  IInv'
<1>1. CASE UNCHANGED vars
  <2>1. /\ UNCHANGED <<roundVars, gossipVars, handlers>>
        /\ UNCHANGED <<buffer, voterMap, toCast>>
    BY <1>1 DEF vars
  <2>2. TypeOK'
    BY <2>1 DEF IInv, TypeOK, roundVars, gossipVars
  <2> QED BY <2>1, <2>2, RoundFrame DEF IInv
<1>2. CASE Next
  <2>1. PICK n \in Node : \/ CastVote(n)
                          \/ HandleRound(n)
                          \/ SendBlock(n)
                          \/ HandleReceivingBlock(n)
    BY <1>2 DEF Next
  <2>2. CASE HandleRound(n)
    BY <2>2, PickInv, OfferInv, CollectInv DEF HandleRound
  <2>3. CASE HandleReceivingBlock(n)
    BY <2>3, ReceiveBlockInv, CheckRoundInv, BufferBallotInv DEF HandleReceivingBlock
  <2> QED BY <2>1, <2>2, <2>3, CastVoteInv, SendBlockInv
<1> QED BY <1>1, <1>2

\* The chains, proposals and handlers of module Blockchain keep the
\* inductive invariant.
THEOREM Invariance ==
  ASSUME Deployed PROVE Spec => []IInv
<1>1. Init => IInv
  BY InitInv
<1>2. IInv /\ [Next]_vars => IInv'
  BY StepInv
<1> QED BY <1>1, <1>2, PTL DEF Spec

\* Every variable keeps its type.
THEOREM TypeCorrect ==
  ASSUME Deployed PROVE Spec => []TypeOK
<1>1. IInv => TypeOK
  BY DEF IInv
<1> QED BY <1>1, Invariance, PTL

\* The chains of two gossipers never differ in an entry both have, although
\* each HandleRound compares the proposals in its own order.
THEOREM ChainsNeverFork ==
  ASSUME Deployed PROVE Spec => []Agreement
<1>1. IInv => Agreement
  BY ChainsAgree
<1> QED BY <1>1, Invariance, PTL

\* No chain records a voter twice.
THEOREM NobodyVotesTwice ==
  ASSUME Deployed PROVE Spec => []OneBallotPerVoter
<1>1. IInv => OneBallotPerVoter
  BY VotersDiffer
<1> QED BY <1>1, Invariance, PTL

\* What a handler brings to the rendezvous with HandleRound belongs to the
\* current round and extends the chain, however long it has waited.
THEOREM HandoffsAreFresh ==
  ASSUME Deployed PROVE Spec => []NoStaleHandoff
<1>1. IInv => NoStaleHandoff
  BY HandoffIsFresh
<1> QED BY <1>1, Invariance, PTL
-----------------------------------------------------------------------------
(* Ballots are not lost. *)

\* The voter is recorded in the chain of n, or has a ballot in its buffer.
Kept(n, v) ==
  \/ v \in voters[n]
  \/ \E i \in 1..Len(buffer[n]) : VoterOf[buffer[n][i]] = v

\* A buffer that grows keeps what it held.
LEMMA AppendKeeps ==
  ASSUME TypeOK, NEW n \in Node, NEW b \in Ballot, NEW m \in Node, NEW v, Kept(m, v),
         buffer' = [buffer EXCEPT ![n] = Append(@, b)], UNCHANGED voters
  PROVE  Kept(m, v)' /\ Kept(n, VoterOf[b])'
<1>1. buffer[n] \in Seq(Ballot) /\ Len(buffer[n]) \in Nat
  BY Types
<1>2. /\ buffer'[n] = Append(buffer[n], b)
      /\ \A p \in Node : p # n => buffer'[p] = buffer[p]
  BY DEF TypeOK
<1>3. /\ Len(buffer'[n]) = Len(buffer[n]) + 1
      /\ buffer'[n][Len(buffer[n]) + 1] = b
      /\ \A i \in 1..Len(buffer[n]) : i \in 1..Len(buffer'[n]) /\ buffer'[n][i] = buffer[n][i]
  BY <1>1, <1>2
<1>4. Kept(n, VoterOf[b])'
  BY <1>1, <1>3 DEF Kept
<1>5. CASE m = n
  BY <1>3, <1>5 DEF Kept
<1>6. CASE m # n
  BY <1>2, <1>6 DEF Kept
<1> QED BY <1>4, <1>5, <1>6

\* Pick drops ballots of recorded voters only.
LEMMA PickKeeps ==
  ASSUME TypeOK, NEW n \in Node, Pick(n), NEW m \in Node, NEW v, Kept(m, v)
  PROVE  Kept(m, v)'
<1>1. UNCHANGED voters
  BY DEF Pick, roundVars
<1>2. CASE m # n \/ v \in voters[m]
  <2>1. m # n => buffer'[m] = buffer[m]
    BY DEF Pick, TypeOK
  <2> QED BY <1>1, <1>2, <2>1 DEF Kept
<1>3. CASE m = n /\ v \notin voters[n]
  <2>1. PICK k \in 1..Len(buffer[n]) : VoterOf[buffer[n][k]] = v
    BY <1>3 DEF Kept
  <2>2. k \in Proposable(n)
    BY <1>3, <2>1 DEF Proposable
  <2>3. PICK i \in Proposable(n) :
          /\ \A j \in Proposable(n) : i <= j
          /\ buffer' = [buffer EXCEPT ![n] = Trimmed(n, i)]
    BY <2>2 DEF Pick
  <2>4. i \in 1..Len(buffer[n]) /\ i <= k
    BY <2>2, <2>3 DEF Proposable
  <2>5. buffer[n] \in Seq(Ballot) /\ Len(buffer[n]) \in Nat
    BY Types
  <2>6. buffer'[n] = SubSeq(buffer[n], i, Len(buffer[n]))
    BY <2>3 DEF TypeOK, Trimmed
  <2>7. /\ k - i + 1 \in 1..Len(buffer'[n])
        /\ buffer'[n][k - i + 1] = buffer[n][k]
    BY <2>4, <2>5, <2>6
  <2> QED BY <1>3, <2>1, <2>7 DEF Kept
<1> QED BY <1>2, <1>3

\* A voter that is kept stays kept, through every step.
LEMMA KeptStays ==
  ASSUME TypeOK, [Next]_vars, NEW m \in Node, NEW v, Kept(m, v)
  PROVE  Kept(m, v)'
<1>1. CASE UNCHANGED <<buffer, voters>>
  BY <1>1 DEF Kept
<1>2. ASSUME NEW n \in Node, CastVote(n) PROVE Kept(m, v)'
  <2>1. PICK b \in toCast[n] : buffer' = [buffer EXCEPT ![n] = Append(@, b)]
    BY <1>2 DEF CastVote
  <2>2. b \in Ballot
    BY DEF TypeOK
  <2> QED BY <1>2, <2>1, <2>2, AppendKeeps DEF CastVote, roundVars
<1>3. ASSUME NEW n \in Node, BufferBallot(n) PROVE Kept(m, v)'
  <2>1. PICK h \in handlers[n] : buffer' = [buffer EXCEPT ![n] = Append(@, h.block.ballot)]
    BY <1>3 DEF BufferBallot
  <2>2. h.block.ballot \in Ballot
    BY Types, HandlerFields, BlockFields
  <2> QED BY <1>3, <2>1, <2>2, AppendKeeps DEF BufferBallot, roundVars
<1>4. ASSUME NEW n \in Node, Collect(n) PROVE Kept(m, v)'
  <2>1. voters[m] \subseteq voters'[m]
    <3>1. UNCHANGED voters \/ \E b : Commit(n, b)
      BY <1>4 DEF Collect, roundVars
    <3>2. UNCHANGED voters \/ \E b : voters' = [voters EXCEPT ![n] = @ \cup {VoterOf[b.ballot]}]
      BY <3>1 DEF Commit
    <3> QED BY <3>2 DEF TypeOK
  <2>2. UNCHANGED buffer
    BY <1>4 DEF Collect
  <2> QED BY <2>1, <2>2 DEF Kept
<1>5. ASSUME NEW n \in Node, Offer(n) \/ SendBlock(n) \/ CheckRound(n)
      PROVE  UNCHANGED <<buffer, voters>>
  BY <1>5 DEF Offer, SendBlock, CheckRound, roundVars
<1>6. ASSUME NEW n \in Node, NEW o \in Node, ReceiveBlock(n, o)
      PROVE  UNCHANGED <<buffer, voters>>
  BY <1>6 DEF ReceiveBlock, roundVars
<1>7. CASE Next
  BY <1>1, <1>2, <1>3, <1>4, <1>5, <1>6, <1>7, PickKeeps
     DEF Next, HandleRound, HandleReceivingBlock
<1>8. CASE UNCHANGED vars
  BY <1>1, <1>8 DEF vars, roundVars
<1> QED BY <1>7, <1>8

\* A ballot that has been cast stays kept.
LEMMA CastStaysKept ==
  ASSUME TypeOK, [Next]_vars, CastIsKept
  PROVE  CastIsKept'
<1> SUFFICES ASSUME NEW m \in Node, NEW b \in Casts[m] \ toCast'[m]
             PROVE  Kept(m, VoterOf[b])'
  BY DEF CastIsKept, Kept
<1>1. CASE b \notin toCast[m]
  <2>1. Kept(m, VoterOf[b])
    BY <1>1 DEF CastIsKept, Kept
  <2> QED BY <2>1, KeptStays
<1>2. CASE b \in toCast[m]
  <2>1. PICK n \in Node : CastVote(n)
    BY <1>2 DEF Next, vars, HandleRound, HandleReceivingBlock, Pick, Offer, Collect,
                SendBlock, ReceiveBlock, CheckRound, BufferBallot
  <2>2. PICK c \in toCast[n] : /\ toCast' = [toCast EXCEPT ![n] = @ \ {c}]
                               /\ buffer' = [buffer EXCEPT ![n] = Append(@, c)]
    BY <2>1 DEF CastVote
  <2>3. m = n /\ b = c
    BY <2>2, <1>2 DEF TypeOK
  <2>4. buffer[n] \in Seq(Ballot) /\ buffer'[n] = Append(buffer[n], c)
    BY <2>2, Types DEF TypeOK
  <2>5. /\ Len(buffer[n]) + 1 \in 1..Len(buffer'[n])
        /\ buffer'[n][Len(buffer[n]) + 1] = c
    BY <2>4
  <2> QED BY <2>3, <2>5 DEF Kept
<1> QED BY <1>1, <1>2

\* A goroutine of n is about to buffer a ballot of the voter.
Pending(n, v) ==
  \E h \in handlers[n] : h.step = "buffer" /\ VoterOf[h.block.ballot] = v

\* A pending ballot stays pending until it is in the buffer.
LEMMA PendingIsBuffered ==
  ASSUME TypeOK, [Next]_vars, NEW m \in Node, NEW v, Pending(m, v)
  PROVE  Pending(m, v)' \/ Kept(m, v)'
<1>0. PICK x \in handlers[m] : x.step = "buffer" /\ VoterOf[x.block.ballot] = v
  BY DEF Pending
<1>1. CASE x \in handlers'[m]
  BY <1>0, <1>1 DEF Pending
<1>2. ASSUME NEW n \in Node, BufferBallot(n) PROVE Pending(m, v)' \/ Kept(m, v)'
  <2>1. PICK h \in handlers[n] :
          /\ buffer' = [buffer EXCEPT ![n] = Append(@, h.block.ballot)]
          /\ Advance(n, h, "hand")
    BY <1>2 DEF BufferBallot
  <2>2. CASE m = n /\ x = h
    <3>1. h.block.ballot \in Ballot
      BY Types, HandlerFields, BlockFields
    <3>2. buffer[n] \in Seq(Ballot) /\ buffer'[n] = Append(buffer[n], h.block.ballot)
      BY <2>1, Types DEF TypeOK
    <3>3. /\ Len(buffer[n]) + 1 \in 1..Len(buffer'[n])
          /\ buffer'[n][Len(buffer[n]) + 1] = h.block.ballot
      BY <3>1, <3>2
    <3> QED BY <1>0, <2>2, <3>3 DEF Kept
  <2>3. CASE m # n \/ x # h
    BY <1>0, <1>1, <2>1, <2>3 DEF Advance, TypeOK
  <2> QED BY <2>2, <2>3
<1>3. ASSUME NEW n \in Node, Collect(n) PROVE x \in handlers'[m]
  <2>1. PICK h \in handlers[n] : h.step = "hand" /\ handlers' = [handlers EXCEPT ![n] = @ \ {h}]
    BY <1>3 DEF Collect
  <2>2. x # h
    BY <1>0, <2>1
  <2> QED BY <2>1, <2>2 DEF TypeOK
<1>4. ASSUME NEW n \in Node, CheckRound(n) PROVE x \in handlers'[m]
  <2>1. PICK h \in handlers[n] :
          /\ h.step = "check"
          /\ \/ handlers' = [handlers EXCEPT ![n] = @ \ {h}]
             \/ \E step : Advance(n, h, step)
    BY <1>4 DEF CheckRound
  <2>2. x # h
    BY <1>0, <2>1
  <2>3. handlers[n] \ {h} \subseteq handlers'[n]
    <3>1. CASE handlers' = [handlers EXCEPT ![n] = @ \ {h}]
      BY <3>1 DEF TypeOK
    <3>2. ASSUME NEW step, Advance(n, h, step)
          PROVE  handlers[n] \ {h} \subseteq handlers'[n]
      BY <3>2 DEF Advance, TypeOK
    <3> QED BY <2>1, <3>1, <3>2
  <2>4. \A p \in Node : p # n => handlers'[p] = handlers[p]
    BY <2>1 DEF Advance, TypeOK
  <2> QED BY <2>2, <2>3, <2>4
<1>5. ASSUME NEW n \in Node, NEW o \in Node, ReceiveBlock(n, o) PROVE x \in handlers'[m]
  BY <1>5 DEF ReceiveBlock, TypeOK
<1>6. ASSUME NEW n \in Node, CastVote(n) \/ Pick(n) \/ Offer(n) \/ SendBlock(n)
      PROVE  UNCHANGED handlers
  BY <1>6 DEF CastVote, Pick, Offer, SendBlock
<1>7. CASE UNCHANGED handlers
  BY <1>1, <1>7
<1>8. CASE Next
  BY <1>1, <1>2, <1>3, <1>4, <1>5, <1>6, <1>7, <1>8 DEF Next, HandleRound, HandleReceivingBlock
<1> QED BY <1>7, <1>8 DEF vars

\* A voter that is marked stays kept, or pending.
LEMMA MarkedStaysKept ==
  ASSUME TypeOK, [Next]_vars, MarkedIsKept
  PROVE  MarkedIsKept'
<1> SUFFICES ASSUME NEW m \in Node, NEW v \in voterMap'[m]
             PROVE  Kept(m, v)' \/ Pending(m, v)'
  BY DEF MarkedIsKept, Kept, Pending
<1>1. CASE v \in voterMap[m]
  <2>1. Kept(m, v) \/ Pending(m, v)
    BY <1>1 DEF MarkedIsKept, Kept, Pending
  <2> QED BY <2>1, KeptStays, PendingIsBuffered
<1>2. CASE v \notin voterMap[m]
  <2>1. PICK n \in Node : CheckRound(n)
    BY <1>2 DEF Next, vars, HandleRound, HandleReceivingBlock, CastVote, Pick, Offer, Collect,
                SendBlock, ReceiveBlock, BufferBallot
  <2>2. PICK h \in handlers[n] :
          /\ Advance(n, h, AfterRoundCheck(n, VoterOf[h.block.ballot]))
          /\ voterMap' = [voterMap EXCEPT ![n] = @ \cup {VoterOf[h.block.ballot]}]
    BY <2>1, <1>2 DEF CheckRound
  <2>3. m = n /\ v = VoterOf[h.block.ballot]
    BY <2>2, <1>2 DEF TypeOK
  <2>4. Advance(n, h, "buffer")
    BY <2>2, <2>3, <1>2 DEF AfterRoundCheck
  <2> DEFINE g == [h EXCEPT !.step = "buffer"]
  <2>5. g \in handlers'[n]
    BY <2>4 DEF Advance, TypeOK
  <2>6. h \in Handler
    BY Types
  <2>7. g.step = "buffer" /\ g.block = h.block
    BY <2>6 DEF Handler
  <2> HIDE DEF g
  <2> QED BY <2>3, <2>5, <2>7 DEF Pending
<1> QED BY <1>1, <1>2

\* A voter marked in VoterMap is recorded, or its ballot is buffered or about
\* to be: ignoring its later proposals loses nothing.
THEOREM MarkedVotersAreKept ==
  ASSUME Deployed PROVE Spec => []MarkedIsKept
<1>1. Init => MarkedIsKept
  BY DEF Init, MarkedIsKept
<1>2. TypeOK /\ MarkedIsKept /\ [Next]_vars => MarkedIsKept'
  BY MarkedStaysKept
<1> QED BY <1>1, <1>2, TypeCorrect, PTL DEF Spec

\* A ballot a client has cast is recorded, or its voter is still in the buffer.
THEOREM CastBallotsAreKept ==
  ASSUME Deployed PROVE Spec => []CastIsKept
<1>1. Init => CastIsKept
  BY DEF Init, CastIsKept
<1>2. TypeOK /\ CastIsKept /\ [Next]_vars => CastIsKept'
  BY CastStaysKept
<1> QED BY <1>1, <1>2, TypeCorrect, PTL DEF Spec

-----------------------------------------------------------------------------
(***************************************************************************)
(* The ledger: what the longest chain records is decided once, by the      *)
(* first gossiper to finish a round, and adopted by the others one after   *)
(* the other.                                                              *)
(***************************************************************************)

\* Where a ballot comes from: a client, the buffer or another's proposal.
LEMMA VoteIsCast ==
  ASSUME TypeOK, BallotsAreCast, NEW n \in Node, CastVote(n)
  PROVE  /\ \E b \in Ballot : CastBallots' = CastBallots \cup {b}
         /\ BallotsAreCast'
<1>1. PICK b \in toCast[n] : /\ toCast' = [toCast EXCEPT ![n] = @ \ {b}]
                             /\ buffer' = [buffer EXCEPT ![n] = Append(@, b)]
                             /\ UNCHANGED proposed
  BY DEF CastVote, roundVars
<1>2. b \in Ballot /\ b \in Casts[n]
  BY DEF TypeOK, BallotsAreCast
<1>3. /\ toCast'[n] = toCast[n] \ {b}
      /\ \A m \in Node : m # n => toCast'[m] = toCast[m]
  BY <1>1 DEF TypeOK
<1>4. CastBallots' = CastBallots \cup {b}
  <2>1. Casts[n] \ toCast'[n] = (Casts[n] \ toCast[n]) \cup {b}
    BY <1>1, <1>2, <1>3
  <2>2. \A m \in Node : m # n => Casts[m] \ toCast'[m] = Casts[m] \ toCast[m]
    BY <1>3
  <2>3. ASSUME NEW x PROVE x \in CastBallots' <=> x \in CastBallots \cup {b}
    <3>1. x \in CastBallots' <=> \E m \in Node : x \in Casts[m] \ toCast'[m]
      BY DEF CastBallots
    <3>2. x \in CastBallots <=> \E m \in Node : x \in Casts[m] \ toCast[m]
      BY DEF CastBallots
    <3> QED BY <2>1, <2>2, <3>1, <3>2
  <2> QED BY <2>3
<1>5. /\ buffer[n] \in Seq(Ballot) /\ buffer'[n] = Append(buffer[n], b)
      /\ \A m \in Node : m # n => buffer'[m] = buffer[m]
  BY <1>1, Types DEF TypeOK
<1>6. ASSUME NEW m \in Node, NEW i \in 1..Len(buffer'[m])
      PROVE  buffer'[m][i] \in CastBallots'
  <2>1. CASE m = n
    <3>1. i \in 1..Len(buffer[n]) \/ buffer'[n][i] = b
      BY <2>1, <1>2, <1>5
    <3>2. i \in 1..Len(buffer[n]) => buffer'[n][i] = buffer[n][i]
      BY <1>2, <1>5
    <3> QED BY <2>1, <3>1, <3>2, <1>4 DEF BallotsAreCast
  <2>2. CASE m # n
    BY <2>2, <1>4, <1>5 DEF BallotsAreCast
  <2> QED BY <2>1, <2>2
<1>7. \A m \in Node : /\ toCast'[m] \subseteq Casts[m]
                      /\ \A r \in 1..Len(proposed'[m]) : proposed'[m][r].ballot \in CastBallots'
  BY <1>1, <1>3, <1>4 DEF BallotsAreCast
<1> QED BY <1>2, <1>4, <1>6, <1>7 DEF BallotsAreCast

\* A buffered ballot was cast: it is of another gossiper's proposal.
LEMMA BufferedIsCast ==
  ASSUME IInv, BallotsAreCast, NEW n \in Node, BufferBallot(n)
  PROVE  BallotsAreCast'
<1>1. PICK h \in handlers[n] : /\ buffer' = [buffer EXCEPT ![n] = Append(@, h.block.ballot)]
                               /\ UNCHANGED <<proposed, toCast>>
  BY DEF BufferBallot, roundVars
<1> DEFINE b == h.block.ballot
<1>2. b \in CastBallots
  <2>1. h.block = proposed[h.block.origin][h.block.round]
    BY DEF IInv, RoundInv, HandlersCarryProposals
  <2> QED BY <2>1, HeardIsProposed DEF BallotsAreCast
<1>3. b \in Ballot
  BY Types, HandlerFields, BlockFields DEF IInv
<1>4. /\ buffer[n] \in Seq(Ballot) /\ buffer'[n] = Append(buffer[n], b)
      /\ \A m \in Node : m # n => buffer'[m] = buffer[m]
  BY <1>1, Types DEF IInv, TypeOK
<1> HIDE DEF b
<1>5. CastBallots' = CastBallots
  BY <1>1 DEF CastBallots
<1>6. ASSUME NEW m \in Node, NEW i \in 1..Len(buffer'[m])
      PROVE  buffer'[m][i] \in CastBallots
  <2>1. CASE m = n
    <3>1. i \in 1..Len(buffer[n]) \/ buffer'[n][i] = b
      BY <2>1, <1>3, <1>4
    <3>2. i \in 1..Len(buffer[n]) => buffer'[n][i] = buffer[n][i]
      BY <1>3, <1>4
    <3> QED BY <2>1, <3>1, <3>2, <1>2 DEF BallotsAreCast
  <2>2. CASE m # n
    BY <2>2, <1>4 DEF BallotsAreCast
  <2> QED BY <2>1, <2>2
<1> QED BY <1>1, <1>5, <1>6 DEF BallotsAreCast

\* A proposal carries a ballot of the buffer.
LEMMA PickedIsCast ==
  ASSUME IInv, BallotsAreCast, NEW n \in Node, Pick(n)
  PROVE  BallotsAreCast'
<1>0. UNCHANGED toCast /\ CastBallots' = CastBallots
  BY DEF Pick, CastBallots
<1>1. buffer[n] \in Seq(Ballot) /\ Len(buffer[n]) \in Nat
  BY Types DEF IInv
<1>2. ASSUME NEW m \in Node, NEW i \in 1..Len(buffer'[m])
      PROVE  buffer'[m][i] \in CastBallots
  <2>1. CASE m = n
    <3>1. buffer'[n] = <<>> \/ \E k \in Proposable(n) : buffer'[n] = Trimmed(n, k)
      BY DEF Pick, IInv, TypeOK
    <3>2. CASE buffer'[n] = <<>>
      BY <2>1, <3>2
    <3>3. ASSUME NEW k \in Proposable(n), buffer'[n] = Trimmed(n, k)
          PROVE  buffer'[n][i] \in CastBallots
      <4>1. k \in 1..Len(buffer[n])
        BY DEF Proposable
      <4>2. /\ i \in 1..(Len(buffer[n]) - k + 1)
            /\ buffer'[n][i] = buffer[n][k + i - 1]
        BY <1>1, <2>1, <3>3, <4>1 DEF Trimmed
      <4>3. k + i - 1 \in 1..Len(buffer[n])
        BY <1>1, <4>1, <4>2
      <4> QED BY <4>2, <4>3 DEF BallotsAreCast
    <3> QED BY <2>1, <3>1, <3>2, <3>3
  <2>2. CASE m # n
    <3>1. buffer'[m] = buffer[m]
      BY <2>2 DEF Pick, IInv, TypeOK
    <3> QED BY <3>1 DEF BallotsAreCast
  <2> QED BY <2>1, <2>2
<1>3. ASSUME NEW m \in Node, NEW r \in 1..Len(proposed'[m])
      PROVE  proposed'[m][r].ballot \in CastBallots
  <2>1. CASE UNCHANGED proposed
    BY <2>1 DEF BallotsAreCast
  <2>2. ASSUME NEW i \in Proposable(n), NEW f,
               proposed' = [proposed EXCEPT ![n] = Append(@, NewBlock(n, buffer[n][i], f))]
        PROVE  proposed'[m][r].ballot \in CastBallots
    <3> DEFINE b == NewBlock(n, buffer[n][i], f)
    <3>1. b.ballot \in CastBallots
      BY DEF NewBlock, Proposable, BallotsAreCast
    <3>2. proposed[n] \in Seq(Block)
      BY Types DEF IInv
    <3>3. proposed' = [proposed EXCEPT ![n] = Append(proposed[n], b)]
      BY <2>2
    <3> HIDE DEF b
    <3>4. CASE m = n
      <4>1. proposed'[n] = Append(proposed[n], b)
        BY <3>3 DEF IInv, TypeOK
      <4>2. r \in 1..Len(proposed[n]) \/ proposed'[n][r] = b
        BY <3>2, <3>4, <4>1
      <4>3. r \in 1..Len(proposed[n]) => proposed'[n][r] = proposed[n][r]
        BY <3>2, <4>1
      <4> QED BY <3>1, <3>4, <4>2, <4>3 DEF BallotsAreCast
    <3>5. CASE m # n
      <4>1. proposed'[m] = proposed[m]
        BY <3>3, <3>5 DEF IInv, TypeOK
      <4> QED BY <4>1 DEF BallotsAreCast
    <3> QED BY <3>4, <3>5
  <2> QED BY <2>1, <2>2 DEF Pick, roundVars
<1> QED BY <1>0, <1>2, <1>3 DEF BallotsAreCast

\* Only clients cast ballots.
LEMMA CastEffect ==
  ASSUME IInv, BallotsAreCast, [Next]_vars
  PROVE  /\ BallotsAreCast'
         /\ \/ CastBallots' = CastBallots
            \/ /\ \E b \in Ballot : CastBallots' = CastBallots \cup {b}
               /\ UNCHANGED blocks
<1>1. CASE UNCHANGED <<buffer, proposed, toCast>>
  BY <1>1 DEF BallotsAreCast, CastBallots
<1>2. ASSUME NEW n \in Node, CastVote(n)
      PROVE  /\ BallotsAreCast'
             /\ \E b \in Ballot : CastBallots' = CastBallots \cup {b}
             /\ UNCHANGED blocks
  BY <1>2, VoteIsCast DEF IInv, CastVote, roundVars
<1>3. ASSUME NEW n \in Node, BufferBallot(n) \/ Pick(n)
      PROVE  BallotsAreCast' /\ CastBallots' = CastBallots
  BY <1>3, BufferedIsCast, PickedIsCast DEF BufferBallot, Pick, CastBallots
<1>4. ASSUME NEW n \in Node, Offer(n) \/ Collect(n) \/ SendBlock(n) \/ CheckRound(n)
      PROVE  UNCHANGED <<buffer, proposed, toCast>>
  BY <1>4 DEF Offer, Collect, SendBlock, CheckRound, roundVars
<1>5. ASSUME NEW n \in Node, NEW o \in Node, ReceiveBlock(n, o)
      PROVE  UNCHANGED <<buffer, proposed, toCast>>
  BY <1>5 DEF ReceiveBlock, roundVars
<1>6. CASE Next
  BY <1>1, <1>2, <1>3, <1>4, <1>5, <1>6 DEF Next, HandleRound, HandleReceivingBlock
<1> QED BY <1>1, <1>6 DEF vars, roundVars
-----------------------------------------------------------------------------
(* The longest chain *)

\* No chain is more than one block longer than another.
LEMMA Lockstep ==
  ASSUME IInv, NEW n \in Node, NEW m \in Node
  PROVE  Len(blocks[n]) <= Len(blocks[m]) + 1
<1>1. CASE n = m
  BY <1>1, Types DEF IInv
<1>2. CASE n # m
  <2>1. nextId[n] - 1 <= heard[n][m] /\ heard[n][m] <= stored[m] /\ stored[m] <= taken[m]
    BY <1>2 DEF IInv, RoundInv, HeardInTime, Counts
  <2>2. taken[m] <= nextId[m]
    BY Types, SMTT(30) DEF IInv, RoundInv, Counts
  <2>3. nextId[n] = Len(blocks[n]) + 1 /\ nextId[m] = Len(blocks[m]) + 1
    BY DEF IInv, RoundInv, Counts
  <2>4. /\ Len(blocks[n]) \in Nat /\ Len(blocks[m]) \in Nat
        /\ heard[n][m] \in Nat /\ stored[m] \in Nat /\ taken[m] \in Nat
    BY Types DEF IInv
  <2> QED BY <2>1, <2>2, <2>3, <2>4
<1> QED BY <1>1, <1>2

\* Nor has anybody stored two blocks more than another.
LEMMA StoredInLockstep ==
  ASSUME IInv, NEW n \in Node, NEW m \in Node
  PROVE  stored[n] <= stored[m] + 1
<1>1. /\ stored[n] \in Nat /\ stored[m] \in Nat /\ heard[n][m] \in Nat
      /\ taken[n] \in Nat /\ nextId[n] \in Nat
  BY Types DEF IInv
<1>2. CASE n = m
  BY <1>1, <1>2
<1>3. CASE n # m
  <2>1. stored[n] <= taken[n]
    BY DEF IInv, RoundInv, Counts
  <2>2. taken[n] <= nextId[n]
    BY Types, SMTT(30) DEF IInv, RoundInv, Counts
  <2>3. nextId[n] - 1 <= heard[n][m] /\ heard[n][m] <= stored[m]
    BY <1>3 DEF IInv, RoundInv, HeardInTime
  <2> QED BY <1>1, <2>1, <2>2, <2>3
<1> QED BY <1>2, <1>3

IsLongest(n) == \A m \in Node : Len(blocks[m]) <= Len(blocks[n])

\* Lengths differ by at most one: a gossiper ahead of another is at the top.
LEMMA LongestIsLongest ==
  ASSUME Deployed, IInv
  PROVE  Longest \in Node /\ IsLongest(Longest)
<1>1. PICK k \in Node : TRUE
  <2>1. Node # {}
    BY FS_EmptySet DEF Deployed
  <2> QED BY <2>1
<1>2. \E n \in Node : IsLongest(n)
  <2>1. CASE \E n \in Node : Len(blocks[n]) > Len(blocks[k])
    <3>1. PICK n \in Node : Len(blocks[n]) > Len(blocks[k])
      BY <2>1
    <3>2. \A m \in Node : Len(blocks[m]) \in Nat /\ Len(blocks[m]) <= Len(blocks[k]) + 1
      BY Lockstep, Types DEF IInv
    <3> QED BY <3>1, <3>2 DEF IsLongest
  <2>2. CASE ~ \E n \in Node : Len(blocks[n]) > Len(blocks[k])
    <3>1. \A m \in Node : Len(blocks[m]) \in Nat
      BY Types DEF IInv
    <3> QED BY <2>2, <3>1 DEF IsLongest
  <2> QED BY <2>1, <2>2
<1> QED BY <1>2 DEF IsLongest, Longest

\* Any chain of that length is the ledger.
LongestAgree == \A n \in Node : IsLongest(n) => LastHash(Longest) = LastHash(n)

\* The longest chains end in the same block.
LEMMA AgreeOnLongest ==
  ASSUME Deployed, IInv PROVE LongestAgree
<1> SUFFICES ASSUME NEW n \in Node, IsLongest(n)
             PROVE  LastHash(Longest) = LastHash(n)
  BY DEF LongestAgree
<1>1. Longest \in Node /\ IsLongest(Longest)
  BY LongestIsLongest
<1> DEFINE l == Longest
<1> HIDE DEF l
<1>2. l \in Node /\ IsLongest(l)
  BY <1>1 DEF l
<1>3. Len(blocks[l]) \in Nat /\ Len(blocks[n]) \in Nat
  BY <1>2, Types DEF IInv
<1>4. Len(blocks[l]) = Len(blocks[n])
  BY <1>2, <1>3 DEF IsLongest
<1>5. \A i \in 1..Len(blocks[n]) : blocks[l][i] = blocks[n][i]
  BY <1>2, <1>3, <1>4, ChainsAgree DEF Agreement
<1>6. LastHash(l) = LastHash(n)
  BY <1>4, <1>5 DEF LastHash
<1> QED BY <1>6 DEF l
-----------------------------------------------------------------------------
(* The end of a round is a step of the ledger, nothing else changes it. *)

ledger == LastHash(Longest)
adopted == [n \in Node |-> Len(blocks[n])]

\* The ledger begins empty, adopted by all.
LEMMA LedgerInit ==
  ASSUME Deployed, Init PROVE TheLedger!Init
<1>0. Longest \in Node /\ IsLongest(Longest)
  BY InitInv, LongestIsLongest
<1>1. \A n \in Node : blocks[n] = <<>> /\ Len(blocks[n]) = 0
  BY DEF Init
<1>2. LastHash(Longest) = <<>>
  BY <1>0, <1>1 DEF LastHash
<1>3. UNION {Casts[n] \ toCast[n] : n \in Node} = {}
  BY DEF Init
<1> QED BY <1>1, <1>2, <1>3 DEF TheLedger!Init

\* The chains after a round of n.
LEMMA ChainAfter ==
  ASSUME TypeOK, NEW n \in Node, NEW w \in Block,
         blocks' = [blocks EXCEPT ![n] = Append(@, w)]
  PROVE  /\ Len(blocks'[n]) = Len(blocks[n]) + 1
         /\ LastHash(n)' = Append(LastHash(n), w.ballot)
         /\ \A m \in Node \ {n} : blocks'[m] = blocks[m]
         /\ adopted' = [adopted EXCEPT ![n] = @ + 1]
<1>1. blocks[n] \in Seq(Block) /\ Len(blocks[n]) \in Nat
  BY Types
<1>2. /\ blocks'[n] = Append(blocks[n], w)
      /\ \A m \in Node \ {n} : blocks'[m] = blocks[m]
  BY DEF TypeOK
<1>3. /\ Len(blocks'[n]) = Len(blocks[n]) + 1
      /\ blocks'[n][Len(blocks[n]) + 1] = w
      /\ \A i \in 1..Len(blocks[n]) : blocks'[n][i] = blocks[n][i]
  BY <1>1, <1>2
<1>4. LastHash(n)' = Append(LastHash(n), w.ballot)
  <2> DEFINE old == LastHash(n)
             new == [i \in 1..Len(blocks'[n]) |-> blocks'[n][i].ballot]
             ext == Append(old, w.ballot)
  <2>1. old \in Seq(Ballot) /\ Len(old) = Len(blocks[n])
    BY <1>1, Types, BlockFields DEF LastHash
  <2>2. \A i \in 1..Len(blocks[n]) : old[i] = blocks[n][i].ballot
    BY DEF LastHash
  <2>3. w.ballot \in Ballot
    BY BlockFields
  <2>4. blocks'[n] \in Seq(Block)
    BY <1>1, <1>2
  <2>5. \A i \in 1..Len(blocks'[n]) : blocks'[n][i] \in Block
    BY <2>4
  <2>6. new \in Seq(Ballot) /\ Len(new) = Len(blocks[n]) + 1
    BY <1>1, <1>3, <2>5, BlockFields
  <2> HIDE DEF old
  <2>7. /\ ext \in Seq(Ballot) /\ Len(ext) = Len(blocks[n]) + 1
        /\ \A i \in 1..Len(blocks[n]) : ext[i] = old[i]
        /\ ext[Len(blocks[n]) + 1] = w.ballot
    BY <2>1, <2>3, AppendProperties
  <2>8. \A i \in 1..Len(blocks'[n]) : new[i] = blocks'[n][i].ballot
    OBVIOUS
  <2> HIDE DEF new, ext
  <2>9. ASSUME NEW i \in 1..Len(new) PROVE new[i] = ext[i]
    <3>1. i \in 1..Len(blocks[n]) \/ i = Len(blocks[n]) + 1
      BY <1>1, <2>6
    <3> QED BY <3>1, <1>1, <1>3, <2>2, <2>7, <2>8
  <2>10. new = ext
    BY <2>6, <2>7, <2>9, SeqEqual
  <2> QED BY <2>10 DEF new, ext, old, LastHash
<1>6. adopted' = [adopted EXCEPT ![n] = @ + 1]
  <2>1. \A m \in Node : Len(blocks'[m]) = IF m = n THEN Len(blocks[n]) + 1 ELSE Len(blocks[m])
    BY <1>2, <1>3
  <2>2. adopted' = [m \in Node |-> IF m = n THEN Len(blocks[n]) + 1 ELSE Len(blocks[m])]
    BY <2>1 DEF adopted
  <2>3. adopted[n] = Len(blocks[n])
    BY DEF adopted
  <2> QED BY <2>2, <2>3 DEF adopted
<1> QED BY <1>2, <1>3, <1>4, <1>6

\* The first to end a round decides the entry, the others adopt it.
LEMMA RoundIsLedgerStep ==
  ASSUME Deployed, IInv, BallotsAreCast, LongestAgree, LongestAgree', UNCHANGED toCast,
         NEW n \in Node, NEW w, Wins(n, w), blocks' = [blocks EXCEPT ![n] = Append(@, w)]
  PROVE  TheLedger!Next
<1>0. Longest \in Node /\ IsLongest(Longest)
  BY LongestIsLongest
<1>1. w \in Block /\ TypeOK
  BY DEF Wins, IInv
<1>2. /\ Len(blocks'[n]) = Len(blocks[n]) + 1
      /\ LastHash(n)' = Append(LastHash(n), w.ballot)
      /\ \A m \in Node \ {n} : blocks'[m] = blocks[m]
      /\ adopted' = [adopted EXCEPT ![n] = @ + 1]
  BY <1>1, ChainAfter
<1>3. \A m \in Node : Len(blocks[m]) \in Nat
  BY <1>1, Types
<1>4. \A m \in Node : Len(blocks[n]) <= Len(blocks[m]) /\ Len(blocks[m]) <= Len(blocks[n]) + 1
  <2>1. \A m \in Node : Len(proposed[m]) <= Len(blocks[m]) + 1
    BY <1>1, Types DEF IInv, RoundInv, Counts
  <2>2. \A m \in Node : nextId[n] <= Len(proposed[m])
    BY DEF Wins
  <2>3. nextId[n] = Len(blocks[n]) + 1 /\ \A m \in Node : Len(proposed[m]) \in Nat
    BY <1>1, Types DEF IInv, RoundInv, Counts
  <2> QED BY <1>3, <2>1, <2>2, <2>3, Lockstep
<1>5. \A m \in Node : Len(LastHash(m)) = Len(blocks[m])
  BY <1>3 DEF LastHash
<1>6. UNION {Casts[m] \ toCast'[m] : m \in Node} = UNION {Casts[m] \ toCast[m] : m \in Node}
  OBVIOUS
<1>7. CASE IsLongest(n)
  <2>1. ledger = LastHash(n) /\ Len(ledger) = Len(blocks[n])
    BY <1>5, <1>7 DEF LongestAgree, ledger
  <2>2. IsLongest(n)'
    <3>1. \A m \in Node : Len(blocks'[m]) <= Len(blocks'[n])
      BY <1>2, <1>3, <1>4
    <3> QED BY <3>1 DEF IsLongest
  <2>3. ledger' = Append(ledger, w.ballot)
    BY <1>2, <2>1, <2>2 DEF LongestAgree, ledger
  <2>4. \A m \in Node : adopted[m] = Len(ledger)
    BY <1>3, <1>4, <1>7, <2>1 DEF IsLongest, adopted
  <2>5. w.ballot \in Ballot /\ w.ballot \in CastBallots
    <3>1. PICK q \in Node : w = proposed[q][nextId[n]]
      BY DEF Wins
    <3>2. nextId[n] \in 1..Len(proposed[q])
      BY <1>1, Types DEF Wins
    <3> QED BY <1>1, <3>1, <3>2, BlockFields DEF BallotsAreCast
  <2>6. VoterOf[w.ballot] \notin {VoterOf[ledger[i]] : i \in 1..Len(ledger)}
    <3>1. VoterOf[w.ballot] \notin voters[n]
      BY DEF Wins
    <3>2. voters[n] = {VoterOf[blocks[n][i].ballot] : i \in 1..Len(blocks[n])}
      BY DEF IInv, RoundInv, VotersAreRecorded
    <3>3. \A i \in 1..Len(blocks[n]) : ledger[i] = blocks[n][i].ballot
      BY <2>1 DEF LastHash
    <3> QED BY <2>1, <3>1, <3>2, <3>3
  <2>7. TheLedger!Decide(n, w.ballot)
    BY <1>2, <1>6, <2>3, <2>4, <2>5, <2>6
       DEF TheLedger!Decide, TheLedger!Voted, CastBallots, ledger, adopted
  <2> QED BY <2>5, <2>7 DEF TheLedger!Next
<1>8. CASE ~IsLongest(n)
  <2>0. PICK l \in Node : l = Longest
    BY <1>0
  <2>1. l # n /\ IsLongest(l)
    BY <1>0, <1>8, <2>0
  <2>2. Len(blocks[l]) = Len(blocks[n]) + 1
    BY <1>3, <1>4, <1>8, <2>1 DEF IsLongest
  <2>3. blocks'[l] = blocks[l] /\ LastHash(l)' = LastHash(l)
    BY <1>2, <2>1 DEF LastHash
  <2>4. IsLongest(l)'
    <3>1. \A m \in Node : Len(blocks'[m]) <= Len(blocks'[l])
      BY <1>2, <1>3, <2>1, <2>2, <2>3 DEF IsLongest
    <3> QED BY <3>1 DEF IsLongest
  <2>5. ledger' = ledger /\ Len(ledger) = Len(blocks[l])
    <3>1. ledger' = LastHash(l)'
      BY <2>1, <2>4 DEF LongestAgree, ledger
    <3> QED BY <3>1, <2>0, <2>3, <1>5 DEF ledger
  <2>6. adopted[n] < Len(ledger)
    BY <1>3, <2>2, <2>5 DEF adopted
  <2>7. TheLedger!Adopt(n)
    BY <1>2, <1>6, <2>5, <2>6 DEF TheLedger!Adopt, ledger, adopted
  <2> QED BY <2>7 DEF TheLedger!Next
<1> QED BY <1>7, <1>8

LedgerVars == <<UNION {Casts[n] \ toCast[n] : n \in Node}, LastHash(Longest),
                [n \in Node |-> Len(blocks[n])]>>

\* Every step casts a ballot, ends a round, or leaves the ledger alone.
LEMMA LedgerStep ==
  ASSUME Deployed, IInv, BallotsAreCast, LongestAgree, LongestAgree', [Next]_vars
  PROVE  [TheLedger!Next]_LedgerVars
<1>1. CASE UNCHANGED blocks /\ CastBallots' = CastBallots
  BY <1>1 DEF LedgerVars, CastBallots, LastHash, Longest
<1>2. CASE UNCHANGED blocks /\ \E b \in Ballot : CastBallots' = CastBallots \cup {b}
  <2>1. PICK b \in Ballot : CastBallots' = CastBallots \cup {b}
    BY <1>2
  <2>2. LastHash(Longest)' = LastHash(Longest) /\ UNCHANGED [n \in Node |-> Len(blocks[n])]
    BY <1>2 DEF LastHash, Longest
  <2>3. TheLedger!Cast(b)
    BY <2>1, <2>2 DEF TheLedger!Cast, CastBallots
  <2> QED BY <2>3 DEF TheLedger!Next
<1>3. CASE ~UNCHANGED blocks
  <2>1. PICK n \in Node : Collect(n)
    BY <1>3 DEF Next, vars, HandleRound, HandleReceivingBlock, CastVote, Pick, Offer,
                SendBlock, ReceiveBlock, CheckRound, BufferBallot, roundVars
  <2>2. PICK h \in handlers[n] :
          /\ h.step = "hand"
          /\ h.block.origin \notin received[n]
          /\ received' = [received EXCEPT ![n] = @ \cup {h.block.origin}]
          /\ AllHeard(received'[n])
          /\ Commit(n, Fitter(n, h.block))
    BY <1>3, <2>1 DEF Collect, roundVars
  <2>3. pc[n] = "collect" /\ UNCHANGED toCast
    BY <2>1 DEF Collect
  <2>4. received'[n] = received[n] \cup {h.block.origin}
    BY <2>2 DEF IInv, TypeOK
  <2> DEFINE w == Fitter(n, h.block)
  <2>5. blocks' = [blocks EXCEPT ![n] = Append(@, w)]
    BY <2>2, <2>3, <2>4, CommitEffect
  <2>6. Wins(n, w)
    BY <2>2, <2>3, <2>4, RoundEnds
  <2> HIDE DEF w
  <2> QED BY <2>3, <2>5, <2>6, RoundIsLedgerStep
<1> QED BY <1>1, <1>2, <1>3, CastEffect

\* A ballot in a buffer or a proposal was cast by a client.
THEOREM NoForgedBallot ==
  ASSUME Deployed PROVE Spec => []BallotsAreCast
<1>1. Init => BallotsAreCast
  BY ConstantsAssumption DEF Init, BallotsAreCast
<1>2. IInv /\ BallotsAreCast /\ [Next]_vars => BallotsAreCast'
  BY CastEffect
<1> QED BY <1>1, <1>2, Invariance, PTL DEF Spec

\* The blockchain of an election implements the ledger: all chains are prefixes
\* of one list of cast ballots that grows entry by entry, one voter each.
THEOREM ChainsImplementLedger ==
  ASSUME Deployed PROVE Spec => ImplementsLedger
<1>1. Init => TheLedger!Init
  BY LedgerInit
<1>2. IInv => LongestAgree
  BY AgreeOnLongest
<1>3. IInv /\ BallotsAreCast /\ LongestAgree /\ LongestAgree' /\ [Next]_vars
        => [TheLedger!Next]_LedgerVars
  BY LedgerStep
<1> QED BY <1>1, <1>2, <1>3, Invariance, NoForgedBallot, PTL
        DEF Spec, ImplementsLedger, TheLedger!Spec, LedgerVars
-----------------------------------------------------------------------------
(***************************************************************************)
(* Standstill: what a gossiper has heard of the current round is collected,*)
(* or a handler brings it, and its voter is marked.  So a gossiper that    *)
(* waits does so for a proposal that it has not heard.                     *)
(***************************************************************************)

\* The proposal of o for the round of n, when n has heard it, is collected or
\* has a handler ...
Handled(n, o) ==
  heard[n][o] = nextId[n] =>
    \/ pc[n] = "collect" /\ o \in received[n]
    \/ \E h \in handlers[n] : h.block = proposed[o][nextId[n]]

\* ... and its voter is marked, or about to be.
Marked(n, o) ==
  heard[n][o] = nextId[n] =>
    \/ \E h \in handlers[n] : h.step = "check" /\ h.block = proposed[o][nextId[n]]
    \/ VoterOf[proposed[o][nextId[n]].ballot] \in voterMap[n]

NothingHeardIsLost == \A n \in Node : \A o \in Node \ {n} : Handled(n, o) /\ Marked(n, o)

\* A gossiper that still collects has not collected everything.
RoundIsOpen == \A n \in Node : pc[n] = "collect" => ~AllHeard(received[n])

WaitInv == NothingHeardIsLost /\ RoundIsOpen

\* Proposals are appended, never changed.
LEMMA ProposalsStay ==
  ASSUME IInv, [Next]_vars, NEW o \in Node, NEW r \in 1..Len(proposed[o])
  PROVE  proposed'[o][r] = proposed[o][r]
<1>1. ASSUME NEW n \in Node, Pick(n) PROVE proposed'[o][r] = proposed[o][r]
  <2>1. UNCHANGED proposed \/ \E b : proposed' = [proposed EXCEPT ![n] = Append(@, b)]
    BY <1>1 DEF Pick, roundVars
  <2>2. proposed[n] \in Seq(Block)
    BY Types DEF IInv
  <2>3. \A b : \A i \in 1..Len(proposed[n]) : Append(proposed[n], b)[i] = proposed[n][i]
    BY <2>2
  <2>4. CASE o = n
    <3>1. CASE UNCHANGED proposed
      BY <3>1
    <3>2. ASSUME NEW b, proposed' = [proposed EXCEPT ![n] = Append(@, b)]
          PROVE  proposed'[n] = Append(proposed[n], b)
      BY <3>2 DEF IInv, TypeOK
    <3>3. ASSUME NEW b, proposed'[n] = Append(proposed[n], b)
          PROVE  proposed'[n][r] = proposed[n][r]
      BY <3>3, <2>3, <2>4
    <3> QED BY <2>1, <2>4, <3>1, <3>2, <3>3
  <2>5. CASE o # n
    BY <2>1, <2>5 DEF IInv, TypeOK
  <2> QED BY <2>4, <2>5
<1>2. ASSUME NEW n \in Node, CastVote(n) \/ Offer(n) \/ Collect(n) \/ SendBlock(n)
                             \/ CheckRound(n) \/ BufferBallot(n)
      PROVE  UNCHANGED proposed
  BY <1>2 DEF CastVote, Offer, Collect, SendBlock, CheckRound, BufferBallot, roundVars
<1>3. ASSUME NEW n \in Node, NEW p \in Node, ReceiveBlock(n, p)
      PROVE  UNCHANGED proposed
  BY <1>3 DEF ReceiveBlock, roundVars
<1>4. CASE Next
  BY <1>1, <1>2, <1>3, <1>4 DEF Next, HandleRound, HandleReceivingBlock
<1> QED BY <1>4 DEF vars, roundVars

\* What keeps the two facts about a proposal that has been heard.
LEMMA NothingLostFrame ==
  ASSUME IInv, [Next]_vars, NEW n \in Node, NEW o \in Node \ {n}, Handled(n, o), Marked(n, o),
         heard'[n][o] = heard[n][o], nextId'[n] = nextId[n],
         pc[n] = "collect" /\ o \in received[n] => pc'[n] = "collect" /\ o \in received'[n],
         voterMap[n] \subseteq voterMap'[n],
         \A h \in handlers[n] : h.block = proposed[o][nextId[n]] =>
           /\ \/ \E g \in handlers'[n] : g.block = h.block
              \/ pc'[n] = "collect" /\ o \in received'[n]
           /\ h.step = "check" =>
                h \in handlers'[n] \/ VoterOf[h.block.ballot] \in voterMap'[n]
  PROVE  Handled(n, o)' /\ Marked(n, o)'
<1> SUFFICES ASSUME heard'[n][o] = nextId'[n]
             PROVE  Handled(n, o)' /\ Marked(n, o)'
  BY DEF Handled, Marked
<1>1. nextId[n] \in 1..Len(proposed[o])
  <2>1. heard[n][o] = nextId[n] /\ heard[n][o] <= Len(proposed[o])
    BY HeardIsProposed
  <2>2. nextId[n] \in Nat \ {0} /\ Len(proposed[o]) \in Nat
    BY Types DEF IInv
  <2> QED BY <2>1, <2>2
<1>2. proposed'[o][nextId'[n]] = proposed[o][nextId[n]]
  BY <1>1, ProposalsStay
<1>3. Handled(n, o)'
  BY <1>2 DEF Handled
<1>4. Marked(n, o)'
  BY <1>2 DEF Marked
<1> QED BY <1>3, <1>4

\* The handler of a proposal for the round of n is of that round and origin.
LEMMA RoundOfProposal ==
  ASSUME IInv, NEW n \in Node, NEW o \in Node, heard[n][o] = nextId[n]
  PROVE  /\ proposed[o][nextId[n]].round = nextId[n]
         /\ proposed[o][nextId[n]].origin = o
<1>1. nextId[n] \in 1..Len(proposed[o])
  BY HeardIsProposed, Types DEF IInv
<1> QED BY <1>1 DEF IInv, RoundInv, ProposalsNamed

\* A step of another gossiper loses nothing that n has heard.
LEMMA OthersLoseNothing ==
  ASSUME IInv, [Next]_vars, NothingHeardIsLost, NEW n \in Node, NEW o \in Node \ {n},
         heard'[n] = heard[n], nextId'[n] = nextId[n], pc'[n] = pc[n],
         received'[n] = received[n], handlers'[n] = handlers[n], voterMap'[n] = voterMap[n]
  PROVE  Handled(n, o)' /\ Marked(n, o)'
BY NothingLostFrame DEF NothingHeardIsLost

\* What the steps of a gossiper leave alone at the others.
LEMMA OthersStay ==
  ASSUME IInv, NEW m \in Node, NEW n \in Node \ {m},
         \/ CastVote(m) \/ HandleRound(m) \/ SendBlock(m) \/ HandleReceivingBlock(m)
  PROVE  /\ heard'[n] = heard[n] /\ nextId'[n] = nextId[n] /\ pc'[n] = pc[n]
         /\ received'[n] = received[n] /\ handlers'[n] = handlers[n]
         /\ voterMap'[n] = voterMap[n]
<1> USE DEF IInv, TypeOK, roundVars, gossipVars
<1>1. CASE CastVote(m) \/ SendBlock(m)
  BY <1>1 DEF CastVote, SendBlock
<1>2. CASE Pick(m)
  BY <1>2 DEF Pick
<1>3. CASE Offer(m)
  BY <1>3 DEF Offer
<1>4. CASE Collect(m)
  <2>1. heard'[n] = heard[n] /\ voterMap'[n] = voterMap[n]
    BY <1>4 DEF Collect
  <2>2. handlers'[n] = handlers[n] /\ received'[n] = received[n]
    BY <1>4 DEF Collect
  <2>3. UNCHANGED <<pc, nextId>> \/ \E b : Commit(m, b)
    BY <1>4 DEF Collect
  <2>4. nextId'[n] = nextId[n] /\ pc'[n] = pc[n]
    BY <2>3 DEF Commit
  <2> QED BY <2>1, <2>2, <2>4
<1>5. CASE \E o \in Node : ReceiveBlock(m, o)
  BY <1>5 DEF ReceiveBlock
<1>6. CASE CheckRound(m)
  <2>1. /\ UNCHANGED <<heard, nextId, pc, received>>
        /\ handlers' = [handlers EXCEPT ![m] = handlers'[m]]
        /\ voterMap' = [voterMap EXCEPT ![m] = voterMap'[m]]
    BY <1>6 DEF CheckRound, Advance
  <2> QED BY <2>1
<1>7. CASE BufferBallot(m)
  BY <1>7 DEF BufferBallot, Advance
<1> QED BY <1>1, <1>2, <1>3, <1>4, <1>5, <1>6, <1>7 DEF HandleRound, HandleReceivingBlock

\* What HandleRound collects, it has not forgotten.
LEMMA CollectLosesNothing ==
  ASSUME Deployed, IInv, [Next]_vars, NothingHeardIsLost, NEW n \in Node, Collect(n),
         NEW o \in Node \ {n}
  PROVE  Handled(n, o)' /\ Marked(n, o)'
<1>t. TypeOK
  BY DEF IInv
<1>0. PICK h \in handlers[n] :
        /\ h.step = "hand"
        /\ handlers' = [handlers EXCEPT ![n] = @ \ {h}]
        /\ IF h.block.origin \in received[n]
           THEN UNCHANGED roundVars
           ELSE /\ received' = [received EXCEPT ![n] = @ \cup {h.block.origin}]
                /\ UNCHANGED <<proposed, taken>>
                /\ IF AllHeard(received'[n])
                   THEN Commit(n, Fitter(n, h.block))
                   ELSE /\ current' = [current EXCEPT ![n] = Fitter(n, h.block)]
                        /\ UNCHANGED <<pc, blocks, nextId, voters>>
  BY DEF Collect
<1>1. pc[n] = "collect" /\ UNCHANGED <<voterMap, heard>> /\ Handled(n, o) /\ Marked(n, o)
  BY DEF Collect, gossipVars, NothingHeardIsLost
<1>2. h.block.origin \notin received[n]
  BY <1>0, <1>1, HandedOver
<1>3. received'[n] = received[n] \cup {h.block.origin}
  BY <1>0, <1>2, <1>t DEF TypeOK
<1>4. CASE AllHeard(received'[n])
  <2>1. nextId'[n] = nextId[n] + 1
    <3>1. Commit(n, Fitter(n, h.block)) /\ AllHeard(received[n] \cup {h.block.origin})
      BY <1>0, <1>2, <1>3, <1>4
    <3>2. nextId' = [nextId EXCEPT ![n] = @ + 1]
      BY <3>1, <1>0, <1>1, CommitEffect
    <3> QED BY <3>2, <1>t DEF TypeOK
  <2>2. heard'[n][o] <= nextId[n] /\ heard'[n][o] \in Nat /\ nextId[n] \in Nat
    BY <1>1, <1>t, Types DEF IInv, RoundInv, HeardInTime
  <2>3. heard'[n][o] # nextId'[n]
    BY <2>1, <2>2
  <2> QED BY <2>3 DEF Handled, Marked
<1>5. CASE ~AllHeard(received'[n])
  <2>1. pc'[n] = "collect" /\ nextId'[n] = nextId[n]
    BY <1>0, <1>1, <1>2, <1>5, <1>t DEF TypeOK
  <2>2. ASSUME NEW g \in handlers[n], g.block = proposed[o][nextId[n]], heard[n][o] = nextId[n]
        PROVE  /\ g \in handlers'[n] \/ o \in received'[n]
               /\ g.step = "check" => g \in handlers'[n]
    <3>1. g.block.origin = o
      BY <2>2, RoundOfProposal
    <3>2. handlers'[n] = handlers[n] \ {h}
      BY <1>0, <1>t DEF TypeOK
    <3>3. g = h \/ g \in handlers'[n]
      BY <3>2
    <3> QED BY <3>1, <3>3, <1>0, <1>3
  <2>3. CASE heard[n][o] = nextId[n]
    BY <2>1, <2>2, <2>3, <1>1, <1>3, NothingLostFrame
  <2>4. CASE heard[n][o] # nextId[n]
    BY <2>1, <2>4, <1>1 DEF Handled, Marked
  <2> QED BY <2>3, <2>4
<1> QED BY <1>4, <1>5

\* A block on its way from Update gets a handler.
LEMMA ReceiveLosesNothing ==
  ASSUME IInv, [Next]_vars, NothingHeardIsLost, NEW n \in Node, NEW p \in Node,
         ReceiveBlock(n, p), NEW o \in Node \ {n}
  PROVE  Handled(n, o)' /\ Marked(n, o)'
<1> USE DEF IInv, TypeOK
<1> DEFINE next == proposed[p][heard[n][p] + 1]
           new == [block |-> next, step |-> "check"]
<1>1. /\ handlers'[n] = handlers[n] \cup {new}
      /\ heard'[n] = [heard[n] EXCEPT ![p] = @ + 1]
      /\ UNCHANGED <<pc, nextId, received, proposed, voterMap>>
  BY DEF ReceiveBlock, roundVars
<1>2. Handled(n, o) /\ Marked(n, o)
  BY DEF NothingHeardIsLost
<1>3. CASE o = p
  <2>1. heard'[n][o] = heard[n][o] + 1
    BY <1>1, <1>3
  <2>2. new \in handlers'[n] /\ new.step = "check" /\ new.block = proposed'[o][heard'[n][o]]
    BY <1>1, <1>3, <2>1
  <2> HIDE DEF new
  <2> QED BY <2>2 DEF Handled, Marked
<1>4. CASE o # p
  <2>1. heard'[n][o] = heard[n][o]
    BY <1>1, <1>4
  <2>2. handlers[n] \subseteq handlers'[n]
    BY <1>1
  <2> QED BY <2>1, <2>2, <1>1, <1>2, NothingLostFrame
<1> QED BY <1>3, <1>4

\* A handler that goes on takes its block along; one that ends had a block of
\* another round.
LEMMA HandlersLoseNothing ==
  ASSUME IInv, [Next]_vars, NothingHeardIsLost, NEW n \in Node,
         CheckRound(n) \/ BufferBallot(n), NEW o \in Node \ {n}
  PROVE  Handled(n, o)' /\ Marked(n, o)'
<1>t. TypeOK
  BY DEF IInv
<1>v. \A v : [voterMap EXCEPT ![n] = @ \cup {v}][n] = voterMap[n] \cup {v}
  BY <1>t DEF TypeOK
<1>1. /\ UNCHANGED <<pc, nextId, received, proposed, heard>>
      /\ voterMap[n] \subseteq voterMap'[n]
  <2>1. UNCHANGED <<pc, nextId, received, proposed, heard>>
    BY DEF CheckRound, BufferBallot, roundVars, gossipVars
  <2>2. voterMap' = voterMap \/ \E v : voterMap' = [voterMap EXCEPT ![n] = @ \cup {v}]
    BY DEF CheckRound, BufferBallot
  <2> QED BY <2>1, <2>2, <1>v
<1>2. Handled(n, o) /\ Marked(n, o)
  BY DEF NothingHeardIsLost
<1>3. PICK h \in handlers[n] :
        \/ /\ handlers' = [handlers EXCEPT ![n] = @ \ {h}]
           /\ h.block.round # nextId[n]
        \/ /\ \E step : Advance(n, h, step)
           /\ h.step = "check" => VoterOf[h.block.ballot] \in voterMap'[n]
  <2>1. CASE CheckRound(n)
    <3>1. PICK h \in handlers[n] :
            LET voter == VoterOf[h.block.ballot] IN
              IF h.block.round # nextId[n]
              THEN handlers' = [handlers EXCEPT ![n] = @ \ {h}]
              ELSE /\ Advance(n, h, AfterRoundCheck(n, voter))
                   /\ voterMap' = [voterMap EXCEPT ![n] = @ \cup {voter}]
      BY <2>1 DEF CheckRound
    <3>2. CASE h.block.round # nextId[n]
      BY <3>1, <3>2
    <3>3. CASE h.block.round = nextId[n]
      <4>1. VoterOf[h.block.ballot] \in voterMap'[n]
        BY <3>1, <3>3, <1>v
      <4> QED BY <3>1, <3>3, <4>1
    <3> QED BY <3>2, <3>3
  <2>2. CASE BufferBallot(n)
    <3>1. PICK h \in handlers[n] : h.step = "buffer" /\ Advance(n, h, "hand")
      BY <2>2 DEF BufferBallot
    <3>2. h.step # "check"
      BY <3>1
    <3> QED BY <3>1, <3>2
  <2> QED BY <2>1, <2>2
<1>4. h \in Handler
  BY <1>t, Types
<1>5. ASSUME NEW g \in handlers[n], g # h
      PROVE  g \in handlers'[n]
  <2>1. \A S : [handlers EXCEPT ![n] = S][n] = S
    BY <1>t DEF TypeOK
  <2>2. \/ handlers'[n] = handlers[n] \ {h}
        \/ \E step : handlers'[n] = (handlers[n] \ {h}) \cup {[h EXCEPT !.step = step]}
    BY <2>1, <1>3 DEF Advance
  <2> QED BY <2>2, <1>5
<1>6. \/ h.block.round # nextId[n]
      \/ /\ \E g \in handlers'[n] : g.block = h.block
         /\ h.step = "check" => VoterOf[h.block.ballot] \in voterMap'[n]
  <2> SUFFICES ASSUME NEW step, Advance(n, h, step)
               PROVE  \E g \in handlers'[n] : g.block = h.block
    BY <1>3
  <2>1. PICK g : g = [h EXCEPT !.step = step]
    OBVIOUS
  <2>2. g \in handlers'[n]
    BY <2>1, <1>t DEF Advance, TypeOK
  <2>3. g.block = h.block
    BY <2>1, <1>4 DEF Handler
  <2> QED BY <2>2, <2>3
<1>7. CASE heard[n][o] = nextId[n]
  <2>1. h.block = proposed[o][nextId[n]] => h.block.round = nextId[n]
    BY <1>7, RoundOfProposal
  <2>2. ASSUME NEW g \in handlers[n], g.block = proposed[o][nextId[n]]
        PROVE  /\ \E f \in handlers'[n] : f.block = g.block
               /\ g.step = "check" =>
                    g \in handlers'[n] \/ VoterOf[g.block.ballot] \in voterMap'[n]
    BY <2>1, <2>2, <1>5, <1>6
  <2> QED BY <2>2, <1>1, <1>2, NothingLostFrame
<1>8. CASE heard[n][o] # nextId[n]
  BY <1>8, <1>1 DEF Handled, Marked
<1> QED BY <1>7, <1>8

\* At the end of every step, what has been heard of a round is still known.
LEMMA NothingIsLost ==
  ASSUME Deployed, IInv, [Next]_vars, NothingHeardIsLost
  PROVE  NothingHeardIsLost'
<1> SUFFICES ASSUME NEW n \in Node, NEW o \in Node \ {n}
             PROVE  Handled(n, o)' /\ Marked(n, o)'
  BY DEF NothingHeardIsLost
<1>1. Handled(n, o) /\ Marked(n, o)
  BY DEF NothingHeardIsLost
<1>2. CASE UNCHANGED vars
  BY <1>1, <1>2 DEF vars, roundVars, gossipVars, Handled, Marked
<1>3. CASE Next
  <2>1. PICK m \in Node : CastVote(m) \/ HandleRound(m) \/ SendBlock(m) \/ HandleReceivingBlock(m)
    BY <1>3 DEF Next
  <2>2. CASE m # n
    <3>1. n \in Node \ {m}
      BY <2>2
    <3> QED BY <3>1, <2>1, OthersStay, OthersLoseNothing
  <2>3. CASE m = n /\ (CastVote(n) \/ SendBlock(n) \/ Pick(n) \/ Offer(n))
    <3>1. UNCHANGED <<heard, nextId, handlers, voterMap>>
      BY <2>3 DEF CastVote, SendBlock, Pick, Offer, roundVars, gossipVars
    <3>2. pc[n] # "collect" \/ UNCHANGED <<pc, received>>
      BY <2>3 DEF CastVote, SendBlock, Pick, Offer, roundVars
    <3> QED BY <3>1, <3>2, <1>1, NothingLostFrame
  <2> QED BY <2>1, <2>2, <2>3, CollectLosesNothing, ReceiveLosesNothing, HandlersLoseNothing
          DEF HandleRound, HandleReceivingBlock
<1> QED BY <1>2, <1>3

\* The round of a gossiper ends with the last proposal.
LEMMA RoundStaysOpen ==
  ASSUME Deployed, IInv, [Next]_vars, RoundIsOpen
  PROVE  RoundIsOpen'
<1> SUFFICES ASSUME NEW n \in Node, pc'[n] = "collect"
             PROVE  ~AllHeard(received'[n])
  BY DEF RoundIsOpen, AllHeard
<1>1. CASE pc[n] = "collect" /\ received'[n] = received[n]
  BY <1>1 DEF RoundIsOpen
<1>2. CASE UNCHANGED vars
  BY <1>1, <1>2 DEF vars, roundVars
<1>3. CASE Next
  <2>1. PICK m \in Node : CastVote(m) \/ HandleRound(m) \/ SendBlock(m) \/ HandleReceivingBlock(m)
    BY <1>3 DEF Next
  <2>2. CASE m # n
    <3>1. n \in Node \ {m}
      BY <2>2
    <3> QED BY <3>1, <2>1, <1>1, OthersStay
  <2>3. CASE m = n /\ (CastVote(n) \/ SendBlock(n) \/ CheckRound(n) \/ BufferBallot(n)
                      \/ \E o \in Node : ReceiveBlock(n, o))
    <3>1. UNCHANGED <<pc, received>>
      BY <2>3 DEF CastVote, SendBlock, CheckRound, BufferBallot, ReceiveBlock, roundVars
    <3> QED BY <3>1, <1>1
  <2>4. CASE Pick(n)
    <3>1. pc[n] = "pick" /\ (pc' = pc \/ pc' = [pc EXCEPT ![n] = "offer"])
      BY <2>4 DEF Pick, roundVars
    <3> QED BY <3>1 DEF IInv, TypeOK
  <2>5. CASE Offer(n)
    <3>1. received'[n] = {}
      BY <2>5 DEF Offer, IInv, TypeOK
    <3> QED BY <3>1, FS_EmptySet DEF AllHeard, Deployed
  <2>6. CASE Collect(n)
    <3>1. pc[n] = "collect"
      BY <2>6 DEF Collect
    <3>2. \/ received' = received
          \/ ~AllHeard(received'[n])
          \/ \E b : Commit(n, b)
      BY <2>6 DEF Collect, roundVars
    <3>3. ASSUME NEW b, Commit(n, b) PROVE FALSE
      BY <3>3 DEF Commit, IInv, TypeOK
    <3> QED BY <3>1, <3>2, <3>3, <1>1
  <2> QED BY <2>1, <2>2, <2>3, <2>4, <2>5, <2>6 DEF HandleRound, HandleReceivingBlock
<1> QED BY <1>2, <1>3
-----------------------------------------------------------------------------
(* A gossiper that cannot go on *)

\* The others cannot have drawn all values of Rand().
LEMMA FitnessIsLeft ==
  ASSUME Deployed, EnoughFitness, IInv, NEW n \in Node, pc[n] = "pick"
  PROVE  ~(Fitness \subseteq Drawn(nextId[n]))
<1> DEFINE r == nextId[n]
           D == {o \in Node : r <= Len(proposed[o])}
<1>1. n \notin D /\ D \subseteq Node \ {n}
  BY Types DEF IInv, RoundInv, Counts
<1>2. /\ IsFiniteSet(Node \ {n})
      /\ Cardinality(Node \ {n}) = N - 1 /\ N \in Nat
  BY FS_RemoveElement, ConstantsAssumption DEF Deployed
<1>3. IsFiniteSet(D) /\ Cardinality(D) <= N - 1 /\ Cardinality(D) \in Nat
  BY <1>1, <1>2, FS_Subset, FS_CardinalityType
<1>4. Drawn(r) = {proposed[o][r].fitness : o \in D}
  BY DEF Drawn
<1> HIDE DEF D, r
<1>5. IsFiniteSet(Drawn(r)) /\ Cardinality(Drawn(r)) <= Cardinality(D)
  <2> DEFINE draw == [o \in D |-> proposed[o][r].fitness]
  <2>1. draw \in Surjection(D, Drawn(r))
    BY <1>4 DEF Surjection
  <2> HIDE DEF draw
  <2> QED BY <1>3, <2>1, FS_Surjection
<1>6. SUFFICES ASSUME Fitness \subseteq Drawn(r) PROVE FALSE
  BY DEF r
<1>7. IsFiniteSet(Fitness) /\ Cardinality(Fitness) <= Cardinality(Drawn(r))
  BY <1>5, <1>6, FS_Subset
<1>8. Cardinality(Fitness) \in Nat /\ Cardinality(Drawn(r)) \in Nat
  BY <1>5, <1>7, FS_CardinalityType
<1> QED BY <1>2, <1>3, <1>5, <1>7, <1>8 DEF EnoughFitness

\* It has nothing to propose, or collects with all its handlers gone.
LEMMA HaltedWaits ==
  ASSUME Deployed, EnoughFitness, IInv, NEW n \in Node, Halted(n)
  PROVE  \/ /\ pc[n] = "pick" /\ buffer[n] = <<>> /\ stored[n] = nextId[n] - 1
         \/ /\ pc[n] = "collect" /\ handlers[n] = {} /\ stored[n] = nextId[n]
<1>1. /\ taken[n] = stored[n]
      /\ Len(proposed[n]) = IF pc[n] = "pick" THEN nextId[n] - 1 ELSE nextId[n]
      /\ pc[n] # "offer"
      /\ taken[n] = Len(proposed[n])
  BY Types DEF Halted, IInv, RoundInv, Counts
<1>2. pc[n] = "pick" => buffer[n] = <<>>
  BY FitnessIsLeft DEF Halted
<1>3. pc[n] = "collect" => handlers[n] = {}
  BY DEF Halted
<1>4. pc[n] \in {"pick", "collect"}
  BY <1>1, Types DEF IInv
<1> QED BY <1>1, <1>2, <1>3, <1>4

\* When it collects, it has not heard a proposal.
LEMMA CollectorMisses ==
  ASSUME Deployed, IInv, WaitInv, NEW n \in Node, pc[n] = "collect", handlers[n] = {}
  PROVE  \E m \in Node \ {n} : heard[n][m] < nextId[n]
<1> SUFFICES ASSUME \A m \in Node \ {n} : heard[n][m] >= nextId[n]
             PROVE  FALSE
  BY Types DEF IInv
<1>1. \A m \in Node \ {n} : heard[n][m] = nextId[n]
  BY Types DEF IInv, RoundInv, HeardInTime
<1>2. \A m \in Node \ {n} : m \in received[n]
  BY <1>1 DEF WaitInv, NothingHeardIsLost, Handled
<1>3. received[n] = Node \ {n}
  BY <1>2, Types DEF IInv, RoundInv, CurrentIsFittest, Candidate
<1>4. Cardinality(Node \ {n}) = N - 1 /\ N \in Nat
  BY FS_RemoveElement, ConstantsAssumption DEF Deployed
<1>5. AllHeard(received[n])
  BY <1>3, <1>4 DEF AllHeard
<1> QED BY <1>5 DEF WaitInv, RoundIsOpen

\* When it has nothing to propose, it has heard no proposal of its round.
LEMMA IdlerMisses ==
  ASSUME IInv, WaitInv, MarkedIsKept, NEW n \in Node, Halted(n), pc[n] = "pick",
         buffer[n] = <<>>, NEW o \in Node \ {n}
  PROVE  heard[n][o] < nextId[n]
<1>0. heard[n][o] \in Nat /\ nextId[n] \in Nat \ {0} /\ heard[n][o] <= nextId[n]
  BY Types DEF IInv, RoundInv, HeardInTime
<1> SUFFICES ASSUME heard[n][o] = nextId[n] PROVE FALSE
  BY <1>0
<1> DEFINE r == nextId[n]
           v == VoterOf[proposed[o][r].ballot]
<1>1. v \in voterMap[n]
  BY DEF WaitInv, NothingHeardIsLost, Marked, Halted
<1>2. v \in voters[n]
  <2>1. Len(buffer[n]) = 0 /\ \A h \in handlers[n] : h.step # "buffer"
    BY DEF Halted
  <2> HIDE DEF v
  <2> QED BY <1>1, <2>1 DEF MarkedIsKept
<1>3. r \in 1..Len(proposed[o]) /\ r - 1 = Len(blocks[n]) /\ Len(blocks[n]) \in Nat
  <2>1. heard[n][o] <= Len(proposed[o]) /\ Len(proposed[o]) \in Nat
    BY HeardIsProposed, Types DEF IInv
  <2>2. r = Len(blocks[n]) + 1 /\ Len(blocks[n]) \in Nat
    BY Types DEF IInv, RoundInv, Counts
  <2> QED BY <1>0, <2>1, <2>2
<1>4. \A i \in 1..(r - 1) : v # VoterOf[blocks[n][i].ballot]
  <2>1. r \in 1..Len(proposed[o]) /\ r - 1 <= Len(blocks[n])
    BY <1>3
  <2> HIDE DEF r
  <2>2. \A i \in 1..(r - 1) :
          VoterOf[proposed[o][r].ballot] # VoterOf[blocks[n][i].ballot]
    BY <2>1, ProposalIsNew
  <2> QED BY <2>2
<1> HIDE DEF v, r
<1>5. voters[n] = {VoterOf[blocks[n][i].ballot] : i \in 1..Len(blocks[n])}
  BY DEF IInv, RoundInv, VotersAreRecorded
<1> QED BY <1>2, <1>3, <1>4, <1>5

\* So it has stored the proposal of its round and misses that of another, or it
\* has stored and heard none of that round.
LEMMA HaltedGossiper ==
  ASSUME Deployed, EnoughFitness, IInv, WaitInv, MarkedIsKept, NEW n \in Node, Halted(n)
  PROVE  /\ stored[n] = IF pc[n] = "collect" THEN nextId[n] ELSE nextId[n] - 1
         /\ pc[n] = "collect" => \E m \in Node \ {n} : heard[n][m] < nextId[n]
         /\ pc[n] # "collect" => \A m \in Node \ {n} : heard[n][m] < nextId[n]
         /\ pc[n] # "collect" => pc[n] = "pick" /\ buffer[n] = <<>>
BY HaltedWaits, CollectorMisses, IdlerMisses

\* A stored block that is not welcome is one of the round to come.
LEMMA NotWelcome ==
  ASSUME IInv, NEW n \in Node, NEW o \in Node, heard[n][o] < stored[o], ~Welcome(n, o)
  PROVE  heard[n][o] = nextId[n]
<1>1. proposed[o][heard[n][o] + 1].round = heard[n][o] + 1
  BY NextProposal
<1>2. heard[n][o] \in Nat /\ nextId[n] \in Nat /\ heard[n][o] <= nextId[n]
  BY Types DEF IInv, RoundInv, HeardInTime
<1>3. ~(heard[n][o] + 1 <= nextId[n])
  BY <1>1 DEF Welcome
<1> QED BY <1>2, <1>3

\* With nobody in a round and nothing to propose, everybody has recorded all.
LEMMA AllIsRecorded ==
  ASSUME IInv, CastIsKept,
         \A n \in Node : pc[n] = "pick" /\ buffer[n] = <<>> /\ stored[n] = nextId[n] - 1
  PROVE  CastIsRecorded
<1> SUFFICES ASSUME NEW n \in Node, NEW b \in Casts[n] \ toCast[n], NEW m \in Node
             PROVE  VoterOf[b] \in voters[m]
  BY DEF CastIsRecorded
<1>1. VoterOf[b] \in voters[n]
  BY DEF CastIsKept
<1>2. ASSUME NEW p \in Node, NEW q \in Node PROVE nextId[p] <= nextId[q]
  <2>1. p # q => nextId[p] - 1 <= heard[p][q] /\ heard[p][q] <= stored[q]
    BY DEF IInv, RoundInv, HeardInTime
  <2>2. stored[q] = nextId[q] - 1
    OBVIOUS
  <2>3. nextId[p] \in Nat /\ nextId[q] \in Nat /\ heard[p][q] \in Nat
    BY Types DEF IInv
  <2> QED BY <2>1, <2>2, <2>3
<1>3. Len(blocks[n]) = Len(blocks[m])
  <2>1. nextId[n] = Len(blocks[n]) + 1 /\ nextId[m] = Len(blocks[m]) + 1
    BY DEF IInv, RoundInv, Counts
  <2>2. nextId[n] <= nextId[m] /\ nextId[m] <= nextId[n]
    BY <1>2
  <2> QED BY <2>1, <2>2, Types DEF IInv
<1>4. \A i \in 1..Len(blocks[n]) : blocks[n][i] = blocks[m][i]
  BY <1>3, ChainsAgree, Types DEF IInv, Agreement
<1>5. /\ voters[n] = {VoterOf[blocks[n][i].ballot] : i \in 1..Len(blocks[n])}
      /\ voters[m] = {VoterOf[blocks[m][i].ballot] : i \in 1..Len(blocks[m])}
  BY DEF IInv, RoundInv, VotersAreRecorded
<1>6. PICK i \in 1..Len(blocks[n]) : VoterOf[b] = VoterOf[blocks[n][i].ballot]
  BY <1>1, <1>5
<1> QED BY <1>3, <1>4, <1>5, <1>6

\* What has been heard is known from the start, and after every step.
LEMMA WaitInit ==
  ASSUME Init PROVE WaitInv
<1>1. NothingHeardIsLost
  BY DEF Init, NothingHeardIsLost, Handled, Marked
<1> QED BY <1>1 DEF Init, WaitInv, RoundIsOpen

\* ... of a gossiper.
LEMMA WaitStep ==
  ASSUME Deployed, IInv, [Next]_vars, WaitInv PROVE WaitInv'
BY NothingIsLost, RoundStaysOpen DEF WaitInv

\* A gossiper waits for proposals that it has not heard, and for no others:
\* of what HandleReceivingBlock has stored of the current round, HandleRound
\* has the block or a handler brings it, and every voter is marked.
THEOREM NothingHeardIsForgotten ==
  ASSUME Deployed PROVE Spec => []WaitInv
<1>1. Init => WaitInv
  BY WaitInit
<1>2. IInv /\ WaitInv /\ [Next]_vars => WaitInv'
  BY WaitStep
<1> QED BY <1>1, <1>2, Invariance, PTL DEF Spec

\* Of the gossipers that collect, one is in the earliest round.
LEMMA EarliestCollector ==
  ASSUME IInv, NEW c \in Node, pc[c] = "collect"
  PROVE  \E n \in Node : /\ pc[n] = "collect"
                         /\ \A m \in Node : pc[m] = "collect" => nextId[n] <= nextId[m]
<1>1. ASSUME NEW p \in Node, NEW q \in Node PROVE nextId[p] <= nextId[q] + 1
  BY Lockstep, Types DEF IInv, RoundInv, Counts
<1>2. \A p \in Node : nextId[p] \in Nat
  BY Types DEF IInv
<1>3. CASE \E n \in Node : pc[n] = "collect" /\ nextId[n] < nextId[c]
  <2>1. PICK n \in Node : pc[n] = "collect" /\ nextId[n] < nextId[c]
    BY <1>3
  <2>2. \A m \in Node : nextId[n] <= nextId[m]
    BY <1>1, <1>2, <2>1
  <2> QED BY <2>1, <2>2
<1>4. CASE ~ \E n \in Node : pc[n] = "collect" /\ nextId[n] < nextId[c]
  BY <1>2, <1>4
<1> QED BY <1>3, <1>4

\* Nobody collects for ever when every block that is stored and welcome gets
\* there.
LEMMA NobodyIsStuck ==
  ASSUME Deployed, EnoughFitness, IInv, WaitInv, MarkedIsKept,
         \A n \in Node : Halted(n) /\ \A o \in Node \ {n} : ~Welcome(n, o),
         NEW c \in Node, pc[c] = "collect"
  PROVE  FALSE
<1>1. PICK n \in Node : /\ pc[n] = "collect"
                        /\ \A m \in Node : pc[m] = "collect" => nextId[n] <= nextId[m]
  BY EarliestCollector
<1>2. handlers[n] = {} /\ stored[n] = nextId[n]
  BY <1>1, HaltedWaits
<1>3. PICK m \in Node \ {n} : heard[n][m] < nextId[n]
  BY <1>1, <1>2, CollectorMisses
<1>4. ASSUME NEW p \in Node, NEW q \in Node \ {p}, heard[p][q] < nextId[p]
      PROVE  heard[p][q] >= stored[q]
  <2> SUFFICES ASSUME heard[p][q] < stored[q] PROVE FALSE
    BY Types DEF IInv
  <2>1. proposed[q][heard[p][q] + 1].round = heard[p][q] + 1
    BY NextProposal
  <2>2. heard[p][q] + 1 <= nextId[p]
    BY <1>4, Types DEF IInv
  <2> QED BY <2>1, <2>2 DEF Welcome
<1>5. /\ heard[n][m] \in Nat /\ nextId[n] \in Nat /\ nextId[m] \in Nat
      /\ stored[m] \in Nat /\ heard[m][n] \in Nat
  BY Types DEF IInv
<1>6. stored[m] = nextId[n] - 1
  <2>1. nextId[n] - 1 <= heard[n][m] /\ heard[n][m] <= stored[m]
    BY DEF IInv, RoundInv, HeardInTime
  <2> QED BY <2>1, <1>3, <1>4, <1>5
<1>7. CASE pc[m] = "collect"
  <2>1. stored[m] = nextId[m]
    BY <1>7, HaltedWaits
  <2>2. nextId[n] <= nextId[m]
    BY <1>1, <1>7
  <2> QED BY <2>1, <2>2, <1>5, <1>6
<1>8. CASE pc[m] = "pick"
  <2>1. buffer[m] = <<>> /\ stored[m] = nextId[m] - 1
    BY <1>8, HaltedWaits
  <2>2. heard[m][n] < nextId[m]
    BY <2>1, <1>8, IdlerMisses
  <2>3. heard[m][n] >= stored[n]
    BY <2>2, <1>4
  <2> QED BY <2>1, <2>2, <2>3, <1>2, <1>5, <1>6
<1> QED BY <1>7, <1>8, HaltedWaits

\* An election that gossip keeps delivering comes to rest only when every voter
\* whose ballot was cast anywhere is recorded by every gossiper.
THEOREM RestsWhenRecorded ==
  ASSUME Deployed, EnoughFitness
  PROVE  Spec => []((\A n \in Node : Halted(n) /\ \A o \in Node \ {n} : ~Welcome(n, o))
                      => CastIsRecorded)
<1>1. ASSUME IInv, WaitInv, MarkedIsKept, CastIsKept,
             \A n \in Node : Halted(n) /\ \A o \in Node \ {n} : ~Welcome(n, o)
      PROVE  CastIsRecorded
  <2>1. \A n \in Node : pc[n] # "collect"
    BY <1>1, NobodyIsStuck
  <2>2. \A n \in Node : pc[n] = "pick" /\ buffer[n] = <<>> /\ stored[n] = nextId[n] - 1
    BY <1>1, <2>1, HaltedWaits
  <2> QED BY <1>1, <2>2, AllIsRecorded
<1> QED BY <1>1, Invariance, NothingHeardIsForgotten, MarkedVotersAreKept, CastBallotsAreKept, PTL
-----------------------------------------------------------------------------
(* The work of an election runs out. *)

AllVoters == {VoterOf[b] : b \in Ballot}

\* A round records a voter, so there are no more rounds than voters.
Rounds == 1..Cardinality(AllVoters)

\* What n has still to do in its rounds: pick, offer, collect.
Phases(n) == CASE pc[n] = "pick" -> 3 [] pc[n] = "offer" -> 2 [] pc[n] = "collect" -> 1
RoundWork(n) == {x \in Rounds \X (1..3) : \/ nextId[n] < x[1]
                                          \/ nextId[n] = x[1] /\ x[2] <= Phases(n)}

\* What n has still to store in its log.
SendWork(n) == {r \in Rounds : stored[n] < r}

\* What n has still to do about a proposal, <<origin, round>>: receive it,
\* check its round, buffer its ballot, hand it over.
StepsLeft(h) == CASE h.step = "check" -> 3 [] h.step = "buffer" -> 2 [] h.step = "hand" -> 1
Handles(n, p, k) ==
  \E h \in handlers[n] : h.block.origin = p[1] /\ h.block.round = p[2] /\ k <= StepsLeft(h)
ReceiveWork(n) ==
  {x \in (Node \X Rounds) \X (1..4) : heard[n][x[1][1]] < x[1][2] \/ Handles(n, x[1], x[2])}

\* ... all in all; a buffer that is not empty may be emptied once more.
Work(n) == Cardinality(RoundWork(n)) + Cardinality(SendWork(n)) + Cardinality(ReceiveWork(n))
Left(n) == 2 * Work(n) + (IF buffer[n] = <<>> THEN 0 ELSE 1)

\* The goroutines of n use up work, a client may add to the buffer; neither
\* touches the work of another.
Works(n) == HandleRound(n) \/ SendBlock(n) \/ HandleReceivingBlock(n)
UsesUp(n) == /\ Works(n) => Left(n)' < Left(n)
             /\ CastVote(n) => Left(n)' <= Left(n) + 1
             /\ Works(n) \/ CastVote(n) => \A m \in Node \ {n} : Left(m)' = Left(m)

\* Every round begins with a voter not recorded yet.
RoundsCounted ==
  \A n \in Node : /\ nextId[n] = Cardinality(voters[n]) + 1
                  /\ pc[n] # "pick" => nextId[n] \in Rounds

\* The voters of an election are finitely many, so the recorded ones are.
LEMMA VotersFinite ==
  ASSUME IsFiniteSet(AllVoters), TypeOK, NEW n \in Node
  PROVE  /\ IsFiniteSet(voters[n]) /\ Cardinality(voters[n]) \in Nat
         /\ voters[n] \subseteq AllVoters
         /\ Cardinality(AllVoters) \in Nat
         /\ Cardinality(voters[n]) <= Cardinality(AllVoters)
<1>1. voters[n] \in SUBSET AllVoters
  BY DEF TypeOK, AllVoters
<1>2. IsFiniteSet(voters[n]) /\ Cardinality(voters[n]) <= Cardinality(AllVoters)
  BY <1>1, FS_Subset
<1> QED BY <1>1, <1>2, FS_CardinalityType

\* Who has something to propose has a round left.
LEMMA PickHasRound ==
  ASSUME IsFiniteSet(AllVoters), TypeOK, RoundsCounted, NEW n \in Node, NEW i \in Proposable(n)
  PROVE  nextId[n] \in Rounds
<1>1. /\ voters[n] \in SUBSET AllVoters /\ Cardinality(voters[n]) \in Nat
      /\ Cardinality(AllVoters) \in Nat
      /\ Cardinality(voters[n]) <= Cardinality(AllVoters)
  BY VotersFinite
<1>2. VoterOf[buffer[n][i]] \in AllVoters \ voters[n]
  <2>1. buffer[n][i] \in Ballot
    BY Types DEF Proposable
  <2> QED BY <2>1 DEF Proposable, AllVoters
<1>3. Cardinality(voters[n]) # Cardinality(AllVoters)
  BY <1>1, <1>2, FS_Subset
<1>4. nextId[n] = Cardinality(voters[n]) + 1
  BY DEF RoundsCounted
<1> QED BY <1>1, <1>3, <1>4 DEF Rounds

\* A step keeps the rounds counted: a round ends with one more voter recorded.
LEMMA RoundsStayCounted ==
  ASSUME IsFiniteSet(AllVoters), IInv, RoundsCounted, [Next]_vars
  PROVE  RoundsCounted'
<1> USE DEF IInv, TypeOK
<1>0. SUFFICES ASSUME NEW n \in Node
               PROVE  /\ nextId'[n] = Cardinality(voters'[n]) + 1
                      /\ pc'[n] # "pick" => nextId'[n] \in Rounds
  BY DEF RoundsCounted
<1>1. /\ nextId[n] = Cardinality(voters[n]) + 1
      /\ pc[n] # "pick" => nextId[n] \in Rounds
  BY DEF RoundsCounted
<1>2. ASSUME NEW m \in Node, Pick(m)
      PROVE  /\ nextId' = nextId /\ voters' = voters
             /\ pc'[n] # "pick" => pc[n] # "pick" \/ Proposable(n) # {}
  BY <1>2 DEF Pick, roundVars
<1>3. ASSUME NEW m \in Node, Offer(m)
      PROVE  nextId' = nextId /\ voters' = voters /\ (pc'[n] # "pick" => pc[n] # "pick")
  BY <1>3 DEF Offer
<1>4. ASSUME NEW m \in Node, NEW b, Commit(m, b)
      PROVE  /\ pc'[n] # "pick" => pc[n] # "pick" /\ n # m
             /\ \/ nextId'[n] = nextId[n] /\ voters'[n] = voters[n]
                \/ /\ m = n
                   /\ nextId'[n] = nextId[n] + 1
                   /\ voters'[n] = voters[n] \cup {VoterOf[b.ballot]}
                   /\ VoterOf[b.ballot] \notin voters[n]
  <2>1. pc'[n] # "pick" => pc[n] # "pick" /\ n # m
    BY <1>4 DEF Commit
  <2>2. CASE VoterOf[b.ballot] \in voters[m]
    BY <1>4, <2>1, <2>2 DEF Commit
  <2>3. CASE VoterOf[b.ballot] \notin voters[m]
    <3>1. /\ voters' = [voters EXCEPT ![m] = @ \cup {VoterOf[b.ballot]}]
          /\ nextId' = [nextId EXCEPT ![m] = @ + 1]
      BY <1>4, <2>3 DEF Commit
    <3>2. CASE m = n
      BY <2>1, <2>3, <3>1, <3>2
    <3>3. CASE m # n
      BY <2>1, <3>1, <3>3
    <3> QED BY <3>2, <3>3
  <2> QED BY <2>1, <2>2, <2>3
<1>5. ASSUME NEW m \in Node, NEW b, Commit(m, b)
      PROVE  /\ nextId'[n] = Cardinality(voters'[n]) + 1
             /\ pc'[n] # "pick" => nextId'[n] \in Rounds
  <2>1. CASE nextId'[n] = nextId[n] /\ voters'[n] = voters[n]
    BY <2>1, <1>1, <1>4, <1>5
  <2>2. CASE /\ m = n
             /\ nextId'[n] = nextId[n] + 1
             /\ voters'[n] = voters[n] \cup {VoterOf[b.ballot]}
             /\ VoterOf[b.ballot] \notin voters[n]
    <3>1. IsFiniteSet(voters[n]) /\ Cardinality(voters[n]) \in Nat
      BY VotersFinite
    <3>2. Cardinality(voters[n] \cup {VoterOf[b.ballot]}) = Cardinality(voters[n]) + 1
      BY <2>2, <3>1, FS_AddElement
    <3> QED BY <2>2, <3>2, <1>1, <1>4, <1>5
  <2> QED BY <2>1, <2>2, <1>4, <1>5
<1>6. CASE UNCHANGED <<nextId, voters, pc>>
  BY <1>1, <1>6
<1>7. CASE \E m \in Node : Collect(m)
  <2>1. UNCHANGED <<nextId, voters, pc>> \/ \E m \in Node : \E b : Commit(m, b)
    BY <1>7 DEF Collect, roundVars
  <2> QED BY <2>1, <1>5, <1>6
<1>8. CASE \E m \in Node : Pick(m)
  <2>1. Proposable(n) # {} => nextId[n] \in Rounds
    BY PickHasRound
  <2> QED BY <1>8, <1>2, <1>1, <2>1
<1>9. CASE \E m \in Node : Offer(m)
  BY <1>9, <1>3, <1>1
<1>10. CASE \E m \in Node : CastVote(m) \/ SendBlock(m) \/ HandleReceivingBlock(m)
  <2>1. UNCHANGED <<nextId, voters, pc>>
    BY <1>10 DEF CastVote, SendBlock, HandleReceivingBlock, ReceiveBlock, CheckRound,
                 BufferBallot, roundVars
  <2> QED BY <2>1, <1>6
<1>11. CASE UNCHANGED vars
  BY <1>11, <1>6 DEF vars, roundVars
<1> QED BY <1>7, <1>8, <1>9, <1>10, <1>11 DEF Next, HandleRound

\* A smaller part of a finite set has fewer elements.
LEMMA FewerElements ==
  ASSUME NEW S, IsFiniteSet(S), NEW T \in SUBSET S
  PROVE  /\ Cardinality(S) \in Nat /\ Cardinality(T) \in Nat
         /\ Cardinality(T) <= Cardinality(S)
         /\ T # S => Cardinality(T) < Cardinality(S)
<1>1. /\ IsFiniteSet(T) /\ Cardinality(T) <= Cardinality(S)
      /\ Cardinality(S) = Cardinality(T) => S = T
  BY FS_Subset
<1>2. Cardinality(S) \in Nat /\ Cardinality(T) \in Nat
  BY <1>1, FS_CardinalityType
<1> QED BY <1>1, <1>2

\* There is finitely much work.
LEMMA WorkIsFinite ==
  ASSUME Deployed, IsFiniteSet(AllVoters), NEW n \in Node
  PROVE  /\ IsFiniteSet(RoundWork(n)) /\ IsFiniteSet(SendWork(n)) /\ IsFiniteSet(ReceiveWork(n))
         /\ Left(n) \in Nat
<1>1. IsFiniteSet(Rounds) /\ IsFiniteSet(1..3) /\ IsFiniteSet(1..4)
  <2>1. Cardinality(AllVoters) \in Int
    BY FS_CardinalityType
  <2>2. /\ \A k \in Int : IsFiniteSet(1..k)
        /\ 3 \in Int /\ 4 \in Int
    BY FS_Interval
  <2> QED BY <2>1, <2>2 DEF Rounds
<1>2. IsFiniteSet(Rounds \X (1..3))
  BY <1>1, FS_Product
<1>3. IsFiniteSet(Node \X Rounds)
  BY <1>1, FS_Product DEF Deployed
<1>4. IsFiniteSet((Node \X Rounds) \X (1..4))
  BY <1>1, <1>3, FS_Product
<1>5. IsFiniteSet(RoundWork(n))
  <2>1. RoundWork(n) \in SUBSET (Rounds \X (1..3))
    BY DEF RoundWork
  <2> QED BY <2>1, <1>2, FS_Subset
<1>6. IsFiniteSet(SendWork(n))
  <2>1. SendWork(n) \in SUBSET Rounds
    BY DEF SendWork
  <2> QED BY <2>1, <1>1, FS_Subset
<1>7. IsFiniteSet(ReceiveWork(n))
  <2>1. ReceiveWork(n) \in SUBSET ((Node \X Rounds) \X (1..4))
    BY DEF ReceiveWork
  <2> QED BY <2>1, <1>4, FS_Subset
<1>8. Left(n) \in Nat
  <2>1. /\ Cardinality(RoundWork(n)) \in Nat /\ Cardinality(SendWork(n)) \in Nat
        /\ Cardinality(ReceiveWork(n)) \in Nat
    BY <1>5, <1>6, <1>7, FS_CardinalityType
  <2> QED BY <2>1 DEF Left, Work
<1> QED BY <1>5, <1>6, <1>7, <1>8

\* Some work done and none added leaves less.
LEMMA LessIsLeft ==
  ASSUME Deployed, IsFiniteSet(AllVoters), NEW n \in Node,
         RoundWork(n)' \subseteq RoundWork(n), SendWork(n)' \subseteq SendWork(n),
         ReceiveWork(n)' \subseteq ReceiveWork(n),
         \/ RoundWork(n)' # RoundWork(n) \/ SendWork(n)' # SendWork(n)
         \/ ReceiveWork(n)' # ReceiveWork(n)
         \/ buffer[n] # <<>> /\ buffer'[n] = <<>>
  PROVE  Left(n)' < Left(n)
<1> DEFINE Smaller(T, S) == /\ Cardinality(S) \in Nat /\ Cardinality(T) \in Nat
                            /\ Cardinality(T) <= Cardinality(S)
                            /\ T # S => Cardinality(T) < Cardinality(S)
<1>1. /\ Smaller(RoundWork(n)', RoundWork(n)) /\ Smaller(SendWork(n)', SendWork(n))
      /\ Smaller(ReceiveWork(n)', ReceiveWork(n))
  BY WorkIsFinite, FewerElements
<1>2. Work(n)' = Cardinality(RoundWork(n)') + Cardinality(SendWork(n)') + Cardinality(ReceiveWork(n)')
  BY DEF Work
<1>3. Left(n)' = 2 * Work(n)' + (IF buffer'[n] = <<>> THEN 0 ELSE 1)
  BY DEF Left
<1>4. /\ Work(n)' \in Nat /\ Work(n) \in Nat /\ Work(n)' <= Work(n)
      /\ Work(n)' < Work(n) \/ (buffer[n] # <<>> /\ buffer'[n] = <<>>)
  BY <1>1, <1>2 DEF Work
<1> HIDE DEF Smaller
<1> QED BY <1>3, <1>4 DEF Left

\* Work depends on what a gossiper has itself.
LEMMA SameWork ==
  ASSUME NEW m \in Node, pc'[m] = pc[m], nextId'[m] = nextId[m], stored'[m] = stored[m],
         heard'[m] = heard[m], handlers'[m] = handlers[m]
  PROVE  /\ RoundWork(m)' = RoundWork(m) /\ SendWork(m)' = SendWork(m)
         /\ ReceiveWork(m)' = ReceiveWork(m)
         /\ Work(m)' = Work(m)
<1>1. RoundWork(m)' = RoundWork(m)
  BY DEF RoundWork, Phases
<1>2. SendWork(m)' = SendWork(m)
  BY DEF SendWork
<1>3. ReceiveWork(m)' = ReceiveWork(m)
  BY DEF ReceiveWork, Handles, StepsLeft
<1> QED BY <1>1, <1>2, <1>3 DEF Work

\* What is proposed is proposed in one of the rounds.
LEMMA ProposedInRounds ==
  ASSUME IsFiniteSet(AllVoters), IInv, RoundsCounted, NEW n \in Node
  PROVE  \A r \in 1..Len(proposed[n]) : r \in Rounds
<1>1. /\ Cardinality(voters[n]) \in Nat /\ Cardinality(AllVoters) \in Nat
      /\ Cardinality(voters[n]) <= Cardinality(AllVoters)
  BY VotersFinite DEF IInv
<1>2. /\ nextId[n] = Cardinality(voters[n]) + 1
      /\ pc[n] # "pick" => nextId[n] \in Rounds
  BY DEF RoundsCounted
<1>3. Len(proposed[n]) = IF pc[n] = "pick" THEN nextId[n] - 1 ELSE nextId[n]
  BY DEF IInv, RoundInv, Counts
<1> QED BY <1>1, <1>2, <1>3 DEF Rounds

\* Nothing else of n than its round moves on.
LEMMA RoundUses ==
  ASSUME IInv, NEW n \in Node, nextId[n] \in Rounds,
         stored'[n] = stored[n], heard'[n] = heard[n], handlers'[n] = handlers[n],
         nextId'[n] = nextId[n],
         \/ pc[n] = "pick" /\ pc'[n] = "offer"
         \/ pc[n] = "offer" /\ pc'[n] = "collect"
  PROVE  /\ RoundWork(n)' \subseteq RoundWork(n) /\ SendWork(n)' \subseteq SendWork(n)
         /\ ReceiveWork(n)' \subseteq ReceiveWork(n) /\ RoundWork(n)' # RoundWork(n)
<1>1. RoundWork(n)' \subseteq RoundWork(n)
  BY DEF RoundWork, Phases
<1>2. <<nextId[n], Phases(n)>> \in RoundWork(n) /\ <<nextId[n], Phases(n)>> \notin RoundWork(n)'
  BY DEF RoundWork, Phases, Rounds
<1>3. SendWork(n)' = SendWork(n) /\ ReceiveWork(n)' = ReceiveWork(n)
  BY DEF SendWork, ReceiveWork, Handles, StepsLeft
<1> QED BY <1>1, <1>2, <1>3

\* A round that ends, or goes on, adds nothing to do.
LEMMA NoMoreRounds ==
  ASSUME IInv, NEW n \in Node,
         \/ nextId'[n] = nextId[n] /\ pc'[n] = pc[n]
         \/ nextId'[n] = nextId[n] + 1
  PROVE  RoundWork(n)' \subseteq RoundWork(n)
<1>1. nextId[n] \in Nat
  BY Types DEF IInv
<1>2. CASE nextId'[n] = nextId[n] /\ pc'[n] = pc[n]
  BY <1>2 DEF RoundWork, Phases
<1>3. CASE nextId'[n] = nextId[n] + 1
  <2> SUFFICES ASSUME NEW x \in Rounds \X (1..3), x \in RoundWork(n)'
               PROVE  nextId[n] < x[1]
    BY DEF RoundWork
  <2>1. nextId'[n] <= x[1] /\ x[1] \in Nat
    BY <1>1, <1>3 DEF RoundWork, Rounds
  <2> QED BY <2>1, <1>1, <1>3
<1> QED BY <1>2, <1>3

\* A stored block need not be stored again.
LEMMA SendUses ==
  ASSUME IsFiniteSet(AllVoters), IInv, RoundsCounted, NEW n \in Node, SendBlock(n)
  PROVE  /\ RoundWork(n)' \subseteq RoundWork(n) /\ SendWork(n)' \subseteq SendWork(n)
         /\ ReceiveWork(n)' \subseteq ReceiveWork(n) /\ SendWork(n)' # SendWork(n)
<1>1. stored[n] < taken[n] /\ stored'[n] = stored[n] + 1
  BY DEF SendBlock, IInv, TypeOK
<1>2. stored[n] \in Nat /\ stored[n] + 1 \in 1..Len(proposed[n])
  BY <1>1, Types, SMTT(30) DEF IInv, RoundInv, Counts
<1>3. stored[n] + 1 \in Rounds
  BY <1>2, ProposedInRounds
<1>4. stored[n] + 1 \in SendWork(n) /\ stored[n] + 1 \notin SendWork(n)'
  BY <1>1, <1>2, <1>3 DEF SendWork
<1>5. SendWork(n)' \subseteq SendWork(n)
  BY <1>1, <1>2 DEF SendWork, Rounds
<1>6. /\ UNCHANGED <<pc, nextId, heard, handlers>>
  BY DEF SendBlock, roundVars
<1>7. RoundWork(n)' = RoundWork(n) /\ ReceiveWork(n)' = ReceiveWork(n)
  BY <1>6 DEF RoundWork, Phases, ReceiveWork, Handles, StepsLeft
<1> QED BY <1>4, <1>5, <1>7

\* A proposal that is received need not be received again.
LEMMA ReceiveUses ==
  ASSUME IsFiniteSet(AllVoters), IInv, RoundsCounted, NEW n \in Node, NEW o \in Node,
         ReceiveBlock(n, o)
  PROVE  /\ RoundWork(n)' \subseteq RoundWork(n) /\ SendWork(n)' \subseteq SendWork(n)
         /\ ReceiveWork(n)' \subseteq ReceiveWork(n) /\ ReceiveWork(n)' # ReceiveWork(n)
<1> DEFINE r == heard[n][o] + 1
           g == [block |-> proposed[o][r], step |-> "check"]
<1>1. /\ heard[n][o] < stored[o]
      /\ handlers'[n] = handlers[n] \cup {g}
      /\ heard'[n] = [heard[n] EXCEPT ![o] = r]
      /\ UNCHANGED <<pc, nextId, stored>>
  BY DEF ReceiveBlock, IInv, TypeOK, roundVars
<1>2. /\ r \in 1..Len(proposed[o])
      /\ proposed[o][r].origin = o /\ proposed[o][r].round = r
  BY <1>1, NextProposal
<1>3. r \in Rounds /\ r \in Nat /\ heard[n][o] \in Nat
  BY <1>2, ProposedInRounds, Types DEF IInv
<1>4. g.block.origin = o /\ g.block.round = r /\ g.step = "check"
  BY <1>2
<1>h. heard[n] \in [Node -> Nat]
  BY DEF IInv, TypeOK
<1> HIDE DEF g
<1>5. ASSUME NEW x \in (Node \X Rounds) \X (1..4), x \in ReceiveWork(n)'
      PROVE  x \in ReceiveWork(n)
  <2>1. x[1][1] \in Node /\ x[1][2] \in Rounds /\ x[2] \in 1..4
    OBVIOUS
  <2>2. CASE heard'[n][x[1][1]] < x[1][2]
    <3>1. heard[n][x[1][1]] < x[1][2]
      BY <2>1, <2>2, <1>1, <1>3, <1>h DEF Rounds
    <3> QED BY <3>1 DEF ReceiveWork
  <2>3. CASE Handles(n, x[1], x[2])'
    <3>1. PICK h \in handlers'[n] : /\ h.block.origin = x[1][1] /\ h.block.round = x[1][2]
                                    /\ x[2] <= StepsLeft(h)
      BY <2>3 DEF Handles, StepsLeft
    <3>2. CASE h = g
      <4>1. heard[n][x[1][1]] < x[1][2]
        BY <3>1, <3>2, <1>3, <1>4
      <4> QED BY <4>1 DEF ReceiveWork
    <3>3. CASE h \in handlers[n]
      BY <3>1, <3>3 DEF ReceiveWork, Handles
    <3> QED BY <1>1, <3>2, <3>3
  <2> QED BY <1>5, <2>2, <2>3 DEF ReceiveWork
<1>6. <<<<o, r>>, 4>> \in ReceiveWork(n)
  BY <1>3 DEF ReceiveWork
<1>7. <<<<o, r>>, 4>> \notin ReceiveWork(n)'
  <2>1. heard'[n][o] = r
    BY <1>1, <1>h
  <2>2. \A h \in handlers'[n] : ~ (4 <= StepsLeft(h))
    <3>1. \A h \in handlers'[n] : h.step \in {"check", "buffer", "hand"}
      BY <1>1, <1>4, Types, HandlerFields DEF IInv
    <3> QED BY <3>1 DEF StepsLeft
  <2>4. ~ (heard'[n][o] < r)
    BY <2>1, <1>3
  <2> DEFINE x == <<<<o, r>>, 4>>
  <2>5. x[1] = <<o, r>> /\ x[2] = 4 /\ x[1][1] = o /\ x[1][2] = r
    OBVIOUS
  <2> HIDE DEF r, x
  <2>6. ~ (heard'[n][x[1][1]] < x[1][2])
    BY <2>4, <2>5
  <2>7. x \notin ReceiveWork(n)'
    BY <2>2, <2>5, <2>6 DEF ReceiveWork, Handles, StepsLeft
  <2> QED BY <2>7 DEF x
<1>8. ReceiveWork(n)' \subseteq (Node \X Rounds) \X (1..4)
  BY DEF ReceiveWork
<1>9. RoundWork(n)' = RoundWork(n) /\ SendWork(n)' = SendWork(n)
  BY <1>1 DEF RoundWork, Phases, SendWork
<1> QED BY <1>5, <1>6, <1>7, <1>8, <1>9

\* A handler that ends, or gets further, need not get there again.
LEMMA HandlerUses ==
  ASSUME IsFiniteSet(AllVoters), IInv, RoundsCounted, NEW n \in Node, NEW h \in handlers[n],
         heard'[n] = heard[n],
         \/ handlers'[n] = handlers[n] \ {h}
         \/ \E g : /\ handlers'[n] = (handlers[n] \ {h}) \cup {g}
                   /\ g.block = h.block /\ StepsLeft(g) < StepsLeft(h) /\ StepsLeft(g) \in Nat
  PROVE  ReceiveWork(n)' \subseteq ReceiveWork(n) /\ ReceiveWork(n)' # ReceiveWork(n)
<1> DEFINE p == <<h.block.origin, h.block.round>>
<1>1. /\ h.block.origin \in Node /\ h.block.round \in 1..Len(proposed[h.block.origin])
      /\ h.block.round \in Nat
  BY HeardIsProposed
<1>2. p \in Node \X Rounds
  BY <1>1, ProposedInRounds
<1>3. StepsLeft(h) \in 1..3
  BY Types, HandlerFields DEF StepsLeft, IInv
<1>4. ASSUME NEW f \in handlers[n], f # h
      PROVE  ~ (f.block.origin = h.block.origin /\ f.block.round = h.block.round)
  BY <1>4 DEF IInv, RoundInv, HandlersCarryProposals, HandledOnce
<1>5. \A f \in handlers'[n] :
        \/ f \in handlers[n] /\ f # h
        \/ f.block = h.block /\ StepsLeft(f) < StepsLeft(h) /\ StepsLeft(f) \in Nat
  OBVIOUS
<1>6. ASSUME NEW x \in (Node \X Rounds) \X (1..4), x \in ReceiveWork(n)'
      PROVE  x \in ReceiveWork(n)
  <2>1. CASE heard'[n][x[1][1]] < x[1][2]
    BY <2>1 DEF ReceiveWork
  <2>2. CASE Handles(n, x[1], x[2])'
    <3>1. PICK f \in handlers'[n] : /\ f.block.origin = x[1][1] /\ f.block.round = x[1][2]
                                    /\ x[2] <= StepsLeft(f)
      BY <2>2 DEF Handles, StepsLeft
    <3>2. CASE f \in handlers[n]
      BY <3>1, <3>2 DEF ReceiveWork, Handles
    <3>3. CASE f.block = h.block /\ StepsLeft(f) < StepsLeft(h) /\ StepsLeft(f) \in Nat
      <4>1. x[2] <= StepsLeft(h)
        BY <3>1, <3>3, <1>3
      <4>2. Handles(n, x[1], x[2])
        BY <3>1, <3>3, <4>1 DEF Handles
      <4> QED BY <4>2 DEF ReceiveWork
    <3> QED BY <1>5, <3>2, <3>3
  <2> QED BY <1>6, <2>1, <2>2 DEF ReceiveWork
<1>7. <<p, StepsLeft(h)>> \in ReceiveWork(n)
  <2>1. Handles(n, p, StepsLeft(h))
    BY <1>3 DEF Handles
  <2> QED BY <2>1, <1>2, <1>3 DEF ReceiveWork
<1>8. <<p, StepsLeft(h)>> \notin ReceiveWork(n)'
  <2>1. ~ (heard'[n][p[1]] < p[2])
    <3>1. h.block.round <= heard[n][h.block.origin]
      BY DEF IInv, RoundInv, HandlersCarryProposals
    <3> QED BY <3>1, <1>1, Types DEF IInv
  <2>2. ASSUME NEW f \in handlers'[n], f.block.origin = p[1], f.block.round = p[2],
               StepsLeft(h) <= StepsLeft(f)
        PROVE  FALSE
    BY <2>2, <1>3, <1>4, <1>5
  <2>3. ~Handles(n, p, StepsLeft(h))'
    BY <2>2 DEF Handles, StepsLeft
  <2> QED BY <2>1, <2>3 DEF ReceiveWork
<1>9. ReceiveWork(n)' \subseteq (Node \X Rounds) \X (1..4)
  BY DEF ReceiveWork
<1> QED BY <1>6, <1>7, <1>8, <1>9

\* The steps of HandleReceivingBlock use up work; a buffered ballot costs more
\* than the buffer it fills gives back.
LEMMA HandlersUse ==
  ASSUME IsFiniteSet(AllVoters), IInv, RoundsCounted, NEW n \in Node,
         CheckRound(n) \/ BufferBallot(n)
  PROVE  /\ RoundWork(n)' \subseteq RoundWork(n) /\ SendWork(n)' \subseteq SendWork(n)
         /\ ReceiveWork(n)' \subseteq ReceiveWork(n) /\ ReceiveWork(n)' # ReceiveWork(n)
<1>1. UNCHANGED <<pc, nextId, stored, heard>>
  BY DEF CheckRound, BufferBallot, roundVars, gossipVars
<1>2. RoundWork(n)' = RoundWork(n) /\ SendWork(n)' = SendWork(n)
  BY <1>1 DEF RoundWork, Phases, SendWork
<1>3. ASSUME NEW h \in handlers[n], NEW step,
             \/ h.step = "check" /\ step \in {"buffer", "hand"}
             \/ h.step = "buffer" /\ step = "hand",
             Advance(n, h, step)
      PROVE  \E g : /\ handlers'[n] = (handlers[n] \ {h}) \cup {g}
                    /\ g.block = h.block /\ StepsLeft(g) < StepsLeft(h) /\ StepsLeft(g) \in Nat
  <2> DEFINE g == [h EXCEPT !.step = step]
  <2>1. h \in Handler
    BY Types DEF IInv
  <2>2. g.block = h.block /\ g.step = step
    BY <2>1 DEF Handler
  <2>3. handlers'[n] = (handlers[n] \ {h}) \cup {g}
    BY <1>3 DEF Advance, IInv, TypeOK
  <2> HIDE DEF g
  <2>4. StepsLeft(g) < StepsLeft(h) /\ StepsLeft(g) \in Nat
    BY <2>2, <1>3 DEF StepsLeft
  <2> QED BY <2>2, <2>3, <2>4
<1>4. PICK h \in handlers[n] :
        \/ handlers'[n] = handlers[n] \ {h}
        \/ \E g : /\ handlers'[n] = (handlers[n] \ {h}) \cup {g}
                  /\ g.block = h.block /\ StepsLeft(g) < StepsLeft(h) /\ StepsLeft(g) \in Nat
  <2>1. CASE BufferBallot(n)
    <3>1. PICK h \in handlers[n] : h.step = "buffer" /\ Advance(n, h, "hand")
      BY <2>1 DEF BufferBallot
    <3> QED BY <3>1, <1>3
  <2>2. CASE CheckRound(n)
    <3>1. PICK h \in handlers[n] :
            /\ h.step = "check"
            /\ \/ handlers' = [handlers EXCEPT ![n] = @ \ {h}]
               \/ Advance(n, h, AfterRoundCheck(n, VoterOf[h.block.ballot]))
      BY <2>2 DEF CheckRound
    <3>2. PICK step \in {"buffer", "hand"} : step = AfterRoundCheck(n, VoterOf[h.block.ballot])
      BY DEF AfterRoundCheck
    <3>3. CASE handlers' = [handlers EXCEPT ![n] = @ \ {h}]
      BY <3>3 DEF IInv, TypeOK
    <3>4. CASE Advance(n, h, AfterRoundCheck(n, VoterOf[h.block.ballot]))
      <4>1. Advance(n, h, step)
        BY <3>2, <3>4
      <4> QED BY <3>1, <3>2, <4>1, <1>3
    <3> QED BY <3>1, <3>3, <3>4
  <2> QED BY <2>1, <2>2
<1>5. ReceiveWork(n)' \subseteq ReceiveWork(n) /\ ReceiveWork(n)' # ReceiveWork(n)
  BY <1>1, <1>4, HandlerUses
<1> QED BY <1>2, <1>5

\* A proposal that is collected need not be handed over again; if it ends the
\* round, HandleRound begins the next one.
LEMMA CollectUses ==
  ASSUME Deployed, IsFiniteSet(AllVoters), IInv, RoundsCounted, NEW n \in Node, Collect(n)
  PROVE  /\ RoundWork(n)' \subseteq RoundWork(n) /\ SendWork(n)' \subseteq SendWork(n)
         /\ ReceiveWork(n)' \subseteq ReceiveWork(n) /\ ReceiveWork(n)' # ReceiveWork(n)
<1>1. PICK h \in handlers[n] :
        /\ h.step = "hand"
        /\ handlers' = [handlers EXCEPT ![n] = @ \ {h}]
        /\ IF h.block.origin \in received[n]
           THEN UNCHANGED roundVars
           ELSE /\ received' = [received EXCEPT ![n] = @ \cup {h.block.origin}]
                /\ UNCHANGED <<proposed, taken>>
                /\ IF AllHeard(received'[n])
                   THEN Commit(n, Fitter(n, h.block))
                   ELSE /\ current' = [current EXCEPT ![n] = Fitter(n, h.block)]
                        /\ UNCHANGED <<pc, blocks, nextId, voters>>
  BY DEF Collect
<1>2. pc[n] = "collect" /\ UNCHANGED <<stored, heard>>
  BY DEF Collect, gossipVars
<1>3. ReceiveWork(n)' \subseteq ReceiveWork(n) /\ ReceiveWork(n)' # ReceiveWork(n)
  <2>1. handlers'[n] = handlers[n] \ {h} /\ heard'[n] = heard[n]
    BY <1>1, <1>2 DEF IInv, TypeOK
  <2> QED BY <2>1, HandlerUses
<1>4. SendWork(n)' = SendWork(n)
  BY <1>2 DEF SendWork
<1>5. \/ nextId'[n] = nextId[n] /\ pc'[n] = pc[n]
      \/ nextId'[n] = nextId[n] + 1
  <2>1. CASE UNCHANGED <<pc, nextId>>
    BY <2>1
  <2>2. CASE h.block.origin \notin received[n] /\ AllHeard(received'[n])
    <3>1. received'[n] = received[n] \cup {h.block.origin}
      BY <1>1, <2>2 DEF IInv, TypeOK
    <3>2. nextId' = [nextId EXCEPT ![n] = @ + 1]
      BY <1>1, <1>2, <2>2, <3>1, CommitEffect
    <3> QED BY <3>2 DEF IInv, TypeOK
  <2> QED BY <1>1, <2>1, <2>2 DEF roundVars
<1>6. RoundWork(n)' \subseteq RoundWork(n)
  BY <1>5, NoMoreRounds
<1> QED BY <1>3, <1>4, <1>6

\* Every step of its goroutines leaves a gossiper less to do.
LEMMA WorkUses ==
  ASSUME Deployed, IsFiniteSet(AllVoters), IInv, RoundsCounted, NEW n \in Node, Works(n)
  PROVE  Left(n)' < Left(n)
<1>1. CASE Pick(n)
  <2>1. UNCHANGED <<stored, heard, handlers>>
    BY <1>1 DEF Pick, gossipVars
  <2>2. CASE Proposable(n) = {} /\ buffer' = [buffer EXCEPT ![n] = <<>>] /\ UNCHANGED roundVars
    <3>1. buffer[n] # <<>> /\ buffer'[n] = <<>>
      BY <1>1, <2>2 DEF Pick, IInv, TypeOK
    <3>2. /\ RoundWork(n)' = RoundWork(n) /\ SendWork(n)' = SendWork(n)
          /\ ReceiveWork(n)' = ReceiveWork(n)
      BY <2>1, <2>2, SameWork DEF roundVars
    <3> QED BY <3>1, <3>2, LessIsLeft
  <2>3. CASE Proposable(n) # {} /\ pc' = [pc EXCEPT ![n] = "offer"] /\ UNCHANGED nextId
    <3>1. nextId[n] \in Rounds
      BY <2>3, PickHasRound DEF IInv
    <3>2. pc[n] = "pick" /\ pc'[n] = "offer"
      BY <1>1, <2>3 DEF Pick, IInv, TypeOK
    <3> QED BY <2>1, <2>3, <3>1, <3>2, RoundUses, LessIsLeft
  <2> QED BY <1>1, <2>2, <2>3 DEF Pick
<1>2. CASE Offer(n)
  <2>1. /\ UNCHANGED <<stored, heard, handlers, nextId>>
        /\ pc[n] = "offer" /\ pc'[n] = "collect"
    BY <1>2 DEF Offer, gossipVars, IInv, TypeOK
  <2>2. nextId[n] \in Rounds
    BY <2>1 DEF RoundsCounted
  <2> QED BY <2>1, <2>2, RoundUses, LessIsLeft
<1>3. CASE Collect(n)
  BY <1>3, CollectUses, LessIsLeft
<1>4. CASE SendBlock(n)
  BY <1>4, SendUses, LessIsLeft
<1>5. CASE \E o \in Node : ReceiveBlock(n, o)
  BY <1>5, ReceiveUses, LessIsLeft
<1>6. CASE CheckRound(n) \/ BufferBallot(n)
  BY <1>6, HandlersUse, LessIsLeft
<1> QED BY <1>1, <1>2, <1>3, <1>4, <1>5, <1>6
        DEF Works, HandleRound, HandleReceivingBlock

\* The buffer of another gossiper is left alone.
LEMMA OthersBuffers ==
  ASSUME IInv, NEW m \in Node, NEW n \in Node \ {m}, Works(m) \/ CastVote(m)
  PROVE  buffer'[n] = buffer[n] /\ stored'[n] = stored[n]
<1> USE DEF IInv, TypeOK, roundVars, gossipVars
<1>1. CASE CastVote(m) \/ SendBlock(m)
  BY <1>1 DEF CastVote, SendBlock
<1>2. CASE Pick(m)
  BY <1>2 DEF Pick
<1>3. CASE Offer(m) \/ Collect(m)
  BY <1>3 DEF Offer, Collect
<1>4. CASE CheckRound(m) \/ \E o \in Node : ReceiveBlock(m, o)
  BY <1>4 DEF CheckRound, ReceiveBlock
<1>5. CASE BufferBallot(m)
  BY <1>5 DEF BufferBallot
<1> QED BY <1>1, <1>2, <1>3, <1>4, <1>5 DEF Works, HandleRound, HandleReceivingBlock

\* ... and all its work, as is the work of a gossiper whose client casts a vote.
LEMMA StepUsesUp ==
  ASSUME Deployed, IsFiniteSet(AllVoters), IInv, RoundsCounted, NEW n \in Node
  PROVE  UsesUp(n)
<1>1. ASSUME CastVote(n) PROVE Left(n)' <= Left(n) + 1
  <2>1. UNCHANGED <<pc, nextId, stored, heard, handlers>>
    BY <1>1 DEF CastVote, roundVars, gossipVars
  <2>2. Work(n)' = Work(n)
    BY <2>1, SameWork
  <2>3. Left(n)' = 2 * Work(n)' + (IF buffer'[n] = <<>> THEN 0 ELSE 1)
    BY DEF Left
  <2>4. Work(n) \in Nat
    BY WorkIsFinite, FS_CardinalityType DEF Work
  <2> QED BY <2>2, <2>3, <2>4 DEF Left
<1>2. ASSUME Works(n) \/ CastVote(n), NEW m \in Node \ {n} PROVE Left(m)' = Left(m)
  <2>1. buffer'[m] = buffer[m] /\ stored'[m] = stored[m]
    BY <1>2, OthersBuffers
  <2>2. /\ heard'[m] = heard[m] /\ nextId'[m] = nextId[m] /\ pc'[m] = pc[m]
        /\ handlers'[m] = handlers[m]
    BY <1>2, OthersStay DEF Works
  <2>3. Work(m)' = Work(m)
    BY <2>1, <2>2, SameWork
  <2> QED BY <2>1, <2>3 DEF Left
<1> QED BY <1>1, <1>2, WorkUses DEF UsesUp

\* At the start nobody has recorded a voter.
LEMMA RoundsInit ==
  ASSUME Init PROVE RoundsCounted
BY FS_EmptySet DEF Init, RoundsCounted

\* ... and every round begins with a voter that is not.
LEMMA RoundsAreCounted ==
  ASSUME Deployed, IsFiniteSet(AllVoters) PROVE Spec => []RoundsCounted
<1>1. Init => RoundsCounted
  BY RoundsInit
<1>2. IInv /\ RoundsCounted /\ [Next]_vars => RoundsCounted'
  BY RoundsStayCounted
<1> QED BY <1>1, <1>2, Invariance, PTL DEF Spec

\* An election ends: what is left to do is a number, which every step of a
\* goroutine or of gossip makes smaller and a vote raises by one at most, so
\* between two votes HandleRound, HandleSendingBlocks and HandleReceivingBlock
\* take finitely many steps, and nobody proposes for ever.
THEOREM WorkRunsOut ==
  ASSUME Deployed, IsFiniteSet(AllVoters)
  PROVE  Spec => /\ [](\A n \in Node : Left(n) \in Nat)
                 /\ [][\A n \in Node : UsesUp(n)]_vars
<1>1. IInv => \A n \in Node : Left(n) \in Nat
  BY WorkIsFinite
<1>2. IInv /\ RoundsCounted /\ [Next]_vars => [\A n \in Node : UsesUp(n)]_vars
  BY StepUsesUp
<1> QED BY <1>1, <1>2, Invariance, RoundsAreCounted, PTL DEF Spec
=============================================================================
