-------------------------- MODULE ElectionsProofs --------------------------
(***************************************************************************)
(* For every set of gossipers that -N counts and all ballots of both       *)
(* elections: the shared log holds blocks back, yet each election is a run *)
(* of module Blockchain, and both come to an end, with all recorded.       *)
(***************************************************************************)
EXTENDS Elections, FiniteSetTheorems, TLAPS

PA == INSTANCE BlockchainProofs WITH
  Ballot <- BallotA, VoterOf <- VoterOfA, Casts <- CastsA,
  pc <- pcA, blocks <- blocksA, nextId <- nextIdA, voters <- votersA,
  buffer <- bufferA, voterMap <- voterMapA, current <- currentA,
  received <- receivedA, proposed <- proposedA, taken <- takenA,
  stored <- storedA, heard <- heardA, handlers <- handlersA, toCast <- toCastA

PB == INSTANCE BlockchainProofs WITH
  Ballot <- BallotB, VoterOf <- VoterOfB, Casts <- CastsB,
  pc <- pcB, blocks <- blocksB, nextId <- nextIdB, voters <- votersB,
  buffer <- bufferB, voterMap <- voterMapB, current <- currentB,
  received <- receivedB, proposed <- proposedB, taken <- takenB,
  stored <- storedB, heard <- heardB, handlers <- handlersB, toCast <- toCastB
-----------------------------------------------------------------------------
(* Each election alone *)

\* What election A does is a step of its Blockchain, as the theorems know it.
LEMMA ActionsOfA ==
  ASSUME NEW n \in Node
  PROVE  /\ A!CastVote(n) => PA!CastVote(n)
         /\ A!HandleRound(n) => PA!HandleRound(n)
         /\ A!SendBlock(n) => PA!SendBlock(n)
         /\ \A o \in Node : A!ReceiveBlock(n, o) => PA!ReceiveBlock(n, o)
         /\ A!CheckRound(n) => PA!CheckRound(n)
         /\ A!BufferBallot(n) => PA!BufferBallot(n)
<1> USE DEF A!roundVars, PA!roundVars, A!gossipVars, PA!gossipVars
<1>1. A!CastVote(n) => PA!CastVote(n)
  BY DEF A!CastVote, PA!CastVote
<1>2. A!Pick(n) => PA!Pick(n)
  BY DEF A!Pick, PA!Pick, A!Proposable, PA!Proposable, A!Drawn, PA!Drawn,
         A!Trimmed, PA!Trimmed, A!NewBlock, PA!NewBlock, A!LastHash, PA!LastHash
<1>3. A!Offer(n) => PA!Offer(n)
  BY DEF A!Offer, PA!Offer
<1>4. A!Collect(n) => PA!Collect(n)
  <2>1. \A b : A!Fitter(n, b) = PA!Fitter(n, b)
    BY DEF A!Fitter, PA!Fitter, A!Valid, PA!Valid, A!LastHash, PA!LastHash
  <2>2. \A b : A!Commit(n, b) <=> PA!Commit(n, b)
    BY DEF A!Commit, PA!Commit, A!NoBlock, PA!NoBlock
  <2>3. \A S : A!AllHeard(S) <=> PA!AllHeard(S)
    BY DEF A!AllHeard, PA!AllHeard, A!Cardinality, PA!Cardinality
  <2> QED BY <2>1, <2>2, <2>3 DEF A!Collect, PA!Collect
<1>5. A!SendBlock(n) => PA!SendBlock(n)
  BY DEF A!SendBlock, PA!SendBlock
<1>6. ASSUME NEW o \in Node PROVE A!ReceiveBlock(n, o) => PA!ReceiveBlock(n, o)
  BY DEF A!ReceiveBlock, PA!ReceiveBlock
<1>7. A!CheckRound(n) => PA!CheckRound(n)
  BY DEF A!CheckRound, PA!CheckRound, A!Advance, PA!Advance, A!AfterRoundCheck, PA!AfterRoundCheck
<1>8. A!BufferBallot(n) => PA!BufferBallot(n)
  BY DEF A!BufferBallot, PA!BufferBallot, A!Advance, PA!Advance
<1> QED BY <1>1, <1>2, <1>3, <1>4, <1>5, <1>6, <1>7, <1>8 DEF A!HandleRound, PA!HandleRound

\* What election B does is a step of its Blockchain, as the theorems know it.
LEMMA ActionsOfB ==
  ASSUME NEW n \in Node
  PROVE  /\ B!CastVote(n) => PB!CastVote(n)
         /\ B!HandleRound(n) => PB!HandleRound(n)
         /\ B!SendBlock(n) => PB!SendBlock(n)
         /\ \A o \in Node : B!ReceiveBlock(n, o) => PB!ReceiveBlock(n, o)
         /\ B!CheckRound(n) => PB!CheckRound(n)
         /\ B!BufferBallot(n) => PB!BufferBallot(n)
<1> USE DEF B!roundVars, PB!roundVars, B!gossipVars, PB!gossipVars
<1>1. B!CastVote(n) => PB!CastVote(n)
  BY DEF B!CastVote, PB!CastVote
<1>2. B!Pick(n) => PB!Pick(n)
  BY DEF B!Pick, PB!Pick, B!Proposable, PB!Proposable, B!Drawn, PB!Drawn,
         B!Trimmed, PB!Trimmed, B!NewBlock, PB!NewBlock, B!LastHash, PB!LastHash
<1>3. B!Offer(n) => PB!Offer(n)
  BY DEF B!Offer, PB!Offer
<1>4. B!Collect(n) => PB!Collect(n)
  <2>1. \A b : B!Fitter(n, b) = PB!Fitter(n, b)
    BY DEF B!Fitter, PB!Fitter, B!Valid, PB!Valid, B!LastHash, PB!LastHash
  <2>2. \A b : B!Commit(n, b) <=> PB!Commit(n, b)
    BY DEF B!Commit, PB!Commit, B!NoBlock, PB!NoBlock
  <2>3. \A S : B!AllHeard(S) <=> PB!AllHeard(S)
    BY DEF B!AllHeard, PB!AllHeard, B!Cardinality, PB!Cardinality
  <2> QED BY <2>1, <2>2, <2>3 DEF B!Collect, PB!Collect
<1>5. B!SendBlock(n) => PB!SendBlock(n)
  BY DEF B!SendBlock, PB!SendBlock
<1>6. ASSUME NEW o \in Node PROVE B!ReceiveBlock(n, o) => PB!ReceiveBlock(n, o)
  BY DEF B!ReceiveBlock, PB!ReceiveBlock
<1>7. B!CheckRound(n) => PB!CheckRound(n)
  BY DEF B!CheckRound, PB!CheckRound, B!Advance, PB!Advance, B!AfterRoundCheck, PB!AfterRoundCheck
<1>8. B!BufferBallot(n) => PB!BufferBallot(n)
  BY DEF B!BufferBallot, PB!BufferBallot, B!Advance, PB!Advance
<1> QED BY <1>1, <1>2, <1>3, <1>4, <1>5, <1>6, <1>7, <1>8 DEF B!HandleRound, PB!HandleRound

\* The steps of election A are those of its Blockchain.
LEMMA StepsOfA ==
  ASSUME [A!Next]_A!vars PROVE [PA!Next]_PA!vars
<1>1. CASE UNCHANGED A!vars
  BY <1>1 DEF A!vars, PA!vars, A!roundVars, PA!roundVars, A!gossipVars, PA!gossipVars
<1>2. CASE A!Next
  BY <1>2, ActionsOfA DEF A!Next, PA!Next, A!HandleReceivingBlock, PA!HandleReceivingBlock
<1> QED BY <1>1, <1>2

\* The steps of election B are those of its Blockchain.
LEMMA StepsOfB ==
  ASSUME [B!Next]_B!vars PROVE [PB!Next]_PB!vars
<1>1. CASE UNCHANGED B!vars
  BY <1>1 DEF B!vars, PB!vars, B!roundVars, PB!roundVars, B!gossipVars, PB!gossipVars
<1>2. CASE B!Next
  BY <1>2, ActionsOfB DEF B!Next, PB!Next, B!HandleReceivingBlock, PB!HandleReceivingBlock
<1> QED BY <1>1, <1>2

\* What -N counts, it counts for both elections.
LEMMA SameDeployment ==
  ASSUME A!Deployed
  PROVE  /\ PA!ConstantsAssumption /\ PA!Deployed
         /\ PB!ConstantsAssumption /\ PB!Deployed
<1>1. PA!ConstantsAssumption /\ PB!ConstantsAssumption
  BY ElectionsAssumption
     DEF A!ConstantsAssumption, PA!ConstantsAssumption, B!ConstantsAssumption, PB!ConstantsAssumption
<1>2. PA!Deployed /\ PB!Deployed
  BY DEF A!Deployed, PA!Deployed, PB!Deployed, A!IsFiniteSet, PA!IsFiniteSet, PB!IsFiniteSet,
         A!Cardinality, PA!Cardinality, PB!Cardinality
<1> QED BY <1>1, <1>2

\* Both elections begin as they would alone.
LEMMA SameInit ==
  ASSUME Init PROVE PA!Init /\ PB!Init
BY DEF Init, A!Init, PA!Init, A!NoBlock, PA!NoBlock, B!Init, PB!Init, B!NoBlock, PB!NoBlock

\* What happens in one election is nothing to the other.
LEMMA SameSteps ==
  ASSUME [Next]_vars
  PROVE  [A!Next]_A!vars /\ [B!Next]_B!vars
<1> USE DEF varsA, varsB, A!vars, B!vars, A!roundVars, B!roundVars, A!gossipVars, B!gossipVars
<1>1. CASE UNCHANGED vars
  BY <1>1 DEF vars
<1>2. ASSUME NEW n \in Node, SendBlock(n)
      PROVE  [A!Next]_A!vars /\ [B!Next]_B!vars
  BY <1>2 DEF SendBlock, A!Next, B!Next
<1>3. ASSUME NEW n \in Node, CastVote(n)
      PROVE  [A!Next]_A!vars /\ [B!Next]_B!vars
  BY <1>3 DEF CastVote, A!Next, B!Next
<1>4. ASSUME NEW n \in Node, HandleRound(n) \/ CheckRound(n) \/ BufferBallot(n)
      PROVE  [A!Next]_A!vars /\ [B!Next]_B!vars
  BY <1>4 DEF HandleRound, CheckRound, BufferBallot, A!Next, B!Next,
              A!HandleReceivingBlock, B!HandleReceivingBlock
<1>5. ASSUME NEW n \in Node, NEW o \in Node, ReceiveBlock(n, o)
      PROVE  [A!Next]_A!vars /\ [B!Next]_B!vars
  BY <1>5 DEF ReceiveBlock, A!Next, B!Next, A!HandleReceivingBlock, B!HandleReceivingBlock
<1> QED BY <1>1, <1>2, <1>3, <1>4, <1>5 DEF Next, Proceed

\* Each election beside the other is an election of module Blockchain: that its
\* blocks wait in the shared log behind those of the other is a delay that
\* Blockchain allows.
THEOREM EachIsABlockchain == Spec => A!Spec /\ B!Spec
<1>1. Init => A!Init /\ B!Init
  BY DEF Init
<1>2. [Next]_vars => [A!Next]_A!vars /\ [B!Next]_B!vars
  BY SameSteps
<1> QED BY <1>1, <1>2, PTL DEF Spec, A!Spec, B!Spec

\* So the theorems of BlockchainProofs hold of both.
LEMMA EachIsProved == Spec => PA!Spec /\ PB!Spec
<1>1. Init => PA!Init /\ PB!Init
  BY SameInit
<1>2. [Next]_vars => [PA!Next]_PA!vars /\ [PB!Next]_PB!vars
  BY SameSteps, StepsOfA, StepsOfB
<1> QED BY <1>1, <1>2, PTL DEF Spec, PA!Spec, PB!Spec

\* In neither election does a chain record a voter twice.
THEOREM NobodyVotesTwice ==
  ASSUME A!Deployed PROVE Spec => []OneBallotPerVoter
<1>1. (PA!Spec => []PA!OneBallotPerVoter) /\ (PB!Spec => []PB!OneBallotPerVoter)
  BY SameDeployment, PA!NobodyVotesTwice, PB!NobodyVotesTwice
<1>2. PA!OneBallotPerVoter /\ PB!OneBallotPerVoter => OneBallotPerVoter
  BY DEF OneBallotPerVoter, A!OneBallotPerVoter, PA!OneBallotPerVoter,
         B!OneBallotPerVoter, PB!OneBallotPerVoter
<1> QED BY <1>1, <1>2, EachIsProved, PTL

\* In neither election is a ballot lost that a client has cast: its voter is
\* recorded, or still in the buffer.
THEOREM CastBallotsAreKept ==
  ASSUME A!Deployed PROVE Spec => []CastIsKept
<1>1. (PA!Spec => []PA!CastIsKept) /\ (PB!Spec => []PB!CastIsKept)
  BY SameDeployment, PA!CastBallotsAreKept, PB!CastBallotsAreKept
<1>2. PA!CastIsKept /\ PB!CastIsKept => CastIsKept
  BY DEF CastIsKept, A!CastIsKept, PA!CastIsKept, B!CastIsKept, PB!CastIsKept
<1> QED BY <1>1, <1>2, EachIsProved, PTL
-----------------------------------------------------------------------------
(* How many blocks of an election a log begins with *)

\* The blocks of election e among the first i of a log.
CountOf(s, e, i) == Cardinality({q \in 1..i : s[q] = e})

\* It counts: one more block, at most one more of the election.
LEMMA CountSteps ==
  ASSUME NEW s, NEW e, NEW i \in Nat
  PROVE  /\ CountOf(s, e, i) \in Nat
         /\ CountOf(s, e, 0) = 0
         /\ CountOf(s, e, i + 1) = IF s[i + 1] = e THEN CountOf(s, e, i) + 1 ELSE CountOf(s, e, i)
<1> DEFINE T(k) == {q \in 1..k : s[q] = e}
<1>1. IsFiniteSet(T(i)) /\ Cardinality(T(i)) \in Nat
  <2>1. IsFiniteSet(1..i)
    BY FS_Interval
  <2>2. T(i) \subseteq 1..i
    OBVIOUS
  <2> HIDE DEF T
  <2> QED BY <2>1, <2>2, FS_Subset, FS_CardinalityType
<1>2. Cardinality(T(0)) = 0
  <2>1. T(0) = {}
    OBVIOUS
  <2> QED BY <2>1, FS_EmptySet
<1>3. CASE s[i + 1] = e
  <2>1. T(i + 1) = T(i) \cup {i + 1} /\ i + 1 \notin T(i)
    BY <1>3
  <2> HIDE DEF T
  <2>2. Cardinality(T(i + 1)) = Cardinality(T(i)) + 1
    BY <1>1, <2>1, FS_AddElement
  <2> QED BY <1>1, <1>2, <1>3, <2>2 DEF CountOf, T
<1>4. CASE s[i + 1] # e
  <2>1. T(i + 1) = T(i)
    BY <1>4
  <2> QED BY <1>1, <1>2, <1>4, <2>1 DEF CountOf
<1> QED BY <1>3, <1>4

\* A longer beginning has no fewer of them.
LEMMA CountGrows ==
  ASSUME NEW s, NEW e, NEW i \in Nat, NEW j \in Nat, i <= j
  PROVE  CountOf(s, e, i) <= CountOf(s, e, j)
<1> DEFINE T(k) == {q \in 1..k : s[q] = e}
<1>1. IsFiniteSet(T(j))
  <2>1. IsFiniteSet(1..j) /\ T(j) \subseteq 1..j
    BY FS_Interval
  <2> HIDE DEF T
  <2> QED BY <2>1, FS_Subset
<1>2. T(i) \subseteq T(j)
  OBVIOUS
<1> HIDE DEF T
<1>3. Cardinality(T(i)) <= Cardinality(T(j))
  BY <1>1, <1>2, FS_Subset
<1> QED BY <1>3 DEF CountOf, T

\* What is appended to a log does not change its beginnings, and counts once.
LEMMA CountExtended ==
  ASSUME NEW s, NEW t, NEW e, NEW k \in Nat, \A q \in 1..k : t[q] = s[q]
  PROVE  /\ \A i \in 0..k : CountOf(t, e, i) = CountOf(s, e, i)
         /\ t[k + 1] = e => CountOf(t, e, k + 1) = CountOf(s, e, k) + 1
         /\ t[k + 1] # e => CountOf(t, e, k + 1) = CountOf(s, e, k)
<1>1. ASSUME NEW i \in 0..k PROVE CountOf(t, e, i) = CountOf(s, e, i)
  <2>1. {q \in 1..i : t[q] = e} = {q \in 1..i : s[q] = e}
    OBVIOUS
  <2> QED BY <2>1 DEF CountOf
<1>2. CountOf(t, e, k) = CountOf(s, e, k)
  BY <1>1
<1> QED BY <1>1, <1>2, CountSteps
-----------------------------------------------------------------------------
(* The shared logs *)

\* The counters of both elections for a gossiper and a log tell how many blocks
\* of which election there are, and how many have been taken from its beginning.
LogCounts ==
  /\ log \in [Node -> Seq({"A", "B"})]
  /\ \A o \in Node :
    /\ Len(log[o]) = storedA[o] + storedB[o]
    /\ CountOf(log[o], "A", Len(log[o])) = storedA[o]
    /\ CountOf(log[o], "B", Len(log[o])) = storedB[o]
    /\ \A n \in Node :
         /\ CountOf(log[o], "A", heardA[n][o] + heardB[n][o]) = heardA[n][o]
         /\ CountOf(log[o], "B", heardA[n][o] + heardB[n][o]) = heardB[n][o]

\* The part of the log of o that begins it has two blocks of an election less
\* than that of m, then it has at most one of the other election more: the
\* logs of two gossipers are never mixed much differently.
Apart(m, i, p, q, x, y) ==
  CountOf(log[m], y, i) >= CountOf(log[p], y, q) + 2 =>
    CountOf(log[p], x, q) <= CountOf(log[m], x, i) + 1

LogsInStep ==
  \A m, p \in Node : \A i \in 0..Len(log[m]), q \in 0..Len(log[p]) :
    m # p => Apart(m, i, p, q, "A", "B") /\ Apart(m, i, p, q, "B", "A")

\* In each election nobody has stored two blocks more than another.
StoredInStep ==
  \A m, p \in Node : storedA[p] <= storedA[m] + 1 /\ storedB[p] <= storedB[m] + 1

\* A step of one election may change its counters as that election allows; in
\* the log, SendBlock appends a block, and ReceiveBlock takes the next one.
Took(n, o, e) ==
  /\ log' = log /\ storedA' = storedA /\ storedB' = storedB
  /\ IsNext(n, o, e)
  /\ \A p, q \in Node : p # n \/ q # o =>
       heardA'[p][q] = heardA[p][q] /\ heardB'[p][q] = heardB[p][q]
  /\ heardA'[n][o] = IF e = "A" THEN heardA[n][o] + 1 ELSE heardA[n][o]
  /\ heardB'[n][o] = IF e = "B" THEN heardB[n][o] + 1 ELSE heardB[n][o]

Put(n, e) ==
  /\ heardA' = heardA /\ heardB' = heardB
  /\ log' = [log EXCEPT ![n] = Append(@, e)]
  /\ \A m \in Node \ {n} : storedA'[m] = storedA[m] /\ storedB'[m] = storedB[m]
  /\ storedA'[n] = IF e = "A" THEN storedA[n] + 1 ELSE storedA[n]
  /\ storedB'[n] = IF e = "B" THEN storedB[n] + 1 ELSE storedB[n]

\* The counters are numbers, and nobody has heard what is not stored.
CountersType ==
  /\ storedA \in [Node -> Nat] /\ storedB \in [Node -> Nat]
  /\ heardA \in [Node -> [Node -> Nat]] /\ heardB \in [Node -> [Node -> Nat]]

HeardIsStored ==
  \A n, o \in Node : heardA[n][o] <= storedA[o] /\ heardB[n][o] <= storedB[o]

\* These are the only steps of the logs.
LEMMA LogSteps ==
  ASSUME CountersType, LogCounts, [Next]_vars
  PROVE  \/ UNCHANGED <<log, storedA, storedB, heardA, heardB>>
         \/ \E n, o \in Node : \E e \in {"A", "B"} : Took(n, o, e)
         \/ \E n \in Node : \E e \in {"A", "B"} : Put(n, e)
<1>0. CASE UNCHANGED <<log, storedA, storedB, heardA, heardB>>
  BY <1>0
<1>1. ASSUME NEW n \in Node, SendBlock(n)
      PROVE  Put(n, "A") \/ Put(n, "B")
  <2>1. CASE A!SendBlock(n) /\ Store(n, "A") /\ UNCHANGED varsB
    <3>1. heardA' = heardA /\ heardB' = heardB /\ storedB' = storedB
          /\ storedA' = [storedA EXCEPT ![n] = storedA[n] + 1]
      BY <2>1 DEF A!SendBlock, varsB
    <3> QED BY <2>1, <3>1 DEF Put, Store, CountersType
  <2>2. CASE B!SendBlock(n) /\ Store(n, "B") /\ UNCHANGED varsA
    <3>1. heardA' = heardA /\ heardB' = heardB /\ storedA' = storedA
          /\ storedB' = [storedB EXCEPT ![n] = storedB[n] + 1]
      BY <2>2 DEF B!SendBlock, varsA
    <3> QED BY <2>2, <3>1 DEF Put, Store, CountersType
  <2> QED BY <1>1, <2>1, <2>2 DEF SendBlock
<1>2. ASSUME NEW n \in Node, NEW o \in Node, ReceiveBlock(n, o)
      PROVE  Took(n, o, "A") \/ Took(n, o, "B")
  <2>1. CASE IsNext(n, o, "A") /\ A!ReceiveBlock(n, o) /\ UNCHANGED varsB
    <3>1. /\ storedA' = storedA /\ storedB' = storedB /\ heardB' = heardB /\ log' = log
          /\ heardA' = [heardA EXCEPT ![n] = [heardA[n] EXCEPT ![o] = heardA[n][o] + 1]]
      BY <2>1, <1>2 DEF A!ReceiveBlock, varsB, CountersType, ReceiveBlock
    <3>2. /\ heardA'[n][o] = heardA[n][o] + 1
          /\ \A p, q \in Node : p # n \/ q # o => heardA'[p][q] = heardA[p][q]
      BY <3>1 DEF CountersType
    <3> QED BY <2>1, <3>1, <3>2 DEF Took
  <2>2. CASE IsNext(n, o, "B") /\ B!ReceiveBlock(n, o) /\ UNCHANGED varsA
    <3>1. /\ storedA' = storedA /\ storedB' = storedB /\ heardA' = heardA /\ log' = log
          /\ heardB' = [heardB EXCEPT ![n] = [heardB[n] EXCEPT ![o] = heardB[n][o] + 1]]
      BY <2>2, <1>2 DEF B!ReceiveBlock, varsA, CountersType, ReceiveBlock
    <3>2. /\ heardB'[n][o] = heardB[n][o] + 1
          /\ \A p, q \in Node : p # n \/ q # o => heardB'[p][q] = heardB[p][q]
      BY <3>1 DEF CountersType
    <3> QED BY <2>2, <3>1, <3>2 DEF Took
  <2> QED BY <1>2, <2>1, <2>2 DEF ReceiveBlock
<1>3. ASSUME NEW n \in Node, HandleRound(n)
      PROVE  UNCHANGED <<log, storedA, storedB, heardA, heardB>>
  BY <1>3 DEF HandleRound, varsA, varsB, A!HandleRound, A!Pick, A!Offer, A!Collect, A!gossipVars,
              B!HandleRound, B!Pick, B!Offer, B!Collect, B!gossipVars
<1>4. ASSUME NEW n \in Node, CheckRound(n) \/ BufferBallot(n)
      PROVE  UNCHANGED <<log, storedA, storedB, heardA, heardB>>
  BY <1>4 DEF CheckRound, BufferBallot, varsA, varsB, A!CheckRound, A!BufferBallot, A!gossipVars,
              B!CheckRound, B!BufferBallot, B!gossipVars
<1>5. ASSUME NEW n \in Node, CastVote(n)
      PROVE  UNCHANGED <<log, storedA, storedB, heardA, heardB>>
  BY <1>5 DEF CastVote, varsA, varsB, A!CastVote, B!CastVote, A!gossipVars, B!gossipVars
<1>6. CASE UNCHANGED vars
  BY <1>6 DEF vars, varsA, varsB
<1>7. CASE Next
  BY <1>0, <1>1, <1>2, <1>3, <1>4, <1>5, <1>7 DEF Next, Proceed
<1> QED BY <1>6, <1>7, <1>0

\* What is known of the log that was put a block.
LEMMA PutEffect ==
  ASSUME CountersType, LogCounts, NEW n \in Node, NEW e \in {"A", "B"}, Put(n, e)
  PROVE  /\ \A m \in Node \ {n} : log'[m] = log[m]
         /\ log' \in [Node -> Seq({"A", "B"})] /\ Len(log[n]) \in Nat
         /\ Len(log'[n]) = Len(log[n]) + 1
         /\ Len(log[n]) + 1 = storedA'[n] + storedB'[n]
         /\ \A i \in 0..Len(log[n]) : /\ CountOf(log'[n], "A", i) = CountOf(log[n], "A", i)
                                      /\ CountOf(log'[n], "B", i) = CountOf(log[n], "B", i)
         /\ CountOf(log'[n], "A", Len(log[n]) + 1) = storedA'[n]
         /\ CountOf(log'[n], "B", Len(log[n]) + 1) = storedB'[n]
<1>1. PICK s \in Seq({"A", "B"}) : s = log[n]
  BY DEF LogCounts
<1>2. PICK k \in Nat : k = Len(s)
  BY <1>1
<1>3. PICK t : t = Append(s, e)
  OBVIOUS
<1>4. t \in Seq({"A", "B"}) /\ Len(t) = k + 1 /\ t[k + 1] = e /\ \A q \in 1..k : t[q] = s[q]
  BY <1>1, <1>2, <1>3
<1>5. log'[n] = t /\ log' \in [Node -> Seq({"A", "B"})] /\ \A m \in Node \ {n} : log'[m] = log[m]
  BY <1>1, <1>3, <1>4 DEF Put, LogCounts
<1>6. /\ \A i \in 0..k : CountOf(t, "A", i) = CountOf(s, "A", i)
      /\ e = "A" => CountOf(t, "A", k + 1) = CountOf(s, "A", k) + 1
      /\ e # "A" => CountOf(t, "A", k + 1) = CountOf(s, "A", k)
  BY <1>4, CountExtended
<1>7. /\ \A i \in 0..k : CountOf(t, "B", i) = CountOf(s, "B", i)
      /\ e = "B" => CountOf(t, "B", k + 1) = CountOf(s, "B", k) + 1
      /\ e # "B" => CountOf(t, "B", k + 1) = CountOf(s, "B", k)
  BY <1>4, CountExtended
<1>8. /\ k = storedA[n] + storedB[n] /\ storedA[n] \in Nat /\ storedB[n] \in Nat
      /\ CountOf(s, "A", k) = storedA[n] /\ CountOf(s, "B", k) = storedB[n]
  BY <1>1, <1>2 DEF LogCounts, CountersType
<1>9. /\ storedA'[n] = IF e = "A" THEN storedA[n] + 1 ELSE storedA[n]
      /\ storedB'[n] = IF e = "B" THEN storedB[n] + 1 ELSE storedB[n]
  BY DEF Put
<1>10. /\ k + 1 = storedA'[n] + storedB'[n]
       /\ CountOf(t, "A", k + 1) = storedA'[n] /\ CountOf(t, "B", k + 1) = storedB'[n]
  <2>1. CASE e = "A"
    BY <2>1, <1>6, <1>7, <1>8, <1>9
  <2>2. CASE e = "B"
    BY <2>2, <1>6, <1>7, <1>8, <1>9
  <2> QED BY <2>1, <2>2
<1> QED BY <1>1, <1>2, <1>4, <1>5, <1>6, <1>7, <1>10

\* The counters tell what the logs hold.
LEMMA LogCountsInit ==
  ASSUME Init PROVE LogCounts
<1>1. /\ log = [n \in Node |-> <<>>]
      /\ \A n \in Node : storedA[n] = 0 /\ storedB[n] = 0
      /\ \A n, o \in Node : heardA[n][o] = 0 /\ heardB[n][o] = 0
  BY DEF Init, A!Init, B!Init
<1>2. CountOf(<<>>, "A", 0) = 0 /\ CountOf(<<>>, "B", 0) = 0
  BY CountSteps
<1> QED BY <1>1, <1>2 DEF LogCounts

LEMMA LogCountsStep ==
  ASSUME CountersType, HeardIsStored, LogCounts, [Next]_vars
  PROVE  LogCounts'
<1>1. CASE UNCHANGED <<log, storedA, storedB, heardA, heardB>>
  BY <1>1 DEF LogCounts
<1>2. ASSUME NEW n \in Node, NEW o \in Node, NEW e \in {"A", "B"}, Took(n, o, e)
      PROVE  LogCounts'
  <2>1. PICK s : s = log[o]
    OBVIOUS
  <2>2. PICK a \in Nat, b \in Nat : a = heardA[n][o] /\ b = heardB[n][o]
    BY DEF CountersType
  <2>3. s[a + b + 1] = e
    BY <1>2, <2>1, <2>2 DEF Took, IsNext
  <2>4. CountOf(s, "A", a + b) = a /\ CountOf(s, "B", a + b) = b
    BY <2>1, <2>2 DEF LogCounts
  <2>5. /\ CountOf(s, "A", a + b + 1) = IF e = "A" THEN a + 1 ELSE a
        /\ CountOf(s, "B", a + b + 1) = IF e = "B" THEN b + 1 ELSE b
    BY <2>3, <2>4, CountSteps
  <2>6. /\ heardA'[n][o] = IF e = "A" THEN a + 1 ELSE a
        /\ heardB'[n][o] = IF e = "B" THEN b + 1 ELSE b
    BY <1>2, <2>2 DEF Took
  <2>7. heardA'[n][o] + heardB'[n][o] = a + b + 1
    BY <2>6
  <2>8. /\ CountOf(log[o], "A", heardA'[n][o] + heardB'[n][o]) = heardA'[n][o]
        /\ CountOf(log[o], "B", heardA'[n][o] + heardB'[n][o]) = heardB'[n][o]
    BY <2>1, <2>5, <2>6, <2>7
  <2>9. ASSUME NEW m \in Node, NEW p \in Node
        PROVE  /\ CountOf(log[p], "A", heardA'[m][p] + heardB'[m][p]) = heardA'[m][p]
               /\ CountOf(log[p], "B", heardA'[m][p] + heardB'[m][p]) = heardB'[m][p]
    <3>1. CASE m = n /\ p = o
      BY <3>1, <2>8
    <3>2. CASE ~(m = n /\ p = o)
      BY <3>2, <1>2 DEF Took, LogCounts
    <3> QED BY <3>1, <3>2
  <2>10. log' = log /\ storedA' = storedA /\ storedB' = storedB
    BY <1>2 DEF Took
  <2> QED BY <2>9, <2>10 DEF LogCounts
<1>3. ASSUME NEW n \in Node, NEW e \in {"A", "B"}, Put(n, e)
      PROVE  LogCounts'
  <2>1. heardA' = heardA /\ heardB' = heardB
        /\ \A m \in Node \ {n} : storedA'[m] = storedA[m] /\ storedB'[m] = storedB[m]
    BY <1>3 DEF Put
  <2>2. log' \in [Node -> Seq({"A", "B"})] /\ \A m \in Node \ {n} : log'[m] = log[m]
    BY <1>3, PutEffect
  <2>3. ASSUME NEW m \in Node
        PROVE  /\ CountOf(log'[n], "A", heardA[m][n] + heardB[m][n]) = heardA[m][n]
               /\ CountOf(log'[n], "B", heardA[m][n] + heardB[m][n]) = heardB[m][n]
    <3>1. heardA[m][n] + heardB[m][n] \in 0..Len(log[n])
      <4>1. /\ heardA[m][n] \in Nat /\ heardB[m][n] \in Nat
            /\ storedA[n] \in Nat /\ storedB[n] \in Nat
        BY DEF CountersType
      <4>2. heardA[m][n] <= storedA[n] /\ heardB[m][n] <= storedB[n]
        BY DEF HeardIsStored
      <4>3. Len(log[n]) = storedA[n] + storedB[n]
        BY DEF LogCounts
      <4> QED BY <4>1, <4>2, <4>3
    <3> QED BY <1>3, <3>1, PutEffect DEF LogCounts
  <2>4. ASSUME NEW p \in Node
        PROVE  /\ Len(log'[p]) = storedA'[p] + storedB'[p]
               /\ CountOf(log'[p], "A", Len(log'[p])) = storedA'[p]
               /\ CountOf(log'[p], "B", Len(log'[p])) = storedB'[p]
               /\ \A m \in Node :
                    /\ CountOf(log'[p], "A", heardA'[m][p] + heardB'[m][p]) = heardA'[m][p]
                    /\ CountOf(log'[p], "B", heardA'[m][p] + heardB'[m][p]) = heardB'[m][p]
    <3>1. CASE p = n
      BY <3>1, <1>3, <2>1, <2>3, PutEffect
    <3>2. CASE p # n
      BY <3>2, <2>1, <2>2 DEF LogCounts
    <3> QED BY <3>1, <3>2
  <2> QED BY <2>2, <2>4 DEF LogCounts
<1> QED BY <1>1, <1>2, <1>3, LogSteps

\* No beginning of a log has more of an election than all of it.
LEMMA StoredBounds ==
  ASSUME NEW s, NEW k \in Nat, NEW q \in 0..k
  PROVE  /\ CountOf(s, "A", q) \in Nat /\ CountOf(s, "A", q) <= CountOf(s, "A", k)
         /\ CountOf(s, "B", q) \in Nat /\ CountOf(s, "B", q) <= CountOf(s, "B", k)
<1>1. q \in Nat /\ q <= k
  OBVIOUS
<1>2. CountOf(s, "A", q) <= CountOf(s, "A", k) /\ CountOf(s, "B", q) <= CountOf(s, "B", k)
  BY <1>1, CountGrows
<1> QED BY <1>1, <1>2, CountSteps

\* While nobody is two blocks ahead in storing, the logs stay alike: what is
\* put last in a log comes when the others hold at most one block more of each
\* election, and for the beginnings of the logs nothing changes.
LEMMA LogsInStepStep ==
  ASSUME CountersType, CountersType', LogCounts, LogCounts', StoredInStep', LogsInStep,
         [Next]_vars
  PROVE  LogsInStep'
<1>1. CASE log' = log
  BY <1>1 DEF LogsInStep, Apart
<1>2. ASSUME NEW n \in Node, NEW e \in {"A", "B"}, Put(n, e)
      PROVE  LogsInStep'
  <2> SUFFICES ASSUME NEW m \in Node, NEW p \in Node, m # p,
                      NEW i \in 0..Len(log'[m]), NEW q \in 0..Len(log'[p])
               PROVE  Apart(m, i, p, q, "A", "B")' /\ Apart(m, i, p, q, "B", "A")'
    BY DEF LogsInStep
  <2>1. PICK k \in Nat : k = Len(log[n])
    BY <1>2, PutEffect
  <2>2. /\ Len(log'[n]) = k + 1
        /\ CountOf(log'[n], "A", k + 1) = storedA'[n] /\ CountOf(log'[n], "B", k + 1) = storedB'[n]
        /\ \A r \in Node \ {n} : log'[r] = log[r]
        /\ \A j \in 0..k : /\ CountOf(log'[n], "A", j) = CountOf(log[n], "A", j)
                           /\ CountOf(log'[n], "B", j) = CountOf(log[n], "B", j)
    BY <1>2, <2>1, PutEffect
  <2>3. /\ storedA'[m] \in Nat /\ storedB'[m] \in Nat
        /\ storedA'[p] \in Nat /\ storedB'[p] \in Nat
        /\ storedA'[p] <= storedA'[m] + 1 /\ storedB'[p] <= storedB'[m] + 1
        /\ storedA'[m] <= storedA'[p] + 1 /\ storedB'[m] <= storedB'[p] + 1
    BY DEF StoredInStep, CountersType
  <2>4. /\ CountOf(log'[p], "A", q) \in Nat /\ CountOf(log'[p], "A", q) <= storedA'[p]
        /\ CountOf(log'[p], "B", q) \in Nat /\ CountOf(log'[p], "B", q) <= storedB'[p]
        /\ CountOf(log'[m], "A", i) \in Nat /\ CountOf(log'[m], "A", i) <= storedA'[m]
        /\ CountOf(log'[m], "B", i) \in Nat /\ CountOf(log'[m], "B", i) <= storedB'[m]
    <3>0. /\ Len(log'[p]) = storedA'[p] + storedB'[p]
          /\ Len(log'[m]) = storedA'[m] + storedB'[m]
      BY DEF LogCounts
    <3>4. Len(log'[p]) \in Nat /\ Len(log'[m]) \in Nat
      BY <2>3, <3>0
    <3>1. /\ CountOf(log'[p], "A", Len(log'[p])) = storedA'[p]
          /\ CountOf(log'[p], "B", Len(log'[p])) = storedB'[p]
          /\ CountOf(log'[m], "A", Len(log'[m])) = storedA'[m]
          /\ CountOf(log'[m], "B", Len(log'[m])) = storedB'[m]
      BY DEF LogCounts
    <3>2. /\ CountOf(log'[p], "A", q) \in Nat
          /\ CountOf(log'[p], "A", q) <= CountOf(log'[p], "A", Len(log'[p]))
          /\ CountOf(log'[p], "B", q) \in Nat
          /\ CountOf(log'[p], "B", q) <= CountOf(log'[p], "B", Len(log'[p]))
      BY <3>4, StoredBounds
    <3>3. /\ CountOf(log'[m], "A", i) \in Nat
          /\ CountOf(log'[m], "A", i) <= CountOf(log'[m], "A", Len(log'[m]))
          /\ CountOf(log'[m], "B", i) \in Nat
          /\ CountOf(log'[m], "B", i) <= CountOf(log'[m], "B", Len(log'[m]))
      BY <3>4, StoredBounds
    <3> QED BY <3>1, <3>2, <3>3
  <2> DEFINE Near(ia, ib, qa, qb) ==
        (ib >= qb + 2 => qa <= ia + 1) /\ (ia >= qa + 2 => qb <= ib + 1)
  <2> SUFFICES Near(CountOf(log'[m], "A", i), CountOf(log'[m], "B", i),
                      CountOf(log'[p], "A", q), CountOf(log'[p], "B", q))
    BY DEF Apart
  <2>5. CASE m = n /\ i = k + 1
    <3>1. CountOf(log'[m], "A", i) = storedA'[m] /\ CountOf(log'[m], "B", i) = storedB'[m]
      BY <2>2, <2>5
    <3> HIDE DEF Near
    <3>2. ASSUME NEW ia \in Nat, NEW ib \in Nat, NEW qa \in Nat, NEW qb \in Nat,
                 ia = CountOf(log'[m], "A", i), ib = CountOf(log'[m], "B", i),
                 qa = CountOf(log'[p], "A", q), qb = CountOf(log'[p], "B", q)
          PROVE  Near(ia, ib, qa, qb)
      <4>1. PICK sa \in Nat, sb \in Nat, ta \in Nat, tb \in Nat :
              sa = storedA'[m] /\ sb = storedB'[m] /\ ta = storedA'[p] /\ tb = storedB'[p]
        BY <2>3
      <4>2. /\ ta <= sa + 1 /\ tb <= sb + 1 /\ sa <= ta + 1 /\ sb <= tb + 1
            /\ ia <= sa /\ ib <= sb /\ qa <= ta /\ qb <= tb
        BY <2>3, <2>4, <3>2, <4>1
      <4>3. ia = sa /\ ib = sb
        BY <3>1, <3>2, <4>1
      <4> QED BY <4>2, <4>3 DEF Near
    <3>3. Near(CountOf(log'[m], "A", i), CountOf(log'[m], "B", i),
               CountOf(log'[p], "A", q), CountOf(log'[p], "B", q))
      BY <2>4, <3>2
    <3> QED BY <3>3
  <2>6. CASE p = n /\ q = k + 1
    <3>1. CountOf(log'[p], "A", q) = storedA'[p] /\ CountOf(log'[p], "B", q) = storedB'[p]
      BY <2>2, <2>6
    <3> HIDE DEF Near
    <3>2. ASSUME NEW ia \in Nat, NEW ib \in Nat, NEW qa \in Nat, NEW qb \in Nat,
                 ia = CountOf(log'[m], "A", i), ib = CountOf(log'[m], "B", i),
                 qa = CountOf(log'[p], "A", q), qb = CountOf(log'[p], "B", q)
          PROVE  Near(ia, ib, qa, qb)
      <4>1. PICK sa \in Nat, sb \in Nat, ta \in Nat, tb \in Nat :
              sa = storedA'[m] /\ sb = storedB'[m] /\ ta = storedA'[p] /\ tb = storedB'[p]
        BY <2>3
      <4>2. /\ ta <= sa + 1 /\ tb <= sb + 1 /\ sa <= ta + 1 /\ sb <= tb + 1
            /\ ia <= sa /\ ib <= sb /\ qa <= ta /\ qb <= tb
        BY <2>3, <2>4, <3>2, <4>1
      <4>3. qa = ta /\ qb = tb
        BY <3>1, <3>2, <4>1
      <4> QED BY <4>2, <4>3 DEF Near
    <3>3. Near(CountOf(log'[m], "A", i), CountOf(log'[m], "B", i),
               CountOf(log'[p], "A", q), CountOf(log'[p], "B", q))
      BY <2>4, <3>2
    <3> QED BY <3>3
  <2>7. CASE ~(m = n /\ i = k + 1) /\ ~(p = n /\ q = k + 1)
    <3>1. i \in 0..Len(log[m]) /\ q \in 0..Len(log[p])
      BY <2>1, <2>2, <2>7
    <3>2. /\ CountOf(log'[m], "A", i) = CountOf(log[m], "A", i)
          /\ CountOf(log'[m], "B", i) = CountOf(log[m], "B", i)
          /\ CountOf(log'[p], "A", q) = CountOf(log[p], "A", q)
          /\ CountOf(log'[p], "B", q) = CountOf(log[p], "B", q)
      BY <2>1, <2>2, <3>1
    <3>3. Apart(m, i, p, q, "A", "B") /\ Apart(m, i, p, q, "B", "A")
      BY <3>1 DEF LogsInStep
    <3>4. Near(CountOf(log[m], "A", i), CountOf(log[m], "B", i),
               CountOf(log[p], "A", q), CountOf(log[p], "B", q))
      BY <3>3 DEF Apart
    <3> QED BY <3>2, <3>4
  <2> QED BY <2>5, <2>6, <2>7
<1>3. ASSUME NEW n \in Node, NEW o \in Node, NEW e \in {"A", "B"}, Took(n, o, e)
      PROVE  LogsInStep'
  BY <1>1, <1>3 DEF Took
<1> QED BY <1>1, <1>2, <1>3, LogSteps

\* What the elections guarantee one by one suffices for the logs.
LEMMA LogFacts ==
  ASSUME A!Deployed, PA!IInv, PB!IInv
  PROVE  CountersType /\ HeardIsStored /\ StoredInStep
<1>1. PA!ConstantsAssumption /\ PB!ConstantsAssumption
  BY SameDeployment
<1>2. CountersType
  BY DEF CountersType, PA!IInv, PA!TypeOK, PB!IInv, PB!TypeOK
<1>3. HeardIsStored
  BY DEF HeardIsStored, PA!IInv, PA!RoundInv, PA!HeardInTime, PB!IInv, PB!RoundInv, PB!HeardInTime
<1>4. StoredInStep
  BY <1>1, PA!StoredInLockstep, PB!StoredInLockstep DEF StoredInStep
<1> QED BY <1>2, <1>3, <1>4

\* Logs that hold nothing are alike.
LEMMA LogsInStepInit ==
  ASSUME Init PROVE LogsInStep
<1>1. ASSUME NEW m \in Node, NEW i \in 0..Len(log[m])
      PROVE  CountOf(log[m], "A", i) = 0 /\ CountOf(log[m], "B", i) = 0
  <2>1. log[m] = <<>> /\ i = 0
    BY DEF Init
  <2> QED BY <2>1, CountSteps
<1> QED BY <1>1 DEF LogsInStep, Apart

\* Invariance of each election's inductive invariant, beside the other.
LEMMA EachIsInvariant ==
  ASSUME A!Deployed PROVE Spec => [](PA!IInv /\ PB!IInv)
<1>1. (PA!Spec => []PA!IInv) /\ (PB!Spec => []PB!IInv)
  BY SameDeployment, PA!Invariance, PB!Invariance
<1> QED BY <1>1, EachIsProved, PTL

\* Two gossipers never store the blocks of the two elections in very different
\* orders: where the one stored two blocks of an election fewer, it had stored
\* at most one of the other election more.
THEOREM LogsStayInStep ==
  ASSUME A!Deployed PROVE Spec => [](LogCounts /\ LogsInStep)
<1>1. Init => LogCounts /\ LogsInStep
  BY LogCountsInit, LogsInStepInit
<1>2. PA!IInv /\ PB!IInv => CountersType /\ HeardIsStored /\ StoredInStep
  BY LogFacts
<1>3. /\ CountersType /\ HeardIsStored /\ StoredInStep
      /\ CountersType' /\ StoredInStep'
      /\ LogCounts /\ LogsInStep
      /\ [Next]_vars
      => LogCounts' /\ LogsInStep'
  BY LogCountsStep, LogsInStepStep
<1> QED BY <1>1, <1>2, <1>3, EachIsInvariant, PTL DEF Spec
-----------------------------------------------------------------------------
(* Two elections that wait for each other *)

\* What is left of an election in which nobody goes on: the gossipers C have
\* stored the proposal of their round and miss another's, the others have none
\* and have heard none.  id is nextId, s is stored and h is heard.
Waiting(id, s, h, C) ==
  /\ id \in [Node -> Nat] /\ s \in [Node -> Nat] /\ h \in [Node -> [Node -> Nat]]
  /\ \A n \in Node : s[n] = IF n \in C THEN id[n] ELSE id[n] - 1
  /\ \A n, o \in Node : /\ h[n][o] <= s[o] /\ h[n][o] <= id[n]
                        /\ n # o => id[n] - 1 <= h[n][o]
  /\ \A n \in C : \E m \in Node \ {n} : h[n][m] < id[n]
  /\ \A n \in Node \ C : \A m \in Node \ {n} : h[n][m] < id[n]

\* The gossipers of X do not take from the other the block that is next, as its
\* round lies in the future of their election.
Refused(id, s, h, X) ==
  \A n, o \in Node : <<n, o>> \in X => h[n][o] < s[o] /\ h[n][o] = id[n]

\* A stored block that has not been taken leaves its gossipers in Z.
Offered(t, g, Z) ==
  \A n, o \in Node : n # o /\ g[n][o] < t[o] => <<n, o>> \in Z

\* Where the next block of m is refused for one election, and that of p for the
\* other, the log of m is not ahead of that of p in the former election alone.
InStep(h, g, X, Y) ==
  \A n, m, p \in Node :
    m # p /\ <<n, m>> \in Y /\ <<n, p>> \in X /\ g[n][m] >= g[n][p] + 1 => h[n][p] <= h[n][m]

\* What has been counted of two gossipers of an election that waits.
LEMMA WaitingFacts ==
  ASSUME NEW id, NEW s, NEW h, NEW C, Waiting(id, s, h, C), NEW n \in Node, NEW m \in Node, n # m
  PROVE  /\ id[n] \in Nat /\ id[m] \in Nat /\ s[n] \in Nat /\ s[m] \in Nat
         /\ h[n][m] \in Nat /\ h[m][n] \in Nat
         /\ s[n] <= id[n] /\ s[m] <= id[m]
         /\ s[n] >= id[n] => n \in C
         /\ h[n][m] <= s[m] /\ h[n][m] <= id[n] /\ id[n] <= h[n][m] + 1
         /\ h[m][n] <= s[n] /\ h[m][n] <= id[m] /\ id[m] <= h[m][n] + 1
<1>1. /\ id[n] \in Nat /\ id[m] \in Nat /\ s[n] \in Nat /\ s[m] \in Nat
      /\ h[n][m] \in Nat /\ h[m][n] \in Nat
  BY DEF Waiting
<1>2. /\ s[n] = IF n \in C THEN id[n] ELSE id[n] - 1
      /\ s[m] = IF m \in C THEN id[m] ELSE id[m] - 1
  BY DEF Waiting
<1>3. /\ h[n][m] <= s[m] /\ h[n][m] <= id[n] /\ id[n] - 1 <= h[n][m]
      /\ h[m][n] <= s[n] /\ h[m][n] <= id[m] /\ id[m] - 1 <= h[m][n]
  BY DEF Waiting
<1> QED BY <1>1, <1>2, <1>3

\* A gossiper that refuses the next block of another collects in the election
\* of that block, and misses the proposal of a third there, whose next block it
\* refuses for the other election.
LEMMA RefuserWaits ==
  ASSUME NEW jd, NEW t, NEW g, NEW D, Waiting(jd, t, g, D),
         NEW X, NEW Y, Refused(jd, t, g, Y), Offered(t, g, X \cup Y),
         NEW n \in Node, NEW m \in Node, n # m, <<n, m>> \in Y
  PROVE  \E p \in Node \ {n, m} : <<n, p>> \in X /\ g[n][m] >= g[n][p] + 1
<1>1. g[n][m] < t[m] /\ g[n][m] = jd[n]
  BY DEF Refused
<1>2. jd[m] >= jd[n] + 1 /\ t[n] >= jd[n]
  BY <1>1, WaitingFacts
<1>3. n \in D
  BY <1>2, WaitingFacts
<1>4. PICK p \in Node \ {n} : g[n][p] < jd[n]
  BY <1>3 DEF Waiting
<1>5. p # m /\ g[n][m] >= g[n][p] + 1
  BY <1>1, <1>4, WaitingFacts
<1>6. t[p] >= jd[n]
  <2>1. /\ t[p] \in Nat /\ g[m][p] \in Nat /\ jd[m] \in Nat /\ jd[n] \in Nat
        /\ g[m][p] <= t[p] /\ jd[m] <= g[m][p] + 1
    BY <1>5, WaitingFacts
  <2> QED BY <2>1, <1>2
<1>7. /\ t[p] \in Nat /\ g[n][p] \in Nat /\ jd[n] \in Nat
  BY WaitingFacts
<1>8. g[n][p] < t[p] /\ g[n][p] # jd[n]
  BY <1>4, <1>6, <1>7
<1>9. <<n, p>> \in X \cup Y /\ <<n, p>> \notin Y
  BY <1>8 DEF Refused, Offered
<1> QED BY <1>5, <1>9

\* Then nobody collects in either.
LEMMA NobodyCollects ==
  ASSUME NEW id, NEW s, NEW h, NEW C, Waiting(id, s, h, C), C \subseteq Node,
         NEW jd, NEW t, NEW g, NEW D, Waiting(jd, t, g, D),
         NEW X, NEW Y, Refused(id, s, h, X), Refused(jd, t, g, Y), InStep(h, g, X, Y),
         Offered(s, h, X \cup Y), Offered(t, g, X \cup Y)
  PROVE  C = {}
<1> SUFFICES ASSUME NEW c \in C PROVE FALSE
  OBVIOUS
<1>1. PICK n \in C : \A m \in C : id[n] <= id[m]
  <2>1. ASSUME NEW p \in C, NEW q \in C PROVE id[p] <= id[q] + 1 /\ id[p] \in Nat
    <3>1. p # q => id[p] <= h[p][q] + 1 /\ h[p][q] <= s[q] /\ s[q] <= id[q]
                   /\ h[p][q] \in Nat /\ s[q] \in Nat
      BY WaitingFacts
    <3>2. id[p] \in Nat /\ id[q] \in Nat
      BY DEF Waiting
    <3> QED BY <3>1, <3>2
  <2>2. CASE \E q \in C : id[q] < id[c]
    BY <2>1, <2>2
  <2>3. CASE ~\E q \in C : id[q] < id[c]
    BY <2>1, <2>3
  <2> QED BY <2>2, <2>3
<1>2. PICK m \in Node \ {n} : h[n][m] < id[n]
  BY DEF Waiting
<1>3. s[n] = id[n] /\ n \in Node
  BY DEF Waiting
<1>4. CASE s[m] >= id[n]
  <2>1. h[n][m] < s[m] /\ h[n][m] # id[n]
    BY <1>2, <1>3, <1>4, WaitingFacts
  <2>2. <<n, m>> \in Y
    BY <1>3, <2>1 DEF Refused, Offered
  <2>3. PICK p \in Node \ {n, m} : <<n, p>> \in X /\ g[n][m] >= g[n][p] + 1
    BY <1>3, <2>2, RefuserWaits
  <2>4. h[n][p] <= h[n][m]
    BY <1>3, <2>2, <2>3 DEF InStep
  <2>5. h[n][p] = id[n]
    BY <1>3, <2>3 DEF Refused
  <2> QED BY <1>2, <1>3, <2>4, <2>5, WaitingFacts
<1>5. CASE s[m] < id[n]
  <2>1. id[m] \in Nat /\ s[m] \in Nat /\ id[n] \in Nat /\ id[n] <= s[m] + 1
    BY <1>3, WaitingFacts
  <2>2. m \notin C
    <3>1. m \in C => s[m] = id[m] /\ id[n] <= id[m]
      BY <1>1 DEF Waiting
    <3> QED BY <3>1, <2>1, <1>5
  <2>3. s[m] = id[m] - 1 /\ h[m][n] < id[m]
    BY <1>3, <2>2 DEF Waiting
  <2>4. id[m] = id[n]
    BY <1>5, <2>1, <2>3
  <2>5. h[m][n] < s[n] /\ h[m][n] # id[m]
    BY <1>3, <2>3, <2>4, WaitingFacts
  <2>6. <<m, n>> \in Y
    BY <1>3, <2>5 DEF Refused, Offered
  <2>7. PICK p \in Node \ {m, n} : <<m, p>> \in X /\ g[m][n] >= g[m][p] + 1
    BY <1>2, <1>3, <2>6, RefuserWaits
  <2>8. h[m][p] < s[p] /\ h[m][p] = id[m]
    BY <2>7 DEF Refused
  <2>9. /\ h[p][m] <= s[m] /\ id[p] <= h[p][m] + 1 /\ s[p] <= id[p]
        /\ h[p][m] \in Nat /\ id[p] \in Nat /\ s[p] \in Nat
    BY WaitingFacts
  <2> QED BY <2>1, <2>3, <2>8, <2>9
<1> QED BY <1>3, <1>4, <1>5, WaitingFacts
-----------------------------------------------------------------------------
(* The standstill *)

\* The next block of o, as IsNext finds it.
LEMMA NextBlocks ==
  ASSUME CountersType, HeardIsStored, LogCounts, NEW n \in Node, NEW o \in Node
  PROVE  LET k == heardA[n][o] + heardB[n][o]
         IN  /\ IsNext(n, o, "A") =>
                  /\ k + 1 \in 0..Len(log[o]) /\ heardA[n][o] < storedA[o]
                  /\ CountOf(log[o], "A", k + 1) = heardA[n][o] + 1
                  /\ CountOf(log[o], "B", k + 1) = heardB[n][o]
             /\ IsNext(n, o, "B") =>
                  /\ k + 1 \in 0..Len(log[o]) /\ heardB[n][o] < storedB[o]
                  /\ CountOf(log[o], "A", k + 1) = heardA[n][o]
                  /\ CountOf(log[o], "B", k + 1) = heardB[n][o] + 1
             /\ heardA[n][o] < storedA[o] \/ heardB[n][o] < storedB[o] =>
                  IsNext(n, o, "A") \/ IsNext(n, o, "B")
<1>1. PICK s : s = log[o]
  OBVIOUS
<1>2. PICK a \in Nat, b \in Nat, c \in Nat, d \in Nat :
        a = heardA[n][o] /\ b = heardB[n][o] /\ c = storedA[o] /\ d = storedB[o]
  BY DEF CountersType
<1>3. a <= c /\ b <= d
  BY <1>2 DEF HeardIsStored
<1>4. /\ Len(s) = c + d
      /\ CountOf(s, "A", c + d) = c /\ CountOf(s, "B", c + d) = d
      /\ CountOf(s, "A", a + b) = a /\ CountOf(s, "B", a + b) = b
  BY <1>1, <1>2 DEF LogCounts
<1>5. /\ CountOf(s, "A", a + b + 1) = IF s[a + b + 1] = "A" THEN a + 1 ELSE a
      /\ CountOf(s, "B", a + b + 1) = IF s[a + b + 1] = "B" THEN b + 1 ELSE b
  <2>1. PICK k \in Nat : k = a + b
    OBVIOUS
  <2>2. CountOf(s, "A", k) = a /\ CountOf(s, "B", k) = b
    BY <1>4, <2>1
  <2>3. /\ CountOf(s, "A", k + 1) = IF s[k + 1] = "A" THEN a + 1 ELSE a
        /\ CountOf(s, "B", k + 1) = IF s[k + 1] = "B" THEN b + 1 ELSE b
    BY <2>2, CountSteps
  <2> QED BY <2>1, <2>3
<1>6. a + b + 1 <= c + d =>
        CountOf(s, "A", a + b + 1) <= c /\ CountOf(s, "B", a + b + 1) <= d
  <2> SUFFICES ASSUME a + b + 1 <= c + d
               PROVE  CountOf(s, "A", a + b + 1) <= c /\ CountOf(s, "B", a + b + 1) <= d
    OBVIOUS
  <2>1. a + b + 1 \in 0..(c + d) /\ c + d \in Nat
    OBVIOUS
  <2>2. /\ CountOf(s, "A", a + b + 1) <= CountOf(s, "A", c + d)
        /\ CountOf(s, "B", a + b + 1) <= CountOf(s, "B", c + d)
    BY <2>1, StoredBounds
  <2> QED BY <2>2, <1>4
<1>7. IsNext(n, o, "A") <=> a + b + 1 <= c + d /\ s[a + b + 1] = "A"
  BY <1>1, <1>2, <1>4 DEF IsNext
<1>8. IsNext(n, o, "B") <=> a + b + 1 <= c + d /\ s[a + b + 1] = "B"
  BY <1>1, <1>2, <1>4 DEF IsNext
<1>9. ASSUME IsNext(n, o, "A")
      PROVE  /\ a + b + 1 \in 0..(c + d) /\ a < c
             /\ CountOf(s, "A", a + b + 1) = a + 1 /\ CountOf(s, "B", a + b + 1) = b
  <2>1. s[a + b + 1] = "A" /\ a + b + 1 <= c + d
    BY <1>7, <1>9
  <2> QED BY <2>1, <1>5, <1>6
<1>10. ASSUME IsNext(n, o, "B")
       PROVE  /\ a + b + 1 \in 0..(c + d) /\ b < d
              /\ CountOf(s, "A", a + b + 1) = a /\ CountOf(s, "B", a + b + 1) = b + 1
  <2>1. s[a + b + 1] = "B" /\ a + b + 1 <= c + d
    BY <1>8, <1>10
  <2> QED BY <2>1, <1>5, <1>6
<1>11. ASSUME a < c \/ b < d PROVE IsNext(n, o, "A") \/ IsNext(n, o, "B")
  <2>1. a + b + 1 <= c + d
    BY <1>3, <1>11
  <2>2. s[a + b + 1] \in {"A", "B"}
    <3>1. s \in Seq({"A", "B"}) /\ a + b + 1 \in 1..Len(s)
      BY <1>1, <1>4, <2>1 DEF LogCounts
    <3> QED BY <3>1
  <2> QED BY <1>7, <1>8, <2>1, <2>2
<1> QED BY <1>1, <1>2, <1>4, <1>9, <1>10, <1>11

\* The pairs of gossipers of which the first is offered a block of the second.
Offers(e) == {x \in Node \X Node : x[1] # x[2] /\ IsNext(x[1], x[2], e)}

\* In a standstill all are waiting, in both elections.
LEMMA WaitingA ==
  ASSUME A!Deployed, A!EnoughFitness, PA!IInv, PA!WaitInv, PA!MarkedIsKept,
         CountersType, HeardIsStored, LogCounts, Standstill
  PROVE  /\ Waiting(nextIdA, storedA, heardA, {n \in Node : pcA[n] = "collect"})
         /\ Refused(nextIdA, storedA, heardA, Offers("A"))
<1>1. PA!ConstantsAssumption /\ PA!Deployed /\ PA!EnoughFitness
  BY SameDeployment
     DEF A!EnoughFitness, PA!EnoughFitness, A!IsFiniteSet, PA!IsFiniteSet, A!Cardinality, PA!Cardinality
<1>2. \A n \in Node : PA!Halted(n)
  BY DEF Standstill, A!Halted, PA!Halted, A!Proposable, PA!Proposable, A!Drawn, PA!Drawn
<1>3. ASSUME NEW n \in Node, NEW o \in Node, <<n, o>> \in Offers("A")
      PROVE  heardA[n][o] < storedA[o] /\ heardA[n][o] = nextIdA[n]
  <2>1. n # o /\ IsNext(n, o, "A")
    BY <1>3 DEF Offers
  <2>2. heardA[n][o] < storedA[o]
    BY <2>1, NextBlocks
  <2>3. ~PA!Welcome(n, o)
    BY <2>1 DEF Standstill, A!Welcome, PA!Welcome
  <2> QED BY <1>1, <2>2, <2>3, PA!NotWelcome
<1>4. /\ nextIdA \in [Node -> Nat] /\ storedA \in [Node -> Nat]
      /\ heardA \in [Node -> [Node -> Nat]]
  BY DEF PA!IInv, PA!TypeOK
<1>5. \A n, o \in Node : /\ heardA[n][o] <= storedA[o] /\ heardA[n][o] <= nextIdA[n]
                         /\ n # o => nextIdA[n] - 1 <= heardA[n][o]
  BY DEF PA!IInv, PA!RoundInv, PA!HeardInTime
<1>6. \A n \in Node :
        /\ storedA[n] = IF pcA[n] = "collect" THEN nextIdA[n] ELSE nextIdA[n] - 1
        /\ pcA[n] = "collect" => \E m \in Node \ {n} : heardA[n][m] < nextIdA[n]
        /\ pcA[n] # "collect" => \A m \in Node \ {n} : heardA[n][m] < nextIdA[n]
  BY <1>1, <1>2, PA!HaltedGossiper
<1> QED BY <1>3, <1>4, <1>5, <1>6 DEF Waiting, Refused

\* ... and in the other.
LEMMA WaitingB ==
  ASSUME A!Deployed, A!EnoughFitness, PB!IInv, PB!WaitInv, PB!MarkedIsKept,
         CountersType, HeardIsStored, LogCounts, Standstill
  PROVE  /\ Waiting(nextIdB, storedB, heardB, {n \in Node : pcB[n] = "collect"})
         /\ Refused(nextIdB, storedB, heardB, Offers("B"))
<1>1. PB!ConstantsAssumption /\ PB!Deployed /\ PB!EnoughFitness
  BY SameDeployment
     DEF A!EnoughFitness, PB!EnoughFitness, A!IsFiniteSet, PB!IsFiniteSet, A!Cardinality, PB!Cardinality
<1>2. \A n \in Node : PB!Halted(n)
  BY DEF Standstill, B!Halted, PB!Halted, B!Proposable, PB!Proposable, B!Drawn, PB!Drawn
<1>3. ASSUME NEW n \in Node, NEW o \in Node, <<n, o>> \in Offers("B")
      PROVE  heardB[n][o] < storedB[o] /\ heardB[n][o] = nextIdB[n]
  <2>1. n # o /\ IsNext(n, o, "B")
    BY <1>3 DEF Offers
  <2>2. heardB[n][o] < storedB[o]
    BY <2>1, NextBlocks
  <2>3. ~PB!Welcome(n, o)
    BY <2>1 DEF Standstill, B!Welcome, PB!Welcome
  <2> QED BY <1>1, <2>2, <2>3, PB!NotWelcome
<1>4. /\ nextIdB \in [Node -> Nat] /\ storedB \in [Node -> Nat]
      /\ heardB \in [Node -> [Node -> Nat]]
  BY DEF PB!IInv, PB!TypeOK
<1>5. \A n, o \in Node : /\ heardB[n][o] <= storedB[o] /\ heardB[n][o] <= nextIdB[n]
                         /\ n # o => nextIdB[n] - 1 <= heardB[n][o]
  BY DEF PB!IInv, PB!RoundInv, PB!HeardInTime
<1>6. \A n \in Node :
        /\ storedB[n] = IF pcB[n] = "collect" THEN nextIdB[n] ELSE nextIdB[n] - 1
        /\ pcB[n] = "collect" => \E m \in Node \ {n} : heardB[n][m] < nextIdB[n]
        /\ pcB[n] # "collect" => \A m \in Node \ {n} : heardB[n][m] < nextIdB[n]
  BY <1>1, <1>2, PB!HaltedGossiper
<1> QED BY <1>3, <1>4, <1>5, <1>6 DEF Waiting, Refused

\* Whose next blocks are refused is decided by their rounds and the logs.
LEMMA OffersInStep ==
  ASSUME CountersType, HeardIsStored, LogCounts, LogsInStep
  PROVE  /\ InStep(heardA, heardB, Offers("A"), Offers("B"))
         /\ InStep(heardB, heardA, Offers("B"), Offers("A"))
         /\ Offered(storedA, heardA, Offers("A") \cup Offers("B"))
         /\ Offered(storedB, heardB, Offers("A") \cup Offers("B"))
<1>1. \A n, o \in Node : \A e \in {"A", "B"} :
        <<n, o>> \in Offers(e) <=> n # o /\ IsNext(n, o, e)
  BY DEF Offers
<1>2. ASSUME NEW n \in Node, NEW m \in Node, NEW p \in Node, m # p,
             IsNext(n, m, "B"), IsNext(n, p, "A")
      PROVE  /\ heardB[n][m] >= heardB[n][p] + 1 => heardA[n][p] <= heardA[n][m]
             /\ heardA[n][p] >= heardA[n][m] + 1 => heardB[n][m] <= heardB[n][p]
  <2>1. PICK a \in Nat, b \in Nat, c \in Nat, d \in Nat :
          a = heardA[n][m] /\ b = heardB[n][m] /\ c = heardA[n][p] /\ d = heardB[n][p]
    BY DEF CountersType
  <2>2. /\ a + b + 1 \in 0..Len(log[m])
        /\ CountOf(log[m], "A", a + b + 1) = a /\ CountOf(log[m], "B", a + b + 1) = b + 1
    BY <1>2, <2>1, NextBlocks
  <2>3. /\ c + d + 1 \in 0..Len(log[p])
        /\ CountOf(log[p], "A", c + d + 1) = c + 1 /\ CountOf(log[p], "B", c + d + 1) = d
    BY <1>2, <2>1, NextBlocks
  <2>4. /\ Apart(m, a + b + 1, p, c + d + 1, "A", "B")
        /\ Apart(p, c + d + 1, m, a + b + 1, "B", "A")
    BY <1>2, <2>2, <2>3 DEF LogsInStep
  <2>5. /\ b + 1 >= d + 2 => c + 1 <= a + 1
        /\ c + 1 >= a + 2 => b + 1 <= d + 1
    BY <2>2, <2>3, <2>4 DEF Apart
  <2> QED BY <2>1, <2>5
<1>3. InStep(heardA, heardB, Offers("A"), Offers("B"))
  BY <1>1, <1>2 DEF InStep
<1>4. InStep(heardB, heardA, Offers("B"), Offers("A"))
  BY <1>1, <1>2 DEF InStep
<1>5. /\ Offered(storedA, heardA, Offers("A") \cup Offers("B"))
      /\ Offered(storedB, heardB, Offers("A") \cup Offers("B"))
  BY <1>1, NextBlocks DEF Offered
<1> QED BY <1>3, <1>4, <1>5

\* The two elections come to a standstill only when all is recorded: that the
\* shared logs hold back the blocks of one behind those of the other, which may
\* wait for a round, never stops both for good.
THEOREM StandstillIsTheEnd ==
  ASSUME A!Deployed, A!EnoughFitness PROVE Spec => []RestsWhenRecorded
<1>1. PA!ConstantsAssumption /\ PA!Deployed /\ PB!ConstantsAssumption /\ PB!Deployed
  BY SameDeployment
<1>2. /\ PA!Spec => [](PA!WaitInv /\ PA!MarkedIsKept /\ PA!CastIsKept)
      /\ PB!Spec => [](PB!WaitInv /\ PB!MarkedIsKept /\ PB!CastIsKept)
  <2>1. /\ PA!Spec => []PA!WaitInv
        /\ PA!Spec => []PA!MarkedIsKept
        /\ PA!Spec => []PA!CastIsKept
    BY <1>1, PA!NothingHeardIsForgotten, PA!MarkedVotersAreKept, PA!CastBallotsAreKept
  <2>2. /\ PB!Spec => []PB!WaitInv
        /\ PB!Spec => []PB!MarkedIsKept
        /\ PB!Spec => []PB!CastIsKept
    BY <1>1, PB!NothingHeardIsForgotten, PB!MarkedVotersAreKept, PB!CastBallotsAreKept
  <2> QED BY <2>1, <2>2, PTL
<1>3. ASSUME PA!IInv, PA!WaitInv, PA!MarkedIsKept, PA!CastIsKept,
             PB!IInv, PB!WaitInv, PB!MarkedIsKept, PB!CastIsKept,
             LogCounts, LogsInStep, Standstill
      PROVE  A!CastIsRecorded /\ B!CastIsRecorded
  <2> DEFINE CA == {n \in Node : pcA[n] = "collect"}
             CB == {n \in Node : pcB[n] = "collect"}
  <2>1. CountersType /\ HeardIsStored
    BY <1>3, LogFacts
  <2>2. /\ Waiting(nextIdA, storedA, heardA, CA) /\ Refused(nextIdA, storedA, heardA, Offers("A"))
        /\ Waiting(nextIdB, storedB, heardB, CB) /\ Refused(nextIdB, storedB, heardB, Offers("B"))
    BY <1>3, <2>1, WaitingA, WaitingB
  <2>3. CA \subseteq Node /\ CB \subseteq Node
    OBVIOUS
  <2> HIDE DEF CA, CB
  <2>4. CA = {}
    BY <1>3, <2>1, <2>2, <2>3, OffersInStep, NobodyCollects
  <2>5. CB = {}
    <3>1. Offers("A") \cup Offers("B") = Offers("B") \cup Offers("A")
      OBVIOUS
    <3> QED BY <3>1, <1>3, <2>1, <2>2, <2>3, OffersInStep, NobodyCollects
  <2>6. PA!EnoughFitness /\ PB!EnoughFitness
    BY DEF A!EnoughFitness, PA!EnoughFitness, PB!EnoughFitness, A!IsFiniteSet, PA!IsFiniteSet,
           PB!IsFiniteSet, A!Cardinality, PA!Cardinality, PB!Cardinality
  <2>7. ASSUME NEW n \in Node
        PROVE  /\ pcA[n] = "pick" /\ bufferA[n] = <<>> /\ storedA[n] = nextIdA[n] - 1
               /\ pcB[n] = "pick" /\ bufferB[n] = <<>> /\ storedB[n] = nextIdB[n] - 1
    <3>1. PA!Halted(n) /\ PB!Halted(n)
      BY <1>3 DEF Standstill, A!Halted, PA!Halted, A!Proposable, PA!Proposable, A!Drawn, PA!Drawn,
                  B!Halted, PB!Halted, B!Proposable, PB!Proposable, B!Drawn, PB!Drawn
    <3>2. pcA[n] # "collect" /\ pcB[n] # "collect"
      BY <2>4, <2>5 DEF CA, CB
    <3>3. pcA[n] = "pick" /\ bufferA[n] = <<>> /\ storedA[n] = nextIdA[n] - 1
      BY <1>1, <1>3, <2>6, <3>1, <3>2, PA!HaltedGossiper
    <3>4. pcB[n] = "pick" /\ bufferB[n] = <<>> /\ storedB[n] = nextIdB[n] - 1
      BY <1>1, <1>3, <2>6, <3>1, <3>2, PB!HaltedGossiper
    <3> QED BY <3>3, <3>4
  <2>8. PA!CastIsRecorded
    BY <1>1, <1>3, <2>7, PA!AllIsRecorded
  <2>9. PB!CastIsRecorded
    BY <1>1, <1>3, <2>7, PB!AllIsRecorded
  <2> QED BY <2>8, <2>9 DEF A!CastIsRecorded, PA!CastIsRecorded, B!CastIsRecorded, PB!CastIsRecorded
<1>4. /\ PA!IInv /\ PA!WaitInv /\ PA!MarkedIsKept /\ PA!CastIsKept
      /\ PB!IInv /\ PB!WaitInv /\ PB!MarkedIsKept /\ PB!CastIsKept
      /\ LogCounts /\ LogsInStep
      => RestsWhenRecorded
  BY <1>3 DEF RestsWhenRecorded
<1> QED BY <1>2, <1>4, EachIsProved, EachIsInvariant, LogsStayInStep, PTL
-----------------------------------------------------------------------------
(* Both elections end. *)

\* In no election does anybody but n, in election A, have more or less to do.
OnlyInA(n) == /\ \A m \in Node \ {n} : PA!Left(m)' = PA!Left(m)
              /\ \A m \in Node : PB!Left(m)' = PB!Left(m)
OnlyInB(n) == /\ \A m \in Node \ {n} : PB!Left(m)' = PB!Left(m)
              /\ \A m \in Node : PA!Left(m)' = PA!Left(m)

\* A step that no client takes leaves a gossiper less to do in an election, and
\* nobody more; a vote adds one at most.
WorkIsUsedUp ==
  /\ Proceed => \E n \in Node : \/ OnlyInA(n) /\ PA!Left(n)' < PA!Left(n)
                                \/ OnlyInB(n) /\ PB!Left(n)' < PB!Left(n)
  /\ \A n \in Node : CastVote(n) => \/ OnlyInA(n) /\ PA!Left(n)' <= PA!Left(n) + 1
                                    \/ OnlyInB(n) /\ PB!Left(n)' <= PB!Left(n) + 1

\* The steps of one election are nothing to the work of the other.
LEMMA OtherWork ==
  ASSUME NEW m \in Node
  PROVE  /\ UNCHANGED varsA => PA!Left(m)' = PA!Left(m)
         /\ UNCHANGED varsB => PB!Left(m)' = PB!Left(m)
<1>1. ASSUME UNCHANGED varsA PROVE PA!Left(m)' = PA!Left(m)
  <2>1. UNCHANGED <<pcA, nextIdA, storedA, heardA, handlersA, bufferA>>
    BY <1>1 DEF varsA
  <2>2. PA!RoundWork(m)' = PA!RoundWork(m) /\ PA!SendWork(m)' = PA!SendWork(m)
    BY <2>1 DEF PA!RoundWork, PA!SendWork, PA!Phases
  <2>3. PA!ReceiveWork(m)' = PA!ReceiveWork(m)
    BY <2>1 DEF PA!ReceiveWork, PA!Handles, PA!StepsLeft
  <2>4. PA!Work(m)' = PA!Work(m)
    BY <2>2, <2>3 DEF PA!Work
  <2> QED BY <2>1, <2>4 DEF PA!Left
<1>2. ASSUME UNCHANGED varsB PROVE PB!Left(m)' = PB!Left(m)
  <2>1. UNCHANGED <<pcB, nextIdB, storedB, heardB, handlersB, bufferB>>
    BY <1>2 DEF varsB
  <2>2. PB!RoundWork(m)' = PB!RoundWork(m) /\ PB!SendWork(m)' = PB!SendWork(m)
    BY <2>1 DEF PB!RoundWork, PB!SendWork, PB!Phases
  <2>3. PB!ReceiveWork(m)' = PB!ReceiveWork(m)
    BY <2>1 DEF PB!ReceiveWork, PB!Handles, PB!StepsLeft
  <2>4. PB!Work(m)' = PB!Work(m)
    BY <2>2, <2>3 DEF PB!Work
  <2> QED BY <2>1, <2>4 DEF PB!Left
<1> QED BY <1>1, <1>2

\* What election A does alone uses up work of election A.
LEMMA UsesOfA ==
  ASSUME A!Deployed, IsFiniteSet(PA!AllVoters), PA!IInv, PA!RoundsCounted, NEW n \in Node,
         UNCHANGED varsB
  PROVE  /\ PA!Works(n) => OnlyInA(n) /\ PA!Left(n)' < PA!Left(n)
         /\ PA!CastVote(n) => OnlyInA(n) /\ PA!Left(n)' <= PA!Left(n) + 1
<1>1. PA!ConstantsAssumption /\ PA!Deployed
  BY SameDeployment
<1>2. PA!IsFiniteSet(PA!AllVoters)
  BY DEF IsFiniteSet, PA!IsFiniteSet
<1>3. PA!UsesUp(n)
  BY <1>1, <1>2, PA!StepUsesUp
<1>4. \A m \in Node : PB!Left(m)' = PB!Left(m)
  BY OtherWork
<1> QED BY <1>3, <1>4, Zenon DEF PA!UsesUp, OnlyInA

\* What election B does alone uses up work of election B.
LEMMA UsesOfB ==
  ASSUME A!Deployed, IsFiniteSet(PB!AllVoters), PB!IInv, PB!RoundsCounted, NEW n \in Node,
         UNCHANGED varsA
  PROVE  /\ PB!Works(n) => OnlyInB(n) /\ PB!Left(n)' < PB!Left(n)
         /\ PB!CastVote(n) => OnlyInB(n) /\ PB!Left(n)' <= PB!Left(n) + 1
<1>1. PB!ConstantsAssumption /\ PB!Deployed
  BY SameDeployment
<1>2. PB!IsFiniteSet(PB!AllVoters)
  BY DEF IsFiniteSet, PB!IsFiniteSet
<1>3. PB!UsesUp(n)
  BY <1>1, <1>2, PB!StepUsesUp
<1>4. \A m \in Node : PA!Left(m)' = PA!Left(m)
  BY OtherWork
<1> QED BY <1>3, <1>4, Zenon DEF PB!UsesUp, OnlyInB

\* Every step is one of either election.
LEMMA StepUsesWork ==
  ASSUME A!Deployed, IsFiniteSet(PA!AllVoters), IsFiniteSet(PB!AllVoters),
         PA!IInv, PA!RoundsCounted, PB!IInv, PB!RoundsCounted
  PROVE  WorkIsUsedUp
<1>1. ASSUME NEW n \in Node, SendBlock(n) \/ HandleRound(n) \/ CheckRound(n) \/ BufferBallot(n)
                             \/ \E o \in Node : ReceiveBlock(n, o)
      PROVE  (PA!Works(n) /\ UNCHANGED varsB) \/ (PB!Works(n) /\ UNCHANGED varsA)
  <2>1. CASE SendBlock(n)
    BY <2>1, ActionsOfA, ActionsOfB DEF SendBlock, PA!Works, PB!Works
  <2>2. CASE HandleRound(n) \/ CheckRound(n) \/ BufferBallot(n)
    BY <2>2, ActionsOfA, ActionsOfB
       DEF HandleRound, CheckRound, BufferBallot, PA!Works, PB!Works,
           PA!HandleReceivingBlock, PB!HandleReceivingBlock
  <2>3. CASE \E o \in Node : ReceiveBlock(n, o)
    BY <2>3, ActionsOfA, ActionsOfB
       DEF ReceiveBlock, PA!Works, PB!Works, PA!HandleReceivingBlock, PB!HandleReceivingBlock
  <2> QED BY <1>1, <2>1, <2>2, <2>3
<1>2. ASSUME NEW n \in Node, CastVote(n)
      PROVE  (PA!CastVote(n) /\ UNCHANGED varsB) \/ (PB!CastVote(n) /\ UNCHANGED varsA)
  BY <1>2, ActionsOfA, ActionsOfB DEF CastVote
<1>3. ASSUME Proceed
      PROVE  \E n \in Node : \/ OnlyInA(n) /\ PA!Left(n)' < PA!Left(n)
                             \/ OnlyInB(n) /\ PB!Left(n)' < PB!Left(n)
  <2>1. PICK n \in Node : (PA!Works(n) /\ UNCHANGED varsB) \/ (PB!Works(n) /\ UNCHANGED varsA)
    BY <1>1, <1>3 DEF Proceed
  <2> QED BY <2>1, UsesOfA, UsesOfB
<1>4. ASSUME NEW n \in Node, CastVote(n)
      PROVE  \/ OnlyInA(n) /\ PA!Left(n)' <= PA!Left(n) + 1
             \/ OnlyInB(n) /\ PB!Left(n)' <= PB!Left(n) + 1
  BY <1>2, <1>4, UsesOfA, UsesOfB
<1> QED BY <1>3, <1>4 DEF WorkIsUsedUp

\* Two elections that share their logs end as one does: what is left to do in
\* both is a number that every step but a vote makes smaller, so between two
\* votes the goroutines and gossip take finitely many steps, and come to the
\* standstill of the theorem above.
THEOREM WorkRunsOut ==
  ASSUME A!Deployed, IsFiniteSet(PA!AllVoters), IsFiniteSet(PB!AllVoters)
  PROVE  Spec => /\ [](\A n \in Node : PA!Left(n) \in Nat /\ PB!Left(n) \in Nat)
                 /\ [][WorkIsUsedUp]_vars
<1>1. PA!ConstantsAssumption /\ PA!Deployed /\ PB!ConstantsAssumption /\ PB!Deployed
  BY SameDeployment
<1>2. PA!IsFiniteSet(PA!AllVoters) /\ PB!IsFiniteSet(PB!AllVoters)
  BY DEF IsFiniteSet, PA!IsFiniteSet, PB!IsFiniteSet
<1>3. (PA!Spec => []PA!RoundsCounted) /\ (PB!Spec => []PB!RoundsCounted)
  BY <1>1, <1>2, PA!RoundsAreCounted, PB!RoundsAreCounted
<1>4. PA!IInv => \A n \in Node : PA!Left(n) \in Nat /\ PB!Left(n) \in Nat
  BY <1>1, <1>2, PA!WorkIsFinite, PB!WorkIsFinite
<1>5. /\ PA!IInv /\ PA!RoundsCounted /\ PB!IInv /\ PB!RoundsCounted /\ [Next]_vars
      => [WorkIsUsedUp]_vars
  BY StepUsesWork
<1> QED BY <1>3, <1>4, <1>5, EachIsProved, EachIsInvariant, PTL DEF Spec
=============================================================================
