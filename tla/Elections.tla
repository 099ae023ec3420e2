----------------------------- MODULE Elections -----------------------------
(***************************************************************************)
(* Two elections held by the same gossipers.  Each has a Blockchain and a  *)
(* HandleSendingBlocks goroutine of its own; what they share is the log of *)
(* each gossiper, in which the blocks of both are numbered in the order in *)
(* which they were stored, and from which Update takes them in that order. *)
(* So a block of one election that is refused because its round lies in    *)
(* the future keeps the blocks of the other behind it from being received. *)
(***************************************************************************)
EXTENDS Integers, Sequences

CONSTANTS Node, N, Fitness,
          BallotA, VoterOfA, CastsA,   \* the parameters of election A
          BallotB, VoterOfB, CastsB    \* the parameters of election B

VARIABLES pcA, blocksA, nextIdA, votersA, bufferA, voterMapA, currentA,
          receivedA, proposedA, takenA, storedA, heardA, handlersA, toCastA,
          pcB, blocksB, nextIdB, votersB, bufferB, voterMapB, currentB,
          receivedB, proposedB, takenB, storedB, heardB, handlersB, toCastB,
          log    \* log[n]: the election of every block that n has stored

A == INSTANCE Blockchain WITH
  Ballot <- BallotA, VoterOf <- VoterOfA, Casts <- CastsA,
  pc <- pcA, blocks <- blocksA, nextId <- nextIdA, voters <- votersA,
  buffer <- bufferA, voterMap <- voterMapA, current <- currentA,
  received <- receivedA, proposed <- proposedA, taken <- takenA,
  stored <- storedA, heard <- heardA, handlers <- handlersA, toCast <- toCastA

B == INSTANCE Blockchain WITH
  Ballot <- BallotB, VoterOf <- VoterOfB, Casts <- CastsB,
  pc <- pcB, blocks <- blocksB, nextId <- nextIdB, voters <- votersB,
  buffer <- bufferB, voterMap <- voterMapB, current <- currentB,
  received <- receivedB, proposed <- proposedB, taken <- takenB,
  stored <- storedB, heard <- heardB, handlers <- handlersB, toCast <- toCastB

varsA == <<pcA, blocksA, nextIdA, votersA, bufferA, voterMapA, currentA,
           receivedA, proposedA, takenA, storedA, heardA, handlersA, toCastA>>
varsB == <<pcB, blocksB, nextIdB, votersB, bufferB, voterMapB, currentB,
           receivedB, proposedB, takenB, storedB, heardB, handlersB, toCastB>>
vars == <<varsA, varsB, log>>

Init == A!Init /\ B!Init /\ log = [n \in Node |-> <<>>]
ASSUME ElectionsAssumption == A!ConstantsAssumption /\ B!ConstantsAssumption
-----------------------------------------------------------------------------
\* The block that HandleSendingBlocks stores gets the next ID of n.
Store(n, e) == log' = [log EXCEPT ![n] = Append(@, e)]

\* The block of o that Update of n expects next is one of election e.
IsNext(n, o, e) ==
  LET next == heardA[n][o] + heardB[n][o] + 1
  IN  next <= Len(log[o]) /\ log[o][next] = e

SendBlock(n) ==
  \/ A!SendBlock(n) /\ Store(n, "A") /\ UNCHANGED varsB
  \/ B!SendBlock(n) /\ Store(n, "B") /\ UNCHANGED varsA

\* HandleReceivingBlock up to Update: in the order of the shared log.
ReceiveBlock(n, o) ==
  /\ \/ IsNext(n, o, "A") /\ A!ReceiveBlock(n, o) /\ UNCHANGED varsB
     \/ IsNext(n, o, "B") /\ B!ReceiveBlock(n, o) /\ UNCHANGED varsA
  /\ UNCHANGED log

\* What the goroutines of one election do apart from the other.
HandleRound(n) == /\ \/ A!HandleRound(n) /\ UNCHANGED varsB
                     \/ B!HandleRound(n) /\ UNCHANGED varsA
                  /\ UNCHANGED log
CheckRound(n) == /\ \/ A!CheckRound(n) /\ UNCHANGED varsB
                    \/ B!CheckRound(n) /\ UNCHANGED varsA
                 /\ UNCHANGED log
BufferBallot(n) == /\ \/ A!BufferBallot(n) /\ UNCHANGED varsB
                      \/ B!BufferBallot(n) /\ UNCHANGED varsA
                   /\ UNCHANGED log

CastVote(n) == /\ \/ A!CastVote(n) /\ UNCHANGED varsB
                  \/ B!CastVote(n) /\ UNCHANGED varsA
               /\ UNCHANGED log

\* What happens without a client: goroutines run, and gossip delivers what is
\* next (Delivered of Gossip).
Proceed == \E n \in Node : \/ SendBlock(n)
                           \/ HandleRound(n) \/ CheckRound(n) \/ BufferBallot(n)
                           \/ \E o \in Node : ReceiveBlock(n, o)

Next == Proceed \/ \E n \in Node : CastVote(n)

Spec == Init /\ [][Next]_vars
-----------------------------------------------------------------------------
(* Properties *)

\* In no election does a chain record a voter twice, although voters cast at
\* several gossipers and ballots travel in other gossipers' proposals.
OneBallotPerVoter == A!OneBallotPerVoter /\ B!OneBallotPerVoter

\* Trimming the buffer never drops a ballot of an unrecorded voter.
CastIsKept == A!CastIsKept /\ B!CastIsKept

\* No goroutine can go on, and no gossiper may take the next block of another:
\* Proceed spelt out.
Standstill ==
  \A n \in Node :
    /\ A!Halted(n) /\ B!Halted(n)
    /\ \A o \in Node \ {n} : /\ IsNext(n, o, "A") => ~A!Welcome(n, o)
                             /\ IsNext(n, o, "B") => ~B!Welcome(n, o)

\* A standstill leaves no ballot that was cast anywhere unrecorded by anybody.
RestsWhenRecorded == Standstill => A!CastIsRecorded /\ B!CastIsRecorded

\* The gossipers never come to a standstill before every voter whose ballot was
\* cast anywhere is recorded by all of them, in both elections: that the log
\* delivers the blocks of one only after earlier ones of the other, which may
\* have to wait for a round, stops neither.  As no gossiper proposes for ever,
\* goroutines that keep running therefore record every voter.
NobodyStalls == (Standstill <=> ~ENABLED Proceed) /\ RestsWhenRecorded
=============================================================================
