------------------------------- MODULE Ledger -------------------------------
(***************************************************************************)
(* What an election's blockchain promises: one ledger of ballots, at most  *)
(* one per voter, that all gossipers adopt entry by entry, in lockstep.    *)
(***************************************************************************)
EXTENDS Naturals, Sequences

CONSTANTS Node, Ballot, VoterOf

VARIABLES cast,     \* ballots the clients have cast
          ledger,   \* the ballots agreed on
          adopted   \* adopted[n]: how many of them n has appended to its chain

Init == /\ cast = {}
        /\ ledger = <<>>
        /\ adopted = [n \in Node |-> 0]

Cast(b) == /\ cast' = cast \cup {b}
           /\ UNCHANGED <<ledger, adopted>>

Voted == {VoterOf[ledger[i]] : i \in 1..Len(ledger)}

\* The first gossiper to finish a round settles the next entry: a cast ballot
\* of a voter not recorded yet, once everybody has adopted all earlier entries.
Decide(n, b) ==
  /\ \A m \in Node : adopted[m] = Len(ledger)
  /\ b \in cast /\ VoterOf[b] \notin Voted
  /\ ledger' = Append(ledger, b)
  /\ adopted' = [adopted EXCEPT ![n] = @ + 1]
  /\ UNCHANGED cast

Adopt(n) ==
  /\ adopted[n] < Len(ledger)
  /\ adopted' = [adopted EXCEPT ![n] = @ + 1]
  /\ UNCHANGED <<cast, ledger>>

Next == \/ \E b \in Ballot : Cast(b)
        \/ \E n \in Node : Adopt(n) \/ \E b \in Ballot : Decide(n, b)

Spec == Init /\ [][Next]_<<cast, ledger, adopted>>
=============================================================================
