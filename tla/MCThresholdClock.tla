-------------------------- MODULE MCThresholdClock --------------------------
(* Three gossipers, of which the first submits two transactions. *)
EXTENDS ThresholdClock, TLC

CONSTANTS a, b, c

\* Three gossipers, or what is left of four or five.
CommandLines == {[numPeers |-> 3, hw3ex3 |-> TRUE,  ackAll |-> FALSE],
                 [numPeers |-> 4, hw3ex3 |-> TRUE,  ackAll |-> TRUE],
                 [numPeers |-> 5, hw3ex3 |-> TRUE,  ackAll |-> FALSE],
                 [numPeers |-> 3, hw3ex3 |-> FALSE, ackAll |-> FALSE],
                 [numPeers |-> 5, hw3ex3 |-> FALSE, ackAll |-> FALSE]}

TwoOneOne == [n \in Node |-> IF n = a THEN 2 ELSE 1]

\* a hears the other two, so that a third confirmation may come when round 0 is
\* over, and they hear a: b also what a proposes in round 1.
AllReachA == [n \in Node |-> [o \in Node |->
  CASE n = a /\ o = b -> 2 [] n = b /\ o = a -> 3
    [] n = a /\ o = c -> 2 [] n = c /\ o = a -> 2 [] OTHER -> 0]]
=============================================================================
