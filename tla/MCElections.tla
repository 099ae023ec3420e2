---------------------------- MODULE MCElections ----------------------------
(* Two gossipers, two elections as in blockchain.sh: in one a voter votes  *)
(* at both, in the other the two voters of one gossiper take two rounds.   *)
EXTENDS Elections

CONSTANTS a, b, v1, v1x, w1, w2

\* v1 and v1x are two ballots of the same voter.
VotersA == [x \in BallotA |-> v1]
VotersB == [x \in BallotB |-> x]

DoubleVote == [n \in Node |-> IF n = a THEN {v1} ELSE {v1x}]
OneStation == [n \in Node |-> IF n = a THEN {} ELSE {w1, w2}]
=============================================================================
