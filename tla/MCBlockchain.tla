---------------------------- MODULE MCBlockchain ----------------------------
(* A small election among three gossipers, as in blockchain.sh. *)
EXTENDS Blockchain, TLC

CONSTANTS a, b, c, v1, v2

Voters == [x \in Ballot |-> x]

\* Only one gossiper has clients: the others propose what they receive.
OneStation == [n \in Node |-> IF n = a THEN {v1, v2} ELSE {}]
Others == Permutations({b, c})
=============================================================================
