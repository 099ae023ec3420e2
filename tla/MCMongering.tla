---------------------------- MODULE MCMongering ----------------------------
(* Two peers at ports 500 and 5000, messages of gossipers called 0x and x: a   *)
(* message of 0x to the first has the key of a message of x to the second.     *)
EXTENDS Mongering, Sequences, TLC

CONSTANTS g1, g2, k1

\* peerAddr + msgOrigin + strconv.Itoa(int(msgID))
Concatenated == [m \in Lookup |-> m[1] \o m[2] \o ToString(m[3])]

Messages == [o \in Origin |-> IF o = "x" THEN 2 ELSE 1]

Slots == Permutations({g1, g2})
=============================================================================
