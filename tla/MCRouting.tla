----------------------------- MODULE MCRouting -----------------------------
(* Three gossipers that all know each other: one originates two messages,  *)
(* another one; the web page of one of them is open.                       *)
EXTENDS Routing

CONSTANTS n1, n2, n3

Triangle == [n \in Node |-> Node \ {n}]
MaxOwnValue == [n \in Node |-> IF n = n1 THEN 2 ELSE 0]
=============================================================================
