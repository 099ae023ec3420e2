------------------------------ MODULE MCSearch ------------------------------
(* A searcher and two sharers on a line or a triangle.  One may download   *)
(* during the search the file that the other has indexed.                  *)
EXTENDS Search

CONSTANTS me, n1, n2

Line == [n \in Node |-> IF n = n1 THEN {me, n2} ELSE {n1}]
Triangle == [n \in Node |-> Node \ {n}]
LineAndTriangle == {Line, Triangle}

X == [name |-> "_SharedFiles/x", hash |-> "hash of x", chunks |-> 2]
BareX == [X EXCEPT !.name = "a copy of x"]

SharedValue == [n \in Node |-> IF n = n1 THEN {X} ELSE {}]
WantedValue == [n \in Node |-> IF n = n2 THEN {BareX} ELSE {}]
=============================================================================
