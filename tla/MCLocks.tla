------------------------------ MODULE MCLocks ------------------------------
(* A gossiper that serves any two packets, ticks or commands at once. *)
EXTENDS Locks

CONSTANTS p1, p2, timers

\* Any two handlers at once, and the heartbeat beside them.
AllDuties == [t \in Thread |-> IF t = timers THEN {"heartbeat"} ELSE DOMAIN Handler]
=============================================================================
