------------------------------ MODULE MCGossip ------------------------------
(* Small instances of Gossip: three gossipers on a line a - b - c. *)
EXTENDS Gossip, TLC

CONSTANTS a, b, c

\* Everybody knows its neighbours on the line, except that b has yet to learn a.
Line == [n \in Node |-> CASE n = a -> {b} [] n = b -> {c} [] n = c -> {b}]

\* For safety: blocks and TLC messages from one end, a rumor from the other.
BlocksTLCAndRumor ==
  [n \in Node |-> CASE n = a -> {"block", "tlc"} [] n = b -> {} [] n = c -> {"rumor"}]
TwoZeroOne == [n \in Node |-> CASE n = a -> 2 [] n = b -> 0 [] n = c -> 1]

\* For liveness: a TLC message from one end, heartbeats from the other.
TLCAndHeartbeats ==
  [n \in Node |-> CASE n = a -> {"tlc"} [] n = b -> {} [] n = c -> {"heartbeat"}]
OneZeroTwo == [n \in Node |-> CASE n = a -> 1 [] n = b -> 0 [] n = c -> 2]

\* Client rumors and proposed blocks at the same gossiper: every gossiper
\* serves every client command.
RumorsAndBlocks == [n \in Node |-> IF n = a THEN {"rumor", "block"} ELSE {}]
=============================================================================
