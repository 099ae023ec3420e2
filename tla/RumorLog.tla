------------------------------ MODULE RumorLog ------------------------------
(***************************************************************************)
(* What gossip promises, without packets, status vectors or retries: every *)
(* gossiper keeps, for every origin, a copy of that origin's log.  Only    *)
(* the origin extends its own log; another gossiper extends its copy by    *)
(* exactly one entry, the next one, taken from a gossiper that has it.     *)
(***************************************************************************)
EXTENDS Naturals, Sequences

CONSTANTS Node,     \* the gossipers
          Rumor     \* the entries of the logs

VARIABLE copy       \* copy[n][o]: what n holds of the log of o

Init == copy = [n \in Node |-> [o \in Node |-> <<>>]]

Extend(n, o, m) == copy' = [copy EXCEPT ![n][o] = Append(@, m)]

\* An origin adds an entry to its own log.
Publish(o) == \E m \in Rumor : Extend(o, o, m)

\* n obtains its next missing entry of the log of o from p.
Learn(n, p, o) ==
  /\ n # o
  /\ Len(copy[p][o]) > Len(copy[n][o])
  /\ Extend(n, o, copy[p][o][Len(copy[n][o]) + 1])

Next == \/ \E o \in Node : Publish(o)
        \/ \E n, p, o \in Node : Learn(n, p, o)

Spec == Init /\ [][Next]_copy
=============================================================================
