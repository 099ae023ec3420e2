--------------------------- MODULE MCFileTransfer ---------------------------
(* Two gossipers, two downloads.  The files have the chunk c2 in common, f3    *)
(* has it twice; f1 and f2 may both be called x.                               *)
EXTENDS FileTransfer, TLC

CONSTANTS a, b, f1, f2, f3, c1, c2, x, y

Chunks == f1 :> <<c1, c2>> @@ f2 :> <<c2>> @@ f3 :> <<c2, c2>>
Names  == a :> (f1 :> {} @@ f2 :> {x} @@ f3 :> {})
          @@ b :> (f1 :> {x} @@ f2 :> {x} @@ f3 :> {y})
Shared == a :> {f1, f2, f3} @@ b :> {}
=============================================================================
