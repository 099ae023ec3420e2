---------------------------- MODULE LocksProofs ----------------------------
(***************************************************************************)
(* For any number of goroutines and any handlers they may run: the mutexes *)
(* and the router's channel have an order, which every handler respects    *)
(* but for StatusBuffer's mutex wanted under RumorBuffer's; so goroutines  *)
(* wait for each other in a circle only through that pair.                 *)
(* For any number of peers, origins, messages, mongering goroutines and    *)
(* status packets under way: an answer finds the channel of its message,   *)
(* which two of the mutexes guard.                                         *)
(***************************************************************************)
EXTENDS Locks, Mongering, FiniteSetTheorems, SequenceTheorems, TLAPS

Operation == [op : {"lock", "unlock", "visit", "leave", "feed"}, on : Mutex]

\* The order: who holds a mutex waits for higher ones only.
Level(l) == CASE l \in {"status", "blockchains"} -> 1
              [] l \in {"rumors", "blocks"} -> 2
              [] l \in {"peers", "clock"} -> 3
              [] l = "dsdv" -> 4

\* What an operation waits for, or does not, when held is held.
InOrder(o, held) ==
  /\ o.op \in {"lock", "visit"} =>
       \A h \in held : Level(h) < Level(o.on) \/ (h = "rumors" /\ o.on = "status")
  /\ o.op \in {"unlock", "leave"} => o.on \in held
  /\ o.op = "feed" => held = {}

After(o, held) == CASE o.op = "lock" -> held \cup {o.on}
                    [] o.op \in {"unlock", "leave"} -> held \ {o.on}
                    [] OTHER -> held

\* Who begins path with what is in before ends it with what is in after, and
\* waits in order on the way; held[i] is what is held before the i-th operation.
Follows(path, before, after) ==
  /\ path \in Seq(Operation)
  /\ \E held \in [1..(Len(path) + 1) -> SUBSET Mutex] :
       /\ held[1] = before /\ held[Len(path) + 1] = after
       /\ \A i \in 1..Len(path) : /\ InOrder(path[i], held[i])
                                  /\ held[i + 1] = After(path[i], held[i])

Goroutine == Thread \cup {Router}
Held(t) == {l \in Mutex : t \in holder[l]}

Types == /\ job \in [Goroutine -> Seq(Operation)]
         /\ holder \in [Mutex -> SUBSET (Goroutine \cup {Returned})]

Exclusive == \A l \in Mutex : \A t, u \in holder[l] : t = u

\* What is left of a handler leaves nothing held.
AllInOrder == \A t \in Goroutine : Follows(job[t], Held(t), {})

\* The router has nothing to do but its own short section.
RouterVisits == job[Router] \in {<<>>, StartRouting}

IInv == Types /\ Exclusive /\ AllInOrder /\ RouterVisits
-----------------------------------------------------------------------------
(* Paths *)

\* The empty path.
LEMMA Nothing ==
  /\ \A held \in SUBSET Mutex : Follows(<<>>, held, held)
  /\ \A before, after \in SUBSET Mutex : Follows(<<>>, before, after) => before = after
<1>1. <<>> \in Seq(Operation) /\ Len(<<>>) = 0
  OBVIOUS
<1>2. ASSUME NEW held \in SUBSET Mutex PROVE Follows(<<>>, held, held)
  <2>1. PICK h \in [1..(0 + 1) -> SUBSET Mutex] : h = [i \in 1..(0 + 1) |-> held]
    OBVIOUS
  <2>2. h[1] = held /\ h[0 + 1] = held
    BY <2>1
  <2>3. \A i \in 1..0 : InOrder(<<>>[i], h[i]) /\ h[i + 1] = After(<<>>[i], h[i])
    OBVIOUS
  <2> QED BY <1>1, <2>2, <2>3 DEF Follows
<1>3. ASSUME NEW before \in SUBSET Mutex, NEW after \in SUBSET Mutex, Follows(<<>>, before, after)
      PROVE  before = after
  BY <1>1, <1>3 DEF Follows
<1> QED BY <1>2, <1>3

\* A path of one operation.
LEMMA One ==
  ASSUME NEW o \in Operation, NEW held \in SUBSET Mutex, InOrder(o, held)
  PROVE  Follows(<<o>>, held, After(o, held)) /\ After(o, held) \in SUBSET Mutex
<1>1. After(o, held) \in SUBSET Mutex
  BY DEF After, Operation
<1>2. <<o>> \in Seq(Operation) /\ Len(<<o>>) = 1 /\ <<o>>[1] = o
  OBVIOUS
<1>3. PICK later \in SUBSET Mutex : later = After(o, held)
  BY <1>1
<1>4. PICK h \in [1..(1 + 1) -> SUBSET Mutex] : h = [i \in 1..(1 + 1) |-> IF i = 1 THEN held ELSE later]
  OBVIOUS
<1>5. h[1] = held /\ h[1 + 1] = later
  BY <1>4
<1>6. \A i \in 1..1 : InOrder(<<o>>[i], h[i]) /\ h[i + 1] = After(<<o>>[i], h[i])
  <2>1. \A i \in 1..1 : i = 1
    OBVIOUS
  <2> QED BY <1>2, <1>3, <1>5, <2>1
<1> QED BY <1>1, <1>2, <1>3, <1>5, <1>6 DEF Follows

\* One operation more.
LEMMA OneMore ==
  ASSUME NEW p \in Seq(Operation), NEW o \in Operation, NEW r \in Seq(Operation),
         Len(r) = Len(p) + 1, \A i \in 1..Len(p) : r[i] = p[i], r[Len(p) + 1] = o
  PROVE  p \o <<o>> = r
<1>1. <<o>> \in Seq(Operation) /\ Len(<<o>>) = 1 /\ <<o>>[1] = o
  OBVIOUS
<1>2. PICK both \in Seq(Operation) : both = p \o <<o>>
  BY <1>1
<1>3. Len(both) = Len(p) + 1 /\ Len(p) \in Nat
  BY <1>1, <1>2
<1>4. \A i \in 1..(Len(p) + 1) : both[i] = IF i <= Len(p) THEN p[i] ELSE o
  BY <1>1, <1>2, <1>3
<1>5. \A i \in 1..(Len(p) + 1) : both[i] = r[i]
  <2>1. ASSUME NEW i \in 1..(Len(p) + 1) PROVE i \in 1..Len(p) \/ i = Len(p) + 1
    BY <1>3
  <2> QED BY <1>3, <1>4, <2>1
<1>6. both = r
  BY <1>3, <1>5, SeqEqual
<1> QED BY <1>2, <1>6

\* A path put together operation by operation.
LEMMA Singles ==
  ASSUME NEW a \in Operation, NEW b \in Operation, NEW c \in Operation, NEW d \in Operation
  PROVE  /\ <<a>> \o <<b>> = <<a, b>>
         /\ ((<<a>> \o <<b>>) \o <<c>>) \o <<d>> = <<a, b, c, d>>
<1>1. ASSUME NEW o \in Operation
      PROVE  <<o>> \in Seq(Operation) /\ Len(<<o>>) = 1 /\ <<o>>[1] = o
  OBVIOUS
<1>2. /\ <<a, b>> \in Seq(Operation) /\ Len(<<a, b>>) = 1 + 1
      /\ <<a, b>>[1] = a /\ <<a, b>>[1 + 1] = b
  OBVIOUS
<1>3. /\ <<a, b, c>> \in Seq(Operation) /\ Len(<<a, b, c>>) = 2 + 1
      /\ <<a, b, c>>[1] = a /\ <<a, b, c>>[2] = b /\ <<a, b, c>>[2 + 1] = c
  OBVIOUS
<1>4. /\ <<a, b, c, d>> \in Seq(Operation) /\ Len(<<a, b, c, d>>) = 3 + 1
      /\ <<a, b, c, d>>[1] = a /\ <<a, b, c, d>>[2] = b /\ <<a, b, c, d>>[3] = c
      /\ <<a, b, c, d>>[3 + 1] = d
  OBVIOUS
<1>5. /\ \A i \in 1..1 : i = 1
      /\ \A i \in 1..2 : i = 1 \/ i = 2
      /\ \A i \in 1..3 : i = 1 \/ i = 2 \/ i = 3
  OBVIOUS
<1>6. /\ \A i \in 1..1 : <<a, b>>[i] = <<a>>[i]
      /\ \A i \in 1..2 : <<a, b, c>>[i] = <<a, b>>[i]
      /\ \A i \in 1..3 : <<a, b, c, d>>[i] = <<a, b, c>>[i]
  BY <1>1, <1>2, <1>3, <1>4, <1>5
<1>7. PICK p1 \in Seq(Operation), p2 \in Seq(Operation), p3 \in Seq(Operation),
           p4 \in Seq(Operation) :
        p1 = <<a>> /\ p2 = <<a, b>> /\ p3 = <<a, b, c>> /\ p4 = <<a, b, c, d>>
  BY <1>1, <1>2, <1>3, <1>4
<1>8. p1 \o <<b>> = p2
  <2>1. Len(p2) = Len(p1) + 1 /\ p2[Len(p1) + 1] = b /\ \A i \in 1..Len(p1) : p2[i] = p1[i]
    BY <1>1, <1>2, <1>6, <1>7
  <2> QED BY <2>1, OneMore
<1>9. p2 \o <<c>> = p3
  <2>1. Len(p3) = Len(p2) + 1 /\ p3[Len(p2) + 1] = c /\ \A i \in 1..Len(p2) : p3[i] = p2[i]
    BY <1>2, <1>3, <1>6, <1>7
  <2> QED BY <2>1, OneMore
<1>10. p3 \o <<d>> = p4
  <2>1. Len(p4) = Len(p3) + 1 /\ p4[Len(p3) + 1] = d /\ \A i \in 1..Len(p3) : p4[i] = p3[i]
    BY <1>3, <1>4, <1>6, <1>7
  <2> QED BY <2>1, OneMore
<1> QED BY <1>7, <1>8, <1>9, <1>10

\* One path after another.
LEMMA Concat ==
  ASSUME NEW p, NEW q, NEW before, NEW between, NEW after,
         Follows(p, before, between), Follows(q, between, after)
  PROVE  Follows(p \o q, before, after)
<1>1. /\ p \in Seq(Operation) /\ q \in Seq(Operation)
      /\ Len(p) \in Nat /\ Len(q) \in Nat
  BY DEF Follows
<1>2. PICK m \in Nat, n \in Nat : m = Len(p) /\ n = Len(q)
  BY <1>1
<1>3. PICK g \in [1..(m + 1) -> SUBSET Mutex] :
        /\ g[1] = before /\ g[m + 1] = between
        /\ \A i \in 1..m : InOrder(p[i], g[i]) /\ g[i + 1] = After(p[i], g[i])
  BY <1>2 DEF Follows
<1>4. PICK h \in [1..(n + 1) -> SUBSET Mutex] :
        /\ h[1] = between /\ h[n + 1] = after
        /\ \A i \in 1..n : InOrder(q[i], h[i]) /\ h[i + 1] = After(q[i], h[i])
  BY <1>2 DEF Follows
<1>5. /\ p \o q \in Seq(Operation) /\ Len(p \o q) = m + n
      /\ \A i \in 1..m : (p \o q)[i] = p[i]
      /\ \A i \in (m + 1)..(m + n) : (p \o q)[i] = q[i - m]
  BY <1>1, <1>2
<1>6. PICK both \in [1..(m + n + 1) -> SUBSET Mutex] :
        \A i \in 1..(m + n + 1) : both[i] = IF i <= m THEN g[i] ELSE h[i - m]
  <2>1. \A i \in 1..(m + n + 1) : (IF i <= m THEN g[i] ELSE h[i - m]) \in SUBSET Mutex
    OBVIOUS
  <2>2. [i \in 1..(m + n + 1) |-> IF i <= m THEN g[i] ELSE h[i - m]]
          \in [1..(m + n + 1) -> SUBSET Mutex]
    BY <2>1
  <2> QED BY <2>2
<1>7. \A i \in 1..(m + 1) : both[i] = g[i]
  BY <1>3, <1>4, <1>6
<1>8. \A i \in (m + 1)..(m + n + 1) : both[i] = h[i - m]
  BY <1>6
<1>9. ASSUME NEW i \in 1..(m + n)
      PROVE  /\ InOrder((p \o q)[i], both[i])
             /\ both[i + 1] = After((p \o q)[i], both[i])
  <2>1. CASE i <= m
    <3>1. i \in 1..m /\ i \in 1..(m + 1) /\ i + 1 \in 1..(m + 1)
      BY <2>1
    <3> QED BY <1>3, <1>5, <1>7, <3>1
  <2>2. CASE ~(i <= m)
    <3>1. PICK k \in 1..n : k = i - m
      BY <2>2
    <3>2. /\ i \in (m + 1)..(m + n) /\ i \in (m + 1)..(m + n + 1)
          /\ i + 1 \in (m + 1)..(m + n + 1) /\ (i + 1) - m = k + 1 /\ i - m = k
      BY <2>2, <3>1
    <3>3. both[i] = h[k] /\ both[i + 1] = h[k + 1] /\ (p \o q)[i] = q[k]
      BY <1>5, <1>8, <3>2
    <3> QED BY <1>4, <3>3
  <2> QED BY <2>1, <2>2
<1>10. both[1] = before /\ both[m + n + 1] = after
  <2>1. 1 \in 1..(m + 1)
    OBVIOUS
  <2>2. m + n + 1 \in (m + 1)..(m + n + 1) /\ (m + n + 1) - m = n + 1
    OBVIOUS
  <2> QED BY <1>3, <1>4, <1>7, <1>8, <2>1, <2>2
<1> QED BY <1>5, <1>9, <1>10 DEF Follows

\* The first operation, and the rest of the path.
LEMMA Rest ==
  ASSUME NEW p, NEW before \in SUBSET Mutex, NEW after, Follows(p, before, after), p # <<>>
  PROVE  /\ Head(p) \in Operation /\ Tail(p) \in Seq(Operation)
         /\ InOrder(Head(p), before)
         /\ Follows(Tail(p), After(Head(p), before), after)
<1>1. p \in Seq(Operation) /\ Len(p) \in Nat /\ Len(p) > 0
  BY DEF Follows
<1>2. PICK n \in Nat : Len(p) = n + 1
  <2>1. Len(p) - 1 \in Nat /\ Len(p) = (Len(p) - 1) + 1
    BY <1>1
  <2> QED BY <2>1
<1>3. PICK held \in [1..(n + 1 + 1) -> SUBSET Mutex] :
        /\ held[1] = before /\ held[n + 1 + 1] = after
        /\ \A i \in 1..(n + 1) : InOrder(p[i], held[i]) /\ held[i + 1] = After(p[i], held[i])
  BY <1>2 DEF Follows
<1>4. /\ Head(p) = p[1] /\ Head(p) \in Operation
      /\ Tail(p) \in Seq(Operation) /\ Len(Tail(p)) = n
      /\ \A i \in 1..n : Tail(p)[i] = p[i + 1]
  BY <1>1, <1>2
<1>5. 1 \in 1..(n + 1)
  OBVIOUS
<1>6. InOrder(Head(p), before) /\ held[1 + 1] = After(Head(p), before)
  BY <1>3, <1>4, <1>5
<1>7. PICK rest \in [1..(n + 1) -> SUBSET Mutex] : \A i \in 1..(n + 1) : rest[i] = held[i + 1]
  <2>1. [i \in 1..(n + 1) |-> held[i + 1]] \in [1..(n + 1) -> SUBSET Mutex]
    OBVIOUS
  <2> QED BY <2>1
<1>8. rest[1] = After(Head(p), before) /\ rest[n + 1] = after
  <2>1. n + 1 \in 1..(n + 1)
    OBVIOUS
  <2> QED BY <1>3, <1>5, <1>6, <1>7, <2>1
<1>9. ASSUME NEW i \in 1..n
      PROVE  InOrder(Tail(p)[i], rest[i]) /\ rest[i + 1] = After(Tail(p)[i], rest[i])
  <2>1. i \in 1..(n + 1) /\ i + 1 \in 1..(n + 1)
    OBVIOUS
  <2> QED BY <1>3, <1>4, <1>7, <2>1
<1> QED BY <1>4, <1>6, <1>8, <1>9 DEF Follows

-----------------------------------------------------------------------------
(* The handlers *)

\* A short section in order.
LEMMA BriefPath ==
  ASSUME NEW l \in Mutex, NEW held \in SUBSET Mutex, \A h \in held : Level(h) < Level(l)
  PROVE  Follows(Brief(l), held, held)
<1>1. PICK o \in Operation : o = Visit(l)
  BY DEF Visit, Operation
<1>2. o.op = "visit" /\ o.on = l
  BY <1>1 DEF Visit
<1>3. InOrder(o, held) /\ After(o, held) = held
  BY <1>2 DEF InOrder, After
<1> QED BY <1>1, <1>3, One DEF Brief

\* What runs in order under a lock, and the lock around it.
LEMMA HoldPath ==
  ASSUME NEW l \in Mutex, NEW held \in SUBSET Mutex, NEW body, l \notin held,
         \A h \in held : Level(h) < Level(l) \/ (h = "rumors" /\ l = "status"),
         Follows(body, held \cup {l}, held \cup {l})
  PROVE  Follows(Hold(l, body), held, held)
<1>1. PICK o \in Operation : o = Lock(l)
  BY DEF Lock, Operation
<1>2. PICK c \in Operation : c = Unlock(l)
  BY DEF Unlock, Operation
<1>3. o.op = "lock" /\ o.on = l /\ c.op = "unlock" /\ c.on = l
  BY <1>1, <1>2 DEF Lock, Unlock
<1>4. PICK inside \in SUBSET Mutex : inside = held \cup {l}
  OBVIOUS
<1>5. InOrder(o, held) /\ After(o, held) = inside
  BY <1>3, <1>4 DEF InOrder, After
<1>6. InOrder(c, inside) /\ After(c, inside) = held
  BY <1>3, <1>4 DEF InOrder, After
<1>7. Follows(<<o>>, held, inside) /\ Follows(<<c>>, inside, held)
  BY <1>5, <1>6, One
<1>8. Follows(<<o>> \o body, held, inside)
  BY <1>4, <1>7, Concat
<1>9. Follows((<<o>> \o body) \o <<c>>, held, held)
  BY <1>7, <1>8, Concat
<1> QED BY <1>1, <1>2, <1>9 DEF Hold

\* Paths that begin and end with nothing held.
Clean(paths) == \A p \in paths : Follows(p, {}, {})

\* One of a set of paths, then one of another.
LEMMA CleanThen ==
  ASSUME NEW first, NEW second, Clean(first), Clean(second)
  PROVE  Clean(Then(first, second))
<1>1. ASSUME NEW r \in Then(first, second) PROVE Follows(r, {}, {})
  <2>1. PICK p \in first, q \in second : r = p \o q
    BY DEF Then
  <2>2. Follows(p, {}, {}) /\ Follows(q, {}, {})
    BY DEF Clean
  <2> QED BY <2>1, <2>2, Concat
<1> QED BY <1>1 DEF Clean

\* The short sections that the handlers are made of.
LEMMA Sections ==
  /\ \A l \in Mutex : Follows(Brief(l), {}, {})
  /\ Follows(Hold("status", Brief("rumors")), {}, {})
  /\ Follows(Hold("blockchains", Brief("blocks")), {}, {})
  /\ Follows(<<Feed>>, {}, {})
<1>1. \A l \in Mutex : Follows(Brief(l), {}, {})
  BY BriefPath
<1>2. Follows(Brief("rumors"), {} \cup {"status"}, {} \cup {"status"})
  <2>1. \A h \in {} \cup {"status"} : Level(h) < Level("rumors")
    BY DEF Level
  <2>2. "rumors" \in Mutex /\ {} \cup {"status"} \in SUBSET Mutex
    BY DEF Mutex
  <2> QED BY <2>1, <2>2, BriefPath
<1>3. Follows(Brief("blocks"), {} \cup {"blockchains"}, {} \cup {"blockchains"})
  <2>1. \A h \in {} \cup {"blockchains"} : Level(h) < Level("blocks")
    BY DEF Level
  <2>2. "blocks" \in Mutex /\ {} \cup {"blockchains"} \in SUBSET Mutex
    BY DEF Mutex
  <2> QED BY <2>1, <2>2, BriefPath
<1>4. Follows(<<Feed>>, {}, {})
  <2>1. PICK o \in Operation : o = Feed
    BY DEF Feed, Operation, Mutex
  <2>2. o.op = "feed"
    BY <2>1 DEF Feed
  <2>3. InOrder(o, {}) /\ After(o, {}) = {}
    BY <2>2 DEF InOrder, After
  <2> QED BY <2>1, <2>3, One
<1>5. "status" \in Mutex /\ "blockchains" \in Mutex
  BY DEF Mutex
<1>6. Follows(Hold("status", Brief("rumors")), {}, {})
  BY <1>2, <1>5, HoldPath
<1>7. Follows(Hold("blockchains", Brief("blocks")), {}, {})
  BY <1>3, <1>5, HoldPath
<1> QED BY <1>1, <1>4, <1>6, <1>7

\* Update respects the order if what its caller does then respects it.
LEMMA CleanUpdate ==
  ASSUME NEW seen, NEW learnt, Clean(seen), Clean(learnt)
  PROVE  Clean(Update(seen, learnt))
<1>1. Clean({Brief("status")}) /\ Clean({Hold("status", Brief("rumors"))})
  BY Sections DEF Clean, Mutex
<1>2. Clean(Then({Brief("status")}, seen)) /\ Clean(Then({Hold("status", Brief("rumors"))}, learnt))
  BY <1>1, CleanThen
<1> QED BY <1>2 DEF Update, Clean

\* The handlers of messages that Update learns.
LEMMA UpdatingHandlers ==
  Clean(HandleRumor) /\ Clean(HandleTLCMessage) /\ Clean(HandleReceivingBlock)
<1>1. /\ Follows(Brief("status"), {}, {}) /\ Follows(Brief("dsdv"), {}, {})
      /\ Follows(Brief("peers"), {}, {}) /\ Follows(Brief("clock"), {}, {})
      /\ Follows(<<Feed>>, {}, {}) /\ Follows(<<>>, {}, {})
  BY Sections, Nothing DEF Mutex
<1>2. Clean({Brief("status")})
  BY <1>1 DEF Clean
<1>3. Clean(HandleRumor)
  <2>1. Follows(Brief("status") \o <<Feed>>, {}, {})
    BY <1>1, Concat
  <2>2. Follows((Brief("status") \o <<Feed>>) \o Brief("peers"), {}, {})
    BY <1>1, <2>1, Concat
  <2>3. Clean({Brief("status") \o <<Feed>> \o Brief("peers")})
    BY <2>2 DEF Clean
  <2> QED BY <1>2, <2>3, CleanUpdate DEF HandleRumor, StatusBack, SelectRandomPeer
<1>4. Clean(HandleTLCMessage)
  <2>1. ASSUME NEW answer \in {<<>>, Brief("dsdv"), Brief("clock")}
        PROVE  Follows(Brief("status") \o answer \o <<Feed>> \o Brief("peers"), {}, {})
    <3>1. Follows(answer, {}, {})
      BY <1>1
    <3>2. Follows(Brief("status") \o answer, {}, {})
      BY <1>1, <3>1, Concat
    <3>3. Follows((Brief("status") \o answer) \o <<Feed>>, {}, {})
      BY <1>1, <3>2, Concat
    <3>4. Follows(((Brief("status") \o answer) \o <<Feed>>) \o Brief("peers"), {}, {})
      BY <1>1, <3>3, Concat
    <3> QED BY <3>4
  <2>2. Clean({Brief("status") \o answer \o <<Feed>> \o Brief("peers") :
                 answer \in {<<>>, Brief("dsdv"), Brief("clock")}})
    BY <2>1 DEF Clean
  <2> QED BY <1>2, <2>2, CleanUpdate DEF HandleTLCMessage, StatusBack, SelectRandomPeer, ACK
<1>5. Clean(HandleReceivingBlock)
  <2>1. Clean(GetOrCreateBlockchain)
    BY Sections DEF Clean, GetOrCreateBlockchain, Mutex
  <2>2. Follows(Brief("status") \o Brief("peers"), {}, {})
    BY <1>1, Concat
  <2>3. Clean({Brief("status"), Brief("status") \o Brief("peers")})
    BY <1>1, <2>2 DEF Clean
  <2>4. Clean(Update({Brief("status")}, {Brief("status"), Brief("status") \o Brief("peers")}))
    BY <1>2, <2>3, CleanUpdate
  <2> QED BY <2>1, <2>4, CleanThen DEF HandleReceivingBlock, StatusBack, SelectRandomPeer
<1> QED BY <1>3, <1>4, <1>5

\* The handlers that keep two mutexes at a time, and the early return.
LEMMA NestingHandlers ==
  /\ Clean(StartHeartbeat) /\ Clean(ClientRumor) /\ Clean(ForwardUnknown)
  /\ Clean(SendTLC(<<>>)) /\ Clean(SendTLC(Brief("status"))) /\ Clean(RoundTLCAck)
  /\ Clean(StatusPaths)
<1>1. /\ Follows(Brief("status"), {}, {}) /\ Follows(Brief("dsdv"), {}, {})
      /\ Follows(Brief("peers"), {}, {}) /\ Follows(Brief("clock"), {}, {})
      /\ Follows(<<>>, {}, {})
      /\ Follows(Hold("status", Brief("rumors")), {}, {})
  BY Sections, Nothing DEF Mutex
<1>2. {"status", "rumors", "peers", "dsdv", "clock"} \in SUBSET Mutex
  BY DEF Mutex
<1>3. Clean(StartHeartbeat)
  <2>1. PICK a \in Operation, b \in Operation, c \in Operation, d \in Operation :
          a = Lock("status") /\ b = Lock("rumors") /\ c = Unlock("status") /\ d = Unlock("rumors")
    BY <1>2 DEF Lock, Unlock, Operation
  <2>2. /\ a.op = "lock" /\ a.on = "status" /\ b.op = "lock" /\ b.on = "rumors"
        /\ c.op = "unlock" /\ c.on = "status" /\ d.op = "unlock" /\ d.on = "rumors"
    BY <2>1 DEF Lock, Unlock
  <2>3. /\ {} \in SUBSET Mutex /\ {"status"} \in SUBSET Mutex /\ {"rumors"} \in SUBSET Mutex
        /\ {"status", "rumors"} \in SUBSET Mutex
    BY <1>2
  <2>4. Level("status") < Level("rumors")
    BY DEF Level
  <2>5. InOrder(a, {}) /\ After(a, {}) = {"status"}
    BY <2>2 DEF InOrder, After
  <2>6. InOrder(b, {"status"}) /\ After(b, {"status"}) = {"status", "rumors"}
    BY <2>2, <2>4 DEF InOrder, After
  <2>7. InOrder(c, {"status", "rumors"}) /\ After(c, {"status", "rumors"}) = {"rumors"}
    BY <2>2 DEF InOrder, After
  <2>8. InOrder(d, {"rumors"}) /\ After(d, {"rumors"}) = {}
    BY <2>2 DEF InOrder, After
  <2>9. /\ Follows(<<a>>, {}, {"status"}) /\ Follows(<<b>>, {"status"}, {"status", "rumors"})
        /\ Follows(<<c>>, {"status", "rumors"}, {"rumors"}) /\ Follows(<<d>>, {"rumors"}, {})
    <3>1. Follows(<<a>>, {}, {"status"})
      BY <2>3, <2>5, One
    <3>2. Follows(<<b>>, {"status"}, {"status", "rumors"})
      BY <2>3, <2>6, One
    <3>3. Follows(<<c>>, {"status", "rumors"}, {"rumors"})
      BY <2>3, <2>7, One
    <3>4. Follows(<<d>>, {"rumors"}, {})
      BY <2>3, <2>8, One
    <3> QED BY <3>1, <3>2, <3>3, <3>4
  <2>10. Follows(<<a>> \o <<b>>, {}, {"status", "rumors"})
    BY <2>9, Concat
  <2>11. Follows((<<a>> \o <<b>>) \o <<c>>, {}, {"rumors"})
    BY <2>9, <2>10, Concat
  <2>12. Follows(((<<a>> \o <<b>>) \o <<c>>) \o <<d>>, {}, {})
    BY <2>9, <2>11, Concat
  <2>13. ((<<a>> \o <<b>>) \o <<c>>) \o <<d>> = <<a, b, c, d>>
    BY Singles
  <2>14. Follows(<<a, b, c, d>> \o Brief("peers"), {}, {})
    BY <1>1, <2>12, <2>13, Concat
  <2> QED BY <2>1, <2>14 DEF Clean, StartHeartbeat, SelectRandomPeer
<1>4. Clean(ClientRumor)
  <2>1. PICK both \in SUBSET Mutex : both = {"rumors"} \cup {"status"}
    BY <1>2
  <2>2. \A h \in both : Level(h) < Level("peers")
    BY <2>1 DEF Level
  <2>3. Follows(Brief("peers"), {"rumors"} \cup {"status"}, {"rumors"} \cup {"status"})
    BY <1>2, <2>1, <2>2, BriefPath
  <2>4. {"rumors"} \in SUBSET Mutex /\ "status" \in Mutex /\ "status" \notin {"rumors"}
    BY <1>2
  <2>5. \A h \in {"rumors"} : Level(h) < Level("status") \/ (h = "rumors" /\ "status" = "status")
    OBVIOUS
  <2>6. Follows(Hold("status", Brief("peers")), {"rumors"}, {"rumors"})
    BY <2>3, <2>4, <2>5, HoldPath
  <2>7. {} \cup {"rumors"} = {"rumors"} /\ "rumors" \in Mutex
    BY <1>2
  <2>8. Follows(Hold("rumors", Hold("status", Brief("peers"))), {}, {})
    BY <2>6, <2>7, HoldPath
  <2> QED BY <2>8 DEF Clean, ClientRumor, SelectRandomPeer
<1>5. Clean(ForwardUnknown)
  <2>1. PICK a \in Operation, b \in Operation : a = Lock("dsdv") /\ b = Leave("dsdv")
    BY <1>2 DEF Lock, Leave, Operation
  <2>2. a.op = "lock" /\ a.on = "dsdv" /\ b.op = "leave" /\ b.on = "dsdv"
    BY <2>1 DEF Lock, Leave
  <2>3. InOrder(a, {}) /\ After(a, {}) = {"dsdv"}
    BY <2>2 DEF InOrder, After
  <2>4. InOrder(b, {"dsdv"}) /\ After(b, {"dsdv"}) = {}
    BY <2>2 DEF InOrder, After
  <2>5. {} \in SUBSET Mutex /\ {"dsdv"} \in SUBSET Mutex
    BY <1>2
  <2>6. Follows(<<a>>, {}, {"dsdv"}) /\ Follows(<<b>>, {"dsdv"}, {})
    BY <2>3, <2>4, <2>5, One
  <2>7. Follows(<<a>> \o <<b>>, {}, {})
    BY <2>6, Concat
  <2>8. <<a>> \o <<b>> = <<a, b>>
    BY Singles
  <2> QED BY <2>1, <2>7, <2>8 DEF Clean, ForwardUnknown
<1>6. ASSUME NEW clock, Follows(clock, {"rumors"}, {"rumors"}) PROVE Clean(SendTLC(clock))
  <2>1. \A h \in {"rumors"} : Level(h) < Level("clock")
    BY DEF Level
  <2>2. {"rumors"} \in SUBSET Mutex /\ "clock" \in Mutex /\ "rumors" \in Mutex
    BY <1>2
  <2>3. Follows(Brief("clock"), {"rumors"}, {"rumors"})
    BY <2>1, <2>2, BriefPath
  <2>4. Follows(clock \o Brief("clock"), {"rumors"}, {"rumors"})
    BY <1>6, <2>3, Concat
  <2>5. {} \cup {"rumors"} = {"rumors"}
    OBVIOUS
  <2>6. ASSUME NEW body, Follows(body, {"rumors"}, {"rumors"})
        PROVE  Follows(Hold("rumors", body) \o Brief("status") \o Brief("peers"), {}, {})
    <3>1. Follows(Hold("rumors", body), {}, {})
      BY <2>2, <2>5, <2>6, HoldPath
    <3>2. Follows(Hold("rumors", body) \o Brief("status"), {}, {})
      BY <1>1, <3>1, Concat
    <3>3. Follows((Hold("rumors", body) \o Brief("status")) \o Brief("peers"), {}, {})
      BY <1>1, <3>2, Concat
    <3> QED BY <3>3
  <2>7. /\ Follows(Hold("rumors", clock \o Brief("clock")) \o Brief("status") \o Brief("peers"), {}, {})
        /\ Follows(Hold("rumors", clock) \o Brief("status") \o Brief("peers"), {}, {})
    BY <1>6, <2>4, <2>6
  <2> QED BY <2>7 DEF Clean, SendTLC, SelectRandomPeer
<1>7. Follows(<<>>, {"rumors"}, {"rumors"})
  BY <1>2, Nothing
<1>8. Follows(Brief("status"), {"rumors"}, {"rumors"})
  <2>1. PICK o \in Operation : o = Visit("status")
    BY <1>2 DEF Visit, Operation
  <2>2. o.op = "visit" /\ o.on = "status"
    BY <2>1 DEF Visit
  <2>3. InOrder(o, {"rumors"}) /\ After(o, {"rumors"}) = {"rumors"} /\ {"rumors"} \in SUBSET Mutex
    BY <1>2, <2>2 DEF InOrder, After
  <2> QED BY <2>1, <2>3, One DEF Brief
<1>9. Clean(RoundTLCAck)
  <2>1. \A h \in {} \cup {"clock"} : Level(h) < Level("dsdv")
    BY DEF Level
  <2>2. {} \cup {"clock"} \in SUBSET Mutex /\ "dsdv" \in Mutex /\ "clock" \in Mutex
    BY <1>2
  <2>3. Follows(Brief("dsdv"), {} \cup {"clock"}, {} \cup {"clock"})
    BY <2>1, <2>2, BriefPath
  <2>4. Follows(Hold("clock", Brief("dsdv")), {}, {})
    BY <2>2, <2>3, HoldPath
  <2> QED BY <1>1, <2>4 DEF Clean, RoundTLCAck, ACK
<1>10. Clean(StatusPaths)
  <2>1. Clean({Brief("status")}) /\ Clean({<<>>, Hold("status", Brief("rumors")), Brief("status")})
    BY <1>1 DEF Clean
  <2> QED BY <2>1, CleanThen DEF StatusPaths, ProvidePath
<1> QED BY <1>3, <1>4, <1>5, <1>6, <1>7, <1>8, <1>9, <1>10

\* The rest of the handlers.
LEMMA PlainHandlers ==
  /\ Clean(StartAntiEntropy) /\ Clean(HandleSendingBlocks) /\ Clean(GetOrCreateBlockchain)
  /\ Clean(Simple) /\ Clean(PrivateMsg) /\ Clean(Forward) /\ Clean(FlipCoin)
  /\ Clean(HandleConfirmedMessage)
<1>1. /\ Follows(Brief("status"), {}, {}) /\ Follows(Brief("dsdv"), {}, {})
      /\ Follows(Brief("peers"), {}, {}) /\ Follows(Brief("clock"), {}, {})
      /\ Follows(Brief("rumors"), {}, {}) /\ Follows(Brief("blockchains"), {}, {})
      /\ Follows(Hold("blockchains", Brief("blocks")), {}, {})
  BY Sections DEF Mutex
<1>2. Follows(Brief("peers") \o Brief("status"), {}, {})
  BY <1>1, Concat
<1>3. Follows(Brief("rumors") \o Brief("status"), {}, {})
  BY <1>1, Concat
<1>4. Follows((Brief("rumors") \o Brief("status")) \o Brief("peers"), {}, {})
  BY <1>1, <1>3, Concat
<1>5. Clean(StartAntiEntropy) /\ Clean(HandleSendingBlocks) /\ Clean(GetOrCreateBlockchain)
  BY <1>1, <1>2, <1>4
  DEF Clean, StartAntiEntropy, HandleSendingBlocks, GetOrCreateBlockchain, SelectRandomPeer
<1>6. /\ Clean(Simple) /\ Clean(PrivateMsg) /\ Clean(Forward) /\ Clean(FlipCoin)
      /\ Clean(HandleConfirmedMessage)
  BY <1>1 DEF Clean, Simple, PrivateMsg, Forward, FlipCoin, SelectRandomPeer, HandleConfirmedMessage
<1> QED BY <1>5, <1>6

\* Every handler takes and gives back its mutexes in order, on every path.
LEMMA EveryHandler == \A h \in DOMAIN Handler : Clean(Handler[h])
<1>1. ASSUME NEW h \in DOMAIN Handler PROVE Clean(Handler[h])
  <2>1. CASE h \in {"rumor", "tlc", "block"}
    <3>1. Handler[h] \in {HandleRumor, HandleTLCMessage, HandleReceivingBlock}
      BY <2>1 DEF Handler
    <3> QED BY <3>1, UpdatingHandlers
  <2>2. CASE h \in {"status", "heartbeat", "clientRumor", "forwardUnknown", "sendTLC",
                    "sendTLCInRound", "roundAck"}
    <3>1. Handler[h] \in {StatusPaths, StartHeartbeat, ClientRumor, ForwardUnknown,
                          SendTLC(<<>>), SendTLC(Brief("status")), RoundTLCAck}
      BY <2>2 DEF Handler
    <3> QED BY <3>1, NestingHandlers
  <2>3. CASE h \in {"antiEntropy", "sendBlock", "clientVote", "simple", "private", "forward",
                    "flipCoin", "confirmed"}
    <3>1. Handler[h] \in {StartAntiEntropy, HandleSendingBlocks, GetOrCreateBlockchain, Simple,
                          PrivateMsg, Forward, FlipCoin, HandleConfirmedMessage}
      BY <2>3 DEF Handler
    <3> QED BY <3>1, PlainHandlers
  <2> QED BY <2>1, <2>2, <2>3 DEF Handler
<1> QED BY <1>1

-----------------------------------------------------------------------------
(* The invariant *)

\* Nobody has anything to do or holds anything.
LEMMA Initially == Init => IInv
<1> SUFFICES ASSUME Init PROVE IInv
  OBVIOUS
<1>1. Types /\ Exclusive /\ RouterVisits
  BY DEF Init, Types, Exclusive, RouterVisits, Goroutine
<1>2. ASSUME NEW t \in Goroutine PROVE Follows(job[t], Held(t), {})
  <2>1. job[t] = <<>> /\ Held(t) = {} /\ {} \in SUBSET Mutex
    BY DEF Init, Held, Goroutine
  <2> QED BY <2>1, Nothing
<1> QED BY <1>1, <1>2 DEF IInv, AllInOrder

\* A goroutine takes on a handler: it held nothing, having finished the last.
LEMMA BeginKeeps == ASSUME IInv, NEW t \in Thread, Begin(t) PROVE IInv'
<1>1. Types /\ Exclusive /\ AllInOrder /\ RouterVisits /\ t \in Goroutine
  BY DEF IInv, Goroutine
<1>0. PICK h \in Duty[t] : \E path \in Handler[h] : job' = [job EXCEPT ![t] = path]
  BY DEF Begin
<1>2. PICK path \in Handler[h] : job' = [job EXCEPT ![t] = path]
  BY <1>0
<1>3. job[t] = <<>> /\ holder' = holder
  BY DEF Begin
<1>4. Follows(path, {}, {})
  <2>1. h \in DOMAIN Handler
    BY DutyAssumption
  <2> QED BY <2>1, EveryHandler DEF Clean
<1>5. path \in Seq(Operation)
  BY <1>4 DEF Follows
<1>6. Held(t) = {}
  <2>1. Follows(<<>>, Held(t), {}) /\ Held(t) \in SUBSET Mutex /\ {} \in SUBSET Mutex
    BY <1>1, <1>3 DEF AllInOrder, Held
  <2> QED BY <2>1, Nothing
<1>7. Types'
  BY <1>1, <1>2, <1>3, <1>5 DEF Types
<1>8. Exclusive'
  BY <1>1, <1>3 DEF Exclusive
<1>9. ASSUME NEW u \in Goroutine PROVE Follows(job'[u], Held(u)', {})
  <2>1. Held(u)' = Held(u)
    BY <1>3 DEF Held
  <2>2. job'[u] = IF u = t THEN path ELSE job[u]
    BY <1>1, <1>2 DEF Types
  <2> QED BY <1>1, <1>4, <1>6, <2>1, <2>2 DEF AllInOrder
<1>10. RouterVisits'
  <2>1. t # Router /\ job'[Router] = job[Router]
    BY <1>1, <1>2, DutyAssumption DEF Types, Goroutine
  <2> QED BY <1>1, <2>1 DEF RouterVisits, StartRouting, Brief, Visit
<1> QED BY <1>7, <1>8, <1>9, <1>10 DEF IInv, AllInOrder

\* The first operation of t's job is done and the mutexes are handed over
\* accordingly: what everybody has left is in order.
LEMMA OneStep ==
  ASSUME IInv, NEW t \in Goroutine, job[t] # <<>>,
         job' = [job EXCEPT ![t] = Tail(job[t])],
         \A u \in Goroutine : Held(u)' = IF u = t THEN After(Head(job[t]), Held(t)) ELSE Held(u)
  PROVE  AllInOrder' /\ RouterVisits' /\ job' \in [Goroutine -> Seq(Operation)]
<1>1. Types /\ AllInOrder /\ RouterVisits
  BY DEF IInv
<1>2. Follows(job[t], Held(t), {}) /\ Held(t) \in SUBSET Mutex
  BY <1>1 DEF AllInOrder, Held
<1>3. Tail(job[t]) \in Seq(Operation) /\ Follows(Tail(job[t]), After(Head(job[t]), Held(t)), {})
  BY <1>2, Rest
<1>4. job' \in [Goroutine -> Seq(Operation)]
  BY <1>1, <1>3 DEF Types
<1>5. ASSUME NEW u \in Goroutine PROVE Follows(job'[u], Held(u)', {})
  <2>1. CASE u = t
    <3>1. job'[u] = Tail(job[t]) /\ Held(u)' = After(Head(job[t]), Held(t))
      BY <1>1, <2>1 DEF Types
    <3> QED BY <1>3, <3>1
  <2>2. CASE u # t
    <3>1. job'[u] = job[u] /\ Held(u)' = Held(u)
      BY <1>1, <2>2 DEF Types
    <3> QED BY <1>1, <3>1 DEF AllInOrder
  <2> QED BY <2>1, <2>2
<1>6. RouterVisits'
  <2>1. CASE t = Router
    <3>1. job[t] = <<Visit("dsdv")>>
      BY <1>1, <2>1 DEF RouterVisits, StartRouting, Brief
    <3>2. Tail(job[t]) = <<>>
      BY <3>1
    <3>3. job'[Router] = <<>>
      BY <1>1, <2>1, <3>2 DEF Types
    <3> QED BY <3>3 DEF RouterVisits
  <2>2. CASE t # Router
    <3>1. job'[Router] = job[Router]
      BY <1>1, <2>2 DEF Types, Goroutine
    <3> QED BY <1>1, <3>1 DEF RouterVisits, StartRouting, Brief, Visit
  <2> QED BY <2>1, <2>2
<1> QED BY <1>4, <1>5, <1>6 DEF AllInOrder

\* The operation that somebody is about to do, under what it holds.
LEMMA NextOperation ==
  ASSUME IInv, NEW t \in Goroutine, job[t] # <<>>
  PROVE  Head(job[t]) \in Operation /\ InOrder(Head(job[t]), Held(t))
<1>1. Follows(job[t], Held(t), {}) /\ Held(t) \in SUBSET Mutex
  BY DEF IInv, AllInOrder, Held
<1> QED BY <1>1, Rest

\* A mutex nobody holds is taken.
LEMMA AcquireKeeps == ASSUME IInv, NEW t \in Goroutine, Acquire(t) PROVE IInv'
<1>1. Types /\ Exclusive /\ job[t] # <<>> /\ Head(job[t]) \in Operation
  BY NextOperation DEF IInv, Acquire, Wants
<1>2. PICK l \in Mutex : l = Head(job[t]).on
  BY <1>1 DEF Operation
<1>3. /\ Head(job[t]).op = "lock" /\ holder[l] = {}
      /\ holder' = [holder EXCEPT ![l] = {t}]
      /\ job' = [job EXCEPT ![t] = Tail(job[t])]
  BY <1>2 DEF Acquire, Wants
<1>4. \A m \in Mutex : holder'[m] = IF m = l THEN {t} ELSE holder[m]
  BY <1>1, <1>3 DEF Types
<1>5. holder' \in [Mutex -> SUBSET (Goroutine \cup {Returned})]
  BY <1>1, <1>3 DEF Types
<1>6. Exclusive'
  BY <1>1, <1>4 DEF Exclusive
<1>7. After(Head(job[t]), Held(t)) = Held(t) \cup {l}
  BY <1>2, <1>3 DEF After
<1>8. \A u \in Goroutine : Held(u)' = IF u = t THEN After(Head(job[t]), Held(t)) ELSE Held(u)
  BY <1>3, <1>4, <1>7 DEF Held
<1>9. AllInOrder' /\ RouterVisits' /\ job' \in [Goroutine -> Seq(Operation)]
  BY <1>1, <1>3, <1>8, OneStep
<1> QED BY <1>5, <1>6, <1>9 DEF IInv, Types

\* A short section leaves the mutexes as they are.
LEMMA PassKeeps == ASSUME IInv, NEW t \in Goroutine, Pass(t) PROVE IInv'
<1>1. Types /\ Exclusive /\ job[t] # <<>> /\ Head(job[t]).op = "visit"
  BY DEF IInv, Pass, Wants
<1>2. holder' = holder /\ job' = [job EXCEPT ![t] = Tail(job[t])]
  BY DEF Pass
<1>3. After(Head(job[t]), Held(t)) = Held(t)
  BY <1>1 DEF After
<1>4. \A u \in Goroutine : Held(u)' = IF u = t THEN After(Head(job[t]), Held(t)) ELSE Held(u)
  BY <1>2, <1>3 DEF Held
<1>5. AllInOrder' /\ RouterVisits' /\ job' \in [Goroutine -> Seq(Operation)]
  BY <1>1, <1>2, <1>4, OneStep
<1>6. Exclusive' /\ holder' \in [Mutex -> SUBSET (Goroutine \cup {Returned})]
  BY <1>1, <1>2 DEF Exclusive, Types
<1> QED BY <1>5, <1>6 DEF IInv, Types

\* Whoever lets go of a mutex, by Unlock or by returning, was alone in it.
LEMMA LettingGo ==
  ASSUME IInv, NEW t \in Goroutine, job[t] # <<>>, Head(job[t]).op \in {"unlock", "leave"},
         NEW l \in Mutex, l = Head(job[t]).on, NEW left \in SUBSET {Returned},
         \A u, v \in left : u = v,
         holder' = [holder EXCEPT ![l] = left],
         job' = [job EXCEPT ![t] = Tail(job[t])]
  PROVE  IInv'
<1>1. Types /\ Exclusive
  BY DEF IInv
<1>2. t \in holder[l]
  BY NextOperation DEF InOrder, Held
<1>3. \A u \in Goroutine : u # t => u \notin holder[l]
  BY <1>1, <1>2 DEF Exclusive
<1>4. \A m \in Mutex : holder'[m] = IF m = l THEN left ELSE holder[m]
  BY <1>1 DEF Types
<1>5. holder' \in [Mutex -> SUBSET (Goroutine \cup {Returned})]
  BY <1>1 DEF Types
<1>6. Exclusive'
  BY <1>1, <1>4 DEF Exclusive
<1>7. After(Head(job[t]), Held(t)) = Held(t) \ {l}
  BY DEF After
<1>8. \A u \in Goroutine : u \notin left
  BY DutyAssumption DEF Goroutine
<1>9. \A u \in Goroutine : Held(u)' = IF u = t THEN After(Head(job[t]), Held(t)) ELSE Held(u)
  <2>1. Held(t)' = Held(t) \ {l}
    BY <1>4, <1>8 DEF Held
  <2>2. \A u \in Goroutine : u # t => Held(u)' = Held(u)
    BY <1>3, <1>4, <1>8 DEF Held
  <2> QED BY <1>7, <2>1, <2>2
<1>10. AllInOrder' /\ RouterVisits' /\ job' \in [Goroutine -> Seq(Operation)]
  BY <1>9, OneStep
<1> QED BY <1>5, <1>6, <1>10 DEF IInv, Types

\* Unlock, and ForwardPkt's return.
LEMMA ReleaseKeeps ==
  ASSUME IInv, NEW t \in Goroutine, Release(t) \/ Return(t) PROVE IInv'
<1>1. job[t] # <<>> /\ Head(job[t]).op \in {"unlock", "leave"}
  BY DEF Release, Return, Wants
<1>2. Head(job[t]) \in Operation
  BY <1>1, NextOperation
<1>3. PICK l \in Mutex : l = Head(job[t]).on
  BY <1>2 DEF Operation
<1>4. job' = [job EXCEPT ![t] = Tail(job[t])]
  BY DEF Release, Return
<1>5. PICK left \in SUBSET {Returned} :
        holder' = [holder EXCEPT ![l] = left]
  BY <1>3 DEF Release, Return
<1> QED BY <1>1, <1>3, <1>4, <1>5, LettingGo

\* The router, idle, is handed an entry by somebody who holds nothing.
LEMMA FeedKeeps == ASSUME IInv, NEW t \in Goroutine, FeedRouter(t) PROVE IInv'
<1>1. Types /\ Exclusive /\ AllInOrder /\ RouterVisits
  BY DEF IInv
<1>2. /\ job[t] # <<>> /\ Head(job[t]).op = "feed" /\ job[Router] = <<>> /\ holder' = holder
      /\ t # Router
  BY DEF FeedRouter, Wants
<1>3. job' = [job EXCEPT ![t] = Tail(job[t]), ![Router] = StartRouting]
  BY DEF FeedRouter
<1>4. Follows(StartRouting, {}, {}) /\ StartRouting \in Seq(Operation)
  BY Sections DEF StartRouting, Mutex, Follows
<1>5. Held(Router) = {}
  <2>1. Router \in Goroutine
    BY DEF Goroutine
  <2>2. Follows(<<>>, Held(Router), {}) /\ Held(Router) \in SUBSET Mutex /\ {} \in SUBSET Mutex
    BY <1>1, <1>2, <2>1 DEF AllInOrder, Held
  <2> QED BY <2>2, Nothing
<1>6. Tail(job[t]) \in Seq(Operation) /\ Follows(Tail(job[t]), Held(t), {})
  <2>1. After(Head(job[t]), Held(t)) = Held(t)
    BY <1>2 DEF After
  <2>2. Follows(job[t], Held(t), {}) /\ Held(t) \in SUBSET Mutex
    BY <1>1 DEF AllInOrder, Held
  <2> QED BY <1>2, <2>1, <2>2, Rest
<1>7. \A u \in Goroutine : Held(u)' = Held(u)
  BY <1>2 DEF Held
<1>8. job' \in [Goroutine -> Seq(Operation)]
  BY <1>1, <1>3, <1>4, <1>6 DEF Types
<1>9. \A u \in Goroutine :
        job'[u] = IF u = Router THEN StartRouting ELSE IF u = t THEN Tail(job[t]) ELSE job[u]
  BY <1>1, <1>3 DEF Types
<1>10. AllInOrder'
  BY <1>1, <1>4, <1>5, <1>6, <1>7, <1>9 DEF AllInOrder
<1>11. RouterVisits'
  BY <1>9 DEF RouterVisits, Goroutine, StartRouting, Brief, Visit
<1>12. Exclusive' /\ holder' \in [Mutex -> SUBSET (Goroutine \cup {Returned})]
  BY <1>1, <1>2 DEF Exclusive, Types
<1> QED BY <1>8, <1>10, <1>11, <1>12 DEF IInv, Types

\* Every step keeps the invariant.
THEOREM Invariance == Spec => []IInv
<1>1. Init => IInv
  BY Initially
<1>2. ASSUME IInv, [Next]_vars PROVE IInv'
  <2>1. ASSUME NEW t \in Thread, Begin(t) PROVE IInv'
    BY <1>2, <2>1, BeginKeeps
  <2>2. ASSUME NEW t \in Goroutine, Step(t) PROVE IInv'
    <3>1. Acquire(t) \/ Pass(t) \/ Release(t) \/ Return(t) \/ FeedRouter(t)
      BY <2>2 DEF Step
    <3> QED BY <1>2, <3>1, AcquireKeeps, PassKeeps, ReleaseKeeps, FeedKeeps
  <2>3. CASE UNCHANGED vars
    BY <1>2, <2>3
    DEF vars, IInv, Types, Exclusive, AllInOrder, Held, RouterVisits, StartRouting, Brief, Visit
  <2> QED BY <1>2, <2>1, <2>2, <2>3 DEF Next, Goroutine
<1> QED BY <1>1, <1>2, PTL DEF Spec
-----------------------------------------------------------------------------
(* Circles *)

\* Somebody who wants a mutex.
Locking(t) == Wants(t, "lock") \/ Wants(t, "visit")
Height(t) == Level(Head(job[t]).on)

\* In a circle without a reversal, whoever wants a mutex waits for somebody who
\* wants a higher one.
LEMMA Climbs ==
  ASSUME IInv, NEW set \in SUBSET Goroutine, Circular(set), \A t \in set : ~Reversed(t),
         NEW t \in set, Locking(t)
  PROVE  \E u \in set : Locking(u) /\ Height(t) < Height(u)
<1>1. job[t] # <<>> /\ Head(job[t]) \in Operation
  BY NextOperation DEF Locking, Wants
<1>2. PICK l \in Mutex : l = Head(job[t]).on
  BY <1>1 DEF Operation
<1>3. WaitsFor(t) = holder[l]
  <2>1. ~Wants(t, "feed")
    BY DEF Wants, Locking
  <2> QED BY <1>2, <2>1 DEF WaitsFor, Locking
<1>4. PICK u \in set : u \in holder[l]
  BY <1>3 DEF Circular
<1>5. l \in Held(u)
  BY <1>4 DEF Held
<1>6. WaitsFor(u) # {}
  BY DEF Circular
<1>7. job[u] # <<>> /\ (Locking(u) \/ Head(job[u]).op = "feed")
  BY <1>6 DEF WaitsFor, Locking, Wants
<1>8. InOrder(Head(job[u]), Held(u))
  BY <1>7, NextOperation
<1>9. Head(job[u]).op # "feed"
  BY <1>5, <1>8 DEF InOrder
<1>10. Locking(u) /\ Head(job[u]).op \in {"lock", "visit"}
  BY <1>7, <1>9 DEF Locking, Wants
<1>11. Level(l) < Level(Head(job[u]).on) \/ (l = "rumors" /\ Head(job[u]).on = "status")
  BY <1>5, <1>8, <1>10 DEF InOrder
<1>12. ~(l = "rumors" /\ Head(job[u]).on = "status")
  BY <1>4, <1>10 DEF Reversed, Locking
<1> QED BY <1>2, <1>10, <1>11, <1>12 DEF Height

\* Goroutines wait for each other in a circle only through the reversed nesting.
THEOREM CirclesAreReversals == Spec => []CircleNeedsReversal
<1>1. ASSUME IInv, NEW set \in SUBSET Goroutine, Circular(set), \A t \in set : ~Reversed(t)
      PROVE  FALSE
  <2>1. ASSUME NEW t \in set, Locking(t) PROVE Height(t) \in 1..4
    <3>1. Head(job[t]) \in Operation
      BY <1>1, <2>1, NextOperation DEF Locking, Wants
    <3> QED BY <3>1 DEF Height, Level, Operation, Mutex
  <2>2. \A t \in set : Locking(t) => \E u \in set : Locking(u) /\ Height(t) < Height(u)
    BY <1>1, Climbs
  <2>3. \A t \in set : Locking(t) => Height(t) < 4
    BY <2>1, <2>2
  <2>4. \A t \in set : Locking(t) => Height(t) < 3
    BY <2>1, <2>2, <2>3
  <2>5. \A t \in set : Locking(t) => Height(t) < 2
    BY <2>1, <2>2, <2>4
  <2>6. \A t \in set : ~Locking(t)
    BY <2>1, <2>2, <2>5
  <2>7. PICK t \in set : TRUE
    BY <1>1 DEF Circular
  <2>8. WaitsFor(t) \cap set # {}
    BY <1>1 DEF Circular
  <2>9. job[Router] # <<>> /\ Router \in set
    BY <2>6, <2>8 DEF WaitsFor, Locking
  <2>10. job[Router] = <<Visit("dsdv")>>
    BY <1>1, <2>9 DEF IInv, RouterVisits, StartRouting, Brief
  <2>11. Head(job[Router]) = Visit("dsdv")
    BY <2>10
  <2>12. Locking(Router)
    BY <2>9, <2>11 DEF Locking, Wants, Visit
  <2> QED BY <2>6, <2>9, <2>12
<1>2. IInv => CircleNeedsReversal
  BY <1>1 DEF CircleNeedsReversal, Goroutine
<1> QED BY <1>2, Invariance, PTL
-----------------------------------------------------------------------------
(* The channels that mongering goroutines wait at, and the mutexes around them *)

MongerState == {Idle} \cup [pc : {"register", "wait", "expire"}, message : Message]
                      \cup [pc : {"answered"}, message : Message, isSync : BOOLEAN,
                            nextID : NextID]

AckerState == {Idle} \cup [pc : {"start", "second", "origin", "send", "end"},
                           peer : Peer, want : Want, provides : BOOLEAN, isSync : BOOLEAN,
                           todo : SUBSET Origin, at : Origin \cup {Nobody}, sends : Nat]

\* The type invariant.
TypeOK == /\ next \in [Origin -> NextID]
          /\ monger \in [Monger -> MongerState]
          /\ chs \in [Key -> Monger \cup {Nobody}]
          /\ open \subseteq Monger
          /\ acker \in [Acker -> AckerState]
          /\ recorded \in [Peer -> [Origin -> NextID]]
          /\ statusesMux \in Acker \cup {Nobody}
          /\ chsMux \in Acker \cup {Nobody}
          /\ crashed \in BOOLEAN

\* From the first origin to the last Ack holds both mutexes, before it the one
\* of PeerStatuses.
HoldsItsMuxes(k) ==
  /\ At(k, "second") => statusesMux = k
  /\ At(k, "origin") \/ At(k, "send") => statusesMux = k /\ chsMux = k

\* While there are answers to send, the channel they were counted for is there.
CountedIsRegistered(k) ==
  At(k, "send") /\ acker[k].sends > 0 =>
    acker[k].at \in Origin /\ Registered(k, acker[k].at) # Nobody

AckersInv == \A k \in Acker : HoldsItsMuxes(k) /\ CountedIsRegistered(k)

MongeringInv == TypeOK /\ AckersInv /\ EntriesAreLive
-----------------------------------------------------------------------------
(* The records of the goroutines *)

\* Every message has a key, and so does whatever Ack looks up.
LEMMA KeysOfMessages ==
  /\ \A m \in Lookup : KeyOf[m] \in Key
  /\ Message \subseteq Lookup
<1>1. \A m \in Lookup : KeyOf[m] \in Key
  BY KeyAssumption DEF Key, Range
<1>2. ID \subseteq NextID
  BY CountAssumption DEF ID, NextID
<1> QED BY <1>1, <1>2 DEF Message, Lookup

\* A mongering goroutine that is under way has a message, and its key.
LEMMA MongerFields ==
  ASSUME TypeOK, NEW g \in Monger
  PROVE  /\ monger[g] \in MongerState
         /\ monger[g].pc = "idle" => monger[g] = Idle
         /\ monger[g].pc \in {"register", "wait", "expire", "answered"} =>
              monger[g] # Idle /\ monger[g].message \in Message /\ MyKey(g) \in Key
<1>1. monger[g] \in MongerState
  BY DEF TypeOK
<1>2. monger[g].message \in Message => MyKey(g) \in Key
  BY KeysOfMessages DEF MyKey
<1> QED BY <1>1, <1>2 DEF MongerState, Idle

\* A goroutine Ack that is under way has all its fields.
LEMMA AckerFields ==
  ASSUME TypeOK, NEW k \in Acker, acker[k] # Idle
  PROVE  acker[k] \in [pc : {"start", "second", "origin", "send", "end"},
                       peer : Peer, want : Want, provides : BOOLEAN, isSync : BOOLEAN,
                       todo : SUBSET Origin, at : Origin \cup {Nobody}, sends : Nat]
BY DEF TypeOK, AckerState

\* A message to another peer is a message.
LEMMA MessageToOther ==
  ASSUME NEW m \in Message, NEW p \in Peer
  PROVE  [m EXCEPT ![1] = p] \in Message
<1>1. PICK q \in Peer, o \in Origin, i \in ID : m = <<q, o, i>>
  BY DEF Message
<1>2. [m EXCEPT ![1] = p] = <<p, o, i>>
  BY <1>1
<1> QED BY <1>2 DEF Message

\* Starting a goroutine touches no entry: none is an idle goroutine's.
LEMMA StartKeepsEntries ==
  ASSUME TypeOK, EntriesAreLive, NEW m \in Message, MongerRumor(m), chs' = chs, open' = open
  PROVE  monger' \in [Monger -> MongerState] /\ EntriesAreLive'
<1>1. PICK g \in Monger : monger[g] = Idle /\ monger' = [monger EXCEPT ![g] = Started(m)]
  BY DEF MongerRumor
<1>2. Started(m) \in MongerState
  BY DEF Started, MongerState
<1>3. monger' \in [Monger -> MongerState]
  BY <1>1, <1>2 DEF TypeOK
<1>4. ASSUME NEW e \in Key, chs[e] # Nobody
      PROVE  chs[e] \in Monger /\ monger'[chs[e]] = monger[chs[e]]
  <2>1. chs[e] \in Monger /\ monger[chs[e]].pc \in {"wait", "expire", "answered"}
    BY <1>4 DEF TypeOK, EntriesAreLive
  <2>2. monger[g].pc = "idle"
    BY <1>1 DEF Idle
  <2>3. chs[e] # g
    BY <2>1, <2>2
  <2> QED BY <2>1, <2>3, <1>1 DEF TypeOK
<1>5. EntriesAreLive'
  BY <1>4 DEF EntriesAreLive, MyKey
<1> QED BY <1>3, <1>5

\* What a goroutine leaves alone stays true of it.
LEMMA AckerUndisturbed ==
  ASSUME NEW k \in Acker, HoldsItsMuxes(k), CountedIsRegistered(k), acker'[k] = acker[k],
         chs' = chs,
         statusesMux' = statusesMux \/ (acker[k] = Idle \/ acker[k].pc \in {"start", "end"}),
         chsMux' = chsMux \/ (acker[k] = Idle \/ acker[k].pc \in {"start", "second", "end"})
  PROVE  HoldsItsMuxes(k)' /\ CountedIsRegistered(k)'
BY DEF HoldsItsMuxes, CountedIsRegistered, At, Registered, Wanted
-----------------------------------------------------------------------------
(* One lemma for the steps of each goroutine *)

\* The goroutines of MongerRumor run only while Ack holds no mutex of AckChs,
\* or leave AckChs alone.
LEMMA MongerStepKeeps ==
  ASSUME MongeringInv, NEW g \in Monger, MongerStep(g)
  PROVE  MongeringInv'
<1> USE DEF MongeringInv, MyKey
<1>0. /\ monger[g] \in MongerState
      /\ monger[g].pc \in {"register", "wait", "expire", "answered"} =>
              monger[g] # Idle /\ monger[g].message \in Message /\ MyKey(g) \in Key
  BY MongerFields
<1>1. ASSUME acker' = acker, statusesMux' = statusesMux, chsMux' = chsMux,
             chs' = chs \/ chsMux = Nobody
      PROVE  AckersInv'
  <2> SUFFICES ASSUME NEW k \in Acker
               PROVE  HoldsItsMuxes(k)' /\ CountedIsRegistered(k)'
    BY DEF AckersInv
  <2>1. HoldsItsMuxes(k) /\ CountedIsRegistered(k)
    BY DEF AckersInv
  <2>2. CASE chs' = chs
    BY <2>1, <2>2, <1>1, AckerUndisturbed
  <2>3. CASE chsMux = Nobody
    <3>1. k # Nobody
      BY SlotsAssumption
    <3> QED BY <3>1, <2>1, <2>3, <1>1 DEF HoldsItsMuxes, CountedIsRegistered, At
  <2> QED BY <2>2, <2>3, <1>1
<1>2. CASE Register(g)
  <2>1. MyKey(g) \in Key
    BY <1>0, <1>2 DEF Register
  <2>2. [monger[g] EXCEPT !.pc = "wait"] \in MongerState
    <3>1. monger[g] \in [pc : {"register", "wait", "expire"}, message : Message]
      BY <1>0, <1>2 DEF Register, MongerState, Idle
    <3> QED BY <3>1 DEF MongerState
  <2>3. TypeOK'
    <3>1. monger' = [monger EXCEPT ![g] = [monger[g] EXCEPT !.pc = "wait"]]
      BY <1>2 DEF Register
    <3> QED BY <1>2, <2>1, <2>2, <3>1 DEF Register, TypeOK, muxVars
  <2>4. AckersInv'
    BY <1>2, <1>1 DEF Register, muxVars
  <2>5. ASSUME NEW e \in Key, chs'[e] # Nobody
        PROVE  /\ chs'[e] \in open'
               /\ monger'[chs'[e]].pc \in {"wait", "expire", "answered"}
               /\ KeyOf[monger'[chs'[e]].message] = e
    <3>1. CASE chs'[e] = g /\ e = MyKey(g)
      BY <3>1, <1>2 DEF Register, TypeOK
    <3>2. CASE e # MyKey(g)
      <4>1. chs'[e] = chs[e]
        BY <3>2, <1>2 DEF Register, TypeOK
      <4>2. /\ chs[e] \in open
            /\ monger[chs[e]].pc \in {"wait", "expire", "answered"}
            /\ MyKey(chs[e]) = e
        BY <4>1, <2>5 DEF EntriesAreLive
      <4>3. chs[e] # g
        BY <4>2, <1>2 DEF Register
      <4> QED BY <4>1, <4>2, <4>3, <1>2 DEF Register, TypeOK
    <3>3. e = MyKey(g) => chs'[e] = g
      BY <2>1, <1>2 DEF Register, TypeOK
    <3> QED BY <3>1, <3>2, <3>3
  <2> QED BY <2>3, <2>4, <2>5 DEF EntriesAreLive
<1>3. CASE Timeout(g)
  <2>1. monger[g] \in [pc : {"register", "wait", "expire"}, message : Message]
    BY <1>0, <1>3 DEF Timeout, MongerState, Idle
  <2>2. [monger[g] EXCEPT !.pc = "expire"] \in MongerState
    BY <2>1 DEF MongerState
  <2>3. monger' = [monger EXCEPT ![g] = [monger[g] EXCEPT !.pc = "expire"]]
    BY <1>3 DEF Timeout
  <2>4. TypeOK'
    BY <1>3, <2>2, <2>3 DEF Timeout, TypeOK, muxVars
  <2>5. AckersInv'
    BY <1>3, <1>1 DEF Timeout, muxVars
  <2>6. monger'[g].pc = "expire" /\ monger'[g].message = monger[g].message
    BY <2>1, <2>3 DEF TypeOK
  <2>7. \A h \in Monger : h # g => monger'[h] = monger[h]
    BY <2>3 DEF TypeOK
  <2>8. EntriesAreLive'
    BY <2>6, <2>7, <1>3 DEF Timeout, EntriesAreLive, TypeOK
  <2> QED BY <2>4, <2>5, <2>8
<1>4. ASSUME Retire(g), MyKey(g) \in Key,
             \A h \in Monger : h # g => monger'[h] = monger[h]
      PROVE  /\ chs' \in [Key -> Monger \cup {Nobody}]
             /\ open' \subseteq Monger
             /\ EntriesAreLive'
  <2>1. \A e \in Key : chs'[e] = IF e = MyKey(g) THEN Nobody ELSE chs[e]
    BY <1>4 DEF Retire, TypeOK
  <2>2. ASSUME NEW e \in Key, chs'[e] # Nobody
        PROVE  /\ chs'[e] \in open'
               /\ monger'[chs'[e]].pc \in {"wait", "expire", "answered"}
               /\ KeyOf[monger'[chs'[e]].message] = e
    <3>1. chs'[e] = chs[e] /\ e # MyKey(g) /\ chs[e] \in Monger
      BY <2>1, <2>2 DEF TypeOK
    <3>2. /\ chs[e] \in open
          /\ monger[chs[e]].pc \in {"wait", "expire", "answered"}
          /\ MyKey(chs[e]) = e
      BY <3>1, <2>2 DEF EntriesAreLive
    <3>3. chs[e] # g
      BY <3>1, <3>2
    <3>4. monger'[chs[e]] = monger[chs[e]]
      BY <3>1, <3>3, <1>4
    <3>5. chs[e] \in open'
      BY <3>2, <3>3, <1>4 DEF Retire
    <3> QED BY <3>1, <3>2, <3>4, <3>5
  <2> QED BY <2>2, <1>4 DEF EntriesAreLive, Retire, TypeOK
<1>5. CASE Expire(g)
  <2>1. MyKey(g) \in Key /\ monger[g].message \in Message
    BY <1>0, <1>5 DEF Expire
  <2>2. PICK to \in {Idle} \cup {Started([monger[g].message EXCEPT ![1] = p]) :
                                 p \in Peer \ {monger[g].message[1]}} :
          monger' = [monger EXCEPT ![g] = to]
    BY <1>5 DEF Expire, FlipCoinMonger
  <2>3. to \in MongerState
    BY <2>1, MessageToOther DEF MongerState, Started
  <2>4. TypeOK'
    BY <1>5, <1>4, <2>1, <2>2, <2>3 DEF Expire, TypeOK, muxVars
  <2>5. AckersInv'
    BY <1>5, <1>1 DEF Expire, muxVars
  <2>6. EntriesAreLive'
    BY <1>5, <1>4, <2>1, <2>2 DEF Expire, TypeOK
  <2> QED BY <2>4, <2>5, <2>6
<1>6. CASE Answered(g)
  <2>1. MyKey(g) \in Key
    BY <1>0, <1>6 DEF Answered
  <2>2. Idle \in MongerState
    BY DEF MongerState
  <2>3. /\ monger' \in [Monger -> MongerState]
        /\ \A h \in Monger : h # g => monger'[h] = monger[h]
        /\ crashed' \in BOOLEAN
    <3>1. CASE ~(~monger[g].isSync /\ monger[g].nextID >= monger[g].message[3])
      BY <3>1, <1>6 DEF Answered, TypeOK
    <3>2. CASE ~monger[g].isSync /\ monger[g].nextID >= monger[g].message[3]
      <4>1. monger' = [monger EXCEPT ![g] = Idle] /\ crashed' = crashed
        BY <3>2, <1>6 DEF Answered
      <4> QED BY <2>2, <4>1 DEF TypeOK
    <3> QED BY <3>1, <3>2
  <2>4. TypeOK'
    BY <1>6, <1>4, <2>1, <2>3 DEF Answered, TypeOK, muxVars
  <2>5. AckersInv'
    BY <1>6, <1>1 DEF Answered, muxVars
  <2>6. EntriesAreLive'
    BY <1>6, <1>4, <2>1, <2>3 DEF Answered
  <2> QED BY <2>4, <2>5, <2>6
<1> QED BY <1>2, <1>3, <1>5, <1>6 DEF MongerStep

\* The goroutines that start others, and the packets, leave AckChs alone.
LEMMA LearnKeeps ==
  ASSUME MongeringInv, Learn
  PROVE  MongeringInv'
<1> USE DEF MongeringInv
<1>1. AckersInv' /\ chs' = chs /\ open' = open /\ acker' = acker /\ UNCHANGED muxVars
  <2>1. chs' = chs /\ open' = open /\ acker' = acker /\ UNCHANGED muxVars
    BY DEF Learn, mongerVars
  <2> QED BY <2>1, AckerUndisturbed DEF AckersInv, muxVars
<1>2. PICK o \in Origin, p \in Peer :
        /\ next[o] <= Count[o]
        /\ next' = [next EXCEPT ![o] = @ + 1]
        /\ MongerRumor(<<p, o, next[o]>>)
  BY DEF Learn
<1>t. next[o] \in NextID /\ Count[o] \in 0..MaxID
  BY CountAssumption DEF TypeOK
<1>3. next[o] \in ID /\ next[o] + 1 \in NextID
  BY <1>2, <1>t, CountAssumption DEF ID, NextID
<1>4. <<p, o, next[o]>> \in Message
  BY <1>3 DEF Message
<1>5. monger' \in [Monger -> MongerState] /\ EntriesAreLive'
  BY <1>1, <1>2, <1>4, StartKeepsEntries
<1>6. TypeOK'
  BY <1>1, <1>2, <1>3, <1>5 DEF Learn, TypeOK, muxVars
<1> QED BY <1>1, <1>5, <1>6

\* What goroutine k does to itself, and to mutexes that are free or its own,
\* disturbs no other goroutine of HandleStatus.
LEMMA OneAckerMoves ==
  ASSUME MongeringInv, NEW k \in Acker, NEW a \in AckerState,
         acker' = [acker EXCEPT ![k] = a], chs' = chs,
         statusesMux' = statusesMux \/ statusesMux \in {Nobody, k},
         chsMux' = chsMux \/ chsMux \in {Nobody, k},
         HoldsItsMuxes(k)', CountedIsRegistered(k)'
  PROVE  AckersInv' /\ acker' \in [Acker -> AckerState]
<1> USE DEF MongeringInv
<1>1. ASSUME NEW j \in Acker, j # k
      PROVE  HoldsItsMuxes(j)' /\ CountedIsRegistered(j)'
  <2>1. acker'[j] = acker[j] /\ HoldsItsMuxes(j) /\ CountedIsRegistered(j) /\ j # Nobody
    BY <1>1, SlotsAssumption DEF AckersInv, TypeOK
  <2> QED BY <2>1, <1>1 DEF HoldsItsMuxes, CountedIsRegistered, At, Registered, Wanted
<1> QED BY <1>1 DEF AckersInv, TypeOK

\* An answer counted is an answer to a channel.
LEMMA AnswersCount ==
  ASSUME TypeOK, NEW k \in Acker, acker[k] # Idle, NEW o \in Origin
  PROVE  /\ Answers(k, o) \in Nat
         /\ Answers(k, o) > 0 => Registered(k, o) # Nobody
<1>1. acker[k].peer \in Peer /\ acker[k].want \in Want
  BY AckerFields
<1>2. recorded[acker[k].peer][o] \in Int /\ acker[k].want[o] \in Int
  BY <1>1, CountAssumption DEF TypeOK, Want, NextID
<1>3. Cardinality(recorded[acker[k].peer][o]..acker[k].want[o]) \in Nat
  BY <1>2, FS_Interval, FS_CardinalityType
<1> QED BY <1>3 DEF Answers, Cardinality, IsFiniteSet

\* A status packet is served by two goroutines, Ack and ProvideMongering.
LEMMA AckStepKeeps ==
  ASSUME MongeringInv, NEW k \in Acker, HandleStatus(k) \/ AckStep(k)
  PROVE  MongeringInv'
<1> USE DEF MongeringInv
<1>0. /\ HoldsItsMuxes(k) /\ CountedIsRegistered(k) /\ k # Nobody
      /\ acker[k] \in AckerState
  BY SlotsAssumption DEF AckersInv, TypeOK
<1>f. acker[k] # Idle =>
        acker[k] \in [pc : {"start", "second", "origin", "send", "end"},
                       peer : Peer, want : Want, provides : BOOLEAN, isSync : BOOLEAN,
                       todo : SUBSET Origin, at : Origin \cup {Nobody}, sends : Nat]
  BY AckerFields
<1>i. Idle \in AckerState
  BY DEF AckerState
<1>1. CASE HandleStatus(k)
  <2>1. PICK p \in Peer, want \in Want :
          acker' = [acker EXCEPT ![k] =
            [pc |-> "start", peer |-> p, want |-> want, provides |-> Ahead(want) # {},
             isSync |-> Ahead(want) = {} /\ Behind(want) = {},
             todo |-> {o \in Origin : want[o] # 1}, at |-> Nobody, sends |-> 0]]
    BY <1>1 DEF HandleStatus
  <2>2. PICK a : a = [pc |-> "start", peer |-> p, want |-> want, provides |-> Ahead(want) # {},
             isSync |-> Ahead(want) = {} /\ Behind(want) = {},
             todo |-> {o \in Origin : want[o] # 1}, at |-> Nobody, sends |-> 0]
    OBVIOUS
  <2>3. a \in AckerState /\ a.pc = "start"
    BY <2>2 DEF AckerState
  <2>4. acker' = [acker EXCEPT ![k] = a] /\ acker'[k] = a
    BY <2>1, <2>2 DEF TypeOK
  <2>5. UNCHANGED <<next, monger, chs, open, recorded, muxVars, crashed>>
    BY <1>1 DEF HandleStatus, mongerVars
  <2>6. HoldsItsMuxes(k)' /\ CountedIsRegistered(k)'
    BY <2>3, <2>4 DEF HoldsItsMuxes, CountedIsRegistered, At
  <2>7. AckersInv' /\ acker' \in [Acker -> AckerState]
    BY <2>3, <2>4, <2>5, <2>6, OneAckerMoves DEF muxVars
  <2> QED BY <2>5, <2>7 DEF TypeOK, EntriesAreLive, MyKey, muxVars
<1>2. CASE ProvideMongering(k)
  <2>1. PICK o \in Ahead(acker[k].want) : MongerRumor(<<acker[k].peer, o, acker[k].want[o]>>)
    BY <1>2 DEF ProvideMongering
  <2>2. acker[k].want \in Want /\ acker[k].peer \in Peer
    BY <1>2, <1>f DEF ProvideMongering
  <2>3. o \in Origin /\ next[o] \in NextID /\ acker[k].want[o] \in NextID
        /\ next[o] > acker[k].want[o]
    BY <2>1, <2>2 DEF Ahead, TypeOK, Want
  <2>4. acker[k].want[o] \in ID
    BY <2>3, CountAssumption DEF ID, NextID
  <2>5. <<acker[k].peer, o, acker[k].want[o]>> \in Message
    BY <2>2, <2>3, <2>4 DEF Message
  <2>6. UNCHANGED <<next, chs, open, recorded, muxVars, crashed>>
    BY <1>2 DEF ProvideMongering
  <2>7. monger' \in [Monger -> MongerState] /\ EntriesAreLive'
    BY <2>1, <2>5, <2>6, StartKeepsEntries
  <2>8. PICK a : a = [acker[k] EXCEPT !.provides = FALSE]
    OBVIOUS
  <2>9. /\ a \in AckerState /\ a # Idle /\ a.pc = acker[k].pc /\ a.sends = acker[k].sends
        /\ a.at = acker[k].at /\ a.peer = acker[k].peer /\ a.want = acker[k].want
    BY <2>8, <1>2, <1>f DEF ProvideMongering, AckerState, Idle
  <2>10. acker' = [acker EXCEPT ![k] = a] /\ acker'[k] = a /\ acker[k] # Idle
    BY <2>8, <1>2 DEF ProvideMongering, TypeOK
  <2>11. HoldsItsMuxes(k)' /\ CountedIsRegistered(k)'
    BY <1>0, <2>6, <2>9, <2>10 DEF HoldsItsMuxes, CountedIsRegistered, At, Registered, Wanted, muxVars
  <2>12. AckersInv' /\ acker' \in [Acker -> AckerState]
    BY <2>6, <2>9, <2>10, <2>11, OneAckerMoves DEF muxVars
  <2> QED BY <2>6, <2>7, <2>12 DEF TypeOK, muxVars
<1>3. ASSUME UNCHANGED <<next, monger, chs, open, crashed>>,
             acker[k] # Idle, recorded' \in [Peer -> [Origin -> NextID]],
             NEW a \in AckerState, acker' = [acker EXCEPT ![k] = a],
             statusesMux' \in {Nobody, k, statusesMux},
             statusesMux' = statusesMux \/ statusesMux \in {Nobody, k},
             chsMux' \in {Nobody, k, chsMux},
             chsMux' = chsMux \/ chsMux \in {Nobody, k},
             HoldsItsMuxes(k)', CountedIsRegistered(k)'
      PROVE  MongeringInv'
  <2>1. AckersInv' /\ acker' \in [Acker -> AckerState]
    BY <1>3, OneAckerMoves
  <2>2. TypeOK'
    BY <1>3, <2>1 DEF TypeOK
  <2>3. EntriesAreLive'
    BY <1>3 DEF EntriesAreLive, MyKey
  <2> QED BY <2>1, <2>2, <2>3
<1>4. CASE AckLocks(k)
  <2>1. PICK pc \in {"second", "origin"} :
          /\ acker' = [acker EXCEPT ![k] = [acker[k] EXCEPT !.pc = pc]]
          /\ pc = "second" => /\ acker[k].pc = "start"
                              /\ statusesMux = Nobody /\ statusesMux' = k /\ chsMux' = chsMux
          /\ pc = "origin" => /\ acker[k].pc = "second"
                              /\ chsMux = Nobody /\ chsMux' = k /\ statusesMux' = statusesMux
    BY <1>4 DEF AckLocks, To, At
  <2>2. acker[k] # Idle /\ UNCHANGED <<next, monger, chs, open, recorded, crashed>>
    BY <1>4 DEF AckLocks, At, mongerVars
  <2>3. PICK a : a = [acker[k] EXCEPT !.pc = pc]
    OBVIOUS
  <2>4. a \in AckerState /\ a.pc = pc
    BY <2>2, <2>3, <1>f DEF AckerState
  <2>5. acker' = [acker EXCEPT ![k] = a] /\ acker'[k] = a
    BY <2>1, <2>3 DEF TypeOK
  <2>6. HoldsItsMuxes(k)' /\ CountedIsRegistered(k)'
    BY <1>0, <2>1, <2>2, <2>4, <2>5 DEF HoldsItsMuxes, CountedIsRegistered, At
  <2>7. recorded' \in [Peer -> [Origin -> NextID]]
    BY <2>2 DEF TypeOK
  <2> QED BY <1>3, <2>1, <2>2, <2>4, <2>5, <2>6, <2>7
<1>5. CASE AckOrigin(k)
  <2>1. PICK o \in acker[k].todo :
          acker' = [acker EXCEPT ![k] = [acker[k] EXCEPT !.pc = "send", !.at = o,
                                                         !.sends = Answers(k, o)]]
    BY <1>5 DEF AckOrigin
  <2>2. acker[k] # Idle /\ acker[k].pc = "origin"
        /\ UNCHANGED <<next, monger, chs, open, recorded, muxVars, crashed>>
    BY <1>5 DEF AckOrigin, At, mongerVars
  <2>3. o \in Origin
    BY <2>1, <2>2, <1>f
  <2>4. Answers(k, o) \in Nat /\ (Answers(k, o) > 0 => Registered(k, o) # Nobody)
    BY <2>2, <2>3, AnswersCount
  <2>5. PICK a : a = [acker[k] EXCEPT !.pc = "send", !.at = o, !.sends = Answers(k, o)]
    OBVIOUS
  <2>6. /\ a \in AckerState /\ a.pc = "send" /\ a.at = o /\ a.sends = Answers(k, o)
        /\ a.peer = acker[k].peer /\ a.want = acker[k].want
    BY <2>2, <2>3, <2>4, <2>5, <1>f DEF AckerState
  <2>7. acker' = [acker EXCEPT ![k] = a] /\ acker'[k] = a
    BY <2>1, <2>5 DEF TypeOK
  <2>8. HoldsItsMuxes(k)'
    BY <1>0, <2>2, <2>6, <2>7 DEF HoldsItsMuxes, At, muxVars
  <2>9. CountedIsRegistered(k)'
    BY <2>2, <2>3, <2>4, <2>6, <2>7 DEF CountedIsRegistered, At, Registered, Wanted
  <2>10. recorded' \in [Peer -> [Origin -> NextID]]
    BY <2>2 DEF TypeOK
  <2> QED BY <1>3, <2>2, <2>6, <2>7, <2>8, <2>9, <2>10 DEF muxVars
<1>6. CASE AckSend(k)
  <2>1. acker[k] # Idle /\ acker[k].pc = "send" /\ acker[k].sends > 0
        /\ UNCHANGED <<next, chs, open, recorded, muxVars, crashed>>
    BY <1>6 DEF AckSend, At
  <2>2. PICK g : g = Registered(k, acker[k].at)
    OBVIOUS
  <2>3. acker[k].at \in Origin /\ g # Nobody
    BY <1>0, <2>1, <2>2 DEF CountedIsRegistered, At
  <2>4. g \in Monger /\ acker[k].want[acker[k].at] \in NextID
    <3>1. acker[k].peer \in Peer /\ acker[k].want[acker[k].at] \in NextID
      BY <2>1, <2>3, <1>f DEF Want
    <3>2. Wanted(k, acker[k].at) \in Lookup
      BY <2>3, <3>1 DEF Wanted, Lookup
    <3> QED BY <2>2, <2>3, <3>1, <3>2, KeysOfMessages DEF Registered, TypeOK
  <2>5. PICK w : w = [pc |-> "answered", message |-> monger[g].message,
                      isSync |-> acker[k].isSync, nextID |-> acker[k].want[acker[k].at]]
    OBVIOUS
  <2>6. monger[g].pc = "wait" /\ monger' = [monger EXCEPT ![g] = w]
    BY <1>6, <2>2, <2>5 DEF AckSend
  <2>7. monger[g].message \in Message
    BY <2>4, <2>6, MongerFields
  <2>8. w \in MongerState /\ w.pc = "answered" /\ w.message = monger[g].message
    BY <2>1, <2>4, <2>5, <2>7, <1>f DEF MongerState
  <2>9. /\ monger' \in [Monger -> MongerState]
        /\ monger'[g].pc = "answered" /\ monger'[g].message = monger[g].message
        /\ \A h \in Monger : h # g => monger'[h] = monger[h]
    BY <2>4, <2>6, <2>8 DEF TypeOK
  <2>10. EntriesAreLive'
    BY <2>1, <2>9 DEF EntriesAreLive, TypeOK, MyKey
  <2>11. PICK a : a = [acker[k] EXCEPT !.sends = @ - 1]
    OBVIOUS
  <2>12. /\ a \in AckerState /\ a.pc = "send" /\ a.at = acker[k].at
         /\ a.peer = acker[k].peer /\ a.want = acker[k].want
    BY <2>1, <2>11, <1>f DEF AckerState
  <2>13. acker' = [acker EXCEPT ![k] = a] /\ acker'[k] = a
    BY <2>11, <1>6 DEF AckSend, TypeOK
  <2>14. HoldsItsMuxes(k)' /\ CountedIsRegistered(k)'
    BY <1>0, <2>1, <2>12, <2>13 DEF HoldsItsMuxes, CountedIsRegistered, At, Registered, Wanted, muxVars
  <2>15. AckersInv' /\ acker' \in [Acker -> AckerState]
    BY <2>1, <2>12, <2>13, <2>14, OneAckerMoves DEF muxVars
  <2> QED BY <2>1, <2>9, <2>10, <2>15 DEF TypeOK, muxVars
<1>7. CASE AckRecord(k)
  <2>1. acker[k] # Idle /\ acker[k].pc = "send"
        /\ UNCHANGED <<next, monger, chs, open, muxVars, crashed>>
    BY <1>7 DEF AckRecord, At, mongerVars
  <2>2. PICK o : o = acker[k].at
    OBVIOUS
  <2>3. /\ recorded' = [recorded EXCEPT ![acker[k].peer][o] = acker[k].want[o]]
        /\ acker' = [acker EXCEPT ![k] = [acker[k] EXCEPT !.pc = "origin", !.todo = @ \ {o}]]
    BY <1>7, <2>2 DEF AckRecord
  <2>4. acker[k].peer \in Peer /\ acker[k].want \in [Origin -> NextID]
    BY <2>1, <1>f DEF Want
  <2>5. recorded' \in [Peer -> [Origin -> NextID]]
    BY <2>3, <2>4 DEF TypeOK
  <2>6. PICK a : a = [acker[k] EXCEPT !.pc = "origin", !.todo = @ \ {o}]
    OBVIOUS
  <2>7. a \in AckerState /\ a.pc = "origin"
    BY <2>1, <2>6, <1>f DEF AckerState
  <2>8. acker' = [acker EXCEPT ![k] = a] /\ acker'[k] = a
    BY <2>3, <2>6 DEF TypeOK
  <2>9. HoldsItsMuxes(k)' /\ CountedIsRegistered(k)'
    BY <1>0, <2>1, <2>7, <2>8 DEF HoldsItsMuxes, CountedIsRegistered, At, muxVars
  <2> QED BY <1>3, <2>1, <2>5, <2>7, <2>8, <2>9 DEF muxVars
<1>8. CASE AckUnlock(k)
  <2>1. acker[k] # Idle /\ acker[k].pc = "origin"
        /\ statusesMux' = Nobody /\ chsMux' = Nobody
        /\ UNCHANGED <<next, monger, chs, open, recorded, crashed>>
    BY <1>8 DEF AckUnlock, At, mongerVars
  <2>2. statusesMux = k /\ chsMux = k
    BY <1>0, <2>1 DEF HoldsItsMuxes, At
  <2>3. PICK a : a = [acker[k] EXCEPT !.pc = "end"]
    OBVIOUS
  <2>4. a \in AckerState /\ a.pc = "end"
    BY <2>1, <2>3, <1>f DEF AckerState
  <2>5. acker' = [acker EXCEPT ![k] = a] /\ acker'[k] = a
    BY <2>3, <1>8 DEF AckUnlock, To, TypeOK
  <2>6. HoldsItsMuxes(k)' /\ CountedIsRegistered(k)'
    BY <2>4, <2>5 DEF HoldsItsMuxes, CountedIsRegistered, At
  <2>7. recorded' \in [Peer -> [Origin -> NextID]]
    BY <2>1 DEF TypeOK
  <2> QED BY <1>3, <2>1, <2>2, <2>4, <2>5, <2>6, <2>7
<1>9. CASE Served(k)
  <2>1. acker[k] # Idle /\ acker' = [acker EXCEPT ![k] = Idle]
        /\ UNCHANGED <<next, monger, chs, open, recorded, muxVars, crashed>>
    BY <1>9 DEF Served, At, mongerVars
  <2>2. acker'[k] = Idle
    BY <2>1 DEF TypeOK
  <2>3. HoldsItsMuxes(k)' /\ CountedIsRegistered(k)'
    BY <2>2 DEF HoldsItsMuxes, CountedIsRegistered, At
  <2>4. recorded' \in [Peer -> [Origin -> NextID]]
    BY <2>1 DEF TypeOK
  <2> QED BY <1>3, <1>i, <2>1, <2>3, <2>4 DEF muxVars
<1> QED BY <1>1, <1>2, <1>4, <1>5, <1>6, <1>7, <1>8, <1>9 DEF AckStep
-----------------------------------------------------------------------------
\* The invariant holds from the start, and every step keeps it.
THEOREM MongeringInvariance == MongeringSpec => []MongeringInv
<1>1. MongeringInit => MongeringInv
  <2> SUFFICES ASSUME MongeringInit PROVE MongeringInv
    OBVIOUS
  <2>1. 1 \in NextID
    BY CountAssumption DEF NextID
  <2>2. TypeOK
    BY <2>1 DEF MongeringInit, TypeOK, MongerState, AckerState
  <2>3. AckersInv
    BY DEF MongeringInit, AckersInv, HoldsItsMuxes, CountedIsRegistered, At
  <2>4. EntriesAreLive
    BY DEF MongeringInit, EntriesAreLive
  <2> QED BY <2>2, <2>3, <2>4 DEF MongeringInv
<1>2. MongeringInv /\ [MongeringNext]_allVars => MongeringInv'
  <2> SUFFICES ASSUME MongeringInv, [MongeringNext]_allVars PROVE MongeringInv'
    OBVIOUS
  <2>1. CASE UNCHANGED allVars
    BY <2>1 DEF allVars, mongerVars, muxVars, MongeringInv, TypeOK, AckersInv, HoldsItsMuxes,
                CountedIsRegistered, At, Registered, Wanted, EntriesAreLive, MyKey
  <2> QED BY <2>1, LearnKeeps, MongerStepKeeps, AckStepKeeps DEF MongeringNext
<1> QED BY <1>1, <1>2, PTL DEF MongeringSpec

\* Ack never sends on a closed channel, and whoever it answers waits under the
\* key that was looked up.  Of the looked-up origin and peer that is the
\* looked-up message itself (statusHandler.go:73-77, mongerHandler.go:46-49,
\* 63-66, 78-81).
THEOREM AnswersFindTheirChannel == MongeringSpec => []SendsFindTheirChannel
<1>1. ASSUME MongeringInv, NEW k \in Acker, At(k, "send"), acker[k].sends > 0,
             NEW g, g = Registered(k, acker[k].at),
             NEW answered, answered = monger[g].message,
             NEW wanted, wanted = Wanted(k, acker[k].at)
      PROVE  /\ g \in open
             /\ KeyOf[answered] = KeyOf[wanted]
             /\ answered[1] = wanted[1] /\ answered[2] = wanted[2] => answered = wanted
  <2> USE DEF MongeringInv
  <2>1. acker[k].at \in Origin /\ g # Nobody
    BY <1>1 DEF AckersInv, CountedIsRegistered
  <2>2. /\ wanted = <<acker[k].peer, acker[k].at, acker[k].want[acker[k].at]>>
        /\ acker[k].peer \in Peer /\ acker[k].want[acker[k].at] \in NextID
    BY <1>1, <2>1, AckerFields DEF Wanted, Want, At
  <2>3. wanted \in Lookup /\ KeyOf[wanted] \in Key /\ g = chs[KeyOf[wanted]]
    <3>1. wanted \in Lookup
      BY <2>1, <2>2 DEF Lookup
    <3> QED BY <1>1, <3>1, KeysOfMessages DEF Registered
  <2>4. g \in open /\ monger[g].pc \in {"wait", "expire", "answered"} /\ MyKey(g) = KeyOf[wanted]
    BY <1>1, <2>1, <2>3 DEF EntriesAreLive, MyKey
  <2>5. answered \in Message /\ KeyOf[answered] = KeyOf[wanted]
    BY <1>1, <2>4, MongerFields DEF TypeOK, MyKey
  <2>6. PICK p \in Peer, o \in Origin, i \in NextID : answered = <<p, o, i>>
    BY <2>5, KeysOfMessages DEF Lookup
  <2>7. answered[1] = wanted[1] /\ answered[2] = wanted[2] => answered = wanted
    BY <2>1, <2>2, <2>5, <2>6, KeyAssumption
  <2> QED BY <2>4, <2>5, <2>7
<1>2. MongeringInv => SendsFindTheirChannel
  BY <1>1 DEF SendsFindTheirChannel
<1> QED BY <1>2, MongeringInvariance, PTL

\* A registered channel is open, and its goroutine waits for the answer or is
\* about to retire it: AckChs never holds a dead entry (mongerHandler.go:47-49,
\* 63-66, 78-81).
THEOREM EntriesStayLive == MongeringSpec => []EntriesAreLive
BY MongeringInvariance, PTL DEF MongeringInv
=============================================================================
