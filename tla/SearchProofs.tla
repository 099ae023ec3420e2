---------------------------- MODULE SearchProofs ----------------------------
(***************************************************************************)
(* For all gossipers, peer lists, files, downloads and budgets: whose      *)
(* listings can end the searcher, what its listen loop can wait for, how   *)
(* far a budget goes, and where a request can come twice.                  *)
(***************************************************************************)
EXTENDS Search, FiniteSetTheorems, WellFoundedInduction, TLAPS

\* The numbers that chunks are listed under.
Places == UNION {1..f.chunks \cup {Place(i) : i \in 1..f.chunks} : f \in File}

Result == [name : Name, hash : Hash, total : Nat, listed : SUBSET Places]
Reply == [origin : Node, results : SUBSET Result]
Request == [dst : Node, relayer : Node, budget : 1..MaxUint]
Record == (SUBSET Places) \cup {None}
Table == UNION {[Wanted[n] -> Nat \cup {None}] : n \in Node}
Collector == [pc : {"none", "start", "range", "results", "locate", "clear", "gone"},
              ch : {0, 1, None}, origin : Node \cup {None}, left : SUBSET Result,
              now : Result \cup {None}, closed : BOOLEAN]

\* The flood and the downloads.
FloodTypes ==
  /\ short \in {{}, Short} /\ peers \in Topologies
  /\ got \in [Node -> Table]
  /\ \A n \in Node : got[n] \in [Wanted[n] -> Nat \cup {None}]
  /\ \A n \in Node : \A f \in Wanted[n] : got[n][f] \in 0..f.chunks \cup {None}
  /\ requests \subseteq Request
  /\ remembered \in [Node -> BOOLEAN] /\ locked \in [Node -> BOOLEAN]
  /\ issued \in Nat /\ served \in Nat /\ late \in BOOLEAN

\* The goroutines of the searcher and their channel.
SearcherTypes ==
  /\ replies \subseteq Reply
  /\ searchPc \in {"idle", "replace", "wait", "done"} /\ budget \in 1..MaxUint
  /\ replyCh \in {0, 1, None}
  /\ listen # None => listen \in [ch : {0, 1}, reply : Reply]
  /\ collector \in Collector
  /\ collector.pc = "results" => collector.origin \in Node

\* What the searcher has found.
FoundTypes ==
  /\ record \in [Name -> Record]
  /\ finished \subseteq Name
  /\ targetHash \in [Name -> Hash \cup {None}]
  /\ \A f \in Name : record[f] # None => targetHash[f] # None
  /\ target \in [Hash -> [listed : SUBSET Places, at : Node] \cup {None}]
  /\ collector.pc = "locate" => /\ collector.origin \in Node /\ collector.now \in Result
                                /\ targetHash[collector.now.name] # None
  /\ download \in Hash \cup {None} /\ died \in BOOLEAN

Types == FloodTypes /\ SearcherTypes /\ FoundTypes

\* A result is what some gossiper listed: all of a file that it has indexed, or
\* as much of one as it had downloaded.
ListedBy(r, n) ==
  \/ \E f \in Shared[n] : r.name = f.name /\ r.hash = f.hash /\ r.listed = 1..f.chunks
  \/ \E f \in Wanted[n] : r.name = f.name /\ r.hash = f.hash /\ got[n][f] # None
Listed(r) == \E n \in Node : ListedBy(r, n)

ResultsInv ==
  /\ \A reply \in replies : \A r \in reply.results : Listed(r)
  /\ listen # None => \A r \in listen.reply.results : Listed(r)
  /\ \A r \in collector.left : Listed(r)
  /\ collector.pc = "locate" => Listed(collector.now)

\* What has a place was listed by who has indexed it, or by a downloader whose
\* listing is in fileRecord.
Located(h) ==
  \/ \E n \in Node : \E f \in Shared[n] : f.hash = h /\ target[h].listed = 1..f.chunks
  \/ \E n \in Node : \E f \in Wanted[n] : f.hash = h /\ got[n][f] # None /\ record[f.name] # None

TargetInv == /\ \A h \in Hash : target[h] # None => Located(h)
             /\ download # None => Located(download)

\* The goroutine that collects begins with the search and ends with its success;
\* the channel made at start is the one before the search has replaced it.
LoopInv ==
  /\ searchPc = "idle" <=> collector.pc = "none"
  /\ searchPc = "replace" => collector.pc \in {"start", "range"}
  /\ searchPc \in {"idle", "replace"} =>
       requests = {} /\ replies = {} /\ listen = None /\ replyCh = 0
  /\ searchPc \in {"wait", "done"} => replyCh \in {1, None}
  /\ replyCh = None => collector.closed
  /\ collector.pc \in {"none", "start"} => ~collector.closed
  /\ collector.pc \in {"clear", "gone"} => collector.closed
  /\ collector.pc \in {"range", "results", "locate"} /\ ~collector.closed => collector.ch \in {0, 1}
  /\ listen # None => listen.ch = 1

IInv == Types /\ ResultsInv /\ TargetInv /\ LoopInv /\ OnlyDownloadersKill
-----------------------------------------------------------------------------
(* The flood *)

\* A budget of at least one for each peer is split into shares of at least one.
LEMMA Shares ==
  ASSUME NEW total \in 1..MaxUint, NEW chosen, IsFiniteSet(chosen), chosen # {},
         Cardinality(chosen) <= total, NEW share \in Split(total, chosen), NEW p \in chosen
  PROVE  DOMAIN share = chosen /\ share[p] \in 1..MaxUint
<1>1. PICK k \in Nat : k = Cardinality(chosen)
  BY FS_CardinalityType
<1>2. k # 0
  BY <1>1, FS_EmptySet
<1>3. PICK lucky \in SUBSET chosen :
        /\ Cardinality(lucky) = total % k
        /\ share = [x \in chosen |-> total \div k + (IF x \in lucky THEN 1 ELSE 0)]
  BY <1>1 DEF Split, kSubset
<1>4. total \in Nat /\ total <= MaxUint /\ k <= total /\ MaxUint \in Nat
  BY <1>1, SearchAssumption
<1>5. /\ \A a \in Nat : \A b \in Nat \ {0} : a >= b =>
           a \div b \in Nat /\ a \div b >= 1 /\ a \div b <= a
      /\ \A a \in Nat : \A b \in Nat \ {0} : a >= b /\ a % b # 0 => a \div b + 1 <= a
  OBVIOUS
<1>6. PICK d \in Nat, m \in Int : d = total \div k /\ m = total % k
  BY <1>2, <1>4, <1>5
<1>7. d >= 1 /\ d <= total
  BY <1>2, <1>4, <1>5, <1>6
<1>8. m # 0 => d + 1 <= total
  BY <1>2, <1>4, <1>5, <1>6
<1>9. p \in lucky => m # 0
  <2>1. m = 0 => lucky = {}
    <3>1. IsFiniteSet(lucky)
      BY FS_Subset
    <3> QED BY <1>3, <1>6, <3>1, FS_EmptySet
  <2> QED BY <2>1
<1>10. share[p] = d + (IF p \in lucky THEN 1 ELSE 0)
  BY <1>3, <1>6
<1> QED BY <1>3, <1>4, <1>7, <1>8, <1>9, <1>10

\* What is sent for a budget: requests, each with a budget of its own.
LEMMA Sending ==
  ASSUME peers \in Topologies, NEW n \in Node, NEW excluded, NEW total \in 1..MaxUint,
         NEW sent \in Distribute(n, excluded, total)
  PROVE  sent \subseteq Request
<1>1. SUFFICES ASSUME NEW q \in sent PROVE q \in Request
  OBVIOUS
<1>2. PICK available : available = peers[n] \ excluded
  OBVIOUS
<1>3. available \subseteq Node /\ IsFiniteSet(available) /\ available # {}
  <2>1. available \subseteq Node /\ IsFiniteSet(Node)
    BY <1>2, SearchAssumption
  <2>2. available # {}
    BY <1>1, <1>2 DEF Distribute
  <2> QED BY <2>1, <2>2, FS_Subset
<1>4. PICK share \in UNION {Split(total, chosen) : chosen \in RandomPeers(available, total)} :
        sent = {[dst |-> p, relayer |-> n, budget |-> share[p]] : p \in DOMAIN share}
  BY <1>2, <1>3, Zenon DEF Distribute
<1>5. PICK chosen \in RandomPeers(available, total) : share \in Split(total, chosen)
  BY <1>4
<1>6. Cardinality(available) \in Nat /\ Cardinality(available) # 0
  BY <1>3, FS_CardinalityType, FS_EmptySet
<1>7. /\ chosen \subseteq available /\ IsFiniteSet(chosen)
      /\ Cardinality(chosen) = IF total > Cardinality(available) THEN Cardinality(available) ELSE total
  BY <1>3, FS_Subset DEF RandomPeers, kSubset
<1>8. total \in Nat /\ total >= 1
  BY SearchAssumption
<1>9. Cardinality(chosen) <= total /\ Cardinality(chosen) # 0
  BY <1>6, <1>7, <1>8
<1>10. chosen # {}
  BY <1>9, FS_EmptySet
<1>11. \A p \in chosen : DOMAIN share = chosen /\ share[p] \in 1..MaxUint
  BY <1>5, <1>7, <1>9, <1>10, Shares
<1>12. PICK p \in DOMAIN share : q = [dst |-> p, relayer |-> n, budget |-> share[p]]
  BY <1>1, <1>4
<1>13. p \in chosen
  BY <1>10, <1>11, <1>12
<1>14. p \in Node /\ share[p] \in 1..MaxUint
  BY <1>3, <1>7, <1>11, <1>13
<1> QED BY <1>12, <1>14 DEF Request
-----------------------------------------------------------------------------
(* What stays when nothing touches it *)

\* The invariant, part by part, where its variables stay as they are.
LEMMA Frames ==
  /\ FloodTypes /\ UNCHANGED <<flood, got>> => FloodTypes'
  /\ SearcherTypes /\ UNCHANGED <<replies, searching, replyCh, listen, collector>> => SearcherTypes'
  /\ FoundTypes /\ UNCHANGED <<found, collector, download, died>> => FoundTypes'
  /\ ResultsInv /\ UNCHANGED <<got, replies, listen, collector>> => ResultsInv'
  /\ TargetInv /\ UNCHANGED <<got, record, target, download>> => TargetInv'
  /\ LoopInv /\ UNCHANGED <<requests, replies, searchPc, replyCh, listen, collector>> => LoopInv'
  /\ ~died /\ UNCHANGED died => OnlyDownloadersKill'
<1>1. FloodTypes /\ UNCHANGED <<flood, got>> => FloodTypes'
  BY DEF FloodTypes, flood
<1>2. SearcherTypes /\ UNCHANGED <<replies, searching, replyCh, listen, collector>> => SearcherTypes'
  BY DEF SearcherTypes, searching
<1>3. FoundTypes /\ UNCHANGED <<found, collector, download, died>> => FoundTypes'
  BY DEF FoundTypes, found
<1>4. ResultsInv /\ UNCHANGED <<got, replies, listen, collector>> => ResultsInv'
  BY DEF ResultsInv, Listed, ListedBy
<1>5. TargetInv /\ UNCHANGED <<got, record, target, download>> => TargetInv'
  BY DEF TargetInv, Located
<1>6. LoopInv /\ UNCHANGED <<requests, replies, searchPc, replyCh, listen, collector>> => LoopInv'
  BY DEF LoopInv
<1>7. ~died /\ UNCHANGED died => OnlyDownloadersKill'
  BY DEF OnlyDownloadersKill
<1> QED BY <1>1, <1>2, <1>3, <1>4, <1>5, <1>6, <1>7

\* What was listed stays listed while the downloads go on.
LEMMA StillListed ==
  ASSUME \A n \in Node : \A f \in Wanted[n] : got[n][f] # None => got'[n][f] # None,
         NEW r, Listed(r)
  PROVE  Listed(r)'
BY DEF Listed, ListedBy

\* Names and hashes of files that somebody has.
LEMMA FilesOfAll ==
  ASSUME NEW n \in Node, NEW f \in Shared[n] \cup Wanted[n]
  PROVE  f \in File /\ f.name \in Name /\ f.hash \in Hash /\ f.chunks \in Nat \ {0}
<1>1. f \in File
  BY DEF File
<1> QED BY <1>1, SearchAssumption DEF Name, Hash

\* What a gossiper lists.
LEMMA ResultsListed ==
  ASSUME FloodTypes, NEW n \in Node, NEW r \in Results(n)
  PROVE  r \in Result /\ Listed(r)
<1>1. PICK f \in Shared[n] \cup {f \in Wanted[n] : got[n][f] # None} : r = Listing(n, f)
  BY DEF Results
<1>2. f \in Shared[n] \/ (f \in Wanted[n] /\ got[n][f] # None)
  BY <1>1
<1>3. f \in File /\ f.name \in Name /\ f.hash \in Hash /\ f.chunks \in Nat
  BY <1>2, FilesOfAll
<1>4. PICK listed : listed = IF f \in Shared[n] THEN 1..f.chunks
                                             ELSE {Place(i) : i \in 1..got[n][f]}
  OBVIOUS
<1>5. listed \in SUBSET Places
  <2>1. CASE f \in Shared[n]
    BY <1>3, <1>4, <2>1 DEF Places
  <2>2. CASE f \notin Shared[n]
    <3>1. got[n][f] \in 0..f.chunks
      BY <1>2, <2>2 DEF FloodTypes
    <3>2. \A i \in 1..got[n][f] : i \in 1..f.chunks
      BY <1>3, <3>1
    <3>3. \A i \in 1..f.chunks : Place(i) \in Places
      BY <1>3 DEF Places
    <3> QED BY <1>4, <2>2, <3>2, <3>3
  <2> QED BY <2>1, <2>2
<1>6. r = [name |-> f.name, hash |-> f.hash, total |-> f.chunks, listed |-> listed]
  BY <1>1, <1>4 DEF Listing
<1>7. r \in Result
  BY <1>3, <1>5, <1>6 DEF Result
<1>8. r.name = f.name /\ r.hash = f.hash /\ r.listed = listed
  BY <1>6
<1>9. ListedBy(r, n)
  BY <1>2, <1>4, <1>8 DEF ListedBy
<1> QED BY <1>7, <1>9 DEF Listed
-----------------------------------------------------------------------------
(* The steps of the flood *)

\* Before anything happens.
LEMMA Initially == Init => IInv
<1> SUFFICES ASSUME Init PROVE IInv
  OBVIOUS
<1>1. \A n \in Node : got[n] = [f \in Wanted[n] |-> None] /\ got[n] \in [Wanted[n] -> Nat \cup {None}]
  BY DEF Init
<1>2. got \in [Node -> Table]
  BY <1>1 DEF Init, Table
<1>3. FloodTypes
  BY <1>1, <1>2 DEF Init, FloodTypes
<1>4. collector \in Collector /\ collector.pc = "none" /\ collector.left = {} /\ ~collector.closed
  BY DEF Init, Idle, Collector
<1>5. SearcherTypes
  BY <1>4, SearchAssumption DEF Init, SearcherTypes
<1>6. FoundTypes
  <2>1. record \in [Name -> Record] /\ \A f \in Name : record[f] = None
    <3>1. record = [f \in Name |-> None]
      BY DEF Init
    <3>2. None \in Record
      BY DEF Record
    <3> QED BY <3>1, <3>2, Zenon
  <2>2. target \in [Hash -> [listed : SUBSET Places, at : Node] \cup {None}]
    BY DEF Init
  <2>3. targetHash \in [Name -> Hash \cup {None}]
    BY DEF Init
  <2>4. finished \subseteq Name /\ download \in Hash \cup {None} /\ died \in BOOLEAN
    BY DEF Init
  <2> QED BY <1>4, <2>1, <2>2, <2>3, <2>4 DEF FoundTypes
<1>7. ResultsInv
  BY <1>4 DEF Init, ResultsInv
<1>8. TargetInv
  BY DEF Init, TargetInv
<1>9. LoopInv
  BY <1>4, SearchAssumption DEF Init, LoopInv
<1>10. OnlyDownloadersKill
  BY DEF Init, OnlyDownloadersKill
<1> QED BY <1>3, <1>5, <1>6, <1>7, <1>8, <1>9, <1>10 DEF IInv, Types

\* A gossiper serves the request, or locks its mutex on one that comes again.
LEMMA HandleSearchKeeps == ASSUME IInv, NEW n \in Node, HandleSearch(n) PROVE IInv'
<1>1. FloodTypes /\ SearcherTypes /\ FoundTypes /\ ResultsInv /\ TargetInv /\ LoopInv
  BY DEF IInv, Types
<1>2. /\ UNCHANGED <<short, peers, issued, late, got, searching, replyCh, listen, collector, found,
                     download, died>>
      /\ ~died
  BY DEF HandleSearch
<1>3. PICK q \in requests :
        IF remembered[n]
        THEN /\ locked' = [locked EXCEPT ![n] = TRUE]
             /\ requests' = requests \ {q}
             /\ UNCHANGED <<remembered, served, replies>>
        ELSE LET left == (q.budget - 1) % (MaxUint + 1) IN
             /\ remembered' = [remembered EXCEPT ![n] = TRUE]
             /\ served' = served + 1
             /\ \E sent \in IF left > 0 THEN Relay(n, q, left) ELSE {{}} :
                  requests' = (requests \ {q}) \cup sent
             /\ replies' = replies \cup {[origin |-> n, results |-> Results(n)]}
             /\ UNCHANGED locked
  BY DEF HandleSearch
<1>4. PICK answer \in Reply : answer = [origin |-> n, results |-> Results(n)]
  BY <1>1, ResultsListed DEF Reply
<1>5. requests' \subseteq Request
  <2>1. CASE remembered[n]
    BY <1>1, <1>3, <2>1 DEF FloodTypes
  <2>2. CASE ~remembered[n]
    <3>1. PICK left : left = (q.budget - 1) % (MaxUint + 1)
      OBVIOUS
    <3>2. q.budget \in 1..MaxUint /\ MaxUint \in Nat
      BY <1>1, SearchAssumption DEF FloodTypes, Request
    <3>3. \A a \in Nat, b \in Nat \ {0} : a < b => a % b = a
      OBVIOUS
    <3>4. left = q.budget - 1
      BY <3>1, <3>2, <3>3
    <3>5. PICK sent \in IF left > 0 THEN Relay(n, q, left) ELSE {{}} :
            requests' = (requests \ {q}) \cup sent
      BY <1>3, <2>2, <3>1
    <3>6. left > 0 => left \in 1..MaxUint
      BY <3>2, <3>4
    <3>7. peers \in Topologies
      BY <1>1 DEF FloodTypes
    <3>8. sent \subseteq Request
      BY <3>5, <3>6, <3>7, Sending DEF Relay
    <3> QED BY <1>1, <3>5, <3>8 DEF FloodTypes
  <2> QED BY <2>1, <2>2
<1>6. remembered' \in [Node -> BOOLEAN] /\ locked' \in [Node -> BOOLEAN] /\ served' \in Nat
  <2>1. CASE remembered[n]
    BY <1>1, <1>3, <2>1 DEF FloodTypes
  <2>2. CASE ~remembered[n]
    <3>1. remembered' = [remembered EXCEPT ![n] = TRUE] /\ served' = served + 1 /\ locked' = locked
      BY <1>3, <2>2
    <3> QED BY <1>1, <3>1 DEF FloodTypes
  <2> QED BY <2>1, <2>2
<1>7. FloodTypes'
  BY <1>1, <1>2, <1>5, <1>6 DEF FloodTypes
<1>8. replies' \subseteq replies \cup {answer}
  BY <1>3, <1>4
<1>9. SearcherTypes'
  BY <1>1, <1>2, <1>8 DEF SearcherTypes, searching
<1>10. ResultsInv'
  <2>1. \A r \in answer.results : Listed(r)
    BY <1>1, <1>4, ResultsListed
  <2>2. \A reply \in replies \cup {answer} : \A r \in reply.results : Listed(r)
    BY <1>1, <2>1 DEF ResultsInv
  <2> QED BY <1>1, <1>2, <1>8, <2>2 DEF ResultsInv, Listed, ListedBy
<1>11. LoopInv'
  <2>1. searchPc \notin {"idle", "replace"}
    BY <1>1, <1>3 DEF LoopInv
  <2> QED BY <1>1, <1>2, <2>1 DEF LoopInv, searching
<1>12. FoundTypes' /\ TargetInv' /\ OnlyDownloadersKill'
  BY <1>1, <1>2, Frames DEF found
<1> QED BY <1>7, <1>9, <1>10, <1>11, <1>12 DEF IInv, Types

\* A request that came back, or the memory of one, is dropped.
LEMMA ForgettingKeeps ==
  ASSUME IInv, Ignore \/ \E n \in Node : Forget(n) PROVE IInv'
<1>1. FloodTypes /\ SearcherTypes /\ FoundTypes /\ ResultsInv /\ TargetInv /\ LoopInv
  BY DEF IInv, Types
<1>2. /\ UNCHANGED <<short, peers, locked, issued, served, late, got, replies, searching,
                     replyCh, listen, collector, found, download, died>>
      /\ ~died
  BY DEF Ignore, Forget
<1>3. requests' \subseteq requests
  BY DEF Ignore, Forget
<1>4. remembered' \in [Node -> BOOLEAN]
  BY <1>1 DEF Ignore, Forget, FloodTypes
<1>5. FloodTypes'
  BY <1>1, <1>2, <1>3, <1>4 DEF FloodTypes
<1>6. LoopInv'
  BY <1>1, <1>2, <1>3 DEF LoopInv, searching
<1>7. SearcherTypes' /\ FoundTypes' /\ ResultsInv' /\ TargetInv' /\ OnlyDownloadersKill'
  BY <1>1, <1>2, Frames DEF found, searching
<1> QED BY <1>5, <1>6, <1>7 DEF IInv, Types

\* A download goes on: it never takes back what it has listed.
LEMMA FetchKeeps == ASSUME IInv, NEW n \in Node, Fetch(n) PROVE IInv'
<1>1. FloodTypes /\ SearcherTypes /\ FoundTypes /\ ResultsInv /\ TargetInv /\ LoopInv
  BY DEF IInv, Types
<1>2. /\ UNCHANGED <<flood, replies, searching, replyCh, listen, collector, found, download, died>>
      /\ ~died
  BY DEF Fetch
<1>3. PICK f \in Wanted[n] :
        \/ got[n][f] = None /\ got' = [got EXCEPT ![n][f] = 0]
        \/ got[n][f] # None /\ got[n][f] < f.chunks /\ got' = [got EXCEPT ![n][f] = got[n][f] + 1]
  BY DEF Fetch
<1>4. PICK more \in Nat :
        more \in 0..f.chunks /\ got' = [got EXCEPT ![n][f] = more]
  <2>1. f.chunks \in Nat /\ got[n][f] \in 0..f.chunks \cup {None}
    BY <1>1, FilesOfAll DEF FloodTypes
  <2>2. CASE got[n][f] = None
    BY <1>3, <2>1, <2>2
  <2>3. CASE got[n][f] # None
    BY <1>3, <2>1, <2>3
  <2> QED BY <2>2, <2>3
<1>5. /\ got \in [Node -> Table] /\ got[n] \in [Wanted[n] -> Nat \cup {None}]
      /\ \A m \in Node : got[m] \in [Wanted[m] -> Nat \cup {None}]
  BY <1>1 DEF FloodTypes
<1>6. PICK table \in [Wanted[n] -> Nat \cup {None}] : table = [got[n] EXCEPT ![f] = more]
  BY <1>5
<1>7. got' = [got EXCEPT ![n] = table]
  BY <1>4, <1>6
<1>8. table \in Table
  BY <1>6 DEF Table
<1>9. got' \in [Node -> Table]
  BY <1>5, <1>7, <1>8
<1>10. \A m \in Node : got'[m] = IF m = n THEN table ELSE got[m]
  BY <1>5, <1>7
<1>11. \A m \in Node : got'[m] \in [Wanted[m] -> Nat \cup {None}]
  BY <1>5, <1>6, <1>10
<1>12. \A g \in Wanted[n] : table[g] = IF g = f THEN more ELSE got[n][g]
  BY <1>5, <1>6
<1>13. \A m \in Node : \A g \in Wanted[m] :
         got'[m][g] = IF m = n /\ g = f THEN more ELSE got[m][g]
  BY <1>10, <1>12
<1>14. \A m \in Node : \A g \in Wanted[m] : got'[m][g] \in 0..g.chunks \cup {None}
  BY <1>1, <1>4, <1>13 DEF FloodTypes
<1>15. FloodTypes'
  BY <1>1, <1>2, <1>9, <1>11, <1>14 DEF FloodTypes, flood
<1>16. \A m \in Node : \A g \in Wanted[m] : got[m][g] # None => got'[m][g] # None
  <2>1. more # None
    BY <1>4, SearchAssumption
  <2> QED BY <1>13, <2>1
<1>17. \A r : Listed(r) => Listed(r)'
  BY <1>16, StillListed
<1>18. ResultsInv'
  BY <1>1, <1>2, <1>17 DEF ResultsInv
<1>19. TargetInv'
  BY <1>1, <1>2, <1>16 DEF TargetInv, Located, found
<1>20. SearcherTypes' /\ FoundTypes' /\ LoopInv' /\ OnlyDownloadersKill'
  BY <1>1, <1>2, Frames DEF flood, found, searching
<1> QED BY <1>15, <1>18, <1>19, <1>20 DEF IInv, Types
-----------------------------------------------------------------------------
(* The steps of the searcher *)

\* A try: requests for a budget that is handed out.
LEMMA Trying ==
  ASSUME FloodTypes, NEW total \in 1..MaxUint, Trigger(total), UNCHANGED got
  PROVE  FloodTypes'
<1>1. PICK sent \in Distribute(Me, {}, total) : requests' = requests \cup sent
  BY DEF Trigger
<1>2. sent \subseteq Request
  BY <1>1, Sending, SearchAssumption DEF FloodTypes
<1>3. issued' \in Nat
  BY SearchAssumption DEF Trigger, FloodTypes
<1>4. late' \in BOOLEAN
  BY DEF Trigger, FloodTypes
<1>5. UNCHANGED <<short, peers, remembered, locked, served, got>>
  BY DEF Trigger
<1> QED BY <1>1, <1>2, <1>3, <1>4, <1>5 DEF FloodTypes

\* The search begins, replaces its channel, or has been told to end.
LEMMA SearchKeeps == ASSUME IInv, Search \/ Finish PROVE IInv'
<1>1. FloodTypes /\ SearcherTypes /\ FoundTypes /\ ResultsInv /\ TargetInv /\ LoopInv
  BY DEF IInv, Types
<1>2. /\ UNCHANGED <<flood, got, replies, budget, replyCh, listen, found, download, died>>
      /\ ~died
  BY DEF Search, Finish
<1>3. FloodTypes' /\ TargetInv' /\ OnlyDownloadersKill'
  BY <1>1, <1>2, Frames DEF found
<1>4. CASE Search
  <2>1. searchPc = "idle" /\ searchPc' = "replace" /\ collector' = [collector EXCEPT !.pc = "start"]
    BY <1>4 DEF Search
  <2>2. PICK c \in Collector : c = [collector EXCEPT !.pc = "start"]
    BY <1>1 DEF SearcherTypes, Collector
  <2>3. /\ c.pc = "start" /\ c.left = collector.left /\ c.closed = collector.closed
        /\ collector.pc = "none"
    BY <1>1, <2>1, <2>2 DEF SearcherTypes, Collector, LoopInv
  <2>4. collector' = c
    BY <2>1, <2>2
  <2>5. SearcherTypes' /\ FoundTypes'
    BY <1>1, <1>2, <2>1, <2>3, <2>4 DEF SearcherTypes, FoundTypes, found
  <2>6. ResultsInv'
    BY <1>1, <1>2, <2>3, <2>4 DEF ResultsInv, Listed, ListedBy
  <2>7. LoopInv'
    BY <1>1, <1>2, <2>1, <2>3, <2>4 DEF LoopInv, flood
  <2> QED BY <1>3, <2>5, <2>6, <2>7 DEF IInv, Types
<1>5. CASE Finish
  <2>1. searchPc = "wait" /\ searchPc' = "done" /\ collector' = collector
    BY <1>5 DEF Finish
  <2>2. SearcherTypes' /\ LoopInv'
    BY <1>1, <1>2, <2>1 DEF SearcherTypes, LoopInv, flood
  <2>3. FoundTypes' /\ ResultsInv'
    BY <1>1, <1>2, <2>1, Frames
  <2> QED BY <1>3, <2>2, <2>3 DEF IInv, Types
<1> QED BY <1>4, <1>5

\* The first try, with the search's own channel, and the later ones.
LEMMA TryKeeps == ASSUME IInv, ReplaceCh \/ Tick PROVE IInv'
<1>1. FloodTypes /\ SearcherTypes /\ FoundTypes /\ ResultsInv /\ TargetInv /\ LoopInv
  BY DEF IInv, Types
<1>2. UNCHANGED <<got, replies, listen, collector, found, download, died>> /\ ~died
  BY DEF ReplaceCh, Tick
<1>3. FoundTypes' /\ ResultsInv' /\ TargetInv' /\ OnlyDownloadersKill'
  BY <1>1, <1>2, Frames DEF found
<1>4. CASE ReplaceCh
  <2>1. searchPc = "replace" /\ searchPc' = "wait" /\ replyCh' = 1 /\ Trigger(budget) /\ budget' = budget
    BY <1>4 DEF ReplaceCh
  <2>2. FloodTypes'
    BY <1>1, <1>2, <2>1, Trying DEF SearcherTypes
  <2>3. SearcherTypes'
    BY <1>1, <1>2, <2>1 DEF SearcherTypes
  <2>4. LoopInv'
    <3>1. None # 1
      BY SearchAssumption
    <3> QED BY <1>1, <1>2, <2>1, <3>1 DEF LoopInv
  <2> QED BY <1>3, <2>2, <2>3, <2>4 DEF IInv, Types
<1>5. CASE Tick
  <2>1. PICK b : b = (2 * budget) % (MaxUint + 1)
    OBVIOUS
  <2>2. /\ budget < MaxBudget /\ budget' = b /\ Trigger(b)
        /\ searchPc = "wait" /\ UNCHANGED <<searchPc, replyCh>>
    BY <1>5, <2>1 DEF Tick
  <2>3. b \in 1..MaxUint
    <3>1. \A x \in Nat, y \in Nat \ {0} : x < y => x % y = x
      OBVIOUS
    <3>2. budget \in Nat /\ budget >= 1 /\ MaxUint \in Nat /\ MaxBudget \in Nat /\ 2 * MaxBudget <= MaxUint
      BY <1>1, SearchAssumption DEF SearcherTypes
    <3>3. 2 * budget \in Nat /\ 2 * budget < MaxUint + 1 /\ MaxUint + 1 \in Nat \ {0}
      BY <2>2, <3>2
    <3>4. b = 2 * budget
      BY <2>1, <3>1, <3>3
    <3> QED BY <3>2, <3>3, <3>4
  <2>4. FloodTypes'
    BY <1>1, <1>2, <2>2, <2>3, Trying
  <2>5. SearcherTypes'
    BY <1>1, <1>2, <2>2, <2>3 DEF SearcherTypes
  <2>6. LoopInv'
    BY <1>1, <1>2, <2>2 DEF LoopInv
  <2> QED BY <1>3, <2>4, <2>5, <2>6 DEF IInv, Types
<1> QED BY <1>4, <1>5

\* The listen loop takes a reply from the network.
LEMMA HearKeeps == ASSUME IInv, HearReply PROVE IInv'
<1>1. FloodTypes /\ SearcherTypes /\ FoundTypes /\ ResultsInv /\ TargetInv /\ LoopInv
  BY DEF IInv, Types
<1>2. UNCHANGED <<flood, got, searching, replyCh, collector, found, download, died>> /\ ~died
  BY DEF HearReply
<1>3. PICK r \in replies :
        /\ replies' = replies \ {r}
        /\ listen' = IF replyCh = None THEN None ELSE [ch |-> replyCh, reply |-> r]
  BY DEF HearReply
<1>4. r \in Reply /\ \A x \in r.results : Listed(x)
  BY <1>1, <1>3 DEF SearcherTypes, ResultsInv
<1>5. listen' # None => /\ listen' \in [ch : {0, 1}, reply : Reply] /\ listen'.reply = r
                        /\ listen'.ch = replyCh
  BY <1>1, <1>3, <1>4 DEF SearcherTypes
<1>6. SearcherTypes'
  BY <1>1, <1>2, <1>3, <1>5 DEF SearcherTypes, searching
<1>7. \A x : Listed(x)' = Listed(x)
  BY <1>2 DEF Listed, ListedBy
<1>8. ResultsInv'
  <2>1. \A reply \in replies' : \A x \in reply.results : Listed(x)'
    BY <1>1, <1>3, <1>7 DEF ResultsInv
  <2>2. listen' # None => \A x \in listen'.reply.results : Listed(x)'
    BY <1>4, <1>5, <1>7
  <2>3. \A x \in collector'.left : Listed(x)'
    BY <1>1, <1>2, <1>7 DEF ResultsInv
  <2>4. collector'.pc = "locate" => Listed(collector.now)'
    BY <1>1, <1>2, <1>7 DEF ResultsInv, Listed, ListedBy
  <2> QED BY <2>1, <2>2, <2>3, <2>4 DEF ResultsInv
<1>9. LoopInv'
  <2>1. searchPc \notin {"idle", "replace"} /\ searchPc \in {"wait", "done"}
    BY <1>1, <1>3 DEF LoopInv, SearcherTypes
  <2>2. listen' # None => listen'.ch = 1
    BY <1>1, <1>3, <1>5, <2>1 DEF LoopInv
  <2> QED BY <1>1, <1>2, <2>1, <2>2 DEF LoopInv, searching
<1>10. FloodTypes' /\ FoundTypes' /\ TargetInv' /\ OnlyDownloadersKill'
  BY <1>1, <1>2, Frames DEF found
<1> QED BY <1>6, <1>8, <1>9, <1>10 DEF IInv, Types
-----------------------------------------------------------------------------
(* The steps of the goroutine that collects *)

\* It evaluates the channel, is handed a reply on it, or is done with one.
LEMMA CollectorKeeps == ASSUME IInv, RangeReplies \/ Take \/ Conclude \/ ClearCh PROVE IInv'
<1>1. /\ FloodTypes /\ SearcherTypes /\ FoundTypes /\ ResultsInv /\ TargetInv /\ LoopInv
      /\ collector \in Collector
  BY DEF IInv, Types, SearcherTypes
<1>2. UNCHANGED <<flood, got, replies, searching, found, download, died>> /\ ~died
  BY DEF RangeReplies, Take, Conclude, ClearCh
<1>3. FloodTypes' /\ TargetInv' /\ OnlyDownloadersKill'
  BY <1>1, <1>2, Frames DEF found
<1>4. \A x : Listed(x)' = Listed(x)
  BY <1>2 DEF Listed, ListedBy
<1>5. CASE RangeReplies
  <2>1. PICK c \in Collector : c = [collector EXCEPT !.pc = "range", !.ch = replyCh]
    BY <1>1 DEF SearcherTypes, Collector
  <2>2. /\ c.pc = "range" /\ c.ch = replyCh /\ c.left = collector.left
        /\ c.closed = collector.closed
    BY <1>1, <2>1 DEF Collector
  <2>3. collector.pc = "start" /\ collector' = c /\ UNCHANGED <<replyCh, listen>>
    BY <1>5, <2>1 DEF RangeReplies
  <2>4. SearcherTypes' /\ FoundTypes'
    BY <1>1, <1>2, <2>2, <2>3 DEF SearcherTypes, FoundTypes, searching, found
  <2>5. ResultsInv'
    BY <1>1, <1>2, <1>4, <2>2, <2>3 DEF ResultsInv
  <2>6. LoopInv'
    <3>1. replyCh \in {0, 1}
      BY <1>1, <2>3 DEF LoopInv, SearcherTypes
    <3> QED BY <1>1, <1>2, <2>2, <2>3, <3>1 DEF LoopInv, searching, flood
  <2> QED BY <1>3, <2>4, <2>5, <2>6 DEF IInv, Types
<1>6. CASE Take
  <2>1. /\ collector.pc = "range" /\ listen # None /\ listen' = None /\ replyCh' = replyCh
        /\ collector' = [collector EXCEPT !.pc = "results", !.origin = listen.reply.origin,
                                          !.left = listen.reply.results]
    BY <1>6 DEF Take
  <2>2. PICK reply \in Reply : reply = listen.reply
    BY <1>1, <2>1 DEF SearcherTypes
  <2>3. reply.origin \in Node /\ reply.results \in SUBSET Result
    BY DEF Reply
  <2>4. PICK c \in Collector : c = [collector EXCEPT !.pc = "results", !.origin = reply.origin,
                                                     !.left = reply.results]
    BY <1>1, <2>3 DEF Collector
  <2>5. /\ c.pc = "results" /\ c.ch = collector.ch /\ c.left = reply.results
        /\ c.origin = reply.origin /\ c.closed = collector.closed
    BY <1>1, <2>4 DEF Collector
  <2>6. collector' = c
    BY <2>1, <2>2, <2>4
  <2>7. SearcherTypes' /\ FoundTypes'
    BY <1>1, <1>2, <2>1, <2>3, <2>5, <2>6 DEF SearcherTypes, FoundTypes, searching, found
  <2>8. ResultsInv'
    BY <1>1, <1>2, <1>4, <2>1, <2>2, <2>5, <2>6 DEF ResultsInv
  <2>9. LoopInv'
    BY <1>1, <1>2, <2>1, <2>5, <2>6 DEF LoopInv, searching, flood
  <2> QED BY <1>3, <2>7, <2>8, <2>9 DEF IInv, Types
<1>7. CASE Conclude
  <2>1. /\ collector.pc = "results" /\ UNCHANGED <<replyCh, listen>>
        /\ collector' = IF Cardinality(finished) >= Threshold
                          THEN [collector EXCEPT !.pc = "clear", !.closed = TRUE]
                          ELSE [collector EXCEPT !.pc = "range"]
    BY <1>7 DEF Conclude
  <2>2. PICK c \in Collector :
          /\ collector' = c
          /\ \/ c = [collector EXCEPT !.pc = "clear", !.closed = TRUE]
             \/ c = [collector EXCEPT !.pc = "range"]
    BY <1>1, <2>1 DEF Collector
  <2>3. /\ c.ch = collector.ch /\ c.left = collector.left
        /\ (c.pc = "clear" /\ c.closed) \/ (c.pc = "range" /\ c.closed = collector.closed)
    BY <1>1, <2>2 DEF Collector
  <2>4. SearcherTypes' /\ FoundTypes'
    BY <1>1, <1>2, <2>1, <2>2, <2>3 DEF SearcherTypes, FoundTypes, searching, found
  <2>5. ResultsInv'
    BY <1>1, <1>2, <1>4, <2>1, <2>2, <2>3 DEF ResultsInv
  <2>6. LoopInv'
    BY <1>1, <1>2, <2>1, <2>2, <2>3 DEF LoopInv, searching, flood
  <2> QED BY <1>3, <2>4, <2>5, <2>6 DEF IInv, Types
<1>8. CASE ClearCh
  <2>1. /\ collector.pc = "clear" /\ replyCh' = None /\ listen' = listen
        /\ collector' = [collector EXCEPT !.pc = "gone", !.ch = None]
    BY <1>8 DEF ClearCh
  <2>2. PICK c \in Collector : c = [collector EXCEPT !.pc = "gone", !.ch = None]
    BY <1>1 DEF Collector
  <2>3. c.pc = "gone" /\ c.left = collector.left /\ c.closed = collector.closed /\ collector' = c
    BY <1>1, <2>1, <2>2 DEF Collector
  <2>4. SearcherTypes' /\ FoundTypes'
    BY <1>1, <1>2, <2>1, <2>3 DEF SearcherTypes, FoundTypes, searching, found
  <2>5. ResultsInv'
    BY <1>1, <1>2, <1>4, <2>1, <2>3 DEF ResultsInv
  <2>6. LoopInv'
    <3>1. searchPc \notin {"idle", "replace"}
      BY <1>1, <2>1 DEF LoopInv
    <3> QED BY <1>1, <1>2, <2>1, <2>3, <3>1 DEF LoopInv, searching, flood
  <2> QED BY <1>3, <2>4, <2>5, <2>6 DEF IInv, Types
<1> QED BY <1>5, <1>6, <1>7, <1>8

\* A result is looked at.  What is in fileRecord, TargetMetahash and Target
\* stays there; a short name, which only a downloader lists, ends the process.
LEMMA NextResultKeeps == ASSUME IInv, NextResult PROVE IInv'
<1>1. /\ FloodTypes /\ SearcherTypes /\ FoundTypes /\ ResultsInv /\ TargetInv /\ LoopInv
      /\ collector \in Collector
  BY DEF IInv, Types, SearcherTypes
<1>2. /\ UNCHANGED <<flood, got, replies, searching, replyCh, listen, download>> /\ ~died
      /\ collector.pc = "results"
  BY DEF NextResult
<1>3. \A x : Listed(x)' = Listed(x)
  BY <1>2 DEF Listed, ListedBy
<1>4. FloodTypes'
  BY <1>1, <1>2, Frames
<1>5. PICK r \in collector.left :
       \/ /\ r.name \in finished
          /\ collector' = [collector EXCEPT !.left = collector.left \ {r}]
          /\ UNCHANGED <<found, died>>
       \/ /\ r.name \notin finished /\ r.name \in short
          /\ died' = TRUE
          /\ UNCHANGED <<collector, found>>
       \/ /\ r.name \notin finished \cup short /\ record[r.name] = None
          /\ targetHash' = [targetHash EXCEPT ![r.name] = r.hash]
          /\ collector' = [collector EXCEPT !.pc = "locate", !.left = collector.left \ {r}, !.now = r]
          /\ UNCHANGED <<record, finished, target, died>>
       \/ /\ r.name \notin finished \cup short /\ record[r.name] # None
          /\ record' = [record EXCEPT ![r.name] = record[r.name] \cup r.listed]
          /\ finished' = Counted(r.name, record'[r.name], r.total)
          /\ collector' = [collector EXCEPT !.left = collector.left \ {r}]
          /\ UNCHANGED <<targetHash, target, died>>
  BY DEF NextResult
<1>6. r \in Result /\ Listed(r)
  BY <1>1, <1>5 DEF Collector, ResultsInv
<1>7. r.name \in Name /\ r.hash \in Hash /\ r.listed \in SUBSET Places
  BY <1>6 DEF Result
<1>8. PICK rest \in SUBSET Result : rest = collector.left \ {r}
  BY <1>1 DEF Collector
<1>9. \A x \in rest : Listed(x)
  BY <1>1, <1>8 DEF ResultsInv
<1>10. PICK c \in Collector : c = [collector EXCEPT !.left = rest]
  BY <1>1 DEF Collector
<1>11. /\ c.pc = "results" /\ c.ch = collector.ch /\ c.left = rest /\ c.closed = collector.closed
       /\ c.origin = collector.origin
  BY <1>1, <1>2, <1>10 DEF Collector
<1>12. ASSUME collector' = c PROVE SearcherTypes' /\ ResultsInv' /\ LoopInv'
  <2>1. SearcherTypes'
    BY <1>1, <1>2, <1>11, <1>12 DEF SearcherTypes, searching
  <2>2. ResultsInv'
    BY <1>1, <1>2, <1>3, <1>9, <1>11, <1>12 DEF ResultsInv
  <2>3. LoopInv'
    BY <1>1, <1>2, <1>11, <1>12 DEF LoopInv, searching, flood
  <2> QED BY <2>1, <2>2, <2>3
<1>13. CASE r.name \in finished /\ UNCHANGED <<found, died>>
             /\ collector' = [collector EXCEPT !.left = collector.left \ {r}]
  <2>1. collector' = c
    BY <1>8, <1>10, <1>13
  <2>2. FoundTypes' /\ TargetInv' /\ OnlyDownloadersKill'
    <3>1. FoundTypes'
      BY <1>1, <1>2, <1>11, <1>13, <2>1 DEF FoundTypes, found
    <3> QED BY <1>1, <1>2, <1>13, <3>1, Frames DEF found
  <2> QED BY <1>4, <1>12, <2>1, <2>2 DEF IInv, Types
<1>14. CASE r.name \in short /\ died' = TRUE /\ UNCHANGED <<collector, found>>
  <2>1. SearcherTypes' /\ ResultsInv' /\ LoopInv' /\ TargetInv'
    BY <1>1, <1>2, <1>14, Frames DEF found, flood, searching
  <2>2. FoundTypes'
    BY <1>1, <1>2, <1>14 DEF FoundTypes, found
  <2>3. OnlyDownloadersKill'
    <3>1. PICK n \in Node : ListedBy(r, n)
      BY <1>6 DEF Listed
    <3>2. short \subseteq Short
      BY <1>1 DEF FloodTypes
    <3>3. ~ \E f \in Shared[n] : r.name = f.name
      BY <1>14, <3>2, SearchAssumption
    <3>4. PICK f \in Wanted[n] : r.name = f.name /\ got[n][f] # None
      BY <3>1, <3>3 DEF ListedBy
    <3>5. got'[n][f] # None /\ f.name \in short'
      BY <1>2, <1>14, <3>4 DEF flood
    <3> QED BY <3>5 DEF OnlyDownloadersKill
  <2> QED BY <1>4, <2>1, <2>2, <2>3 DEF IInv, Types
<1>15. CASE /\ r.name \notin finished \cup short /\ record[r.name] = None
            /\ targetHash' = [targetHash EXCEPT ![r.name] = r.hash]
            /\ collector' = [collector EXCEPT !.pc = "locate", !.left = collector.left \ {r}, !.now = r]
            /\ UNCHANGED <<record, finished, target, died>>
  <2>1. PICK d \in Collector : d = [collector EXCEPT !.pc = "locate", !.left = rest, !.now = r]
    BY <1>1, <1>6 DEF Collector
  <2>2. /\ d.pc = "locate" /\ d.ch = collector.ch /\ d.left = rest /\ d.closed = collector.closed
        /\ d.now = r /\ d.origin = collector.origin
    BY <1>1, <2>1 DEF Collector
  <2>3. collector' = d
    BY <1>8, <1>15, <2>1
  <2>4. SearcherTypes'
    BY <1>1, <1>2, <2>2, <2>3 DEF SearcherTypes, searching
  <2>5. ResultsInv'
    <3>1. \A reply \in replies' : \A x \in reply.results : Listed(x)'
      BY <1>1, <1>2, <1>3 DEF ResultsInv
    <3>2. listen' # None => \A x \in listen'.reply.results : Listed(x)'
      BY <1>1, <1>2, <1>3 DEF ResultsInv
    <3>3. \A x \in collector'.left : Listed(x)'
      BY <1>3, <1>9, <2>2, <2>3
    <3>4. Listed(collector.now)'
      <4>1. collector'.now = r /\ got' = got
        BY <1>2, <2>2, <2>3
      <4> QED BY <1>6, <4>1 DEF Listed, ListedBy
    <3> QED BY <3>1, <3>2, <3>3, <3>4 DEF ResultsInv
  <2>6. LoopInv'
    BY <1>1, <1>2, <2>2, <2>3 DEF LoopInv, searching, flood
  <2>7. targetHash' \in [Name -> Hash \cup {None}] /\ targetHash'[r.name] = r.hash
    BY <1>1, <1>7, <1>15 DEF FoundTypes
  <2>8. r.hash # None
    BY <1>7, SearchAssumption
  <2>9. \A f \in Name : targetHash[f] # None => targetHash'[f] # None
    BY <1>1, <1>7, <1>15, <2>8 DEF FoundTypes
  <2>10. collector.origin \in Node
    BY <1>1, <1>2 DEF SearcherTypes
  <2>11. FoundTypes'
    BY <1>1, <1>2, <1>6, <1>15, <2>2, <2>3, <2>7, <2>8, <2>9, <2>10 DEF FoundTypes
  <2>12. TargetInv' /\ OnlyDownloadersKill'
    BY <1>1, <1>2, <1>15, Frames
  <2> QED BY <1>4, <2>4, <2>5, <2>6, <2>11, <2>12 DEF IInv, Types
<1>16. CASE /\ r.name \notin finished \cup short /\ record[r.name] # None
            /\ record' = [record EXCEPT ![r.name] = record[r.name] \cup r.listed]
            /\ finished' = Counted(r.name, record'[r.name], r.total)
            /\ collector' = [collector EXCEPT !.left = collector.left \ {r}]
            /\ UNCHANGED <<targetHash, target, died>>
  <2>1. collector' = c
    BY <1>8, <1>10, <1>16
  <2>2. PICK more \in SUBSET Places : more = record[r.name] \cup r.listed
    <3>1. record[r.name] \in Record
      BY <1>1, <1>7 DEF FoundTypes
    <3>2. PICK old \in SUBSET Places : old = record[r.name]
      BY <1>16, <3>1 DEF Record
    <3>3. old \cup r.listed \in SUBSET Places
      BY <1>7
    <3> QED BY <3>2, <3>3
  <2>3. record' = [record EXCEPT ![r.name] = more]
    BY <1>16, <2>2
  <2>4. record' \in [Name -> Record]
    <3>1. more \in Record
      BY DEF Record
    <3> QED BY <1>1, <2>3, <3>1 DEF FoundTypes
  <2>5. \A f \in Name : f # r.name => record'[f] = record[f]
    BY <1>1, <2>3 DEF FoundTypes
  <2>6. \A f \in Name : record'[f] # None => targetHash[f] # None
    BY <1>1, <1>16, <2>5 DEF FoundTypes
  <2>7. finished' \subseteq Name
    BY <1>1, <1>7, <1>16 DEF FoundTypes, Counted
  <2>8. FoundTypes'
    BY <1>1, <1>2, <1>11, <1>16, <2>1, <2>4, <2>6, <2>7 DEF FoundTypes
  <2>9. more # None
    BY SearchAssumption DEF Places
  <2>10. \A f \in Name : record[f] # None => record'[f] # None
    BY <1>1, <2>3, <2>9 DEF FoundTypes
  <2>11. TargetInv'
    BY <1>1, <1>2, <1>16, <2>10, FilesOfAll DEF TargetInv, Located
  <2>12. OnlyDownloadersKill'
    BY <1>2, <1>16, Frames
  <2> QED BY <1>4, <1>12, <2>1, <2>8, <2>11, <2>12 DEF IInv, Types
<1> QED BY <1>5, <1>13, <1>14, <1>15, <1>16

\* A new file gets its place.
LEMMA LocateKeeps == ASSUME IInv, Locate PROVE IInv'
<1>1. /\ FloodTypes /\ SearcherTypes /\ FoundTypes /\ ResultsInv /\ TargetInv /\ LoopInv
      /\ collector \in Collector
  BY DEF IInv, Types, SearcherTypes
<1>2. /\ UNCHANGED <<flood, got, replies, searching, replyCh, listen, targetHash, download>>
      /\ ~died /\ died' = died /\ collector.pc = "locate"
  BY DEF Locate
<1>3. PICK r \in Result : r = collector.now
  BY <1>1, <1>2 DEF FoundTypes
<1>4. PICK o \in Node : o = collector.origin
  BY <1>1, <1>2 DEF FoundTypes
<1>5. /\ target' = [target EXCEPT ![r.hash] = [listed |-> r.listed, at |-> o]]
      /\ record' = [record EXCEPT ![r.name] = r.listed]
      /\ finished' = Counted(r.name, r.listed, r.total)
      /\ collector' = [collector EXCEPT !.pc = "results", !.now = None]
  BY <1>3, <1>4 DEF Locate
<1>6. r.name \in Name /\ r.hash \in Hash /\ r.listed \in SUBSET Places /\ Listed(r)
  BY <1>1, <1>2, <1>3 DEF Result, ResultsInv
<1>7. \A x : Listed(x)' = Listed(x)
  BY <1>2 DEF Listed, ListedBy
<1>8. PICK c \in Collector : c = [collector EXCEPT !.pc = "results", !.now = None]
  BY <1>1 DEF Collector
<1>9. /\ c.pc = "results" /\ c.ch = collector.ch /\ c.left = collector.left
      /\ c.closed = collector.closed /\ c.origin = o /\ collector' = c
  BY <1>1, <1>4, <1>5, <1>8 DEF Collector
<1>10. SearcherTypes'
  BY <1>1, <1>2, <1>9 DEF SearcherTypes, searching
<1>11. ResultsInv'
  BY <1>1, <1>2, <1>7, <1>9 DEF ResultsInv
<1>12. LoopInv'
  BY <1>1, <1>2, <1>9 DEF LoopInv, searching, flood
<1>13. PICK listed \in SUBSET Places : listed = r.listed
  BY <1>6
<1>14. record' \in [Name -> Record] /\ \A f \in Name : record'[f] = IF f = r.name THEN listed ELSE record[f]
  <2>1. listed \in Record
    BY Zenon DEF Record
  <2>2. record' = [record EXCEPT ![r.name] = listed]
    BY <1>5, <1>13
  <2> QED BY <1>1, <2>1, <2>2 DEF FoundTypes
<1>15. listed # None
  BY SearchAssumption DEF Places
<1>16. \A f \in Name : record'[f] # None => targetHash'[f] # None
  <2>1. targetHash[r.name] # None
    BY <1>1, <1>2, <1>3 DEF FoundTypes
  <2> QED BY <1>1, <1>2, <1>14, <2>1 DEF FoundTypes
<1>17. finished' \subseteq Name
  BY <1>1, <1>5, <1>6 DEF FoundTypes, Counted
<1>18. PICK entry \in [listed : SUBSET Places, at : Node] : entry = [listed |-> r.listed, at |-> o]
  BY <1>6
<1>19. /\ target' \in [Hash -> [listed : SUBSET Places, at : Node] \cup {None}]
       /\ \A h \in Hash : target'[h] = IF h = r.hash THEN entry ELSE target[h]
  <2>1. target' = [target EXCEPT ![r.hash] = entry]
    BY <1>5, <1>18
  <2> QED BY <1>1, <2>1 DEF FoundTypes
<1>20. FoundTypes'
  BY <1>1, <1>2, <1>9, <1>14, <1>16, <1>17, <1>19 DEF FoundTypes
<1>21. \A f \in Name : record[f] # None => record'[f] # None
  BY <1>14, <1>15
<1>22. ASSUME NEW h \in Hash, Located(h) \/ h = r.hash PROVE Located(h)'
  <2>1. CASE h = r.hash
    <3>1. PICK n \in Node : ListedBy(r, n)
      BY <1>6 DEF Listed
    <3>2. target'[h].listed = r.listed
      BY <1>6, <1>18, <1>19, <2>1
    <3>3. CASE \E f \in Shared[n] : r.name = f.name /\ r.hash = f.hash /\ r.listed = 1..f.chunks
      BY <2>1, <3>2, <3>3 DEF Located
    <3>4. CASE \E f \in Wanted[n] : r.name = f.name /\ r.hash = f.hash /\ got[n][f] # None
      <4>1. PICK f \in Wanted[n] : r.name = f.name /\ r.hash = f.hash /\ got[n][f] # None
        BY <3>4
      <4>2. record'[f.name] # None
        BY <1>6, <1>14, <1>15, <4>1
      <4> QED BY <1>2, <2>1, <4>1, <4>2 DEF Located
    <3> QED BY <3>1, <3>3, <3>4 DEF ListedBy
  <2>2. CASE h # r.hash /\ Located(h)
    <3>1. target'[h] = target[h]
      BY <1>19, <2>2
    <3>2. CASE \E n \in Node : \E f \in Shared[n] : f.hash = h /\ target[h].listed = 1..f.chunks
      BY <3>1, <3>2 DEF Located
    <3>3. CASE \E n \in Node : \E f \in Wanted[n] :
                 f.hash = h /\ got[n][f] # None /\ record[f.name] # None
      BY <1>2, <1>21, <3>3, FilesOfAll DEF Located
    <3> QED BY <2>2, <3>2, <3>3 DEF Located
  <2> QED BY <1>22, <2>1, <2>2
<1>23. TargetInv'
  <2>1. \A h \in Hash : target'[h] # None => Located(h) \/ h = r.hash
    BY <1>1, <1>19 DEF TargetInv
  <2>2. \A h \in Hash : target'[h] # None => Located(h)'
    BY <1>22, <2>1
  <2>3. CASE download = None
    BY <1>2, <2>2, <2>3 DEF TargetInv
  <2>4. CASE download # None
    <3>1. PICK h \in Hash : h = download
      BY <1>1, <2>4 DEF FoundTypes
    <3>2. Located(h)'
      BY <1>1, <1>22, <2>4, <3>1 DEF TargetInv
    <3>3. Located(download)'
      BY <1>2, <3>1, <3>2 DEF Located
    <3> QED BY <2>2, <3>3 DEF TargetInv
  <2> QED BY <2>3, <2>4
<1>24. FloodTypes' /\ OnlyDownloadersKill'
  BY <1>1, <1>2, Frames
<1> QED BY <1>10, <1>11, <1>12, <1>20, <1>23, <1>24 DEF IInv, Types
-----------------------------------------------------------------------------
(* The download of what was found *)

\* Who finds no place where one is asked for was misled by a downloader.
LEMMA Misled ==
  ASSUME IInv, NEW h \in Hash, Located(h), UNCHANGED <<flood, got, record>>,
         \/ target[h].listed = {}
         \/ \E f \in File : f.hash = h /\ \E i \in 1..f.chunks : i \notin target[h].listed
  PROVE  OnlyDownloadersKill'
<1>1. CASE \E n \in Node : \E f \in Shared[n] : f.hash = h /\ target[h].listed = 1..f.chunks
  <2>1. PICK n \in Node : \E f \in Shared[n] : f.hash = h /\ target[h].listed = 1..f.chunks
    BY <1>1
  <2>2. PICK f \in Shared[n] : f.hash = h /\ target[h].listed = 1..f.chunks
    BY <2>1
  <2>3. f \in File /\ f.chunks \in Nat \ {0}
    BY FilesOfAll
  <2>4. 1 \in target[h].listed
    BY <2>2, <2>3
  <2>5. \A g \in File : g.hash = h => g.chunks = f.chunks
    BY <2>2, <2>3, SearchAssumption
  <2> QED BY <2>2, <2>4, <2>5
<1>2. CASE \E n \in Node : \E f \in Wanted[n] :
             f.hash = h /\ got[n][f] # None /\ record[f.name] # None
  BY <1>2 DEF OnlyDownloadersKill
<1> QED BY <1>1, <1>2 DEF Located

\* The metafile is asked for, and then the chunks.
LEMMA DownloadKeeps == ASSUME IInv, RequestSearchedFile \/ RequestChunks PROVE IInv'
<1>1. FloodTypes /\ SearcherTypes /\ FoundTypes /\ ResultsInv /\ TargetInv /\ LoopInv
  BY DEF IInv, Types
<1>2. UNCHANGED <<flood, got, replies, searching, replyCh, listen, collector, found>> /\ ~died
  BY DEF RequestSearchedFile, RequestChunks
<1>3. FloodTypes' /\ SearcherTypes' /\ ResultsInv' /\ LoopInv'
  BY <1>1, <1>2, Frames DEF flood, searching
<1>4. CASE RequestSearchedFile
  <2>1. PICK h \in Hash :
          /\ target[h] # None
          /\ IF target[h].listed = {} THEN died' = TRUE /\ UNCHANGED download
                                      ELSE download' = h /\ UNCHANGED died
    BY <1>4 DEF RequestSearchedFile
  <2>2. Located(h)
    BY <1>1, <2>1 DEF TargetInv
  <2>3. FoundTypes'
    BY <1>1, <1>2, <2>1 DEF FoundTypes, found
  <2>4. TargetInv'
    BY <1>1, <1>2, <2>1, <2>2 DEF TargetInv, Located, found
  <2>5. OnlyDownloadersKill'
    <3>1. CASE target[h].listed = {}
      BY <1>2, <2>2, <3>1, Misled DEF found
    <3>2. CASE target[h].listed # {}
      BY <1>2, <2>1, <3>2, Frames
    <3> QED BY <3>1, <3>2
  <2> QED BY <1>3, <2>3, <2>4, <2>5 DEF IInv, Types
<1>5. CASE RequestChunks
  <2>1. /\ download # None /\ download' = None
        /\ died' = \E f \in File : f.hash = download /\ \E i \in 1..f.chunks : i \notin target[download].listed
    BY <1>5 DEF RequestChunks
  <2>2. PICK h \in Hash : h = download
    BY <1>1, <2>1 DEF FoundTypes
  <2>3. Located(h)
    BY <1>1, <2>1, <2>2 DEF TargetInv
  <2>4. died' \in BOOLEAN
    BY <2>1, Zenon
  <2>5. FoundTypes'
    BY <1>1, <1>2, <2>1, <2>4 DEF FoundTypes, found
  <2>6. TargetInv'
    BY <1>1, <1>2, <2>1 DEF TargetInv, Located, found
  <2>7. OnlyDownloadersKill'
    <3>1. CASE \E f \in File : f.hash = h /\ \E i \in 1..f.chunks : i \notin target[h].listed
      BY <1>2, <2>3, <3>1, Misled DEF found
    <3>2. CASE ~ \E f \in File : f.hash = h /\ \E i \in 1..f.chunks : i \notin target[h].listed
      <4>1. ~died'
        BY <2>1, <2>2, <3>2
      <4> QED BY <4>1 DEF OnlyDownloadersKill
    <3> QED BY <3>1, <3>2
  <2> QED BY <1>3, <2>5, <2>6, <2>7 DEF IInv, Types
<1> QED BY <1>4, <1>5
-----------------------------------------------------------------------------
(* The theorems *)

\* Every step keeps the invariant.
THEOREM Invariance == Spec => []IInv
<1>1. Init => IInv
  BY Initially
<1>2. ASSUME IInv, [Next]_vars PROVE IInv'
  <2>1. ASSUME NEW n \in Node, HandleSearch(n) \/ Forget(n) \/ Fetch(n) PROVE IInv'
    BY <1>2, <2>1, HandleSearchKeeps, ForgettingKeeps, FetchKeeps
  <2>2. CASE Ignore \/ Search \/ ReplaceCh \/ Tick \/ Finish \/ HearReply
    BY <1>2, <2>2, ForgettingKeeps, SearchKeeps, TryKeeps, HearKeeps
  <2>3. CASE CheckSearchFinish
    BY <1>2, <2>3, CollectorKeeps, NextResultKeeps, LocateKeeps DEF CheckSearchFinish
  <2>4. CASE RequestSearchedFile \/ RequestChunks
    BY <1>2, <2>4, DownloadKeeps
  <2>5. CASE UNCHANGED vars
    <3>1. UNCHANGED <<flood, got, replies, searching, replyCh, listen, collector, found, download, died>>
      BY <2>5 DEF vars
    <3>2. OnlyDownloadersKill'
      BY <1>2, <3>1 DEF IInv, OnlyDownloadersKill, flood, found
    <3> QED BY <1>2, <3>1, <3>2, Frames DEF IInv, Types, flood, found, searching
  <2> QED BY <1>2, <2>1, <2>2, <2>3, <2>4, <2>5 DEF Next
<1> QED BY <1>1, <1>2, PTL DEF Spec

\* The state has the types that the code declares; in particular no request
\* travels without budget.
THEOREM TypeCorrect == Spec => []TypeOK
<1>1. IInv => TypeOK
  <2> SUFFICES ASSUME IInv PROVE TypeOK
    OBVIOUS
  <2>1. FloodTypes /\ SearcherTypes /\ FoundTypes
    BY DEF IInv, Types
  <2>2. /\ \A n \in Node, f \in File : f \in Wanted[n] => got[n][f] \in 0..f.chunks \cup {None}
        /\ \A q \in requests : q.dst \in Node /\ q.relayer \in Node /\ q.budget \in 1..MaxUint
        /\ remembered \in [Node -> BOOLEAN] /\ locked \in [Node -> BOOLEAN]
        /\ issued \in Nat /\ served \in Nat /\ late \in BOOLEAN
    BY <2>1 DEF FloodTypes, Request
  <2>3. \A r \in replies : r.origin \in Node /\ \A f \in r.results : f.name \in Name /\ f.hash \in Hash
    BY <2>1 DEF SearcherTypes, Reply, Result
  <2>4. listen # None => listen.ch \in {0, 1} /\ listen.reply.origin \in Node
    BY <2>1 DEF SearcherTypes, Reply
  <2>5. /\ searchPc \in {"idle", "replace", "wait", "done"} /\ budget \in 1..MaxUint
        /\ replyCh \in {0, 1, None}
        /\ collector.pc \in {"none", "start", "range", "results", "locate", "clear", "gone"}
    BY <2>1 DEF SearcherTypes, Collector
  <2>6. \A h \in Hash : target[h] # None => target[h].at \in Node
    BY <2>1 DEF FoundTypes
  <2>7. /\ finished \subseteq Name
        /\ \A f \in Name : targetHash[f] \in Hash \cup {None} /\ (record[f] # None => targetHash[f] # None)
        /\ download \in Hash \cup {None} /\ died \in BOOLEAN
    BY <2>1 DEF FoundTypes
  <2> QED BY <2>2, <2>3, <2>4, <2>5, <2>6, <2>7 DEF TypeOK
<1> QED BY <1>1, Invariance, PTL

\* The searcher is ended only after a listing of a downloader has reached it.
THEOREM DownloadersKill == Spec => []OnlyDownloadersKill
<1>1. IInv => OnlyDownloadersKill
  BY DEF IInv
<1> QED BY <1>1, Invariance, PTL

\* The listen loop waits for somebody who will take its reply, except in the two
\* windows around the life of the search's channel.
THEOREM LoopGoesOn == Spec => []ListenLoopGoesOn
<1>1. IInv => ListenLoopGoesOn
  <2> SUFFICES ASSUME IInv, listen # None, ~collector.closed
               PROVE  \/ collector.pc = "start" /\ listen.ch = replyCh
                      \/ collector.pc \in {"range", "results", "locate"} /\ collector.ch = listen.ch
                      \/ collector.pc # "start" /\ collector.ch = 0
    BY DEF ListenLoopGoesOn
  <2>1. LoopInv /\ SearcherTypes
    BY DEF IInv, Types
  <2>2. searchPc \in {"wait", "done"} /\ listen.ch = 1 /\ replyCh # None
    BY <2>1 DEF LoopInv, SearcherTypes
  <2>3. replyCh = 1
    BY <2>1, <2>2 DEF LoopInv
  <2>4. collector.pc \in {"start", "range", "results", "locate"}
    BY <2>1, <2>2 DEF LoopInv, SearcherTypes, Collector
  <2>5. collector.pc # "start" => collector.ch \in {0, 1}
    BY <2>1, <2>4 DEF LoopInv
  <2> QED BY <2>2, <2>3, <2>4, <2>5
<1> QED BY <1>1, Invariance, PTL
-----------------------------------------------------------------------------
(* The budget *)

\* A set of numbers has a least one.
LEMMA Least ==
  ASSUME NEW T \in SUBSET Nat, T # {}
  PROVE  \E m \in T : \A y \in T : m <= y
<1> DEFINE R == {ss \in Nat \X Nat : ss[1] < ss[2]}
<1>1. IsWellFoundedOn(R, Nat)
  BY NatLessThanWellFounded DEF OpToRel
<1>2. \A x, y \in Nat : <<y, x>> \in R <=> y < x
  OBVIOUS
<1> HIDE DEF R
<1>3. PICK x \in T : \A y \in T : ~ (<<y, x>> \in R)
  BY <1>1, WFMin
<1>4. \A y \in T : ~(y < x)
  BY <1>2, <1>3
<1> QED BY <1>4

\* The budgets of a set of requests.
Travelling(S) == MapThenSumSet(LAMBDA q : q.budget, S)

\* What the fold calls itself for.
First(S) == CHOOSE q \in S : TRUE
IsSum(f, S) ==
  f = [s \in SUBSET S |-> IF s = {} THEN 0 ELSE First(s).budget + f[s \ {First(s)}]]

LEMMA SumUnfolds ==
  ASSUME NEW S
  PROVE  Travelling(S) = (CHOOSE f : IsSum(f, S))[S]
  BY DEF Travelling, MapThenSumSet, MapThenFoldSet, IsSum, First

\* A set without one of its elements.
LEMMA Smaller ==
  ASSUME NEW S, IsFiniteSet(S), NEW s \in SUBSET S, NEW q \in s
  PROVE  /\ IsFiniteSet(s) /\ s \ {q} \in SUBSET S
         /\ Cardinality(s) \in Nat \ {0} /\ Cardinality(s \ {q}) = Cardinality(s) - 1
<1>1. IsFiniteSet(s)
  BY FS_Subset
<1>2. Cardinality(s) \in Nat /\ Cardinality(s) # 0
  BY <1>1, FS_CardinalityType, FS_EmptySet
<1>3. Cardinality(s \ {q}) = Cardinality(s) - 1
  BY <1>1, FS_RemoveElement
<1> QED BY <1>1, <1>2, <1>3

LEMMA FirstIsIn ==
  ASSUME NEW s, s # {}
  PROVE  First(s) \in s
  BY DEF First

\* The recursion is well-founded.
LEMMA SumExists ==
  ASSUME NEW S, IsFiniteSet(S)
  PROVE  \E f : IsSum(f, S)
<1> DEFINE UpTo(f, k) == f = [s \in SUBSET S |-> IF s = {} \/ Cardinality(s) > k THEN 0
                                                 ELSE First(s).budget + f[s \ {First(s)}]]
           Bad == {k \in Nat : ~ \E f : UpTo(f, k)}
<1>1. ASSUME Bad # {} PROVE FALSE
  <2>1. PICK k \in Bad : \A j \in Bad : k <= j
    <3>1. Bad \in SUBSET Nat
      OBVIOUS
    <3> HIDE DEF Bad
    <3> QED BY <1>1, <3>1, Least
  <2>2. CASE k = 0
    <3>1. PICK f : f = [s \in SUBSET S |-> 0]
      OBVIOUS
    <3>2. \A s \in SUBSET S : s = {} \/ Cardinality(s) > 0
      <4>1. \A s \in SUBSET S : s # {} => Cardinality(s) \in Nat \ {0}
        BY Smaller, FirstIsIn
      <4> QED BY <4>1
    <3>3. UpTo(f, 0)
      BY <3>1, <3>2
    <3> QED BY <2>1, <2>2, <3>3
  <2>3. CASE k # 0
    <3>1. k - 1 \in Nat /\ k - 1 \notin Bad /\ k \in Nat
      <4>1. k \in Nat
        BY <2>1
      <4> HIDE DEF Bad
      <4> QED BY <2>1, <2>3, <4>1
    <3>2. PICK g : UpTo(g, k - 1)
      BY <3>1
    <3>3. PICK f : f = [s \in SUBSET S |-> IF s = {} \/ Cardinality(s) > k THEN 0
                                           ELSE First(s).budget + g[s \ {First(s)}]]
      OBVIOUS
    <3>4. ASSUME NEW s \in SUBSET S, s # {}, ~(Cardinality(s) > k)
          PROVE  f[s \ {First(s)}] = g[s \ {First(s)}]
      <4>1. PICK t \in SUBSET S : t = s \ {First(s)}
        OBVIOUS
      <4>2. Cardinality(t) = Cardinality(s) - 1 /\ Cardinality(s) \in Nat
        BY <3>4, <4>1, Smaller, FirstIsIn
      <4>3. ~(Cardinality(t) > k) /\ ~(Cardinality(t) > k - 1)
        BY <3>1, <3>4, <4>2
      <4>4. f[t] = IF t = {} THEN 0 ELSE First(t).budget + g[t \ {First(t)}]
        BY <3>3, <4>3
      <4>5. g[t] = IF t = {} THEN 0 ELSE First(t).budget + g[t \ {First(t)}]
        BY <3>2, <4>3
      <4> QED BY <4>1, <4>4, <4>5
    <3>5. UpTo(f, k)
      BY <3>3, <3>4
    <3> QED BY <2>1, <3>5
  <2> QED BY <2>2, <2>3
<1>2. PICK k \in Nat : k = Cardinality(S)
  BY FS_CardinalityType
<1>3. PICK f : UpTo(f, k)
  BY <1>1
<1>4. \A s \in SUBSET S : ~(Cardinality(s) > k)
  <2>1. \A s \in SUBSET S : Cardinality(s) \in Nat /\ Cardinality(s) <= k
    BY <1>2, FS_Subset, FS_CardinalityType
  <2> QED BY <2>1, <1>2
<1>5. IsSum(f, S)
  BY <1>3, <1>4, Zenon DEF IsSum
<1> QED BY <1>5

\* What it computes for a subset does not depend on the set.
LEMMA SumsAgree ==
  ASSUME NEW S, IsFiniteSet(S), NEW T \in SUBSET S, NEW f, NEW g, IsSum(f, S), IsSum(g, T)
  PROVE  f[T] = g[T]
<1> DEFINE Bad == {k \in Nat : \E s \in SUBSET T : Cardinality(s) = k /\ f[s] # g[s]}
<1>1. ASSUME Bad # {} PROVE FALSE
  <2>1. PICK k \in Bad : \A j \in Bad : k <= j
    <3>1. Bad \in SUBSET Nat
      OBVIOUS
    <3> HIDE DEF Bad
    <3> QED BY <1>1, <3>1, Least
  <2>2. PICK s \in SUBSET T : Cardinality(s) = k /\ f[s] # g[s]
    BY <2>1
  <2>3. s # {}
    BY <2>2 DEF IsSum
  <2>4. PICK t \in SUBSET T : t = s \ {First(s)}
    BY <2>3
  <2>5. /\ f[s] = First(s).budget + f[t]
        /\ g[s] = First(s).budget + g[t]
    BY <2>3, <2>4 DEF IsSum
  <2>6. Cardinality(t) = k - 1 /\ k \in Nat \ {0}
    <3>1. IsFiniteSet(T) /\ First(s) \in s
      BY <2>3, FS_Subset, FirstIsIn
    <3>2. Cardinality(s) \in Nat \ {0} /\ Cardinality(t) = Cardinality(s) - 1
      BY <2>4, <3>1, Smaller
    <3> QED BY <2>2, <3>2
  <2>7. k - 1 \in Nat /\ k - 1 \notin Bad
    BY <2>1, <2>6
  <2>8. f[t] = g[t]
    BY <2>6, <2>7
  <2> QED BY <2>2, <2>5, <2>8
<1>2. Cardinality(T) \in Nat
  BY FS_Subset, FS_CardinalityType
<1> QED BY <1>1, <1>2

\* The sum over a set, by its first element.
LEMMA SumByFirst ==
  ASSUME NEW S, IsFiniteSet(S)
  PROVE  /\ S = {} => Travelling(S) = 0
         /\ S # {} => Travelling(S) = First(S).budget + Travelling(S \ {First(S)})
<1>1. PICK f : f = (CHOOSE u : IsSum(u, S))
  OBVIOUS
<1>2. IsSum(f, S) /\ Travelling(S) = f[S]
  BY <1>1, SumExists, SumUnfolds
<1>3. S = {} => Travelling(S) = 0
  BY <1>2 DEF IsSum
<1>4. ASSUME S # {} PROVE Travelling(S) = First(S).budget + Travelling(S \ {First(S)})
  <2>1. PICK T \in SUBSET S : T = S \ {First(S)}
    OBVIOUS
  <2>2. PICK g : g = (CHOOSE u : IsSum(u, T))
    OBVIOUS
  <2>3. IsFiniteSet(T)
    BY FS_Subset
  <2>4. IsSum(g, T) /\ Travelling(T) = g[T]
    BY <2>2, <2>3, SumExists, SumUnfolds
  <2>5. f[T] = g[T]
    BY <1>2, <2>4, SumsAgree
  <2>6. f[S] = First(S).budget + f[T]
    BY <1>2, <1>4, <2>1 DEF IsSum
  <2> QED BY <1>2, <2>1, <2>4, <2>5, <2>6
<1> QED BY <1>3, <1>4

HaveBudgets(S) == \A q \in S : q.budget \in Nat

\* It grows by what an element adds, whichever is chosen first.
LEMMA SumOf ==
  ASSUME NEW S, IsFiniteSet(S), HaveBudgets(S)
  PROVE  /\ Travelling(S) \in Nat
         /\ \A q \in S : Travelling(S) = q.budget + Travelling(S \ {q})
<1> DEFINE Good(s) == /\ Travelling(s) \in Nat
                      /\ \A q \in s : Travelling(s) = q.budget + Travelling(s \ {q})
           Bad == {k \in Nat : \E s \in SUBSET S : Cardinality(s) = k /\ ~Good(s)}
<1>1. ASSUME Bad # {} PROVE FALSE
  <2>1. PICK k \in Bad : \A j \in Bad : k <= j
    <3>1. Bad \in SUBSET Nat
      OBVIOUS
    <3> HIDE DEF Bad
    <3> QED BY <1>1, <3>1, Least
  <2>2. PICK s \in SUBSET S : Cardinality(s) = k /\ ~Good(s)
    BY <2>1
  <2>3. IsFiniteSet(s) /\ k \in Nat
    BY <2>1, FS_Subset
  <2>4. s # {}
    <3>1. s = {} => Travelling(s) = 0
      BY <2>3, SumByFirst
    <3> QED BY <2>2, <3>1
  <2>5. PICK p \in s : p = First(s)
    BY <2>4, FirstIsIn
  <2>6. ASSUME NEW t \in SUBSET S, NEW q \in s, t = s \ {q}
        PROVE  Good(t) /\ Cardinality(t) = k - 1
    <3>1. Cardinality(t) = k - 1 /\ k - 1 \in Nat
      <4>1. Cardinality(t) = Cardinality(s) - 1 /\ Cardinality(s) \in Nat \ {0}
        BY <2>6, Smaller
      <4> QED BY <2>2, <4>1
    <3>2. k - 1 \notin Bad
      <4>1. ~(k <= k - 1)
        BY <2>3
      <4> HIDE DEF Bad
      <4> QED BY <2>1, <4>1
    <3> HIDE DEF Good
    <3> QED BY <3>1, <3>2
  <2>7. Travelling(s) = p.budget + Travelling(s \ {p}) /\ p.budget \in Nat
    BY <2>3, <2>4, <2>5, SumByFirst DEF HaveBudgets
  <2>8. PICK u \in SUBSET S : u = s \ {p}
    OBVIOUS
  <2>9. Good(u)
    BY <2>5, <2>6, <2>8
  <2>10. Travelling(s) \in Nat
    BY <2>7, <2>8, <2>9
  <2>11. ASSUME NEW q \in s PROVE Travelling(s) = q.budget + Travelling(s \ {q})
    <3>1. CASE q = p
      BY <3>1, <2>7
    <3>2. CASE q # p
      <4>1. PICK t \in SUBSET S : t = s \ {q}
        OBVIOUS
      <4>2. PICK v \in SUBSET S : v = u \ {q}
        OBVIOUS
      <4>3. v = t \ {p} /\ q \in u /\ p \in t
        BY <2>5, <2>8, <3>2, <4>1, <4>2
      <4>4. Travelling(u) = q.budget + Travelling(v)
        BY <2>9, <4>2, <4>3
      <4>5. Good(t)
        BY <2>6, <4>1
      <4>6. Travelling(t) = p.budget + Travelling(v)
        BY <4>3, <4>5
      <4>7. IsFiniteSet(v) /\ Travelling(v) \in Nat
        <5>1. Cardinality(u) = k - 1 /\ IsFiniteSet(u)
          BY <2>6, <2>8, FS_Subset
        <5>2. Cardinality(v) = k - 2 /\ k - 2 \in Nat
          <6>1. Cardinality(v) = Cardinality(u) - 1 /\ Cardinality(u) \in Nat \ {0}
            BY <4>2, <4>3, <5>1, Smaller
          <6> QED BY <5>1, <6>1, <2>3
        <5>3. k - 2 \notin Bad
          <6>1. ~(k <= k - 2)
            BY <2>3
          <6> HIDE DEF Bad
          <6> QED BY <2>1, <6>1
        <5>4. Good(v)
          <6> HIDE DEF Good
          <6> QED BY <5>2, <5>3
        <5> QED BY <5>4, FS_Subset
      <4>8. q.budget \in Nat
        BY DEF HaveBudgets
      <4> QED BY <2>7, <2>8, <4>1, <4>4, <4>6, <4>7, <4>8
    <3> QED BY <3>1, <3>2
  <2> QED BY <2>2, <2>10, <2>11
<1>2. Cardinality(S) \in Nat
  BY FS_CardinalityType
<1>3. Good(S)
  <2>1. \A s \in SUBSET S : Cardinality(s) \in Nat => Good(s)
    BY <1>1
  <2> HIDE DEF Good
  <2> QED BY <1>2, <2>1
<1> QED BY <1>3

\* A request more adds its budget at most.
LEMMA SumWith ==
  ASSUME NEW S, IsFiniteSet(S), HaveBudgets(S), NEW q, q.budget \in Nat
  PROVE  /\ IsFiniteSet(S \cup {q}) /\ HaveBudgets(S \cup {q})
         /\ Travelling(S \cup {q}) <= Travelling(S) + q.budget
         /\ Travelling(S) \in Nat /\ Travelling(S \cup {q}) \in Nat
<1>1. PICK T : T = S \cup {q}
  OBVIOUS
<1>2. IsFiniteSet(T)
  BY <1>1, FS_AddElement
<1>3. HaveBudgets(T)
  BY <1>1 DEF HaveBudgets
<1>4. Travelling(S) \in Nat /\ Travelling(T) \in Nat
  BY <1>2, <1>3, SumOf
<1>5. CASE q \in S
  <2>1. T = S
    BY <1>1, <1>5
  <2>2. Travelling(S) <= Travelling(S) + q.budget
    BY <1>4
  <2> QED BY <1>1, <1>2, <1>3, <1>4, <2>1, <2>2
<1>6. CASE q \notin S
  <2>1. S = T \ {q} /\ q \in T
    BY <1>1, <1>6
  <2>2. Travelling(T) = q.budget + Travelling(S)
    BY <1>2, <1>3, <2>1, SumOf
  <2> QED BY <1>1, <1>2, <1>3, <1>4, <2>2
<1> QED BY <1>5, <1>6

\* Two sets of requests have no more than their budgets together.
LEMMA SumOfBoth ==
  ASSUME NEW S, IsFiniteSet(S), HaveBudgets(S), NEW T, IsFiniteSet(T), HaveBudgets(T)
  PROVE  /\ IsFiniteSet(S \cup T) /\ HaveBudgets(S \cup T)
         /\ Travelling(S \cup T) \in Nat
         /\ Travelling(S \cup T) <= Travelling(S) + Travelling(T)
<1> DEFINE Good(t) == Travelling(S \cup t) <= Travelling(S) + Travelling(t)
           Bad == {k \in Nat : \E t \in SUBSET T : Cardinality(t) = k /\ ~Good(t)}
<1>0. /\ Travelling(S) \in Nat
      /\ \A t \in SUBSET T : /\ IsFiniteSet(t) /\ HaveBudgets(t) /\ Travelling(t) \in Nat
                             /\ IsFiniteSet(S \cup t) /\ HaveBudgets(S \cup t)
                             /\ Travelling(S \cup t) \in Nat
  <2>1. Travelling(S) \in Nat
    BY SumOf
  <2>2. ASSUME NEW t \in SUBSET T
        PROVE  /\ IsFiniteSet(t) /\ HaveBudgets(t) /\ Travelling(t) \in Nat
               /\ IsFiniteSet(S \cup t) /\ HaveBudgets(S \cup t)
               /\ Travelling(S \cup t) \in Nat
    <3>1. IsFiniteSet(t) /\ IsFiniteSet(S \cup t)
      BY FS_Subset, FS_Union
    <3>2. HaveBudgets(t) /\ HaveBudgets(S \cup t)
      BY DEF HaveBudgets
    <3> QED BY <3>1, <3>2, SumOf
  <2> QED BY <2>1, <2>2
<1>1. ASSUME Bad # {} PROVE FALSE
  <2>1. PICK k \in Bad : \A j \in Bad : k <= j
    <3>1. Bad \in SUBSET Nat
      OBVIOUS
    <3> HIDE DEF Bad
    <3> QED BY <1>1, <3>1, Least
  <2>2. PICK t \in SUBSET T : Cardinality(t) = k /\ ~Good(t)
    BY <2>1
  <2>3. t # {}
    <3>1. CASE t = {}
      <4>1. S \cup t = S /\ Travelling(t) = 0
        BY <1>0, <3>1, SumByFirst
      <4>2. Travelling(S) <= Travelling(S) + 0
        BY <1>0
      <4>3. Good(t)
        BY <4>1, <4>2
      <4> HIDE DEF Good
      <4> QED BY <2>2, <4>3
    <3> QED BY <3>1
  <2>4. PICK q \in t : TRUE
    BY <2>3
  <2>5. PICK u \in SUBSET T : u = t \ {q}
    OBVIOUS
  <2>6. Cardinality(u) = k - 1 /\ k - 1 \in Nat /\ k \in Nat
    BY <2>2, <2>5, Smaller
  <2>7. Good(u)
    <3>1. k - 1 \notin Bad
      <4>1. ~(k <= k - 1)
        BY <2>6
      <4> HIDE DEF Bad
      <4> QED BY <2>1, <4>1
    <3> HIDE DEF Good
    <3> QED BY <2>6, <3>1
  <2>8. Travelling(t) = q.budget + Travelling(u) /\ q.budget \in Nat
    BY <1>0, <2>5, SumOf DEF HaveBudgets
  <2>9. S \cup t = (S \cup u) \cup {q}
    BY <2>5
  <2>10. Travelling(S \cup t) <= Travelling(S \cup u) + q.budget
    BY <1>0, <2>8, <2>9, SumWith
  <2>11. ~(Travelling(S \cup t) <= Travelling(S) + Travelling(t))
    BY <2>2
  <2> QED BY <1>0, <2>7, <2>8, <2>10, <2>11
<1>2. Cardinality(T) \in Nat
  BY FS_CardinalityType
<1>3. Good(T)
  <2>1. \A t \in SUBSET T : Cardinality(t) \in Nat => Good(t)
    BY <1>1
  <2> HIDE DEF Good
  <2> QED BY <1>2, <2>1
<1> QED BY <1>0, <1>3

\* A division and its remainder.
LEMMA DivisionIsExact ==
  ASSUME NEW a \in Nat, NEW b \in Nat \ {0}
  PROVE  \E d \in Nat, m \in Nat : d = a \div b /\ m = a % b /\ a = b * d + m
<1>1. PICK d \in Nat : d = a \div b
  OBVIOUS
<1>2. b * d <= a
  BY <1>1
<1>3. a < b * (d + 1)
  BY <1>1
<1>4. b * (d + 1) = b * d + b
  OBVIOUS
<1>5. PICK m \in Nat : m = a - b * d
  BY <1>2
<1>6. m < b /\ a = b * d + m
  BY <1>2, <1>3, <1>4, <1>5
<1>7. m = a % b
  BY <1>6
<1> QED BY <1>1, <1>6, <1>7

\* What n sends to some peers.
SentTo(n, share, to) == {[dst |-> p, relayer |-> n, budget |-> share[p]] : p \in to}

\* The shares of a budget are no more than the budget.
LEMMA SplitIsWithin ==
  ASSUME NEW n, NEW total \in Nat, NEW chosen, IsFiniteSet(chosen), chosen # {},
         NEW share \in Split(total, chosen), NEW sent, sent = SentTo(n, share, chosen)
  PROVE  IsFiniteSet(sent) /\ HaveBudgets(sent) /\ Travelling(sent) <= total
<1>1. PICK k \in Nat \ {0} : k = Cardinality(chosen)
  BY FS_CardinalityType, FS_EmptySet
<1>2. PICK d \in Nat, m \in Nat : d = total \div k /\ m = total % k /\ total = k * d + m
  BY DivisionIsExact
<1>3. PICK lucky \in SUBSET chosen :
        /\ Cardinality(lucky) = m
        /\ share = [x \in chosen |-> d + (IF x \in lucky THEN 1 ELSE 0)]
  BY <1>1, <1>2 DEF Split, kSubset
<1> DEFINE To(t) == SentTo(n, share, t)
           Good(t) == /\ IsFiniteSet(To(t)) /\ HaveBudgets(To(t))
                      /\ Travelling(To(t)) <= Cardinality(t) * d + Cardinality(t \cap lucky)
           Bad == {c \in Nat : \E t \in SUBSET chosen : Cardinality(t) = c /\ ~Good(t)}
<1>4. \A t \in SUBSET chosen : IsFiniteSet(t) /\ IsFiniteSet(t \cap lucky) /\ Cardinality(t \cap lucky) \in Nat
  BY FS_Subset, FS_CardinalityType
<1>5. ASSUME Bad # {} PROVE FALSE
  <2>1. PICK c \in Bad : \A j \in Bad : c <= j
    <3>1. Bad \in SUBSET Nat
      OBVIOUS
    <3> HIDE DEF Bad
    <3> QED BY <1>5, <3>1, Least
  <2>2. PICK t \in SUBSET chosen : Cardinality(t) = c /\ ~Good(t) /\ c \in Nat
    BY <2>1
  <2>3. t # {}
    <3>1. CASE t = {}
      <4>1. To(t) = {}
        BY <3>1 DEF SentTo
      <4>2. IsFiniteSet({}) /\ HaveBudgets({}) /\ Travelling({}) = 0 /\ Cardinality({}) = 0
        BY FS_EmptySet, SumByFirst DEF HaveBudgets
      <4>3. {} \cap lucky = {}
        OBVIOUS
      <4>4. 0 <= 0 * d + 0
        OBVIOUS
      <4>5. Good(t)
        BY <3>1, <4>1, <4>2, <4>3, <4>4
      <4> HIDE DEF Good
      <4> QED BY <2>2, <4>5
    <3> QED BY <3>1
  <2>4. PICK p \in t : TRUE
    BY <2>3
  <2>5. PICK u \in SUBSET chosen : u = t \ {p}
    OBVIOUS
  <2>6. PICK q : q = [dst |-> p, relayer |-> n, budget |-> share[p]]
    OBVIOUS
  <2>7. Cardinality(u) = c - 1 /\ c - 1 \in Nat
    <3>1. Cardinality(u) = Cardinality(t) - 1 /\ Cardinality(t) \in Nat \ {0}
      BY <2>5, Smaller
    <3> QED BY <2>2, <3>1
  <2>8. Good(u)
    <3>1. c - 1 \notin Bad
      <4>1. ~(c <= c - 1)
        BY <2>2
      <4> HIDE DEF Bad
      <4> QED BY <2>1, <4>1
    <3> HIDE DEF Good
    <3> QED BY <2>7, <3>1
  <2>9. To(t) = To(u) \cup {q}
    BY <2>4, <2>5, <2>6 DEF SentTo
  <2>10. share[p] = d + (IF p \in lucky THEN 1 ELSE 0) /\ q.budget = share[p]
    BY <1>3, <2>4, <2>6
  <2>11. q.budget \in Nat
    BY <2>10
  <2>12. Cardinality(t \cap lucky) = Cardinality(u \cap lucky) + (IF p \in lucky THEN 1 ELSE 0)
    <3>1. CASE p \in lucky
      <4>1. t \cap lucky = (u \cap lucky) \cup {p} /\ p \notin u \cap lucky
        BY <2>4, <2>5, <3>1
      <4> QED BY <1>4, <3>1, <4>1, FS_AddElement
    <3>2. CASE p \notin lucky
      <4>1. t \cap lucky = u \cap lucky
        BY <2>5, <3>2
      <4>2. Cardinality(u \cap lucky) \in Nat
        BY <1>4
      <4>3. Cardinality(u \cap lucky) = Cardinality(u \cap lucky) + 0
        BY <4>2
      <4> QED BY <3>2, <4>1, <4>3
    <3> QED BY <3>1, <3>2
  <2>13. /\ IsFiniteSet(To(t)) /\ HaveBudgets(To(t))
         /\ Travelling(To(t)) <= Travelling(To(u)) + q.budget
         /\ Travelling(To(u)) \in Nat /\ Travelling(To(t)) \in Nat
    <3>1. IsFiniteSet(To(u)) /\ HaveBudgets(To(u))
      BY <2>8
    <3>2. PICK S, T : S = To(u) /\ T = To(t)
      OBVIOUS
    <3> HIDE DEF To
    <3>3. IsFiniteSet(S) /\ HaveBudgets(S) /\ T = S \cup {q}
      BY <2>9, <3>1, <3>2
    <3>4. /\ IsFiniteSet(T) /\ HaveBudgets(T) /\ Travelling(T) <= Travelling(S) + q.budget
          /\ Travelling(S) \in Nat /\ Travelling(T) \in Nat
      BY <2>11, <3>3, SumWith
    <3> QED BY <3>2, <3>4
  <2>14. Travelling(To(t)) <= c * d + Cardinality(t \cap lucky)
    <3>1. PICK e \in Nat : e = c - 1
      BY <2>7
    <3>2. c * d = e * d + d
      BY <2>2, <3>1
    <3>3. Travelling(To(u)) <= e * d + Cardinality(u \cap lucky)
      BY <2>7, <2>8, <3>1
    <3>4. e * d \in Nat /\ Cardinality(u \cap lucky) \in Nat
      <4>1. e * d \in Nat
        OBVIOUS
      <4>2. Cardinality(u \cap lucky) \in Nat
        BY <1>4
      <4> QED BY <4>1, <4>2
    <3> HIDE DEF To
    <3> QED BY <2>10, <2>12, <2>13, <3>2, <3>3, <3>4
  <2>15. Good(t)
    BY <2>2, <2>13, <2>14
  <2> HIDE DEF Good
  <2> QED BY <2>2, <2>15
<1>6. Good(chosen)
  <2>1. \A t \in SUBSET chosen : Cardinality(t) \in Nat => Good(t)
    BY <1>5
  <2> HIDE DEF Good
  <2> QED BY <1>1, <2>1
<1>7. To(chosen) = sent /\ chosen \cap lucky = lucky
  BY <1>3
<1>8. Travelling(sent) <= k * d + m
  BY <1>1, <1>3, <1>6, <1>7
<1> QED BY <1>2, <1>6, <1>7, <1>8

\* What is sent for a budget has no more than the budget.
LEMMA SendingIsWithin ==
  ASSUME peers \in Topologies, NEW n \in Node, NEW excluded, NEW total \in 1..MaxUint,
         NEW sent \in Distribute(n, excluded, total)
  PROVE  IsFiniteSet(sent) /\ HaveBudgets(sent) /\ Travelling(sent) <= total
<1>0. total \in Nat /\ total >= 1
  BY SearchAssumption
<1>1. PICK available : available = peers[n] \ excluded
  OBVIOUS
<1>2. CASE available = {}
  <2>1. sent = {}
    BY <1>1, <1>2, Zenon DEF Distribute
  <2>2. IsFiniteSet({}) /\ HaveBudgets({}) /\ Travelling({}) = 0
    BY FS_EmptySet, SumByFirst DEF HaveBudgets
  <2> QED BY <1>0, <2>1, <2>2
<1>3. CASE available # {}
  <2>1. IsFiniteSet(available)
    BY <1>1, SearchAssumption, FS_Subset
  <2>2. PICK share \in UNION {Split(total, chosen) : chosen \in RandomPeers(available, total)} :
          sent = {[dst |-> p, relayer |-> n, budget |-> share[p]] : p \in DOMAIN share}
    BY <1>1, <1>3, Zenon DEF Distribute
  <2>3. PICK chosen \in RandomPeers(available, total) : share \in Split(total, chosen)
    BY <2>2
  <2>4. Cardinality(available) \in Nat /\ Cardinality(available) # 0
    BY <1>3, <2>1, FS_CardinalityType, FS_EmptySet
  <2>5. /\ chosen \subseteq available /\ IsFiniteSet(chosen)
        /\ Cardinality(chosen) = IF total > Cardinality(available) THEN Cardinality(available) ELSE total
    BY <2>1, FS_Subset DEF RandomPeers, kSubset
  <2>6. Cardinality(chosen) # 0
    BY <1>0, <2>4, <2>5
  <2>7. chosen # {}
    BY <2>6, FS_EmptySet
  <2>8. DOMAIN share = chosen
    BY <2>3 DEF Split
  <2>9. sent = SentTo(n, share, chosen)
    BY <2>2, <2>8 DEF SentTo
  <2>10. total \in Nat /\ IsFiniteSet(chosen) /\ share \in Split(total, chosen)
    BY <1>0, <2>3, <2>5
  <2> QED BY <2>7, <2>9, <2>10, SplitIsWithin
<1> QED BY <1>2, <1>3

\* Budgets are spent once: what has been served and what is on its way.
BudgetInv == /\ IsFiniteSet(requests)
             /\ served + Travelling(requests) <= issued

\* Requests have budgets, so what is on its way has a sum.
LEMMA BudgetsOnTheWay ==
  ASSUME IInv, BudgetInv
  PROVE  HaveBudgets(requests) /\ Travelling(requests) \in Nat /\ served \in Nat /\ issued \in Nat
<1>1. HaveBudgets(requests)
  BY SearchAssumption DEF IInv, Types, FloodTypes, Request, HaveBudgets
<1>2. served \in Nat /\ issued \in Nat
  BY DEF IInv, Types, FloodTypes
<1> QED BY <1>1, <1>2, SumOf DEF BudgetInv

\* A gossiper takes one from the budget it relays.
LEMMA RelayIsWithin ==
  ASSUME IInv, BudgetInv, NEW n \in Node, HandleSearch(n)
  PROVE  BudgetInv'
<1>1. PICK q \in requests :
        IF remembered[n]
        THEN requests' = requests \ {q} /\ served' = served
        ELSE LET left == (q.budget - 1) % (MaxUint + 1) IN
             /\ served' = served + 1
             /\ \E sent \in IF left > 0 THEN Relay(n, q, left) ELSE {{}} :
                  requests' = (requests \ {q}) \cup sent
  BY DEF HandleSearch
<1>2. /\ issued' = issued /\ peers \in Topologies
      /\ q.budget \in 1..MaxUint /\ MaxUint \in Nat
  BY SearchAssumption DEF HandleSearch, IInv, Types, FloodTypes, Request
<1>3. PICK rest : rest = requests \ {q}
  OBVIOUS
<1>4. /\ IsFiniteSet(rest) /\ HaveBudgets(rest) /\ Travelling(rest) \in Nat
      /\ Travelling(requests) = q.budget + Travelling(rest)
  <2>1. IsFiniteSet(requests) /\ HaveBudgets(requests)
    BY BudgetsOnTheWay DEF BudgetInv
  <2>2. IsFiniteSet(rest) /\ HaveBudgets(rest)
    BY <1>3, <2>1, FS_Subset DEF HaveBudgets
  <2> QED BY <1>3, <2>1, <2>2, SumOf
<1>5. served + Travelling(requests) <= issued /\ served \in Nat /\ issued \in Nat
  BY BudgetsOnTheWay DEF BudgetInv
<1>6. CASE remembered[n]
  <2>1. requests' = rest /\ served' = served
    BY <1>1, <1>3, <1>6
  <2>2. served + Travelling(rest) <= issued
    BY <1>2, <1>4, <1>5
  <2> QED BY <1>2, <1>4, <2>1, <2>2 DEF BudgetInv
<1>7. CASE ~remembered[n]
  <2>1. PICK left : left = (q.budget - 1) % (MaxUint + 1)
    OBVIOUS
  <2>2. \A a \in Nat, b \in Nat \ {0} : a < b => a % b = a
    OBVIOUS
  <2>3. left = q.budget - 1
    BY <1>2, <2>1, <2>2
  <2>4. PICK sent \in IF left > 0 THEN Relay(n, q, left) ELSE {{}} : requests' = rest \cup sent
    BY <1>1, <1>3, <1>7, <2>1
  <2>5. served' = served + 1
    BY <1>1, <1>7
  <2>6. IsFiniteSet(sent) /\ HaveBudgets(sent) /\ Travelling(sent) <= left
    <3>1. CASE left > 0
      <4>1. left \in 1..MaxUint
        BY <1>2, <2>3, <3>1
      <4> QED BY <1>2, <2>4, <3>1, <4>1, SendingIsWithin DEF Relay
    <3>2. CASE ~(left > 0)
      <4>1. sent = {}
        BY <2>4, <3>2
      <4>2. IsFiniteSet({}) /\ HaveBudgets({}) /\ Travelling({}) = 0
        BY FS_EmptySet, SumByFirst DEF HaveBudgets
      <4>3. 0 <= left
        BY <1>2, <2>3
      <4> QED BY <4>1, <4>2, <4>3
    <3> QED BY <3>1, <3>2
  <2>7. PICK next : next = rest \cup sent
    OBVIOUS
  <2>8. /\ IsFiniteSet(next) /\ Travelling(next) \in Nat /\ Travelling(sent) \in Nat
        /\ Travelling(next) <= Travelling(rest) + Travelling(sent)
    BY <1>4, <2>6, <2>7, SumOfBoth, SumOf
  <2>9. (served + 1) + Travelling(next) <= issued
    BY <1>2, <1>4, <1>5, <2>3, <2>6, <2>8
  <2> QED BY <1>2, <2>4, <2>5, <2>7, <2>8, <2>9 DEF BudgetInv
<1> QED BY <1>6, <1>7

\* The ticker doubles a budget without overflow.
LEMMA DoublesWithin ==
  ASSUME IInv, Tick
  PROVE  \E b \in 1..MaxUint : Trigger(b)
<1>1. PICK b : b = (2 * budget) % (MaxUint + 1)
  OBVIOUS
<1>2. budget < MaxBudget /\ budget' = b /\ Trigger(b)
  BY <1>1 DEF Tick, Trigger
<1>3. budget \in 1..MaxUint /\ MaxUint \in Nat /\ MaxBudget \in Nat /\ 2 * MaxBudget <= MaxUint
  BY SearchAssumption DEF IInv, Types, SearcherTypes
<1>4. \A a \in Nat, c \in Nat \ {0} : a < c => a % c = a
  OBVIOUS
<1>5. b = 2 * budget /\ b \in 1..MaxUint
  BY <1>1, <1>2, <1>3, <1>4
<1> QED BY <1>2, <1>5

\* A try hands out the budget it is about.
LEMMA TryIsWithin ==
  ASSUME IInv, BudgetInv, NEW total \in 1..MaxUint, Trigger(total)
  PROVE  BudgetInv'
<1>1. PICK sent \in Distribute(Me, {}, total) : requests' = requests \cup sent
  BY DEF Trigger
<1>2. issued' = issued + total /\ served' = served
  BY DEF Trigger
<1>3. IsFiniteSet(sent) /\ HaveBudgets(sent) /\ Travelling(sent) <= total
  BY <1>1, SendingIsWithin, SearchAssumption DEF IInv, Types, FloodTypes
<1>4. /\ IsFiniteSet(requests) /\ HaveBudgets(requests) /\ Travelling(requests) \in Nat
      /\ served \in Nat /\ issued \in Nat /\ served + Travelling(requests) <= issued
  BY BudgetsOnTheWay DEF BudgetInv
<1>5. PICK next : next = requests \cup sent
  OBVIOUS
<1>6. /\ IsFiniteSet(next) /\ Travelling(next) \in Nat /\ Travelling(sent) \in Nat
      /\ Travelling(next) <= Travelling(requests) + Travelling(sent)
  BY <1>3, <1>4, <1>5, SumOfBoth, SumOf
<1>7. total \in Nat
  BY SearchAssumption
<1>8. served + Travelling(next) <= issued + total
  BY <1>3, <1>4, <1>6, <1>7
<1> QED BY <1>1, <1>2, <1>5, <1>6, <1>8 DEF BudgetInv

\* All gossipers together serve no more requests than the budgets handed out,
\* whatever is still on its way and whichever peers are chosen.
THEOREM FloodIsWithinBudget == Spec => []ServedWithinBudget
<1>1. Init => BudgetInv
  <2> SUFFICES ASSUME Init PROVE BudgetInv
    OBVIOUS
  <2>1. requests = {} /\ served = 0 /\ issued = 0
    BY DEF Init
  <2>2. IsFiniteSet({}) /\ Travelling({}) = 0
    BY FS_EmptySet, SumByFirst
  <2> QED BY <2>1, <2>2 DEF BudgetInv
<1>2. ASSUME IInv, BudgetInv, [Next]_vars PROVE BudgetInv'
  <2>1. ASSUME NEW n \in Node, HandleSearch(n) PROVE BudgetInv'
    BY <1>2, <2>1, RelayIsWithin
  <2>2. CASE Ignore
    <3>1. PICK q \in requests : requests' = requests \ {q}
      BY <2>2 DEF Ignore
    <3>2. UNCHANGED <<issued, served>>
      BY <2>2 DEF Ignore
    <3>3. /\ IsFiniteSet(requests) /\ HaveBudgets(requests) /\ Travelling(requests) \in Nat
          /\ served \in Nat /\ issued \in Nat /\ served + Travelling(requests) <= issued
      BY <1>2, BudgetsOnTheWay DEF BudgetInv
    <3>4. PICK next : next = requests \ {q}
      OBVIOUS
    <3>5. /\ IsFiniteSet(next) /\ HaveBudgets(next) /\ q.budget \in Nat
          /\ Travelling(requests) = q.budget + Travelling(next)
      BY <3>3, <3>4, FS_Subset, SumOf DEF HaveBudgets
    <3>6. Travelling(next) \in Nat
      BY <3>5, SumOf
    <3>7. served + Travelling(next) <= issued
      BY <3>3, <3>5, <3>6
    <3> QED BY <3>1, <3>2, <3>4, <3>5, <3>7 DEF BudgetInv
  <2>3. CASE ReplaceCh \/ Tick
    <3>1. CASE ReplaceCh
      <4>1. Trigger(budget) /\ budget \in 1..MaxUint
        BY <1>2, <3>1 DEF ReplaceCh, IInv, Types, SearcherTypes
      <4> QED BY <1>2, <4>1, TryIsWithin
    <3>2. CASE Tick
      <4>1. PICK b \in 1..MaxUint : Trigger(b)
        BY <1>2, <3>2, DoublesWithin
      <4> QED BY <1>2, <4>1, TryIsWithin
    <3> QED BY <2>3, <3>1, <3>2
  <2>4. CASE UNCHANGED <<requests, issued, served>>
    BY <1>2, <2>4 DEF BudgetInv
  <2>5. ASSUME NEW n \in Node, Forget(n) \/ Fetch(n) PROVE UNCHANGED <<requests, issued, served>>
    BY <2>5 DEF Forget, Fetch, flood
  <2>6. CASE Search \/ Finish \/ HearReply \/ CheckSearchFinish \/ RequestSearchedFile \/ RequestChunks
    <3>1. UNCHANGED <<requests, issued, served>>
      BY <2>6 DEF Search, Finish, HearReply, CheckSearchFinish, RangeReplies, Take, NextResult, Locate,
        Conclude, ClearCh, RequestSearchedFile, RequestChunks, flood
    <3> QED BY <2>4, <3>1
  <2>7. CASE UNCHANGED vars
    BY <2>4, <2>7 DEF vars, flood
  <2> QED BY <1>2, <2>1, <2>2, <2>3, <2>4, <2>5, <2>6, <2>7 DEF Next
<1>3. BudgetInv => ServedWithinBudget
  BY DEF BudgetInv, ServedWithinBudget, Travelling
<1> QED BY <1>1, <1>2, <1>3, Invariance, PTL DEF Spec
-----------------------------------------------------------------------------
(* Requests that come again *)

\* With every gossiper, those of a set that it is linked to.
Closed(T, S) == \A x \in T : \A y \in S : Linked(x, y) => y \in T
Joined(S, p, x) == \A T \in SUBSET S : p \in T /\ Closed(T, S) => x \in T

\* Whom p is joined with around d.
Branch(d, p) == {x \in Node \ {d} : Joined(Node \ {d}, p, x)}

\* A branch contains its first gossiper, and whoever is linked to one of it.
LEMMA BranchIsClosed ==
  ASSUME NEW d \in Node, NEW p \in Node, p # d
  PROVE  /\ p \in Branch(d, p) /\ Branch(d, p) \subseteq Node \ {d}
         /\ Closed(Branch(d, p), Node \ {d})
<1>1. p \in Branch(d, p) /\ Branch(d, p) \subseteq Node \ {d}
  BY DEF Branch, Joined
<1>2. ASSUME NEW x \in Branch(d, p), NEW y \in Node \ {d}, Linked(x, y)
      PROVE  y \in Branch(d, p)
  <2>1. ASSUME NEW T \in SUBSET (Node \ {d}), p \in T, Closed(T, Node \ {d})
        PROVE  y \in T
    BY <1>2, <2>1 DEF Branch, Joined, Closed
  <2> QED BY <2>1 DEF Branch, Joined
<1> QED BY <1>1, <1>2 DEF Closed

\* No closed set with its first gossiper leaves one of the branch out.
LEMMA BranchIsLeast ==
  ASSUME NEW d \in Node, NEW p \in Node, NEW T \in SUBSET (Node \ {d}),
         p \in T, Closed(T, Node \ {d})
  PROVE  Branch(d, p) \subseteq T
  BY DEF Branch, Joined

\* On peers without a circle a branch has one link only to where it begins.
LEMMA BranchHangsByOne ==
  ASSUME peers \in Topologies, Acyclic, NEW d \in Node, NEW p \in Node, Linked(d, p),
         NEW x \in Branch(d, p), Linked(d, x)
  PROVE  x = p
<1>1. SUFFICES ASSUME x # p PROVE FALSE
  OBVIOUS
<1>2. p # d /\ IsFiniteSet(Node)
  BY SearchAssumption DEF Linked
<1> DEFINE Around(S) == S \subseteq Node \ {d} /\ p \in S /\ x \in S /\ Joined(S, p, x)
           Sizes == {c \in Nat : \E S \in SUBSET Node : Around(S) /\ Cardinality(S) = c}
<1>3. \A S \in SUBSET Node : Cardinality(S) \in Nat
  BY <1>2, FS_Subset, FS_CardinalityType
<1>4. Sizes # {}
  <2>1. x \in Node \ {d} /\ Joined(Node \ {d}, p, x)
    BY DEF Branch
  <2>2. Around(Node \ {d})
    BY <1>2, <2>1
  <2> QED BY <1>3, <2>2
<1>5. PICK c \in Sizes : \A b \in Sizes : c <= b
  <2>1. Sizes \in SUBSET Nat
    OBVIOUS
  <2> HIDE DEF Sizes
  <2> QED BY <1>4, <2>1, Least
<1>6. PICK S \in SUBSET Node : Around(S) /\ Cardinality(S) = c /\ c \in Nat
  BY <1>5
<1>7. \A n, m \in Node : Linked(n, m) => Linked(m, n)
  BY DEF Linked
<1>8. PICK y \in S \cup {d} : \A a, b \in S \cup {d} : Linked(y, a) /\ Linked(y, b) => a = b
  <2>1. S \cup {d} \in (SUBSET Node) \ {{}}
    OBVIOUS
  <2> QED BY <2>1 DEF Acyclic
<1>9. y # d
  BY <1>1, <1>6, <1>8
<1>10. y # p
  <2>1. SUFFICES ASSUME y = p PROVE FALSE
    OBVIOUS
  <2>2. \A z \in S : ~Linked(p, z)
    BY <1>6, <1>7, <1>8, <2>1
  <2>3. Closed({p}, S) /\ {p} \in SUBSET S
    BY <1>6, <2>2 DEF Closed
  <2> QED BY <1>1, <1>6, <2>3 DEF Joined
<1>11. y # x
  <2>1. SUFFICES ASSUME y = x PROVE FALSE
    OBVIOUS
  <2>2. \A z \in S : ~Linked(z, x)
    BY <1>6, <1>7, <1>8, <2>1
  <2>3. PICK T \in SUBSET S : T = S \ {x}
    OBVIOUS
  <2>4. Closed(T, S) /\ p \in T /\ x \notin T
    BY <1>1, <1>6, <2>2, <2>3 DEF Closed
  <2> QED BY <1>6, <2>4 DEF Joined
<1>12. PICK R \in SUBSET Node : R = S \ {y}
  OBVIOUS
<1>13. Around(R)
  <2>1. ASSUME NEW T \in SUBSET R, p \in T, Closed(T, R) PROVE x \in T
    <3>1. CASE \E t \in T : Linked(t, y)
      <4>1. PICK t \in T : Linked(t, y)
        BY <3>1
      <4>2. PICK U \in SUBSET S : U = T \cup {y}
        BY <1>9, <1>12
      <4>3. \A z \in S : Linked(y, z) => z = t
        BY <1>7, <1>8, <1>12, <4>1
      <4>4. Closed(U, S)
        BY <1>12, <2>1, <4>1, <4>2, <4>3 DEF Closed
      <4>5. x \in U
        BY <1>6, <2>1, <4>2, <4>4 DEF Joined
      <4> QED BY <1>11, <4>2, <4>5
    <3>2. CASE ~(\E t \in T : Linked(t, y))
      <4>1. Closed(T, S) /\ T \in SUBSET S
        BY <1>12, <2>1, <3>2 DEF Closed
      <4> QED BY <1>6, <2>1, <4>1 DEF Joined
    <3> QED BY <3>1, <3>2
  <2>2. Joined(R, p, x)
    BY <2>1 DEF Joined
  <2> QED BY <1>6, <1>10, <1>11, <1>12, <2>2
<1>14. Cardinality(R) = c - 1 /\ c - 1 \in Nat
  <2>1. IsFiniteSet(S) /\ y \in S
    BY <1>2, <1>9, FS_Subset
  <2>2. Cardinality(R) = Cardinality(S) - 1 /\ Cardinality(S) \in Nat \ {0}
    BY <1>12, <2>1, Smaller
  <2> QED BY <1>6, <2>2
<1>15. c - 1 \in Sizes
  BY <1>13, <1>14
<1>16. ~(c <= c - 1)
  BY <1>6
<1> QED
  <2> HIDE DEF Sizes
  <2> QED BY <1>5, <1>15, <1>16

\* Different branches around a gossiper have nobody in common.
LEMMA BranchesApart ==
  ASSUME peers \in Topologies, Acyclic, NEW d \in Node, NEW p \in Node, NEW r \in Node,
         Linked(d, p), Linked(d, r), p # r
  PROVE  Branch(d, p) \cap Branch(d, r) = {}
<1>1. p # d /\ r # d
  BY SearchAssumption DEF Linked
<1>2. PICK A \in SUBSET (Node \ {d}) : A = Branch(d, p)
  BY DEF Branch
<1>3. PICK B \in SUBSET (Node \ {d}) : B = Branch(d, r)
  BY DEF Branch
<1>4. r \notin A
  BY <1>2, BranchHangsByOne
<1>5. r \in B /\ Closed(B, Node \ {d}) /\ Closed(A, Node \ {d})
  BY <1>1, <1>2, <1>3, BranchIsClosed
<1>6. PICK T \in SUBSET (Node \ {d}) : T = B \ A
  OBVIOUS
<1>7. Closed(T, Node \ {d}) /\ r \in T
  BY <1>4, <1>5, <1>6 DEF Closed, Linked
<1>8. B \subseteq T
  BY <1>3, <1>7, BranchIsLeast
<1> QED BY <1>2, <1>3, <1>6, <1>8

\* What lies behind d, coming from r, contains the branches of the others.
LEMMA BranchesBehind ==
  ASSUME peers \in Topologies, Acyclic, NEW d \in Node, NEW p \in Node, NEW r \in Node,
         Linked(d, p), Linked(d, r), p # r
  PROVE  Branch(d, p) \subseteq Branch(r, d) \ {d}
<1>1. p # d /\ r # d
  BY SearchAssumption DEF Linked
<1>2. PICK A \in SUBSET (Node \ {d}) : A = Branch(d, p)
  BY DEF Branch
<1>3. PICK D \in SUBSET (Node \ {r}) : D = Branch(r, d)
  BY DEF Branch
<1>4. r \notin A
  BY <1>2, BranchHangsByOne
<1>5. /\ p \in A /\ Closed(A, Node \ {d})
      /\ d \in D /\ Closed(D, Node \ {r})
  BY <1>1, <1>2, <1>3, BranchIsClosed
<1>6. p \in D
  BY <1>5 DEF Closed
<1>7. PICK T \in SUBSET (Node \ {d}) : T = A \cap D
  OBVIOUS
<1>8. Closed(T, Node \ {d}) /\ p \in T
  BY <1>4, <1>5, <1>6, <1>7 DEF Closed
<1>9. A \subseteq T
  BY <1>2, <1>8, BranchIsLeast
<1> QED BY <1>2, <1>3, <1>7, <1>9

\* While one try is on its way: nobody in the branch that a request goes into
\* remembers one, no other request goes into it, and nobody is locked.
RepeatInv ==
  Acyclic /\ ~late =>
    /\ \A q \in requests : /\ Linked(q.relayer, q.dst)
                           /\ \A x \in Branch(q.relayer, q.dst) : ~remembered[x]
    /\ \A q, w \in requests : q # w => Branch(q.relayer, q.dst) \cap Branch(w.relayer, w.dst) = {}
    /\ \A n \in Node : ~locked[n]

\* The requests that go out for a budget go into branches of their own.
LEMMA SentApart ==
  ASSUME peers \in Topologies, NEW n \in Node, NEW excluded, NEW total \in 1..MaxUint,
         NEW sent \in Distribute(n, excluded, total)
  PROVE  /\ \A q \in sent : /\ q.relayer = n /\ q.dst \in Node \ excluded
                            /\ Linked(n, q.dst) /\ q \in Request
         /\ \A q, w \in sent : q.dst = w.dst => q = w
<1>1. PICK available : available = peers[n] \ excluded
  OBVIOUS
<1>2. available \subseteq Node /\ sent \subseteq Request
  BY <1>1, SearchAssumption, Sending
<1>3. CASE available = {}
  <2>1. sent = {}
    BY <1>1, <1>3, Zenon DEF Distribute
  <2> QED BY <2>1
<1>4. CASE available # {}
  <2>1. PICK share \in UNION {Split(total, chosen) : chosen \in RandomPeers(available, total)} :
          sent = {[dst |-> p, relayer |-> n, budget |-> share[p]] : p \in DOMAIN share}
    BY <1>1, <1>4, Zenon DEF Distribute
  <2>2. PICK chosen \in RandomPeers(available, total) : share \in Split(total, chosen)
    BY <2>1
  <2>3. DOMAIN share \subseteq available
    <3>1. chosen \subseteq available
      BY <2>2 DEF RandomPeers, kSubset
    <3>2. DOMAIN share = chosen
      BY <2>2 DEF Split
    <3> QED BY <3>1, <3>2
  <2>4. ASSUME NEW q \in sent
        PROVE  /\ q.relayer = n /\ q.dst \in available
               /\ q = [dst |-> q.dst, relayer |-> n, budget |-> share[q.dst]]
    <3>1. PICK p \in DOMAIN share : q = [dst |-> p, relayer |-> n, budget |-> share[p]]
      BY <2>1
    <3>2. q.relayer = n /\ q.dst = p
      BY <3>1
    <3> QED BY <2>3, <3>1, <3>2
  <2>5. \A q, w \in sent : q.dst = w.dst => q = w
    <3>1. ASSUME NEW q \in sent, NEW w \in sent, q.dst = w.dst PROVE q = w
      <4>1. q = [dst |-> q.dst, relayer |-> n, budget |-> share[q.dst]]
        BY <2>4
      <4>2. w = [dst |-> q.dst, relayer |-> n, budget |-> share[q.dst]]
        BY <2>4, <3>1
      <4> QED BY <4>1, <4>2, Zenon
    <3> QED BY <3>1
  <2>6. \A p \in available : Linked(n, p) /\ p \in Node \ excluded
    BY <1>1, <1>2 DEF Linked
  <2> QED BY <1>2, <2>4, <2>5, <2>6
<1> QED BY <1>3, <1>4

\* Links do not change during a search.
LEMMA LinksStay ==
  ASSUME UNCHANGED peers
  PROVE  /\ \A d, p \in Node : Linked(d, p)' <=> Linked(d, p)
         /\ Acyclic' <=> Acyclic
         /\ \A d, p \in Node : Branch(d, p)' = Branch(d, p)
<1>1. \A d, p : Linked(d, p)' <=> Linked(d, p)
  BY DEF Linked
<1>2. Acyclic' <=> Acyclic
  BY <1>1 DEF Acyclic
<1>3. \A d, p \in Node : Branch(d, p)' = Branch(d, p)
  BY DEF Branch, Joined, Closed, Linked
<1> QED BY <1>1, <1>2, <1>3

\* Without a change of the requests and with no more remembered, it stays.
LEMMA ForgettingIsHarmless ==
  ASSUME RepeatInv, UNCHANGED <<peers, late, locked>>, requests' \subseteq requests,
         \A x \in Node : remembered'[x] => remembered[x]
  PROVE  RepeatInv'
<1> SUFFICES ASSUME Acyclic', ~late'
             PROVE  /\ \A q \in requests' : /\ Linked(q.relayer, q.dst)'
                                            /\ \A x \in Branch(q.relayer, q.dst)' : ~remembered'[x]
                    /\ \A q, w \in requests' :
                         q # w => Branch(q.relayer, q.dst)' \cap Branch(w.relayer, w.dst)' = {}
                    /\ \A n \in Node : ~locked'[n]
  BY DEF RepeatInv
<1>1. \A d, p : (Linked(d, p)' <=> Linked(d, p)) /\ Branch(d, p)' = Branch(d, p)
  BY DEF Linked, Branch, Joined, Closed
<1>2. Acyclic /\ ~late
  BY LinksStay
<1>3. \A d, p : Branch(d, p) \subseteq Node
  BY DEF Branch
<1> QED BY <1>1, <1>2, <1>3 DEF RepeatInv

\* A gossiper that serves a request passes it on into branches within the one
\* that it was sent into.
LEMMA ServingKeepsApart ==
  ASSUME IInv, RepeatInv, NEW n \in Node, HandleSearch(n)
  PROVE  RepeatInv'
<1> SUFFICES ASSUME Acyclic', ~late'
             PROVE  /\ \A q \in requests' : /\ Linked(q.relayer, q.dst)'
                                            /\ \A x \in Branch(q.relayer, q.dst)' : ~remembered'[x]
                    /\ \A q, w \in requests' :
                         q # w => Branch(q.relayer, q.dst)' \cap Branch(w.relayer, w.dst)' = {}
                    /\ \A m \in Node : ~locked'[m]
  BY DEF RepeatInv
<1>1. UNCHANGED <<peers, late>>
  BY DEF HandleSearch
<1>2. \A d, p : (Linked(d, p)' <=> Linked(d, p)) /\ Branch(d, p)' = Branch(d, p)
  BY <1>1 DEF Linked, Branch, Joined, Closed
<1>3. Acyclic /\ ~late /\ peers \in Topologies /\ requests \subseteq Request
      /\ remembered \in [Node -> BOOLEAN]
  BY <1>1, LinksStay DEF IInv, Types, FloodTypes
<1>4. /\ \A q \in requests : /\ Linked(q.relayer, q.dst)
                             /\ \A x \in Branch(q.relayer, q.dst) : ~remembered[x]
      /\ \A q, w \in requests : q # w => Branch(q.relayer, q.dst) \cap Branch(w.relayer, w.dst) = {}
      /\ \A m \in Node : ~locked[m]
  BY <1>3 DEF RepeatInv
<1>5. PICK q \in requests :
        /\ q.dst = n
        /\ ~remembered[n] =>
             LET left == (q.budget - 1) % (MaxUint + 1) IN
             /\ remembered' = [remembered EXCEPT ![n] = TRUE]
             /\ \E sent \in IF left > 0 THEN Relay(n, q, left) ELSE {{}} :
                  requests' = (requests \ {q}) \cup sent
             /\ UNCHANGED locked
  BY DEF HandleSearch
<1>6. PICK r \in Node : r = q.relayer
  BY <1>3 DEF Request
<1>7. Linked(r, n) /\ Linked(n, r) /\ n # r
  BY <1>3, <1>4, <1>5, <1>6, SearchAssumption DEF Linked
<1>8. n \in Branch(r, n)
  BY <1>7, BranchIsClosed
<1>9. ~remembered[n]
  BY <1>4, <1>5, <1>6, <1>8
<1>10. PICK left : left = (q.budget - 1) % (MaxUint + 1)
  OBVIOUS
<1>11. /\ remembered' = [remembered EXCEPT ![n] = TRUE] /\ locked' = locked
       /\ \E sent \in IF left > 0 THEN Relay(n, q, left) ELSE {{}} :
            requests' = (requests \ {q}) \cup sent
  BY <1>5, <1>9, <1>10
<1>12. PICK sent \in IF left > 0 THEN Relay(n, q, left) ELSE {{}} :
         requests' = (requests \ {q}) \cup sent
  BY <1>11
<1>13. /\ \A s \in sent : /\ s.relayer = n /\ s.dst \in Node /\ s.dst # r /\ Linked(n, s.dst)
       /\ \A s, t \in sent : s.dst = t.dst => s = t
  <2>1. CASE left > 0
    <3>1. left \in 1..MaxUint
      <4>1. q.budget \in 1..MaxUint /\ MaxUint \in Nat
        BY <1>3, SearchAssumption DEF Request
      <4>2. \A a \in Nat, b \in Nat \ {0} : a < b => a % b = a
        OBVIOUS
      <4>3. left = q.budget - 1
        BY <1>10, <4>1, <4>2
      <4> QED BY <2>1, <4>1, <4>3
    <3>2. sent \in Distribute(n, {r}, left)
      BY <1>6, <1>12, <2>1 DEF Relay
    <3> QED BY <1>3, <3>1, <3>2, SentApart
  <2>2. CASE ~(left > 0)
    BY <1>12, <2>2
  <2> QED BY <2>1, <2>2
<1>14. \A s \in sent : Branch(s.relayer, s.dst) \subseteq Branch(r, n) \ {n}
  BY <1>3, <1>7, <1>13, BranchesBehind
<1>15. \A s, t \in sent : s # t => Branch(s.relayer, s.dst) \cap Branch(t.relayer, t.dst) = {}
  <2>1. ASSUME NEW s \in sent, NEW t \in sent, s # t
        PROVE  Branch(s.relayer, s.dst) \cap Branch(t.relayer, t.dst) = {}
    <3>1. PICK a \in Node, b \in Node : a = s.dst /\ b = t.dst
      BY <1>13
    <3>2. a # b /\ Linked(n, a) /\ Linked(n, b) /\ s.relayer = n /\ t.relayer = n
      BY <1>13, <2>1, <3>1
    <3>3. Branch(n, a) \cap Branch(n, b) = {}
      BY <1>3, <3>2, BranchesApart
    <3> QED BY <3>1, <3>2, <3>3
  <2> QED BY <2>1
<1>16. \A w \in requests \ {q} : Branch(w.relayer, w.dst) \cap Branch(r, n) = {}
  BY <1>4, <1>5, <1>6
<1>17. \A x \in Node \ {n} : remembered'[x] = remembered[x]
  BY <1>3, <1>11
<1>18. \A d, p : Branch(d, p) \subseteq Node
  BY DEF Branch
<1>19. ASSUME NEW w \in requests'
       PROVE  /\ Linked(w.relayer, w.dst)
              /\ \A x \in Branch(w.relayer, w.dst) : ~remembered'[x]
  <2>1. CASE w \in requests \ {q}
    <3>1. n \notin Branch(w.relayer, w.dst)
      BY <1>8, <1>16, <2>1
    <3> QED BY <1>4, <1>17, <1>18, <2>1, <3>1
  <2>2. CASE w \in sent
    <3>1. \A x \in Branch(r, n) : ~remembered[x]
      BY <1>4, <1>5, <1>6
    <3> QED BY <1>13, <1>14, <1>17, <1>18, <2>2, <3>1
  <2> QED BY <1>12, <2>1, <2>2
<1>20. ASSUME NEW v \in requests', NEW w \in requests', v # w
       PROVE  Branch(v.relayer, v.dst) \cap Branch(w.relayer, w.dst) = {}
  <2>1. CASE v \in requests \ {q} /\ w \in requests \ {q}
    BY <1>4, <1>20, <2>1
  <2>2. CASE v \in sent /\ w \in sent
    BY <1>15, <1>20, <2>2
  <2>3. CASE v \in requests \ {q} /\ w \in sent
    BY <1>14, <1>16, <2>3
  <2>4. CASE v \in sent /\ w \in requests \ {q}
    BY <1>14, <1>16, <2>4
  <2> QED BY <1>12, <2>1, <2>2, <2>3, <2>4
<1>21. \A m \in Node : ~locked'[m]
  BY <1>4, <1>11
<1> QED BY <1>2, <1>19, <1>20, <1>21

\* A try that begins when the last one is over goes into different branches.
LEMMA TryingKeepsApart ==
  ASSUME IInv, RepeatInv, NEW total \in 1..MaxUint, Trigger(total)
  PROVE  RepeatInv'
<1> SUFFICES ASSUME Acyclic', ~late'
             PROVE  /\ \A q \in requests' : /\ Linked(q.relayer, q.dst)'
                                            /\ \A x \in Branch(q.relayer, q.dst)' : ~remembered'[x]
                    /\ \A q, w \in requests' :
                         q # w => Branch(q.relayer, q.dst)' \cap Branch(w.relayer, w.dst)' = {}
                    /\ \A m \in Node : ~locked'[m]
  BY DEF RepeatInv
<1>1. /\ UNCHANGED <<peers, remembered, locked>>
      /\ ~late /\ requests = {} /\ \A x \in Node : ~remembered[x]
  BY DEF Trigger
<1>2. \A d, p : (Linked(d, p)' <=> Linked(d, p)) /\ Branch(d, p)' = Branch(d, p)
  BY <1>1 DEF Linked, Branch, Joined, Closed
<1>3. Acyclic /\ peers \in Topologies /\ \A m \in Node : ~locked[m]
  BY <1>1, LinksStay DEF IInv, Types, FloodTypes, RepeatInv
<1>4. requests' \in Distribute(Me, {}, total)
  BY <1>1 DEF Trigger
<1>5. /\ \A s \in requests' : s.relayer = Me /\ s.dst \in Node /\ Linked(Me, s.dst)
      /\ \A s, t \in requests' : s.dst = t.dst => s = t
  BY <1>3, <1>4, SentApart, SearchAssumption
<1>6. ASSUME NEW s \in requests', NEW t \in requests', s # t
      PROVE  Branch(s.relayer, s.dst) \cap Branch(t.relayer, t.dst) = {}
  <2>1. PICK a \in Node, b \in Node : a = s.dst /\ b = t.dst
    BY <1>5
  <2>2. a # b /\ Linked(Me, a) /\ Linked(Me, b) /\ s.relayer = Me /\ t.relayer = Me
    BY <1>5, <1>6, <2>1
  <2>3. Branch(Me, a) \cap Branch(Me, b) = {}
    BY <1>3, <2>2, BranchesApart, SearchAssumption
  <2> QED BY <2>1, <2>2, <2>3
<1>7. \A d, p : Branch(d, p) \subseteq Node
  BY DEF Branch
<1> QED BY <1>1, <1>2, <1>3, <1>5, <1>6, <1>7

\* A gossiper is locked by a repeated request only where peers are linked in a
\* circle, or where tries overlap.
THEOREM RepeatsNeedCycles == Spec => []RepeatNeedsCycle
<1>1. Init => RepeatInv
  BY DEF Init, RepeatInv
<1>2. ASSUME IInv, RepeatInv, [Next]_vars PROVE RepeatInv'
  <2>1. ASSUME NEW n \in Node, HandleSearch(n) PROVE RepeatInv'
    BY <1>2, <2>1, ServingKeepsApart
  <2>2. ASSUME NEW n \in Node, Forget(n) \/ Fetch(n) \/ Ignore PROVE RepeatInv'
    <3>1. UNCHANGED <<peers, late, locked>> /\ requests' \subseteq requests
      BY <2>2 DEF Forget, Fetch, Ignore, flood
    <3>2. \A x \in Node : remembered'[x] => remembered[x]
      BY <1>2, <2>2 DEF Forget, Fetch, Ignore, flood, IInv, Types, FloodTypes
    <3> QED BY <1>2, <3>1, <3>2, ForgettingIsHarmless
  <2>3. CASE ReplaceCh \/ Tick
    <3>1. CASE ReplaceCh
      <4>1. Trigger(budget) /\ budget \in 1..MaxUint
        BY <1>2, <3>1 DEF ReplaceCh, IInv, Types, SearcherTypes
      <4> QED BY <1>2, <4>1, TryingKeepsApart
    <3>2. CASE Tick
      <4>1. PICK b \in 1..MaxUint : Trigger(b)
        BY <1>2, <3>2, DoublesWithin
      <4> QED BY <1>2, <4>1, TryingKeepsApart
    <3> QED BY <2>3, <3>1, <3>2
  <2>4. CASE UNCHANGED flood
    <3>1. UNCHANGED <<peers, late, locked, requests, remembered>>
      BY <2>4 DEF flood
    <3> QED BY <1>2, <3>1, ForgettingIsHarmless
  <2>5. CASE Search \/ Finish \/ HearReply \/ CheckSearchFinish \/ RequestSearchedFile \/ RequestChunks
    <3>1. UNCHANGED flood
      BY <2>5 DEF Search, Finish, HearReply, CheckSearchFinish, RangeReplies, Take, NextResult, Locate,
        Conclude, ClearCh, RequestSearchedFile, RequestChunks
    <3> QED BY <2>4, <3>1
  <2>6. CASE UNCHANGED vars
    BY <2>4, <2>6 DEF vars
  <2>7. Ignore => RepeatInv'
    BY <2>2, SearchAssumption
  <2> QED BY <1>2, <2>1, <2>2, <2>3, <2>5, <2>6, <2>7 DEF Next
<1>3. RepeatInv => RepeatNeedsCycle
  BY DEF RepeatInv, RepeatNeedsCycle
<1> QED BY <1>1, <1>2, <1>3, Invariance, PTL DEF Spec
=============================================================================
