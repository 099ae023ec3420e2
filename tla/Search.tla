------------------------------- MODULE Search -------------------------------
(***************************************************************************)
(* A file search by expanding ring: gossiper Me floods a request with a    *)
(* budget, doubles it on a ticker, collects the replies of sharers until   *)
(* enough files are complete, and downloads what it found.                 *)
(*                                                                         *)
(* Every file matches the keywords.  A file that a gossiper has indexed    *)
(* lists its chunks 1, 2, ...; one that it downloads is known under the    *)
(* bare name and lists chunk i as 32 * (i - 1) + 1, as HandleDownloading   *)
(* records it.  A packet that is lost is one that never arrives.  What the *)
(* others do after Me has died is left out.                                *)
(***************************************************************************)
EXTENDS Integers, FiniteSets, FiniteSetsExt

CONSTANTS Node, Me,
          Topologies,  \* possible peer lists, each in [Node -> SUBSET Node]
          Shared,      \* Shared[n]: files that n has indexed
          Wanted,      \* Wanted[n]: the files that n may download
          Short,       \* names that may be short
          Threshold, MaxBudget,
          Budgets,     \* the budgets that a client may ask for
          MaxUint,     \* largest budget of its type, 2^64 - 1 in the code
          None

File == UNION {Shared[n] \cup Wanted[n] : n \in Node}
Name == {f.name : f \in File}
Hash == {f.hash : f \in File}

\* The number under which HandleDownloading records a file's i-th chunk.
Place(i) == 32 * (i - 1) + 1

\* A metafile's hash is of the list of its chunks, so one hash is of files of one
\* length; what a gossiper has indexed has a name with the directory in front,
\* which is never short; doubling a budget that is below the maximum (32 in the
\* code) does not overflow.
ASSUME SearchAssumption ==
  /\ Me \in Node /\ IsFiniteSet(Node)
  /\ \A lists \in Topologies : \A n \in Node : n \notin lists[n] /\ lists[n] \subseteq Node
  /\ \A f \in File : f.chunks \in Nat \ {0}
  /\ \A f, g \in File : f.hash = g.hash => f.chunks = g.chunks
  /\ \A n \in Node : {f.name : f \in Shared[n]} \cap ({f.name : f \in Wanted[n]} \cup Short) = {}
  /\ MaxUint \in Nat /\ MaxBudget \in Nat /\ Threshold \in Nat \ {0}
  /\ Budgets \subseteq 1..MaxUint /\ 2 * MaxBudget <= MaxUint
  /\ None \notin Hash \cup Nat
  /\ \A places \in SUBSET UNION {1..f.chunks \cup {Place(i) : i \in 1..f.chunks} : f \in File} :
       None # places

VARIABLES
  short,      \* names shorter than the 13 characters of "_SharedFiles/": what
              \* a downloader calls a file is its user's choice
  peers,      \* the peer lists, which do not change during a search
  got,        \* got[n][f]: how many chunks of f the download of n has recorded
              \* in IndexFileMap, in their order, or None before it starts
  requests,   \* SearchRequest packets in flight
  remembered, \* remembered[n]: SearchReqMap.Map of n has the request
  locked,     \* locked[n]: HandleSearch returned with SearchReqMap.Mux held
  issued,     \* budget that Me has handed out so far
  served,     \* requests that gossipers have served
  late,       \* a try began while an earlier one was on its way or remembered
  replies,    \* SearchReply packets in flight
  searchPc,   \* where the goroutine of Search is
  budget,     \* request.Budget, at first the client's or the web page's 2
  replyCh,    \* s.ReplyCh: 0 is the channel made at start, 1 the search's
  listen,     \* the listen loop's send on a reply channel, or None
  collector,  \* the goroutine of CheckSearchFinish
  record,     \* fileRecord: chunks found by name, or None
  finished,   \* finishedMap
  targetHash, \* TargetMetahash.Map
  target,     \* Target.Map: by hash, the chunks listed and who listed them
  download,   \* the hash that RequestSearchedFile fetches, or None
  died        \* Me has exited or panicked

flood == <<short, peers, requests, remembered, locked, issued, served, late>>
found == <<record, finished, targetHash, target>>
searching == <<searchPc, budget>>
vars == <<flood, got, replies, searching, replyCh, listen, collector, found, download, died>>

Idle == [pc |-> "none", ch |-> None, origin |-> None, left |-> {}, now |-> None, closed |-> FALSE]

Init == /\ peers \in Topologies
        /\ short \in {{}, Short}
        /\ got = [n \in Node |-> [f \in Wanted[n] |-> None]]
        /\ requests = {} /\ replies = {}
        /\ remembered = [n \in Node |-> FALSE]
        /\ locked = [n \in Node |-> FALSE]
        /\ issued = 0 /\ served = 0 /\ late = FALSE
        /\ searchPc = "idle" /\ budget \in Budgets
        /\ replyCh = 0 /\ listen = None
        /\ collector = Idle
        /\ record = [f \in Name |-> None]
        /\ finished = {}
        /\ targetHash = [f \in Name |-> None]
        /\ target = [h \in Hash |-> None]
        /\ download = None
        /\ died = FALSE
-----------------------------------------------------------------------------
(* The flood *)

\* Mutant of Split: the remainder goes to everybody.
SplitUp(total, chosen) ==
  LET k == Cardinality(chosen)
  IN  {[p \in chosen |-> total \div k + (IF total % k > 0 THEN 1 ELSE 0)]}

\* The ways to split a budget among the chosen peers: as even as possible, the
\* remainder to some of them.
Split(total, chosen) ==
  LET k == Cardinality(chosen)
  IN  {[p \in chosen |-> total \div k + (IF p \in lucky THEN 1 ELSE 0)] : lucky \in kSubset(total % k, chosen)}

\* SelectRandomPeer: as many as possible up to n.
RandomPeers(available, n) ==
  kSubset(IF n > Cardinality(available) THEN Cardinality(available) ELSE n, available)

\* Mutant of Distribute: the sender decrements too.
DistributeDecremented(n, excluded, total) ==
  LET available == peers[n] \ excluded IN
  IF available = {} THEN {{}}
  ELSE {{[dst |-> p, relayer |-> n, budget |-> share[p] - 1] : p \in DOMAIN share} :
          share \in UNION {Split(total, chosen) : chosen \in RandomPeers(available, total)}}

\* What n may send for a budget: nothing without a peer to send to.
Distribute(n, excluded, total) ==
  LET available == peers[n] \ excluded IN
  IF available = {} THEN {{}}
  ELSE {{[dst |-> p, relayer |-> n, budget |-> share[p]] : p \in DOMAIN share} :
          share \in UNION {Split(total, chosen) : chosen \in RandomPeers(available, total)}}

\* TriggerSearch, at the other end of SendCh.
Trigger(total) ==
  /\ issued' = issued + total
  /\ late' = (late \/ requests # {} \/ \E n \in Node : remembered[n])
  /\ \E sent \in Distribute(Me, {}, total) : requests' = requests \cup sent
  /\ UNCHANGED <<short, peers, remembered, locked, served>>

\* The numbers under which a gossiper lists the chunks of a file.
Listing(n, f) ==
  [name |-> f.name, hash |-> f.hash, total |-> f.chunks,
   listed |-> IF f \in Shared[n] THEN 1..f.chunks ELSE {Place(i) : i \in 1..got[n][f]}]

Results(n) == {Listing(n, f) : f \in Shared[n] \cup {f \in Wanted[n] : got[n][f] # None}}

\* Mutant of Relay: the request may go back to where it came from.
RelayToAll(n, q, left) == Distribute(n, {}, left)

\* DistributeSearch.
Relay(n, q, left) == Distribute(n, {q.relayer}, left)

\* HandleSearch.  The mutex is taken at once; what follows only sends packets.
HandleSearch(n) ==
  \E q \in requests :
    /\ q.dst = n /\ n # Me /\ ~locked[n] /\ ~died
    /\ IF remembered[n]
       THEN /\ locked' = [locked EXCEPT ![n] = TRUE]
            /\ requests' = requests \ {q}
            /\ UNCHANGED <<remembered, served, replies>>
       ELSE LET left == (q.budget - 1) % (MaxUint + 1) IN
            /\ remembered' = [remembered EXCEPT ![n] = TRUE]
            /\ served' = served + 1
            /\ \E sent \in IF left > 0 THEN Relay(n, q, left) ELSE {{}} :
                 requests' = (requests \ {q}) \cup sent
            /\ replies' = replies \cup {[origin |-> n, results |-> Results(n)]}
            /\ UNCHANGED locked
    /\ UNCHANGED <<short, peers, issued, late, got, searching, replyCh, listen, collector, found, download, died>>

\* StartHandling ignores a request that has come back to its origin.
Ignore == /\ \E q \in requests : q.dst = Me /\ requests' = requests \ {q}
          /\ listen = None /\ ~died
          /\ UNCHANGED <<short, peers, remembered, locked, issued, served, late, got, replies, searching,
                         replyCh, listen, collector, found, download, died>>

\* The ticker of HandleSearch, 500 ms later.
Forget(n) ==
  /\ remembered[n] /\ ~locked[n] /\ ~died
  /\ remembered' = [remembered EXCEPT ![n] = FALSE]
  /\ UNCHANGED <<short, peers, requests, locked, issued, served, late, got, replies, searching, replyCh,
                 listen, collector, found, download, died>>

\* RequestFile of n enters the file without chunks, HandleDownloading adds them.
Fetch(n) ==
  /\ ~died
  /\ \E f \in Wanted[n] :
       \/ got[n][f] = None /\ got' = [got EXCEPT ![n][f] = 0]
       \/ got[n][f] # None /\ got[n][f] < f.chunks /\ got' = [got EXCEPT ![n][f] = @ + 1]
  /\ UNCHANGED <<flood, replies, searching, replyCh, listen, collector, found, download, died>>
-----------------------------------------------------------------------------
(* The searcher *)

\* Search, called by HandleClient or SearchHandler, up to CheckSearchFinish.
Search ==
  /\ searchPc = "idle" /\ ~died
  /\ searchPc' = "replace"
  /\ collector' = [collector EXCEPT !.pc = "start"]
  /\ UNCHANGED <<flood, got, replies, budget, replyCh, listen, found, download, died>>

ReplaceCh ==
  /\ searchPc = "replace" /\ ~died
  /\ searchPc' = "wait"
  /\ replyCh' = 1
  /\ Trigger(budget)
  /\ UNCHANGED <<got, replies, budget, listen, collector, found, download, died>>

\* The ticker: the budget doubles as long as it is below the maximum.
Tick ==
  /\ searchPc = "wait" /\ ~died
  /\ budget < MaxBudget
  /\ budget' = (2 * budget) % (MaxUint + 1)
  /\ Trigger(budget')
  /\ UNCHANGED <<got, replies, searchPc, replyCh, listen, collector, found, download, died>>

Finish ==
  /\ searchPc = "wait" /\ ~died /\ collector.closed
  /\ searchPc' = "done"
  /\ UNCHANGED <<flood, got, replies, budget, replyCh, listen, collector, found, download, died>>

\* StartHandling evaluates the channel and then sends, unless it is nil.
HearReply ==
  /\ ~died /\ listen = None
  /\ \E r \in replies :
       /\ replies' = replies \ {r}
       /\ listen' = IF replyCh = None THEN None ELSE [ch |-> replyCh, reply |-> r]
  /\ UNCHANGED <<flood, got, searching, replyCh, collector, found, download, died>>

\* CheckSearchFinish: range evaluates s.ReplyCh once, when the goroutine starts.
RangeReplies ==
  /\ collector.pc = "start" /\ ~died
  /\ collector' = [collector EXCEPT !.pc = "range", !.ch = replyCh]
  /\ UNCHANGED <<flood, got, replies, searching, replyCh, listen, found, download, died>>

\* Mutant of Take: the goroutine returns on a reply without results.
TakeOrReturn ==
  /\ collector.pc = "range" /\ ~died
  /\ listen # None /\ listen.ch = collector.ch
  /\ collector' = [collector EXCEPT !.pc = IF listen.reply.results = {} THEN "gone" ELSE "results",
                                    !.origin = listen.reply.origin, !.left = listen.reply.results]
  /\ listen' = None
  /\ UNCHANGED <<flood, got, replies, searching, replyCh, found, download, died>>

\* The rendezvous with the listen loop.
Take ==
  /\ collector.pc = "range" /\ ~died
  /\ listen # None /\ listen.ch = collector.ch
  /\ collector' = [collector EXCEPT !.pc = "results", !.origin = listen.reply.origin,
                                    !.left = listen.reply.results]
  /\ listen' = None
  /\ UNCHANGED <<flood, got, replies, searching, replyCh, found, download, died>>

Counted(f, chunks, total) == IF Cardinality(chunks) = total THEN finished \cup {f} ELSE finished

\* The next result.  Slicing a short name panics; a new name is put into
\* TargetMetahash first; what is learnt of a known one goes to fileRecord only.
NextResult ==
  /\ collector.pc = "results" /\ ~died
  /\ \E r \in collector.left :
       \/ /\ r.name \in finished
          /\ collector' = [collector EXCEPT !.left = @ \ {r}]
          /\ UNCHANGED <<found, died>>
       \/ /\ r.name \notin finished /\ r.name \in short
          /\ died' = TRUE
          /\ UNCHANGED <<collector, found>>
       \/ /\ r.name \notin finished \cup short /\ record[r.name] = None
          /\ targetHash' = [targetHash EXCEPT ![r.name] = r.hash]
          /\ collector' = [collector EXCEPT !.pc = "locate", !.left = @ \ {r}, !.now = r]
          /\ UNCHANGED <<record, finished, target, died>>
       \/ /\ r.name \notin finished \cup short /\ record[r.name] # None
          /\ record' = [record EXCEPT ![r.name] = @ \cup r.listed]
          /\ finished' = Counted(r.name, record'[r.name], r.total)
          /\ collector' = [collector EXCEPT !.left = @ \ {r}]
          /\ UNCHANGED <<targetHash, target, died>>
  /\ UNCHANGED <<flood, got, replies, searching, replyCh, listen, download>>

\* Mutant of Locate: the first chunk listed gets no place in the target.
LocateEmpty ==
  /\ collector.pc = "locate" /\ ~died
  /\ LET r == collector.now IN
       /\ target' = [target EXCEPT ![r.hash] = [listed |-> r.listed \ {1}, at |-> collector.origin]]
       /\ record' = [record EXCEPT ![r.name] = r.listed]
       /\ finished' = Counted(r.name, r.listed, r.total)
  /\ collector' = [collector EXCEPT !.pc = "results", !.now = None]
  /\ UNCHANGED <<flood, got, replies, searching, replyCh, listen, targetHash, download, died>>

\* ... and into Target, under its hash, in the next critical section.
Locate ==
  /\ collector.pc = "locate" /\ ~died
  /\ LET r == collector.now IN
       /\ target' = [target EXCEPT ![r.hash] = [listed |-> r.listed, at |-> collector.origin]]
       /\ record' = [record EXCEPT ![r.name] = r.listed]
       /\ finished' = Counted(r.name, r.listed, r.total)
  /\ collector' = [collector EXCEPT !.pc = "results", !.now = None]
  /\ UNCHANGED <<flood, got, replies, searching, replyCh, listen, targetHash, download, died>>

\* After the results of a reply: enough files found, or back to the channel.
Conclude ==
  /\ collector.pc = "results" /\ collector.left = {} /\ ~died
  /\ collector' = IF Cardinality(finished) >= Threshold
                    THEN [collector EXCEPT !.pc = "clear", !.closed = TRUE]
                    ELSE [collector EXCEPT !.pc = "range"]
  /\ UNCHANGED <<flood, got, replies, searching, replyCh, listen, found, download, died>>

ClearCh ==
  /\ collector.pc = "clear" /\ ~died
  /\ replyCh' = None
  /\ collector' = [collector EXCEPT !.pc = "gone", !.ch = None]
  /\ UNCHANGED <<flood, got, replies, searching, listen, found, download, died>>

\* RequestSearchedFile, by the web page or by a client that has the hash: the
\* metafile is asked of the first peer in the list, and there may be no first.
RequestSearchedFile ==
  /\ ~died /\ download = None
  /\ \E h \in Hash :
       /\ target[h] # None
       /\ IF target[h].listed = {} THEN died' = TRUE /\ UNCHANGED download
                                   ELSE download' = h /\ UNCHANGED died
  /\ UNCHANGED <<flood, got, replies, searching, replyCh, listen, collector, found>>

\* ... the metafile has come through the listen loop, the list is read again and
\* the process exits if a chunk has no place.
RequestChunks ==
  /\ ~died /\ download # None /\ listen = None
  /\ died' = \E f \in File : f.hash = download /\ \E i \in 1..f.chunks : i \notin target[download].listed
  /\ download' = None
  /\ UNCHANGED <<flood, got, replies, searching, replyCh, listen, collector, found>>
-----------------------------------------------------------------------------
CheckSearchFinish == RangeReplies \/ Take \/ NextResult \/ Locate \/ Conclude \/ ClearCh

Next == \/ \E n \in Node : HandleSearch(n) \/ Forget(n) \/ Fetch(n)
        \/ Ignore \/ Search \/ ReplaceCh \/ Tick \/ Finish \/ HearReply
        \/ CheckSearchFinish \/ RequestSearchedFile \/ RequestChunks

Spec == Init /\ [][Next]_vars
-----------------------------------------------------------------------------
(* Properties *)

\* Every variable keeps to its type; no request travels without budget, which
\* HandleSearch would decrement to the largest number there is.
TypeOK ==
  /\ \A n \in Node, f \in File : f \in Wanted[n] => got[n][f] \in 0..f.chunks \cup {None}
  /\ \A q \in requests : q.dst \in Node /\ q.relayer \in Node /\ q.budget \in 1..MaxUint
  /\ remembered \in [Node -> BOOLEAN] /\ locked \in [Node -> BOOLEAN]
  /\ issued \in Nat /\ served \in Nat /\ late \in BOOLEAN
  /\ \A r \in replies : r.origin \in Node /\ \A f \in r.results : f.name \in Name /\ f.hash \in Hash
  /\ searchPc \in {"idle", "replace", "wait", "done"} /\ budget \in 1..MaxUint
  /\ replyCh \in {0, 1, None} /\ (listen # None => listen.ch \in {0, 1} /\ listen.reply.origin \in Node)
  /\ collector.pc \in {"none", "start", "range", "results", "locate", "clear", "gone"}
  /\ finished \subseteq Name
  /\ \A f \in Name : targetHash[f] \in Hash \cup {None} /\ (record[f] # None => targetHash[f] # None)
  /\ \A h \in Hash : target[h] # None => target[h].at \in Node
  /\ download \in Hash \cup {None} /\ died \in BOOLEAN

\* TriggerSearch and DistributeSearch split a budget evenly over random peers,
\* gossiper by gossiper: all of them together never serve a search more often
\* than the budgets of its tries allow, whatever else is still on its way.
ServedWithinBudget == served + MapThenSumSet(LAMBDA q : q.budget, requests) <= issued

Linked(n, p) == p \in peers[n] \/ n \in peers[p]

\* Among any gossipers, one is linked to at most one of them.
Acyclic ==
  \A S \in (SUBSET Node) \ {{}} :
    \E n \in S : \A a, b \in S : Linked(n, a) /\ Linked(n, b) => a = b

\* HandleSearch returns with its mutex locked on a repeated request and the
\* gossiper serves no search any more.  On an overlay without cycles that takes
\* a try that starts before the last one has been served and forgotten: a
\* request is never sent back to where it came from.
RepeatNeedsCycle == Acyclic /\ ~late => \A n \in Node : ~locked[n]

\* The searcher does not end itself, by an exit for a chunk without a place, an
\* index into an empty list or a slice of a short name, as long as no listing
\* of a gossiper that is still downloading a file has reached it: chunks of
\* files that were indexed are found where TargetMetahash and Target say.
OnlyDownloadersKill ==
  died => \E n \in Node : \E f \in Wanted[n] :
            got[n][f] # None /\ (f.name \in short \/ record[f.name] # None)

\* The listen loop of the searcher waits only for a goroutine that will take its
\* reply, except in two windows: CheckSearchFinish's goroutine has evaluated the
\* channel before Search replaced it, or has signalled success already.
ListenLoopGoesOn ==
  listen # None =>
    \/ collector.pc = "start" /\ listen.ch = replyCh
    \/ collector.pc \in {"range", "results", "locate"} /\ collector.ch = listen.ch
    \/ collector.pc # "start" /\ collector.ch = 0
    \/ collector.closed
=============================================================================
