----------------------------- MODULE FileProofs -----------------------------
(***************************************************************************)
(* For every set of gossipers, of files and of chunks, and any number of   *)
(* downloads and of packets under way: a reply finds the request it is     *)
(* for, files are written whole, and sharers kill nobody.                  *)
(***************************************************************************)
EXTENDS FileTransfer, FiniteSetTheorems, WellFoundedInduction, TLAPS

JobRecord == [pc : {"idle", "meta", "start", "next", "chunk", "put", "end"},
              at : Node \cup {None}, file : File \cup {None}, name : Name \cup {None},
              dest : Node \cup {None}, got : Nat, put : Nat, ch : Job \cup {None}]

HandlerRecord == [pc : {"none", "run", "close", "create", "write", "end"}, local : SUBSET Chunk]

EntriesOK == registered \in [Node -> [Node \X Hash -> Job \cup {None}]]

Types ==
  /\ indexed \in [Node -> [File -> Nat]]
  /\ metas \in [Node -> SUBSET File]
  /\ chunks \in [Node -> SUBSET Chunk]
  /\ job \in [Job -> JobRecord]
  /\ EntriesOK
  /\ downloading \in [Node -> [File -> Job \cup {None}]]
  /\ handler \in [Job -> HandlerRecord]
  /\ written \in [Node -> [Name -> Seq(Chunk)]]
  /\ alive \in [Node -> BOOLEAN]
  /\ net \subseteq Packet

Pieces(f) == {Content[f][i] : i \in 1..Len(Content[f])}
NoHandler == [pc |-> "none", local |-> {}]

\* A job goes from its metafile over the requests for chunks to the channel of
\* a download of the same file at the same gossiper.
JobOK(j) ==
  /\ job[j].pc = "idle" => job[j] = Idle
  /\ job[j].pc # "idle" =>
       /\ job[j].at \in Node /\ job[j].dest \in Node /\ job[j].file \in File
       /\ job[j].name \in Name
       /\ job[j].got <= Len(Content[job[j].file]) /\ job[j].put <= Len(Content[job[j].file])
  /\ job[j].pc \in {"idle", "meta", "start"} => handler[j] = NoHandler
  /\ job[j].pc \in {"meta", "start", "next", "chunk"} => job[j].put = 0
  /\ job[j].pc = "chunk" => job[j].got < Len(Content[job[j].file])
  /\ job[j].pc = "put" => job[j].put < Len(Content[job[j].file])
  /\ job[j].pc \in {"next", "chunk", "put"} =>
       /\ job[j].ch \in Job /\ handler[job[j].ch].pc # "none"
       /\ job[job[j].ch].at = job[j].at /\ job[job[j].ch].file = job[j].file

\* What has come through a channel are chunks of its file; it closes when there
\* are as many as the file has.
HandlerOK(j) ==
  /\ handler[j].pc # "none" => handler[j].local \subseteq Pieces(job[j].file)
  /\ handler[j].pc \in {"close", "create", "write"} =>
       Cardinality(handler[j].local) = Len(Content[job[j].file])

JobInv == \A j \in Job : JobOK(j) /\ HandlerOK(j)

\* A channel in Downloading is that of a download of the file.
DownloadingInv ==
  \A n \in Node, f \in File : \A j \in Job : downloading[n][f] = j =>
    handler[j].pc # "none" /\ job[j].at = n /\ job[j].file = f

RegisteredInv ==
  \A n \in Node : \A key \in Node \X Hash : registered[n][key] # None =>
    /\ Waits(registered[n][key]) /\ job[registered[n][key]].at = n
    /\ key = <<job[registered[n][key]].dest, Wanted(registered[n][key])>>

\* A metafile is held by who indexed the file to its end or downloads it.
StoreInv ==
  \A d \in Node, f \in File :
    /\ indexed[d][f] <= Len(Content[f])
    /\ \A i \in 1..indexed[d][f] : Content[f][i] \in chunks[d]
    /\ f \in metas[d] => \/ indexed[d][f] = Len(Content[f])
                         \/ \E j \in Job : job[j].at = d /\ job[j].file = f

\* No hash is both that of a metafile and that of a chunk.
Distinct == File \cap Chunk = {}

AllSharers(n) == \A j \in Job : job[j].at = n => Sharer(job[j].dest, job[j].file)
NoneTwice(n) == \A j, k \in Job : j # k /\ job[j].at = n /\ job[k].at = n => job[j].file # job[k].file

\* A metafile comes from a peer that has it.
MetaRepliesInv == \A p \in net : p.type = "reply" /\ p.hash \in File /\ p.full => p.hash \in metas[p.src]

\* Who downloads from sharers only asks for chunks that they have, and is sent them.
SharersInv ==
  \A n \in Node : AllSharers(n) =>
    /\ \A j \in Job : job[j].at = n /\ job[j].pc \in {"start", "next", "chunk", "put"} =>
         Pieces(job[j].file) \subseteq chunks[job[j].dest]
    /\ \A p \in net : p.hash \in Chunk =>
         /\ p.type = "request" /\ p.src = n => p.hash \in chunks[p.dst]
         /\ p.type = "reply" /\ p.dst = n => p.full

\* Who downloads no file twice has each download feed a channel of its own, which
\* has no more chunks than were put, and is open until the last one is.
OnceInv ==
  \A n \in Node : NoneTwice(n) => \A j \in Job : job[j].at = n =>
    /\ Cardinality(handler[j].local) <= job[j].put
    /\ job[j].pc \in {"next", "chunk", "put"} => job[j].ch = j /\ handler[j].pc = "run"

\* The part of the invariant that holds also where a metafile's hash and a
\* chunk's may be the same, and the part that does not.
Always == /\ Types /\ JobInv /\ DownloadingInv /\ RegisteredInv /\ StoreInv /\ OnceInv
          /\ WrittenIsWhole
IfDistinct == MetaRepliesInv /\ SharersInv /\ SharersNeverKill

IInv == Always /\ (Distinct => IfDistinct)
-----------------------------------------------------------------------------
(* Files and their chunks *)

\* A set of numbers has a least one.
LEMMA Least ==
  ASSUME NEW T \in SUBSET Nat, T # {}
  PROVE  \E m \in T : \A y \in T : m <= y
<1> DEFINE R == {ss \in Nat \X Nat : ss[1] < ss[2]}
<1>1. IsWellFoundedOn(R, Nat)
  BY NatLessThanWellFounded DEF OpToRel
<1>2. \A x, y \in Nat : <<y, x>> \in R <=> y < x
  OBVIOUS
<1> HIDE DEF R
<1>3. PICK x \in T : \A y \in T : ~ (<<y, x>> \in R)
  BY <1>1, WFMin
<1>4. \A y \in T : ~(y < x)
  BY <1>2, <1>3
<1> QED BY <1>4

\* The loop of HandleDownloading over the hashes gives the file, if every chunk
\* has come.
LEMMA AssembledWhole ==
  ASSUME NEW content \in Seq(Chunk), NEW local, \A i \in 1..Len(content) : content[i] \in local
  PROVE  Assembled(content, local) = content
<1> DEFINE Is(u) == u = [i \in 0..Len(content) |->
                           IF i = 0 THEN <<>>
                           ELSE IF content[i] \in local THEN Append(u[i - 1], content[i])
                                                        ELSE u[i - 1]]
<1>1. Assembled(content, local) = (CHOOSE u : Is(u))[Len(content)]
  BY DEF Assembled
<1>2. Is([i \in 0..Len(content) |-> SubSeq(content, 1, i)])
  <2>1. ASSUME NEW i \in 1..Len(content)
        PROVE  SubSeq(content, 1, i) = Append(SubSeq(content, 1, i - 1), content[i])
    OBVIOUS
  <2>2. SubSeq(content, 1, 0) = <<>>
    OBVIOUS
  <2> QED BY <2>1, <2>2
<1>3. ASSUME NEW u, Is(u)
      PROVE  u[Len(content)] = content
  <2> DEFINE Wrong == {i \in 0..Len(content) : u[i] # SubSeq(content, 1, i)}
  <2>1. CASE Wrong = {}
    <3>1. u[Len(content)] = SubSeq(content, 1, Len(content))
      BY <2>1
    <3> QED BY <3>1
  <2>2. CASE Wrong # {}
    <3>1. PICK m \in Wrong : \A y \in Wrong : m <= y
      <4>1. Wrong \in SUBSET Nat
        OBVIOUS
      <4> HIDE DEF Wrong
      <4> QED BY <4>1, <2>2, Least
    <3>2. m # 0
      BY <1>3
    <3>3. m - 1 \in 0..Len(content) /\ m \in 1..Len(content)
      BY <3>2
    <3>4. u[m - 1] = SubSeq(content, 1, m - 1)
      BY <3>1, <3>3
    <3>5. u[m] = Append(u[m - 1], content[m])
      <4>1. content[m] \in local /\ m \in 0..Len(content) /\ m # 0
        BY <3>2, <3>3
      <4>2. u[m] = IF m = 0 THEN <<>>
                   ELSE IF content[m] \in local THEN Append(u[m - 1], content[m]) ELSE u[m - 1]
        BY <1>3, <4>1
      <4> QED BY <4>1, <4>2
    <3>6. u[m] = SubSeq(content, 1, m)
      BY <3>3, <3>4, <3>5
    <3> QED BY <3>6
  <2> QED BY <2>1, <2>2
<1> HIDE DEF Is
<1> QED BY <1>1, <1>2, <1>3

\* A file's content.
LEMMA Contents ==
  ASSUME NEW f \in File
  PROVE  /\ Content[f] \in Seq(Chunk) /\ Len(Content[f]) \in Nat \ {0}
         /\ \A i \in 1..Len(Content[f]) : Content[f][i] \in Chunk /\ Content[f][i] \in Pieces(f)
         /\ Pieces(f) \subseteq Chunk
<1>1. Content[f] \in Seq(Chunk) /\ Content[f] # <<>>
  BY FilesAssumption
<1>2. Len(Content[f]) \in Nat \ {0}
  BY <1>1
<1>3. \A i \in 1..Len(Content[f]) : Content[f][i] \in Chunk
  BY <1>1
<1> QED BY <1>1, <1>2, <1>3 DEF Pieces

\* A file has no more different chunks than it has chunks.
LEMMA PiecesCount ==
  ASSUME NEW f \in File
  PROVE  /\ IsFiniteSet(Pieces(f))
         /\ Cardinality(Pieces(f)) <= Len(Content[f])
<1> DEFINE piece == [i \in 1..Len(Content[f]) |-> Content[f][i]]
<1>1. Len(Content[f]) \in Nat /\ 1 \in Int /\ Len(Content[f]) \in Int
  BY Contents
<1>2. IsFiniteSet(1..Len(Content[f])) /\ Cardinality(1..Len(Content[f])) = Len(Content[f])
  <2>1. /\ IsFiniteSet(1..Len(Content[f]))
        /\ Cardinality(1..Len(Content[f])) = IF 1 > Len(Content[f]) THEN 0 ELSE Len(Content[f]) - 1 + 1
    BY <1>1, FS_Interval
  <2> QED BY <1>1, <2>1
<1>3. piece \in Surjection(1..Len(Content[f]), Pieces(f))
  BY DEF Surjection, Pieces
<1>4. IsFiniteSet(Pieces(f)) /\ Cardinality(Pieces(f)) <= Cardinality(1..Len(Content[f]))
  BY <1>2, <1>3, FS_Surjection
<1> QED BY <1>2, <1>4

\* As many of its chunks as a file is long are all of them, and each once.
LEMMA AllPieces ==
  ASSUME NEW f \in File, NEW local \in SUBSET Pieces(f),
         Cardinality(local) = Len(Content[f])
  PROVE  Assembled(Content[f], local) = Content[f] /\ ~Repeats(f)
<1>1. local = Pieces(f)
  <2>1. /\ IsFiniteSet(Pieces(f)) /\ Cardinality(Pieces(f)) \in Nat
        /\ Cardinality(Pieces(f)) <= Len(Content[f])
    BY PiecesCount, FS_CardinalityType
  <2>2. Cardinality(local) <= Cardinality(Pieces(f))
    BY <2>1, FS_Subset
  <2>3. Len(Content[f]) \in Nat
    BY Contents
  <2>4. Cardinality(local) = Cardinality(Pieces(f))
    BY <2>1, <2>2, <2>3
  <2> QED BY <2>1, <2>4, FS_Subset
<1>2. Assembled(Content[f], local) = Content[f]
  BY <1>1, Contents, AssembledWhole
<1>3. ~Repeats(f)
  <2> DEFINE piece == [i \in 1..Len(Content[f]) |-> Content[f][i]]
  <2>1. IsFiniteSet(1..Len(Content[f])) /\ Cardinality(1..Len(Content[f])) = Len(Content[f])
    <3>1. Len(Content[f]) \in Nat /\ 1 \in Int /\ Len(Content[f]) \in Int
      BY Contents
    <3>2. /\ IsFiniteSet(1..Len(Content[f]))
          /\ Cardinality(1..Len(Content[f])) = IF 1 > Len(Content[f]) THEN 0 ELSE Len(Content[f]) - 1 + 1
      BY <3>1, FS_Interval
    <3> QED BY <3>1, <3>2
  <2>2. piece \in Surjection(1..Len(Content[f]), Pieces(f))
    BY DEF Surjection, Pieces
  <2>3. Cardinality(1..Len(Content[f])) = Cardinality(Pieces(f))
    BY <1>1, <2>1
  <2> HIDE DEF piece
  <2>4. piece \in Injection(1..Len(Content[f]), Pieces(f))
    BY <2>1, <2>2, <2>3, FS_SurjSameCardinalityImpliesInj
  <2>5. \A i, k \in 1..Len(Content[f]) : piece[i] = piece[k] => i = k
    BY <2>4 DEF Injection, IsInjective
  <2> QED BY <2>5 DEF Repeats, piece
<1> QED BY <1>2, <1>3

\* A packet is added to those under way or lost.
LEMMA WithOneMore ==
  ASSUME NEW p, NEW packets
  PROVE  With(p, packets) \subseteq packets \cup {p}
BY DEF With

\* The kinds of packets, and what a request is.
LEMMA Packets ==
  /\ \A p \in Packet : /\ p.type \in {"request", "reply"} /\ p.src \in Node /\ p.dst \in Node
                       /\ p.hash \in Hash
                       /\ p.type = "reply" => p.full \in BOOLEAN
  /\ \A n, d \in Node, h \in Hash :
       /\ Request(n, d, h) \in Packet /\ Request(n, d, h).type = "request"
       /\ Request(n, d, h).src = n /\ Request(n, d, h).dst = d /\ Request(n, d, h).hash = h
<1>1. \A p \in Packet : /\ p.type \in {"request", "reply"} /\ p.src \in Node /\ p.dst \in Node
                        /\ p.hash \in Hash
                        /\ p.type = "reply" => p.full \in BOOLEAN
  BY DEF Packet
<1>2. \A n, d \in Node, h \in Hash :
        /\ Request(n, d, h) \in Packet /\ Request(n, d, h).type = "request"
        /\ Request(n, d, h).src = n /\ Request(n, d, h).dst = d /\ Request(n, d, h).hash = h
  BY DEF Packet, Request
<1> QED BY <1>1, <1>2
-----------------------------------------------------------------------------
(* What a job is, and what steps leave of it *)

\* The entries of the tables, and a job that has begun.
LEMMA JobTypes ==
  ASSUME Types, JobInv, NEW j \in Job
  PROVE  /\ job[j] \in JobRecord /\ job[j].got \in Nat /\ job[j].put \in Nat
         /\ JobOK(j) /\ HandlerOK(j)
         /\ handler[j] \in HandlerRecord
         /\ job[j].at \in Node <=> job[j].pc # "idle"
         /\ job[j].at \in Node =>
              /\ job[j].dest \in Node /\ job[j].file \in File /\ job[j].name \in Name
              /\ metas[job[j].at] \subseteq File /\ chunks[job[j].at] \subseteq Chunk
<1>1. /\ job[j] \in JobRecord /\ JobOK(j) /\ HandlerOK(j)
      /\ handler[j] \in HandlerRecord
  BY DEF Types, JobInv
<1>2. job[j].got \in Nat /\ job[j].put \in Nat
  BY <1>1 DEF JobRecord
<1>3. Idle.at = None /\ None \notin Node
  BY FilesAssumption DEF Idle
<1>4. job[j].at \in Node <=> job[j].pc # "idle"
  BY <1>1, <1>3 DEF JobOK
<1>5. job[j].at \in Node =>
        /\ job[j].dest \in Node /\ job[j].file \in File /\ job[j].name \in Name
        /\ metas[job[j].at] \subseteq File /\ chunks[job[j].at] \subseteq Chunk
  BY <1>1, <1>4 DEF JobOK, Types
<1> QED BY <1>1, <1>2, <1>4, <1>5

\* Steps that leave a begun job where it is, with its file and its peer, make no
\* one a sharer that was not, and nothing twice once that was not.
LEMMA FewerSharers ==
  ASSUME Types, JobInv, NEW n \in Node,
         \A k \in Job : job[k].at \in Node =>
           /\ job'[k].at = job[k].at /\ job'[k].file = job[k].file /\ job'[k].dest = job[k].dest
  PROVE  /\ AllSharers(n)' => AllSharers(n)
         /\ NoneTwice(n)' => NoneTwice(n)
<1>1. ASSUME NEW d \in Node, NEW f, Sharer(d, f)'
      PROVE  Sharer(d, f)
  BY <1>1 DEF Sharer
<1>2. ASSUME AllSharers(n)', NEW j \in Job, job[j].at = n
      PROVE  Sharer(job[j].dest, job[j].file)
  <2>1. job[j].dest \in Node /\ job[j].file \in File
    BY <1>2, JobTypes
  <2>2. PICK d \in Node, f \in File : d = job[j].dest /\ f = job[j].file
    BY <2>1
  <2>3. job'[j].at = n /\ job'[j].dest = d /\ job'[j].file = f
    BY <1>2, <2>2
  <2>4. Sharer(d, f)'
    BY <1>2, <2>3 DEF AllSharers, Sharer
  <2> QED BY <1>1, <2>2, <2>4
<1>3. AllSharers(n)' => AllSharers(n)
  BY <1>2 DEF AllSharers
<1>4. NoneTwice(n)' => NoneTwice(n)
  BY DEF NoneTwice
<1> QED BY <1>3, <1>4

\* A job waits for a hash.
LEMMA WantsHash ==
  ASSUME Types, JobInv, NEW j \in Job, Waits(j)
  PROVE  /\ job[j].at \in Node /\ job[j].dest \in Node /\ job[j].file \in File
         /\ Wanted(j) \in Hash
         /\ job[j].pc = "meta" => Wanted(j) = job[j].file
         /\ job[j].pc = "chunk" => Wanted(j) \in Pieces(job[j].file) /\ Wanted(j) \in Chunk
<1>1. /\ JobOK(j) /\ job[j].got \in Nat
      /\ job[j].at \in Node /\ job[j].dest \in Node /\ job[j].file \in File
  BY JobTypes DEF Waits
<1>2. CASE job[j].pc = "meta"
  BY <1>1, <1>2 DEF Wanted, Hash
<1>3. CASE job[j].pc = "chunk"
  <2>1. PICK f \in File : f = job[j].file
    BY <1>1
  <2>2. job[j].got + 1 \in 1..Len(Content[f])
    BY <1>1, <1>3, <2>1, Contents DEF JobOK
  <2>3. Wanted(j) = Content[f][job[j].got + 1]
    BY <1>3, <2>1 DEF Wanted
  <2>4. Wanted(j) \in Chunk /\ Wanted(j) \in Pieces(f)
    BY <2>2, <2>3, Contents
  <2> QED BY <1>1, <1>3, <2>1, <2>4 DEF Hash
<1> QED BY <1>2, <1>3 DEF Waits

\* SharersNeverKill in the words of the invariant.
LEMMA NeverKill ==
  SharersNeverKill <=> \A n \in Node : AllSharers(n) /\ NoneTwice(n) => alive[n]
BY DEF SharersNeverKill, AllSharers, NoneTwice

\* The invariant holds initially.
LEMMA InitInv == Init => IInv
<1> SUFFICES ASSUME Init PROVE IInv
  OBVIOUS
<1>1. Idle \in JobRecord /\ Idle.pc = "idle" /\ Idle.at = None /\ Idle.put = 0
  BY DEF Idle, JobRecord
<1>2. \A j \in Job : job[j] = Idle /\ handler[j] = NoHandler
  BY DEF Init, NoHandler
<1>3. Types
  <2>1. job \in [Job -> JobRecord]
    BY <1>1 DEF Init
  <2>2. handler \in [Job -> HandlerRecord]
    BY DEF Init, HandlerRecord
  <2>3. registered \in [Node -> [Node \X Hash -> Job \cup {None}]]
    BY DEF Init
  <2> QED BY <2>1, <2>2, <2>3 DEF Init, Types, EntriesOK
<1>4. NoHandler.pc = "none"
  BY DEF NoHandler
<1>5. JobInv
  BY <1>1, <1>2, <1>4 DEF JobInv, JobOK, HandlerOK
<1>6. DownloadingInv /\ RegisteredInv
  BY FilesAssumption DEF Init, DownloadingInv, RegisteredInv
<1>7. StoreInv
  <2> SUFFICES ASSUME NEW d \in Node, NEW f \in File
               PROVE  /\ indexed[d][f] <= Len(Content[f])
                      /\ \A i \in 1..indexed[d][f] : Content[f][i] \in chunks[d]
                      /\ f \notin metas[d]
    BY DEF StoreInv
  <2>1. indexed[d][f] = 0 /\ metas[d] = {}
    BY DEF Init
  <2> QED BY <2>1, Contents
<1>8. \A j \in Job, n \in Node : job[j].at # n
  BY <1>1, <1>2, FilesAssumption
<1>9. OnceInv
  BY <1>8 DEF OnceInv
<1>10. WrittenIsWhole
  BY DEF Init, WrittenIsWhole
<1>11. MetaRepliesInv /\ SharersInv
  BY <1>8 DEF Init, MetaRepliesInv, SharersInv
<1>12. SharersNeverKill
  BY DEF Init, SharersNeverKill
<1> QED BY <1>3, <1>5, <1>6, <1>7, <1>9, <1>10, <1>11, <1>12 DEF IInv, Always, IfDistinct
-----------------------------------------------------------------------------
(* Steps that leave the jobs alone *)

\* What is said of jobs and their channels.
LEMMA JobsStay ==
  ASSUME Always, UNCHANGED <<job, handler, downloading, registered>>
  PROVE  JobInv' /\ DownloadingInv' /\ RegisteredInv' /\ OnceInv'
<1>1. JobInv'
  BY DEF Always, JobInv, JobOK, HandlerOK
<1>2. DownloadingInv' /\ RegisteredInv'
  BY DEF Always, DownloadingInv, RegisteredInv, Waits, Wanted
<1>3. OnceInv'
  BY DEF Always, OnceInv, NoneTwice
<1> QED BY <1>1, <1>2, <1>3

\* What is said of the sharers and of who is alive, when only stores grow.
LEMMA StoresGrow ==
  ASSUME Always, IfDistinct, UNCHANGED <<job, net, alive>>,
         \A n \in Node : metas[n] \subseteq metas'[n] /\ chunks[n] \subseteq chunks'[n]
  PROVE  IfDistinct'
<1>1. \A n : AllSharers(n)' = AllSharers(n) /\ NoneTwice(n)' = NoneTwice(n)
  BY DEF AllSharers, NoneTwice, Sharer
<1>2. MetaRepliesInv'
  <2> SUFFICES ASSUME NEW p \in net, p.type = "reply", p.hash \in File, p.full
               PROVE  p.hash \in metas'[p.src]
    BY DEF MetaRepliesInv
  <2>1. p.src \in Node /\ p.hash \in metas[p.src]
    BY Packets DEF Always, Types, IfDistinct, MetaRepliesInv
  <2> QED BY <2>1
<1>3. SharersInv'
  <2> SUFFICES ASSUME NEW n \in Node, AllSharers(n)
               PROVE  /\ \A j \in Job : job[j].at = n /\ job[j].pc \in {"start", "next", "chunk", "put"} =>
                           Pieces(job[j].file) \subseteq chunks'[job[j].dest]
                      /\ \A p \in net : p.hash \in Chunk =>
                           /\ p.type = "request" /\ p.src = n => p.hash \in chunks'[p.dst]
                           /\ p.type = "reply" /\ p.dst = n => p.full
    BY <1>1 DEF SharersInv
  <2>1. ASSUME NEW j \in Job, job[j].at = n, job[j].pc \in {"start", "next", "chunk", "put"}
        PROVE  Pieces(job[j].file) \subseteq chunks'[job[j].dest]
    <3>1. job[j].dest \in Node
      BY <2>1, JobTypes DEF Always
    <3>2. Pieces(job[j].file) \subseteq chunks[job[j].dest]
      BY <2>1 DEF IfDistinct, SharersInv
    <3> QED BY <3>1, <3>2
  <2>2. ASSUME NEW p \in net, p.hash \in Chunk
        PROVE  /\ p.type = "request" /\ p.src = n => p.hash \in chunks'[p.dst]
               /\ p.type = "reply" /\ p.dst = n => p.full
    <3>1. p.dst \in Node
      BY Packets DEF Always, Types
    <3>2. /\ p.type = "request" /\ p.src = n => p.hash \in chunks[p.dst]
          /\ p.type = "reply" /\ p.dst = n => p.full
      BY <2>2 DEF IfDistinct, SharersInv
    <3> QED BY <3>1, <3>2
  <2> QED BY <2>1, <2>2
<1>4. SharersNeverKill'
  BY DEF IfDistinct, SharersNeverKill, Sharer
<1> QED BY <1>2, <1>3, <1>4 DEF IfDistinct

\* What is said of packets, when each packet under way was or is right.
LEMMA PacketsChange ==
  ASSUME Always, IfDistinct, UNCHANGED <<job, metas, chunks, alive>>,
         \A p \in net' \ net :
           /\ p.type = "reply" /\ p.hash \in File /\ p.full => p.hash \in metas[p.src]
           /\ \A n \in Node : AllSharers(n) /\ p.hash \in Chunk =>
                /\ p.type = "request" /\ p.src = n => p.hash \in chunks[p.dst]
                /\ p.type = "reply" /\ p.dst = n => p.full
  PROVE  IfDistinct'
<1>1. \A n : AllSharers(n)' = AllSharers(n)
  BY DEF AllSharers, Sharer
<1>2. MetaRepliesInv'
  <2> SUFFICES ASSUME NEW p \in net', p.type = "reply", p.hash \in File, p.full
               PROVE  p.hash \in metas[p.src]
    BY DEF MetaRepliesInv
  <2>1. CASE p \in net
    BY <2>1 DEF IfDistinct, MetaRepliesInv
  <2>2. CASE p \notin net
    BY <2>2
  <2> QED BY <2>1, <2>2
<1>3. SharersInv'
  <2> SUFFICES ASSUME NEW n \in Node, AllSharers(n)
               PROVE  /\ \A j \in Job : job[j].at = n /\ job[j].pc \in {"start", "next", "chunk", "put"} =>
                           Pieces(job[j].file) \subseteq chunks[job[j].dest]
                      /\ \A p \in net' : p.hash \in Chunk =>
                           /\ p.type = "request" /\ p.src = n => p.hash \in chunks[p.dst]
                           /\ p.type = "reply" /\ p.dst = n => p.full
    BY <1>1 DEF SharersInv
  <2>1. \A j \in Job : job[j].at = n /\ job[j].pc \in {"start", "next", "chunk", "put"} =>
          Pieces(job[j].file) \subseteq chunks[job[j].dest]
    BY DEF IfDistinct, SharersInv
  <2>2. \A p \in net : p.hash \in Chunk =>
          /\ p.type = "request" /\ p.src = n => p.hash \in chunks[p.dst]
          /\ p.type = "reply" /\ p.dst = n => p.full
    BY DEF IfDistinct, SharersInv
  <2> QED BY <2>1, <2>2
<1>4. SharersNeverKill'
  BY DEF IfDistinct, SharersNeverKill, Sharer
<1> QED BY <1>2, <1>3, <1>4 DEF IfDistinct

\* Indexing stores chunk after chunk, and then the metafile.
LEMMA CreateInv ==
  ASSUME IInv, NEW n \in Node, NEW f \in File, CreateIndexFile(n, f)
  PROVE  IInv'
<1>0. Always /\ Types /\ (Distinct => IfDistinct)
  BY DEF IInv, Always
<1>1. UNCHANGED <<job, registered, downloading, handler, written, alive, net>>
  BY DEF CreateIndexFile, downloadVars
<1>2. indexed[n][f] \in Nat /\ indexed[n][f] <= Len(Content[f]) /\ Len(Content[f]) \in Nat
  BY <1>0, Contents DEF Types, Always, StoreInv
<1>3. \/ /\ indexed[n][f] = Len(Content[f])
         /\ metas' = [metas EXCEPT ![n] = @ \cup {f}]
         /\ UNCHANGED <<indexed, chunks>>
      \/ /\ indexed[n][f] + 1 \in 1..Len(Content[f])
         /\ indexed' = [indexed EXCEPT ![n][f] = @ + 1]
         /\ chunks' = [chunks EXCEPT ![n] = @ \cup {Content[f][indexed[n][f] + 1]}]
         /\ UNCHANGED metas
  <2>1. CASE Indexed(n, f)
    BY <2>1 DEF CreateIndexFile, Indexed
  <2>2. CASE ~Indexed(n, f)
    <3>1. indexed[n][f] + 1 \in 1..Len(Content[f])
      BY <1>2, <2>2 DEF Indexed
    <3> QED BY <2>2, <3>1 DEF CreateIndexFile
  <2> QED BY <2>1, <2>2
<1>4. CASE /\ indexed[n][f] = Len(Content[f])
           /\ metas' = [metas EXCEPT ![n] = @ \cup {f}]
           /\ UNCHANGED <<indexed, chunks>>
  <2>1. /\ metas' \in [Node -> SUBSET File]
        /\ \A d \in Node : metas[d] \subseteq metas'[d]
        /\ \A d \in Node : metas'[d] \subseteq metas[d] \cup (IF d = n THEN {f} ELSE {})
    BY <1>0, <1>4 DEF Types
  <2>2. Types'
    BY <1>0, <1>1, <1>4, <2>1 DEF Types, EntriesOK
  <2>3. StoreInv'
    <3> SUFFICES ASSUME NEW d \in Node, NEW g \in File, g \in metas'[d]
                 PROVE  \/ indexed[d][g] = Len(Content[g])
                        \/ \E j \in Job : job[j].at = d /\ job[j].file = g
      BY <1>0, <1>1, <1>4 DEF Always, StoreInv
    <3>1. CASE g \in metas[d]
      BY <1>0, <3>1 DEF Always, StoreInv
    <3>2. CASE g \notin metas[d]
      BY <1>4, <2>1, <3>2
    <3> QED BY <3>1, <3>2
  <2>4. Distinct => IfDistinct'
    BY <1>0, <1>1, <1>4, <2>1, StoresGrow
  <2> QED BY <1>0, <1>1, <2>2, <2>3, <2>4, JobsStay DEF IInv, Always, WrittenIsWhole, Clash
<1>5. CASE /\ indexed[n][f] + 1 \in 1..Len(Content[f])
           /\ indexed' = [indexed EXCEPT ![n][f] = @ + 1]
           /\ chunks' = [chunks EXCEPT ![n] = @ \cup {Content[f][indexed[n][f] + 1]}]
           /\ UNCHANGED metas
  <2>1. PICK i \in 1..Len(Content[f]), c \in Chunk : i = indexed[n][f] + 1 /\ c = Content[f][i]
    BY <1>5, Contents
  <2>2. /\ chunks' \in [Node -> SUBSET Chunk]
        /\ \A d \in Node : chunks[d] \subseteq chunks'[d]
        /\ c \in chunks'[n]
    BY <1>0, <1>5, <2>1 DEF Types
  <2>3. /\ indexed' \in [Node -> [File -> Nat]]
        /\ \A d \in Node, g \in File : indexed'[d][g] = IF d = n /\ g = f THEN i ELSE indexed[d][g]
    <3>1. indexed \in [Node -> [File -> Nat]] /\ indexed[n] \in [File -> Nat]
      BY <1>0 DEF Types
    <3>2. indexed' = [indexed EXCEPT ![n][f] = i]
      BY <1>5, <2>1
    <3>3. \A d \in Node : indexed[d] \in [File -> Nat]
      BY <3>1
    <3>4. \A d \in Node : indexed'[d] = IF d = n THEN [indexed[n] EXCEPT ![f] = i] ELSE indexed[d]
      BY <3>1, <3>2
    <3>5. indexed' \in [Node -> [File -> Nat]]
      BY <3>1, <3>2
    <3> QED BY <3>1, <3>3, <3>4, <3>5
  <2>4. Types'
    BY <1>0, <1>1, <1>5, <2>2, <2>3 DEF Types, EntriesOK
  <2>5. StoreInv'
    <3> SUFFICES ASSUME NEW d \in Node, NEW g \in File
                 PROVE  /\ indexed'[d][g] <= Len(Content[g])
                        /\ \A k \in 1..indexed'[d][g] : Content[g][k] \in chunks'[d]
                        /\ g \in metas[d] => \/ indexed'[d][g] = Len(Content[g])
                                             \/ \E j \in Job : job[j].at = d /\ job[j].file = g
      BY <1>1, <1>5 DEF StoreInv
    <3>1. /\ indexed[d][g] <= Len(Content[g]) /\ indexed[d][g] \in Nat
          /\ \A k \in 1..indexed[d][g] : Content[g][k] \in chunks[d]
          /\ g \in metas[d] => \/ indexed[d][g] = Len(Content[g])
                               \/ \E j \in Job : job[j].at = d /\ job[j].file = g
      BY <1>0 DEF Types, Always, StoreInv
    <3>2. CASE d = n /\ g = f
      <4>1. indexed'[d][g] = i /\ indexed[n][f] = i - 1
        BY <1>2, <2>1, <2>3, <3>2
      <4>2. ASSUME NEW k \in 1..i PROVE Content[g][k] \in chunks'[d]
        <5>1. k \in 1..indexed[d][g] \/ k = i
          BY <1>2, <2>1, <3>2
        <5> QED BY <2>1, <2>2, <3>1, <3>2, <5>1
      <4>3. f \in metas[n] => \E j \in Job : job[j].at = n /\ job[j].file = f
        BY DEF CreateIndexFile
      <4> QED BY <3>2, <4>1, <4>2, <4>3
    <3>3. CASE ~(d = n /\ g = f)
      <4>1. indexed'[d][g] = indexed[d][g]
        BY <2>3, <3>3
      <4> QED BY <2>2, <3>1, <4>1
    <3> QED BY <3>2, <3>3
  <2>6. Distinct => IfDistinct'
    BY <1>0, <1>1, <1>5, <2>2, StoresGrow
  <2> QED BY <1>0, <1>1, <2>4, <2>5, <2>6, JobsStay DEF IInv, Always, WrittenIsWhole, Clash
<1> QED BY <1>3, <1>4, <1>5

\* What only changes the packets keeps the rest.
LEMMA NetStep ==
  ASSUME IInv, UNCHANGED <<indexed, metas, chunks, job, registered, downloading, handler,
                           written, alive>>,
         net' \subseteq Packet, Distinct => IfDistinct'
  PROVE  IInv'
<1>1. Types'
  BY DEF IInv, Always, Types, EntriesOK
<1>2. StoreInv'
  BY DEF IInv, Always, StoreInv
<1>3. WrittenIsWhole'
  BY DEF IInv, Always, WrittenIsWhole, Clash
<1> QED BY <1>1, <1>2, <1>3, JobsStay DEF IInv, Always

\* A peer answers with what it has: for sharers that is what they are asked for.
LEMMA RequestInv ==
  ASSUME IInv, NEW n \in Node, HandleRequest(n)
  PROVE  IInv'
<1>0. Always /\ Types /\ (Distinct => IfDistinct)
  BY DEF IInv, Always
<1>1. /\ UNCHANGED <<indexed, metas, chunks, job, registered, downloading, handler, written, alive>>
      /\ \E p \in net :
           /\ p.type = "request" /\ p.dst = n
           /\ net' = With([type |-> "reply", src |-> n, dst |-> p.src, hash |-> p.hash,
                           full |-> Holds(n, p.hash)], net \ {p})
  BY DEF HandleRequest, storeVars, downloadVars
<1>2. PICK p \in net :
        /\ p.type = "request" /\ p.dst = n
        /\ net' = With([type |-> "reply", src |-> n, dst |-> p.src, hash |-> p.hash,
                        full |-> Holds(n, p.hash)], net \ {p})
  BY <1>1
<1>3. p \in Packet /\ p.src \in Node /\ p.hash \in Hash
  BY <1>0, Packets DEF Types
<1>4. PICK full \in BOOLEAN : full = Holds(n, p.hash)
  <2>1. CASE Holds(n, p.hash)
    <3>1. TRUE \in BOOLEAN /\ TRUE = Holds(n, p.hash)
      BY Zenon, <2>1 DEF Holds
    <3> QED BY <3>1, Zenon
  <2>2. CASE ~Holds(n, p.hash)
    <3>1. FALSE \in BOOLEAN /\ FALSE = Holds(n, p.hash)
      BY <2>2, SMT DEF Holds
    <3> QED BY <3>1, Zenon
  <2> QED BY <2>1, <2>2
<1>5. PICK r : r = [type |-> "reply", src |-> n, dst |-> p.src, hash |-> p.hash, full |-> full]
  OBVIOUS
<1>6. /\ r \in Packet /\ r.type = "reply" /\ r.src = n /\ r.dst = p.src
      /\ r.hash = p.hash /\ r.full = full
  BY <1>3, <1>5 DEF Packet
<1>7. net' \subseteq net \cup {r}
  <2>1. net' = With(r, net \ {p})
    BY <1>2, <1>4, <1>5
  <2> QED BY <2>1, WithOneMore
<1>8. net' \subseteq Packet
  BY <1>0, <1>6, <1>7 DEF Types
<1>9. metas[n] \subseteq File /\ chunks[n] \subseteq Chunk
  BY <1>0 DEF Types
<1>10. ASSUME Distinct PROVE IfDistinct'
  <2>1. p.hash \in File /\ full => p.hash \in metas[n]
    BY <1>4, <1>9, <1>10 DEF Holds, Distinct
  <2>2. ASSUME NEW m \in Node, AllSharers(m), p.hash \in Chunk, p.src = m
        PROVE  full
    <3>1. p.hash \in chunks[n]
      BY <1>0, <1>2, <1>10, <2>2 DEF IfDistinct, SharersInv
    <3> QED BY <1>4, <3>1 DEF Holds
  <2>3. ASSUME NEW q \in net' \ net
        PROVE  /\ q.type = "reply" /\ q.hash \in File /\ q.full => q.hash \in metas[q.src]
               /\ \A m \in Node : AllSharers(m) /\ q.hash \in Chunk =>
                    /\ q.type = "request" /\ q.src = m => q.hash \in chunks[q.dst]
                    /\ q.type = "reply" /\ q.dst = m => q.full
    <3>1. q = r
      BY <1>7
    <3> QED BY <1>6, <2>1, <2>2, <3>1
  <2> QED BY <1>0, <1>1, <1>10, <2>3, PacketsChange
<1> QED BY <1>1, <1>8, <1>10, NetStep

\* What a job asks its peer for, when it downloads from sharers.
LEMMA AsksSharers ==
  ASSUME Always, Distinct, IfDistinct, NEW j \in Job, job[j].at \in Node,
         job[j].pc \in {"next", "chunk"}, NEW h \in Pieces(job[j].file), AllSharers(job[j].at)
  PROVE  h \in chunks[job[j].dest]
BY DEF IfDistinct, SharersInv

\* A request is sent once more.
LEMMA ResendInv ==
  ASSUME IInv, NEW j \in Job, Resend(j)
  PROVE  IInv'
<1>0. Always /\ Types /\ JobInv /\ (Distinct => IfDistinct)
  BY DEF IInv, Always
<1>1. /\ UNCHANGED <<indexed, metas, chunks, job, registered, downloading, handler, written, alive>>
      /\ net' = With(Request(job[j].at, job[j].dest, Wanted(j)), net)
      /\ Waits(j)
  BY DEF Resend, storeVars, downloadVars
<1>2. /\ job[j].at \in Node /\ job[j].dest \in Node /\ job[j].file \in File
      /\ Wanted(j) \in Hash
      /\ job[j].pc = "meta" => Wanted(j) = job[j].file
      /\ job[j].pc = "chunk" => Wanted(j) \in Pieces(job[j].file) /\ Wanted(j) \in Chunk
      /\ job[j].pc \in {"meta", "chunk"}
  BY <1>0, <1>1, WantsHash DEF Waits
<1>3. PICK r \in Packet :
        /\ r = Request(job[j].at, job[j].dest, Wanted(j)) /\ r.type = "request"
        /\ r.src = job[j].at /\ r.dst = job[j].dest /\ r.hash = Wanted(j)
  BY <1>2, Packets
<1>4. net' \subseteq net \cup {r}
  BY <1>1, <1>3, WithOneMore
<1>5. net' \subseteq Packet
  BY <1>0, <1>4 DEF Types
<1>6. ASSUME Distinct PROVE IfDistinct'
  <2>1. ASSUME AllSharers(r.src), r.hash \in Chunk
        PROVE  r.hash \in chunks[r.dst]
    <3>1. job[j].pc = "chunk" /\ r.hash \in Pieces(job[j].file)
      BY <1>2, <1>3, <1>6, <2>1 DEF Distinct
    <3>2. AllSharers(job[j].at)
      BY <1>3, <2>1
    <3>3. r.hash \in chunks[job[j].dest]
      BY <1>0, <1>2, <1>6, <3>1, <3>2, AsksSharers
    <3> QED BY <1>3, <3>3
  <2>2. ASSUME NEW q \in net' \ net
        PROVE  /\ q.type = "reply" /\ q.hash \in File /\ q.full => q.hash \in metas[q.src]
               /\ \A m \in Node : AllSharers(m) /\ q.hash \in Chunk =>
                    /\ q.type = "request" /\ q.src = m => q.hash \in chunks[q.dst]
                    /\ q.type = "reply" /\ q.dst = m => q.full
    <3>1. q = r
      BY <1>4
    <3> QED BY <1>3, <2>1, <3>1
  <2> QED BY <1>0, <1>1, <1>6, <2>2, PacketsChange
<1> QED BY <1>1, <1>5, <1>6, NetStep

\* A packet is lost.
LEMMA LoseInv ==
  ASSUME IInv, Lose
  PROVE  IInv'
<1>0. Always /\ Types /\ (Distinct => IfDistinct)
  BY DEF IInv, Always
<1>1. /\ UNCHANGED <<indexed, metas, chunks, job, registered, downloading, handler, written, alive>>
      /\ net' \subseteq net
  BY DEF Lose, storeVars, downloadVars
<1>2. net' \subseteq Packet
  BY <1>0, <1>1 DEF Types
<1>3. Distinct => IfDistinct'
  BY <1>0, <1>1, PacketsChange
<1> QED BY <1>1, <1>2, <1>3, NetStep
-----------------------------------------------------------------------------
(* The end of a download *)

\* What is said of packets and sharers does not depend on channels and files.
LEMMA ChannelsChange ==
  ASSUME Always, IfDistinct, UNCHANGED <<job, metas, chunks, net, alive>>
  PROVE  IfDistinct'
<1>1. \A p \in net' \ net :
        /\ p.type = "reply" /\ p.hash \in File /\ p.full => p.hash \in metas[p.src]
        /\ \A n \in Node : AllSharers(n) /\ p.hash \in Chunk =>
             /\ p.type = "request" /\ p.src = n => p.hash \in chunks[p.dst]
             /\ p.type = "reply" /\ p.dst = n => p.full
  OBVIOUS
<1> QED BY <1>1, PacketsChange

\* A handler that does not take any more was full, so its own job has put all.
LEMMA HandlerMoves ==
  ASSUME Always, NEW j \in Job, handler[j].pc \in {"close", "create", "write"},
         NEW pc \in {"create", "write", "end"},
         handler' = [handler EXCEPT ![j].pc = pc],
         UNCHANGED job
  PROVE  /\ handler' \in [Job -> HandlerRecord]
         /\ JobInv' /\ OnceInv'
         /\ \A k \in Job : handler[k].pc # "none" => handler'[k].pc # "none"
<1>1. handler \in [Job -> HandlerRecord]
  BY DEF Always, Types
<1>2. /\ handler' \in [Job -> HandlerRecord]
      /\ \A k \in Job \ {j} : handler'[k] = handler[k]
      /\ handler'[j].pc = pc /\ handler'[j].local = handler[j].local
  BY <1>1 DEF HandlerRecord
<1>3. \A k \in Job : handler[k].pc # "none" => handler'[k].pc # "none"
  BY <1>2
<1>4. JobInv'
  <2> SUFFICES ASSUME NEW k \in Job
               PROVE  JobOK(k)' /\ HandlerOK(k)'
    BY DEF JobInv
  <2>1. JobOK(k) /\ HandlerOK(k) /\ JobOK(j) /\ HandlerOK(j)
    BY DEF Always, JobInv
  <2>2. HandlerOK(k)'
    BY <1>2, <2>1 DEF HandlerOK
  <2>3. k = j => job[k].pc \notin {"idle", "meta", "start"}
    BY <2>1 DEF JobOK, NoHandler
  <2>4. JobOK(k)'
    BY <1>2, <1>3, <2>1, <2>3 DEF JobOK
  <2> QED BY <2>2, <2>4
<1>5. OnceInv'
  <2> SUFFICES ASSUME NEW n \in Node, NoneTwice(n), NEW k \in Job, job[k].at = n
               PROVE  /\ Cardinality(handler'[k].local) <= job[k].put
                      /\ job[k].pc \in {"next", "chunk", "put"} =>
                           job[k].ch = k /\ handler'[k].pc = "run"
    BY DEF OnceInv, NoneTwice
  <2>1. /\ Cardinality(handler[k].local) <= job[k].put
        /\ job[k].pc \in {"next", "chunk", "put"} => job[k].ch = k /\ handler[k].pc = "run"
    BY DEF Always, OnceInv
  <2> QED BY <1>2, <2>1
<1> QED BY <1>2, <1>3, <1>4, <1>5

\* The channel is closed: nobody joins it any more.
LEMMA CloseInv ==
  ASSUME IInv, NEW j \in Job, Close(j)
  PROVE  IInv'
<1>0. Always /\ Types /\ JobInv /\ (Distinct => IfDistinct)
  BY DEF IInv, Always
<1>1. /\ UNCHANGED <<indexed, metas, chunks, job, registered, written, alive, net>>
      /\ handler[j].pc = "close"
      /\ handler' = [handler EXCEPT ![j].pc = "create"]
      /\ downloading' = [downloading EXCEPT ![job[j].at][job[j].file] = None]
  BY DEF Close, storeVars
<1>2. JobOK(j)
  BY <1>0, JobTypes
<1>3. job[j].pc # "idle"
  BY <1>1, <1>2 DEF JobOK, NoHandler
<1>4. job[j].at \in Node /\ job[j].file \in File
  BY <1>2, <1>3 DEF JobOK
<1>5. PICK n \in Node, f \in File : n = job[j].at /\ f = job[j].file
  BY <1>4
<1>6. /\ downloading' \in [Node -> [File -> Job \cup {None}]]
      /\ \A m \in Node, g \in File :
           downloading'[m][g] = IF m = n /\ g = f THEN None ELSE downloading[m][g]
  <2>1. downloading \in [Node -> [File -> Job \cup {None}]] /\ downloading[n] \in [File -> Job \cup {None}]
    BY <1>0 DEF Types
  <2>2. downloading' = [downloading EXCEPT ![n][f] = None]
    BY <1>1, <1>5
  <2>3. \A m \in Node : downloading[m] \in [File -> Job \cup {None}]
    BY <2>1
  <2>4. \A m \in Node :
          downloading'[m] = IF m = n THEN [downloading[n] EXCEPT ![f] = None] ELSE downloading[m]
    BY <2>1, <2>2
  <2>5. downloading' \in [Node -> [File -> Job \cup {None}]]
    BY <2>1, <2>2
  <2> QED BY <2>1, <2>3, <2>4, <2>5
<1>7. /\ handler' \in [Job -> HandlerRecord]
      /\ JobInv' /\ OnceInv'
      /\ \A k \in Job : handler[k].pc # "none" => handler'[k].pc # "none"
  BY <1>0, <1>1, HandlerMoves
<1>8. Types'
  BY <1>0, <1>1, <1>6, <1>7 DEF Types, EntriesOK
<1>9. DownloadingInv'
  <2>1. ASSUME NEW m \in Node, NEW g \in File, NEW k \in Job, downloading'[m][g] = k
        PROVE  handler'[k].pc # "none" /\ job'[k].at = m /\ job'[k].file = g
    <3>1. downloading[m][g] = k /\ k # None
      BY <1>6, <2>1, FilesAssumption
    <3>2. handler[k].pc # "none" /\ job[k].at = m /\ job[k].file = g
      BY <1>0, <3>1 DEF Always, DownloadingInv
    <3> QED BY <1>1, <1>7, <3>2
  <2> QED BY <2>1, Zenon DEF DownloadingInv
<1>10. RegisteredInv' /\ StoreInv' /\ WrittenIsWhole'
  BY <1>0, <1>1 DEF Always, RegisteredInv, StoreInv, WrittenIsWhole, Clash, Waits, Wanted
<1>11. Distinct => IfDistinct'
  BY <1>0, <1>1, ChannelsChange
<1> QED BY <1>7, <1>8, <1>9, <1>10, <1>11 DEF IInv, Always

\* HandleDownloading empties the file of its name, or leaves its own content there.
LEMMA FileChanges ==
  ASSUME IInv, NEW j \in Job, handler[j].pc \in {"create", "write"},
         UNCHANGED <<indexed, metas, chunks, job, registered, downloading, alive, net>>,
         NEW pc \in {"write", "end"}, handler' = [handler EXCEPT ![j].pc = pc],
         NEW n \in Node, NEW x \in Name, n = job[j].at, x = job[j].name,
         NEW c \in Seq(Chunk), written' = [written EXCEPT ![n][x] = c],
         \/ c = <<>>
         \/ c = Content[job[j].file] /\ ~Repeats(job[j].file)
         \/ Clash(n, x)
  PROVE  IInv'
<1>0. Always /\ Types /\ JobInv /\ (Distinct => IfDistinct)
  BY DEF IInv, Always
<1>1. /\ written' \in [Node -> [Name -> Seq(Chunk)]]
      /\ \A m \in Node, y \in Name :
           written'[m][y] = IF m = n /\ y = x THEN c ELSE written[m][y]
  <2>1. written \in [Node -> [Name -> Seq(Chunk)]] /\ written[n] \in [Name -> Seq(Chunk)]
    BY <1>0 DEF Types
  <2>2. \A m \in Node : written[m] \in [Name -> Seq(Chunk)]
    BY <2>1
  <2>3. \A m \in Node : written'[m] = IF m = n THEN [written[n] EXCEPT ![x] = c] ELSE written[m]
    BY <2>1
  <2>4. written' \in [Node -> [Name -> Seq(Chunk)]]
    BY <2>1
  <2> QED BY <2>1, <2>2, <2>3, <2>4
<1>2. /\ handler' \in [Job -> HandlerRecord]
      /\ JobInv' /\ OnceInv'
      /\ \A k \in Job : handler[k].pc # "none" => handler'[k].pc # "none"
  BY <1>0, HandlerMoves
<1>3. Types'
  BY <1>0, <1>1, <1>2 DEF Types, EntriesOK
<1>4. DownloadingInv'
  <2>1. ASSUME NEW m \in Node, NEW g \in File, NEW k \in Job, downloading'[m][g] = k
        PROVE  handler'[k].pc # "none" /\ job'[k].at = m /\ job'[k].file = g
    <3>1. downloading[m][g] = k
      BY <2>1
    <3>2. handler[k].pc # "none" /\ job[k].at = m /\ job[k].file = g
      BY <1>0, <3>1 DEF Always, DownloadingInv
    <3>3. handler'[k].pc # "none"
      BY <1>2, <3>2
    <3> QED BY <3>2, <3>3
  <2> QED BY <2>1, Zenon DEF DownloadingInv
<1>5. WrittenIsWhole'
  <2> SUFFICES ASSUME NEW m \in Node, NEW y \in Name
               PROVE  \/ written'[m][y] = <<>>
                      \/ \E k \in Job : /\ job[k].at = m /\ job[k].name = y
                                       /\ ~Repeats(job[k].file)
                                       /\ written'[m][y] = Content[job[k].file]
                      \/ Clash(m, y)
    BY DEF WrittenIsWhole, Clash, Repeats
  <2>1. CASE m = n /\ y = x
    BY <1>1, <2>1
  <2>2. CASE ~(m = n /\ y = x)
    BY <1>0, <1>1, <2>2 DEF Always, WrittenIsWhole
  <2> QED BY <2>1, <2>2
<1>6. RegisteredInv' /\ StoreInv'
  BY <1>0 DEF Always, RegisteredInv, StoreInv, Waits, Wanted
<1>7. Distinct => IfDistinct'
  BY <1>0, ChannelsChange
<1> QED BY <1>2, <1>3, <1>4, <1>5, <1>6, <1>7 DEF IInv, Always

\* The file is made, or emptied.
LEMMA MakeInv ==
  ASSUME IInv, NEW j \in Job, Create(j)
  PROVE  IInv'
<1>1. /\ UNCHANGED <<indexed, metas, chunks, job, registered, downloading, alive, net>>
      /\ handler[j].pc = "create"
      /\ handler' = [handler EXCEPT ![j].pc = "write"]
      /\ written' = [written EXCEPT ![job[j].at][job[j].name] = <<>>]
  BY DEF Create, storeVars
<1>2. JobOK(j)
  BY JobTypes DEF IInv, Always
<1>3. job[j].pc # "idle"
  BY <1>1, <1>2 DEF JobOK, NoHandler
<1>4. PICK n \in Node, x \in Name : n = job[j].at /\ x = job[j].name
  BY <1>2, <1>3 DEF JobOK
<1>5. <<>> \in Seq(Chunk)
  OBVIOUS
<1> QED BY <1>1, <1>4, <1>5, FileChanges

\* The file is written, from all its chunks.  What stood there is empty or as
\* long, unless two files have the name.
LEMMA WriteInv ==
  ASSUME IInv, NEW j \in Job, Write(j)
  PROVE  IInv'
<1>0. Always /\ Types /\ JobInv
  BY DEF IInv, Always
<1>1. /\ UNCHANGED <<indexed, metas, chunks, job, registered, downloading, alive, net>>
      /\ handler[j].pc = "write"
      /\ handler' = [handler EXCEPT ![j].pc = "end"]
  BY DEF Write, storeVars
<1>2. JobOK(j) /\ HandlerOK(j)
  BY <1>0, JobTypes
<1>3. job[j].pc # "idle"
  BY <1>1, <1>2 DEF JobOK, NoHandler
<1>4. job[j].at \in Node /\ job[j].file \in File /\ job[j].name \in Name
  BY <1>2, <1>3 DEF JobOK
<1>5. PICK n \in Node, f \in File, x \in Name :
        n = job[j].at /\ f = job[j].file /\ x = job[j].name
  BY <1>4
<1>6. Assembled(Content[f], handler[j].local) = Content[f] /\ ~Repeats(f)
  BY <1>1, <1>2, <1>5, AllPieces DEF HandlerOK
<1>7. PICK old \in Seq(Chunk), content \in Seq(Chunk) :
        old = written[n][x] /\ content = Content[f]
  BY <1>0, Contents DEF Types
<1>8. PICK c : c = content \o SubSeq(old, Len(content) + 1, Len(old))
  OBVIOUS
<1>9. written' = [written EXCEPT ![n][x] = c]
  BY <1>5, <1>6, <1>7, <1>8 DEF Write
<1>10. Len(old) <= Len(content) => c = content
  <2> SUFFICES ASSUME Len(old) <= Len(content) PROVE c = content
    OBVIOUS
  <2>1. Len(content) \in Nat /\ Len(old) \in Nat
    BY <1>7
  <2>2. SubSeq(old, Len(content) + 1, Len(old)) = <<>>
    BY <2>1
  <2>3. content \o <<>> = content
    BY <1>7
  <2> QED BY <1>8, <2>2, <2>3
<1>11. c \in Seq(Chunk)
  <2>1. CASE Len(old) <= Len(content)
    BY <1>7, <1>10, <2>1
  <2>2. CASE ~(Len(old) <= Len(content))
    <3>1. SubSeq(old, Len(content) + 1, Len(old)) \in Seq(Chunk)
      BY <1>7, <2>2
    <3> QED BY <1>7, <1>8, <3>1
  <2> QED BY <2>1, <2>2
<1>12. Clash(n, x) \/ c = content
  <2>1. CASE old = <<>>
    BY <1>7, <1>10, <2>1
  <2>2. ASSUME NEW k \in Job, job[k].at = n, job[k].name = x, old = Content[job[k].file]
        PROVE  Clash(n, x) \/ c = content
    <3>1. job[k].file = f => old = content
      BY <1>7, <2>2
    <3>2. job[k].file # f => Clash(n, x)
      BY <1>5, <2>2 DEF Clash
    <3> QED BY <1>7, <1>10, <3>1, <3>2
  <2> QED BY <1>0, <1>7, <2>1, <2>2 DEF Always, WrittenIsWhole
<1> QED BY <1>1, <1>5, <1>6, <1>7, <1>9, <1>11, <1>12, FileChanges
-----------------------------------------------------------------------------
(* Steps of one job *)

\* Only j changes, and if it has begun, not where it is and what it is for.
Moves(j) == /\ \A k \in Job \ {j} : job'[k] = job[k]
            /\ job[j].at \in Node => /\ job'[j].at = job[j].at /\ job'[j].file = job[j].file
                                     /\ job'[j].name = job[j].name /\ job'[j].dest = job[j].dest

\* Channels are made and stay.
Opens(j) == /\ \A k \in Job : handler[k].pc # "none" => handler'[k].pc # "none"
            /\ \A k \in Job \ {j} : handler[k].pc = "none" => handler'[k] = handler[k]

\* What is said of the files written: a name once asked for stays so.
LEMMA WrittenStays ==
  ASSUME Always, NEW j \in Job, Moves(j), UNCHANGED written
  PROVE  WrittenIsWhole'
<1> SUFFICES ASSUME NEW n \in Node, NEW x \in Name
             PROVE  \/ written[n][x] = <<>>
                    \/ \E k \in Job : /\ job'[k].at = n /\ job'[k].name = x
                                     /\ ~Repeats(job'[k].file)
                                     /\ written[n][x] = Content[job'[k].file]
                    \/ Clash(n, x)'
  BY DEF WrittenIsWhole, Repeats
<1>1. \A k \in Job : job[k].at = n => /\ job'[k].at = n /\ job'[k].file = job[k].file
                                     /\ job'[k].name = job[k].name
  BY DEF Moves
<1>2. Clash(n, x) => Clash(n, x)'
  BY <1>1 DEF Clash
<1> QED BY <1>1, <1>2 DEF Always, WrittenIsWhole

\* What is said of the other jobs and of the channels.
LEMMA OtherJobs ==
  ASSUME Always, NEW j \in Job, Moves(j), Opens(j)
  PROVE  /\ \A k \in Job \ {j} : JobOK(k)'
         /\ UNCHANGED downloading => DownloadingInv'
         /\ UNCHANGED handler => \A k \in Job : HandlerOK(k)'
         /\ \A n \in Node : (AllSharers(n)' => AllSharers(n)) /\ (NoneTwice(n)' => NoneTwice(n))
<1>0. Types /\ JobInv
  BY DEF Always
<1>1. \A k \in Job : handler[k].pc # "none" =>
        /\ job[k].at \in Node
        /\ job'[k].at = job[k].at /\ job'[k].file = job[k].file /\ handler'[k].pc # "none"
  <2> SUFFICES ASSUME NEW k \in Job, handler[k].pc # "none"
               PROVE  /\ job[k].at \in Node
                      /\ job'[k].at = job[k].at /\ job'[k].file = job[k].file
                      /\ handler'[k].pc # "none"
    OBVIOUS
  <2>1. JobOK(k)
    BY <1>0 DEF JobInv
  <2>2. job[k].at \in Node
    BY <2>1 DEF JobOK, NoHandler
  <2>3. job'[k].at = job[k].at /\ job'[k].file = job[k].file
    BY <2>2 DEF Moves
  <2> QED BY <2>2, <2>3 DEF Opens
<1>2. ASSUME NEW k \in Job \ {j} PROVE JobOK(k)'
  <2>1. JobOK(k) /\ job'[k] = job[k]
    BY <1>0 DEF JobInv, Moves
  <2>2. handler[k] = NoHandler => handler'[k] = NoHandler
    BY DEF Opens, NoHandler
  <2>3. job[k].pc \in {"next", "chunk", "put"} =>
          /\ job[k].ch \in Job /\ handler'[job[k].ch].pc # "none"
          /\ job'[job[k].ch].at = job[k].at /\ job'[job[k].ch].file = job[k].file
    <3> SUFFICES ASSUME NEW c \in Job, job[k].ch = c, job[k].pc \in {"next", "chunk", "put"}
                 PROVE  /\ handler'[c].pc # "none"
                        /\ job'[c].at = job[k].at /\ job'[c].file = job[k].file
      BY <2>1 DEF JobOK
    <3>1. handler[c].pc # "none" /\ job[c].at = job[k].at /\ job[c].file = job[k].file
      BY <2>1 DEF JobOK
    <3> QED BY <1>1, <3>1
  <2> QED BY <2>1, <2>2, <2>3 DEF JobOK
<1>3. ASSUME UNCHANGED downloading PROVE DownloadingInv'
  <2>1. ASSUME NEW m \in Node, NEW g \in File, NEW k \in Job, downloading[m][g] = k
        PROVE  handler'[k].pc # "none" /\ job'[k].at = m /\ job'[k].file = g
    <3>1. handler[k].pc # "none" /\ job[k].at = m /\ job[k].file = g
      BY <2>1 DEF Always, DownloadingInv
    <3> QED BY <1>1, <3>1
  <2> QED BY <1>3, <2>1 DEF DownloadingInv
<1>4. ASSUME UNCHANGED handler, NEW k \in Job PROVE HandlerOK(k)'
  <2>1. HandlerOK(k)
    BY <1>0 DEF JobInv
  <2>2. CASE handler[k].pc = "none"
    BY <1>4, <2>2 DEF HandlerOK
  <2>3. CASE handler[k].pc # "none"
    BY <1>1, <1>4, <2>1, <2>3 DEF HandlerOK
  <2> QED BY <2>2, <2>3
<1>5. \A k \in Job : job[k].at \in Node =>
        /\ job'[k].at = job[k].at /\ job'[k].file = job[k].file /\ job'[k].dest = job[k].dest
  BY DEF Moves
<1>6. \A n \in Node : (AllSharers(n)' => AllSharers(n)) /\ (NoneTwice(n)' => NoneTwice(n))
  BY <1>0, <1>5, FewerSharers
<1> QED BY <1>2, <1>3, <1>4, <1>6

\* The entries of the other jobs stay right.
LEMMA OtherEntries ==
  ASSUME Always, NEW j \in Job, Moves(j),
         \A m \in Node, key \in Node \X Hash : registered'[m][key] # None =>
           \/ registered'[m][key] = registered[m][key] /\ registered[m][key] # j
           \/ /\ registered'[m][key] = j /\ Waits(j)' /\ job'[j].at = m
              /\ key = <<job'[j].dest, Wanted(j)'>>
  PROVE  RegisteredInv'
<1>1. ASSUME NEW m \in Node, NEW key \in Node \X Hash, NEW k \in Job, registered'[m][key] = k
      PROVE  Waits(k)' /\ job'[k].at = m /\ key = <<job'[k].dest, Wanted(k)'>>
  <2>1. k # None
    BY FilesAssumption
  <2>2. CASE k = j
    BY <1>1, <2>1, <2>2
  <2>3. CASE k # j
    <3>1. registered[m][key] = k
      BY <1>1, <2>1, <2>3
    <3>2. Waits(k) /\ job[k].at = m /\ key = <<job[k].dest, Wanted(k)>>
      BY <2>1, <3>1 DEF Always, RegisteredInv
    <3>3. job'[k] = job[k]
      BY <2>3 DEF Moves
    <3> QED BY <3>2, <3>3 DEF Waits, Wanted
  <2> QED BY <2>2, <2>3
<1>2. ASSUME NEW m \in Node, NEW key \in Node \X Hash, registered'[m][key] # None
      PROVE  registered'[m][key] \in Job
  <2>1. registered[m][key] \in Job \cup {None}
    BY DEF Always, Types, EntriesOK
  <2> QED BY <1>2, <2>1
<1> QED BY <1>1, <1>2 DEF RegisteredInv

\* What is said of channels that one download feeds.
LEMMA OtherChannels ==
  ASSUME Always, NEW j \in Job, Moves(j), Opens(j),
         \A n \in Node, k \in Job \ {j} :
           job[k].at = n /\ NoneTwice(n) => handler'[k] = handler[k],
         \A n \in Node : NoneTwice(n) /\ NoneTwice(n)' /\ job'[j].at = n =>
           /\ Cardinality(handler'[j].local) <= job'[j].put
           /\ job'[j].pc \in {"next", "chunk", "put"} => job'[j].ch = j /\ handler'[j].pc = "run"
  PROVE  OnceInv'
<1> SUFFICES ASSUME NEW n \in Node, NoneTwice(n)', NEW k \in Job, job'[k].at = n
             PROVE  /\ Cardinality(handler'[k].local) <= job'[k].put
                    /\ job'[k].pc \in {"next", "chunk", "put"} =>
                         job'[k].ch = k /\ handler'[k].pc = "run"
  BY DEF OnceInv
<1>1. NoneTwice(n)
  BY OtherJobs
<1>2. CASE k = j
  BY <1>1, <1>2
<1>3. CASE k # j
  <2>1. job'[k] = job[k] /\ handler'[k] = handler[k]
    BY <1>1, <1>3 DEF Moves
  <2> QED BY <1>1, <2>1 DEF Always, OnceInv
<1> QED BY <1>2, <1>3

\* What is said of sharers: stores grow, the new packets and j's own state are
\* right, and nobody ends who should not.
LEMMA OtherSharers ==
  ASSUME Always, IfDistinct, NEW j \in Job, Moves(j), JobOK(j)', net' \subseteq Packet,
         \A n \in Node : metas[n] \subseteq metas'[n] /\ chunks[n] \subseteq chunks'[n],
         \A p \in net' \ net : p.type = "request",
         \A p \in net' \ net : AllSharers(p.src) /\ p.hash \in Chunk => p.hash \in chunks[p.dst],
         AllSharers(job'[j].at) /\ job'[j].pc \in {"start", "next", "chunk", "put"} =>
           Pieces(job'[j].file) \subseteq chunks[job'[j].dest],
         \A n \in Node : AllSharers(n) /\ NoneTwice(n) /\ alive[n] => alive'[n]
  PROVE  IfDistinct'
<1>0. Types /\ JobInv
  BY DEF Always
<1>1. \A n \in Node : (AllSharers(n)' => AllSharers(n)) /\ (NoneTwice(n)' => NoneTwice(n))
  <2>1. \A k \in Job : job[k].at \in Node =>
          /\ job'[k].at = job[k].at /\ job'[k].file = job[k].file /\ job'[k].dest = job[k].dest
    BY DEF Moves
  <2> QED BY <1>0, <2>1, FewerSharers
<1>2. MetaRepliesInv'
  <2> SUFFICES ASSUME NEW p \in net', p.type = "reply", p.hash \in File, p.full
               PROVE  p.hash \in metas'[p.src]
    BY DEF MetaRepliesInv
  <2>1. p \in net /\ p.src \in Node
    BY Packets
  <2>2. p.hash \in metas[p.src]
    BY <2>1 DEF IfDistinct, MetaRepliesInv
  <2> QED BY <2>1, <2>2
<1>3. SharersInv'
  <2> SUFFICES ASSUME NEW n \in Node, AllSharers(n)
               PROVE  /\ \A k \in Job : job'[k].at = n /\ job'[k].pc \in {"start", "next", "chunk", "put"} =>
                           Pieces(job'[k].file) \subseteq chunks'[job'[k].dest]
                      /\ \A p \in net' : p.hash \in Chunk =>
                           /\ p.type = "request" /\ p.src = n => p.hash \in chunks'[p.dst]
                           /\ p.type = "reply" /\ p.dst = n => p.full
    BY <1>1 DEF SharersInv
  <2>1. ASSUME NEW k \in Job, job'[k].at = n, job'[k].pc \in {"start", "next", "chunk", "put"}
        PROVE  Pieces(job'[k].file) \subseteq chunks'[job'[k].dest]
    <3>1. CASE k = j
      <4>1. job'[j].dest \in Node
        BY <2>1, <3>1 DEF JobOK
      <4> QED BY <2>1, <3>1, <4>1
    <3>2. CASE k # j
      <4>1. job'[k] = job[k]
        BY <3>2 DEF Moves
      <4>2. job[k].dest \in Node
        BY <1>0, <2>1, <4>1, JobTypes
      <4>3. Pieces(job[k].file) \subseteq chunks[job[k].dest]
        BY <2>1, <4>1 DEF IfDistinct, SharersInv
      <4> QED BY <4>1, <4>2, <4>3
    <3> QED BY <3>1, <3>2
  <2>2. ASSUME NEW p \in net', p.hash \in Chunk
        PROVE  /\ p.type = "request" /\ p.src = n => p.hash \in chunks'[p.dst]
               /\ p.type = "reply" /\ p.dst = n => p.full
    <3>1. p.dst \in Node
      BY Packets
    <3>2. CASE p \in net
      <4>1. /\ p.type = "request" /\ p.src = n => p.hash \in chunks[p.dst]
            /\ p.type = "reply" /\ p.dst = n => p.full
        BY <2>2, <3>2 DEF IfDistinct, SharersInv
      <4> QED BY <3>1, <4>1
    <3>3. CASE p \notin net
      BY <2>2, <3>1, <3>3
    <3> QED BY <3>2, <3>3
  <2> QED BY <2>1, <2>2
<1>4. SharersNeverKill'
  <2>1. \A n \in Node : AllSharers(n)' /\ NoneTwice(n)' => alive'[n]
    BY <1>1, NeverKill DEF IfDistinct
  <2> QED BY <2>1 DEF SharersNeverKill, AllSharers, NoneTwice
<1> QED BY <1>2, <1>3, <1>4 DEF IfDistinct

\* The entry of a request is made, and the request under way or lost.
LEMMA Registers ==
  ASSUME Types, NEW j \in Job, NEW n \in Node, NEW d \in Node, NEW h \in Hash, Register(j, n, d, h)
  PROVE  /\ EntriesOK'
         /\ \A m \in Node, key \in Node \X Hash :
              \/ registered'[m][key] = registered[m][key]
              \/ registered'[m][key] = j /\ m = n /\ key = <<d, h>>
         /\ net' \subseteq Packet
         /\ \A p \in net' \ net : p.type = "request" /\ p.src = n /\ p.dst = d /\ p.hash = h
<1>1. /\ registered \in [Node -> [Node \X Hash -> Job \cup {None}]]
      /\ registered[n] \in [Node \X Hash -> Job \cup {None}]
  BY DEF Types, EntriesOK
<1>2. PICK key \in Node \X Hash, v \in Job \cup {None} : key = <<d, h>> /\ v = j
  OBVIOUS
<1>3. registered' = [registered EXCEPT ![n][key] = v]
  BY <1>2 DEF Register
<1>4. registered' \in [Node -> [Node \X Hash -> Job \cup {None}]]
  BY <1>1, <1>3
<1>5. \A m \in Node : registered'[m] = IF m = n THEN [registered[n] EXCEPT ![key] = v] ELSE registered[m]
  BY <1>1, <1>3
<1>6. \A m \in Node, other \in Node \X Hash :
        registered'[m][other] = IF m = n /\ other = key THEN v ELSE registered[m][other]
  BY <1>1, <1>5
<1>7. PICK p \in Packet :
        p = Request(n, d, h) /\ p.type = "request" /\ p.src = n /\ p.dst = d /\ p.hash = h
  BY Packets
<1>8. net' \subseteq net \cup {p} /\ net \subseteq Packet
  BY <1>7, WithOneMore DEF Register, Types
<1> QED BY <1>2, <1>4, <1>6, <1>7, <1>8 DEF EntriesOK

\* An entry is removed, and no other.
LEMMA Forgets ==
  ASSUME Types, NEW n \in Node, NEW key \in Node \X Hash, Forget(n, key)
  PROVE  /\ EntriesOK'
         /\ registered'[n][key] = None
         /\ \A m \in Node, other \in Node \X Hash :
              registered'[m][other] # None => registered'[m][other] = registered[m][other]
<1>1. /\ registered \in [Node -> [Node \X Hash -> Job \cup {None}]]
      /\ registered[n] \in [Node \X Hash -> Job \cup {None}]
      /\ registered' = [registered EXCEPT ![n][key] = None]
  BY DEF Types, EntriesOK, Forget
<1>2. registered' \in [Node -> [Node \X Hash -> Job \cup {None}]]
  BY <1>1
<1>3. \A m \in Node : registered'[m] = IF m = n THEN [registered[n] EXCEPT ![key] = None] ELSE registered[m]
  BY <1>1
<1>4. \A m \in Node, other \in Node \X Hash :
        registered'[m][other] = IF m = n /\ other = key THEN None ELSE registered[m][other]
  BY <1>1, <1>3
<1> QED BY <1>2, <1>4 DEF EntriesOK

\* A client asks for a file.
LEMMA AskInv ==
  ASSUME IInv, NEW j \in Job, RequestFile(j)
  PROVE  IInv'
<1>0. Always /\ Types /\ JobInv /\ (Distinct => IfDistinct)
  BY DEF IInv, Always
<1>1. /\ UNCHANGED <<indexed, metas, chunks, downloading, handler, written, alive>>
      /\ job[j] = Idle
  BY DEF RequestFile, storeVars, downloadVars
<1>2. PICK n \in Node, d \in Node, f \in File, x \in Name :
        /\ job' = [job EXCEPT ![j] = [Idle EXCEPT !.pc = "meta", !.at = n, !.file = f,
                                                  !.name = x, !.dest = d]]
        /\ Register(j, n, d, f)
  <2>1. PICK n \in Node, d \in Node, f \in File : \E x \in Named[n][f] :
          /\ job' = [job EXCEPT ![j] = [Idle EXCEPT !.pc = "meta", !.at = n, !.file = f,
                                                    !.name = x, !.dest = d]]
          /\ Register(j, n, d, f)
    BY DEF RequestFile
  <2>2. Named[n][f] \subseteq Name
    BY FilesAssumption
  <2> QED BY <2>1, <2>2
<1>3. PICK r \in JobRecord :
        r = [Idle EXCEPT !.pc = "meta", !.at = n, !.file = f, !.name = x, !.dest = d]
  BY DEF JobRecord, Idle
<1>4. /\ r.pc = "meta" /\ r.at = n /\ r.file = f /\ r.name \in Name /\ r.dest = d /\ r.got = 0 /\ r.put = 0
      /\ Idle.pc = "idle" /\ Idle.at = None /\ None \notin Node
  BY <1>3, FilesAssumption DEF Idle
<1>5. /\ job' \in [Job -> JobRecord] /\ job'[j] = r
      /\ \A k \in Job \ {j} : job'[k] = job[k]
  BY <1>0, <1>2, <1>3 DEF Types
<1>6. handler[j] = NoHandler
  BY <1>0, <1>1, <1>4, JobTypes DEF JobOK
<1>7. Moves(j) /\ Opens(j)
  BY <1>1, <1>4, <1>5 DEF Moves, Opens
<1>8. JobOK(j)'
  BY <1>1, <1>4, <1>5, <1>6, Contents DEF JobOK
<1>9. JobInv'
  BY <1>0, <1>1, <1>7, <1>8, OtherJobs DEF JobInv
<1>10. /\ EntriesOK'
       /\ \A m \in Node, key \in Node \X Hash :
            \/ registered'[m][key] = registered[m][key]
            \/ registered'[m][key] = j /\ m = n /\ key = <<d, f>>
       /\ net' \subseteq Packet
       /\ \A p \in net' \ net : p.type = "request" /\ p.src = n /\ p.dst = d /\ p.hash = f
  <2>1. f \in Hash /\ Types /\ Register(j, n, d, f)
    BY <1>0, <1>2 DEF Hash
  <2> QED BY <2>1, Registers
<1>11. Types'
  BY <1>0, <1>1, <1>5, <1>10 DEF Types, EntriesOK
<1>12. RegisteredInv'
  <2>1. Waits(j)' /\ job'[j].at = n /\ <<d, f>> = <<job'[j].dest, Wanted(j)'>>
    BY <1>4, <1>5 DEF Waits, Wanted
  <2>2. \A m \in Node, key \in Node \X Hash : registered[m][key] # j
    BY <1>0, <1>1, <1>4, FilesAssumption DEF Always, RegisteredInv, Waits
  <2> QED BY <1>0, <1>7, <1>10, <2>1, <2>2, OtherEntries
<1>13. OnceInv'
  <2>1. Cardinality(handler[j].local) = 0
    BY <1>6, FS_EmptySet DEF NoHandler
  <2> QED BY <1>0, <1>1, <1>4, <1>5, <1>7, <2>1, OtherChannels
<1>14. DownloadingInv' /\ StoreInv' /\ WrittenIsWhole'
  <2>1. StoreInv'
    <3>1. \A k \in Job, m \in Node, g \in File :
            job[k].at = m /\ job[k].file = g => job'[k].at = m /\ job'[k].file = g
      BY <1>7 DEF Moves
    <3> QED BY <1>0, <1>1, <3>1 DEF Always, StoreInv
  <2> QED BY <1>0, <1>1, <1>7, <2>1, OtherJobs, WrittenStays
<1>15. ASSUME Distinct PROVE IfDistinct'
  <2>1. f \notin Chunk
    BY <1>15 DEF Distinct
  <2>2. job'[j].pc = "meta"
    BY <1>4, <1>5
  <2> QED BY <1>0, <1>1, <1>7, <1>8, <1>10, <1>15, <2>1, <2>2, OtherSharers
<1> QED BY <1>9, <1>11, <1>12, <1>13, <1>14, <1>15 DEF IInv, Always

\* A job that has its metafile, or one more chunk, asks for the next or goes on.
LEMMA NextInv ==
  ASSUME IInv, NEW j \in Job, RequestNext(j)
  PROVE  IInv'
<1>0. Always /\ Types /\ JobInv /\ (Distinct => IfDistinct)
  BY DEF IInv, Always
<1>1. UNCHANGED <<indexed, metas, chunks, downloading, handler, written, alive>>
  BY DEF RequestNext, storeVars, downloadVars
<1>2. job[j].pc = "next"
  BY DEF RequestNext, Runs
<1>3. /\ job[j] \in JobRecord /\ JobOK(j) /\ job[j].got \in Nat
      /\ job[j].at \in Node /\ job[j].dest \in Node /\ job[j].file \in File
      /\ job[j].name \in Name
  BY <1>0, <1>2, JobTypes
<1>4. PICK n \in Node, d \in Node, f \in File :
        n = job[j].at /\ d = job[j].dest /\ f = job[j].file
  BY <1>3
<1>5. PICK pc \in {"chunk", "put"} :
        /\ job' = [job EXCEPT ![j].pc = pc]
        /\ pc = "chunk" => /\ job[j].got < Len(Content[f])
                           /\ Register(j, n, d, Content[f][job[j].got + 1])
        /\ pc = "put" => UNCHANGED <<registered, net>>
  BY <1>4 DEF RequestNext
<1>6. /\ job' \in [Job -> JobRecord]
      /\ job'[j].pc = pc /\ job'[j].at = n /\ job'[j].file = f /\ job'[j].dest = d
      /\ job'[j].name = job[j].name
      /\ job'[j].got = job[j].got /\ job'[j].put = job[j].put /\ job'[j].ch = job[j].ch
      /\ \A k \in Job \ {j} : job'[k] = job[k]
  <2>1. job \in [Job -> JobRecord]
    BY <1>0 DEF Types
  <2>2. PICK r \in JobRecord : r = [job[j] EXCEPT !.pc = pc]
    BY <1>3 DEF JobRecord
  <2>3. /\ r.pc = pc /\ r.at = n /\ r.file = f /\ r.dest = d /\ r.name = job[j].name
        /\ r.got = job[j].got /\ r.put = job[j].put /\ r.ch = job[j].ch
    BY <1>3, <1>4, <2>2 DEF JobRecord
  <2>4. job' = [job EXCEPT ![j] = r]
    BY <1>5, <2>2
  <2> QED BY <2>1, <2>3, <2>4
<1>7. Moves(j) /\ Opens(j)
  BY <1>1, <1>4, <1>6 DEF Moves, Opens
<1>8. \A k \in Job : job[k].at \in Node => job'[k].at = job[k].at /\ job'[k].file = job[k].file
  BY <1>7 DEF Moves
<1>9. JobOK(j)'
  <2>1. /\ job[j].ch \in Job /\ handler[job[j].ch].pc # "none"
        /\ job[job[j].ch].at = n /\ job[job[j].ch].file = f
        /\ job[j].put = 0 /\ job[j].got <= Len(Content[f])
    BY <1>2, <1>3, <1>4 DEF JobOK
  <2>2. PICK c \in Job : c = job[j].ch
    BY <2>1
  <2>3. job'[c].at = n /\ job'[c].file = f
    BY <1>4, <1>8, <2>1, <2>2
  <2> QED BY <1>1, <1>3, <1>5, <1>6, <2>1, <2>2, <2>3, Contents DEF JobOK
<1>10. JobInv'
  BY <1>0, <1>1, <1>7, <1>9, OtherJobs DEF JobInv
<1>11. \A m \in Node, other \in Node \X Hash : registered[m][other] # j
  <2>1. j # None /\ ~Waits(j)
    BY <1>2, FilesAssumption DEF Waits
  <2> QED BY <1>0, <2>1 DEF Always, RegisteredInv
<1>12. /\ EntriesOK'
       /\ RegisteredInv' /\ net' \subseteq Packet
       /\ \A p \in net' \ net : p.type = "request" /\ p.src = n /\ p.dst = d /\ p.hash \in Pieces(f)
  <2>1. CASE pc = "put"
    <3>1. registered' = registered /\ net' = net
      BY <1>5, <2>1
    <3>2. RegisteredInv'
      BY <1>0, <1>7, <1>11, <3>1, OtherEntries
    <3> QED BY <1>0, <3>1, <3>2 DEF Types, EntriesOK
  <2>2. CASE pc = "chunk"
    <3>1. PICK h \in Hash : h = Content[f][job[j].got + 1]
      BY <1>3, <1>5, <2>2, Contents DEF Hash
    <3>2. h \in Pieces(f)
      BY <1>3, <1>5, <2>2, <3>1, Contents
    <3>3. /\ EntriesOK'
          /\ \A m \in Node, key \in Node \X Hash :
               \/ registered'[m][key] = registered[m][key]
               \/ registered'[m][key] = j /\ m = n /\ key = <<d, h>>
          /\ net' \subseteq Packet
          /\ \A p \in net' \ net : p.type = "request" /\ p.src = n /\ p.dst = d /\ p.hash = h
      <4>1. Types /\ Register(j, n, d, h)
        BY <1>0, <1>5, <2>2, <3>1
      <4> QED BY <4>1, Registers
    <3>4. Waits(j)' /\ job'[j].at = n /\ <<d, h>> = <<job'[j].dest, Wanted(j)'>>
      BY <1>4, <1>6, <2>2, <3>1 DEF Waits, Wanted
    <3>5. RegisteredInv'
      BY <1>0, <1>7, <1>11, <3>3, <3>4, OtherEntries
    <3> QED BY <3>2, <3>3, <3>5
  <2> QED BY <2>1, <2>2
<1>13. Types'
  BY <1>0, <1>1, <1>6, <1>12 DEF Types, EntriesOK
<1>14. OnceInv'
  <2>1. NoneTwice(n) => /\ Cardinality(handler[j].local) <= job[j].put
                        /\ job[j].ch = j /\ handler[j].pc = "run"
    BY <1>0, <1>2, <1>4 DEF Always, OnceInv
  <2> QED BY <1>0, <1>1, <1>6, <1>7, <2>1, OtherChannels
<1>15. DownloadingInv' /\ StoreInv' /\ WrittenIsWhole'
  <2>1. StoreInv'
    BY <1>0, <1>1, <1>8 DEF Always, StoreInv
  <2> QED BY <1>0, <1>1, <1>7, <2>1, OtherJobs, WrittenStays
<1>16. ASSUME Distinct PROVE IfDistinct'
  <2>1. AllSharers(n) => Pieces(f) \subseteq chunks[d]
    BY <1>0, <1>2, <1>4, <1>16 DEF IfDistinct, SharersInv
  <2>2. \A p \in net' \ net : AllSharers(p.src) /\ p.hash \in Chunk => p.hash \in chunks[p.dst]
    BY <1>12, <2>1
  <2>3. AllSharers(job'[j].at) => Pieces(job'[j].file) \subseteq chunks[job'[j].dest]
    BY <1>6, <2>1
  <2> QED BY <1>0, <1>1, <1>7, <1>9, <1>12, <1>16, <2>2, <2>3, OtherSharers
<1> QED BY <1>10, <1>12, <1>13, <1>14, <1>15, <1>16 DEF IInv, Always

\* A job with its metafile joins a channel of its file or opens its own.
LEMMA StartInv ==
  ASSUME IInv, NEW j \in Job, StartDownload(j)
  PROVE  IInv'
<1>0. Always /\ Types /\ JobInv /\ (Distinct => IfDistinct)
  BY DEF IInv, Always
<1>1. /\ UNCHANGED <<indexed, chunks, registered, written, alive, net>>
      /\ job[j].pc = "start"
  BY DEF StartDownload, Runs
<1>2. /\ job[j] \in JobRecord /\ JobOK(j)
      /\ job[j].at \in Node /\ job[j].dest \in Node /\ job[j].file \in File
      /\ job[j].name \in Name
  BY <1>0, <1>1, JobTypes
<1>3. PICK n \in Node, d \in Node, f \in File :
        n = job[j].at /\ d = job[j].dest /\ f = job[j].file
  BY <1>2
<1>4. /\ metas' = [metas EXCEPT ![n] = @ \cup {f}]
      /\ \/ /\ downloading[n][f] = None
            /\ downloading' = [downloading EXCEPT ![n][f] = j]
            /\ handler' = [handler EXCEPT ![j].pc = "run"]
            /\ job' = [job EXCEPT ![j].pc = "next", ![j].ch = j]
         \/ /\ downloading[n][f] # None
            /\ job' = [job EXCEPT ![j].pc = "next", ![j].ch = downloading[n][f]]
            /\ UNCHANGED <<downloading, handler>>
  BY <1>3 DEF StartDownload
<1>5. handler[j] = NoHandler /\ job[j].put = 0
  BY <1>1, <1>2 DEF JobOK
<1>6. PICK c \in Job :
        /\ job' = [job EXCEPT ![j].pc = "next", ![j].ch = c]
        /\ \/ /\ c = j
              /\ downloading' = [downloading EXCEPT ![n][f] = j]
              /\ handler' = [handler EXCEPT ![j].pc = "run"]
           \/ /\ c = downloading[n][f] /\ c # j
              /\ handler[c].pc # "none" /\ job[c].at = n /\ job[c].file = f
              /\ UNCHANGED <<downloading, handler>>
  <2>1. CASE downloading[n][f] = None
    BY <1>4, <2>1
  <2>2. CASE downloading[n][f] # None
    <3>1. PICK c \in Job : c = downloading[n][f]
      BY <1>0, <2>2 DEF Types
    <3>2. handler[c].pc # "none" /\ job[c].at = n /\ job[c].file = f
      BY <1>0, <2>2, <3>1 DEF Always, DownloadingInv
    <3>3. c # j
      BY <1>5, <3>2 DEF NoHandler
    <3> QED BY <1>4, <2>2, <3>1, <3>2, <3>3
  <2> QED BY <2>1, <2>2
<1>7. /\ job' \in [Job -> JobRecord]
      /\ job'[j].pc = "next" /\ job'[j].at = n /\ job'[j].file = f /\ job'[j].dest = d
      /\ job'[j].name = job[j].name
      /\ job'[j].got = job[j].got /\ job'[j].put = 0 /\ job'[j].ch = c
      /\ \A k \in Job \ {j} : job'[k] = job[k]
  <2>1. job \in [Job -> JobRecord]
    BY <1>0 DEF Types
  <2>2. PICK r \in JobRecord : r = [job[j] EXCEPT !.pc = "next", !.ch = c]
    BY <1>2 DEF JobRecord
  <2>3. /\ r.pc = "next" /\ r.at = n /\ r.file = f /\ r.dest = d /\ r.name = job[j].name
        /\ r.got = job[j].got /\ r.put = job[j].put /\ r.ch = c
    BY <1>2, <1>3, <2>2 DEF JobRecord
  <2>4. job' = [job EXCEPT ![j] = r]
    BY <1>6, <2>1, <2>2
  <2> QED BY <1>5, <2>1, <2>3, <2>4
<1>8. /\ handler' \in [Job -> HandlerRecord]
      /\ \A k \in Job \ {j} : handler'[k] = handler[k]
      /\ handler'[j].local = {}
      /\ c = j => handler'[j].pc = "run"
      /\ c # j => handler'[j] = handler[j]
  <2>1. handler \in [Job -> HandlerRecord]
    BY <1>0 DEF Types
  <2>2. handler[j].local = {}
    BY <1>5 DEF NoHandler
  <2> QED BY <1>6, <2>1, <2>2 DEF HandlerRecord
<1>9. handler[j].pc = "none"
  BY <1>5 DEF NoHandler
<1>10. Moves(j) /\ Opens(j)
  BY <1>3, <1>7, <1>8, <1>9 DEF Moves, Opens
<1>11. \A k \in Job : job[k].at \in Node => job'[k].at = job[k].at /\ job'[k].file = job[k].file
  BY <1>10 DEF Moves
<1>12. JobOK(j)'
  <2>1. job'[c].at = n /\ job'[c].file = f /\ handler'[c].pc # "none"
    BY <1>6, <1>7, <1>8
  <2>2. job[j].got <= Len(Content[f])
    BY <1>1, <1>2, <1>3 DEF JobOK
  <2> QED BY <1>2, <1>7, <2>1, <2>2, Contents DEF JobOK
<1>13. JobInv'
  <2>1. ASSUME NEW k \in Job PROVE HandlerOK(k)'
    <3>1. CASE k = j
      <4>1. CASE c = j
        BY <1>8, <3>1, <4>1 DEF HandlerOK
      <4>2. CASE c # j
        BY <1>8, <1>9, <3>1, <4>2 DEF HandlerOK
      <4> QED BY <4>1, <4>2
    <3>2. CASE k # j
      <4>1. HandlerOK(k) /\ job'[k] = job[k] /\ handler'[k] = handler[k]
        BY <1>0, <1>7, <1>8, <3>2 DEF JobInv
      <4> QED BY <4>1 DEF HandlerOK
    <3> QED BY <3>1, <3>2
  <2> QED BY <1>0, <1>10, <1>12, <2>1, OtherJobs DEF JobInv
<1>14. /\ downloading' \in [Node -> [File -> Job \cup {None}]]
       /\ \A m \in Node, g \in File :
            downloading'[m][g] = IF c = j /\ m = n /\ g = f THEN j ELSE downloading[m][g]
  <2>1. downloading \in [Node -> [File -> Job \cup {None}]] /\ downloading[n] \in [File -> Job \cup {None}]
    BY <1>0 DEF Types
  <2>2. CASE c # j
    BY <1>6, <2>1, <2>2
  <2>3. CASE c = j
    <3>1. downloading' = [downloading EXCEPT ![n][f] = j]
      BY <1>6, <2>3
    <3>2. \A m \in Node :
            downloading'[m] = IF m = n THEN [downloading[n] EXCEPT ![f] = j] ELSE downloading[m]
      BY <2>1, <3>1
    <3>3. downloading' \in [Node -> [File -> Job \cup {None}]]
      BY <2>1, <3>1
    <3> QED BY <2>1, <2>3, <3>2, <3>3
  <2> QED BY <2>2, <2>3
<1>15. /\ metas' \in [Node -> SUBSET File]
       /\ \A m \in Node : metas[m] \subseteq metas'[m]
       /\ \A m \in Node : metas'[m] \subseteq metas[m] \cup (IF m = n THEN {f} ELSE {})
  BY <1>0, <1>4 DEF Types
<1>16. Types'
  BY <1>0, <1>1, <1>7, <1>8, <1>14, <1>15 DEF Types, EntriesOK
<1>17. DownloadingInv'
  <2>1. ASSUME NEW m \in Node, NEW g \in File, NEW k \in Job, downloading'[m][g] = k
        PROVE  handler'[k].pc # "none" /\ job'[k].at = m /\ job'[k].file = g
    <3>1. CASE c = j /\ m = n /\ g = f
      BY <1>7, <1>8, <1>14, <2>1, <3>1
    <3>2. CASE ~(c = j /\ m = n /\ g = f)
      <4>1. downloading[m][g] = k /\ k # None
        BY <1>14, <2>1, <3>2, FilesAssumption
      <4>2. handler[k].pc # "none" /\ job[k].at = m /\ job[k].file = g
        BY <1>0, <4>1 DEF Always, DownloadingInv
      <4>3. handler'[k].pc # "none"
        BY <1>10, <4>2 DEF Opens
      <4> QED BY <1>11, <4>2, <4>3
    <3> QED BY <3>1, <3>2
  <2> QED BY <2>1, Zenon DEF DownloadingInv
<1>18. RegisteredInv'
  <2>1. j # None /\ ~Waits(j)
    BY <1>1, FilesAssumption DEF Waits
  <2>2. \A m \in Node, key \in Node \X Hash : registered[m][key] # j
    BY <1>0, <2>1 DEF Always, RegisteredInv
  <2> QED BY <1>0, <1>1, <1>10, <2>2, OtherEntries
<1>19. StoreInv'
  <2> SUFFICES ASSUME NEW m \in Node, NEW g \in File, g \in metas'[m]
               PROVE  \/ indexed[m][g] = Len(Content[g])
                      \/ \E k \in Job : job'[k].at = m /\ job'[k].file = g
    BY <1>0, <1>1 DEF Always, StoreInv
  <2>1. CASE g \in metas[m]
    BY <1>0, <1>11, <2>1 DEF Always, StoreInv
  <2>2. CASE g \notin metas[m]
    BY <1>7, <1>15, <2>2
  <2> QED BY <2>1, <2>2
<1>20. OnceInv'
  <2>1. NoneTwice(n) => c = j
    BY <1>3, <1>6 DEF NoneTwice
  <2>2. Cardinality(handler'[j].local) = 0
    BY <1>8, FS_EmptySet
  <2>3. ASSUME NEW m \in Node, NoneTwice(m), job'[j].at = m
        PROVE  /\ Cardinality(handler'[j].local) <= job'[j].put
               /\ job'[j].ch = j /\ handler'[j].pc = "run"
    BY <1>7, <1>8, <2>1, <2>2, <2>3
  <2> QED BY <1>0, <1>8, <1>10, <2>3, OtherChannels
<1>21. ASSUME Distinct PROVE IfDistinct'
  <2>1. AllSharers(n) => Pieces(f) \subseteq chunks[d]
    BY <1>0, <1>1, <1>3, <1>21 DEF IfDistinct, SharersInv
  <2>2. AllSharers(job'[j].at) => Pieces(job'[j].file) \subseteq chunks[job'[j].dest]
    BY <1>7, <2>1
  <2>3. net' \subseteq Packet
    BY <1>16 DEF Types
  <2> QED BY <1>0, <1>1, <1>10, <1>12, <1>15, <1>21, <2>2, <2>3, OtherSharers
<1>22. WrittenIsWhole'
  BY <1>0, <1>1, <1>10, WrittenStays
<1> QED BY <1>13, <1>16, <1>17, <1>18, <1>19, <1>20, <1>21, <1>22 DEF IInv, Always

\* A chunk is put into the channel; where each download has a channel of its
\* own, that is open until the last has come.
LEMMA PutInv ==
  ASSUME IInv, NEW j \in Job, Put(j)
  PROVE  IInv'
<1>0. Always /\ Types /\ JobInv /\ (Distinct => IfDistinct)
  BY DEF IInv, Always
<1>1. /\ UNCHANGED <<indexed, metas, registered, downloading, written, net>>
      /\ job[j].pc = "put"
  BY DEF Put, Runs
<1>2. /\ job[j] \in JobRecord /\ JobOK(j) /\ job[j].put \in Nat
      /\ job[j].at \in Node /\ job[j].dest \in Node /\ job[j].file \in File
      /\ job[j].name \in Name
  BY <1>0, <1>1, JobTypes
<1>3. PICK n \in Node, d \in Node, f \in File :
        n = job[j].at /\ d = job[j].dest /\ f = job[j].file
  BY <1>2
<1>4. PICK h \in Job : /\ h = job[j].ch /\ handler[h].pc # "none"
                       /\ job[h].at = n /\ job[h].file = f
  BY <1>1, <1>2, <1>3 DEF JobOK
<1>5. /\ job[j].put < Len(Content[f]) /\ job[j].put + 1 \in 1..Len(Content[f])
      /\ job[j].got <= Len(Content[f]) /\ Len(Content[f]) \in Nat
  BY <1>1, <1>2, <1>3, Contents DEF JobOK
<1>6. PICK chunk \in Chunk : chunk = Content[f][job[j].put + 1] /\ chunk \in Pieces(f)
  BY <1>5, Contents
<1>7. \/ /\ handler[h].pc = "run"
         /\ job' = [job EXCEPT ![j].put = @ + 1,
                               ![j].pc = IF job[j].put + 1 = Len(Content[f]) THEN "end" ELSE "put"]
         /\ \/ UNCHANGED <<chunks, handler>>
            \/ /\ chunks' = [chunks EXCEPT ![n] = chunks[n] \cup {chunk}]
               /\ handler' = [handler EXCEPT ![h] =
                    [pc |-> IF Cardinality(handler[h].local \cup {chunk}) = Len(Content[f])
                            THEN "close" ELSE "run",
                     local |-> handler[h].local \cup {chunk}]]
         /\ UNCHANGED alive
      \/ /\ handler[h].pc # "run"
         /\ alive' = [alive EXCEPT ![n] = FALSE]
         /\ UNCHANGED <<job, chunks, handler>>
  BY <1>3, <1>4, <1>6 DEF Put, Complete
<1>8. NoneTwice(n) => /\ Cardinality(handler[j].local) <= job[j].put
                      /\ h = j /\ handler[j].pc = "run"
  BY <1>0, <1>1, <1>3, <1>4 DEF Always, OnceInv
<1>9. alive' \in [Node -> BOOLEAN] /\ \A m \in Node : NoneTwice(m) /\ alive[m] => alive'[m]
  BY <1>0, <1>4, <1>7, <1>8 DEF Types
<1>10. PICK r \in JobRecord :
         /\ job' = [job EXCEPT ![j] = r]
         /\ r.pc \in {"put", "end"} /\ r.at = n /\ r.file = f /\ r.dest = d /\ r.name = job[j].name
         /\ r.got = job[j].got /\ r.ch = h /\ job[j].put <= r.put
         /\ r.put <= Len(Content[f]) /\ (r.pc = "put" => r.put < Len(Content[f]))
         /\ handler[h].pc = "run" => r.put = job[j].put + 1
  <2>1. job \in [Job -> JobRecord]
    BY <1>0 DEF Types
  <2>2. CASE handler[h].pc = "run"
    <3>1. PICK pc \in {"put", "end"} : pc = IF job[j].put + 1 = Len(Content[f]) THEN "end" ELSE "put"
      OBVIOUS
    <3>2. PICK put \in Nat : put = job[j].put + 1
      BY <1>2
    <3>3. PICK r \in JobRecord : r = [job[j] EXCEPT !.put = put, !.pc = pc]
      BY <1>2 DEF JobRecord
    <3>4. /\ r.pc = pc /\ r.at = n /\ r.file = f /\ r.dest = d /\ r.name = job[j].name
          /\ r.got = job[j].got /\ r.put = put /\ r.ch = h
      BY <1>2, <1>3, <1>4, <3>3 DEF JobRecord
    <3>5. job' = [job EXCEPT ![j] = r]
      BY <1>7, <2>1, <2>2, <3>1, <3>2, <3>3
    <3>6. put <= Len(Content[f]) /\ (pc = "put" => put < Len(Content[f])) /\ job[j].put <= put
      BY <1>2, <1>5, <3>1, <3>2
    <3> QED BY <3>2, <3>4, <3>5, <3>6
  <2>3. CASE handler[h].pc # "run"
    <3>1. PICK r \in JobRecord : r = job[j]
      BY <1>2
    <3>2. job' = [job EXCEPT ![j] = r]
      BY <1>7, <2>1, <2>3, <3>1
    <3>3. /\ r.pc = "put" /\ r.at = n /\ r.file = f /\ r.dest = d /\ r.name = job[j].name
          /\ r.got = job[j].got /\ r.ch = h /\ r.put = job[j].put
      BY <1>1, <1>3, <1>4, <3>1
    <3>4. job[j].put <= r.put /\ r.put <= Len(Content[f]) /\ r.put < Len(Content[f])
      BY <1>2, <1>5, <3>3
    <3>5. r.pc \in {"put", "end"}
      BY <3>3
    <3> QED BY <2>3, <3>2, <3>3, <3>4, <3>5
  <2> QED BY <2>2, <2>3
<1>11. /\ job' \in [Job -> JobRecord] /\ job'[j] = r /\ r.put \in Nat
       /\ \A k \in Job \ {j} : job'[k] = job[k]
  <2>1. job \in [Job -> JobRecord]
    BY <1>0 DEF Types
  <2>2. r.put \in Nat
    BY DEF JobRecord
  <2> QED BY <1>10, <2>1, <2>2
<1>12. /\ handler[h] \in HandlerRecord
       /\ handler \in [Job -> HandlerRecord]
       /\ handler[h].local \subseteq Pieces(f)
  BY <1>0, <1>4 DEF Types, JobInv, HandlerOK
<1>13. PICK local \in SUBSET Chunk : local = handler[h].local \cup {chunk}
  BY <1>12 DEF HandlerRecord
<1>14. /\ local \subseteq Pieces(f)
       /\ IsFiniteSet(handler[h].local) /\ Cardinality(handler[h].local) \in Nat
       /\ Cardinality(local) \in Nat /\ Cardinality(local) <= Cardinality(handler[h].local) + 1
  <2>1. local \subseteq Pieces(f)
    BY <1>6, <1>12, <1>13
  <2>2. IsFiniteSet(handler[h].local) /\ IsFiniteSet(local)
    BY <1>12, <2>1, PiecesCount, FS_Subset
  <2>3. Cardinality(handler[h].local) \in Nat /\ Cardinality(local) \in Nat
    BY <2>2, FS_CardinalityType
  <2>4. Cardinality(local) <= Cardinality(handler[h].local) + 1
    <3>1. Cardinality(handler[h].local \cup {chunk}) =
            IF chunk \in handler[h].local THEN Cardinality(handler[h].local)
                                          ELSE Cardinality(handler[h].local) + 1
      BY <2>2, FS_AddElement
    <3> QED BY <1>13, <2>3, <3>1
  <2> QED BY <2>1, <2>2, <2>3, <2>4
<1>15. \/ UNCHANGED <<handler, chunks>>
       \/ /\ handler[h].pc = "run"
          /\ handler' = [handler EXCEPT ![h] =
                [pc |-> IF Cardinality(local) = Len(Content[f]) THEN "close" ELSE "run",
                 local |-> local]]
          /\ chunks' = [chunks EXCEPT ![n] = chunks[n] \cup {chunk}]
  BY <1>7, <1>13
<1>16. /\ handler' \in [Job -> HandlerRecord]
       /\ \A k \in Job \ {h} : handler'[k] = handler[k]
       /\ handler'[h].pc # "none"
       /\ HandlerOK(h)'
       /\ \/ UNCHANGED handler
          \/ /\ handler'[h].local = local /\ r.put = job[j].put + 1
             /\ handler'[h].pc = "run" \/ Cardinality(local) = Len(Content[f])
  <2>1. job'[h].file = f
    BY <1>3, <1>4, <1>10, <1>11
  <2>2. CASE UNCHANGED handler
    <3>1. HandlerOK(h)
      BY <1>0 DEF JobInv
    <3> QED BY <1>4, <1>12, <2>1, <2>2, <3>1 DEF HandlerOK
  <2>3. CASE /\ handler[h].pc = "run"
             /\ handler' = [handler EXCEPT ![h] =
                   [pc |-> IF Cardinality(local) = Len(Content[f]) THEN "close" ELSE "run",
                    local |-> local]]
    <3>1. PICK open \in {"run", "close"} :
            open = IF Cardinality(local) = Len(Content[f]) THEN "close" ELSE "run"
      OBVIOUS
    <3>2. [pc |-> open, local |-> local]
            \in HandlerRecord
      BY DEF HandlerRecord
    <3>3. PICK e \in HandlerRecord :
            e = [pc |-> open, local |-> local]
      BY <3>2
    <3>4. e.pc = open /\ e.local = local
      BY <3>3
    <3>5. handler' = [handler EXCEPT ![h] = e]
      BY <2>3, <3>1, <3>3
    <3>6. /\ handler' \in [Job -> HandlerRecord]
          /\ \A k \in Job \ {h} : handler'[k] = handler[k]
          /\ handler'[h] = e
      BY <1>12, <3>5
    <3>7. HandlerOK(h)'
      BY <1>14, <2>1, <3>1, <3>4, <3>6 DEF HandlerOK
    <3> QED BY <1>10, <2>3, <3>1, <3>4, <3>6, <3>7
  <2> QED BY <1>15, <2>2, <2>3
<1>17. /\ chunks' \in [Node -> SUBSET Chunk]
       /\ \A m \in Node : chunks[m] \subseteq chunks'[m]
  <2>1. chunks \in [Node -> SUBSET Chunk]
    BY <1>0 DEF Types
  <2>2. CASE chunks' = chunks
    BY <2>1, <2>2
  <2>3. CASE chunks' = [chunks EXCEPT ![n] = chunks[n] \cup {chunk}]
    BY <2>1, <2>3
  <2> QED BY <1>15, <2>2, <2>3
<1>18. Moves(j) /\ Opens(j)
  BY <1>3, <1>4, <1>10, <1>11, <1>16 DEF Moves, Opens
<1>19. \A k \in Job : job[k].at \in Node => job'[k].at = job[k].at /\ job'[k].file = job[k].file
  BY <1>18 DEF Moves
<1>20. JobOK(j)'
  <2>1. job'[h].at = n /\ job'[h].file = f
    BY <1>4, <1>19
  <2>2. handler'[h].pc # "none"
    BY <1>16
  <2> QED BY <1>2, <1>5, <1>10, <1>11, <2>1, <2>2 DEF JobOK
<1>21. JobInv'
  <2>1. ASSUME NEW k \in Job \ {h} PROVE HandlerOK(k)'
    <3>1. HandlerOK(k) /\ handler'[k] = handler[k]
      BY <1>0, <1>16 DEF JobInv
    <3>2. job'[k].file = job[k].file
      BY <1>3, <1>10, <1>11
    <3> QED BY <3>1, <3>2 DEF HandlerOK
  <2> QED BY <1>0, <1>16, <1>18, <1>20, <2>1, OtherJobs DEF JobInv
<1>22. Types'
  BY <1>0, <1>1, <1>9, <1>11, <1>16, <1>17 DEF Types, EntriesOK
<1>23. RegisteredInv'
  <2>1. j # None /\ ~Waits(j)
    BY <1>1, FilesAssumption DEF Waits
  <2>2. \A m \in Node, key \in Node \X Hash : registered[m][key] # j
    BY <1>0, <2>1 DEF Always, RegisteredInv
  <2> QED BY <1>0, <1>1, <1>18, <2>2, OtherEntries
<1>24. StoreInv'
  <2>1. \A m \in Node, g \in File : \A i \in 1..indexed[m][g] : Content[g][i] \in chunks'[m]
    BY <1>0, <1>17 DEF Always, StoreInv
  <2> QED BY <1>0, <1>1, <1>19, <2>1 DEF Always, StoreInv
<1>25. OnceInv'
  <2>1. ASSUME NEW m \in Node, NEW k \in Job \ {j}, job[k].at = m, NoneTwice(m)
        PROVE  handler'[k] = handler[k]
    <3>1. k # h
      BY <1>4, <1>8, <2>1
    <3> QED BY <1>16, <3>1
  <2>2. ASSUME NEW m \in Node, NoneTwice(m), job'[j].at = m
        PROVE  /\ Cardinality(handler'[j].local) <= job'[j].put
               /\ job'[j].pc \in {"next", "chunk", "put"} => job'[j].ch = j /\ handler'[j].pc = "run"
    <3>1. m = n /\ h = j /\ Cardinality(handler[j].local) <= job[j].put /\ handler[j].pc = "run"
      BY <1>8, <1>10, <1>11, <2>2
    <3>2. CASE UNCHANGED handler
      BY <1>2, <1>10, <1>11, <1>14, <3>1, <3>2
    <3>3. CASE /\ handler'[h].local = local /\ r.put = job[j].put + 1
               /\ handler'[h].pc = "run" \/ Cardinality(local) = Len(Content[f])
      <4>1. Cardinality(local) <= r.put
        BY <1>2, <1>11, <1>14, <3>1, <3>3
      <4>2. r.pc = "put" => Cardinality(local) # Len(Content[f])
        BY <1>5, <1>10, <1>11, <1>14, <4>1
      <4> QED BY <1>10, <1>11, <3>1, <3>3, <4>1, <4>2
    <3> QED BY <1>16, <3>2, <3>3
  <2> QED BY <1>0, <1>18, <2>1, <2>2, OtherChannels
<1>26. ASSUME Distinct PROVE IfDistinct'
  <2>1. AllSharers(n) => Pieces(f) \subseteq chunks[d]
    BY <1>0, <1>1, <1>3, <1>26 DEF IfDistinct, SharersInv
  <2>2. AllSharers(job'[j].at) => Pieces(job'[j].file) \subseteq chunks[job'[j].dest]
    BY <1>10, <1>11, <2>1
  <2>3. net' \subseteq Packet
    BY <1>22 DEF Types
  <2>4. \A m \in Node : metas[m] \subseteq metas'[m]
    BY <1>1
  <2> QED BY <1>0, <1>1, <1>9, <1>17, <1>18, <1>20, <1>26, <2>2, <2>3, <2>4, OtherSharers
<1>27. DownloadingInv' /\ WrittenIsWhole'
  BY <1>0, <1>1, <1>18, OtherJobs, WrittenStays
<1> QED BY <1>21, <1>22, <1>23, <1>24, <1>25, <1>26, <1>27 DEF IInv, Always

\* Who has the metafile of a file that it shares has all its chunks.
LEMMA SharersHaveAll ==
  ASSUME Always, NEW d \in Node, NEW f \in File, Sharer(d, f), f \in metas[d]
  PROVE  Pieces(f) \subseteq chunks[d]
<1>1. indexed[d][f] = Len(Content[f])
  BY DEF Always, StoreInv, Sharer
<1>2. \A i \in 1..Len(Content[f]) : Content[f][i] \in chunks[d]
  BY <1>1 DEF Always, StoreInv
<1> QED BY <1>2 DEF Pieces

\* A reply that somebody waits for takes its job on; an empty chunk, which no
\* sharer sends, ends the process.
LEMMA ReplyInv ==
  ASSUME IInv, NEW n \in Node, HandleReply(n)
  PROVE  IInv'
<1>0. Always /\ Types /\ JobInv /\ (Distinct => IfDistinct)
  BY DEF IInv, Always
<1>1. UNCHANGED <<indexed, metas, chunks, downloading, handler, written>>
  BY DEF HandleReply, storeVars, downloadVars
<1>2. PICK p \in net :
        /\ p.type = "reply" /\ p.dst = n
        /\ net' = net \ {p}
        /\ LET key == <<p.src, p.hash>>
               j   == registered[n][key]
           IN IF j = None
              THEN UNCHANGED <<job, registered, alive>>
              ELSE /\ Forget(n, key)
                   /\ job' = [job EXCEPT ![j] = IF p.full THEN Received(@) ELSE [@ EXCEPT !.pc = "end"]]
                   /\ alive' = [alive EXCEPT ![n] = p.full \/ job[j].pc = "meta"]
  BY DEF HandleReply
<1>3. p.src \in Node /\ p.hash \in Hash /\ p.full \in BOOLEAN
  BY <1>0, <1>2, Packets DEF Types
<1>4. PICK key \in Node \X Hash : key = <<p.src, p.hash>>
  BY <1>3
<1>5. net' \subseteq Packet /\ net' \subseteq net
  BY <1>0, <1>2 DEF Types
<1>6. CASE registered[n][key] = None
  <2>1. UNCHANGED <<job, registered, alive>>
    BY <1>2, <1>4, <1>6
  <2>2. Distinct => IfDistinct'
    BY <1>0, <1>1, <1>5, <2>1, PacketsChange
  <2> QED BY <1>1, <1>5, <2>1, <2>2, NetStep
<1>7. CASE registered[n][key] # None
  <2>1. PICK j \in Job : j = registered[n][key]
    BY <1>0, <1>7 DEF Types, EntriesOK
  <2>2. /\ Waits(j) /\ job[j].at = n /\ key = <<job[j].dest, Wanted(j)>> /\ j # None
    BY <1>0, <1>7, <2>1 DEF Always, RegisteredInv
  <2>3. /\ Forget(n, key)
        /\ job' = [job EXCEPT ![j] = IF p.full THEN Received(@) ELSE [@ EXCEPT !.pc = "end"]]
        /\ alive' = [alive EXCEPT ![n] = p.full \/ job[j].pc = "meta"]
    BY <1>2, <1>4, <1>7, <2>1
  <2>4. /\ job[j] \in JobRecord /\ JobOK(j) /\ job[j].got \in Nat /\ job[j].put \in Nat
        /\ job[j].dest \in Node /\ job[j].file \in File /\ job[j].name \in Name
        /\ job[j].pc \in {"meta", "chunk"}
    BY <1>0, <2>2, JobTypes DEF Waits
  <2>5. PICK d \in Node, f \in File : d = job[j].dest /\ f = job[j].file
    BY <2>4
  <2>6. /\ Len(Content[f]) \in Nat /\ job[j].got <= Len(Content[f]) /\ job[j].put = 0
        /\ job[j].pc = "chunk" => job[j].got < Len(Content[f])
    BY <2>4, <2>5, Contents DEF JobOK
  <2>7. PICK pc \in {"start", "next", "end"}, got \in Nat :
          /\ job' = [job EXCEPT ![j] = [job[j] EXCEPT !.pc = pc, !.got = got]]
          /\ got <= Len(Content[f])
          /\ pc = "start" => job[j].pc = "meta" /\ p.full
          /\ pc = "next" => job[j].pc = "chunk"
    <3>1. CASE p.full /\ job[j].pc = "meta"
      <4>1. job' = [job EXCEPT ![j] = [job[j] EXCEPT !.pc = "start", !.got = 0]]
        BY <2>3, <3>1 DEF Received
      <4>2. 0 \in Nat /\ 0 <= Len(Content[f])
        BY <2>6
      <4> QED BY <3>1, <4>1, <4>2
    <3>2. CASE p.full /\ job[j].pc = "chunk"
      <4>1. job' = [job EXCEPT ![j] = [job[j] EXCEPT !.pc = "next", !.got = job[j].got + 1]]
        BY <2>3, <3>2 DEF Received
      <4>2. job[j].got + 1 \in Nat /\ job[j].got + 1 <= Len(Content[f])
        BY <2>4, <2>6, <3>2
      <4> QED BY <3>2, <4>1, <4>2
    <3>3. CASE ~p.full
      <4>1. [job[j] EXCEPT !.pc = "end"] = [job[j] EXCEPT !.pc = "end", !.got = job[j].got]
        BY <2>4 DEF JobRecord
      <4>2. job' = [job EXCEPT ![j] = [job[j] EXCEPT !.pc = "end", !.got = job[j].got]]
        BY <2>3, <3>3, <4>1
      <4> QED BY <2>4, <2>6, <4>2
    <3> QED BY <1>3, <2>4, <3>1, <3>2, <3>3
  <2>8. /\ job' \in [Job -> JobRecord]
        /\ job'[j].pc = pc /\ job'[j].at = n /\ job'[j].file = f /\ job'[j].dest = d
      /\ job'[j].name = job[j].name
        /\ job'[j].got = got /\ job'[j].put = 0 /\ job'[j].ch = job[j].ch
        /\ \A k \in Job \ {j} : job'[k] = job[k]
    <3>1. job \in [Job -> JobRecord]
      BY <1>0 DEF Types
    <3>2. PICK r \in JobRecord : r = [job[j] EXCEPT !.pc = pc, !.got = got]
      BY <2>4 DEF JobRecord
    <3>3. /\ r.pc = pc /\ r.at = n /\ r.file = f /\ r.dest = d /\ r.name = job[j].name
          /\ r.got = got /\ r.put = 0 /\ r.ch = job[j].ch
      BY <2>2, <2>4, <2>5, <2>6, <3>2 DEF JobRecord
    <3>4. job' = [job EXCEPT ![j] = r]
      BY <2>7, <3>2
    <3> QED BY <3>1, <3>3, <3>4
  <2>9. Moves(j) /\ Opens(j)
    BY <1>1, <2>2, <2>5, <2>8 DEF Moves, Opens
  <2>10. JobOK(j)'
    <3>1. CASE pc = "start"
      <4>1. handler'[j] = NoHandler
        BY <1>1, <2>4, <2>7, <3>1 DEF JobOK
      <4> QED BY <2>4, <2>6, <2>7, <2>8, <3>1, <4>1 DEF JobOK
    <3>2. CASE pc = "next"
      <4>1. PICK c \in Job : /\ c = job[j].ch /\ handler[c].pc # "none"
                             /\ job[c].at = n /\ job[c].file = f
        BY <2>2, <2>4, <2>5, <2>7, <3>2 DEF JobOK
      <4>2. job'[c].at = n /\ job'[c].file = f
        BY <2>8, <4>1
      <4> QED BY <1>1, <2>4, <2>6, <2>7, <2>8, <3>2, <4>1, <4>2 DEF JobOK
    <3>3. CASE pc = "end"
      BY <2>4, <2>6, <2>7, <2>8, <3>3 DEF JobOK
    <3> QED BY <3>1, <3>2, <3>3
  <2>11. JobInv'
    BY <1>0, <1>1, <2>9, <2>10, OtherJobs DEF JobInv
  <2>12. /\ EntriesOK' /\ registered'[n][key] = None
         /\ \A m \in Node, other \in Node \X Hash :
              registered'[m][other] # None => registered'[m][other] = registered[m][other]
    BY <1>0, <2>3, Forgets
  <2>13. RegisteredInv'
    <3>1. ASSUME NEW m \in Node, NEW other \in Node \X Hash, registered[m][other] = j
          PROVE  m = n /\ other = key
      BY <1>0, <2>2, <3>1 DEF Always, RegisteredInv
    <3> QED BY <1>0, <2>9, <2>12, <3>1, OtherEntries
  <2>14. PICK live \in BOOLEAN : live = (p.full \/ job[j].pc = "meta")
    <3>1. (p.full \/ job[j].pc = "meta") \in BOOLEAN
      BY Zenon
    <3> QED BY <3>1, Zenon
  <2>15. alive' \in [Node -> BOOLEAN] /\ \A m \in Node : alive'[m] = IF m = n THEN live ELSE alive[m]
    <3>1. alive' = [alive EXCEPT ![n] = live] /\ alive \in [Node -> BOOLEAN]
      BY <1>0, <2>3, <2>14 DEF Types
    <3> QED BY <3>1
  <2>16. Types'
    BY <1>0, <1>1, <1>5, <2>8, <2>12, <2>15 DEF Types
  <2>17. StoreInv'
    <3>1. \A k \in Job : job[k].at \in Node => job'[k].at = job[k].at /\ job'[k].file = job[k].file
      BY <2>9 DEF Moves
    <3> QED BY <1>0, <1>1, <3>1 DEF Always, StoreInv
  <2>18. OnceInv'
    <3>1. ASSUME NoneTwice(n)
          PROVE  /\ Cardinality(handler[j].local) <= 0
                 /\ job[j].pc = "chunk" => job[j].ch = j /\ handler[j].pc = "run"
      BY <1>0, <2>2, <2>6, <3>1 DEF Always, OnceInv
    <3>2. ASSUME NEW m \in Node, NoneTwice(m), job'[j].at = m
          PROVE  /\ Cardinality(handler'[j].local) <= job'[j].put
                 /\ job'[j].pc \in {"next", "chunk", "put"} => job'[j].ch = j /\ handler'[j].pc = "run"
      BY <1>1, <2>7, <2>8, <3>1, <3>2
    <3> QED BY <1>0, <1>1, <2>9, <3>2, OtherChannels
  <2>19. ASSUME Distinct PROVE IfDistinct'
    <3>1. ASSUME AllSharers(n), pc \in {"start", "next"}
          PROVE  Pieces(f) \subseteq chunks[d]
      <4>1. CASE pc = "start"
        <5>1. p.hash = f /\ p.src = d /\ p.full
          BY <1>4, <2>2, <2>5, <2>7, <4>1 DEF Wanted
        <5>2. f \in metas[d]
          BY <1>0, <1>2, <2>19, <5>1 DEF IfDistinct, MetaRepliesInv
        <5>3. Sharer(d, f)
          BY <2>2, <2>5, <3>1 DEF AllSharers
        <5> QED BY <1>0, <5>2, <5>3, SharersHaveAll
      <4>2. CASE pc = "next"
        BY <1>0, <2>2, <2>5, <2>7, <2>19, <3>1, <4>2 DEF IfDistinct, SharersInv
      <4> QED BY <3>1, <4>1, <4>2
    <3>2. AllSharers(n) => live
      <4>1. CASE job[j].pc = "meta"
        BY <2>14, <4>1
      <4>2. CASE job[j].pc = "chunk"
        <5>1. p.hash \in Chunk
          BY <1>0, <1>4, <2>2, <4>2, WantsHash
        <5>2. AllSharers(n) => p.full
          BY <1>0, <1>2, <2>19, <5>1 DEF IfDistinct, SharersInv
        <5> QED BY <2>14, <5>2
      <4> QED BY <2>4, <4>1, <4>2
    <3>3. AllSharers(job'[j].at) /\ job'[j].pc \in {"start", "next", "chunk", "put"} =>
            Pieces(job'[j].file) \subseteq chunks[job'[j].dest]
      BY <2>8, <3>1
    <3>4. \A m \in Node : AllSharers(m) /\ NoneTwice(m) /\ alive[m] => alive'[m]
      BY <2>15, <3>2
    <3> QED BY <1>0, <1>1, <1>5, <2>9, <2>10, <2>19, <3>3, <3>4, OtherSharers
  <2>20. DownloadingInv' /\ WrittenIsWhole'
    BY <1>0, <1>1, <2>9, OtherJobs, WrittenStays
  <2> QED BY <2>11, <2>13, <2>16, <2>17, <2>18, <2>19, <2>20 DEF IInv, Always
<1> QED BY <1>6, <1>7
-----------------------------------------------------------------------------
(* Every step, and what the invariant says *)

\* Every step preserves the invariant.
LEMMA StepInv == IInv /\ [Next]_vars => IInv'
<1> SUFFICES ASSUME IInv, [Next]_vars PROVE IInv'
  OBVIOUS
<1>1. ASSUME NEW n \in Node, HandleRequest(n) PROVE IInv'
  BY <1>1, RequestInv
<1>2. ASSUME NEW n \in Node, HandleReply(n) PROVE IInv'
  BY <1>2, ReplyInv
<1>3. ASSUME NEW n \in Node, NEW f \in File, CreateIndexFile(n, f) PROVE IInv'
  BY <1>3, CreateInv
<1>4. ASSUME NEW j \in Job, RequestFile(j) PROVE IInv'
  BY <1>4, AskInv
<1>5. ASSUME NEW j \in Job, Resend(j) PROVE IInv'
  BY <1>5, ResendInv
<1>6. ASSUME NEW j \in Job, Download(j) PROVE IInv'
  BY <1>6, StartInv, NextInv, PutInv, CloseInv, MakeInv, WriteInv DEF Download
<1>7. CASE Lose
  BY <1>7, LoseInv
<1>8. CASE UNCHANGED vars
  <2>1. UNCHANGED <<indexed, metas, chunks, job, registered, downloading, handler, written, alive, net>>
    BY <1>8 DEF vars, storeVars, downloadVars
  <2>2. net' \subseteq Packet
    BY <2>1 DEF IInv, Always, Types
  <2>3. Distinct => IfDistinct'
    BY <2>1, ChannelsChange DEF IInv
  <2> QED BY <2>1, <2>2, <2>3, NetStep
<1> QED BY <1>1, <1>2, <1>3, <1>4, <1>5, <1>6, <1>7, <1>8 DEF Next

\* The invariant from which the theorems follow.
THEOREM Invariance == Spec => []IInv
<1> QED BY InitInv, StepInv, PTL DEF Spec

\* Every variable keeps its type, and no job gets past the end of its file.
THEOREM TypeCorrect == Spec => []TypeOK
<1>1. IInv => TypeOK
  <2> SUFFICES ASSUME IInv PROVE TypeOK
    OBVIOUS
  <2>0. Types /\ JobInv
    BY DEF IInv, Always
  <2>1. \A n \in Node, f \in File : indexed[n][f] \in 0..Len(Content[f])
    BY <2>0, Contents DEF IInv, Always, StoreInv, Types
  <2>2. ASSUME NEW j \in Job, job[j] # Idle
        PROVE  /\ job[j].pc \in {"meta", "start", "next", "chunk", "put", "end"}
               /\ job[j].at \in Node /\ job[j].dest \in Node /\ job[j].file \in File
               /\ job[j].name \in Name
               /\ job[j].got \in 0..Len(Content[job[j].file])
               /\ job[j].put \in 0..Len(Content[job[j].file])
               /\ job[j].ch \in Job \cup {None}
    <3>1. job[j] \in JobRecord /\ JobOK(j) /\ job[j].got \in Nat /\ job[j].put \in Nat
      BY <2>0, JobTypes
    <3>2. job[j].pc # "idle"
      BY <2>2, <3>1 DEF JobOK
    <3>3. /\ job[j].at \in Node /\ job[j].dest \in Node /\ job[j].file \in File
          /\ job[j].name \in Name
          /\ job[j].got <= Len(Content[job[j].file]) /\ job[j].put <= Len(Content[job[j].file])
      BY <3>1, <3>2 DEF JobOK
    <3>4. PICK f \in File : f = job[j].file
      BY <3>3
    <3>5. Len(Content[f]) \in Nat
      BY Contents
    <3>6. job[j].pc \in {"meta", "start", "next", "chunk", "put", "end"} /\ job[j].ch \in Job \cup {None}
      BY <3>1, <3>2 DEF JobRecord
    <3> QED BY <3>1, <3>3, <3>4, <3>5, <3>6
  <2> QED BY <2>0, <2>1, <2>2 DEF TypeOK, Types, EntriesOK, HandlerRecord
<1> QED BY <1>1, Invariance, PTL

\* HandleReply never blocks on the channel of a request that nobody waits for.
THEOREM RepliesFind == Spec => []RepliesFindTheirRequest
<1>1. IInv => RepliesFindTheirRequest
  BY DEF IInv, Always, RegisteredInv, RepliesFindTheirRequest
<1> QED BY <1>1, Invariance, PTL

\* What HandleDownloading leaves under a name (fileSharing.go:594-601) is empty
\* or whole, unless two files were asked for under it, and never has a chunk
\* twice.
THEOREM FilesAreWhole == Spec => []WrittenIsWhole
<1>1. IInv => WrittenIsWhole
  BY DEF IInv, Always
<1> QED BY <1>1, Invariance, PTL

\* Where no file has the hash of a chunk, who downloads from sharers and nothing
\* twice is not ended by it.
THEOREM SharersKillNobody ==
  ASSUME Distinct
  PROVE  Spec => []SharersNeverKill
<1>1. IInv => SharersNeverKill
  BY DEF IInv, IfDistinct
<1> QED BY <1>1, Invariance, PTL
=============================================================================
