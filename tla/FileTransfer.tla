---------------------------- MODULE FileTransfer ----------------------------
(***************************************************************************)
(* Sharing and downloading of files: CreateIndexFile cuts a file into      *)
(* chunks, RequestFile fetches the metafile and then chunk after chunk     *)
(* from one peer, HandleDownloading gathers them and writes the file.      *)
(*                                                                         *)
(* A hash stands for what it is the hash of: the metahash is the file, a   *)
(* chunk hash the chunk.  Requests and replies may be lost and reordered;  *)
(* resends duplicate them.  The relays between the two peers are left out. *)
(***************************************************************************)
EXTENDS Naturals, Sequences, FiniteSets, Functions

CONSTANTS Node, File, Chunk, Name,
          Content,     \* Content[f]: the chunks of f, in order
          Named,       \* Named[n][f]: the names by which n's clients ask for f
          Disk,        \* Disk[n]: the files in n's _SharedFiles
          MaxJobs,     \* bound: downloads that clients ask for
          MaxInFlight  \* bound: packets in the network; it loses the rest

CONSTANT None        \* an absent entry of a map

Job == 1..MaxJobs

ASSUME FilesAssumption == /\ Content \in [File -> Seq(Chunk)]
                          /\ \A f \in File : Content[f] # <<>>
                          /\ Named \in [Node -> [File -> SUBSET Name]]
                          /\ Disk \in [Node -> SUBSET File]
                          /\ MaxJobs \in Nat /\ MaxInFlight \in Nat
                          /\ None \notin Job \cup Node \cup File

VARIABLES indexed,     \* indexed[n][f]: chunks of f that CreateIndexFile has stored
          metas,       \* metas[n]: MetaFileMap
          chunks,      \* chunks[n]: ChunkMap
          job,         \* job[j]: the RequestFile goroutines
          registered,  \* registered[n][<<d, h>>]: RequestReplyChMap
          downloading, \* downloading[n][f]: Downloading, a channel named by its first job
          handler,     \* handler[j]: HandleDownloading, the receiver of channel j
          written,     \* written[n][x]: the file x in n's _Downloads
          alive,       \* has the process not ended?
          net          \* packets in flight

storeVars == <<indexed, metas, chunks>>
downloadVars == <<downloading, handler, written>>
vars == <<storeVars, job, registered, downloadVars, alive, net>>

Hash == File \cup Chunk
Idle == [pc |-> "idle", at |-> None, file |-> None, name |-> None, dest |-> None,
         got |-> 0, put |-> 0, ch |-> None]
Packet == [type : {"request"}, src : Node, dst : Node, hash : Hash]
            \cup [type : {"reply"}, src : Node, dst : Node, hash : Hash, full : BOOLEAN]
Request(n, d, h) == [type |-> "request", src |-> n, dst |-> d, hash |-> h]
With(p, packets) == IF Cardinality(packets) < MaxInFlight THEN packets \cup {p} ELSE packets

Init == /\ indexed = [n \in Node |-> [f \in File |-> 0]]
        /\ metas = [n \in Node |-> {}]
        /\ chunks = [n \in Node |-> {}]
        /\ job = [j \in Job |-> Idle]
        /\ registered = [n \in Node |-> [k \in Node \X Hash |-> None]]
        /\ downloading = [n \in Node |-> [f \in File |-> None]]
        /\ handler = [j \in Job |-> [pc |-> "none", local |-> {}]]
        /\ written = [n \in Node |-> [x \in Name |-> <<>>]]
        /\ alive = [n \in Node |-> TRUE]
        /\ net = {}
-----------------------------------------------------------------------------
(* Sharing *)

\* Mutant of Indexed: the metafile is published when it is begun.
IndexedWhenBegun(n, f) == indexed[n][f] > 0

Indexed(n, f) == indexed[n][f] = Len(Content[f])

\* CreateIndexFile: chunk after chunk, the metafile only when all are stored.
CreateIndexFile(n, f) ==
  /\ alive[n]
  /\ f \in Disk[n] \ metas[n]
  /\ IF Indexed(n, f)
     THEN /\ metas' = [metas EXCEPT ![n] = @ \cup {f}]
          /\ UNCHANGED <<indexed, chunks>>
     ELSE /\ indexed' = [indexed EXCEPT ![n][f] = @ + 1]
          /\ chunks' = [chunks EXCEPT ![n] = @ \cup {Content[f][indexed[n][f] + 1]}]
          /\ UNCHANGED metas
  /\ UNCHANGED <<job, registered, downloadVars, alive, net>>

Holds(n, h) == h \in metas[n] \cup chunks[n]

\* The metafile, the chunk or nothing, to the one who asks.
HandleRequest(n) ==
  \E p \in net :
    /\ p.type = "request" /\ p.dst = n /\ alive[n]
    /\ net' = With([type |-> "reply", src |-> n, dst |-> p.src, hash |-> p.hash,
                     full |-> Holds(n, p.hash)], net \ {p})
    /\ UNCHANGED <<storeVars, job, registered, downloadVars, alive>>
-----------------------------------------------------------------------------
(* Downloading *)

Runs(j, pc) == job[j].pc = pc /\ alive[job[j].at]

\* What job j waits for: the metafile, then the chunks in turn.
Wanted(j) == IF job[j].pc = "meta" THEN job[j].file ELSE Content[job[j].file][job[j].got + 1]
Waits(j)  == job[j].pc \in {"meta", "chunk"}

\* Request: register the channel and send; an entry of the key is overwritten.
Register(j, n, d, h) == /\ registered' = [registered EXCEPT ![n][<<d, h>>] = j]
                        /\ net' = With(Request(n, d, h), net)

\* A client asks n for a file of peer d, to be called x.
RequestFile(j) ==
  \E n \in Node, d \in Node, f \in File : \E x \in Named[n][f] :
    /\ job[j] = Idle /\ \A k \in Job : k < j => job[k] # Idle
    /\ alive[n] /\ d # n
    /\ job' = [job EXCEPT ![j] = [Idle EXCEPT !.pc = "meta", !.at = n, !.file = f,
                                              !.name = x, !.dest = d]]
    /\ Register(j, n, d, f)
    /\ UNCHANGED <<storeVars, downloadVars, alive>>

\* Mutant of Resend: the timer is a timer, not a ticker; nothing is sent again.
ResendNever(j) == FALSE /\ UNCHANGED vars

\* Request, the ticker: the same packet again, as long as nothing comes.
Resend(j) ==
  /\ Waits(j) /\ alive[job[j].at]
  /\ net' = With(Request(job[j].at, job[j].dest, Wanted(j)), net)
  /\ UNCHANGED <<storeVars, job, registered, downloadVars, alive>>

\* Mutant of Forget: the entry stays.
ForgetNothing(n, key) == UNCHANGED registered

Forget(n, key) == registered' = [registered EXCEPT ![n][key] = None]

\* Mutant of Received: the loop over the metafile takes two hashes at a time.
ReceivedTwo(r) == [r EXCEPT !.pc = IF r.pc = "meta" THEN "start" ELSE "next",
                            !.got = IF r.pc = "meta" THEN 0 ELSE r.got + 2]

Received(r) == [r EXCEPT !.pc = IF r.pc = "meta" THEN "start" ELSE "next",
                         !.got = IF r.pc = "meta" THEN 0 ELSE r.got + 1]

\* HandleReply finds the request; an empty metafile ends the download, an
\* empty chunk the process.  Replies that nobody waits for are dropped.
HandleReply(n) ==
  \E p \in net :
    /\ p.type = "reply" /\ p.dst = n /\ alive[n]
    /\ net' = net \ {p}
    /\ LET key == <<p.src, p.hash>>
           j   == registered[n][key]
       IN IF j = None
          THEN UNCHANGED <<job, registered, alive>>
          ELSE /\ Forget(n, key)
               /\ job' = [job EXCEPT ![j] = IF p.full THEN Received(@) ELSE [@ EXCEPT !.pc = "end"]]
               /\ alive' = [alive EXCEPT ![n] = p.full \/ job[j].pc = "meta"]
    /\ UNCHANGED <<storeVars, downloadVars>>

\* requestMetaFile and RequestFile: store the metafile, join the channel of a
\* download of the file or make one and start its HandleDownloading.
StartDownload(j) == LET n == job[j].at  f == job[j].file IN
  /\ Runs(j, "start")
  /\ metas' = [metas EXCEPT ![n] = @ \cup {f}]
  /\ IF downloading[n][f] = None
     THEN /\ downloading' = [downloading EXCEPT ![n][f] = j]
          /\ handler' = [handler EXCEPT ![j].pc = "run"]
          /\ job' = [job EXCEPT ![j].pc = "next", ![j].ch = j]
     ELSE /\ job' = [job EXCEPT ![j].pc = "next", ![j].ch = downloading[n][f]]
          /\ UNCHANGED <<downloading, handler>>
  /\ UNCHANGED <<indexed, chunks, registered, written, alive, net>>

\* requestChunk for the next chunk, or on to the channel when all have come.
RequestNext(j) == LET n == job[j].at  f == job[j].file IN
  /\ Runs(j, "next")
  /\ IF job[j].got < Len(Content[f])
     THEN /\ job' = [job EXCEPT ![j].pc = "chunk"]
          /\ Register(j, n, job[j].dest, Content[f][job[j].got + 1])
     ELSE /\ job' = [job EXCEPT ![j].pc = "put"]
          /\ UNCHANGED <<registered, net>>
  /\ UNCHANGED <<storeVars, downloadVars, alive>>

\* Mutant of Complete: done when every chunk is held, wherever it came from.
CompleteWhenHeld(n, f, local, held) == Range(Content[f]) \subseteq held

\* HandleDownloading counts the chunks that were new when they came.
Complete(n, f, local, held) == Cardinality(local) = Len(Content[f])

\* downloadCh <- reply, taken by HandleDownloading, which stores a new chunk;
\* on a closed channel the sender panics.
Put(j) ==
  LET n == job[j].at  f == job[j].file  h == job[j].ch
      chunk == Content[f][job[j].put + 1]
      local == handler[h].local \cup {chunk}
      held  == chunks[n] \cup {chunk}
  IN
  /\ Runs(j, "put")
  /\ IF handler[h].pc = "run"
     THEN /\ job' = [job EXCEPT ![j].put = @ + 1,
                                ![j].pc = IF job[j].put + 1 = Len(Content[f]) THEN "end" ELSE "put"]
          /\ IF chunk \in chunks[n]
             THEN UNCHANGED <<chunks, handler>>
             ELSE /\ chunks' = [chunks EXCEPT ![n] = held]
                  /\ handler' = [handler EXCEPT ![h] =
                       [pc |-> IF Complete(n, f, local, held) THEN "close" ELSE "run",
                        local |-> local]]
          /\ UNCHANGED alive
     ELSE /\ handler[h].pc \in {"create", "write", "end"}
          /\ alive' = [alive EXCEPT ![n] = FALSE]
          /\ UNCHANGED <<job, chunks, handler>>
  /\ UNCHANGED <<indexed, metas, registered, downloading, written, net>>

\* HandleDownloading after its loop: the channel is deleted and closed, ...
Close(j) ==
  /\ handler[j].pc = "close" /\ alive[job[j].at]
  /\ handler' = [handler EXCEPT ![j].pc = "create"]
  /\ downloading' = [downloading EXCEPT ![job[j].at][job[j].file] = None]
  /\ UNCHANGED <<storeVars, job, registered, written, alive, net>>

\* The loop over the hashes of the metafile, which appends what has come.
Assembled(content, local) ==
  LET upTo[i \in 0..Len(content)] ==
        IF i = 0 THEN <<>>
        ELSE IF content[i] \in local THEN Append(upTo[i - 1], content[i]) ELSE upTo[i - 1]
  IN  upTo[Len(content)]

\* ... os.Create makes the file, or empties the one of that name, ...
Create(j) ==
  /\ handler[j].pc = "create" /\ alive[job[j].at]
  /\ handler' = [handler EXCEPT ![j].pc = "write"]
  /\ written' = [written EXCEPT ![job[j].at][job[j].name] = <<>>]
  /\ UNCHANGED <<storeVars, job, registered, downloading, alive, net>>

\* ... and file.Write overwrites its beginning with the chunks that came
\* through the channel.
Write(j) ==
  LET content == Assembled(Content[job[j].file], handler[j].local)
      old     == written[job[j].at][job[j].name]
  IN
  /\ handler[j].pc = "write" /\ alive[job[j].at]
  /\ handler' = [handler EXCEPT ![j].pc = "end"]
  /\ written' = [written EXCEPT ![job[j].at][job[j].name] =
                   content \o SubSeq(old, Len(content) + 1, Len(old))]
  /\ UNCHANGED <<storeVars, job, registered, downloading, alive, net>>

Lose == /\ \E p \in net : net' = net \ {p}
        /\ UNCHANGED <<storeVars, job, registered, downloadVars, alive>>
-----------------------------------------------------------------------------
Download(j) == StartDownload(j) \/ RequestNext(j) \/ Put(j)
               \/ Close(j) \/ Create(j) \/ Write(j)

Next == \/ \E n \in Node : HandleRequest(n) \/ HandleReply(n)
        \/ \E n \in Node, f \in File : CreateIndexFile(n, f)
        \/ \E j \in Job : RequestFile(j) \/ Resend(j) \/ Download(j)
        \/ Lose

\* Goroutines run and tickers tick; a packet sent again and again arrives.
\* Nobody has to share a file or to ask for one.
Spec == /\ Init /\ [][Next]_vars
        /\ \A n \in Node : SF_vars(HandleRequest(n)) /\ SF_vars(HandleReply(n))
        /\ \A j \in Job : SF_vars(Resend(j)) /\ WF_vars(Download(j))
-----------------------------------------------------------------------------
(* Properties *)

TypeOK ==
  /\ \A n \in Node, f \in File : indexed[n][f] \in 0..Len(Content[f])
  /\ metas \in [Node -> SUBSET File]
  /\ chunks \in [Node -> SUBSET Chunk]
  /\ \A j \in Job :
       \/ job[j] = Idle
       \/ /\ job[j].pc \in {"meta", "start", "next", "chunk", "put", "end"}
          /\ job[j].at \in Node /\ job[j].dest \in Node /\ job[j].file \in File
          /\ job[j].name \in Name
          /\ job[j].got \in 0..Len(Content[job[j].file])
          /\ job[j].put \in 0..Len(Content[job[j].file])
          /\ job[j].ch \in Job \cup {None}
  /\ registered \in [Node -> [Node \X Hash -> Job \cup {None}]]
  /\ downloading \in [Node -> [File -> Job \cup {None}]]
  /\ handler \in [Job -> [pc : {"none", "run", "close", "create", "write", "end"},
                        local : SUBSET Chunk]]
  /\ \A n \in Node, x \in Name : written[n][x] \in Seq(Chunk)
  /\ alive \in [Node -> BOOLEAN]
  /\ net \subseteq Packet

\* A file that has some chunk twice: it is counted once (548-569), so that
\* HandleDownloading waits for another one for ever.
Repeats(f) == \E i, j \in 1..Len(Content[f]) : i # j /\ Content[f][i] = Content[f][j]

\* Two different files asked for under one name.
Clash(n, x) == \E j, k \in Job : /\ job[j].at = n /\ job[j].name = x
                                 /\ job[k].at = n /\ job[k].name = x
                                 /\ job[j].file # job[k].file

\* fileSharing.go:523-525 "Loop 2 until all chunks are downloaded ... Create
\* downloaded file": what stands under a name is empty or a whole file that
\* was asked for under it, whatever other downloads share its chunks or its
\* channel.  Not so where two files have the name: they overwrite each other.
\* A file with a chunk twice is never written.
WrittenIsWhole ==
  \A n \in Node, x \in Name :
    \/ written[n][x] = <<>>
    \/ \E j \in Job : /\ job[j].at = n /\ job[j].name = x /\ ~Repeats(job[j].file)
                     /\ written[n][x] = Content[job[j].file]
    \/ Clash(n, x)

\* HandleReply sends on an unbuffered channel with RequestReplyChMap's mutex
\* held (330-339).  An entry always leads to a request that still waits for
\* just that reply, so the mutex always comes free again.
RepliesFindTheirRequest ==
  \A n \in Node : \A key \in Node \X Hash : alive[n] /\ registered[n][key] # None =>
    LET j == registered[n][key] IN
      /\ Waits(j)
      /\ job[j].at = n
      /\ key = <<job[j].dest, Wanted(j)>>

\* A peer that shares a file from its disk, and did not fetch it elsewhere.
Sharer(d, f) == f \in Disk[d] /\ \A j \in Job : ~(job[j].at = d /\ job[j].file = f)

\* Losing, repeating or delaying requests and replies kills no gossiper that
\* downloads from sharers and no file twice: neither os.Exit (308) nor a send
\* on a closed channel (284) happens, however the downloads overlap.
SharersNeverKill ==
  \A n \in Node :
    \/ alive[n]
    \/ \E j \in Job : job[j].at = n /\ ~Sharer(job[j].dest, job[j].file)
    \/ \E j, k \in Job : j # k /\ job[j].at = n /\ job[k].at = n /\ job[j].file = job[k].file

\* No other download at the gossiper has the name of j's or a chunk of it, nor
\* has a shared file such a chunk.
Undisturbed(j) ==
  LET n == job[j].at  mine == Range(Content[job[j].file]) IN
  job[j] # Idle =>
    /\ alive[n] /\ alive[job[j].dest]
    /\ chunks[n] \cap mine \subseteq handler[j].local
    /\ \A k \in Job \ {j} : job[k].at = n => /\ job[k].name # job[j].name
                                            /\ Range(Content[job[k].file]) \cap mine = {}

Refused(j) == job[j].pc = "end" /\ job[j].got = 0
Fetched(j) == \E n \in Node, x \in Name :
  job[j].at = n /\ job[j].name = x /\ written[n][x] = Content[job[j].file]

\* All chunks of a file have come, and HandleDownloading waits for more.
Starved(j) == /\ job[j].pc = "end" /\ Repeats(job[j].file)
              /\ job[j].put = Len(Content[job[j].file])
              /\ handler[job[j].ch].pc = "run"

\* fileSharing.go:102 "If timeout: Resend": on a lossy network a download ends,
\* with the whole file or the answer that the peer does not have it, unless
\* the file has a chunk twice: then all its chunks come, and no file.
UndisturbedDownloadsEnd ==
  \A j \in Job : []Undisturbed(j) =>
    (job[j] # Idle ~> Refused(j) \/ Fetched(j) \/ Starved(j))
=============================================================================
