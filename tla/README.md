# Verification of Peerster

Peerster (`src/Peerster`) is a peer-to-peer node, a *gossiper*, written in Go. Gossipers spread
messages by rumor mongering over UDP, share and search files, agree on transactions in rounds (a
threshold logical clock) and keep one small blockchain per election. This directory holds TLA+
models of its parts, the configurations TLC checks, and theorems TLAPS proves.

`PROJECT.json` is the index: components, runs, what each definition stands for in the source,
hazards, findings and theorems. This file is the guide.

    tlc -workers 2 -config Gossip.cfg MCGossip      # any run: <file>.cfg and its module
    tlapm GossipProofs.tla                          # any of the eight ...Proofs modules

## 1. The system

All state is in memory; nothing is persisted, so there is no recovery. A gossiper runs one loop
over incoming packets (`gossiper.go:104`) and one over client commands (`216`). Most handlers get a
goroutine of their own, so two packets of one sender may be handled in either order or at once.

| Part | State | Operations | Interacts with |
|---|---|---|---|
| Gossip (`gossiper/util.go`, `rumorHandler.go`, `statusHandler.go`, `gossiper.go`) | `RumorBuffer` (a log per origin), `StatusBuffer` (next ID per origin), `PeersBuffer` | `Update`, `HandleRumor`, `HandleStatus`, `ProvideMongering`, `RequestMongering`, `StartAntiEntropy`, `StartHeartbeat`, client rumor | carries the messages of the blockchain and of the clock in the same log; feeds the router |
| Mongering (`mongerHandler.go`, `statusHandler.go:49`) | `AckChs` (a channel per text of peer, origin and ID), `PeerStatuses` | `MongerRumor` and its goroutine, `Ack`, `FlipCoinMonger` | started by every handler that learns or originates a message |
| Mutexes, dispatch (`gossiper.go`, all handlers) | the mutexes, the router's channel | every handler | shared by everything |
| Election blockchain (`naiveBlockchain.go`) | per election: `Blocks`, `NextId`, `Buffer`, `VoterMap`, the round in progress | `HandleReceivingVote`, `HandleRound`, `HandleSendingBlocks`, `HandleReceivingBlock` | rendezvous on `SendCh`, `ReceiveCh` with the gossip layer |
| Confirmed transactions (`blockchain.go`) and, with `-hw3ex3`, the threshold clock | `TLCClock`, `g.Round`, local maps of three goroutines | `HandleRoundSend`, `SendTLC`, `HandleTLCMessage`, `RoundTLCAck`, `HandleTLCAck`, `HandleConfirmedMessage` | five channels between goroutines; gossip for proposals and confirmations, direct packets for ACKs |
| File transfer (`fileSharing.go`) | `MetaFileMap`, `ChunkMap`, `RequestReplyChMap`, `Downloading`, `IndexFileMap` | `CreateIndexFile`, `RequestFile`, `Request`, `HandleRequest`, `HandleReply`, `HandleDownloading` | routing for next hops, transactions of the clock announce files |
| File search (`fileSearcher.go`, `fileSearchHelper.go`) | `SearchReqMap`, `Target`, `ReplyCh` | `Search`, `HandleSearch`, `CheckSearchFinish`, `DistributeSearch`, `RequestSearchedFile` | the listen loop, file transfer |
| Routing, private messages (`routing.go`, `privateHandler.go`, `ForwardPkt`) | `Dsdv.Map` | `StartRouting`, `HandlePrivateMsg`, `ForwardPkt` | every point-to-point packet |
| The rest: simple mode, network, GUI and web server, client program, start-up, QSC (unfinished), `peer/` (unused prototype) | | | |

What is hard here, in one line each (the full list with lines is under "hazards"):

- UDP loses, reorders and duplicates; a goroutine per packet reorders again.
- A log and its counter are under two mutexes, and some originators update them in two critical
  sections.
- Handlers nest up to three mutexes, in orders nobody wrote down, and wait on unbuffered channels
  while holding them.
- `HandleReceivingBlock` tests the round and then blocks; `HandleRound` moves on meanwhile.
- All elections share one log: a block that is refused because its round lies in the future holds
  back the later blocks of its origin, those of other elections included.
- A confirmation can overtake the numbering of the proposal it confirms.
- Downloads share chunks, channels and keys of maps; requests are resent while answers are under
  way.
- The router is fed by waiting goroutines in any order and has no sequence numbers: old next hops
  overwrite new ones, and a packet may meet a gossiper that does not know its destination.
- A search's collecting goroutine reads a channel variable once that `Search` replaces at the same
  time and that the listen loop reads twice; a repeated request meets a mutex that nobody unlocks.

What makes each part correct: logs are gapless prefixes of their origin's and everything arrives
(gossip); every handler ends (mutexes); an answer is sent on an open channel, registered under the
key that was looked up (mongering); chains
agree, record a voter once and every voter in the end, also beside other elections (blockchain);
nobody's round outruns a threshold, what is confirmed is held by a threshold (clock); files are
written whole, and an undisturbed download of a file without repeated chunks ends with it (transfer);
a search asks no more gossipers than its budget
and kills nobody (search); next hops lead to the destination once the tables have caught up, and
every packet ends (routing).

## 2. Modules

| Module | Models | Checked by |
|---|---|---|
| `RumorLog` | abstract: one append-only log per origin, copied entry by entry | refinement target of `Gossip` |
| `Gossip` | the gossip part above | `Gossip.cfg`, `GossipLive.cfg`, `GossipMixing.cfg` via `MCGossip` |
| `Ledger` | abstract: one ledger of ballots, one per voter, adopted in lockstep | refinement target of `Blockchain` |
| `Blockchain` | one election | `Blockchain.cfg` via `MCBlockchain` |
| `Elections` | two elections (instances of `Blockchain`) over the logs they share | `Elections.cfg` via `MCElections` |
| `ThresholdClock` | transactions confirmed by a threshold, and the rounds of `-hw3ex3` | `ThresholdClock.cfg` via `MCThresholdClock` |
| `Locks` | every handler as a path through mutexes and the router's channel | `Locks.cfg` via `MCLocks` |
| `Mongering` | what happens after a message is sent | `Mongering.cfg`, `MongeringEnds.cfg` via `MCMongering` |
| `FileTransfer` | sharing and downloading | `FileTransfer.cfg` via `MCFileTransfer` |
| `Routing` | the router, its table and the packets forwarded by it | `Routing.cfg` via `MCRouting` |
| `Search` | one file search and the download of what it found | `Search.cfg` via `MCSearch` |
| `GossipProofs`, `BlockchainProofs`, `ElectionsProofs`, `ClockProofs`, `LocksProofs`, `FileProofs`, `RoutingProofs`, `SearchProofs` | theorems about the module of that name (`ThresholdClock`, `FileTransfer`), the refinements of `RumorLog` and `Ledger` included; `LocksProofs` is about `Locks` and `Mongering` | TLAPS |

`LocksProofs` extends two specifications, so that `Mongering` calls its own `MongeringInit`,
`MongeringNext` and `MongeringSpec`.

`Elections` composes two `Blockchain`s. The others are layered, not run together: `Blockchain`,
`ThresholdClock` and `Routing` replace gossip by what `Gossip` establishes of it (a log per origin,
delivered in order, at any later time, by `Delivered` eventually). `Locks` and `Mongering` take the data
out and keep the waiting; `Gossip` keeps the data and takes a critical section for one step.

### Correspondence

**Gossip.** `rumors`, `status`, `peers` are `RumorBuffer`, `StatusBuffer`, `PeersBuffer` of every
gossiper; `net` the packets in flight; `uncounted` the messages that `HandleSendingBlocks` or
`SendTLC` has stored and not yet counted (it has released one mutex and not taken the other). Every
handler is one action, the nested critical sections of `Update` being one step because
`StatusBuffer`'s mutex is held over both; originating a block or a TLC message is two
(`StoreOwn`, `CountOwn`). An absent entry of `StatusBuffer` is 1: no operation stores less than 2
and all readers treat the two alike. A status of 1 in a packet therefore also stands for no entry.
`Transmit` loses any of what is sent and, with `CanDuplicate`, keeps what it delivers. Whether a
block is refused as future or is too old to be mongered is left open (`future`, `recent`):
`Blockchain` decides it. The coin of `FlipCoinMonger` may fall at any time for anything held.
Mutants (operators named in comments) sit before the definitions they replace.

**Blockchain.** `pc` is where `HandleRound` is: choosing a ballot (`Pick`), waiting on `SendCh`
(`Offer`), waiting on `ReceiveCh` (`Collect`). `HandleReceivingBlock` is up to four steps: `Update`
(`ReceiveBlock`), the test of the round with the mark in `VoterMap` (`CheckRound`), the buffer
(`BufferBallot`), the rendezvous (`Collect`), so that everything may happen between its critical
sections. The round test and the mark are one step: between them nothing of another round can
matter, since the round cannot end without this very block. Blocks are in `proposed`, the part of
them in the log of the gossiper is counted by `stored`, the part another gossiper holds by `heard`.
A hash is the ballots it covers. `Fitness` is a 64-bit number drawn from a generator seeded with the
gossiper's name; proposals of one round never draw the same.

**Elections.** Every election has its own `HandleRound` and `HandleSendingBlocks` goroutines
(`A!...`, `B!...`); `log[n]` is the order in which gossiper n has stored the blocks of both, which
is the order `Update` insists on: `IsNext` says whose block is next, and only that one may be
received. A block whose round lies ahead is refused before `Update` and comes again.

**ThresholdClock.** One record per `SendTLC` goroutine and per `HandleTLCMessage` goroutine, a
program counter for `HandleRoundSend` and `HandleConfirmedMessage`, the local maps of the three
receiving goroutines. A rendezvous on an unbuffered channel is one step of both sides, with two
exceptions stated in the module: confirmations wait in a set (`confirmed`), and the hand-over from
`HandleTLCAck` to `SendTLC` is two steps, because `HandleTLCAck` picks the channel before it waits on
it; a channel not registered yet blocks it for ever (`open = FALSE`), as in the code. The flags
(`flags`) are the same at all gossipers; without `-hw3ex3` `HandleTLCMessage` acknowledges at once
and the goroutines of the rounds do not run.

**Locks.** `job[t]` is what goroutine t has still to do. A handler is the set of its paths; branches
on data are choices. A critical section in which nothing is waited for is one step (`visit`,
`Pass`): nobody can be blocked by it for good; sections that nest others or feed the router are
taken apart into `lock` and `unlock`. The early return of `ForwardPkt` leaves `Dsdv.Mux` with
`Returned`, a goroutine that never runs again.

**Mongering.** `monger[g]` are `MongerRumor`'s goroutines, `acker[k]` those of `HandleStatus`, with
`AckChs` as `chs` (whose channel is under a key) and `open` (whose channel is not closed). A key is
the text of the peer's address, the origin's name and the ID with nothing between them
(`mongerHandler.go:46`, `statusHandler.go:73`): `KeyOf` is any map to texts that tells the IDs of one
address and name apart, and messages of different origins or to different peers may share a key.
What `Ack` looks up is `NextID`, the message that the peer still lacks, although the comments speak of
messages received or not needed (`statusHandler.go:13, 30, 50`): so does `Wanted`.
A peer's status is anything it may have held so far. A send with the mutexes held waits for the
receiver to be in its `select`. An answer "in sync" leads to the panic that the code has there, after
which nothing moves.

**FileTransfer.** `job[j]` is one `RequestFile` with the `Request` it waits in, `handler[j]` the
`HandleDownloading` it may have started; a file's channel is named by the job that made it.
`Request`'s ticker is `Resend`. `os.Exit` and a panic clear `alive`. A file is written under the name
that the client gave to its download (`written[n][x]`), in two steps: `os.Create` empties what stands
there (`Create`), `file.Write` overwrites its beginning (`Write`).

**Routing.** Names stand for addresses too. `have` counts what `Update` has let in, `pending` holds
the handlers that wait to feed the router (in any order), `table` is `Dsdv.Map`, and `from` remembers
which message an entry stems from, for the properties only; so does `calm` for a packet. There is one
packet of each of two kinds: private messages have a goroutine of their own, everything else that
travels point to point is forwarded in the listen loop, which therefore can be stopped (`deaf`). The
hop limit is counted down modulo `MaxUint + 1`, which stands for 2^32. `locked` is the mutex
`ForwardPkt` keeps, `listing` the web page's iteration over the map without the mutex, `down` the
process that the Go runtime ends when the router writes meanwhile.

**Search.** `Search` and the goroutine of `CheckSearchFinish` are program counters (`searchPc`,
`collector`), the listen loop is the reply it holds and the channel it picked (`listen`). The
channels are three: the one made at start, the search's, nil. `HandleSearch` is one step, since its
mutex is tested and taken at once and what follows only sends; the packets of a try are a set, and
one that never arrives stands for a lost one. Budgets are counted modulo `MaxUint + 1` (2^64 in the
code). `issued`, `served` and `late` record history for the properties. What a gossiper lists of a
file depends on how it got it: `CreateIndexFile` numbers chunks 1, 2, 3, `HandleDownloading` 1, 33,
65. The metafile's transfer itself is `FileTransfer`'s.

## 3. Runs

| Run | Instance and bounds | Question |
|---|---|---|
| `gossip` | 3 gossipers on a line, 2 TLC messages or blocks from one end, 1 client rumor from the other, 2 packets in flight, duplication | do the logs stay prefixes, the counters exact, and is every step one of `RumorLog`? |
| `gossip_live` | the same line, 1 TLC message and 2 heartbeats, 1 packet in flight, loss | does every message reach everybody? |
| `gossip_mixing` *(violation)* | a gossiper with client rumors and blocks | `RumorBuffer.get` returns the wrong message |
| `chain` | 3 gossipers, 2 voters at one of them, 3 fitness values | do chains agree and implement `Ledger`, is no hand-over stale, no marked vote lost? |
| `elections` | 2 gossipers, 2 elections: a voter who votes at both gossipers; 2 voters of one gossiper, hence two rounds | is a voter recorded once, no ballot lost, and can one election stall the other? |
| `locks` | any 2 handlers at once (all of them, clients' and clock's included), the heartbeat beside them, the router | what does it take to block goroutines in a circle, and does every handler end otherwise? |
| `monger` | peers `:500` and `:5000`, origins `x` with 2 messages and `0x` with 1, 2 mongering goroutines, 1 status at a time | does `Ack` send on open channels only, and only to goroutines whose key reads as the one looked up? |
| `monger_ends` *(violation)* | 1 peer, 1 goroutine | `Ack` and the goroutine wait for each other |
| `clock` | 3 gossipers of 3, 4 or 5, with `-hw3ex3` (also `-ackAll`) and without, the first with 2 transactions and in touch with both others | are confirmations backed, given once, rounds in step and not ahead of a threshold; what does it take to advance on less than a majority? |
| `files` | 2 gossipers, 3 files with a chunk in common, one of which has it twice and two of which may have one name, 2 downloads, 2 packets in flight | are files whole, do replies find their request, does an undisturbed download end? |
| `routing` | 3 gossipers that know each other, 2 messages of one, a packet of each kind, hop limit 2 | when do next hops form a circle, who can meet an unknown destination, does every packet end? |
| `search` | a searcher and 2 sharers on a line or a triangle, budgets 2 (doubled once) and 5, a file of 2 chunks that the second sharer may be downloading | do budgets bound the flood, and what can lock a gossiper, stop its listen loop or end it? |

Why the bounds are enough to be interesting. Three gossipers on a line force relaying and let the
far end learn from somebody who is not the origin; two packets in flight let an old and a new packet
meet, and duplication lets an old one come again after anything. Two messages of one origin are what
a gap or a swap needs. Two rounds of three gossipers contain every overlap of adjacent rounds, and
`HandleReceivingBlock` refuses what is further ahead. In the clock run `MaxHeard` bounds what a node
hears (the model's only bound on delivery), chosen so that all three may advance, a third
confirmation may come when the round is over, and the first proposes and confirms once more; three
gossipers that are left of five need each other's acknowledgements, of four any two are enough. Two
elections with one and two rounds contain a block of a future round in front of a block of the other
election (head-of-line blocking). Two handlers, the timers and the router are what a circle of two
or three needs; the mutexes have an order with one reversed pair, so larger circles contain it. Two
messages of one origin let an old routing entry overwrite a new one, and a hop limit of 2 among
three gossipers runs out on a circle of two. The triangle lets a search request arrive twice, the
line makes it travel through somebody; a budget of 5 leaves remainders when it is split and comes
back to the searcher, and the wrap-around (`MaxUint` 15) is in reach of a single wrong decrement.
Three files that share a chunk, and two downloads that may be of the same file or under the same
name, contain every overlap of `ChunkMap`, `Downloading`, `RequestReplyChMap` and the written files;
`f3` has its only chunk twice. Downloads by three jobs are not instantiated, and each file is asked for
under one name (`Named`). The addresses and names in `monger` are such that message 2 of `0x` to
`:500` reads as message 2 of `x` to `:5000`; the slots bound goroutines at a time, not in total.

Symmetry is used in `chain` (the two gossipers without clients) and `monger` (the goroutine slots);
not in runs with liveness.

Deadlock checking is off where the system stops for good reason: the bounded counts of ballots,
transactions and messages run out (`chain`, `elections`, `clock`, `routing`, `search`), or the code
itself stops (`monger`: the panic and the blocked `Ack`; `locks`: the circle and the kept mutex;
`files`, `search`: a process that has ended). It is on in the three gossip runs. `elections` has
its own notion of a standstill instead: `Standstill` spells out that no goroutine and no gossip can
take a step, and `NobodyStalls` says that this is `~ENABLED Proceed` and happens only when every
cast voter is recorded everywhere (`RestsWhenRecorded`, which is also a theorem).

### Fairness

- `Gossip.FairSpec`: handlers run (weak fairness); the anti-entropy ticker fires for ever and its
  random choice takes every peer again and again, and of infinitely many copies of a packet one gets
  through (strong fairness of a status, and of a provided message, that is not lost). Nothing makes
  a client speak. `Delivered` needs the anti-entropy: mongering alone may lose everything.
  `GossipLive.cfg` has no blocks: a block refused as future is stored later only if the chain
  advances, which is `Blockchain`'s matter.
- `Blockchain`, `Elections`, `ThresholdClock` and `Search` state none. In `elections` liveness is the
  invariant `NobodyStalls` together with the theorem `WorkRunsOut`: what is left to do is a natural
  number that every step but a vote makes smaller, so every behaviour without new votes is finite, and
  goroutines that keep running can only stop where every voter is recorded (the temporal form of it
  takes TLC longer than the runs may, and the prover has no liveness).
- `Routing`: weak fairness of handling a packet that has arrived, and of losing one that cannot be
  served. Nobody has to send or learn anything.
- `Locks`, `Mongering`, `FileTransfer`: strong fairness of a goroutine waiting for a mutex or a
  rendezvous, since Go hands a starving waiter the mutex and serves channels in order; in
  `FileTransfer` also of requests and replies that are repeated for ever. Work need not arrive.

## 4. Findings

The two violation runs are disagreements between a comment or the README of the program and its
code; each is described in `PROJECT.json` with lines: two critical sections against one numbering
(`gossip_mixing`), repeated sends on a channel received once (`monger_ends`).

Other faults of the code are in the models too, and the properties name them as the only way things
go wrong, which says more than a counterexample:

| Property | Holds, except through |
|---|---|
| `CircleNeedsReversal`, `FinishesUnlessBroken` | `HandleClient` and, in `-hw3ex3`, `SendTLC` taking `StatusBuffer`'s mutex under `RumorBuffer`'s; `ForwardPkt` returning with `Dsdv.Mux` held |
| `AdvancesOnMajority` | a confirmation counted for round 0 because its proposal had no round yet; the half of an even number of gossipers, which `ceil` takes for a majority |
| `RelayKnowsOrLearns`, `SettledRoutesDeliver` | the window between learning a message and its routing entry |
| `RepeatNeedsCycle` | a request that comes twice locks a gossiper's search for good: it takes a cycle of peers or tries that overlap |
| `OnlyDownloadersKill` | the numbering of chunks by downloaders, the slicing of short names |
| `ListenLoopGoesOn` | the collector reading the old channel, or leaving between two readings of the listen loop |
| `SharersNeverKill`, `UndisturbedDownloadsEnd` | two downloads that share a file or a chunk; a peer that does not have the whole file from its disk |
| `UndisturbedDownloadsEnd` (`Starved`) | a file that has a chunk twice: `HandleDownloading` counts it once (`fileSharing.go:548-565`), waits for one more for ever and writes nothing, although 523-525 says that it loops until all chunks are there and creates the file |
| `WrittenIsWhole` (`Clash`) | two files asked for under one name, which overwrite each other |
| `SendsFindTheirChannel` | messages of different origins or to different peers whose keys read the same: `Ack` then answers the goroutine of the other one |

`Gossip` and its theorems assume `NoMixing` (a gossiper originates client rumors only, or heartbeats
only, or TLC messages and blocks); without it, `gossip_mixing`. `ConfirmedIsHeld` and `NoOutrun` speak
of the code's threshold `ceil(N / 2)`, which is a majority for odd N only, although `blockchain.go:415`
says greater than N / 2.

## 5. Proofs

Eight modules hold theorems, each for every value of the constants that the assumptions of its model
allow. For each component `IInv` (`MongeringInv` for `Mongering`) is an inductive invariant,
`Invariance` (`MongeringInvariance`; in `GossipProofs` under `NoMixing`) says that it always holds, and
the properties of the runs follow from it. `ElectionsProofs` has the `IInv` of both elections from
`BlockchainProofs` and adds `LogCounts` and `LogsInStep`. There is one lemma per action, and lemmas
about the operators before them. Every inductive invariant was checked by TLC on the instance of the
component's run, or a smaller one, before it was proved: 88916 states of `Locks`,
102660 of `Routing`, 293080 of `FileTransfer`, 454109 of `Blockchain` (`UsesUp` too), 1070252 of
`Elections`, 1226624 of `ThresholdClock`, 1854756 of `Search`, 4560668 of `Mongering`.

| Module | Theorem | Proves always |
|---|---|---|
| `GossipProofs` | `TypeCorrect` | `TypeOK` |
| | `GetFindsTheID` | `StoredUnderItsID`: the message at `ID - 1` has that origin and ID |
| | `CopiesArePrefixes` | `PrefixOfOrigin`: every copy is an initial segment of the origin's log |
| | `CountersExact` | `CountedExactly`: counters trail logs by what is stored but uncounted |
| | `StatusNeverSkips` | `WantsTheNext`: no status in flight asks beyond the next message |
| | `Refinement` | `Spec => Log!Spec`: gossip implements `RumorLog` |
| `BlockchainProofs` | `TypeCorrect` | `TypeOK` |
| | `ChainsNeverFork` | `Agreement`: of two chains one is a prefix of the other |
| | `NobodyVotesTwice` | `OneBallotPerVoter`: no chain records a voter twice |
| | `HandoffsAreFresh` | `NoStaleHandoff`: past the round check a block is of the current round and extends the chain, until `HandleRound` has it |
| | `MarkedVotersAreKept` | `MarkedIsKept`: a voter marked in `VoterMap` is recorded, or its ballot is buffered or about to be |
| | `CastBallotsAreKept` | a ballot stays in the buffer until its voter is on the chain |
| | `ChainsImplementLedger` | the chains implement `Ledger` |
| | `NoForgedBallot` | what is buffered, proposed or recorded has been cast |
| | `NothingHeardIsForgotten` | a gossiper waits for no proposal that it has stored: `HandleRound` has it or a handler brings it |
| | `RestsWhenRecorded` | when nobody can go on, every voter whose ballot was cast is recorded by all, under `EnoughFitness` |
| | `WorkRunsOut` | what is left to do is a natural number; every step but a vote makes it smaller, a vote adds one at most; with finitely many voters |
| `ElectionsProofs` | `EachIsABlockchain` | `Spec => A!Spec /\ B!Spec`: each election, fed from the shared logs, implements `Blockchain` |
| | `NobodyVotesTwice` | `OneBallotPerVoter`, in both elections |
| | `CastBallotsAreKept` | `CastIsKept`, in both elections |
| | `LogsStayInStep` | the elections' counters tell what the logs hold, and no two gossipers store the blocks of both in orders that differ by two |
| | `StandstillIsTheEnd` | `RestsWhenRecorded`: refused blocks of one election never stop both for good, under `EnoughFitness` |
| | `WorkRunsOut` | `WorkRunsOut` of both elections beside each other: a step uses up work of one gossiper in one of them and adds none elsewhere |
| `ClockProofs` | `TypeCorrect` | `TypeOK` |
| | `ConfirmationsAreHeld` | `ConfirmedIsHeld`: what is confirmed, a threshold of gossipers holds |
| | `ConfirmationsAreUnique` | `ConfirmedOnce` |
| | `CountersInLockstep` | `Lockstep` of `g.Round` and the two goroutines of a round |
| | `RoundsDoNotOutrun` | `NoOutrun`: nobody's round outruns the proposals of a threshold of gossipers |
| | `RoundsHaveMajority` | `AdvancesOnMajority`, but for the two faults of section 4 |
| `LocksProofs` | `CirclesAreReversals` | `CircleNeedsReversal` |
| | `AnswersFindTheirChannel` | `SendsFindTheirChannel`: `Ack` sends on open channels, to goroutines whose key reads as the one looked up, whatever messages share a key |
| | `EntriesStayLive` | `EntriesAreLive`: what `AckChs` holds is open, and its goroutine under way with a message of that key |
| `FileProofs` | `TypeCorrect` | `TypeOK` |
| | `RepliesFind` | `RepliesFindTheirRequest` |
| | `FilesAreWhole` | `WrittenIsWhole`: a file with a repeated chunk is never written, any other whole, unless two files have one name |
| | `SharersKillNobody` | `SharersNeverKill`, under `Distinct` |
| `RoutingProofs` | `TypeCorrect` | `TypeOK` |
| | `NoLoopWithoutLag` | `LoopNeedsLag` |
| | `RelaysKnowOrLearn` | `RelayKnowsOrLearns` |
| | `SettledDelivers` | `SettledRoutesDeliver`, under `Reachable` |
| `SearchProofs` | `TypeCorrect` | `TypeOK`: no request travels without budget |
| | `DownloadersKill` | `OnlyDownloadersKill` |
| | `LoopGoesOn` | `ListenLoopGoesOn` |
| | `FloodIsWithinBudget` | `ServedWithinBudget` |
| | `RepeatsNeedCycles` | `RepeatNeedsCycle` |

### Assumptions beyond those of the models

- `NoMixing` (`Gossip`): cannot be dropped, `gossip_mixing` is the counterexample.
- `Deployed` (`Blockchain`, `Elections`): the gossipers are finitely many, `-N` counts them, there are two or more.
  A round of `HandleRound` waits for N - 1 blocks: with fewer a round may end without a gossiper's
  block, with more it never ends, and with N = 1 the loop does not end (section 6).
- `EnoughFitness` (`Blockchain`): there are fitness values for all gossipers of a round. In the code they
  are 64-bit numbers. With fewer somebody could not propose, since proposals of one round draw different
  values; only `RestsWhenRecorded` and `StandstillIsTheEnd` need it.
- Finitely many voters (`WorkRunsOut`, both): a client may always vote in a new name, and the work that
  follows has no bound beforehand. The proof counts rounds by the voters not recorded yet.
- `Distinct` (`FileTransfer`): no metafile has the hash of a chunk. Hashes are SHA-256 and a file can
  be made to be another file's metafile; then a request for the metafile is answered by the chunk, and
  the downloader parses it. Only `SharersKillNobody` needs it.
- `Reachable` (`Routing`): at most `HopLimit + 1` gossipers, in the code eleven. In a longer line a
  packet does run out of hops. Only `SettledDelivers` needs it.

### The arguments

**Gossip.** Whether an arriving message is appended is decided by its ID and the receiver's counter,
so the invariant must say that counters match logs (`CountedExactly`), that logs are numbered
(`LogInv`), and that a packet in flight carries an entry of its origin's log at its ID, and a status
no more than its sender holds (`PacketsBacked`). The last one makes loss, reordering and duplication
harmless: it survives removing packets, keeping them and growing logs. `UncountedAreStored` says that
the uncounted messages are finitely many and stored under their IDs, so that what is counted later is
in the log already. `NoMixing` enters at two places: a client rumor increments the counter in the same
step as it stores, which is right only if nothing is uncounted; a heartbeat takes its number from the
counter and the first one assumes an empty log. The refinement maps client rumors, heartbeats and
`StoreOwn` to `Publish`, the handlers of messages to `Learn` or a stutter, the rest to a stutter.

**Blockchain.** The crux is that all gossipers end a round with the same candidate, though each
compares what it happens to receive. Nobody is more than a round behind a gossiper it has heard
(`HeardInTime`), a handler past the round check carries a block of the round that is on, one per
origin (`HandlersCarryProposals`, `HandledOnce`), and the candidate is a proposal, the fittest of those
counted (`CurrentIsFittest`). When N - 1 others have been counted, all have: the winner is the fittest
of the whole round, at every gossiper (`ChainIsFittest` with `FitnessDiffers`). Agreement follows by
comparing two winners of the same round; a voter is recorded once because a proposal extends the chain
of its proposer with a voter new to it (`ProposalsExtend`), and that chain is everybody's. The
refinement maps `ledger` to a longest chain and `adopted` to the lengths: the first gossiper to end a
round records, the others adopt.

That a round ends (`NothingHeardIsForgotten`, `RestsWhenRecorded`) needs that a block is never lost on
its four steps to `HandleRound`: what is stored and not counted has a handler (`NothingHeardIsLost`), and
who collects has not counted all (`RoundIsOpen`). If nobody can go on, take
a gossiper that collects in the earliest round. It waits for a block that its origin has not stored
either, or it could be received. So the origin does not collect in that round, nor in an earlier one; it
is picking, with an empty buffer. It cannot have stored the collector's block, which it would have
buffered, and that one can be received after all. So nobody collects, all buffers are empty, and a cast
ballot has left the buffer only by being recorded.

`WorkRunsOut` counts what a gossiper has left: the phases of the rounds to come (a round records a voter,
so there are no more than voters: `RoundsCounted`), the blocks not yet in its log, and the proposals not
yet received or on their way through a handler. Every step takes an item away, except a `Pick` that
finds only recorded voters and empties the buffer: hence twice the work, plus one for a filled buffer.

**Elections.** A step of the composition is a step of one election and a stutter of the other
(`EachIsABlockchain`), so the invariants of `Blockchain` hold of both. What is new is the log they share.
Its order at a gossiper is what its own goroutines made it and what all others must follow. `LogCounts`
says that `stored` and `heard` count what the logs hold. `LogsInStep` says
that two logs are never mixed very differently: they have no two beginnings of which one is ahead by two
blocks of one election and the other by two of the other. A log grows at its end only, where all its
blocks count, and there nobody is two blocks of an election ahead of another (`StoredInStep`). At a
standstill, take the earliest collector of an election. What it waits for is behind a block of the other
election, refused as future; so it waits in the other election too, for a block that is behind one of the
first election refused as future. The two logs it waits for would be mixed too differently. If the origin
has not stored its block yet, the same holds of what the origin waits for (`NobodyCollects`). Then nobody
collects, and each election rests as it does alone.

**Clock.** A log is written by `SendTLC` goroutines with transactions of their own, hence confirmed
once (`Goroutines`, `LogIsSent`). An acknowledgement comes from somebody who has heard what it
acknowledges (`AcksAreHonest`), so a goroutine that has collected a threshold of them is about a
proposal that many hold (`ConfirmersAreHeld`). The rounds that n has given to proposals of o are as many
as `TLCClock` says and pairwise different (`RoundsOf`), although they are computed in any order;
confirmations are counted once, under the round their proposal has been given, or under 0
(`Tallies`). For `NoOutrun`: a gossiper that goes from round r to r + 1 has finished r + 1 different
rounds, so one of them is r or more (`LateRound`). The confirmations it counted for that one came from a
threshold of different gossipers, whose proposals it gave that round; rounds stay below the clock, and
the clock counts proposals, so each of them has proposed r + 1 times. Only round 0 is special: a
confirmation that overtook counts for it too, and then one gossiper may count twice, but who has
proposed twice is in round 1 itself (`CountedHaveProposed`).
Twice the threshold is at least the number of gossipers, and more where it is odd:
`AdvancesOnMajority`, but for the count of round 0 and the even half.

**Locks.** The mutexes and the router's channel have levels (`Level`). `Follows(path, before, after)`
says that there is an assignment of what is held at each point of a path such that it waits in order;
it is closed under concatenation and under `Hold`, and so every path of the eighteen handlers follows
from nothing held to nothing held (`EveryHandler`). In every state what is left of a job follows from
what its goroutine holds. Then in a circle without the reversed pair, whoever waits for a mutex waits
for somebody who waits for a higher one (`Climbs`); there are four levels; who feeds the router holds
nothing and waits for the router, which waits for the highest.

**Mongering.** `HoldsItsMuxes` follows `Ack` through its two mutexes; while there are answers to
send, the channel for which they were counted is in `AckChs` (`CountedIsRegistered`), because the
goroutine that would remove it needs the mutex that `Ack` holds. That this is the channel of a
goroutine with the key looked up is `EntriesAreLive`, which needs nothing of the keys; that it is the
very message where peer and origin are those looked up needs that the text tells their IDs apart
(`KeyAssumption`). The counterpart of this, that `Ack`
and the goroutine then wait for each other, is `monger_ends`.

**FileTransfer.** A channel in `Downloading` belongs to a download of that file (`DownloadingInv`), an
entry of `RequestReplyChMap` to the one request that waits under its key (`RegisteredInv`), whatever was
resent meanwhile. What a handler has collected are chunks of its file, and it closes when there are as
many as the file has, which never happens to a file with a repeated chunk (`AllPieces`); what is
assembled from them is the file, and it is what stands under its name after `Write` if no other file was
asked for under that name (`WriteInv`), also where downloads share chunks or files (`HandlerOK`). That
sharers kill nobody takes more: a sharer has all chunks of what it offers and answers in full
(`SharersInv`, `StoreInv`), and a download that shares its file with no other feeds a channel of its
own, which is open until its last chunk is in (`OnceInv`).

**Routing.** Messages of one origin reach a router in any order, so next hops need not descend in
anything that is stored. What is well-founded is the spreading of one message: it goes along a tree,
or, said without one, no set of gossipers has it only from among themselves (`TreeInv`). Where nobody
lags behind its log, a circle of next hops would be such a set for the oldest message in it. The same
gives `SettledDelivers`: the gossipers ahead of a packet (`Ahead`) become fewer at every hop, and are no
more than its hop limit allows.

**Search.** The shares of a budget are at least one, because no more peers are chosen than the budget
has units (`Shares`). What a gossiper has listed it goes on listing (`StillListed`), so every result
on its way was listed by somebody who has indexed the file, with all its chunks, or by a downloader
(`ResultsInv`); the same holds of every hash in `Target`, where for a downloader the name is in
`fileRecord` too (`TargetInv`). Who finds no place was therefore misled by a downloader. The search's
channel lives from `ReplaceCh` to `ClearCh`, the goroutine that reads it from `Search` to its
success, and the listen loop holds a reply only for that channel (`LoopInv`).

The budgets on their way are a fold over the set of requests. That the recursion behind it defines
something, and that it grows by what an element adds, whichever the fold chooses first, is proved from
the least counterexample (`SumExists`, `SumOf`); that the shares of a budget add up to no more than the
budget is the division algorithm (`SplitIsWithin`). A gossiper keeps one unit for what it serves, so
`BudgetInv` is inductive. For repeated requests, `Branch(d, p)` is whoever p is joined with around d.
Where peers are linked in no circle, a branch hangs by one link (`BranchHangsByOne`: the least set of
gossipers that joins two links would be one) and the branches around a gossiper have nobody in common.
So the branches of the requests in flight are apart, and nobody in them has been served (`RepeatInv`):
forgetting a request early does no harm.

### Only model-checked

- Liveness (`Delivered`, `FinishesUnlessBroken`, `UndisturbedDownloadsEnd`, `EveryPacketEnds`): outside
  the prover's reach.
- Of `NobodyStalls`, that `Standstill` is `~ENABLED Proceed`; the rest of it is `StandstillIsTheEnd`.
- The model's helpers that recurse over data are used through facts that need no induction, such as
  the least counterexample (`RoutingProofs`, `FileProofs` and `SearchProofs` take it from the
  well-foundedness of the naturals).

## 6. Not modelled

- An election with N other than the number of gossipers (1, the flag's default, makes a round wait for
  ever): a wrong command line. The clock with four gossipers or more up: beyond TLC.
- The capacities of `TLCAckCh` (100) and `ConfirmedMessageCh` (1000): as many messages would have to
  wait.
- Disk errors, with which `CreateIndexFile` keeps the file's mutex; the write of a file found by a
  search (a download's write is in `FileTransfer`).
- Two searches at once, and keywords that match some files only.
- Simple mode: a flood without memory, nothing to go wrong but its never ending on a cycle.
- Sockets, encoding, hashing, the client program, the GUI's JavaScript and JSON, start-up: pure input
  and output, or the models' constants. `webApp` and `peer` are older copies that nothing starts, QSC
  is unfinished, `GetCastBallots` is never called, `TerminateElection` is empty.
- Crashes and restarts: nothing is persisted and nothing recovers; a restarted gossiper begins with
  empty buffers and its messages are refused as old, which the code does not handle at all.

## 7. Plan

Done: gossip, the chain alone and beside another election, the clock, the waiting (locks, mongering),
file transfer, search, routing, each with its runs, and the proofs of section 5. Every safety invariant
of a passing run is a theorem, but for the `ENABLED` above. What would come next needs other tools or more of
the code: liveness proofs, and the hazards that `PROJECT.json` lists with a note instead of a property.
