# Order matching gateway: TLA+ specifications

These modules model the order matching gateway of this repository, TLC checks
them on small instances, and TLAPS proves most of the safety properties for every
value of the constants. Paths below are relative to the repository root; `PROJECT.json`
maps every definition to the lines it models and lists the runs, their mutants,
the hazards, the findings and the theorems.

## 1. The system

```
 clients --TCP--> network thread ---- inbound queue ----> matching thread --> WAL, snapshots
                  TcpServer::run <--- egress queues ----- MatchingThread      (disk)
                                 <--- market data queues-     |
                                                         OrderBook, MatchingEngine
```

One network thread owns the sockets, the sessions and the byte buffers. One
matching thread owns the book. They share nothing but single-producer
single-consumer rings, two wake-up channels (`Waiter` towards the matching
thread, `Notifier` towards the network thread) and one overflow latch per
session. The matching thread writes each command to a write-ahead log before it
applies it, and a snapshot of the book from time to time; a start with
`--recover` reads both. `tools/wal_verify.cpp` replays a log through a second,
simpler implementation of matching.

| Part | Source | State | Changed by |
|---|---|---|---|
| Ring queue | `include/spsc_queue.h` | slots, head, tail | push, pop |
| Waiter | `include/ome/waiter.hpp`, `matching_thread.hpp` run/stop | parked flag, pipe | signal, wait, stop |
| Notifier | `include/ome/notifier.hpp`, `tcp_server.cpp` run | pending flag, pipe | notify, drain |
| Order book | `src/order_book.cpp` | two sides, id index, totals | add, cancel, cross, market |
| Matching engine | `src/matching_engine.cpp` | trade log | processOrder |
| Matching thread | `include/ome/matching_thread.hpp` | ownership maps, book, sequence numbers | one handler per command |
| Sessions, connections | `src/net/tcp_server.cpp`, `session.hpp`, `egress.hpp` | connection table, live ids, queues | accept, dispatch, deliver, close |
| Framing, buffers, limits | `frame_reader.hpp`, `write_buffer.hpp`, `token_bucket.hpp` | bytes, positions, tokens, timers | each turn of the loop |
| Market data | `book_snapshot.hpp`, publish_book, drain_market_data | bounded queue per subscriber | publish, drain |
| Log and snapshots | `wal.hpp`, `snapshot.hpp`, `gateway_main.cpp` | files | append, sync, snapshot, truncate, start |
| Verifier | `tools/wal_verify.cpp` | SimpleBook | apply |
| LOBSTER replay | `src/lobster_*.cpp` | a book, the files | one message of each type, seed, compare |

Not modelled, with the reason: field encoding (pure), the risk file (read once
before the threads start, its limits are constants), simulators, analysis
scripts, benchmarks, viewers, clients and the demonstration program (no state of
the gateway), the kill test (it samples what `Recovery` explores).

## 2. Modules

| Module | Models | Notes on the correspondence |
|---|---|---|
| `BoundedFifo` | what a queue promises | abstract specification |
| `SpscQueue` | the ring | one step per load and store; each side's view of the other index may lag |
| `Waiter` | parking of the matching thread | both memory models: `tso` is the x86-64 build. The relaxed store of `stop()` may be seen late on either |
| `Notifier` | waking of the network thread | the same two, as `store_buffer` |
| `OrderBook` | `OrderBook` as operators on a book | all operations, the two of LOBSTER included |
| `MatchingEngine` | `processOrder` | one step per turn of its loops |
| `ProcessOrder` | `processOrder` as one operator | the same turns, run to the end; for the modules where nobody looks in between |
| `MatchingThread` | `apply` and all below it | one step per command: one thread owns the state. A key of `by_client_id_` is the set of pairs packed into it; `colliding`, chosen at the start, says whether ids of two sessions share keys. NewOrder comes with any id, that of a live order included. The ghost `clashed` says that a command has found the order of another one under its key |
| `WalVerify` | the verifier beside the matching thread | both get the same commands |
| `SessionLifecycle` | accept, dispatch, deliver, close, tombstones | both threads and the queues between them; `append_fails` is a command the log refuses. Keys are exact here, collisions are in `MatchingThread` |
| `MarketData` | publication and conflation | the book is the number of its moves; `unpublished` counts those of refused Modifies since the last publication |
| `Recovery` | log, snapshots, faults and starts | the book is the sequence of applied commands |
| `Connection` | one connection as two byte streams | one step per recv() or send(), frame or event of a turn of the event loop |
| `Lobster` | parser, converter, validator and replay | the exchange that writes the files is external: a queue of orders with one message and one orderbook row per event |

The cut between modules follows what one thread does without being observed.
Where a module replaces a part by an abstraction, another checks it: rings are
FIFOs everywhere because `SpscQueue` implements `BoundedFifo`; `Recovery` may
treat the book as the sequence of its commands because `MatchingThread` checks
that a snapshot brings the state back (`SnapshotRoundTrip`) and that replay
gives what live traffic gave (`ReplayFollows`), but for which of two live orders
under one key is indexed after a restart; `SessionLifecycle` leaves open which
orders meet because `MatchingEngine` settles it.

## 3. Runs

Every run is `tlc -config <cfg> <module>`; each finishes within minutes.

| Run | Properties | Bounds, and why they suffice |
|---|---|---|
| `spsc_queue` | NoSlotRace, ImplementsFifo | 3 elements: full, empty and wrap-around all occur at every offset |
| `waiter` | NoMissedWakeup, NothingStranded, EventuallyServed | queue of 3, pipe of 2 read by 2: the pipe fills, signals coalesce |
| `notifier` | ChannelAlive, NoStall, EventuallySent | 3 events: a batch can straddle a drain |
| `engine` | UncrossedWhenIdle, IndexesExact, Conserved, PriceTimePriority, EveryOrderEnds | 4 orders at 2 prices with quantities 1 and 2: an order sweeps two levels, two orders share one, a fill is partial on either side. IndexesExact includes that both sides are in price order |
| `thread` | OwnershipExact, SnapshotRoundTrip, EventsInOrder, FillsAccount, ReplayFollows, BookMovesArePublished, IdsFollowOrders, VerifierFollows | 2 sessions, 2 ids, 3 orders (2 while there is a subscriber, whom only the publication concerns), a price out of the band and a quantity over the limit, depth 1 so that a move can be out of sight. With 2 by 2 ids `key_of` is exact: if two pairs share a key, so do the other two |
| `lifecycle` | FreedIsForgotten, TombstoneArrives, UniqueLive, RetiringEnds, Answered | 2 sessions, all queues of 2, 3 messages: both kinds of queue overflow, a client pipelines, and one session is closed while the other trades with it |
| `market_data` | StaleOnlyAfterDrop, NeverBackwards, CatchesUp | queue of 2, 6 moves: it overflows before, during and after a drain |
| `recovery` | NeverAhead, PrevSuffices, NeverRefused, RecoversWhatWasLogged, RecoversWhatIsDurable | 6 commands, a snapshot every 2, up to 3 faults of 8 kinds: three snapshots, so that `.prev` is replaced while it matters |
| `connection` | FramesExact, StreamExact, RateBounded, OnlySilenceTimesOut | 2 inputs, frames of 2 and 3 bytes cut anywhere, buffers a byte larger than a message, 3 ticks |
| `lobster` | ReplayIndexes, ReplayMatches | 2 orders from before the file, 3 at a time, 4 rows of every type, quantities 1 and 3 with a level limit of 4, depth 1: an execution spans orders, a seed can be refused, and a level can be out of the snapshot's sight |
| `recovery_torn` | KilledLosesNothing (violated) | section 6 |
| `wal_verify_stale` | DigestsMatch (violated) | section 6 |

What they show, in a sentence each:

- The ring never lets both sides touch a slot and loses, duplicates and reorders
  nothing, although each side may read an old value of the other's index.
- Without store buffering neither thread ever sleeps on a command or an event
  nobody will announce; with it, and for the flag of `stop()` on either build, the
  bounded `poll()` is what makes progress. Everything submitted before `stop()` is
  applied.
- The book's levels, totals and index agree in every turn of the loops, quantity
  is conserved between what was ordered, filled and rests, trades respect
  priority and limits, the loops end.
- The maps of the matching thread, the book and the events stay in agreement over
  every command, also where two orders share a key; a snapshot and a replay
  reproduce the state. As long as no command has clashed with an order, every live
  order is found by its id, the events close exactly the ids whose orders are gone
  (but for the rest of a market order), and the verifier gets the same book and
  digest.
- A Connection is freed only when the matching thread holds no pointer to its
  queues, its tombstone comes, every message is answered, except in the cases of
  a full queue or a failed append that the properties name (section 6).
- Market data never goes backwards; a subscriber that has drained its queue has the
  book of the last publication unless that found the queue full, and misses since
  then only what refused Modifies took away.
- After any crash of the process a start finds exactly the logged commands, from
  either snapshot, at every step of writing one.
- However bytes are cut, each frame is dispatched once, in order and in the turn
  that completes it; each reply is sent whole and in order, and nothing of the
  order flow follows a message that was refused; over no interval does the rate
  limiter admit more than the burst and what accrued; a client that speaks in
  time is not timed out.
- The LOBSTER replay keeps its book consistent, its verdict is right, and its book
  is the exchange's at every depth until one of five things happens that it cannot
  see or takes for another (`Unseen` names them; leaving out any of the five breaks
  the property). Most partial cancels are among them (section 6).

Deadlock is checked for the ring, the engine and the notifier. The other
specifications may stop: bounds on commands, faults, messages or time run out,
or the system has been stopped.

Symmetry of sessions and client ids is used in `thread`, which checks no
liveness. `VerifyView` leaves out of a state's identity what only the action
properties read, the command just applied and its events, and the verifier's book
once it is no longer followed.

## 4. Fairness

| Specification | Assumed | Why the code justifies it |
|---|---|---|
| `Waiter` | weak fairness of signal(), of the consumer, of stores becoming visible and of the `poll()` timeout | threads run; stores become visible; `poll()` is given a timeout. Submitting and calling stop() are not assumed |
| `Notifier` | weak fairness of a batch that began, of the network loop, of the flush; of the `poll()` timeout only on the build with store buffering | the same |
| `MatchingEngine` | the loops go on | processOrder runs to its end; new orders are not assumed |
| `SessionLifecycle` | weak fairness per thread: `MatchingWork` (apply, emit) and `NetworkWork` (drain, pop, close what is marked) | a queue that is not empty wakes its thread, and what is marked is closed before the next poll. What clients do is not assumed; they send at most MaxSent messages, so no session can keep the network thread from another for ever |
| `MarketData` | applying a Subscribe, draining | both loops go on |

## 5. Proofs

`tlapm <module>Proofs.tla` checks them; each takes minutes. No theorem uses a
bound of a run. The assumptions, named beside the constants, are that capacities,
sizes of headers, messages and reads and the group commit are positive, that
prices are integers, quantities and session ids positive naturals, rates, bursts,
intervals and the snapshot interval naturals, and that the delay between two
turns of the event loop is below the session timeout. `SessionLifecycleProofs`
and `ClientIdProofs` assume nothing of the capacities.

| Module | Theorems | Inductive invariant, and why it is needed |
|---|---|---|
| `QueueProofs`, of `SpscQueue` | TypeCorrect, RaceFree, Refinement | `RingInv`: producer's view of tail, tail, consumer's view of head, head lie in this order on the ring. NoSlotRace says nothing of stale views, so it does not explain why a check made on one stays valid |
| of `MarketData` | StaleOnlyByTheLastDrop, ClientNeverBackwards | `MarketInv`: client, snapshot in hand and queue are in order of publication, and the newest of them shows the book as it was `unpublished` moves ago unless the last publication was refused |
| of `Notifier` | NotifierTypeCorrect, NeverDead, NothingSleptOn | `TokenInv`: pending raised means a byte, a writer about to write it or a clear under way; `BlockedInv` for what came after the last check |
| of `Waiter` | WaiterTypeCorrect, SweepComplete, WakeupNotMissed | `StopInv`: stop()'s store is behind every push, and the loop is left only on seeing it; `ParkInv`: without store buffering parked_ is up from parking to waking, and a command that arrives after the check that follows is announced |
| `ConnectionProofs` | FramesKept, StreamKept, RateKept, SilenceOnly | `InputInv` and `ReaderInv`; `StreamInv`; `RateInv`; `SilenceInv`: see below |
| `BookProofs` | lemmas only | what insertion, removal and a fill do to a sorted side and to its front, and `IInv` of the engine: inside the cross loop the book may be crossed; `OnlyOneCrosses` says that only the incoming order can cross and that it is alone in the front level of its side, so when it is used up the book is apart. Then what they do to the levels' totals and time order and to the set of resting orders |
| `MatchingEngineProofs` | TypeCorrect, AlwaysSorted, NeverLeftCrossed, IndexesStayExact, NothingCreatedOrLost, PriorityKept | `Account`: `BookExact` (totals are sums, time order, order_loc_), every resting order is what was placed under its id less what was filled, and the local `remaining` is what is left of the incoming order. That a cross always trades the incoming order, so that `remaining` and the book move together, comes from `IInv` |
| `SessionLifecycleProofs` | LifecycleInvariant, FreedForgotten, TombstoneOnTheWay | `SessionInv`: CancelAll is the last command of a session and Retired its last event; once Retired exists nothing of the session is in inbound, in the maps or, after it has been pushed, among the events to push. `Announced`: a session the matching thread has not retired is registered or its SessionOpened is queued, in front of its CancelAll, without which an applied CancelAll might make no tombstone |
| `ClientIdProofs` | LiveOrdersUnique | `Ledger`, per session: an id has one holder, which is the order, the New on its way to place it or the event on its way that gives it back; live_orders_ has every id that is held; a client that waits for its answers is owed one at most, so a Reject that frees an id comes behind the end of its order. UniqueLive relates two maps of two threads that never see each other: what binds them is in flight |
| `RecoveryProofs` (lemmas), `DurabilityProofs` | BookNeverAhead, NeverRefusesItsOwnLog, PrevAlwaysSuffices, ProcessCrashLosesNothing, DurableIsRecovered | `Sane` and `FilesInv` always; `AInv` while nothing has torn or cut the log; `BInv` while no snapshot was damaged: see below |

**Connection.** `FramesExact` speaks of the bytes held; for the next frame it must
be known that the stream is the frames laid end to end (`InputInv`), that the
reader's position and the bytes taken stand at the same place, and when a complete
frame may be waiting (`ReaderInv`). `StreamExact` says nothing of a connection
about to close, yet such a one may still send: `StreamInv` keeps what is unsent in
line with what was sent (`GoesOn`) wherever a send can follow (`Sends`), whether or
not a message was refused. `RateBounded` is not inductive because tokens are
refilled lazily: `Spare` adds the tokens the bucket would hold now to what was
admitted, for every start of an interval. `SilenceInv` bounds how much older the
arrival known to the timers can be than the client's last byte.

**Recovery.** A start from a file f and the readable records of the log gives what
f holds and then the records f has not: `Reach` is how far that goes and `Fits`
that it agrees with the history. Under faults of the process a start from either
snapshot reaches the whole history, which needs the numbers: the thread's is never
behind the log's or the snapshots', and a truncation cuts behind both. Under the
other faults a start from the newest snapshot reaches at least what was synced or
snapshotted at the last power failure, as long as the reader gets past it.
`NeverRefused`, `PrevSuffices` and `RecoversWhatWasLogged` are about faults of the
process (crashes, failed snapshots and truncations, stops) before any other;
`NeverAhead` is about all; `RecoversWhatIsDurable` is about all where its two
conditions hold (only the tail is lost, a damaged snapshot comes alone), and
section 6 says what happens where they do not.

**Sessions.** Steps of the network thread are proved together: `NetStep` says what
a visit to a connection may do to it and to inbound, it is closed under composition
(`NetTrans`), every helper is one, and `NetPreserves` shows once that it keeps the
invariant. `Works` does the same for the commands of the matching thread.

**Refinement** shows that the ring implements `BoundedFifo` under a mapping from
slots to a sequence.

**Induction over data** is out of the provers' reach as a rule with an operator for
a parameter. Where a fact about a recursive function is needed (a level's total is
the sum of its orders; where read_wal stops), the lemmas assume `WellOrdered`, that
every nonempty set of naturals has a least element, and argue from the least
counterexample. It is discharged from the library's theorem on the order of the
naturals at the end of `MatchingEngineProofs` and of `DurabilityProofs`, so no listed
theorem assumes it.

Only model-checked, and why:

- liveness (EventuallyServed, EventuallySent, EveryOrderEnds, RetiringEnds,
  Answered, CatchesUp) and everything that needs ENABLED;
- the properties of `MatchingThread`, `WalVerify` and `Lobster` (OwnershipExact,
  SnapshotRoundTrip, EventsInOrder, FillsAccount, ReplayFollows,
  BookMovesArePublished, IdsFollowOrders, VerifierFollows, ReplayIndexes,
  ReplayMatches): these modules run a loop of the program, matching among them, to
  its end in one step, as a RECURSIVE operator, of which nothing can be proved for
  every input here. `MatchingEngine` has the same loops one turn at a time, and
  about it the theorems are.

## 6. Where code and text disagree

Two runs end in a counterexample to what a comment says.

- `recovery_torn`: `wal.hpp` reopens the log with O_APPEND and leaves the torn
  bytes that `read_wal` stopped at (`wal.hpp:219`). What the next process appends
  is behind them, and the start after that does not see it. `wal.hpp:56-58`:
  "a process crash (kill -9, segfault) loses NOTHING".
- `wal_verify_stale`: the verifier's market order loop pops a filled order and
  then cancels it (`wal_verify.cpp:260`); cancel finds nothing and leaves the id
  in `loc_`. A Modify of that id is rejected by the engine and placed by the
  verifier. `wal_verify.cpp:26`: "The digest MUST match".

Further cases met while modelling. Each is a behaviour of the model, and where it
bears on a property that passes, the property's definition names it as an
exception:

| Case | Code | Text |
|---|---|---|
| x86-64: the push may be buffered when parked_ is loaded; the timeout repairs it | `waiter.hpp:106` | `waiter.hpp:103` |
| either build: the relaxed store of stop() may be seen after the load of parked_, and the thread ends only at the timeout | `matching_thread.hpp:87` | `matching_thread.hpp:88` |
| x86-64: the same for pending_ before the loop looks at the queues | `tcp_server.cpp:157` | `tcp_server.cpp:150` |
| a Modify whose second half the risk gate refuses does not publish the book | `matching_thread.hpp:415` | `matching_thread.hpp:517` |
| a Modify always loses priority | `matching_thread.hpp:481` | `docs/PROTOCOL.md:171` |
| the id of a market order with an unfilled remainder stays registered | `matching_thread.hpp:453` | `session.hpp:99` |
| ids of two sessions can be packed into one key; Cancel and Modify do not look at the owner | `matching_thread.hpp:667` | `matching_thread.hpp:663` |
| a full inbound queue at the close frees the Connection at once | `tcp_server.cpp:651` | `tcp_server.cpp:680` |
| a tombstone that finds the egress queue full is lost | `matching_thread.hpp:584` | `egress.hpp:24` |
| the overflow latch keeps a retiring connection from being drained | `tcp_server.cpp:471` | `egress.hpp:26` |
| a refused SessionOpened leaves a session nobody answers | `tcp_server.cpp:289` | `docs/PROTOCOL.md:32` |
| the Reject of a pipelined Cancel frees the id of a live order | `tcp_server.cpp:410` | `session.hpp:102` |
| a full market data queue drops the newest snapshot | `matching_thread.hpp:554` | `book_snapshot.hpp:38` |
| after an append that failed the command is dropped unanswered, a CancelAll and with it the tombstone too, and the thread goes on | `matching_thread.hpp:313` | `matching_thread.hpp:308` |
| after a power failure a snapshot can be ahead of the log, and the start refuses | `gateway_main.cpp:176` | `gateway_main.cpp:160` |
| with both snapshots unreadable a truncated log is replayed from its start | `gateway_main.cpp:148` | `gateway_main.cpp:135` |
| the group commit's loss window adds up over processes | `wal.hpp:368` | `wal.hpp:84` |
| the size of a LOBSTER partial cancel (type 2) is taken for the quantity left, where it is the number of shares deleted | `lobster_validator.cpp:107` | `data/lobster/LOBSTER_SampleFile_*/LOBSTER_SampleFiles_ReadMe.txt:50-61` |
| a refused LOBSTER seed exits with 0 and compares nothing | `lobster_replay.cpp:149` | `data/lobster/README.md:28` |

In `Connection` the timers run before the socket is read, so a message that has
arrived but not been read does not save its session: `OnlySilenceTimesOut`
therefore allows for the time between two turns. A BookUpdate smaller than the
event that found the write buffer full may still be sent before the close.

## 7. What the models leave out

- Integer widths: ids, sequence numbers and products of prices are unbounded; of
  the width of `key_of` what matters is kept, that keys can collide.
- In `Waiter` the loads of the consumer are in order. On AArch64 the relaxed load of
  running_ that ends the loop does not order the final sweep's load of head_, so
  NothingStranded assumes that this build does not take the later load first.
- Timestamps (carried, compared nowhere) and field encodings. A torn or damaged
  log record is one the checksum rejects.
- Directory operations are durable in order. The snapshot's header is taken to be
  as well protected as its body.
- A start without `--recover` over existing files; a log missing beside a
  snapshot; a risk file changed between a run and its replay; session ids, which
  restart at 1 after recovery.
- Socket set-up, running out of descriptors in accept, AfterFlush closes (no
  caller).
- In `Connection` all replies have one size, and one call of handle_writable is one
  step: a socket that takes bytes in several sends takes them in one.
- In `Lobster` the text of the files, `--orderbook-line`, the JSONL output and the
  parser entry points only tests use. A malformed snapshot row, which
  `load_snapshot` skips, is no output of the converter.
- The 64-bit products of the price band (`matching_thread.hpp:385`): TLC's
  integers have 32 bits, and a scaled-down width would only restate the guard.

## 8. What could come next

1. `Connection`: messages of two sizes and a refinement from the byte streams to a
   pair of FIFOs of messages.
2. A start without `--recover` over existing files, and the risk file's validation.
3. `MatchingThread` with the turns of processOrder as steps, so that the six maps
   and the book they follow can be proved to agree as `Account` is.
