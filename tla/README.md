# Verification of the limit order book

TLA+ models of the limit order book in `src/`, the TLC configurations that check
them on small instances, and TLAPS proofs about the matching core, the queues, the
partitioned engine, the journal, the processes around them and the latency
histogram.

## 1. The system and its parts

The repository holds one sequential matching core and three programs around it.

**The core.** `OrderBook` keeps two maps from price to a list of orders, an index
from order id to place, and a cached total per level. `RiskManager` tests an
order against limits and a kill switch. `MatchingEngine::processOrder` validates
an order (static checks, duplicate id, risk, post-only, fill-or-kill), then
matches it against the opposite side one resting order at a time, rests or
discards what is left, and returns trades and an `ExecutionReport`;
`MatchingEngine::cancel` removes an order. The core has no lock: each engine has
one writer.

**Three processes over shared memory.** `feed_handler` pushes commands into a ring
buffer (`SPSCQueue`), `matching_engine_main` pops them, appends each to a journal
if asked to, applies it and pushes trades and a report into two more ring
buffers, and `market_viewer` drains these. The engine creates the file they all
map, and flags in its header start and end the session. After a restart
`--recover` replays the journal; `journal_replay_main` inspects one, and
`cleanup_shared_memory` removes the file.

**The partitioned engine.** `PartitionedMatchingEngine` gives every shard a bounded
blocking queue (`MPMCQueue`), one owner thread and the books of its symbols.
Clients enqueue, submit (with a future), cancel, wait until idle and shut down.
`partitioned_matching_main` is such a client, with several producers, that checks
the statistics at the end.

**The shared-worker program.** `mpmc_matching_main` has one queue for all workers
and a `ShardedMatchingEngine` with a mutex per shard; it is kept for comparison.

`TradeLog` (recent trades per symbol) serves the last two, `AtomicLatencyHistogram`
serves the partitioned engine. `PROJECT.json` lists every component with its
source files, and the hazards of each at their lines.

## 2. Modules

| Module | Models | State and actions |
|---|---|---|
| `Orders` | `order.hpp` | the record `Order`; enum values outside the enum are `INVALID` |
| `OrderBook` | `order_book.*` | `levels`, `locations`; `addOrder`, `cancelOrder`, `reduceFront`; queries as operators |
| `RiskManager` | `risk_manager.*` | `limits`, `kill_switch`; `validate`, `setLimits`, `setKillSwitch` |
| `MatchingEngine` | `matching_engine.*` | the core composed: `ProcessOrder` (decision), `MatchStep` (one iteration of the loop), `FinishOrder` (remainder and report), `Cancel`, `SetLimits`, `SetKillSwitch` |
| `PriceTimePriority` | what the core promises | abstract: a *set* of resting orders; `Admit`, `Refuse`, `Fill`, `Close`, `Withdraw` |
| `MatchingEngineAudit` | an observer of the core | a ledger per order built from trades and reports only |
| `MPMCQueue` | `mpmc_queue.hpp` | the queue record; critical sections and notifications as operators |
| `QueueClients` | threads using one queue | `Push`, `Pop`, `Close`, `Notify`, `Wakeup` (spurious) |
| `TradeLog` | `trade_log.hpp` | `record`, `recent` |
| `PartitionedEngine` | `partitioned_engine.hpp` | one action per atomic access of clients, owners and constructor |
| `PartitionedDemo` | `partitioned_matching_main.cpp` | the engine composed with the demo's producers and main thread, or with any program |
| `ShardedPipeline` | `mpmc_matching_main.cpp`, `sharded_engine.hpp` | producers, workers, main; a mutex and a map of engines per shard, the counters, the summary |
| `JournaledEngine` | `journal.*`, the engine's main loop, `journal_replay_main.cpp` | file and disk contents, the process; start, write, sync, apply, publish, exit, crash, power loss |
| `EngineProcess` | `shared_memory.*`, start of the engine and the feed, `cleanup_shared_memory.cpp` | extends `JournaledEngine` with the region files: remove, create, size, construct, READY; open, handshake, push; deaths and restarts of both processes |
| `BoundedFifo` | what a ring buffer promises | abstract: a sequence; push, pop |
| `SPSCQueue` | `spsc_queue.hpp` | wrapping counters, slots, stale views of the other side |
| `SharedMemoryPipeline` | the three processes, `shared_types.hpp` | header flags, counters and best prices, three queues; feed with orders and cancels, engine, viewer with its book line, signal |
| `LatencyHistogram` | `latency_histogram.hpp` | one action per atomic access of `record` and of a `snapshot` that runs meanwhile |

`MC*` modules and `.cfg` files give the instances, `*Proofs` modules hold the proofs
about the module they are named after; `EngineProcessProofs` covers `JournaledEngine`
too, `MatchingEngineProofs` covers `OrderBook`, and `PartitionedEngineInvariant` is the
first half of the proofs about `PartitionedEngine`. Operators commented "Seeded fault"
are plausible bugs: each property has one that breaks it (`mutants` in `PROJECT.json`),
which shows that the property depends on the code it is about. No specification uses
them.

How the modules fit together: `MatchingEngine` extends `RiskManager`, `OrderBook`
and `Orders`, so the interplay of checks, loop and book is explored as one system.
`QueueClients`, `PartitionedEngine` and `ShardedPipeline` all use the operators of
`MPMCQueue`. `SPSCQueue` is shown to implement `BoundedFifo`, and
`SharedMemoryPipeline` uses bounded FIFOs that may look empty or full for a while
longer than they are, which is what a stale counter amounts to. `EngineProcess`
puts the journaled engine behind the queues of regions that come and go, and is
proved to implement `JournaledEngine`, whose queue may deliver anything.
The concurrent modules do not contain books: a command is a number and an engine
the sequence of commands applied, because the core is deterministic and each
property there is about which commands are applied, in which order and how often.

### Abstractions

* Prices and quantities are small naturals. `MaxPrice` bounds the price type.
  Quantities are not given a width: `OrderBook` uses 64-bit totals of 32-bit
  quantities and the engine only ever subtracts a minimum.
* `std::list` iterators in the index become the side and price of the order; its
  position in the list is looked up by id, and `IndexAgrees` says that exactly
  one list element has that id.
* A matching call is split at its loop iterations although no other thread sees
  the book then; that makes the loop's intermediate states states of the model.
* A mutex-protected section is one step. A notification sent after unlocking is
  a step of its own, and a waiting thread may wake without one.
* Release/acquire pairs are modelled by their effect: a reader may see any value of a counter
  between the one it saw last and the newest one, and what was
  written before that value was stored. Plain slot accesses are steps of their own.
* Every start of the engine process chooses between buffered and synced
  journalling. After a power loss the journal owes the commands reported in
  synced mode or before an orderly exit, after a crash all that were reported.
* A journal file is its whole records and whether a part of another follows.
  Magic, version, type and CRC tell exactly these apart as long as the medium
  does not corrupt data. A power loss keeps any prefix of what was not synced.
* A region file is the set of stages its initialisation has gone through. A
  process that has mapped a file keeps it when the path is unlinked or leads to
  another one.
* In `SharedMemoryPipeline` a best price is the number of commands it accounts
  for, and `view` is how old a value the viewer may still load, since it has
  popped what it has popped.
* Under a shard's mutex a worker of `ShardedPipeline` reads the map of engines and
  writes it back in another step, so that a second writer would show.
* The atomic accesses of `LatencyHistogram` take effect in program order, which is
  what the x86-64 build gives; the C++ standard promises less for relaxed ones.
  One of the four percentiles of a snapshot is followed, whichever it is.
* Ranks of percentiles are exact integers; the code computes them in floating
  point.

## 3. Runs

| Run | Asks | Bounds |
|---|---|---|
| `engine_kinds` | Do all kinds of order keep their semantics, and does the core, reports and trades included, implement price-time priority? | 3 ids, 2 prices, quantities 1-2, every type, time in force and flag, one order failing each static check; 3 events |
| `engine_histories` | Do lists, index, totals, preflight and depth feed agree, is every unit accounted for, does the loop progress, and does the cap on active orders hold though it is tested before the loop and limits change? | 4 ids, 2 prices, quantities 1-3, loose and tight limits; 4 events |
| `queue` | FIFO, bounded, no lost wakeup; does every sleeper get on? | 3 threads, capacity 2, 3 items, all operations |
| `partitioned_calls` | Exact pending count, honest futures, draining shutdown, meaning of idle; does the demo validate? | the demo with 2 producers, and any program of 2 threads of which one submits and waits, the other pushes without blocking and shuts down; 2 shards, capacity 1, 2 commands |
| `partitioned_progress` | FIFO per shard, gapless trade log; do futures complete and shutdown return, and does a failed constructor end? | a client that submits and one that waits and shuts down, 1 shard, capacity 2, 3 commands of up to 2 trades, log depth 2 |
| `partitioned_idle` | *violated*: does `waitUntilIdle` return once idle? | the demo with 1 producer and 1 order |
| `sharded` | No order lost or run twice, a final and exact summary, termination | 3 producers, 2 workers, 2 symbols in one shard, capacity 1, log depth 1 |
| `journal` | Write-ahead, contiguous ordinals, durability of reports; is a region that is READY complete, and are orders first seen in the order they were sent? | 3 commands, 2 orders per feed, 3 region files; any number of crashes, power losses and restarts, either durability mode at each start |
| `journal_refused` | *violated*: does a refused command stay out? | the same |
| `spsc` | No race on a slot, safe stale views, refinement of `BoundedFifo` | capacity 4, counters modulo 8, 2 values |
| `ipc` | Does the viewer see all the engine did, in order; how old are the best prices it prints; is all the feed sends reported; does a signal end engine and viewer? | 2 orders and a cancel, up to 2 trades each, queues of 1, signals, with and without idle exit |
| `latency` | Are minimum, maximum, count and total exact; what may be said of a snapshot taken meanwhile? | 2 recording threads and a reader, 3 records, 4 buckets, latencies at and around bucket bounds |

Outside the core, `TypeOK` of a module is a conjunct of one of its safety
invariants (`Fifo`, `PendingExact`, `NoneLostNoneTwice`, `OrdinalsContiguous`,
`RingSafe`, `LosslessInOrder`, `ExtremesExact`).

### Why these bounds are enough to be interesting

Two prices and quantities of 1 to 3 make every outcome of a fill happen: partial
fill of either side, exact fill, sweep of a level, of two levels, and of the
book. Three ids give two resting orders and a taker, four ids a queue of three
that cancels and partial fills can disturb. The tight limits of
`MCMatchingEngine` refuse some order for each bound of the risk layer. Queues of one or two
fill up at once, so that blocking, refusal and backpressure happen with every
command. Three producers and two workers on one shard make two workers meet at its
mutex while a producer waits for room. Three region files are enough for an engine,
its successor and the one a late feed still has mapped; the number of attempts to
open the file (`MaxAttempts`, 200 in the code) only delays giving up. Three records
are one that has ended, one under way and one that begins during a snapshot.
Two shards distinguish "one queue closed" from "all queues closed".
Counters modulo 8 with capacity 4 wrap around many times in the same run; the
code's modulus 2^64 is also a multiple of its power-of-two capacity. Named bounds
(`MaxSequence`, `MaxCommands`, `MaxItems`, `MaxTrades`, `MaxRecords`,
`MaxRegions`, `Orders`, `OrdersPerProducer`) limit how much input arrives and
nothing else.

Symmetry is used for ids and recording threads, which no specification compares
except for equality, and only in runs without liveness.

### Fairness

* `PartitionedEngine`, `QueueClients`, `ShardedPipeline`: weak fairness of the
  steps of every thread *inside* a call. The operating system runs each thread
  that can run. No thread need ever make another call, and a thread that sleeps
  on a condition variable needs a notification: spurious wakeups are possible
  and never relied upon. A mutex is not fair: a thread that has been woken may
  find the queue full or empty again and go back to sleep, so `SleepersAreWoken`
  says that it wakes as long as there is something to do, not that it succeeds.
* `SharedMemoryPipeline`: weak fairness of each process, and strong fairness of
  the pops that find an item, since a store to an atomic becomes visible after
  a finite time. The viewer is taken to run, as `src/README.md:143` asks:
  without one the bounded lossless queues stop the engine.

## 4. Findings

Two statements of the repository that the code does not keep. Each is a run in
which TLC shows the behaviour.

1. **`waitUntilIdle` can sleep for ever** (`partitioned_idle`). `finishOnePending`
   (`partitioned_engine.hpp:313`) decrements and notifies without `idle_mutex_`.
   When that falls between the test of the waiting thread and its sleep, the
   notification is lost. `docs/partitioned_engine.md:40`: "`waitUntilIdle` waits
   until all accepted queue entries have completed."
2. **A refused command can be applied after all** (`journal_refused`). When
   `fdatasync` fails (`journal.cpp:301`) the record is in the file already, and
   `--recover` replays it. `docs/persistence.md:38`: "If append fails, the command
   is not applied and the engine exits fail-stop."

More behaviours of the models that a user of the code should know. No run
is devoted to them.

* Only the `shutdown` that clears `accepting_` waits for the owners; a second,
  concurrent call returns at `partitioned_engine.hpp:174` at once.
* `ShardedMatchingEngine::submit` records trades after it has released the shard
  lock (`sharded_engine.hpp:83`), so `recent` can return the trades of a symbol in
  another order than they were executed in. `SummaryExact` therefore speaks of
  which trades are in the log and how many; the partitioned engine keeps
  the order (`TradeLogExact`).
* With an idle exit the engine may leave commands in the queue: it finds the
  queue empty, the feed pushes its last commands and sets `producer_done`, and
  the engine reads the flag without looking at the queue again.
* The feed's wait for READY (`feed_handler.cpp:206`) has no bound. A feed that has
  mapped the file of an engine that died before READY waits for ever; the next
  engine creates another file.
* The best bid and ask that the viewer prints may belong to different commands,
  and both may lack the last command it has a report of (`BookLineRecent`).
* The viewer ends on `empty()` (`market_viewer.cpp:145`), which `spsc_queue.hpp:133`
  calls racy and "not for correctness decisions". Here it is safe: `engine_done` is
  read first, and the engine pushes nothing after it has set it.
* `size()` of a queue loads its two counters one after the other. The viewer calls
  it on a queue where both move, so the printed number can wrap below zero.
* A snapshot of the histogram that runs into the first `record` can report
  a count of 1 with the initial minimum (the largest integer) and maximum (0).

## 5. Proofs

TLAPS checks every step of the following theorems for every value of the
constants that satisfies the named assumptions of the modules. These say what
the code says: 0 is not an order id, capacities are positive, the bounds are
natural numbers, inputs and limits have their record types, the modulus of the
ring buffer's counters is a multiple of its capacity and larger.

**The core** (`MatchingEngineProofs`).

| Theorem | States |
|---|---|
| `TypeCorrect` | `TypeOK` always holds |
| `BookConsistent` | `IndexAgrees`: lists and index agree, no empty level is kept |
| `NeverCrossed` | `NotCrossed`: no bid at or above an ask, also between two fills |
| `TimePriority` | `ArrivalOrder`: each level is in order of arrival |
| `AssertHolds` | `RemainderInsertable`: the assert of `matching_engine.cpp:120` cannot fail |
| `TwoParties` | `NoSelfTrade`: no trade of an order with itself |
| `PostOnlyRests` | `PostOnlyNeverTakes`: an accepted post-only order never trades |
| `LoopTerminates` | `FillsProgress`: every iteration leaves less of the order |
| `NotionalExact` | the division in `risk_manager.cpp:20` decides exactly `price * quantity > max` |

None of these is inductive alone. That the remainder can be inserted needs that
its id is new, which was tested before the loop; that the book is not crossed after
it rests needs that the loop stopped because it no longer crosses; that it goes to
the back of its level in order needs that its sequence number is the newest. The
inductive invariant `IInv` therefore joins the book's invariants with `CallInv`,
what a call relies on while its loop runs: its order carries the newest sequence
number, its id is used but not in the book, it has passed the static checks, and if
it is post-only it has no trades and does not cross. The first part of the module has
one lemma per book operation (`AddOrderPreserves`, `CancelOrderPreserves`,
`ReduceFrontPreserves`), the second one per action, and `NextIInv` puts them
together.

**The journal and the processes** (`EngineProcessProofs`).

| Theorem | States |
|---|---|
| `WriteAheadHolds` | `WriteAhead`: the engine can be rebuilt from its journal |
| `OrdinalsHold` | `OrdinalsContiguous`: no gap and no repetition over restarts |
| `ReportsHold` | `ReportedSurvive`: what was reported survives crash and power loss |
| `HandshakeHolds` | `HandshakeSound`: a region found READY is complete and stays so |
| `ProcessImplementsJournal` | every behaviour of `EngineProcess` is one of `JournaledEngine` |
| `ProcessKeepsJournal` | hence the three guarantees of the journal hold for the processes |
| `FirstArrivalsHold` | `FirstArrivalsInOrder`: first arrivals come in the feed's order, none is left out |

`JInv` says, for each place of the engine's loop, by how many records the file is
ahead of the engine (`Lag`), that commands increase along file, engine and reports
(`Numbers`), and which reports are in the file and on the disk (`Durable`). For the
refinement, what the engine pops must be newer than all it has popped before: the
queue of its region holds nothing older (`Sent`). `Booting` and `Attached` are
what the two processes know of the region they have mapped.

`FirstArrivalsHold` needs a third invariant, `Arrivals`: in front of every order come all
that the feed numbers lower. This is said of each record of the journal (`Filed`), of the
command in hand (`Held`), of each place in the queue of the engine that serves (`Queued`)
and of what the feed has yet to push there (`Following`). An engine that starts has an empty
queue and no feed (`Empty`), because no feed pushes before READY. What a power loss leaves of
the journal is a prefix, so `Filed` survives it. Hence what came before a first arrival is
exactly `1..(o - 1)`, and after a complete run the first arrivals correspond one to one to
`1..Orders`.

**The ring buffer** (`SPSCQueueProofs`). `RingIsSafe` (`RingSafe`) and `RingIsFifo`
(`ImplementsFifo`, the refinement of `BoundedFifo`), for every capacity and modulus.
`RingInv` counts from the value of `tail_` the producer saw last: `tail_`, the value of
`head_` the consumer saw last and `head_` follow it in this order, and `head_` by at
most the capacity. Hence the differences the code computes modulo 2^w never wrap
into one another, and different positions between `tail_` and `head_` have different
slots.

**The blocking queue** (`QueueClientsProofs`). `QueueIsFifo` (`Fifo`) and
`WakeupsNotLost` (`NoLostWakeup`), for every finite set of threads and every
capacity. `QueueInv` adds to the two that whoever sleeps on a condition variable
is inside a call that waits for it (`Engaged`). Each step then changes the number of
items, or of free slots, by as much as the number of threads that will look after
them; the rest is arithmetic of cardinalities.

**The partitioned engine** (`PartitionedEngineProofs` over
`PartitionedEngineInvariant`), for every set of clients and symbols, every number of shards and commands, every capacity, and whatever calls the
clients make and in whatever order the threads run.

| Theorem | States |
|---|---|
| `PendingIsExact` | `PendingExact`: `pending_` counts the commands on their way, no more and no fewer |
| `ShardsAreFifo` | `ShardFifo`: a shard applies what entered its queue, in that order, each command once |
| `FuturesAreHonest` | `FuturesHonest`: "shutting down" never got into a queue, a result was applied, no promise is set twice |
| `ShutdownDrainsAll` | `ShutdownDrains`: when `shutdown` is about to return, all that entered is applied and answered |
| `IdleMeansAllDone` | `IdleMeansDone`: when `waitUntilIdle` returns, what had been submitted before is done |
| `TradeLogIsExact` | `TradeLogExact`: the log has the latest trades, oldest first, without a gap |

`EngineInv` follows a command. Its id is new and belongs to one client until the
command enters a shard, at a place of its own (`Unique`). What a shard has taken in
is what it has applied, what its owner has in hand and what waits (`Order`), and the
engine of a symbol has applied what belongs to it (`Projected`). How far a command has
got decides what its promise may hold (`Promises`). What was returned to a client as
accepted has entered (`Kept`), and an owner exits only from a closed and empty queue
(`Stopping`). "On their way" is a set, and `pending_` is its size: `1..pending_`
numbers it (`Counted`). A step that adds a command to the set or takes one away
changes the numbering by one (`NumberMore`, `NumberLess`), once it is shown that the
command was not there before, or is there only once (`Unshared`, `Alone`): this is
where `PendingExact` needs `Unique` and `Order`. Most steps move no command, and the
frame lemmas (`QuietClient`, `QuietShards`) say once what these keep. There is one lemma
per action, `NextInv` puts them together, and the theorems read off what the invariant
says when nothing is on its way, or when the owners are gone. `FuturesAreHonest` needs
one more invariant, `Answered`: what is completed as executed has entered.
`PartitionedEngineInvariant` has the invariant, the steps of the clients and those that
move no command, and what the invariant says of a state; `PartitionedEngineProofs` has
the steps of an owner that move a command, and the theorems.

**Three processes** (`SharedMemoryPipelineProofs`). `NothingLost`
(`LosslessInOrder`), `LineIsRecent` (`BookLineRecent`) and `CancelsFollowOrders`: the
feed cancels only what it has sent, and its unsigned subtraction
(`feed_handler.cpp:244`) never wraps. `PipeInv` adds how far the header's counter may lag
behind the reports (`Accounted`), and that what the viewer has found empty after
`engine_done` stays empty (`Leaving`).

**The histogram** (`LatencyHistogramProofs`). `ExtremesNeverLost`
(`ExtremesHeld`, a conjunct of `ExtremesExact`). `ExtremesInv` says that a latency not
yet covered by an extreme belongs to a call that has yet to move it, and that
what a thread last read of an extreme is never ahead of it, so that a call that finds
nothing to do is right even with an old value.

**Only model-checked.** What rests on sums over lists or sets (`DepthFeedExact`,
`PreflightExact`, `FokFillsCompletely`, `QuantityConserved`, `NoneLostNoneTwice`,
`SummaryExact`, count, total and percentiles of the histogram), which needs induction over
data; `ActiveOrdersCapped` and the refinement of `PriceTimePriority`, which rest on what
the preflight sums up; all liveness properties, which need fairness; and `DemoPasses`,
which counts the demo's orders. No theorem is about the shared-worker engine.

## 6. What is not modelled

* The order generators (`feed_handler.cpp:97-181`, `generateOrder` of the two
  multi-threaded programs) and the CSV reader: sequential code that turns random
  numbers or text into orders. The models take any order of their input sets instead.
* Heartbeats, pacing, queue sizes that are printed, argument parsing, printing,
  timestamps, benchmarks, the fuzz driver: no state other parts depend on.
* `ShardedMatchingEngine::cancel`, which no program calls.
* Moving `EventJournal` and `SharedMemoryRegion` objects, and errors of single system
  calls on the region file other than that it is not there or has the wrong size.
* Bytes of a journal record: encoding and CRC. A medium that corrupts data is
  outside the model.
* A change of risk limits between writing and replaying a journal:
  `docs/persistence.md` makes equal limits the duty of the operator.
* A command popped from shared memory and not yet journalled when the process
  dies is lost without a report; nothing in the repository promises otherwise.
* Two engines, or two feeds, at the same time on one path: `EngineProcess` has
  one of each, as the ring buffers demand.

## 7. Plan

Done, in this order: book and risk layer; engine, abstract market, refinement,
auditor; proofs about the core; blocking queue; partitioned engine; shared workers;
journal; ring buffer and its refinement; processes over shared memory; histogram.
Then: region files with deaths and restarts, and the journal inside them; cancels
and best prices in the pipeline; the demo program; shards with mutex and map; snapshots
taken while others record; proofs about journal, processes, both queues, pipeline,
histogram and the partitioned engine.

Still open:

1. The refinement of `PriceTimePriority` as a theorem, except for the all-or-nothing test.
2. Proofs about the shared-worker program (`NoneLostNoneTwice`).
