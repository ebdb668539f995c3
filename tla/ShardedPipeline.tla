-------------------------- MODULE ShardedPipeline --------------------------
(***************************************************************************)
(* The shared-worker pipeline: apps/mpmc_matching_main.cpp over            *)
(* ShardedMatchingEngine (include/sharded_engine.hpp).  Producers push     *)
(* into one MPMCQueue; any worker pops an order, applies it to the engine  *)
(* of its symbol under the mutex of the symbol's shard and, after it has   *)
(* released that mutex, appends the trades to the shared trade log.  main  *)
(* joins the producers, closes the queue, joins the workers and prints the *)
(* counters, the books and the log.                                        *)
(*                                                                         *)
(* A shard is its mutex and its map from symbols to engines; an engine is  *)
(* the set of orders it has applied and how many trades came of them.      *)
(* Under the mutex a worker reads the map and writes it back in another    *)
(* step: were there two at a time, one of the updates would be lost.       *)
(***************************************************************************)
EXTENDS MPMCQueue, TradeLog, FiniteSets, FiniteSetsExt, Functions, TLC

CONSTANTS Producer, Worker, Symbol,
          ShardOf,     \* the shard a symbol is hashed to
          OrdersPerProducer,
          MaxTrades    \* bound: trades of one order

Shard == Range(ShardOf)

ASSUME PipelineAssumption ==
  /\ OrdersPerProducer \in Nat /\ MaxTrades \in Nat /\ Producer \cap Worker = {}
  /\ DOMAIN ShardOf = Symbol

VARIABLES queue, producer, worker, main,
          id_gen,     \* the next order id
          mutex,      \* who holds the mutex of a shard
          engines,    \* the map of a shard
          trade_log,
          counters,   \* produced, consumed and trades_generated
          summary     \* what main prints at the end

vars == <<queue, producer, worker, main, id_gen, mutex, engines, trade_log, counters, summary>>

total_orders == OrdersPerProducer * Cardinality(Producer)
SymbolOrder == [id : 1..total_orders, symbol : Symbol]
NoOrder == [id |-> 0, symbol |-> CHOOSE s \in Symbol : TRUE]
Engine == [applied : SUBSET (1..total_orders), trade_count : Nat]
NewEngine == [applied |-> {}, trade_count |-> 0]

Producing(at, left, order) == [at |-> at, left |-> left, order |-> order]
Working(at, order, seen, scratch, next) ==
  [at |-> at, order |-> order, seen |-> seen, scratch |-> scratch, next |-> next]

Init ==
  /\ queue = NewQueue
  /\ producer = [p \in Producer |-> Producing("generate", OrdersPerProducer, NoOrder)]
  /\ worker = [w \in Worker |-> Working("pop", NoOrder, << >>, << >>, 1)]
  /\ main = "producers" /\ id_gen = 1
  /\ mutex = [k \in Shard |-> {}] /\ engines = [k \in Shard |-> << >>]
  /\ trade_log = [s \in Symbol |-> << >>]
  /\ counters = [produced |-> 0, consumed |-> 0, trades |-> 0]
  /\ summary = << >>
-----------------------------------------------------------------------------
(* producerThread *)

Generate(p) ==
  /\ producer[p].at = "generate"
  /\ \/ /\ producer[p].left > 0
        /\ \E s \in Symbol :
             producer' = [producer EXCEPT ![p] = Producing("push", @.left - 1,
                                                           [id |-> id_gen, symbol |-> s])]
        /\ id_gen' = id_gen + 1
     \/ /\ producer[p].left = 0
        /\ producer' = [producer EXCEPT ![p].at = "exited"]
        /\ UNCHANGED id_gen
  /\ UNCHANGED <<queue, worker, main, mutex, engines, trade_log, counters, summary>>

\* main closes the queue after the producers, so push() never fails here.
Push(p) ==
  /\ producer[p].at = "push" /\ p \notin queue.not_full
  /\ IF Accepts(queue)
     THEN /\ queue' = Inserted(queue, producer[p].order)
          /\ producer' = [producer EXCEPT ![p] = Producing("notify", @.left, NoOrder)]
     ELSE queue' = Asleep(queue, "not_full", p) /\ UNCHANGED producer
  /\ UNCHANGED <<worker, main, id_gen, mutex, engines, trade_log, counters, summary>>

\* The end of push(), and the counter.
NotifyWorker(p) ==
  /\ producer[p].at = "notify"
  /\ queue' \in NotifyOne(queue, "not_empty")
  /\ producer' = [producer EXCEPT ![p].at = "generate"]
  /\ counters' = [counters EXCEPT !.produced = @ + 1]
  /\ UNCHANGED <<worker, main, id_gen, mutex, engines, trade_log, summary>>
-----------------------------------------------------------------------------
(* consumerThread *)

Pop(w) ==
  /\ worker[w].at = "pop" /\ w \notin queue.not_empty
  /\ \/ /\ queue.buffer # << >>
        /\ queue' = Removed(queue)
        /\ worker' = [worker EXCEPT ![w] = Working("notify", Head(queue.buffer), << >>, << >>, 1)]
     \/ /\ queue.buffer = << >> /\ PopReady(queue)
        /\ worker' = [worker EXCEPT ![w].at = "exited"]
        /\ UNCHANGED queue
     \/ /\ ~PopReady(queue)
        /\ queue' = Asleep(queue, "not_empty", w)
        /\ UNCHANGED worker
  /\ UNCHANGED <<producer, main, id_gen, mutex, engines, trade_log, counters, summary>>

NotifyProducer(w) ==
  /\ worker[w].at = "notify"
  /\ queue' \in NotifyOne(queue, "not_full")
  /\ worker' = [worker EXCEPT ![w].at = "lock"]
  /\ UNCHANGED <<producer, main, id_gen, mutex, engines, trade_log, counters, summary>>

\* Seeded fault: nobody waits for a mutex.
NeverHeld(shard) == TRUE

Free(shard) == mutex[shard] = {}

\* submit() takes the mutex of the shard and looks the symbol up.
Lock(w) ==
  LET shard == ShardOf[worker[w].order.symbol] IN
  /\ worker[w].at = "lock" /\ Free(shard)
  /\ mutex' = [mutex EXCEPT ![shard] = @ \cup {w}]
  /\ worker' = [worker EXCEPT ![w] = Working("submit", @.order, engines[shard], << >>, 1)]
  /\ UNCHANGED <<queue, producer, main, id_gen, engines, trade_log, counters, summary>>

\* The engine of the symbol, made on first sight.
EngineOf(map, symbol) == IF symbol \in DOMAIN map THEN map[symbol] ELSE NewEngine

\* submitOrder() on the engine that was found, and the end of the lock_guard.
Submit(w) ==
  LET order  == worker[w].order
      shard  == ShardOf[order.symbol]
      engine == EngineOf(worker[w].seen, order.symbol)
  IN  /\ worker[w].at = "submit"
      /\ \E n \in 0..MaxTrades :
           /\ engines' = [engines EXCEPT ![shard] =
                (order.symbol :> [applied |-> engine.applied \cup {order.id},
                                  trade_count |-> engine.trade_count + n]) @@ worker[w].seen]
           /\ worker' = [worker EXCEPT ![w] =
                Working("record", order, << >>, [i \in 1..n |-> engine.trade_count + i], 1)]
      /\ mutex' = [mutex EXCEPT ![shard] = @ \ {w}]
      /\ UNCHANGED <<queue, producer, main, id_gen, trade_log, counters, summary>>

\* The trades go to the log one by one; then submit() returns and the order and
\* its trades are counted.
Record(w) ==
  LET self == worker[w]
  IN  /\ self.at = "record"
      /\ IF self.next > Len(self.scratch)
         THEN /\ worker' = [worker EXCEPT ![w] = Working("pop", NoOrder, << >>, << >>, 1)]
              /\ counters' = [counters EXCEPT !.consumed = @ + 1, !.trades = @ + Len(self.scratch)]
              /\ UNCHANGED trade_log
         ELSE /\ trade_log' = [trade_log EXCEPT ![self.order.symbol] =
                                 record(@, self.scratch[self.next])]
              /\ worker' = [worker EXCEPT ![w].next = @ + 1]
              /\ UNCHANGED counters
      /\ UNCHANGED <<queue, producer, main, id_gen, mutex, engines, summary>>
-----------------------------------------------------------------------------
(* main *)

\* snapshot() of a symbol and the size of its log.
Snapshot(symbol) ==
  LET map == engines[ShardOf[symbol]]
  IN  [exists |-> symbol \in DOMAIN map, engine |-> EngineOf(map, symbol),
       last_trades |-> Len(trade_log[symbol])]

\* Join the producers, close() the queue, join the workers, print.
Main ==
  /\ \/ /\ main = "producers" /\ \A p \in Producer : producer[p].at = "exited"
        /\ main' = "close" /\ UNCHANGED <<queue, summary>>
     \/ /\ main = "close" /\ main' = "wake" /\ queue' = Closed(queue) /\ UNCHANGED summary
     \/ /\ main = "wake" /\ main' = "workers" /\ queue' = NotifyAll(queue) /\ UNCHANGED summary
     \/ /\ main = "workers" /\ \A w \in Worker : worker[w].at = "exited"
        /\ main' = "done" /\ UNCHANGED queue
        /\ summary' = [counters |-> counters, symbols |-> [s \in Symbol |-> Snapshot(s)]]
  /\ UNCHANGED <<producer, worker, id_gen, mutex, engines, trade_log, counters>>

Wakeup ==
  /\ queue' \in SpuriousWakeup(queue)
  /\ UNCHANGED <<producer, worker, main, id_gen, mutex, engines, trade_log, counters, summary>>

Terminated == main = "done" /\ UNCHANGED vars

ProducerStep(p) == Generate(p) \/ Push(p) \/ NotifyWorker(p)
WorkerStep(w) == Pop(w) \/ NotifyProducer(w) \/ Lock(w) \/ Submit(w) \/ Record(w)

Next ==
  \/ \E p \in Producer : ProducerStep(p)
  \/ \E w \in Worker : WorkerStep(w)
  \/ Main \/ Wakeup \/ Terminated

Spec == Init /\ [][Next]_vars

\* Every thread runs on unless it is blocked; spurious wakeups are no help.  As
\* there are finitely many orders, no worker has to be favoured at a mutex.
FairSpec ==
  /\ Spec /\ WF_vars(Main)
  /\ \A p \in Producer : WF_vars(ProducerStep(p))
  /\ \A w \in Worker : WF_vars(WorkerStep(w))
-----------------------------------------------------------------------------
TypeOK ==
  /\ queue \in QueueOf(SymbolOrder, Producer \cup Worker)
  /\ \A p \in Producer : producer[p].left \in 0..OrdersPerProducer
  /\ \A k \in Shard :
       /\ mutex[k] \subseteq Worker
       /\ \A s \in DOMAIN engines[k] : ShardOf[s] = k /\ engines[k][s] \in Engine

Ids(orders) == {orders[i].id : i \in DOMAIN orders}
Applied(symbol) == EngineOf(engines[ShardOf[symbol]], symbol).applied
Trades(symbol) == EngineOf(engines[ShardOf[symbol]], symbol).trade_count
AllApplied == UNION {Applied(s) : s \in Symbol}
InHand(threads, at) == {t \in DOMAIN threads : threads[t].at \in at}
IdsOf(threads, at) == {threads[t].order.id : t \in InHand(threads, at)}
BeforeEngine == {"notify", "lock", "submit"}

\* Several producers, several workers: every order is in exactly one place
\* (with its producer, in the queue, with one worker, or in the one engine of
\* its symbol), so none is lost and none is executed twice: not when two workers
\* take a shard's mutex at once, nor when they meet a symbol for the first time.
NoneLostNoneTwice ==
  /\ TypeOK
  /\ AllApplied \cup IdsOf(worker, BeforeEngine) \cup Ids(queue.buffer)
       \cup IdsOf(producer, {"push"}) = 1..(id_gen - 1)
  /\ MapThenSumSet(LAMBDA s : Cardinality(Applied(s)), Symbol)
       + Cardinality(InHand(worker, BeforeEngine)) + Len(queue.buffer)
       + Cardinality(InHand(producer, {"push"})) = id_gen - 1

\* What main prints is final and adds up: every order was produced and consumed,
\* the trades are those of all engines, a symbol exists that had an order, and
\* its log holds as many of its trades as there were, up to the depth of the log.
SummaryExact ==
  summary # << >> =>
    /\ summary.counters = [produced |-> total_orders, consumed |-> total_orders,
                           trades |-> MapThenSumSet(Trades, Symbol)]
    /\ summary.symbols = [s \in Symbol |-> Snapshot(s)]
    /\ \A s \in Symbol :
         /\ summary.symbols[s].exists <=> Applied(s) # {}
         /\ summary.symbols[s].last_trades = Min({LogDepth, Trades(s)})
         /\ Cardinality(Range(trade_log[s])) = Len(trade_log[s])
         /\ Range(trade_log[s]) \subseteq 1..Trades(s)

\* The program ends: producers get their orders in although the queue is small
\* and every worker learns of close(), wherever it reached the worker.
Ends == <>(main = "done")
=============================================================================
