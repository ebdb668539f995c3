-------------------------- MODULE PartitionedDemo --------------------------
(***************************************************************************)
(* The partitioned engine together with the program that owns it.  Either  *)
(* the program is apps/partitioned_matching_main.cpp, whose producers send *)
(* their orders with enqueue() while the main thread waits, reports,       *)
(* validates and shuts down; or it is any program ("free"), whose threads  *)
(* make whatever calls they like, as the tests and benchmarks do.          *)
(*                                                                         *)
(* Commands are numbered in the order in which the calls are made, where   *)
(* the program gives each producer a range of ids of its own.  A book in   *)
(* which checkInvariants() fails is out of the question here: see          *)
(* IndexAgrees in OrderBook.tla.                                           *)
(***************************************************************************)
EXTENDS PartitionedEngine

CONSTANTS Main,               \* the main thread
          Programs,           \* the programs considered
          OrdersPerProducer   \* orders_per_producer

Producer == Client \ {Main}
total_orders == Cardinality(Producer) * OrdersPerProducer

ASSUME DemoAssumption ==
  /\ Main \in Client /\ Programs \subseteq {"demo", "free"}
  /\ OrdersPerProducer \in Nat \ {0} /\ total_orders <= MaxCommands

VARIABLES program,
          stage,     \* of the main thread
          ready,     \* producers that wait for start or went on from there
          sent,      \* per producer: the commands it has called enqueue for
          report     \* what the main thread has printed

demo == <<program, stage, ready, sent, report>>

\* snapshot() of a symbol, taken under the mutex of its shard, and the number of
\* trades in its log.  Of an engine only what it has applied is known here.
Snapshot(symbol) == [engine        |-> engines[symbol],
                     recent_trades |-> Len(trade_log[symbol])]

Report(verdict) ==
  [stats |-> stats, symbols |-> [y \in Symbol |-> Snapshot(y)], verdict |-> verdict]

DemoInit ==
  /\ Init
  /\ program \in Programs
  /\ stage = "construct" /\ ready = {}
  /\ sent = [c \in Producer |-> {}]
  /\ report = Report("none")
-----------------------------------------------------------------------------
(* Producers *)

\* enqueue() has returned false for one of the orders of the producer, which
\* sets ingress_failed and ends it.
IngressFailed(c) ==
  client[c] = Resting /\ \E i \in sent[c] : \A k \in returned : k.id # i

ProducerDone(c) ==
  client[c] = Resting /\ (IngressFailed(c) \/ Cardinality(sent[c]) = OrdersPerProducer)

Ready(c) ==
  /\ program = "demo" /\ stage = "construct" /\ phase = "running" /\ c \notin ready
  /\ ready' = ready \cup {c}
  /\ UNCHANGED <<program, stage, sent, report, vars>>

\* The next order of a producer, for a symbol of its choice.
Produce(c) ==
  /\ program = "demo" /\ stage # "construct" /\ client[c] = Resting /\ ~ProducerDone(c)
  /\ sent' = [sent EXCEPT ![c] = @ \cup {Issued + 1}]
  /\ \E symbol \in Symbol : Begin(c, "enqueue", symbol)
  /\ UNCHANGED <<program, stage, ready, report>>
-----------------------------------------------------------------------------
(* The main thread *)

MainAt(where) == program = "demo" /\ stage = where /\ client[Main] = Resting

\* All producers are ready: the flag start lets them go.
Start ==
  /\ MainAt("construct") /\ ready = Producer
  /\ stage' = "produce"
  /\ UNCHANGED <<program, ready, sent, report, vars>>

\* Seeded fault: the producers are not joined.
ProducersIgnored == TRUE

ProducersJoined == \A c \in Producer : ProducerDone(c)

JoinProducers ==
  /\ MainAt("produce") /\ ProducersJoined
  /\ stage' = "wait"
  /\ BeginControl(Main, "waitUntilIdle")
  /\ UNCHANGED <<program, ready, sent, report>>

\* waitUntilIdle has returned.  stats() and the snapshots are one step: DemoPasses
\* says that nothing changes any more.
Validate ==
  /\ MainAt("wait")
  /\ stage' = "shutdown"
  /\ report' = Report(IF /\ \A c \in Producer : ~IngressFailed(c)
                         /\ stats.submitted = total_orders
                         /\ stats.processed = total_orders /\ pending = 0
                      THEN "PASS" ELSE "FAIL")
  /\ BeginControl(Main, "shutdown")
  /\ UNCHANGED <<program, ready, sent>>

\* The engine's destructor calls shutdown() once more.
Destroy ==
  /\ MainAt("shutdown")
  /\ stage' = "destroy"
  /\ BeginControl(Main, "shutdown")
  /\ UNCHANGED <<program, ready, sent, report>>

Exited == MainAt("destroy") /\ UNCHANGED <<demo, vars>>

DemoNext ==
  \/ EngineNext /\ UNCHANGED demo
  \/ program = "free" /\ (\E c \in Producer : AnyCall(c)) /\ UNCHANGED demo
  \/ \E c \in Producer : Ready(c) \/ Produce(c)
  \/ Start \/ JoinProducers \/ Validate \/ Destroy \/ Exited

DemoSpec == DemoInit /\ [][DemoNext]_<<vars, demo>>

\* The threads of the program run on, too.
DemoFairness ==
  /\ Fairness
  /\ WF_<<vars, demo>>(Start \/ JoinProducers \/ Validate \/ Destroy)
  /\ \A c \in Producer : WF_<<vars, demo>>(Ready(c) \/ Produce(c))
FairDemoSpec == DemoSpec /\ DemoFairness
-----------------------------------------------------------------------------
\* The demo never prints validation=FAIL, and what it prints is final and adds
\* up: every order of every producer was submitted, processed, and accepted or
\* rejected by the engine of its symbol, the trades are those of all engines,
\* and the log of a symbol has the trades of its engine, up to its depth.
DemoPasses ==
  report.verdict # "none" =>
    /\ report = Report("PASS")
    /\ stats.accepted + stats.rejected = total_orders
    /\ stats.trades = MapThenSumSet(LAMBDA y : engines[y].trade_count, Symbol)
    /\ total_orders = MapThenSumSet(LAMBDA y : Len(engines[y].applied), Symbol)
    /\ \A y \in Symbol :
         report.symbols[y].recent_trades = Min({LogDepth, engines[y].trade_count})
=============================================================================
