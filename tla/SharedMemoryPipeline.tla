----------------------- MODULE SharedMemoryPipeline -----------------------
(***************************************************************************)
(* Three processes and the region they share (include/shared_types.hpp):   *)
(* feed_handler pushes orders and cancels, matching_engine_main executes   *)
(* them and publishes trades, reports and the best prices, market_viewer   *)
(* drains both queues and prints a line about the book.                    *)
(*                                                                         *)
(* The queues are the bounded FIFOs that SPSCQueue.tla implements; since a *)
(* thread may see an old counter, try_pop may find nothing in a queue that *)
(* has just been filled and try_push may find one full that has just been  *)
(* drained.  A thread that has seen engine_done sees all pushes before it. *)
(* How feed and viewer find the region is the business of EngineProcess.tla. *)
(*                                                                         *)
(* A trade is the message of its command; what a command does is the       *)
(* business of MatchingEngine.tla and any number of trades is possible.  A *)
(* best price in the header is the number of commands it accounts for; the *)
(* counters of accepted, rejected and canceled commands are like the one   *)
(* of processed commands, and heartbeats do not matter to anyone.          *)
(***************************************************************************)
EXTENDS Naturals, Sequences

CONSTANTS Orders,           \* how many the feed sends
          CancelEvery,      \* --cancel-every; 0 for no cancels
          QueueCapacity,
          MaxTrades         \* bound: trades of one command

ASSUME PipelineAssumption ==
  /\ Orders \in Nat /\ CancelEvery \in Nat
  /\ QueueCapacity \in Nat \ {0} /\ MaxTrades \in Nat

VARIABLES state, producer_done, engine_done,            \* the header
          processed_commands, trades_generated,
          bbo,                                          \* best_bid and best_ask
          order_queue, trade_queue, report_queue,
          feed_at, orders_pushed, data_ok,              \* feed_handler
          engine_at, message, trades, left,   \* matching_engine_main
          g_stop, idle_exit, journal_failed,
          viewer_at, got_any,                           \* market_viewer
          trades_seen, reports_seen,
          view,        \* best prices: nothing older than this can be loaded
          sent, made   \* history: messages and trades pushed

flags == <<state, producer_done, engine_done>>
counters == <<processed_commands, trades_generated>>
queues == <<order_queue, trade_queue, report_queue>>
feed == <<feed_at, orders_pushed, data_ok>>
command == <<message, trades, left>>
control == <<g_stop, idle_exit, journal_failed>>
seen == <<trades_seen, reports_seen, view>>
history == <<sent, made>>
vars == <<flags, counters, bbo, queues, feed, engine_at, command, control,
          viewer_at, got_any, seen, history>>

Message == [type : {"NEW_ORDER", "CANCEL_ORDER"}, id : Nat]
NewOrder(id) == [type |-> "NEW_ORDER", id |-> id]
Cancel(id) == [type |-> "CANCEL_ORDER", id |-> id]

\* An execution report.  after is not a field of it: the best prices in the
\* header when it was pushed, which whoever pops it cannot miss.
Best == {"best_bid", "best_ask"}
Report == [message : Message, after : [Best -> Nat]]
ReportOf(m, prices) == [message |-> m, after |-> prices]

TypeOK ==
  /\ state \in {"NOT_READY", "READY"}
  /\ producer_done \in BOOLEAN /\ engine_done \in BOOLEAN /\ data_ok \in BOOLEAN
  /\ g_stop \in BOOLEAN /\ idle_exit \in BOOLEAN /\ journal_failed \in BOOLEAN
  /\ got_any \in BOOLEAN /\ processed_commands \in Nat /\ trades_generated \in Nat
  /\ trades \in Nat /\ left \in Nat
  /\ bbo \in [Best -> Nat] /\ view \in [Best -> Nat]
  /\ order_queue \in Seq(Message) /\ Len(order_queue) <= QueueCapacity
  /\ trade_queue \in Seq(Message) /\ Len(trade_queue) <= QueueCapacity
  /\ report_queue \in Seq(Report) /\ Len(report_queue) <= QueueCapacity
  /\ feed_at \in {"attach", "order", "cancel", "exited"} /\ orders_pushed \in 0..Orders
  /\ engine_at \in {"start", "loop", "idle", "trades", "count", "final", "exited"}
  /\ viewer_at \in {"attach", "trades", "reports", "book", "done", "empty_trades",
                    "empty_reports", "exited"}
  /\ message \in Message /\ sent \in Seq(Message) /\ made \in Seq(Message)
  /\ trades_seen \in Seq(Message) /\ reports_seen \in Seq(Message)

Init ==
  /\ state = "NOT_READY" /\ producer_done = FALSE /\ engine_done = FALSE
  /\ processed_commands = 0 /\ trades_generated = 0
  /\ bbo = [b \in Best |-> 0] /\ view = [b \in Best |-> 0]
  /\ order_queue = << >> /\ trade_queue = << >> /\ report_queue = << >>
  /\ feed_at = "attach" /\ orders_pushed = 0 /\ data_ok \in BOOLEAN
  /\ engine_at = "start" /\ message = NewOrder(0)
  /\ trades = 0 /\ left = 0
  /\ g_stop = FALSE /\ idle_exit \in BOOLEAN /\ journal_failed = FALSE
  /\ viewer_at = "attach" /\ got_any = FALSE
  /\ trades_seen = << >> /\ reports_seen = << >>
  /\ sent = << >> /\ made = << >>

HasSpace(q) == Len(q) < QueueCapacity
-----------------------------------------------------------------------------
(* feed_handler *)

\* Real-data mode ends here if there are no daily bars.
AfterAttach == IF data_ok THEN "order" ELSE "exited"

FeedAttach ==
  /\ feed_at = "attach" /\ state = "READY"
  /\ feed_at' = AfterAttach
  /\ UNCHANGED <<flags, counters, bbo, queues, orders_pushed, data_ok, engine_at, command,
                 control, viewer_at, got_any, seen, history>>

pushMessage(m) ==
  /\ HasSpace(order_queue)
  /\ order_queue' = Append(order_queue, m) /\ sent' = Append(sent, m)
  /\ UNCHANGED <<flags, counters, bbo, trade_queue, report_queue, data_ok, engine_at,
                 command, control, viewer_at, got_any, seen, made>>

\* The first half of sendOrder: every CancelEvery-th order is followed by a cancel.
SendOrder ==
  /\ feed_at = "order" /\ orders_pushed < Orders
  /\ pushMessage(NewOrder(orders_pushed + 1))
  /\ orders_pushed' = orders_pushed + 1
  /\ feed_at' = IF CancelEvery > 0 /\ orders_pushed' % CancelEvery = 0
                THEN "cancel" ELSE "order"

\* An order from the recent past.  The code subtracts unsigned numbers; NoUnderflow
\* says that it never wraps.
CancelTarget(pushed) ==
  IF pushed - CancelEvery \div 2 > 1 THEN pushed - CancelEvery \div 2 ELSE 1

SendCancel ==
  /\ feed_at = "cancel"
  /\ pushMessage(Cancel(CancelTarget(orders_pushed)))
  /\ feed_at' = "order" /\ UNCHANGED orders_pushed

FeedDone ==
  /\ feed_at = "order" /\ orders_pushed = Orders
  /\ producer_done' = TRUE /\ feed_at' = "exited"
  /\ UNCHANGED <<state, engine_done, counters, bbo, queues, orders_pushed, data_ok,
                 engine_at, command, control, viewer_at, got_any, seen, history>>
-----------------------------------------------------------------------------
(* matching_engine_main *)

Ready ==
  /\ engine_at = "start"
  /\ state' = "READY" /\ engine_at' = "loop"
  /\ UNCHANGED <<producer_done, engine_done, counters, bbo, queues, feed, command,
                 control, viewer_at, got_any, seen, history>>

\* Seeded fault: the loop does not look at g_stop.
SignalMissed == FALSE

Stopped == g_stop

\* The head of the loop: stop, or find nothing.
EngineLoop ==
  /\ engine_at = "loop"
  /\ engine_at' = IF Stopped THEN "final" ELSE "idle"
  /\ UNCHANGED <<flags, counters, bbo, queues, feed, command, control, viewer_at,
                 got_any, seen, history>>

\* A command is taken out of the queue.  Either the journal cannot take it, and
\* the engine gives up without executing it, or it is executed.
EnginePop ==
  /\ engine_at = "loop" /\ ~Stopped /\ order_queue # << >>
  /\ message' = Head(order_queue) /\ order_queue' = Tail(order_queue)
  /\ \/ /\ engine_at' = "final" /\ journal_failed' = TRUE
        /\ UNCHANGED <<trades, left>>
     \/ /\ engine_at' = "trades" /\ UNCHANGED journal_failed
        /\ trades' \in 0..(IF message'.type = "NEW_ORDER" THEN MaxTrades ELSE 0)
        /\ left' = trades'
  /\ UNCHANGED <<flags, counters, bbo, trade_queue, report_queue, feed, g_stop,
                 idle_exit, viewer_at, got_any, seen, history>>

\* Seeded fault: an empty queue is enough to leave.
MayLeaveAnyTime == TRUE

\* The engine may leave, once it has been idle for long enough.
MayLeave == idle_exit /\ producer_done

EngineIdle ==
  /\ engine_at = "idle"
  /\ engine_at' = "loop" \/ (MayLeave /\ engine_at' = "final")
  /\ UNCHANGED <<flags, counters, bbo, queues, feed, command, control, viewer_at,
                 got_any, seen, history>>

PushTrade ==
  /\ engine_at = "trades" /\ left > 0 /\ HasSpace(trade_queue)
  /\ trade_queue' = Append(trade_queue, message) /\ made' = Append(made, message)
  /\ left' = left - 1
  /\ UNCHANGED <<flags, counters, bbo, order_queue, report_queue, feed, engine_at,
                 message, trades, control, viewer_at, got_any, seen, sent>>

PushReport ==
  /\ engine_at = "trades" /\ left = 0 /\ HasSpace(report_queue)
  /\ report_queue' = Append(report_queue, ReportOf(message, bbo))
  /\ engine_at' = "count"
  /\ UNCHANGED <<flags, counters, bbo, order_queue, trade_queue, feed, command, control,
                 viewer_at, got_any, seen, history>>

\* Seeded fault: the best prices are stored when there is time for it.
PublishedWhenIdle(b) == IF order_queue = << >> THEN processed_commands + 1 ELSE bbo[b]

\* publishBook.
Published(b) == processed_commands + 1

\* The stores of counters and prices are one step: a viewer that loads some of
\* them in between gets what BookLine may also give it a moment later.
CountCommand ==
  /\ engine_at = "count"
  /\ processed_commands' = processed_commands + 1
  /\ trades_generated' = trades_generated + trades
  /\ bbo' = [b \in Best |-> Published(b)]
  /\ engine_at' = "loop"
  /\ UNCHANGED <<flags, queues, feed, command, control, viewer_at, got_any, seen, history>>

EngineDone ==
  /\ engine_at = "final"
  /\ engine_done' = TRUE /\ engine_at' = "exited"
  /\ UNCHANGED <<state, producer_done, counters, bbo, queues, feed, command, control,
                 viewer_at, got_any, seen, history>>

onSignal ==
  /\ ~g_stop /\ engine_at # "exited"
  /\ g_stop' = TRUE
  /\ UNCHANGED <<flags, counters, bbo, queues, feed, engine_at, command, idle_exit,
                 journal_failed, viewer_at, got_any, seen, history>>
-----------------------------------------------------------------------------
(* market_viewer: drain the trades, then the reports, and print a line about *)
(* the book every now and then; if there were none of either and the engine  *)
(* is done, look once more, and leave.                                       *)

ViewerAttach ==
  /\ viewer_at = "attach" /\ state = "READY"
  /\ viewer_at' = "trades"
  /\ UNCHANGED <<flags, counters, bbo, queues, feed, engine_at, command, control,
                 got_any, seen, history>>

DrainTrade ==
  /\ viewer_at = "trades" /\ trade_queue # << >>
  /\ trades_seen' = Append(trades_seen, Head(trade_queue))
  /\ trade_queue' = Tail(trade_queue) /\ got_any' = TRUE
  /\ UNCHANGED <<flags, counters, bbo, order_queue, report_queue, feed, engine_at, command,
                 control, viewer_at, reports_seen, view, history>>

DrainReport ==
  LET r == Head(report_queue)
  IN  /\ viewer_at = "reports" /\ report_queue # << >>
      /\ reports_seen' = Append(reports_seen, r.message)
      /\ view' = [b \in Best |-> IF view[b] < r.after[b] THEN r.after[b] ELSE view[b]]
      /\ report_queue' = Tail(report_queue) /\ got_any' = TRUE
      /\ UNCHANGED <<flags, counters, bbo, order_queue, trade_queue, feed, engine_at,
                     command, control, viewer_at, trades_seen, history>>

\* try_pop has found nothing.
Drained ==
  /\ \/ viewer_at = "trades" /\ viewer_at' = "reports"
     \/ viewer_at = "reports" /\ viewer_at' = "book"
  /\ UNCHANGED <<flags, counters, bbo, queues, feed, engine_at, command, control,
                 got_any, seen, history>>

\* The line that is due now and then: each load gives some value that was stored
\* since the one this viewer must know of, or that one.
BookLine ==
  /\ viewer_at = "book"
  /\ viewer_at' = IF got_any THEN "trades" ELSE "done"
  /\ got_any' = FALSE
  /\ \/ UNCHANGED view
     \/ \E bid \in view["best_bid"]..bbo["best_bid"], ask \in view["best_ask"]..bbo["best_ask"] :
          view' = [b \in Best |-> IF b = "best_bid" THEN bid ELSE ask]
  /\ UNCHANGED <<flags, counters, bbo, queues, feed, engine_at, command, control,
                 trades_seen, reports_seen, history>>

\* Seeded fault: the queues were empty a moment ago and are not looked at again.
LooksEmpty(q) == TRUE

Empty(q) == q = << >>

ExitCheck ==
  /\ \/ /\ viewer_at = "done"
        /\ viewer_at' = IF engine_done THEN "empty_trades" ELSE "trades"
     \/ /\ viewer_at = "empty_trades"
        /\ viewer_at' = IF Empty(trade_queue) THEN "empty_reports" ELSE "trades"
     \/ /\ viewer_at = "empty_reports"
        /\ viewer_at' = IF Empty(report_queue) THEN "exited" ELSE "trades"
  /\ UNCHANGED <<flags, counters, bbo, queues, feed, engine_at, command, control,
                 got_any, seen, history>>
-----------------------------------------------------------------------------
Feed == FeedAttach \/ SendOrder \/ SendCancel \/ FeedDone
Engine == \/ Ready \/ EngineLoop \/ EnginePop \/ EngineIdle \/ PushTrade \/ PushReport
          \/ CountCommand \/ EngineDone
Viewer == ViewerAttach \/ DrainTrade \/ DrainReport \/ Drained \/ BookLine \/ ExitCheck
Terminated == viewer_at = "exited" /\ engine_at = "exited" /\ UNCHANGED vars

Next == Feed \/ Engine \/ Viewer \/ onSignal \/ Terminated

Spec == Init /\ [][Next]_vars

\* The operating system runs all three, and a counter that was stored becomes
\* visible to the other side: try_pop does not miss an item for ever.
FairSpec ==
  /\ Spec /\ WF_vars(Feed) /\ WF_vars(Engine) /\ WF_vars(Viewer)
  /\ SF_vars(EnginePop) /\ SF_vars(DrainTrade) /\ SF_vars(DrainReport)
-----------------------------------------------------------------------------
\* The queue holds the part of the log that follows its first done entries.
Carries(queue, log, done) == \A i \in 1..Len(queue) : queue[i] = log[done + i]

\* Commands that are reported, and the one that was popped and is not.
Reported == Len(reports_seen) + Len(report_queue)
InHand == IF engine_at = "trades" \/ journal_failed THEN 1 ELSE 0

\* Nothing is lost, duplicated or reordered between feed, engine and viewer
\* ("losslessly publishes every resulting Trade"): the reports, seen and queued,
\* the command in hand and the order queue are what the feed sent.
CommandsFlow ==
  /\ Carries(reports_seen, sent, 0)
  /\ \A i \in 1..Len(report_queue) : report_queue[i].message = sent[Len(reports_seen) + i]
  /\ InHand = 1 => message = sent[Reported + 1]
  /\ Carries(order_queue, sent, Reported + InHand)
  /\ Len(sent) = Reported + InHand + Len(order_queue)

\* The trades, seen and queued, are what the engine made.
TradesFlow ==
  /\ Carries(trades_seen, made, 0) /\ Carries(trade_queue, made, Len(trades_seen))
  /\ Len(made) = Len(trades_seen) + Len(trade_queue)

\* Commands and trades flow without loss, and a viewer that has left ("exits only
\* after the engine marks the region finished and both outbound queues are
\* empty") has seen every trade, and a report for every command, that the engine
\* counted.
LosslessInOrder ==
  /\ TypeOK /\ CommandsFlow /\ TradesFlow
  /\ viewer_at = "exited" =>
       /\ trades_seen = made /\ Len(trades_seen) = trades_generated
       /\ Len(reports_seen) = processed_commands

\* A cancel that the feed sends is for an order that it has sent before.
CancelsKnown ==
  \A i \in 1..Len(sent) : sent[i].type = "CANCEL_ORDER" =>
    \E j \in 1..(i - 1) : sent[j] = NewOrder(sent[i].id)

\* sendOrder subtracts half of --cancel-every from orders_pushed only once that
\* many orders have been pushed.
NoUnderflow == feed_at = "cancel" => orders_pushed >= CancelEvery \div 2

\* Best prices, and what the viewer prints of them, may be old and need not
\* belong together, but they are never older than the command before the last
\* one whose report the viewer has popped.
BookLineRecent ==
  \A b \in Best : Len(reports_seen) <= view[b] + 1 /\ view[b] <= bbo[b]

\* If its input can be loaded, its journal written, and the engine is neither
\* stopped by a signal nor started with an idle exit, everything the feed sends
\* is executed and reported to the viewer, however small the queues are.
AllDelivered ==
  ~idle_exit /\ data_ok /\ [](~g_stop /\ ~journal_failed) =>
    <>[](feed_at = "exited" /\ Len(reports_seen) = Len(sent))

\* The engine obeys a signal, also when it waits for space in a queue, as long
\* as a viewer runs; and the viewer then ends too.
StopEnds == g_stop ~> engine_at = "exited" /\ viewer_at = "exited"
=============================================================================
