--------------------- MODULE SharedMemoryPipelineProofs ---------------------
(***************************************************************************)
(* Nothing is lost between the three processes and the book line is recent *)
(* for every number of orders, distance of cancels, capacity of the queues *)
(* and number of trades per command.                                       *)
(***************************************************************************)
EXTENDS SharedMemoryPipeline, TLAPS

\* The commands the header accounts for are the ones reported, but for the one
\* that is being counted; each report knows how many came before it.
Accounted ==
  /\ left <= trades
  /\ Reported = processed_commands + (IF engine_at = "count" THEN 1 ELSE 0)
  /\ Len(made) = trades_generated + (IF engine_at = "trades" THEN trades - left
                                     ELSE IF engine_at = "count" THEN trades ELSE 0)
  /\ \A b \in Best : bbo[b] = processed_commands
  /\ \A i \in 1..Len(report_queue), b \in Best :
       report_queue[i].after[b] + 1 = Len(reports_seen) + i

\* Who leaves last: the viewer finds both queues empty after the engine is done.
Leaving ==
  /\ engine_done => engine_at = "exited"
  /\ journal_failed => engine_at \in {"final", "exited"}
  /\ viewer_at \in {"empty_trades", "empty_reports", "exited"} => engine_done
  /\ viewer_at \in {"empty_reports", "exited"} => trade_queue = << >>
  /\ viewer_at = "exited" => report_queue = << >>

PipeInv == TypeOK /\ CommandsFlow /\ TradesFlow /\ Accounted /\ Leaving /\ BookLineRecent
-----------------------------------------------------------------------------
(* What the operations on a queue do to the part of the log it carries *)

LEMMA Pushed ==
  ASSUME NEW q \in Seq(Message), NEW log \in Seq(Message), NEW done \in Nat, NEW m \in Message,
         Carries(q, log, done), Len(log) = done + Len(q)
  PROVE  /\ Carries(Append(q, m), Append(log, m), done)
         /\ Append(q, m) \in Seq(Message) /\ Append(log, m) \in Seq(Message)
         /\ Len(Append(q, m)) = Len(q) + 1 /\ Len(Append(log, m)) = Len(log) + 1
<1>1. ASSUME NEW i \in 1..Len(Append(q, m)) PROVE Append(q, m)[i] = Append(log, m)[done + i]
  <2>1. CASE i = Len(q) + 1
    BY <2>1, SMT
  <2>2. CASE i # Len(q) + 1
    <3>1. i \in 1..Len(q) /\ q[i] = log[done + i]
      BY <2>2, SMT DEF Carries
    <3> QED
      BY <3>1, SMT
  <2> QED
    BY <2>1, <2>2
<1>2. /\ Append(q, m) \in Seq(Message) /\ Append(log, m) \in Seq(Message)
      /\ Len(Append(q, m)) = Len(q) + 1 /\ Len(Append(log, m)) = Len(log) + 1
  BY SMT
<1> QED
  BY <1>1, <1>2, Zenon DEF Carries

LEMMA Extended ==
  ASSUME NEW q, Len(q) \in Nat, NEW log \in Seq(Message), NEW done \in Nat, NEW m \in Message,
         Carries(q, log, done), done + Len(q) <= Len(log)
  PROVE  Carries(q, Append(log, m), done)
BY SMT DEF Carries

LEMMA Popped ==
  ASSUME NEW q \in Seq(Message), q # << >>, NEW log \in Seq(Message), NEW done \in Nat,
         Carries(q, log, done)
  PROVE  /\ Tail(q) \in Seq(Message) /\ Len(Tail(q)) = Len(q) - 1 /\ Len(q) > 0 /\ Head(q) \in Message
         /\ Head(q) = log[done + 1] /\ Carries(Tail(q), log, done + 1)
<1>1. /\ Tail(q) \in Seq(Message) /\ Len(Tail(q)) = Len(q) - 1 /\ Len(q) > 0 /\ Head(q) \in Message
      /\ Head(q) = q[1]
  BY SMT
<1>2. ASSUME NEW i \in 1..Len(Tail(q)) PROVE Tail(q)[i] = log[done + 1 + i]
  <2>1. i + 1 \in 1..Len(q) /\ Tail(q)[i] = q[i + 1]
    BY <1>1, SMT
  <2>2. q[i + 1] = log[done + (i + 1)]
    BY <2>1, Zenon DEF Carries
  <2> QED
    BY <2>1, <2>2, SMT
<1>3. q[1] = log[done + 1]
  BY <1>1, SMT DEF Carries
<1> QED
  BY <1>1, <1>2, <1>3, Zenon DEF Carries

LEMMA Collected ==
  ASSUME NEW out \in Seq(Message), NEW log \in Seq(Message), NEW m \in Message,
         Carries(out, log, 0), m = log[Len(out) + 1]
  PROVE  /\ Carries(Append(out, m), log, 0)
         /\ Append(out, m) \in Seq(Message) /\ Len(Append(out, m)) = Len(out) + 1
<1>1. Append(out, m) \in Seq(Message) /\ Len(Append(out, m)) = Len(out) + 1
  BY SMT
<1>2. ASSUME NEW i \in 1..Len(Append(out, m)) PROVE Append(out, m)[i] = log[0 + i]
  <2>1. CASE i = Len(out) + 1
    BY <2>1, SMT
  <2>2. CASE i # Len(out) + 1
    <3>1. i \in 1..Len(out) /\ out[i] = log[0 + i]
      BY <2>2, <1>1, SMT DEF Carries
    <3> QED
      BY <3>1, SMT
  <2> QED
    BY <2>1, <2>2
<1> QED
  BY <1>1, <1>2, Zenon DEF Carries
-----------------------------------------------------------------------------
LEMMA PipeImplies == PipeInv => LosslessInOrder
<1> SUFFICES ASSUME PipeInv, viewer_at = "exited"
             PROVE  /\ trades_seen = made /\ Len(trades_seen) = trades_generated
                    /\ Len(reports_seen) = processed_commands
  BY Zenon DEF PipeInv, LosslessInOrder
<1>1. trades_seen \in Seq(Message) /\ made \in Seq(Message) /\ reports_seen \in Seq(Message)
      /\ processed_commands \in Nat /\ trades_generated \in Nat
  BY Zenon DEF PipeInv, TypeOK
<1>2. trade_queue = << >> /\ report_queue = << >> /\ engine_at = "exited"
  BY Zenon DEF PipeInv, Leaving
<1>3. Len(trade_queue) = 0 /\ Len(report_queue) = 0
  BY <1>2, SMT
<1>4. Len(made) = Len(trades_seen) /\ \A i \in 1..Len(trades_seen) : trades_seen[i] = made[0 + i]
  BY <1>1, <1>3, SMT DEF PipeInv, TradesFlow, Carries
<1>5. trades_seen = made
  BY <1>1, <1>4, SMT
<1> QED
  BY <1>1, <1>2, <1>3, <1>4, <1>5, SMT DEF PipeInv, Accounted, Reported

LEMMA PipeInit == Init => PipeInv
<1> SUFFICES ASSUME Init PROVE PipeInv
  OBVIOUS
<1>1. Len(order_queue) = 0 /\ Len(trade_queue) = 0 /\ Len(report_queue) = 0
      /\ Len(trades_seen) = 0 /\ Len(reports_seen) = 0 /\ Len(sent) = 0 /\ Len(made) = 0
      /\ order_queue \in Seq(Message) /\ trade_queue \in Seq(Message)
      /\ report_queue \in Seq(Report) /\ trades_seen \in Seq(Message)
      /\ reports_seen \in Seq(Message) /\ sent \in Seq(Message) /\ made \in Seq(Message)
  BY SMT DEF Init
<1>2. TypeOK
  <2>1. message \in Message /\ bbo \in [Best -> Nat] /\ view \in [Best -> Nat]
    BY SMT DEF Init, NewOrder, Message
  <2>2. /\ producer_done \in BOOLEAN /\ engine_done \in BOOLEAN /\ data_ok \in BOOLEAN
        /\ g_stop \in BOOLEAN /\ idle_exit \in BOOLEAN /\ journal_failed \in BOOLEAN
        /\ got_any \in BOOLEAN
    BY Zenon DEF Init
  <2>3. /\ processed_commands \in Nat /\ trades_generated \in Nat /\ trades \in Nat /\ left \in Nat
        /\ orders_pushed \in 0..Orders /\ 0 <= QueueCapacity
    BY PipelineAssumption, SMT DEF Init
  <2> QED
    BY <1>1, <2>1, <2>2, <2>3, Zenon DEF Init, TypeOK
<1>3. CommandsFlow /\ TradesFlow
  BY <1>1, SMT DEF Init, CommandsFlow, TradesFlow, Carries, Reported, InHand
<1>4. Accounted /\ BookLineRecent
  BY <1>1, SMT DEF Init, Accounted, BookLineRecent, Reported
<1>5. Leaving
  BY Zenon DEF Init, Leaving
<1> QED
  BY <1>2, <1>3, <1>4, <1>5 DEF PipeInv
-----------------------------------------------------------------------------
(* Types *)

LEMMA FeedTypes == TypeOK /\ Feed => TypeOK'
<1> SUFFICES ASSUME TypeOK, Feed PROVE TypeOK'
  OBVIOUS
<1>1. CASE FeedAttach
  BY <1>1, SMT DEF TypeOK, FeedAttach, AfterAttach, flags, counters, queues, command, control, seen, history
<1>2. ASSUME NEW m \in Message, pushMessage(m), orders_pushed' \in 0..Orders,
             feed_at' \in {"order", "cancel"}
      PROVE  TypeOK'
  <2>1. order_queue' \in Seq(Message) /\ Len(order_queue') <= QueueCapacity
        /\ sent' \in Seq(Message)
    BY <1>2, PipelineAssumption, SMT DEF TypeOK, pushMessage, HasSpace
  <2> QED
    BY <1>2, <2>1, SMT DEF TypeOK, pushMessage, flags, counters, command, control, seen
<1>3. CASE SendOrder
  <2>1. NewOrder(orders_pushed + 1) \in Message /\ orders_pushed' \in 0..Orders
        /\ feed_at' \in {"order", "cancel"}
    BY <1>3, PipelineAssumption, SMT DEF SendOrder, TypeOK, NewOrder, Message
  <2> QED
    BY <1>2, <1>3, <2>1, Zenon DEF SendOrder
<1>4. CASE SendCancel
  <2>1. CancelTarget(orders_pushed) \in Nat
    BY PipelineAssumption, SMT DEF CancelTarget, TypeOK
  <2>2. Cancel(CancelTarget(orders_pushed)) \in Message
    BY <2>1, SMT DEF Cancel, Message
  <2>3. orders_pushed' \in 0..Orders /\ feed_at' \in {"order", "cancel"}
    BY <1>4, SMT DEF SendCancel, TypeOK
  <2> QED
    BY <1>2, <1>4, <2>2, <2>3, Zenon DEF SendCancel
<1>5. CASE FeedDone
  BY <1>5, SMT DEF TypeOK, FeedDone, counters, queues, command, control, seen, history
<1> QED
  BY <1>1, <1>3, <1>4, <1>5 DEF Feed

LEMMA EngineTypes == TypeOK /\ (Engine \/ onSignal) => TypeOK'
<1> SUFFICES ASSUME TypeOK, Engine \/ onSignal PROVE TypeOK'
  OBVIOUS
<1>1. CASE Ready
  BY <1>1, SMT DEF TypeOK, Ready, counters, queues, feed, command, control, seen, history
<1>2. CASE EngineLoop
  BY <1>2, SMT DEF TypeOK, EngineLoop, flags, counters, queues, feed, command, control, seen, history
<1>3. CASE EnginePop
  <2>1. message' \in Message /\ order_queue' \in Seq(Message)
        /\ Len(order_queue') <= QueueCapacity
    BY <1>3, PipelineAssumption, SMT DEF TypeOK, EnginePop
  <2>2. trades' \in Nat /\ left' \in Nat
    <3>1. CASE UNCHANGED <<trades, left>>
      BY <3>1, SMT DEF TypeOK
    <3>2. CASE /\ trades' \in 0..(IF message'.type = "NEW_ORDER" THEN MaxTrades ELSE 0)
               /\ left' = trades'
      BY <3>2, PipelineAssumption, SMT
    <3> QED
      BY <1>3, <3>1, <3>2, Zenon DEF EnginePop
  <2>3. engine_at' \in {"final", "trades"} /\ journal_failed' \in BOOLEAN
    <3>1. journal_failed \in BOOLEAN
      BY Zenon DEF TypeOK
    <3> QED
      BY <1>3, <3>1, Zenon DEF EnginePop
  <2>4. UNCHANGED <<flags, counters, bbo, trade_queue, report_queue, feed, g_stop, idle_exit,
                    viewer_at, got_any, seen, history>>
    BY <1>3, Zenon DEF EnginePop
  <2> QED
    BY <2>1, <2>2, <2>3, <2>4, SMT DEF TypeOK, flags, counters, feed, seen, history
<1>4. CASE EngineIdle
  BY <1>4, SMT DEF TypeOK, EngineIdle, flags, counters, queues, feed, command, control, seen, history
<1>5. CASE PushTrade
  <2>1. trade_queue' \in Seq(Message) /\ Len(trade_queue') <= QueueCapacity
        /\ made' \in Seq(Message) /\ left' \in Nat
    BY <1>5, PipelineAssumption, SMT DEF TypeOK, PushTrade, HasSpace
  <2> QED
    BY <1>5, <2>1, SMT DEF TypeOK, PushTrade, flags, counters, feed, control, seen
<1>6. CASE PushReport
  <2>1. ReportOf(message, bbo) \in Report
    BY SMT DEF ReportOf, Report, TypeOK
  <2>2. report_queue' \in Seq(Report) /\ Len(report_queue') <= QueueCapacity
    BY <1>6, <2>1, PipelineAssumption, SMT DEF TypeOK, PushReport, HasSpace
  <2> QED
    BY <1>6, <2>2, SMT DEF TypeOK, PushReport, flags, counters, feed, command, control, seen, history
<1>7. CASE CountCommand
  <2>1. processed_commands' \in Nat /\ trades_generated' \in Nat /\ bbo' \in [Best -> Nat]
    BY <1>7, SMT DEF TypeOK, CountCommand, Published
  <2> QED
    BY <1>7, <2>1, SMT DEF TypeOK, CountCommand, flags, queues, feed, command, control, seen, history
<1>8. CASE EngineDone
  BY <1>8, SMT DEF TypeOK, EngineDone, counters, queues, feed, command, control, seen, history
<1>9. CASE onSignal
  BY <1>9, SMT DEF TypeOK, onSignal, flags, counters, queues, feed, command, seen, history
<1> QED
  BY <1>1, <1>2, <1>3, <1>4, <1>5, <1>6, <1>7, <1>8, <1>9 DEF Engine

LEMMA ViewerTypes == TypeOK /\ Viewer => TypeOK'
<1> SUFFICES ASSUME TypeOK, Viewer PROVE TypeOK'
  OBVIOUS
<1>1. CASE ViewerAttach
  BY <1>1, SMT DEF TypeOK, ViewerAttach, flags, counters, queues, feed, command, control, seen, history
<1>2. CASE DrainTrade
  <2>1. trade_queue' \in Seq(Message) /\ Len(trade_queue') <= QueueCapacity
        /\ trades_seen' \in Seq(Message)
    BY <1>2, PipelineAssumption, SMT DEF TypeOK, DrainTrade
  <2> QED
    BY <1>2, <2>1, SMT DEF TypeOK, DrainTrade, flags, counters, feed, command, control, history
<1>3. CASE DrainReport
  <2>1. Head(report_queue) \in Report /\ report_queue' \in Seq(Report)
        /\ Len(report_queue') <= QueueCapacity
    BY <1>3, PipelineAssumption, SMT DEF TypeOK, DrainReport
  <2>2. Head(report_queue).message \in Message /\ Head(report_queue).after \in [Best -> Nat]
    BY <2>1, SMT DEF Report
  <2>3. reports_seen' \in Seq(Message) /\ view' \in [Best -> Nat]
    BY <1>3, <2>2, SMT DEF TypeOK, DrainReport
  <2> QED
    BY <1>3, <2>1, <2>3, SMT DEF TypeOK, DrainReport, flags, counters, feed, command, control, history
<1>4. CASE Drained
  BY <1>4, SMT DEF TypeOK, Drained, flags, counters, queues, feed, command, control, seen, history
<1>5. CASE BookLine
  <2>1. view' \in [Best -> Nat]
    BY <1>5, SMT DEF TypeOK, BookLine, Best
  <2>2. viewer_at' \in {"trades", "done"} /\ got_any' \in BOOLEAN
        /\ UNCHANGED <<flags, counters, bbo, queues, feed, engine_at, command, control,
                       trades_seen, reports_seen, history>>
    BY <1>5, Zenon DEF BookLine
  <2> QED
    BY <2>1, <2>2, SMT DEF TypeOK, flags, counters, queues, feed, command, control, history
<1>6. CASE ExitCheck
  BY <1>6, SMT DEF TypeOK, ExitCheck, flags, counters, queues, feed, command, control, seen, history
<1> QED
  BY <1>1, <1>2, <1>3, <1>4, <1>5, <1>6 DEF Viewer

LEMMA PipeTypes == TypeOK /\ [Next]_vars => TypeOK'
<1> SUFFICES ASSUME TypeOK, [Next]_vars PROVE TypeOK'
  OBVIOUS
<1>1. CASE UNCHANGED vars
  BY <1>1, SMT DEF TypeOK, vars, flags, counters, queues, feed, command, control, seen, history
<1> QED
  BY <1>1, FeedTypes, EngineTypes, ViewerTypes, Zenon DEF Next, Terminated
-----------------------------------------------------------------------------
(* Commands *)

LEMMA Lengths ==
  ASSUME TypeOK
  PROVE  /\ Len(reports_seen) \in Nat /\ Len(report_queue) \in Nat /\ Len(order_queue) \in Nat
         /\ Len(sent) \in Nat /\ Len(trades_seen) \in Nat /\ Len(trade_queue) \in Nat
         /\ Len(made) \in Nat /\ Reported \in Nat /\ InHand \in {0, 1}
         /\ reports_seen \in Seq(Message) /\ report_queue \in Seq(Report)
         /\ order_queue \in Seq(Message) /\ sent \in Seq(Message) /\ message \in Message
         /\ trades_seen \in Seq(Message) /\ trade_queue \in Seq(Message) /\ made \in Seq(Message)
BY SMT DEF TypeOK, Reported, InHand

LEMMA Numbers ==
  ASSUME TypeOK
  PROVE  /\ processed_commands \in Nat /\ trades_generated \in Nat
         /\ trades \in Nat /\ left \in Nat
         /\ \A b \in Best : bbo[b] \in Nat /\ view[b] \in Nat
BY SMT DEF TypeOK

LEMMA CommandsUntouched ==
  ASSUME CommandsFlow, InHand' = InHand,
         UNCHANGED <<reports_seen, report_queue, message, order_queue, sent>>
  PROVE  CommandsFlow'
BY Zenon DEF CommandsFlow, Carries, Reported

LEMMA CommandPushed ==
  ASSUME TypeOK, CommandsFlow, NEW m \in Message, pushMessage(m) PROVE CommandsFlow'
<1>1. UNCHANGED <<reports_seen, report_queue, message, engine_at, journal_failed>>
  BY Zenon DEF pushMessage, command, control, seen
<1>2. InHand' = InHand /\ Reported' = Reported
  BY <1>1, Zenon DEF InHand, Reported
<1>3. order_queue' = Append(order_queue, m) /\ sent' = Append(sent, m)
  BY Zenon DEF pushMessage
<1> DEFINE n == Reported + InHand
<1>4. n \in Nat /\ Len(sent) = n + Len(order_queue) /\ Carries(order_queue, sent, n)
  BY Lengths, SMT DEF CommandsFlow
<1>5. Carries(order_queue', sent', n) /\ Len(order_queue') = Len(order_queue) + 1
      /\ Len(sent') = Len(sent) + 1
  <2>1. order_queue \in Seq(Message) /\ sent \in Seq(Message)
    BY Lengths
  <2>2. /\ Carries(Append(order_queue, m), Append(sent, m), n)
        /\ Len(Append(order_queue, m)) = Len(order_queue) + 1
        /\ Len(Append(sent, m)) = Len(sent) + 1
    BY <1>4, <2>1, Pushed
  <2> QED
    BY <1>3, <2>2, Zenon
<1>6. Carries(reports_seen', sent', 0)
  <2>1. 0 + Len(reports_seen) <= Len(sent) /\ 0 \in Nat
    BY <1>4, Lengths, SMT DEF Reported
  <2> QED
    BY <1>1, <1>3, <2>1, Lengths, Extended, Zenon DEF CommandsFlow
<1>7. \A k \in 1..Len(sent) : sent'[k] = sent[k]
  BY <1>3, Lengths, SMT
<1>8. ASSUME NEW i \in 1..Len(report_queue)
      PROVE  report_queue[i].message = sent'[Len(reports_seen) + i]
  <2>1. Len(reports_seen) + i \in 1..Len(sent)
    BY <1>4, Lengths, SMT DEF Reported
  <2> QED
    BY <1>7, <2>1, Zenon DEF CommandsFlow
<1>9. InHand = 1 => message = sent'[Reported + 1]
  <2> SUFFICES ASSUME InHand = 1 PROVE message = sent'[Reported + 1]
    OBVIOUS
  <2>1. Reported + 1 \in 1..Len(sent)
    BY <1>4, Lengths, SMT
  <2> QED
    BY <1>7, <2>1, Zenon DEF CommandsFlow
<1>10. Len(sent') = Reported + InHand + Len(order_queue')
  BY <1>4, <1>5, Lengths, SMT
<1> QED
  BY <1>1, <1>2, <1>5, <1>6, <1>8, <1>9, <1>10, Zenon DEF CommandsFlow

LEMMA CommandPopped ==
  ASSUME TypeOK, CommandsFlow, Leaving, EnginePop PROVE CommandsFlow'
<1>1. UNCHANGED <<reports_seen, report_queue, sent>> /\ order_queue # << >>
      /\ message' = Head(order_queue) /\ order_queue' = Tail(order_queue)
  BY Zenon DEF EnginePop, seen, history
<1>2. engine_at = "loop" /\ ~journal_failed
  BY Zenon DEF EnginePop, Leaving
<1>3. InHand = 0 /\ Reported' = Reported
  BY <1>1, <1>2, Zenon DEF InHand, Reported
<1>4. InHand' = 1
  BY Zenon DEF EnginePop, InHand
<1>5. Reported \in Nat /\ Carries(order_queue, sent, Reported)
      /\ Len(sent) = Reported + Len(order_queue)
  BY <1>3, Lengths, SMT DEF CommandsFlow
<1>6. /\ message' = sent[Reported + 1] /\ Carries(order_queue', sent, Reported + 1)
      /\ Len(order_queue') = Len(order_queue) - 1
  <2>1. order_queue \in Seq(Message) /\ sent \in Seq(Message)
    BY Lengths
  <2> QED
    BY <1>1, <1>5, <2>1, Popped, Zenon
<1>7. Len(sent) = Reported + 1 + Len(order_queue')
  BY <1>5, <1>6, Lengths, SMT
<1> QED
  BY <1>1, <1>3, <1>4, <1>6, <1>7, Zenon DEF CommandsFlow

LEMMA CommandReported ==
  ASSUME TypeOK, CommandsFlow, Leaving, PushReport PROVE CommandsFlow'
<1>1. UNCHANGED <<reports_seen, message, order_queue, sent, journal_failed>>
      /\ engine_at = "trades" /\ engine_at' = "count"
      /\ report_queue' = Append(report_queue, ReportOf(message, bbo))
  BY Zenon DEF PushReport, command, control, seen, history
<1>2. ~journal_failed /\ InHand = 1 /\ InHand' = 0
  <2>1. ~journal_failed
    BY <1>1, Zenon DEF Leaving
  <2> QED
    BY <1>1, <2>1, Zenon DEF InHand
<1>3. message = sent[Reported + 1] /\ Carries(order_queue, sent, Reported + 1)
      /\ Len(sent) = Reported + 1 + Len(order_queue)
  BY <1>2, Zenon DEF CommandsFlow
<1>4. ReportOf(message, bbo) \in Report /\ ReportOf(message, bbo).message = message
  BY SMT DEF ReportOf, Report, TypeOK
<1>5. /\ Len(report_queue') = Len(report_queue) + 1
      /\ report_queue'[Len(report_queue) + 1] = ReportOf(message, bbo)
      /\ \A i \in 1..Len(report_queue) : report_queue'[i] = report_queue[i]
  BY <1>1, <1>4, Lengths, SMT
<1>6. Reported' = Reported + 1
  BY <1>1, <1>5, Lengths, SMT DEF Reported
<1>7. ASSUME NEW i \in 1..Len(report_queue')
      PROVE  report_queue'[i].message = sent[Len(reports_seen) + i]
  <2>1. CASE i \in 1..Len(report_queue)
    BY <1>5, <2>1, Zenon DEF CommandsFlow
  <2>2. CASE i = Len(report_queue) + 1
    <3>1. Len(reports_seen) + i = Reported + 1
      BY <2>2, Lengths, SMT DEF Reported
    <3> QED
      BY <1>3, <1>4, <1>5, <2>2, <3>1, Zenon
  <2> QED
    BY <1>5, <2>1, <2>2, Lengths, SMT
<1>8. Reported + 1 + 0 = Reported + 1
  BY Lengths, SMT
<1> QED
  BY <1>1, <1>2, <1>3, <1>6, <1>7, <1>8, Zenon DEF CommandsFlow

LEMMA ReportDrained ==
  ASSUME TypeOK, CommandsFlow, DrainReport
  PROVE  /\ CommandsFlow' /\ Reported' = Reported
         /\ Len(reports_seen') = Len(reports_seen) + 1
         /\ Len(report_queue') = Len(report_queue) - 1
         /\ \A i \in 1..Len(report_queue') : report_queue'[i] = report_queue[i + 1]
         /\ Head(report_queue) = report_queue[1] /\ 1 \in 1..Len(report_queue)
<1>1. UNCHANGED <<message, order_queue, sent, engine_at, journal_failed>>
      /\ report_queue # << >> /\ report_queue' = Tail(report_queue)
      /\ reports_seen' = Append(reports_seen, Head(report_queue).message)
  BY Zenon DEF DrainReport, command, control, history
<1>2. /\ Len(report_queue') = Len(report_queue) - 1 /\ 1 \in 1..Len(report_queue)
      /\ Head(report_queue) = report_queue[1] /\ Head(report_queue) \in Report
      /\ \A i \in 1..Len(report_queue') : report_queue'[i] = report_queue[i + 1]
  BY <1>1, Lengths, SMT
<1>3. Head(report_queue).message = sent[Len(reports_seen) + 1]
  BY <1>2, Zenon DEF CommandsFlow
<1>4. Head(report_queue).message \in Message
  BY <1>2, SMT DEF Report
<1>5. Carries(reports_seen', sent, 0) /\ Len(reports_seen') = Len(reports_seen) + 1
  <2>1. Carries(reports_seen, sent, 0) /\ reports_seen \in Seq(Message) /\ sent \in Seq(Message)
    BY Lengths, Zenon DEF CommandsFlow
  <2> QED
    BY <1>1, <1>3, <1>4, <2>1, Collected, Zenon
<1>6. Reported' = Reported
  BY <1>2, <1>5, Lengths, SMT DEF Reported
<1>7. ASSUME NEW i \in 1..Len(report_queue')
      PROVE  report_queue'[i].message = sent[Len(reports_seen') + i]
  <2>1. i + 1 \in 1..Len(report_queue) /\ Len(reports_seen') + i = Len(reports_seen) + (i + 1)
    BY <1>2, <1>5, Lengths, SMT
  <2> QED
    BY <1>2, <2>1, Zenon DEF CommandsFlow
<1>8. InHand' = InHand
  BY <1>1, Zenon DEF InHand
<1>9. CommandsFlow'
  BY <1>1, <1>5, <1>6, <1>7, <1>8, Zenon DEF CommandsFlow
<1> QED
  BY <1>2, <1>5, <1>6, <1>9

LEMMA CommandsKept == TypeOK /\ CommandsFlow /\ Leaving /\ [Next]_vars => CommandsFlow'
<1> SUFFICES ASSUME TypeOK, CommandsFlow, Leaving, [Next]_vars PROVE CommandsFlow'
  OBVIOUS
<1>1. CASE SendOrder
  <2>1. NewOrder(orders_pushed + 1) \in Message
    BY SMT DEF TypeOK, NewOrder, Message
  <2> QED
    BY <1>1, <2>1, CommandPushed, Zenon DEF SendOrder
<1>2. CASE SendCancel
  <2>1. CancelTarget(orders_pushed) \in Nat
    BY PipelineAssumption, SMT DEF CancelTarget, TypeOK
  <2>2. Cancel(CancelTarget(orders_pushed)) \in Message
    BY <2>1, SMT DEF Cancel, Message
  <2> QED
    BY <1>2, <2>2, CommandPushed, Zenon DEF SendCancel
<1>3. CASE EnginePop \/ PushReport \/ DrainReport
  BY <1>3, CommandPopped, CommandReported, ReportDrained, Zenon
<1>4. ASSUME UNCHANGED <<reports_seen, report_queue, message, order_queue, sent, journal_failed>>,
             (engine_at = "trades") = (engine_at' = "trades")
      PROVE  CommandsFlow'
  <2>1. InHand' = InHand
    BY <1>4, Zenon DEF InHand
  <2> QED
    BY <1>4, <2>1, CommandsUntouched, Zenon
<1>5. CASE FeedAttach \/ FeedDone \/ onSignal \/ UNCHANGED vars
  BY <1>4, <1>5, Zenon DEF FeedAttach, FeedDone, onSignal, vars, queues, command, control, seen, history
<1>6. CASE Ready \/ EngineLoop \/ EngineIdle \/ PushTrade \/ CountCommand \/ EngineDone
  <2>1. UNCHANGED <<reports_seen, report_queue, message, order_queue, sent, journal_failed>>
    BY <1>6, Zenon DEF Ready, EngineLoop, EngineIdle, PushTrade, CountCommand, EngineDone, queues,
                       command, control, seen, history
  <2>2. (engine_at = "trades") = (engine_at' = "trades")
    BY <1>6, Zenon DEF Ready, EngineLoop, EngineIdle, PushTrade, CountCommand, EngineDone
  <2> QED
    BY <1>4, <2>1, <2>2, Zenon
<1>7. CASE ViewerAttach \/ DrainTrade \/ Drained \/ BookLine \/ ExitCheck
  BY <1>4, <1>7, Zenon DEF ViewerAttach, DrainTrade, Drained, BookLine, ExitCheck, queues, command,
                           control, seen, history
<1> QED
  BY <1>1, <1>2, <1>3, <1>5, <1>6, <1>7, Zenon DEF Next, Feed, Engine, Viewer, Terminated
-----------------------------------------------------------------------------
(* Trades *)

LEMMA TradesKept == TypeOK /\ TradesFlow /\ [Next]_vars => TradesFlow'
<1> SUFFICES ASSUME TypeOK, TradesFlow, [Next]_vars PROVE TradesFlow'
  OBVIOUS
<1>1. CASE PushTrade
  <2>1. trade_queue' = Append(trade_queue, message) /\ made' = Append(made, message)
        /\ UNCHANGED trades_seen
    BY <1>1, Zenon DEF PushTrade, seen
  <2>2. /\ Carries(Append(trade_queue, message), Append(made, message), Len(trades_seen))
        /\ Len(Append(trade_queue, message)) = Len(trade_queue) + 1
        /\ Len(Append(made, message)) = Len(made) + 1
    <3>1. /\ trade_queue \in Seq(Message) /\ made \in Seq(Message) /\ message \in Message
          /\ Len(trades_seen) \in Nat /\ Carries(trade_queue, made, Len(trades_seen))
          /\ Len(made) = Len(trades_seen) + Len(trade_queue)
      BY Lengths, Zenon DEF TradesFlow
    <3> QED
      BY <3>1, Pushed
  <2>3. Carries(trades_seen, Append(made, message), 0)
    <3>1. 0 + Len(trades_seen) <= Len(made) /\ 0 \in Nat
      BY Lengths, SMT DEF TradesFlow
    <3> QED
      BY <3>1, Lengths, Extended, Zenon DEF TradesFlow
  <2>4. Len(made') = Len(trades_seen) + Len(trade_queue')
    BY <2>1, <2>2, Lengths, SMT DEF TradesFlow
  <2> QED
    BY <2>1, <2>2, <2>3, <2>4, Zenon DEF TradesFlow
<1>2. CASE DrainTrade
  <2>1. trade_queue' = Tail(trade_queue) /\ trades_seen' = Append(trades_seen, Head(trade_queue))
        /\ trade_queue # << >> /\ UNCHANGED made
    BY <1>2, Zenon DEF DrainTrade, history
  <2>2. /\ Len(Tail(trade_queue)) = Len(trade_queue) - 1 /\ Head(trade_queue) \in Message
        /\ Head(trade_queue) = made[Len(trades_seen) + 1]
        /\ Carries(Tail(trade_queue), made, Len(trades_seen) + 1)
    <3>1. /\ trade_queue \in Seq(Message) /\ made \in Seq(Message)
          /\ Len(trades_seen) \in Nat /\ Carries(trade_queue, made, Len(trades_seen))
      BY Lengths, Zenon DEF TradesFlow
    <3> QED
      BY <2>1, <3>1, Popped, Zenon
  <2>3. /\ Carries(Append(trades_seen, Head(trade_queue)), made, 0)
        /\ Len(Append(trades_seen, Head(trade_queue))) = Len(trades_seen) + 1
    BY <2>2, Lengths, Collected, Zenon DEF TradesFlow
  <2>4. Len(made) = Len(trades_seen') + Len(trade_queue')
    BY <2>1, <2>2, <2>3, Lengths, SMT DEF TradesFlow
  <2> QED
    BY <2>1, <2>2, <2>3, <2>4, Zenon DEF TradesFlow
<1>3. CASE UNCHANGED <<trades_seen, trade_queue, made>>
  BY <1>3, Zenon DEF TradesFlow, Carries
<1>4. CASE Feed \/ onSignal \/ UNCHANGED vars
  BY <1>3, <1>4, Zenon DEF Feed, FeedAttach, SendOrder, SendCancel, pushMessage, FeedDone, onSignal,
                           vars, queues, seen, history
<1>5. CASE Engine
  BY <1>1, <1>3, <1>5, Zenon DEF Engine, Ready, EngineLoop, EnginePop, EngineIdle, PushReport,
                                 CountCommand, EngineDone, queues, seen, history
<1>6. CASE Viewer
  BY <1>2, <1>3, <1>6, Zenon DEF Viewer, ViewerAttach, DrainReport, Drained, BookLine, ExitCheck,
                                 queues, seen, history
<1> QED
  BY <1>4, <1>5, <1>6, Zenon DEF Next, Terminated
-----------------------------------------------------------------------------
(* Counters and best prices *)

\* What Accounted and BookLineRecent speak of, but for the queue of reports.
LEMMA CountsUntouched ==
  ASSUME Accounted, BookLineRecent,
         UNCHANGED <<left, trades, Reported, counters, bbo, Len(made), report_queue, reports_seen,
                     view>>,
         (engine_at = "trades") = (engine_at' = "trades"),
         (engine_at = "count") = (engine_at' = "count")
  PROVE  Accounted' /\ BookLineRecent'
BY Zenon DEF Accounted, BookLineRecent, counters

LEMMA Counted ==
  ASSUME TypeOK, Accounted, BookLineRecent, CountCommand
  PROVE  Accounted' /\ BookLineRecent'
<1>1. /\ engine_at = "count" /\ engine_at' = "loop"
      /\ processed_commands' = processed_commands + 1
      /\ trades_generated' = trades_generated + trades
      /\ bbo' = [b \in Best |-> processed_commands + 1]
      /\ UNCHANGED <<left, trades, report_queue, reports_seen, made, view>>
  BY Zenon DEF CountCommand, Published, command, queues, seen, history
<1>2. Reported' = Reported /\ Reported = processed_commands + 1
      /\ Len(made) = trades_generated + trades
  BY <1>1, Zenon DEF Accounted, Reported
<1>3. \A b \in Best : bbo'[b] = processed_commands'
  BY <1>1, Zenon
<1>4. Reported' = processed_commands' + 0 /\ Len(made') = trades_generated' + 0
  BY <1>1, <1>2, Lengths, Numbers, SMT
<1>5. Accounted'
  BY <1>1, <1>3, <1>4, Zenon DEF Accounted
<1>6. ASSUME NEW b \in Best PROVE Len(reports_seen') <= view'[b] + 1 /\ view'[b] <= bbo'[b]
  <2>1. Len(reports_seen) <= view[b] + 1 /\ view[b] <= processed_commands /\ view[b] \in Nat
    BY Numbers, SMT DEF BookLineRecent, Accounted
  <2> QED
    BY <1>1, <1>3, <2>1, Numbers, SMT
<1> QED
  BY <1>5, <1>6, Zenon DEF BookLineRecent

LEMMA ReportCounted ==
  ASSUME TypeOK, Accounted, BookLineRecent, Leaving, PushReport
  PROVE  Accounted' /\ BookLineRecent'
<1>1. /\ engine_at = "trades" /\ engine_at' = "count" /\ left = 0
      /\ report_queue' = Append(report_queue, ReportOf(message, bbo))
      /\ UNCHANGED <<left, trades, counters, bbo, reports_seen, made, view>>
  BY Zenon DEF PushReport, command, seen, history
<1>2. Reported = processed_commands + 0 /\ Len(made) = trades_generated + (trades - left)
  BY <1>1, Zenon DEF Accounted
<1>3. ReportOf(message, bbo) \in Report /\ ReportOf(message, bbo).after = bbo
  BY SMT DEF ReportOf, Report, TypeOK
<1>4. /\ Len(report_queue') = Len(report_queue) + 1
      /\ report_queue'[Len(report_queue) + 1] = ReportOf(message, bbo)
      /\ \A i \in 1..Len(report_queue) : report_queue'[i] = report_queue[i]
  BY <1>1, <1>3, Lengths, SMT
<1>5. Reported' = processed_commands + 1 /\ Len(made) = trades_generated + trades
  BY <1>1, <1>2, <1>4, Lengths, Numbers, SMT DEF Reported
<1>6. ASSUME NEW i \in 1..Len(report_queue'), NEW b \in Best
      PROVE  report_queue'[i].after[b] + 1 = Len(reports_seen) + i
  <2>1. CASE i \in 1..Len(report_queue)
    BY <1>4, <2>1, Zenon DEF Accounted
  <2>2. CASE i = Len(report_queue) + 1
    <3>1. report_queue'[i].after[b] = processed_commands
      BY <1>3, <1>4, <2>2, Zenon DEF Accounted
    <3> QED
      BY <1>2, <2>2, <3>1, Lengths, Numbers, SMT DEF Reported
  <2> QED
    BY <1>4, <2>1, <2>2, Lengths, SMT
<1>7. Accounted'
  BY <1>1, <1>5, <1>6, Zenon DEF Accounted, counters
<1> QED
  BY <1>1, <1>7, Zenon DEF BookLineRecent

LEMMA DrainCounted ==
  ASSUME TypeOK, CommandsFlow, Accounted, BookLineRecent, DrainReport
  PROVE  Accounted' /\ BookLineRecent'
<1>1. /\ UNCHANGED <<engine_at, left, trades, counters, bbo, made>>
      /\ view' = [b \in Best |-> IF view[b] < Head(report_queue).after[b]
                                 THEN Head(report_queue).after[b] ELSE view[b]]
  BY Zenon DEF DrainReport, command, history
<1>2. /\ Reported' = Reported /\ Len(reports_seen') = Len(reports_seen) + 1
      /\ Len(report_queue') = Len(report_queue) - 1
      /\ \A i \in 1..Len(report_queue') : report_queue'[i] = report_queue[i + 1]
      /\ Head(report_queue) = report_queue[1] /\ 1 \in 1..Len(report_queue)
  BY ReportDrained, Zenon
<1>3. ASSUME NEW i \in 1..Len(report_queue'), NEW b \in Best
      PROVE  report_queue'[i].after[b] + 1 = Len(reports_seen') + i
  <2>1. i + 1 \in 1..Len(report_queue) /\ Len(reports_seen) + (i + 1) = Len(reports_seen') + i
    BY <1>2, Lengths, SMT
  <2> QED
    BY <1>2, <2>1, Zenon DEF Accounted
<1>4. Accounted'
  BY <1>1, <1>2, <1>3, Zenon DEF Accounted, counters
<1>5. ASSUME NEW b \in Best PROVE Len(reports_seen') <= view'[b] + 1 /\ view'[b] <= bbo[b]
  <2>1. Head(report_queue).after[b] + 1 = Len(reports_seen) + 1
    BY <1>2, Zenon DEF Accounted
  <2>2. bbo[b] = processed_commands /\ Reported <= processed_commands + 1
    BY Lengths, Numbers, SMT DEF Accounted
  <2>3. view[b] \in Nat /\ view[b] <= bbo[b] /\ Head(report_queue).after[b] \in Nat
    <3>1. Head(report_queue) \in Report
      BY <1>2, Lengths, SMT
    <3> QED
      BY <3>1, SMT DEF TypeOK, Report, BookLineRecent
  <2>4. view'[b] = IF view[b] < Head(report_queue).after[b]
                   THEN Head(report_queue).after[b] ELSE view[b]
    BY <1>1, Zenon
  <2>5. PICK h \in Nat, v \in Nat, p \in Nat, n \in Nat :
          h = Head(report_queue).after[b] /\ v = view[b] /\ p = bbo[b] /\ n = Len(reports_seen)
    BY <2>3, Lengths, Numbers, Zenon
  <2>6. h + 1 = n + 1 /\ n + 1 <= p + 1 /\ v <= p
    <3>1. Len(reports_seen) + 1 <= Reported
      BY <1>2, Lengths, SMT DEF Reported
    <3> QED
      BY <2>1, <2>2, <2>3, <2>5, <3>1, Lengths, Numbers, SMT
  <2>7. view'[b] = IF v < h THEN h ELSE v
    BY <2>4, <2>5, Zenon
  <2>8. n + 1 <= (IF v < h THEN h ELSE v) + 1 /\ (IF v < h THEN h ELSE v) <= p
    BY <2>6, SMT
  <2> QED
    BY <1>2, <2>5, <2>7, <2>8, Zenon
<1> QED
  BY <1>1, <1>4, <1>5, Zenon DEF BookLineRecent

LEMMA CountsKept ==
  PipeInv /\ [Next]_vars => Accounted' /\ BookLineRecent'
<1> SUFFICES ASSUME PipeInv, [Next]_vars PROVE Accounted' /\ BookLineRecent'
  OBVIOUS
<1> USE DEF PipeInv
<1>1. CASE CountCommand \/ PushReport \/ DrainReport
  BY <1>1, Counted, ReportCounted, DrainCounted, Zenon
<1>2. CASE EnginePop
  <2>1. /\ UNCHANGED <<counters, bbo, report_queue, reports_seen, made, view>>
        /\ engine_at = "loop" /\ engine_at' \in {"trades", "final"}
    BY <1>2, Zenon DEF EnginePop, seen, history
  <2>2. Reported' = Reported /\ Reported = processed_commands + 0
        /\ Len(made) = trades_generated + 0
    BY <2>1, Zenon DEF Accounted, Reported
  <2>3. left' \in Nat /\ trades' \in Nat /\ left' <= trades'
        /\ (engine_at' = "trades" => left' = trades')
    <3>1. CASE UNCHANGED <<trades, left>> /\ engine_at' = "final"
      BY <3>1, Numbers, SMT DEF Accounted
    <3>2. CASE /\ trades' \in 0..(IF message'.type = "NEW_ORDER" THEN MaxTrades ELSE 0)
               /\ left' = trades'
      BY <3>2, PipelineAssumption, SMT
    <3> QED
      BY <1>2, <3>1, <3>2, Zenon DEF EnginePop
  <2>4. Len(made) = trades_generated + (IF engine_at' = "trades" THEN trades' - left'
                                        ELSE IF engine_at' = "count" THEN trades' ELSE 0)
    BY <2>1, <2>2, <2>3, Numbers, SMT
  <2>5. engine_at' # "count"
    BY <2>1, Zenon
  <2> QED
    BY <2>1, <2>2, <2>3, <2>4, <2>5, Zenon DEF Accounted, BookLineRecent, counters
<1>3. CASE PushTrade
  <2>1. /\ UNCHANGED <<counters, bbo, report_queue, reports_seen, trades, view, engine_at>>
        /\ engine_at = "trades" /\ left > 0 /\ left' = left - 1 /\ made' = Append(made, message)
    BY <1>3, Zenon DEF PushTrade, seen
  <2>2. Len(made') = Len(made) + 1
    BY <2>1, Lengths, SMT
  <2>3. Len(made) = trades_generated + (trades - left) /\ left <= trades
    BY <2>1, Zenon DEF Accounted
  <2>4. Len(made') = trades_generated + (trades - left') /\ left' <= trades
    <3>1. PICK n \in Nat : n = Len(made)
      BY Lengths, Zenon
    <3> QED
      BY <2>1, <2>2, <2>3, <3>1, Numbers, SMT
  <2>5. Reported' = Reported
    BY <2>1, Zenon DEF Reported
  <2> QED
    BY <2>1, <2>4, <2>5, Zenon DEF Accounted, BookLineRecent, counters
<1>4. CASE BookLine
  <2>1. UNCHANGED <<left, trades, counters, bbo, report_queue, reports_seen, made, engine_at>>
    BY <1>4, Zenon DEF BookLine, command, queues, history
  <2>2. Accounted'
    BY <2>1, Zenon DEF Accounted, Reported, counters
  <2>3. \A b \in Best : view[b] <= view'[b] /\ view'[b] <= bbo[b] /\ view'[b] \in Nat
    <3>1. \A b \in Best : view[b] <= bbo[b] /\ view[b] \in Nat /\ bbo[b] \in Nat
      BY Numbers, Zenon DEF BookLineRecent
    <3>2. CASE UNCHANGED view
      BY <3>1, <3>2, SMT
    <3>3. ASSUME NEW bid \in view["best_bid"]..bbo["best_bid"],
                 NEW ask \in view["best_ask"]..bbo["best_ask"],
                 view' = [b \in Best |-> IF b = "best_bid" THEN bid ELSE ask]
          PROVE  \A b \in Best : view[b] <= view'[b] /\ view'[b] <= bbo[b] /\ view'[b] \in Nat
      BY <3>1, <3>3, SMT DEF Best
    <3> QED
      BY <1>4, <3>2, <3>3, Zenon DEF BookLine
  <2>4. ASSUME NEW b \in Best PROVE Len(reports_seen') <= view'[b] + 1 /\ view'[b] <= bbo'[b]
    <3>1. PICK n \in Nat : n = Len(reports_seen)
      BY Lengths, Zenon
    <3>2. n <= view[b] + 1 /\ view[b] \in Nat
      BY <3>1, Numbers, Zenon DEF BookLineRecent
    <3>3. n <= view'[b] + 1
      BY <2>3, <3>2, SMT
    <3> QED
      BY <2>1, <2>3, <3>1, <3>3, Zenon
  <2> QED
    BY <2>2, <2>4, Zenon DEF BookLineRecent
<1>5. ASSUME UNCHANGED <<left, trades, counters, bbo, report_queue, reports_seen, made, view>>,
             (engine_at = "trades") = (engine_at' = "trades"),
             (engine_at = "count") = (engine_at' = "count")
      PROVE  Accounted' /\ BookLineRecent'
  <2>1. Reported' = Reported
    BY <1>5, Zenon DEF Reported
  <2> QED
    BY <1>5, <2>1, CountsUntouched, Zenon
<1>6. CASE Feed \/ onSignal \/ UNCHANGED vars
  BY <1>5, <1>6, Zenon DEF Feed, FeedAttach, SendOrder, SendCancel, pushMessage, FeedDone, onSignal,
                           vars, command, queues, seen, history
<1>7. CASE Ready \/ EngineLoop \/ EngineIdle \/ EngineDone
  <2>1. UNCHANGED <<left, trades, counters, bbo, report_queue, reports_seen, made, view>>
    BY <1>7, Zenon DEF Ready, EngineLoop, EngineIdle, EngineDone, command, queues, seen, history
  <2>2. engine_at \notin {"trades", "count"} /\ engine_at' \notin {"trades", "count"}
    BY <1>7, Zenon DEF Ready, EngineLoop, EngineIdle, EngineDone
  <2> QED
    BY <1>5, <2>1, <2>2, Zenon
<1>8. CASE ViewerAttach \/ DrainTrade \/ Drained \/ ExitCheck
  BY <1>5, <1>8, Zenon DEF ViewerAttach, DrainTrade, Drained, ExitCheck, command, queues, seen, history
<1> QED
  BY <1>1, <1>2, <1>3, <1>4, <1>6, <1>7, <1>8, Zenon DEF Next, Feed, Engine, Viewer, Terminated
-----------------------------------------------------------------------------
(* Leaving *)

LEMMA LeavingKept == Leaving /\ [Next]_vars => Leaving'
<1> SUFFICES ASSUME Leaving, [Next]_vars PROVE Leaving'
  OBVIOUS
<1>1. CASE Feed \/ onSignal \/ UNCHANGED vars
  <2>1. UNCHANGED <<engine_done, engine_at, journal_failed, viewer_at, trade_queue, report_queue>>
    BY <1>1, Zenon DEF Feed, FeedAttach, SendOrder, SendCancel, pushMessage, FeedDone, onSignal,
                       vars, flags, queues, control
  <2> QED
    BY <2>1, Zenon DEF Leaving
<1>2. CASE Engine
  <2>1. ~engine_done /\ viewer_at \notin {"empty_trades", "empty_reports", "exited"}
    BY <1>2, Zenon DEF Leaving, Engine, Ready, EngineLoop, EnginePop, EngineIdle, PushTrade, PushReport,
                       CountCommand, EngineDone
  <2>2. UNCHANGED viewer_at
    BY <1>2, Zenon DEF Engine, Ready, EngineLoop, EnginePop, EngineIdle, PushTrade, PushReport,
                       CountCommand, EngineDone
  <2>3. engine_done' => engine_at' = "exited"
    BY <1>2, <2>1, Zenon DEF Engine, Ready, EngineLoop, EnginePop, EngineIdle, PushTrade, PushReport,
                             CountCommand, EngineDone, flags
  <2>4. journal_failed' => engine_at' \in {"final", "exited"}
    BY <1>2, Zenon DEF Leaving, Engine, Ready, EngineLoop, EnginePop, EngineIdle, PushTrade, PushReport,
                       CountCommand, EngineDone, control
  <2> QED
    BY <2>1, <2>2, <2>3, <2>4, Zenon DEF Leaving
<1>3. CASE Viewer
  <2>1. UNCHANGED <<engine_done, engine_at, journal_failed>>
    BY <1>3, Zenon DEF Viewer, ViewerAttach, DrainTrade, DrainReport, Drained, BookLine, ExitCheck,
                       flags, control
  <2>2. CASE viewer_at' \in {"empty_trades", "empty_reports", "exited"}
    <3>1. ExitCheck
      BY <1>3, <2>2, Zenon DEF Viewer, ViewerAttach, DrainTrade, DrainReport, Drained, BookLine
    <3>2. UNCHANGED <<trade_queue, report_queue>>
      BY <3>1, Zenon DEF ExitCheck, queues
    <3> QED
      BY <2>1, <2>2, <3>1, <3>2, Zenon DEF ExitCheck, Empty, Leaving
  <2>3. CASE viewer_at' \notin {"empty_trades", "empty_reports", "exited"}
    BY <2>1, <2>3, Zenon DEF Leaving
  <2> QED
    BY <2>2, <2>3
<1> QED
  BY <1>1, <1>2, <1>3, Zenon DEF Next, Terminated

LEMMA PipeStep == PipeInv /\ [Next]_vars => PipeInv'
BY PipeTypes, CommandsKept, TradesKept, CountsKept, LeavingKept, Zenon DEF PipeInv

LEMMA PipeAlways == Spec => []PipeInv
BY PipeInit, PipeStep, PTL DEF Spec

\* Feed, engine and viewer lose, duplicate and reorder nothing, and a viewer that
\* has left has seen everything (matching_engine_main.cpp, market_viewer.cpp).
THEOREM NothingLost == Spec => []LosslessInOrder
BY PipeAlways, PipeImplies, PTL

\* The best prices that the viewer prints are at most one command older than the
\* last report it has popped (publishBook, and the line of market_viewer.cpp).
THEOREM LineIsRecent == Spec => []BookLineRecent
<1>1. PipeInv => BookLineRecent
  BY DEF PipeInv
<1> QED
  BY <1>1, PipeAlways, PTL
-----------------------------------------------------------------------------
(* Cancels *)

\* Every order up to orders_pushed has been sent, and sendOrder cancels only after
\* it has pushed an order.
FeedInv ==
  /\ CancelsKnown
  /\ \A n \in 1..orders_pushed : \E j \in 1..Len(sent) : sent[j] = NewOrder(n)
  /\ feed_at = "cancel" => orders_pushed > 0 /\ NoUnderflow

LEMMA Multiple ==
  ASSUME NEW n \in Nat \ {0}, NEW k \in Nat \ {0}, n % k = 0 PROVE n >= k \div 2
<1>1. n >= k
  BY SMT
<1>2. k \div 2 <= k /\ k \div 2 \in Nat
  BY SMT
<1> QED
  BY <1>1, <1>2, SMT

LEMMA CancelTargetRange ==
  ASSUME NEW pushed \in Nat \ {0} PROVE CancelTarget(pushed) \in 1..pushed
<1>1. CancelEvery \div 2 \in Nat
  BY PipelineAssumption, SMT
<1> QED
  BY <1>1, SMT DEF CancelTarget

LEMMA FeedStep == TypeOK /\ FeedInv /\ [Next]_vars => FeedInv'
<1> SUFFICES ASSUME TypeOK, FeedInv, [Next]_vars PROVE FeedInv'
  OBVIOUS
<1>1. sent \in Seq(Message) /\ orders_pushed \in Nat
  BY SMT DEF TypeOK
<1>2. CASE SendOrder
  <2>1. /\ sent' = Append(sent, NewOrder(orders_pushed + 1))
        /\ orders_pushed' = orders_pushed + 1
    BY <1>2, Zenon DEF SendOrder, pushMessage
  <2>2. /\ Len(sent') = Len(sent) + 1 /\ sent'[Len(sent) + 1] = NewOrder(orders_pushed + 1)
        /\ \A i \in 1..Len(sent) : sent'[i] = sent[i]
        /\ Len(sent) \in Nat
    BY <1>1, <2>1, SMT DEF NewOrder, Message
  <2>3. CancelsKnown'
    <3>1. NewOrder(orders_pushed + 1).type # "CANCEL_ORDER"
      BY SMT DEF NewOrder
    <3>2. ASSUME NEW i \in 1..Len(sent'), sent'[i].type = "CANCEL_ORDER"
          PROVE  \E j \in 1..(i - 1) : sent'[j] = NewOrder(sent'[i].id)
      <4>1. i \in 1..Len(sent) /\ sent'[i] = sent[i]
        BY <2>2, <3>1, <3>2, SMT
      <4>2. PICK j \in 1..(i - 1) : sent[j] = NewOrder(sent[i].id)
        BY <3>2, <4>1, Zenon DEF FeedInv, CancelsKnown
      <4>3. j \in 1..Len(sent)
        BY <2>2, <4>1, <4>2, SMT
      <4> QED
        BY <2>2, <4>1, <4>2, <4>3, Zenon
    <3> QED
      BY <3>2, Zenon DEF CancelsKnown
  <2>4. ASSUME NEW n \in 1..orders_pushed' PROVE \E j \in 1..Len(sent') : sent'[j] = NewOrder(n)
    <3>1. CASE n = orders_pushed + 1
      <4>1. Len(sent) + 1 \in 1..Len(sent')
        BY <2>2, SMT
      <4> QED
        BY <2>2, <3>1, <4>1, Zenon
    <3>2. CASE n # orders_pushed + 1
      <4>1. n \in 1..orders_pushed
        BY <1>1, <2>1, <3>2, SMT
      <4>2. PICK j \in 1..Len(sent) : sent[j] = NewOrder(n)
        BY <4>1, Zenon DEF FeedInv
      <4>3. j \in 1..Len(sent')
        BY <2>2, <4>2, SMT
      <4> QED
        BY <2>2, <4>2, <4>3, Zenon
    <3> QED
      BY <3>1, <3>2
  <2>5. orders_pushed' > 0 /\ orders_pushed' \in Nat \ {0}
    BY <1>1, <2>1, SMT
  <2>6. ASSUME feed_at' = "cancel" PROVE orders_pushed' >= CancelEvery \div 2
    <3>1. CancelEvery > 0 /\ orders_pushed' % CancelEvery = 0
      BY <1>2, <2>6, SMT DEF SendOrder
    <3>2. CancelEvery \in Nat \ {0}
      BY <3>1, PipelineAssumption, SMT
    <3> QED
      BY <2>5, <3>1, <3>2, Multiple, Zenon
  <2> QED
    BY <2>3, <2>4, <2>5, <2>6, Zenon DEF FeedInv, NoUnderflow
<1>3. CASE SendCancel
  <2> DEFINE target == CancelTarget(orders_pushed)
  <2>1. /\ sent' = Append(sent, Cancel(target)) /\ orders_pushed' = orders_pushed
        /\ feed_at = "cancel" /\ feed_at' = "order"
    BY <1>3, Zenon DEF SendCancel, pushMessage
  <2>2. target \in 1..orders_pushed
    BY <1>1, <2>1, CancelTargetRange, SMT DEF FeedInv
  <2>3. target \in Nat
    BY <2>2, SMT
  <2> HIDE DEF target
  <2>4. /\ Len(sent') = Len(sent) + 1 /\ sent'[Len(sent) + 1] = Cancel(target)
        /\ \A i \in 1..Len(sent) : sent'[i] = sent[i]
        /\ Len(sent) \in Nat
    BY <1>1, <2>1, <2>3, SMT DEF Cancel, Message
  <2>5. CancelsKnown'
    <3>1. ASSUME NEW i \in 1..Len(sent'), sent'[i].type = "CANCEL_ORDER"
          PROVE  \E j \in 1..(i - 1) : sent'[j] = NewOrder(sent'[i].id)
      <4>1. CASE i = Len(sent) + 1
        <5>1. PICK j \in 1..Len(sent) : sent[j] = NewOrder(target)
          BY <2>2, Zenon DEF FeedInv
        <5>2. j \in 1..(i - 1)
          BY <2>4, <4>1, <5>1, SMT
        <5>3. Cancel(target).id = target
          BY SMT DEF Cancel
        <5> QED
          BY <2>4, <4>1, <5>1, <5>2, <5>3, Zenon
      <4>2. CASE i # Len(sent) + 1
        <5>1. i \in 1..Len(sent)
          BY <2>4, <4>2, SMT
        <5>2. PICK j \in 1..(i - 1) : sent[j] = NewOrder(sent[i].id)
          BY <2>4, <3>1, <5>1, Zenon DEF FeedInv, CancelsKnown
        <5>3. j \in 1..Len(sent)
          BY <2>4, <5>1, <5>2, SMT
        <5> QED
          BY <2>4, <5>1, <5>2, <5>3, Zenon
      <4> QED
        BY <4>1, <4>2
    <3> QED
      BY <3>1, Zenon DEF CancelsKnown
  <2>6. ASSUME NEW n \in 1..orders_pushed' PROVE \E j \in 1..Len(sent') : sent'[j] = NewOrder(n)
    <3>1. PICK j \in 1..Len(sent) : sent[j] = NewOrder(n)
      BY <2>1, Zenon DEF FeedInv
    <3>2. j \in 1..Len(sent')
      BY <2>4, <3>1, SMT
    <3> QED
      BY <2>4, <3>1, <3>2, Zenon
  <2> QED
    BY <2>1, <2>5, <2>6, Zenon DEF FeedInv
<1>4. ASSUME UNCHANGED <<sent, orders_pushed>>, feed_at' = "cancel" => feed_at = "cancel"
      PROVE  FeedInv'
  BY <1>4, Zenon DEF FeedInv, CancelsKnown, NoUnderflow
<1>5. CASE FeedAttach \/ FeedDone \/ onSignal \/ UNCHANGED vars
  BY <1>4, <1>5, Zenon DEF FeedAttach, AfterAttach, FeedDone, onSignal, vars, feed, history
<1>6. CASE Engine
  BY <1>4, <1>6, Zenon DEF Engine, Ready, EngineLoop, EnginePop, EngineIdle, PushTrade, PushReport,
                           CountCommand, EngineDone, feed, history
<1>7. CASE Viewer
  BY <1>4, <1>7, Zenon DEF Viewer, ViewerAttach, DrainTrade, DrainReport, Drained, BookLine, ExitCheck,
                           feed, history
<1> QED
  BY <1>2, <1>3, <1>5, <1>6, <1>7, Zenon DEF Next, Feed, Terminated

\* sendOrder of feed_handler.cpp cancels only orders it has pushed before, whatever
\* --cancel-every is, and its unsigned subtraction never wraps.
THEOREM CancelsFollowOrders == Spec => [](CancelsKnown /\ NoUnderflow)
<1>1. Init => FeedInv
  BY SMT DEF Init, FeedInv, CancelsKnown
<1>2. PipeInv => TypeOK
  BY DEF PipeInv
<1>3. FeedInv => CancelsKnown /\ NoUnderflow
  BY Zenon DEF FeedInv, NoUnderflow
<1> QED
  BY <1>1, <1>2, <1>3, FeedStep, PipeAlways, PTL DEF Spec
=============================================================================
