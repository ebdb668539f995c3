--------------------------- MODULE MatchingEngine ---------------------------
(***************************************************************************)
(* The single-writer matching engine (include/matching_engine.hpp,         *)
(* src/matching_engine.cpp) over one OrderBook and one RiskManager.        *)
(*                                                                         *)
(* processOrder is a call of several steps: ProcessOrder decides, and      *)
(* either rejects and returns or accepts; MatchStep is one iteration of    *)
(* the matching loop; FinishOrder rests or drops the remainder, fills in   *)
(* the report and returns.  Only the atomic kill switch may change between *)
(* the steps of a call, since any thread may set it.  cancel is one step.  *)
(***************************************************************************)
EXTENDS OrderBook, RiskManager

CONSTANT MaxSequence   \* largest value of the event sequence counter

ASSUME EngineAssumption == MaxSequence \in Nat

VARIABLES seen_order_ids,    \* ids of accepted orders, kept for ever
          sequence,          \* events so far
          next_trade_id,
          accepted_orders, rejected_orders, canceled_orders,
          pc,                \* "idle", or "match" inside an accepted call
          order,             \* the call's order; its quantity is what is left
          requested,         \* the call's requested_quantity
          trades,            \* out_trades of the last call
          report             \* the report the last call returned

engine == <<seen_order_ids, sequence, next_trade_id, accepted_orders,
            rejected_orders, canceled_orders>>
call == <<pc, order, requested, trades, report>>
vars == <<book, risk, engine, call>>

Trade == [trade_id : Nat, price : Price, quantity : Nat, sequence : Nat,
          buy_order_id : Id, sell_order_id : Id]

ExecutionReport ==
  [order_id : Id \cup {0}, sequence : Nat,
   command : {"NEW_ORDER", "CANCEL_ORDER"},
   status : ExecutionStatus, reject_reason : RejectReason,
   requested_quantity : Nat, executed_quantity : Nat,
   remaining_quantity : Nat, trade_count : Nat]

NoReport == [order_id |-> 0, sequence |-> 0, command |-> "NEW_ORDER",
             status |-> "REJECTED", reject_reason |-> "NONE",
             requested_quantity |-> 0, executed_quantity |-> 0,
             remaining_quantity |-> 0, trade_count |-> 0]

Init ==
  /\ BookInit /\ RiskInit
  /\ seen_order_ids = {} /\ sequence = 0 /\ next_trade_id = 1
  /\ accepted_orders = 0 /\ rejected_orders = 0 /\ canceled_orders = 0
  /\ pc = "idle" /\ order = NoOrder /\ requested = 0
  /\ trades = << >> /\ report = NoReport
-----------------------------------------------------------------------------
(* processOrder: the decision *)

IsGtcLimit(o) == o.type = "LIMIT" /\ o.time_in_force = "GTC"

StaticChecks(o) ==
  << Check(o.id = 0, "INVALID_ORDER_ID"),
     Check(o.side \notin Side, "INVALID_SIDE"),
     Check(o.type \notin OrderType, "INVALID_ORDER_TYPE"),
     Check(o.time_in_force \notin TimeInForce, "INVALID_TIME_IN_FORCE"),
     Check(o.flags \ OrderFlags # {}, "INVALID_ORDER_FLAGS"),
     Check(o.quantity = 0, "INVALID_QUANTITY"),
     Check(o.type = "LIMIT" /\ o.price <= 0, "INVALID_LIMIT_PRICE"),
     Check(o.type = "MARKET" /\ o.time_in_force = "GTC",
           "MARKET_ORDER_CANNOT_BE_GTC"),
     Check(hasFlag(o, "POST_ONLY") /\ ~IsGtcLimit(o),
           "POST_ONLY_REQUIRES_GTC_LIMIT") >>

\* Seeded fault: the id is not looked at.
validateStaticButId(o) == FirstFailure(Tail(StaticChecks(o)))

validateStatic(o) == FirstFailure(StaticChecks(o))

\* The checks against the state: duplicate id, risk, post-only, fill-or-kill.
StateChecks(o) ==
  LET executable == executableQuantity(o, o.quantity)
      may_add    == IsGtcLimit(o) /\ executable < o.quantity
      risk_says  == validate(o, orderCount, may_add)
  IN  << Check(o.id \in seen_order_ids, "DUPLICATE_ORDER_ID"),
         Check(risk_says # "NONE", risk_says),
         Check(hasFlag(o, "POST_ONLY") /\ wouldCross(o), "POST_ONLY_WOULD_TRADE"),
         Check(o.time_in_force = "FOK" /\ executable < o.quantity,
               "FOK_NOT_FILLABLE") >>

\* Seeded faults: one of the checks against the state is missing.
ReasonSkipping(o, i) ==
  IF validateStatic(o) # "NONE" THEN validateStatic(o)
                                ELSE FirstFailure(EraseAt(StateChecks(o), i))
ReasonSkippingDuplicates(o) == ReasonSkipping(o, 1)
ReasonSkippingFok(o) == ReasonSkipping(o, 4)

\* Why processOrder rejects o in this state, "NONE" if it accepts it.
RejectReasonFor(o) ==
  IF validateStatic(o) # "NONE" THEN validateStatic(o)
                                ELSE FirstFailure(StateChecks(o))

Reject(o, reason) ==
  /\ rejected_orders' = rejected_orders + 1
  /\ report' = [NoReport EXCEPT !.order_id = o.id,
                                !.sequence = sequence + 1,
                                !.reject_reason = reason,
                                !.requested_quantity = o.quantity,
                                !.remaining_quantity = o.quantity]
  /\ UNCHANGED <<book, seen_order_ids, accepted_orders, pc, order, requested>>

Accept(o) ==
  /\ seen_order_ids' = seen_order_ids \cup {o.id}
  /\ accepted_orders' = accepted_orders + 1
  /\ order' = [o EXCEPT !.sequence = sequence + 1]
  /\ requested' = o.quantity
  /\ pc' = "match"
  /\ UNCHANGED <<book, rejected_orders, report>>

ProcessOrder(o) ==
  /\ pc = "idle" /\ sequence < MaxSequence
  /\ sequence' = sequence + 1
  /\ trades' = << >>
  /\ \/ RejectReasonFor(o) # "NONE" /\ Reject(o, RejectReasonFor(o))
     \/ RejectReasonFor(o) = "NONE" /\ Accept(o)
  /\ UNCHANGED <<risk, next_trade_id, canceled_orders>>
-----------------------------------------------------------------------------
(* processOrder: the matching loop and the return *)

\* The loop goes round once more.
LoopContinues ==
  /\ order.quantity > 0
  /\ ~emptySide(Opposite(order.side))
  /\ Crosses(order, frontOfBest(Opposite(order.side)).price)

TradeWith(best, quantity) ==
  [trade_id      |-> next_trade_id,
   price         |-> best.price,
   quantity      |-> quantity,
   sequence      |-> order.sequence,
   buy_order_id  |-> IF order.side = "BUY" THEN order.id ELSE best.id,
   sell_order_id |-> IF order.side = "BUY" THEN best.id ELSE order.id]

MatchStep ==
  /\ pc = "match" /\ LoopContinues
  /\ LET opposite == Opposite(order.side)
         best     == frontOfBest(opposite)
         traded   == Min({order.quantity, best.quantity})
     IN  /\ trades' = Append(trades, TradeWith(best, traded))
         /\ reduceFront(opposite, traded)
         /\ order' = [order EXCEPT !.quantity = @ - traded]
  /\ next_trade_id' = next_trade_id + 1
  /\ UNCHANGED <<risk, seen_order_ids, sequence, accepted_orders,
                 rejected_orders, canceled_orders, pc, requested, report>>

\* Seeded fault: a remainder rests only if nothing traded.
ShouldRestUntouched ==
  order.quantity > 0 /\ order.quantity = requested /\ IsGtcLimit(order)

ShouldRest == order.quantity > 0 /\ IsGtcLimit(order)

FinalStatus ==
  LET executed == requested - order.quantity
  IN  CASE order.quantity = 0 -> "FILLED"
        [] order.quantity > 0 /\ executed > 0 -> "PARTIALLY_FILLED"
        [] order.quantity > 0 /\ executed = 0 /\ ShouldRest -> "RESTING"
        [] order.quantity > 0 /\ executed = 0 /\ ~ShouldRest -> "EXPIRED"

FinishOrder ==
  /\ pc = "match" /\ ~LoopContinues
  /\ IF ShouldRest THEN addOrder(order) ELSE UNCHANGED book
  /\ report' = [order_id           |-> order.id,
                sequence           |-> order.sequence,
                command            |-> "NEW_ORDER",
                status             |-> FinalStatus,
                reject_reason      |-> "NONE",
                requested_quantity |-> requested,
                executed_quantity  |-> requested - order.quantity,
                remaining_quantity |-> order.quantity,
                trade_count        |-> Len(trades)]
  /\ pc' = "idle" /\ order' = NoOrder /\ requested' = 0
  /\ UNCHANGED <<risk, engine, trades>>
-----------------------------------------------------------------------------
(* cancel, and the risk controls *)

CancelReport(id, status, reason, quantity) ==
  [order_id |-> id, sequence |-> sequence + 1, command |-> "CANCEL_ORDER",
   status |-> status, reject_reason |-> reason, requested_quantity |-> quantity,
   executed_quantity |-> 0, remaining_quantity |-> 0, trade_count |-> 0]

Cancel(id) ==
  /\ pc = "idle" /\ sequence < MaxSequence
  /\ sequence' = sequence + 1
  /\ cancelOrder(id)
  /\ \/ /\ contains(id)
        /\ canceled_orders' = canceled_orders + 1
        /\ report' = CancelReport(id, "CANCELED", "NONE", OrderOf(id).quantity)
     \/ /\ ~contains(id)
        /\ report' = CancelReport(id, "REJECTED", IF id = 0 THEN "INVALID_ORDER_ID"
                                                           ELSE "ORDER_NOT_FOUND", 0)
        /\ UNCHANGED canceled_orders
  /\ trades' = << >>
  /\ UNCHANGED <<risk, seen_order_ids, next_trade_id, accepted_orders,
                 rejected_orders, pc, order, requested>>

\* Any thread, at any time: the switch is an atomic.
SetKillSwitch(enabled) ==
  setKillSwitch(enabled) /\ UNCHANGED <<book, engine, call>>

\* Only the engine's own thread, between calls: the limits are plain fields.
SetLimits(new_limits) ==
  pc = "idle" /\ setLimits(new_limits) /\ UNCHANGED <<book, engine, call>>

Next ==
  \/ \E o \in OrderInputs : ProcessOrder(o)
  \/ MatchStep
  \/ FinishOrder
  \/ \E id \in Id \cup {0} : Cancel(id)
  \/ \E enabled \in BOOLEAN : SetKillSwitch(enabled)
  \/ \E new_limits \in RiskLimitsChoices : SetLimits(new_limits)

Spec == Init /\ [][Next]_vars
-----------------------------------------------------------------------------
(* Correctness *)

\* Every variable has its type.
TypeOK ==
  /\ BookTypeOK /\ RiskTypeOK
  /\ seen_order_ids \subseteq Id
  /\ sequence \in 0..MaxSequence
  /\ next_trade_id \in Nat \ {0}
  /\ accepted_orders \in Nat /\ rejected_orders \in Nat /\ canceled_orders \in Nat
  /\ pc \in {"idle", "match"}
  /\ order \in Order /\ requested \in Nat
  /\ trades \in Seq(Trade) /\ report \in ExecutionReport

\* Each level's list is in arrival order, whatever was cancelled or filled in
\* between: sequences strictly increase and none is from the future.
ArrivalOrder == BookInOrder(sequence)

\* The assert after the loop of processOrder: an accepted order with a
\* remainder to rest is insertable (its id is not in the book, whatever
\* orders with that id came and went before).
RemainderInsertable ==
  pc = "match" /\ ~LoopContinues /\ ShouldRest => Insertable(order)

\* An accepted fill-or-kill order leaves the loop fully executed: the
\* preflight over cached totals never promises more than the loop delivers.
FokFillsCompletely ==
  pc = "match" /\ order.time_in_force = "FOK" /\ ~LoopContinues
    => order.quantity = 0

\* An accepted post-only order never takes liquidity.
PostOnlyNeverTakes ==
  pc = "match" /\ hasFlag(order, "POST_ONLY") => trades = << >> /\ ~LoopContinues

\* No order ever trades with an earlier order of the same id: ids are consumed
\* for the lifetime of the engine.
NoSelfTrade ==
  \A n \in DOMAIN trades : trades[n].buy_order_id # trades[n].sell_order_id

\* Every iteration of the loop consumes quantity of the incoming order: no
\* empty resting order can keep the loop going for ever.
FillsProgress ==
  [][trades' # trades /\ trades' # << >> => order'.quantity < order.quantity]_vars

\* A step that puts an order into the book leaves at most max_active_orders
\* there, although the limit was checked before the loop ran, and not at all
\* when the preflight said the order would fill.
ActiveOrdersCapped ==
  [][DOMAIN locations' \ DOMAIN locations # {}
       => orderCount' <= limits.max_active_orders]_vars
=============================================================================
