---------------------------- MODULE RiskManager ----------------------------
(***************************************************************************)
(* The pre-trade risk layer (include/risk_manager.hpp,                     *)
(* src/risk_manager.cpp): configurable limits and an atomic kill switch.   *)
(***************************************************************************)
EXTENDS Orders, Sequences, FiniteSetsExt

CONSTANT RiskLimitsChoices   \* the limits the engine may be configured with

RiskLimits == [max_order_quantity : Nat,
               min_limit_price    : Int,
               max_limit_price    : Int,
               max_order_notional : Nat,
               max_active_orders  : Nat]

ASSUME RiskAssumption == RiskLimitsChoices \subseteq RiskLimits

VARIABLES limits,       \* limits_
          kill_switch   \* kill_switch_

risk == <<limits, kill_switch>>

RiskTypeOK == limits \in RiskLimitsChoices /\ kill_switch \in BOOLEAN
RiskInit == limits \in RiskLimitsChoices /\ kill_switch = FALSE

\* A chain of early returns: the reason of the first check that fails.
FirstFailure(checks) ==
  LET failing == {i \in DOMAIN checks : checks[i].fails}
  IN  IF failing = {} THEN "NONE" ELSE checks[Min(failing)].reason

Check(fails, reason) == [fails |-> fails, reason |-> reason]

\* price * quantity exceeds the limit, computed without the product (which
\* could overflow 64 bits).
ExceedsNotional(price, quantity, max_notional) ==
  quantity # 0 /\ price > max_notional \div quantity

RiskChecks(order, active_orders, may_add_active_order) ==
  << Check(kill_switch, "RISK_KILL_SWITCH"),
     Check(order.quantity > limits.max_order_quantity, "RISK_MAX_ORDER_QUANTITY"),
     Check(order.type = "LIMIT" /\ \/ order.price < limits.min_limit_price
                                   \/ order.price > limits.max_limit_price,
           "RISK_PRICE_OUT_OF_RANGE"),
     Check(order.type = "LIMIT" /\ ExceedsNotional(order.price, order.quantity,
                                                   limits.max_order_notional),
           "RISK_MAX_NOTIONAL"),
     Check(may_add_active_order /\ active_orders >= limits.max_active_orders,
           "RISK_MAX_ACTIVE_ORDERS") >>

\* Seeded fault: the number of active orders is not limited.
validateWithoutCap(order, active_orders, may_add_active_order) ==
  FirstFailure(RiskChecks(order, active_orders, FALSE))

validate(order, active_orders, may_add_active_order) ==
  FirstFailure(RiskChecks(order, active_orders, may_add_active_order))

setKillSwitch(enabled) == kill_switch' = enabled /\ UNCHANGED limits
setLimits(new_limits) == limits' = new_limits /\ UNCHANGED kill_switch
=============================================================================
