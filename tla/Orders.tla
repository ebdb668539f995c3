------------------------------- MODULE Orders ------------------------------
(***************************************************************************)
(* The order record (include/order.hpp) and the comparisons of it that the *)
(* book, the risk layer and the engine share.                              *)
(*                                                                         *)
(* An identifier is 0 (the code's "no id") or a member of Id.  An enum     *)
(* whose underlying integer may hold a value outside the enumerators (the  *)
(* reason isValidSide and its siblings exist) has the extra code INVALID.  *)
(* Flags are the set of bits that are on; "OTHER" stands for the seven     *)
(* bits that have no name.                                                 *)
(***************************************************************************)
EXTENDS Integers

CONSTANTS Id,        \* client order ids other than 0
          MaxPrice   \* largest price the price type can hold

ASSUME OrderAssumption == 0 \notin Id /\ MaxPrice \in Nat \ {0}

INVALID == "INVALID"

Side == {"BUY", "SELL"}
OrderType == {"LIMIT", "MARKET"}
TimeInForce == {"GTC", "IOC", "FOK"}
OrderFlags == {"POST_ONLY"}

\* Everything a caller can put into the struct.  A price above MaxPrice does
\* not exist; a negative one does.
Order == [id : Id \cup {0},
          side : Side \cup {INVALID},
          type : OrderType \cup {INVALID},
          time_in_force : TimeInForce \cup {INVALID},
          flags : SUBSET (OrderFlags \cup {"OTHER"}),
          price : {p \in Int : p <= MaxPrice},
          quantity : Nat,
          sequence : Nat]

\* A default-constructed order.
NoOrder == [id |-> 0, side |-> "BUY", type |-> "LIMIT", time_in_force |-> "GTC",
            flags |-> {}, price |-> 0, quantity |-> 0, sequence |-> 0]

RejectReason ==
  {"NONE", "INVALID_ORDER_ID", "INVALID_SIDE", "INVALID_ORDER_TYPE",
   "INVALID_TIME_IN_FORCE", "INVALID_ORDER_FLAGS", "INVALID_QUANTITY",
   "INVALID_LIMIT_PRICE", "MARKET_ORDER_CANNOT_BE_GTC",
   "POST_ONLY_REQUIRES_GTC_LIMIT", "DUPLICATE_ORDER_ID", "RISK_KILL_SWITCH",
   "RISK_MAX_ORDER_QUANTITY", "RISK_PRICE_OUT_OF_RANGE", "RISK_MAX_NOTIONAL",
   "RISK_MAX_ACTIVE_ORDERS", "POST_ONLY_WOULD_TRADE", "FOK_NOT_FILLABLE",
   "ORDER_NOT_FOUND"}

ExecutionStatus ==
  {"REJECTED", "RESTING", "PARTIALLY_FILLED", "FILLED", "CANCELED", "EXPIRED"}

hasFlag(order, flag) == flag \in order.flags

Opposite(side) == IF side = "BUY" THEN "SELL" ELSE "BUY"

\* p comes before q in the map of that side's levels: std::greater for the
\* buy side, std::less for the sell side.
Better(side, p, q) == IF side = "BUY" THEN p > q ELSE p < q

\* Seeded fault: equal prices do not trade.
CrossesStrictly(order, price) ==
  \/ order.type = "MARKET"
  \/ IF order.side = "BUY" THEN order.price > price ELSE order.price < price

\* An incoming order may trade at a price of the opposite side.
Crosses(order, price) ==
  \/ order.type = "MARKET"
  \/ IF order.side = "BUY" THEN order.price >= price ELSE order.price <= price
=============================================================================
