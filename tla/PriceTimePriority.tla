------------------------- MODULE PriceTimePriority -------------------------
(***************************************************************************)
(* What a matching engine promises its clients, without levels, lists,     *)
(* cached totals or an index: resting orders are a set, and an incoming    *)
(* order trades, one fill at a time, with the eligible resting order that  *)
(* has the best price and, at that price, the earliest arrival.            *)
(***************************************************************************)
EXTENDS Orders, Sequences, FiniteSetsExt

CONSTANT OrderInputs

VARIABLES resting,   \* the set of resting orders
          taker,     \* the order now executing, or NoOrder
          used,      \* ids of admitted orders
          clock,     \* commands so far: the arrival time of an order
          tape,      \* fills of the last order
          outcome    \* what its client was told about the last command

market == <<resting, taker, used, clock, tape, outcome>>

NoOutcome == [id |-> 0, status |-> "REJECTED", reason |-> "NONE",
              executed |-> 0, remaining |-> 0]

Init ==
  /\ resting = {} /\ taker = NoOrder /\ used = {} /\ clock = 0
  /\ tape = << >> /\ outcome = NoOutcome

\* The resting orders o may trade with.
Eligible(o) ==
  {m \in resting : m.side = Opposite(o.side) /\ Crosses(o, m.price)}

Ahead(m, n) ==
  \/ Better(m.side, m.price, n.price)
  \/ m.price = n.price /\ m.sequence < n.sequence

Quantity(orders) == MapThenSumSet(LAMBDA o : o.quantity, orders)

Malformed(o) ==
  \/ o.id = 0 \/ o.side \notin Side \/ o.type \notin OrderType
  \/ o.time_in_force \notin TimeInForce \/ o.flags \ OrderFlags # {}
  \/ o.quantity = 0
  \/ o.type = "LIMIT" /\ o.price <= 0
  \/ o.type = "MARKET" /\ o.time_in_force = "GTC"
  \/ "POST_ONLY" \in o.flags /\ (o.type # "LIMIT" \/ o.time_in_force # "GTC")

RiskReasons ==
  {"RISK_KILL_SWITCH", "RISK_MAX_ORDER_QUANTITY", "RISK_PRICE_OUT_OF_RANGE",
   "RISK_MAX_NOTIONAL", "RISK_MAX_ACTIVE_ORDERS"}

\* The reason given for a refusal is true.
Justified(o, reason) ==
  CASE reason = "DUPLICATE_ORDER_ID"    -> o.id \in used
    [] reason = "POST_ONLY_WOULD_TRADE" -> "POST_ONLY" \in o.flags /\ Eligible(o) # {}
    [] reason = "FOK_NOT_FILLABLE"      -> /\ o.time_in_force = "FOK"
                                           /\ Quantity(Eligible(o)) < o.quantity
    [] reason \in RiskReasons           -> ~Malformed(o)
    [] OTHER                            -> Malformed(o)

Refuse(o, reason) ==
  /\ taker = NoOrder /\ reason # "NONE"
  /\ outcome' = [id |-> o.id, status |-> "REJECTED", reason |-> reason,
                 executed |-> 0, remaining |-> o.quantity]
  /\ Justified(o, reason)
  /\ clock' = clock + 1 /\ tape' = << >>
  /\ UNCHANGED <<resting, taker, used>>

Admit(o) ==
  /\ taker = NoOrder /\ taker' = [o EXCEPT !.sequence = clock + 1]
  /\ ~Malformed(o) /\ o.id \notin used
  /\ "POST_ONLY" \in o.flags => Eligible(o) = {}
  /\ o.time_in_force = "FOK" => Quantity(Eligible(o)) >= o.quantity
  /\ used' = used \cup {o.id}
  /\ clock' = clock + 1 /\ tape' = << >>
  /\ UNCHANGED <<resting, outcome>>

\* One fill, at the resting order's price.
Fill(maker) ==
  LET quantity == Min({taker.quantity, maker.quantity})
      rest     == [maker EXCEPT !.quantity = @ - quantity]
  IN  /\ taker # NoOrder /\ taker.quantity > 0
      /\ maker \in Eligible(taker)
      /\ \A other \in Eligible(taker) \ {maker} : Ahead(maker, other)
      /\ resting' = (resting \ {maker})
                    \cup (IF rest.quantity = 0 THEN {} ELSE {rest})
      /\ taker' = [taker EXCEPT !.quantity = @ - quantity]
      /\ tape' = Append(tape,
                   [buy      |-> IF taker.side = "BUY" THEN taker.id ELSE maker.id,
                    sell     |-> IF taker.side = "BUY" THEN maker.id ELSE taker.id,
                    price    |-> maker.price,
                    quantity |-> quantity])
      /\ UNCHANGED <<used, clock, outcome>>

\* Nothing is left, or nothing left may trade.  Only the remainder of a GTC
\* limit order stays.
Close(o) ==
  LET rests    == o.quantity > 0 /\ o.type = "LIMIT" /\ o.time_in_force = "GTC"
      executed == MapThenSumSet(LAMBDA n : tape[n].quantity, DOMAIN tape)
  IN  /\ taker # NoOrder /\ o = taker
      /\ o.quantity = 0 \/ Eligible(o) = {}
      /\ resting' = resting \cup (IF rests THEN {o} ELSE {})
      /\ taker' = NoOrder
      /\ outcome' = [id |-> o.id, reason |-> "NONE",
                     status |-> CASE o.quantity = 0 -> "FILLED"
                                  [] o.quantity > 0 /\ executed > 0 -> "PARTIALLY_FILLED"
                                  [] OTHER -> IF rests THEN "RESTING" ELSE "EXPIRED",
                     executed |-> executed, remaining |-> o.quantity]
      /\ UNCHANGED <<used, clock, tape>>

Withdraw(id) ==
  LET mine == {m \in resting : m.id = id}
  IN  /\ taker = NoOrder
      /\ resting' = resting \ mine
      /\ outcome' = [NoOutcome EXCEPT
                       !.id = id,
                       !.status = IF mine = {} THEN "REJECTED" ELSE "CANCELED",
                       !.reason = IF mine # {} THEN "NONE"
                                  ELSE IF id = 0 THEN "INVALID_ORDER_ID"
                                                 ELSE "ORDER_NOT_FOUND"]
      /\ clock' = clock + 1 /\ tape' = << >>
      /\ UNCHANGED <<taker, used>>

Next ==
  \/ \E o \in OrderInputs : Admit(o)
  \/ \E reason \in RejectReason : /\ outcome'.reason = reason
                                  /\ \E o \in OrderInputs : Refuse(o, reason)
  \/ \E maker \in resting : Fill(maker)
  \/ Close(taker)
  \/ \E id \in Id \cup {0} : Withdraw(id)

Spec == Init /\ [][Next]_market
=============================================================================
