-------------------------- MODULE MCMatchingEngine --------------------------
EXTENDS MatchingEngineAudit, TLC

MCOrder(id, side, type, tif, flags, price, quantity) ==
  [id |-> id, side |-> side, type |-> type, time_in_force |-> tif,
   flags |-> flags, price |-> price, quantity |-> quantity, sequence |-> 0]

\* Well-formed orders: every side, price and quantity, as a resting order, a
\* post-only order, an IOC and a FOK; and market orders, whose price is 0.
MCLimitOrders(tifs, prices, quantities) ==
  {MCOrder(i, s, "LIMIT", t, {}, p, q) :
     i \in Id, s \in Side, t \in tifs, p \in prices, q \in quantities}
MCPostOnlyOrders(prices, quantities) ==
  {MCOrder(i, s, "LIMIT", "GTC", {"POST_ONLY"}, p, q) :
     i \in Id, s \in Side, p \in prices, q \in quantities}
MCMarketOrders(tifs, quantities) ==
  {MCOrder(i, s, "MARKET", t, {}, 0, q) :
     i \in Id, s \in Side, t \in tifs, q \in quantities}

\* One order for each static check, which fails that check first.
MCMalformed(id) ==
  {MCOrder(0, "BUY", "LIMIT", "GTC", {}, 1, 1),
   MCOrder(id, INVALID, "LIMIT", "GTC", {}, 1, 1),
   MCOrder(id, "BUY", INVALID, "GTC", {}, 1, 1),
   MCOrder(id, "BUY", "LIMIT", INVALID, {}, 1, 1),
   MCOrder(id, "BUY", "LIMIT", "GTC", {"OTHER"}, 1, 1),
   MCOrder(id, "SELL", "LIMIT", "GTC", {}, 1, 0),
   MCOrder(id, "SELL", "LIMIT", "IOC", {}, 0, 1),
   MCOrder(id, "BUY", "MARKET", "GTC", {}, 0, 1),
   MCOrder(id, "SELL", "LIMIT", "FOK", {"POST_ONLY"}, 1, 1)}

\* Every kind of order, malformed ones included, in short histories.
MCAllKinds ==
  MCLimitOrders(TimeInForce, 1..2, 1..2) \cup MCPostOnlyOrders(1..2, {1})
  \cup MCMarketOrders({"IOC", "FOK"}, 1..2)
  \cup UNION {MCMalformed(i) : i \in Id}

\* Fewer kinds, in longer histories: asks of two sizes at two prices build up
\* queues, bids that sweep part of them or all of them.
MCSweep ==
  {MCOrder(i, "SELL", "LIMIT", "GTC", {}, p, q) : i \in Id, p \in 1..2, q \in 1..2}
  \cup {MCOrder(i, "BUY", "LIMIT", "GTC", {}, 1, 2) : i \in Id}
  \cup {MCOrder(i, "BUY", "LIMIT", "FOK", {}, 2, 3) : i \in Id}
  \cup {MCOrder(i, "BUY", "MARKET", "IOC", {}, 0, 3) : i \in Id}

\* MCTight refuses some order of MCSweep for each of its bounds: sizes of 3,
\* prices of 2, values of 2 and a second active order.
MCLoose == [max_order_quantity |-> 9, min_limit_price |-> 1,
            max_limit_price |-> 9, max_order_notional |-> 99,
            max_active_orders |-> 9]
MCTight == [max_order_quantity |-> 2, min_limit_price |-> 1,
            max_limit_price |-> 1, max_order_notional |-> 1,
            max_active_orders |-> 1]
MCNoLimits == {MCLoose}
MCLooseAndTight == {MCLoose, MCTight}

MCSymmetry == Permutations(Id)
=============================================================================
