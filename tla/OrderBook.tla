----------------------------- MODULE OrderBook -----------------------------
(***************************************************************************)
(* The price-time-priority limit order book (include/order_book.hpp,       *)
(* src/order_book.cpp): two maps from price to a FIFO level with a cached  *)
(* total, and an index from order id to the place of the order.            *)
(*                                                                         *)
(* levels[side] is the map of that side, as a function whose domain is the *)
(* set of prices present.  locations is the index.  The list iterator an   *)
(* index entry holds denotes the element of its level's list that carries  *)
(* the entry's id, so it is not stored: Position finds it.                 *)
(***************************************************************************)
EXTENDS Orders, Sequences, FiniteSets, FiniteSetsExt, Functions

CONSTANT OrderInputs   \* the orders callers submit

ASSUME BookAssumption == OrderInputs \subseteq Order

VARIABLES levels,     \* buy_levels_ and sell_levels_
          locations   \* locations_

book == <<levels, locations>>

Price == 1..MaxPrice

\* The cached total is unsigned in the code.  It is an Int here so that a total
\* that fell below zero would be a state; DepthFeedExact excludes it.
PriceLevel == [orders : Seq(Order), total_quantity : Int]
EmptyLevel == [orders |-> << >>, total_quantity |-> 0]
OrderLocation == [side : Side, price : Price]

BookInit ==
  /\ levels = [s \in Side |-> << >>]
  /\ locations = << >>

\* A map with keys and values of the given types, and its updates.
IsMap(map, K, V) == DOMAIN map \subseteq K /\ map \in [DOMAIN map -> V]
Put(map, key, value) ==
  [k \in DOMAIN map \cup {key} |-> IF k = key THEN value ELSE map[k]]
Erase(map, key) == Restrict(map, DOMAIN map \ {key})

\* std::list::erase of the i-th element.
EraseAt(list, i) == SubSeq(list, 1, i - 1) \o SubSeq(list, i + 1, Len(list))
-----------------------------------------------------------------------------
(* Queries *)

contains(id) == id \in DOMAIN locations
orderCount == Cardinality(DOMAIN locations)
depth(side) == Cardinality(DOMAIN levels[side])
emptySide(side) == DOMAIN levels[side] = {}

\* The first key of a side's map: bestBid and bestAsk where they have a value.
bestPrice(side) ==
  CHOOSE p \in DOMAIN levels[side] :
    \A q \in DOMAIN levels[side] \ {p} : Better(side, p, q)

\* Seeded fault: last in, first out.
backOfBest(side) ==
  LET orders == levels[side][bestPrice(side)].orders IN orders[Len(orders)]

frontOfBest(side) == levels[side][bestPrice(side)].orders[1]

wouldCross(incoming) ==
  /\ incoming.side \in Side /\ incoming.type \in OrderType
  /\ ~emptySide(Opposite(incoming.side))
  /\ Crosses(incoming, frontOfBest(Opposite(incoming.side)).price)

\* Seeded fault: the map of the side is ordered the other way round.
PricesWorstFirst(side) ==
  [n \in 1..depth(side) |->
     CHOOSE p \in DOMAIN levels[side] :
       Cardinality({q \in DOMAIN levels[side] : Better(side, p, q)}) = n - 1]

\* The keys of a side's map in iteration order: the n-th has n - 1 better ones.
PricesBestFirst(side) ==
  [n \in 1..depth(side) |->
     CHOOSE p \in DOMAIN levels[side] :
       Cardinality({q \in DOMAIN levels[side] : Better(side, q, p)}) = n - 1]

\* Walks the opposite levels from the best one, adding cached totals, until a
\* price does not cross or the cap is reached.
executableQuantity(incoming, cap) ==
  LET opposite == Opposite(incoming.side)
      prices   == PricesBestFirst(opposite)
      walk[n \in 0..Len(prices)] ==
        IF n = 0 THEN [total |-> 0, stop |-> FALSE]
        ELSE LET before == walk[n - 1] IN
             IF before.stop \/ ~Crosses(incoming, prices[n])
             THEN [before EXCEPT !.stop = TRUE]
             ELSE LET level == levels[opposite][prices[n]]
                      total == before.total
                               + Min({level.total_quantity, cap - before.total})
                  IN  [total |-> total, stop |-> total = cap]
  IN  IF cap = 0 \/ incoming.side \notin Side \/ incoming.type \notin OrderType
      THEN 0
      ELSE walk[Len(prices)].total

\* Aggregated levels, best first, at most max_levels of them.
topLevels(side, max_levels) ==
  LET prices == PricesBestFirst(side)
  IN  [n \in 1..Min({max_levels, Len(prices)}) |->
         LET level == levels[side][prices[n]]
         IN  [price          |-> prices[n],
              total_quantity |-> level.total_quantity,
              order_count    |-> Len(level.orders)]]
-----------------------------------------------------------------------------
(* Updates *)

\* Seeded fault: a level stays in the map when its list is empty.
StoreLevelForEver(side, price, level) ==
  levels' = [levels EXCEPT ![side] = Put(@, price, level)]

\* Writes a level back; eraseLevelIfEmpty takes it out of the map once its
\* list is empty.
StoreLevel(side, price, level) ==
  levels' = [levels EXCEPT ![side] = IF level.orders = << >>
                                     THEN Erase(@, price)
                                     ELSE Put(@, price, level)]

\* addOrder returns false, and changes nothing, for any other order.
Insertable(order) ==
  /\ order.id # 0 /\ order.quantity # 0 /\ order.price > 0
  /\ order.type = "LIMIT"
  /\ ~contains(order.id)
  /\ order.side \in Side

LevelAt(side, price) ==
  IF price \in DOMAIN levels[side] THEN levels[side][price] ELSE EmptyLevel

\* Seeded fault: a newcomer goes to the front of its level's list.
PushFront(level, order) ==
  [orders         |-> <<order>> \o level.orders,
   total_quantity |-> level.total_quantity + order.quantity]

PushBack(level, order) ==
  [orders         |-> Append(level.orders, order),
   total_quantity |-> level.total_quantity + order.quantity]

addOrder(order) ==
  IF Insertable(order)
  THEN /\ StoreLevel(order.side, order.price,
                     PushBack(LevelAt(order.side, order.price), order))
       /\ locations' = Put(locations, order.id,
                           [side |-> order.side, price |-> order.price])
  ELSE UNCHANGED book

\* Where the iterator of an indexed order points.
Position(id) ==
  LET orders == levels[locations[id].side][locations[id].price].orders
  IN  CHOOSE i \in DOMAIN orders : orders[i].id = id

\* The order an index entry points at.
OrderOf(id) ==
  levels[locations[id].side][locations[id].price].orders[Position(id)]

cancelOrder(id) ==
  IF contains(id)
  THEN LET loc   == locations[id]
           level == levels[loc.side][loc.price] IN
       /\ StoreLevel(loc.side, loc.price,
            [orders         |-> EraseAt(level.orders, Position(id)),
             total_quantity |-> level.total_quantity - OrderOf(id).quantity])
       /\ locations' = Erase(locations, id)
  ELSE UNCHANGED book

\* What the asserts of reduceFront demand of its caller.
Reducible(side, qty) == ~emptySide(side) /\ qty <= frontOfBest(side).quantity

\* Seeded fault: a filled order is never popped.
ReducedNeverPopped(level, qty) ==
  [orders         |-> [level.orders EXCEPT ![1].quantity = @ - qty],
   total_quantity |-> level.total_quantity - qty]

\* A level after its front order traded qty: popped when that was all of it.
Reduced(level, qty) ==
  [orders         |-> IF level.orders[1].quantity = qty
                      THEN Tail(level.orders)
                      ELSE [level.orders EXCEPT ![1].quantity = @ - qty],
   total_quantity |-> level.total_quantity - qty]

reduceFront(side, qty) ==
  LET front == frontOfBest(side) IN
  /\ StoreLevel(side, bestPrice(side), Reduced(levels[side][bestPrice(side)], qty))
  /\ locations' = IF front.quantity = qty THEN Erase(locations, front.id) ELSE locations
-----------------------------------------------------------------------------
(* What the structure promises (checkInvariants) *)

BookTypeOK ==
  /\ levels = [s \in Side |-> levels[s]]
  /\ \A s \in Side : IsMap(levels[s], Price, PriceLevel)
  /\ IsMap(locations, Id, OrderLocation)

\* The resting orders of a side, forgetting how they are stored.
Resting(side) ==
  UNION {Range(levels[side][p].orders) : p \in DOMAIN levels[side]}

QuantityOf(orders) == MapThenSumSet(LAMBDA o : o.quantity, orders)

\* An order of the list of level p of side s: it belongs there, and the index
\* knows it.
WellPlaced(o, s, p, index) ==
  /\ o.side = s /\ o.price = p /\ o.type = "LIMIT" /\ o.quantity > 0
  /\ o.id \in DOMAIN index /\ index[o.id] = [side |-> s, price |-> p]

UniqueIds(orders) ==
  \A i, j \in DOMAIN orders : orders[i].id = orders[j].id => i = j

\* A level's list as a whole: every order is well placed, and no id occurs twice.
Placed(orders, s, p, index) ==
  /\ \A i \in DOMAIN orders : WellPlaced(orders[i], s, p, index)
  /\ UniqueIds(orders)

Lists(orders, id) == \E i \in DOMAIN orders : orders[i].id = id

\* A list in order of arrival: sequences strictly increase, none is after now.
ArrivedInOrder(orders, now) ==
  \A i \in DOMAIN orders :
    /\ orders[i].sequence <= now
    /\ \A j \in 1..(i - 1) : orders[j].sequence < orders[i].sequence

BookInOrder(now) ==
  \A s \in Side : \A p \in DOMAIN levels[s] : ArrivedInOrder(levels[s][p].orders, now)

\* Every stored order sits in a non-empty level of its own side and price, is
\* a LIMIT order with quantity left, and is where the index says it is; every
\* index entry points at a stored order; no id is stored twice.
IndexAgrees ==
  /\ \A s \in Side : \A p \in DOMAIN levels[s] :
       levels[s][p].orders # << >> /\ Placed(levels[s][p].orders, s, p, locations)
  /\ \A id \in DOMAIN locations :
       LET loc == locations[id]
       IN  loc.price \in DOMAIN levels[loc.side] /\ Lists(levels[loc.side][loc.price].orders, id)

\* No bid at or above an ask: spread() > 0 whenever both sides have orders.
NotCrossed ==
  \A bid \in DOMAIN levels["BUY"], ask \in DOMAIN levels["SELL"] : bid < ask

\* The preflight over cached totals gives what the orders themselves add up
\* to: all the quantity an incoming order may trade with, up to the cap.
PreflightExact ==
  \A o \in OrderInputs :
    o.side \in Side /\ o.type \in OrderType =>
      executableQuantity(o, o.quantity) =
        Min({o.quantity, QuantityOf({m \in Resting(Opposite(o.side)) :
                                       Crosses(o, m.price)})})

\* The depth feed lists, best price first, exactly the groups of resting
\* orders with equal price.
DepthFeedExact ==
  \A s \in Side, n \in 0..(MaxPrice + 1) :
    LET feed == topLevels(s, n)
        At(p) == {m \in Resting(s) : m.price = p}
    IN  /\ \A i \in DOMAIN feed :
             /\ feed[i].total_quantity = QuantityOf(At(feed[i].price))
             /\ feed[i].order_count = Cardinality(At(feed[i].price))
             /\ \A m \in Resting(s) : Better(s, m.price, feed[i].price)
                                        => \E j \in 1..(i - 1) : feed[j].price = m.price
        /\ Len(feed) = Min({n, depth(s)})
=============================================================================
