------------------------ MODULE MatchingEngineProofs ------------------------
(***************************************************************************)
(* The safety of the matching engine for every set of ids, price range,    *)
(* set of submitted orders and choice of risk limits.  The lemmas of the   *)
(* first part say what each update of the order book preserves; those of   *)
(* the second part and the theorems are about the engine that makes them.  *)
(***************************************************************************)
EXTENDS MatchingEngine, WellFoundedInduction, TLAPS

\* Facts about sequences that the steps below cite: a queue of a level or of
\* the tape, an order appended, its head removed, an element replaced.
LEMMA LenProperties ==
  ASSUME NEW S, NEW q \in Seq(S)
  PROVE  Len(q) \in Nat /\ q \in [1..Len(q) -> S] /\ DOMAIN q = 1..Len(q)
OBVIOUS

LEMMA ElementOfSeq ==
  ASSUME NEW S, NEW q \in Seq(S), NEW n \in 1..Len(q) PROVE q[n] \in S
OBVIOUS

LEMMA EmptySeq ==
  ASSUME NEW S
  PROVE  <<>> \in Seq(S) /\ \A q \in Seq(S) : q # <<>> => Len(q) \in Nat \ {0}
OBVIOUS

LEMMA AppendProperties ==
  ASSUME NEW S, NEW q \in Seq(S), NEW e \in S
  PROVE  /\ Append(q, e) \in Seq(S) /\ Len(Append(q, e)) = Len(q) + 1
         /\ \A i \in 1..Len(q) : Append(q, e)[i] = q[i]
         /\ Append(q, e)[Len(q) + 1] = e
OBVIOUS

LEMMA ConcatProperties ==
  ASSUME NEW S, NEW q \in Seq(S), NEW r \in Seq(S)
  PROVE  /\ q \o r \in Seq(S) /\ Len(q \o r) = Len(q) + Len(r)
         /\ \A i \in 1..Len(q) + Len(r) :
              (q \o r)[i] = IF i <= Len(q) THEN q[i] ELSE r[i - Len(q)]
OBVIOUS

LEMMA SubSeqProperties ==
  ASSUME NEW S, NEW q \in Seq(S), NEW m \in 1..Len(q) + 1, NEW n \in 0..Len(q)
  PROVE  /\ SubSeq(q, m, n) \in Seq(S)
         /\ Len(SubSeq(q, m, n)) = IF m <= n THEN n - m + 1 ELSE 0
         /\ \A i \in 1..n - m + 1 : SubSeq(q, m, n)[i] = q[m + i - 1]
OBVIOUS

LEMMA HeadTailProperties ==
  ASSUME NEW S, NEW q \in Seq(S), q # <<>>
  PROVE  /\ Head(q) \in S /\ Tail(q) \in Seq(S) /\ Len(Tail(q)) = Len(q) - 1
         /\ \A i \in 1..Len(Tail(q)) : Tail(q)[i] = q[i + 1]
OBVIOUS

LEMMA ExceptSeq ==
  ASSUME NEW S, NEW q \in Seq(S), NEW i \in 1..Len(q), NEW e \in S
  PROVE  /\ [q EXCEPT ![i] = e] \in Seq(S)
         /\ Len([q EXCEPT ![i] = e]) = Len(q)
         /\ \A j \in 1..Len(q) :
              [q EXCEPT ![i] = e][j] = IF j = i THEN e ELSE q[j]
OBVIOUS

\* A non-empty set of naturals has a least element (bestAsk exists).
LEMMA NatMin ==
  ASSUME NEW S, S \subseteq Nat, S # {}
  PROVE  \E x \in S : \A y \in S : x <= y
<1> DEFINE R == {p \in Nat \X Nat : p[1] < p[2]}
<1>1. IsWellFoundedOn(R, Nat)
  BY NatLessThanWellFounded, Zenon DEF OpToRel
<1> HIDE DEF R
<1>2. PICK x \in S : \A y \in S : ~(<<y, x>> \in R)
  BY <1>1, WFMin, Zenon
<1>3. \A y \in S : ~(y < x)
  BY <1>2, Zenon DEF R
<1> QED
  BY <1>3

\* A non-empty set of naturals with an upper bound has a greatest element
\* (bestBid exists).
LEMMA BoundedMax ==
  ASSUME NEW N \in Nat, NEW S, S \subseteq 0..N, S # {}
  PROVE  \E x \in S : \A y \in S : y <= x
<1> DEFINE T == {N - x : x \in S}
<1>1. T \subseteq Nat /\ T # {}
  <2>1. \A x \in S : N - x \in Nat
    OBVIOUS
  <2>2. PICK x \in S : TRUE
    BY Zenon
  <2>3. N - x \in T
    BY <2>2
  <2> QED
    BY <2>1, <2>3
<1> HIDE DEF T
<1>2. PICK m \in T : \A y \in T : m <= y
  BY <1>1, NatMin, Zenon
<1>3. PICK x \in S : m = N - x
  BY DEF T
<1>4. \A y \in S : N - y \in T
  BY DEF T
<1> QED
  BY <1>2, <1>3, <1>4

\* bestPrice really is the best price of a side that has any.
LEMMA BestPrice ==
  ASSUME BookTypeOK, NEW side \in Side, ~emptySide(side)
  PROVE  /\ bestPrice(side) \in DOMAIN levels[side]
         /\ \A q \in DOMAIN levels[side] \ {bestPrice(side)} :
              Better(side, bestPrice(side), q)
<1> DEFINE D == DOMAIN levels[side]
<1>1. D \subseteq 0..MaxPrice /\ D # {} /\ MaxPrice \in Nat
  BY OrderAssumption DEF BookTypeOK, IsMap, Price, emptySide
<1> HIDE DEF D
<1>2. \E p \in D : \A q \in D \ {p} : Better(side, p, q)
  <2>1. CASE side = "BUY"
    <3>1. PICK p \in D : \A q \in D : q <= p
      BY <1>1, BoundedMax, Zenon
    <3> QED
      BY <1>1, <2>1, <3>1 DEF Better
  <2>2. CASE side = "SELL"
    <3>1. PICK p \in D : \A q \in D : p <= q
      <4>1. D \subseteq Nat
        BY <1>1
      <4> QED
        BY <1>1, <4>1, NatMin, Zenon
    <3> QED
      BY <1>1, <2>2, <3>1 DEF Better
  <2> QED
    BY <2>1, <2>2 DEF Side
<1> QED
  BY <1>2 DEF bestPrice, D

\* What writing a level back does to the maps: that level is replaced, or gone
\* when it is empty, and every other level is as it was.
Stored(side, price, level) ==
  /\ levels' = [s \in Side |-> levels'[s]]
  /\ \A s \in Side : IsMap(levels'[s], Price, PriceLevel)
  /\ \A s \in Side \ {side} : levels'[s] = levels[s]
  /\ \A p \in DOMAIN levels'[side] \ {price} :
       p \in DOMAIN levels[side] /\ levels'[side][p] = levels[side][p]
  /\ \A p \in DOMAIN levels[side] \ {price} : p \in DOMAIN levels'[side]
  /\ price \in DOMAIN levels'[side] <=> level.orders # << >>
  /\ price \in DOMAIN levels'[side] => levels'[side][price] = level

LEMMA StoreLevelFacts ==
  ASSUME BookTypeOK, NEW side \in Side, NEW price \in Price,
         NEW level \in PriceLevel, StoreLevel(side, price, level)
  PROVE  Stored(side, price, level)
<1>1. PICK old : old = levels[side]
  BY Zenon
<1>2. IsMap(old, Price, PriceLevel)
  BY <1>1, Zenon DEF BookTypeOK
<1>3. PICK new : new = IF level.orders = << >> THEN Erase(old, price)
                                               ELSE Put(old, price, level)
  BY Zenon
<1>4. /\ levels' = [s \in Side |-> levels'[s]]
      /\ \A s \in Side \ {side} : levels'[s] = levels[s]
      /\ levels'[side] = new
  BY <1>1, <1>3 DEF BookTypeOK, StoreLevel
<1>5. CASE level.orders = << >>
  <2>1. /\ DOMAIN new = DOMAIN old \ {price}
        /\ \A p \in DOMAIN new : new[p] = old[p]
        /\ new = [p \in DOMAIN new |-> new[p]]
    BY <1>3, <1>5 DEF Erase, Restrict
  <2>2. IsMap(new, Price, PriceLevel)
    BY <1>2, <2>1 DEF IsMap
  <2>3. \A s \in Side : IsMap(levels'[s], Price, PriceLevel)
    BY <1>4, <2>2, Zenon DEF BookTypeOK
  <2> QED
    BY <1>1, <1>4, <1>5, <2>1, <2>3 DEF Stored
<1>6. CASE level.orders # << >>
  <2>1. /\ DOMAIN new = DOMAIN old \cup {price}
        /\ \A p \in DOMAIN old \ {price} : new[p] = old[p]
        /\ new[price] = level
        /\ new = [p \in DOMAIN new |-> new[p]]
    BY <1>3, <1>6 DEF Put
  <2>2. IsMap(new, Price, PriceLevel)
    BY <1>2, <2>1 DEF IsMap
  <2>3. \A s \in Side : IsMap(levels'[s], Price, PriceLevel)
    BY <1>4, <2>2, Zenon DEF BookTypeOK
  <2> QED
    BY <1>1, <1>4, <1>6, <2>1, <2>3 DEF Stored
<1> QED
  BY <1>5, <1>6

\* A level of the new book is the one written, or an old one.
LEMMA StoredCases ==
  ASSUME NEW side \in Side, NEW price, NEW level, Stored(side, price, level),
         NEW s \in Side, NEW p \in DOMAIN levels'[s]
  PROVE  \/ s = side /\ p = price /\ levels'[s][p] = level /\ level.orders # << >>
         \/ ~(s = side /\ p = price) /\ p \in DOMAIN levels[s] /\ levels'[s][p] = levels[s][p]
<1>1. CASE s # side
  BY <1>1, Zenon DEF Stored
<1>2. CASE s = side /\ p # price
  BY <1>2, Zenon DEF Stored
<1>3. CASE s = side /\ p = price
  BY <1>3, Zenon DEF Stored
<1> QED
  BY <1>1, <1>2, <1>3, Zenon

\* Every other old level is still there.
LEMMA StoredKeeps ==
  ASSUME NEW side \in Side, NEW price, NEW level, Stored(side, price, level),
         NEW s \in Side, NEW p \in DOMAIN levels[s], ~(s = side /\ p = price)
  PROVE  p \in DOMAIN levels'[s] /\ levels'[s][p] = levels[s][p]
<1>1. CASE s # side
  BY <1>1, Zenon DEF Stored
<1>2. CASE s = side
  <2>1. p \in DOMAIN levels'[side]
    BY <1>2, Zenon DEF Stored
  <2> QED
    BY <1>2, <2>1, Zenon DEF Stored
<1> QED
  BY <1>1, <1>2, Zenon
-----------------------------------------------------------------------------
\* The common core of the three updates: one level is replaced and the index
\* changes at most at one id, which lives, before and after, in that level.
LevelStep(side, price, level, id) ==
  LET here == [side |-> side, price |-> price] IN
  /\ StoreLevel(side, price, level)
  /\ IsMap(locations', Id, OrderLocation)
  /\ \A x \in Id \ {id} : /\ x \in DOMAIN locations' <=> x \in DOMAIN locations
                          /\ x \in DOMAIN locations => locations'[x] = locations[x]
  /\ id \in DOMAIN locations => locations[id] = here
  /\ id \in DOMAIN locations' => locations'[id] = here
  /\ Placed(level.orders, side, price, locations')
  /\ \A x \in DOMAIN locations' : locations'[x] = here => Lists(level.orders, x)

\* What IndexAgrees says of one level and of one id.
LEMMA OfLevel ==
  ASSUME IndexAgrees, NEW s \in Side, NEW p \in DOMAIN levels[s]
  PROVE  /\ levels[s][p].orders # << >>
         /\ Placed(levels[s][p].orders, s, p, locations)
         /\ UniqueIds(levels[s][p].orders)
         /\ \A i \in DOMAIN levels[s][p].orders :
              WellPlaced(levels[s][p].orders[i], s, p, locations)
<1>1. levels[s][p].orders # << >> /\ Placed(levels[s][p].orders, s, p, locations)
  BY Zenon DEF IndexAgrees
<1> QED
  BY <1>1, Zenon DEF Placed

LEMMA OfId ==
  ASSUME BookTypeOK, IndexAgrees, NEW id \in DOMAIN locations
  PROVE  /\ locations[id] \in OrderLocation /\ id \in Id
         /\ locations[id].side \in Side /\ locations[id].price \in Price
         /\ locations[id] = [side |-> locations[id].side, price |-> locations[id].price]
         /\ locations[id].price \in DOMAIN levels[locations[id].side]
         /\ Lists(levels[locations[id].side][locations[id].price].orders, id)
<1>1. IsMap(locations, Id, OrderLocation)
  BY Zenon DEF BookTypeOK
<1>2. locations[id] \in OrderLocation /\ id \in Id
  BY <1>1 DEF IsMap
<1>3. /\ locations[id].price \in DOMAIN levels[locations[id].side]
      /\ Lists(levels[locations[id].side][locations[id].price].orders, id)
  BY Zenon DEF IndexAgrees
<1> QED
  BY <1>2, <1>3 DEF OrderLocation

\* A list none of whose ids is the changed one stays well placed.
LEMMA PlacedElsewhere ==
  ASSUME NEW orders, NEW s, NEW p, Placed(orders, s, p, locations),
         NEW id, IsMap(locations, Id, OrderLocation),
         \A x \in Id \ {id} : /\ x \in DOMAIN locations' <=> x \in DOMAIN locations
                              /\ x \in DOMAIN locations => locations'[x] = locations[x],
         ~Lists(orders, id)
  PROVE  Placed(orders, s, p, locations')
<1>1. ASSUME NEW i \in DOMAIN orders
      PROVE  WellPlaced(orders[i], s, p, locations')
  <2>1. WellPlaced(orders[i], s, p, locations)
    BY Zenon DEF Placed
  <2>2. orders[i].id \in Id \ {id}
    BY <2>1, Zenon DEF WellPlaced, IsMap, Lists
  <2> QED
    BY <2>1, <2>2, Zenon DEF WellPlaced
<1> QED
  BY <1>1, Zenon DEF Placed

\* Such a step keeps the book consistent.
LEMMA LevelReplaced ==
  ASSUME BookTypeOK, IndexAgrees,
         NEW side \in Side, NEW price \in Price, NEW level \in PriceLevel,
         NEW id \in Id, LevelStep(side, price, level, id)
  PROVE  BookTypeOK' /\ IndexAgrees'
<1> DEFINE here == [side |-> side, price |-> price]
<1>1. Stored(side, price, level)
  BY StoreLevelFacts, Zenon DEF LevelStep
<1>2. BookTypeOK'
  BY <1>1, Zenon DEF BookTypeOK, LevelStep, Stored
<1>3. /\ \A x \in Id \ {id} : /\ x \in DOMAIN locations' <=> x \in DOMAIN locations
                              /\ x \in DOMAIN locations => locations'[x] = locations[x]
      /\ id \in DOMAIN locations => locations[id] = here
      /\ id \in DOMAIN locations' => locations'[id] = here
      /\ IsMap(locations, Id, OrderLocation) /\ IsMap(locations', Id, OrderLocation)
  BY Zenon DEF LevelStep, BookTypeOK
<1>4. Placed(level.orders, side, price, locations')
  BY Zenon DEF LevelStep
<1>5. \A x \in DOMAIN locations' : locations'[x] = here => Lists(level.orders, x)
  BY Zenon DEF LevelStep
<1>6. ASSUME NEW s \in Side, NEW p \in DOMAIN levels'[s]
      PROVE  /\ levels'[s][p].orders # << >>
             /\ Placed(levels'[s][p].orders, s, p, locations')
  <2>1. CASE s = side /\ p = price /\ levels'[s][p] = level /\ level.orders # << >>
    BY <1>4, <2>1, Zenon
  <2>2. CASE ~(s = side /\ p = price) /\ p \in DOMAIN levels[s] /\ levels'[s][p] = levels[s][p]
    <3>1. PICK orders : orders = levels[s][p].orders
      BY Zenon
    <3>2. orders # << >> /\ Placed(orders, s, p, locations)
      BY <2>2, <3>1, OfLevel, Zenon
    <3>3. ~Lists(orders, id)
      <4> SUFFICES ASSUME NEW i \in DOMAIN orders, orders[i].id = id
                   PROVE  FALSE
        BY Zenon DEF Lists
      <4>1. WellPlaced(orders[i], s, p, locations)
        BY <3>2, Zenon DEF Placed
      <4>2. locations[id] = [side |-> s, price |-> p] /\ locations[id] = here
        BY <1>3, <4>1, Zenon DEF WellPlaced
      <4>3. s = side /\ p = price
        BY <4>2
      <4> QED
        BY <2>2, <4>3, Zenon
    <3>4. Placed(orders, s, p, locations')
      BY <1>3, <3>2, <3>3, PlacedElsewhere, Zenon
    <3> QED
      BY <2>2, <3>1, <3>2, <3>4, Zenon
  <2>3. \/ s = side /\ p = price /\ levels'[s][p] = level /\ level.orders # << >>
        \/ ~(s = side /\ p = price) /\ p \in DOMAIN levels[s] /\ levels'[s][p] = levels[s][p]
    BY <1>1, StoredCases
  <2> QED
    BY <2>1, <2>2, <2>3, Zenon
<1>7. ASSUME NEW x \in DOMAIN locations'
      PROVE  LET s == locations'[x].side
                 p == locations'[x].price
             IN  p \in DOMAIN levels'[s] /\ Lists(levels'[s][p].orders, x)
  <2>1. CASE locations'[x] = here
    <3>1. Lists(level.orders, x)
      BY <1>5, <2>1, Zenon
    <3>2. level.orders # << >>
      BY <3>1 DEF Lists
    <3>3. price \in DOMAIN levels'[side] /\ levels'[side][price] = level
      BY <1>1, <3>2, Zenon DEF Stored
    <3>4. locations'[x].side = side /\ locations'[x].price = price
      BY <2>1
    <3> QED
      BY <3>1, <3>3, <3>4, Zenon
  <2>2. CASE locations'[x] # here
    <3>1. x \in Id \ {id}
      BY <1>3, <2>2, Zenon DEF IsMap
    <3>2. x \in DOMAIN locations /\ locations'[x] = locations[x]
      BY <1>3, <3>1, Zenon
    <3>3. PICK s \in Side, p \in Price : s = locations[x].side /\ p = locations[x].price
      BY <3>2, OfId, Zenon
    <3>4. /\ locations[x] = [side |-> s, price |-> p]
          /\ p \in DOMAIN levels[s] /\ Lists(levels[s][p].orders, x)
      BY <3>2, <3>3, OfId, Zenon
    <3>5. ~(s = side /\ p = price)
      BY <2>2, <3>2, <3>4, Zenon
    <3>6. p \in DOMAIN levels'[s] /\ levels'[s][p] = levels[s][p]
      BY <1>1, <3>4, <3>5, StoredKeeps
    <3> QED
      BY <3>2, <3>3, <3>4, <3>6, Zenon
  <2> QED
    BY <2>1, <2>2, Zenon
<1> QED
  BY <1>2, <1>6, <1>7, Zenon DEF IndexAgrees

LEMMA OrdersOfLevel ==
  ASSUME BookTypeOK, NEW s \in Side, NEW p \in DOMAIN levels[s]
  PROVE  /\ p \in Price
         /\ levels[s][p] \in PriceLevel
         /\ levels[s][p].orders \in Seq(Order)
         /\ DOMAIN levels[s][p].orders = 1..Len(levels[s][p].orders)
         /\ Len(levels[s][p].orders) \in Nat
         /\ levels[s][p].total_quantity \in Int
         /\ \A i \in DOMAIN levels[s][p].orders : levels[s][p].orders[i] \in Order
<1>1. p \in Price /\ levels[s][p] \in PriceLevel
  BY DEF BookTypeOK, IsMap
<1>2. levels[s][p].orders \in Seq(Order) /\ levels[s][p].total_quantity \in Int
  BY <1>1 DEF PriceLevel
<1> QED
  BY <1>1, <1>2, LenProperties, ElementOfSeq, Zenon

\* Order of arrival does not depend on how late it is.
LEMMA InOrderLater ==
  ASSUME NEW orders \in Seq(Order), NEW now \in Nat, ArrivedInOrder(orders, now)
  PROVE  ArrivedInOrder(orders, now + 1)
<1>1. \A i \in DOMAIN orders : orders[i] \in Order
  BY LenProperties, ElementOfSeq, Zenon
<1>2. \A i \in DOMAIN orders : orders[i].sequence \in Nat
  BY <1>1, Zenon DEF Order
<1> QED
  BY <1>2 DEF ArrivedInOrder

\* Writing back an existing level in order of arrival keeps the book so, and
\* adds no level.
LEMMA LevelInOrder ==
  ASSUME BookTypeOK, NEW side \in Side, NEW price \in DOMAIN levels[side],
         NEW level \in PriceLevel, StoreLevel(side, price, level),
         NEW now, BookInOrder(now), ArrivedInOrder(level.orders, now)
  PROVE  BookInOrder(now)' /\ \A s \in Side : DOMAIN levels'[s] \subseteq DOMAIN levels[s]
<1>1. Stored(side, price, level)
  BY OrdersOfLevel, StoreLevelFacts, Zenon
<1>2. ASSUME NEW s \in Side, NEW p \in DOMAIN levels'[s]
      PROVE  p \in DOMAIN levels[s] /\ ArrivedInOrder(levels'[s][p].orders, now)
  <2>1. \/ s = side /\ p = price /\ levels'[s][p] = level
        \/ p \in DOMAIN levels[s] /\ levels'[s][p] = levels[s][p]
    BY <1>1, StoredCases
  <2> QED
    BY <2>1, Zenon DEF BookInOrder
<1> QED
  BY <1>2, Zenon DEF BookInOrder
-----------------------------------------------------------------------------
(* addOrder *)

\* The level an order is added to, present or not.
LEMMA LevelAtFacts ==
  ASSUME BookTypeOK, IndexAgrees, NEW s \in Side, NEW p \in Price,
         NEW now \in Nat, BookInOrder(now)
  PROVE  /\ LevelAt(s, p) \in PriceLevel
         /\ LevelAt(s, p).orders \in Seq(Order) /\ LevelAt(s, p).total_quantity \in Int
         /\ Placed(LevelAt(s, p).orders, s, p, locations)
         /\ ArrivedInOrder(LevelAt(s, p).orders, now)
         /\ \A x \in DOMAIN locations :
              locations[x] = [side |-> s, price |-> p] => Lists(LevelAt(s, p).orders, x)
<1>1. CASE p \in DOMAIN levels[s]
  <2>1. LevelAt(s, p) = levels[s][p]
    BY <1>1, Zenon DEF LevelAt
  <2>2. /\ levels[s][p] \in PriceLevel /\ levels[s][p].orders \in Seq(Order)
        /\ levels[s][p].total_quantity \in Int
    BY <1>1, OrdersOfLevel, Zenon
  <2>3. Placed(levels[s][p].orders, s, p, locations)
    BY <1>1, OfLevel, Zenon
  <2>4. ArrivedInOrder(levels[s][p].orders, now)
    BY <1>1, Zenon DEF BookInOrder
  <2>5. ASSUME NEW x \in DOMAIN locations, locations[x] = [side |-> s, price |-> p]
        PROVE  Lists(levels[s][p].orders, x)
    <3>1. locations[x].side = s /\ locations[x].price = p
      BY <2>5
    <3> QED
      BY <3>1, OfId, Zenon
  <2> QED
    BY <2>1, <2>2, <2>3, <2>4, <2>5, Zenon
<1>2. CASE p \notin DOMAIN levels[s]
  <2>1. LevelAt(s, p) = EmptyLevel
    BY <1>2, Zenon DEF LevelAt
  <2>2. /\ EmptyLevel \in PriceLevel /\ EmptyLevel.orders = << >>
        /\ EmptyLevel.total_quantity = 0
    BY DEF EmptyLevel, PriceLevel
  <2>3. /\ Placed(<< >>, s, p, locations) /\ ArrivedInOrder(<< >>, now)
        /\ << >> \in Seq(Order) /\ 0 \in Int
    BY DEF Placed, UniqueIds, ArrivedInOrder
  <2>4. ASSUME NEW x \in DOMAIN locations, locations[x] = [side |-> s, price |-> p]
        PROVE  FALSE
    <3>1. locations[x].side = s /\ locations[x].price = p
      BY <2>4
    <3> QED
      BY <1>2, <3>1, OfId, Zenon
  <2> QED
    BY <2>1, <2>2, <2>3, <2>4, Zenon
<1> QED
  BY <1>1, <1>2, Zenon

\* What Append does to a list.
LEMMA AppendFacts ==
  ASSUME NEW old \in Seq(Order), NEW o \in Order
  PROVE  /\ Append(old, o) \in Seq(Order) /\ Append(old, o) # << >>
         /\ Len(old) \in Nat /\ DOMAIN old = 1..Len(old)
         /\ DOMAIN Append(old, o) = 1..(Len(old) + 1)
         /\ DOMAIN Append(old, o) = DOMAIN old \cup {Len(old) + 1}
         /\ \A i \in DOMAIN old : Append(old, o)[i] = old[i]
         /\ Append(old, o)[Len(old) + 1] = o
<1>1. Len(old) \in Nat /\ DOMAIN old = 1..Len(old)
  BY LenProperties, Zenon
<1>2. /\ Append(old, o) \in Seq(Order) /\ Append(old, o) # << >>
      /\ Len(Append(old, o)) = Len(old) + 1
      /\ \A i \in 1..Len(old) : Append(old, o)[i] = old[i]
      /\ Append(old, o)[Len(old) + 1] = o
  BY AppendProperties
<1>3. DOMAIN Append(old, o) = 1..(Len(old) + 1)
  BY <1>2, LenProperties, Zenon
<1>4. 1..(Len(old) + 1) = 1..Len(old) \cup {Len(old) + 1}
  BY <1>1
<1> QED
  BY <1>1, <1>2, <1>3, <1>4, Zenon

\* A newcomer with the next sequence goes behind everyone.
LEMMA AppendInOrder ==
  ASSUME NEW old \in Seq(Order), NEW o \in Order, NEW now \in Nat,
         ArrivedInOrder(old, now), o.sequence = now + 1
  PROVE  ArrivedInOrder(Append(old, o), now + 1)
<1>1. PICK new : new = Append(old, o)
  BY Zenon
<1>2. /\ Len(old) \in Nat /\ DOMAIN old = 1..Len(old)
      /\ DOMAIN new = DOMAIN old \cup {Len(old) + 1}
      /\ \A i \in DOMAIN old : new[i] = old[i]
      /\ new[Len(old) + 1] = o
  BY <1>1, AppendFacts
<1>3. \A i \in DOMAIN old : old[i] \in Order
  BY LenProperties, ElementOfSeq, Zenon
<1>4. \A i \in DOMAIN old : old[i].sequence \in Nat
  BY <1>3, Zenon DEF Order
<1>5. ASSUME NEW i \in DOMAIN new
      PROVE  /\ new[i].sequence <= now + 1
             /\ \A j \in 1..(i - 1) : new[j].sequence < new[i].sequence
  <2>1. CASE i \in DOMAIN old
    <3>1. /\ new[i] = old[i] /\ old[i].sequence <= now
          /\ \A j \in 1..(i - 1) : old[j].sequence < old[i].sequence
      BY <1>2, <2>1, Zenon DEF ArrivedInOrder
    <3>2. \A j \in 1..(i - 1) : j \in DOMAIN old
      BY <1>2, <2>1
    <3>3. old[i].sequence <= now + 1
      BY <1>4, <2>1, <3>1
    <3> QED
      BY <1>2, <3>1, <3>2, <3>3, Zenon
  <2>2. CASE i = Len(old) + 1
    <3>1. \A j \in 1..(i - 1) : j \in DOMAIN old
      BY <1>2, <2>2
    <3>2. \A j \in DOMAIN old : old[j].sequence <= now
      BY Zenon DEF ArrivedInOrder
    <3>3. \A j \in DOMAIN old : old[j].sequence < now + 1
      BY <1>4, <3>2
    <3>4. o.sequence <= now + 1
      OBVIOUS
    <3> QED
      BY <1>2, <2>2, <3>1, <3>3, <3>4, Zenon
  <2> QED
    BY <1>2, <2>1, <2>2, Zenon
<1> QED
  BY <1>1, <1>5, Zenon DEF ArrivedInOrder

\* addOrder keeps the book consistent and adds exactly its order.
LEMMA AddOrderPreserves ==
  ASSUME BookTypeOK, IndexAgrees, NEW o \in Order, Insertable(o), addOrder(o),
         NEW now \in Nat, BookInOrder(now), o.sequence = now + 1
  PROVE  /\ BookTypeOK' /\ IndexAgrees' /\ BookInOrder(now + 1)'
         /\ DOMAIN locations' = DOMAIN locations \cup {o.id}
         /\ \A s \in Side \ {o.side} : levels'[s] = levels[s]
         /\ DOMAIN levels'[o.side] = DOMAIN levels[o.side] \cup {o.price}
<1>1. PICK side \in Side, price \in Price, id \in Id \ DOMAIN locations :
        side = o.side /\ price = o.price /\ id = o.id
  BY DEF Insertable, Order, Price, contains
<1> DEFINE here == [side |-> side, price |-> price]
<1>2. PICK old : old = LevelAt(side, price)
  BY Zenon
<1>3. /\ old.orders \in Seq(Order) /\ old.total_quantity \in Int
      /\ Placed(old.orders, side, price, locations)
      /\ ArrivedInOrder(old.orders, now)
      /\ \A x \in DOMAIN locations : locations[x] = here => Lists(old.orders, x)
  BY <1>2, LevelAtFacts, Zenon
<1>4. PICK level : level = PushBack(old, o)
  BY Zenon
<1>5. StoreLevel(side, price, level) /\ locations' = Put(locations, id, here)
  BY <1>1, <1>2, <1>4, Zenon DEF addOrder
<1>6. level.orders = Append(old.orders, o)
  BY <1>4 DEF PushBack
<1>7. level \in PriceLevel
  <2>1. o.quantity \in Int
    BY DEF Order
  <2>2. old.total_quantity + o.quantity \in Int /\ Append(old.orders, o) \in Seq(Order)
    BY <1>3, <2>1, AppendFacts
  <2> QED
    BY <1>4, <2>2 DEF PushBack, PriceLevel
<1>8. /\ level.orders # << >>
      /\ DOMAIN level.orders = DOMAIN old.orders \cup {Len(old.orders) + 1}
      /\ Len(old.orders) + 1 \notin DOMAIN old.orders
      /\ \A i \in DOMAIN old.orders : level.orders[i] = old.orders[i]
      /\ level.orders[Len(old.orders) + 1] = o
  <2>1. Len(old.orders) \in Nat /\ DOMAIN old.orders = 1..Len(old.orders)
    BY <1>3, AppendFacts, Zenon
  <2>2. Len(old.orders) + 1 \notin 1..Len(old.orders)
    BY <2>1
  <2> QED
    BY <1>3, <1>6, <2>1, <2>2, AppendFacts
<1>9. /\ DOMAIN locations' = DOMAIN locations \cup {id}
      /\ locations'[id] = here
      /\ \A x \in DOMAIN locations : locations'[x] = locations[x]
      /\ IsMap(locations', Id, OrderLocation)
  <2>1. here \in OrderLocation
    BY DEF OrderLocation
  <2>2. /\ DOMAIN locations' = DOMAIN locations \cup {id}
        /\ locations'[id] = here
        /\ \A x \in DOMAIN locations : locations'[x] = locations[x]
        /\ locations' = [x \in DOMAIN locations' |-> locations'[x]]
    BY <1>1, <1>5 DEF Put
  <2>3. IsMap(locations, Id, OrderLocation)
    BY Zenon DEF BookTypeOK
  <2> HIDE DEF here
  <2>4. IsMap(locations', Id, OrderLocation)
    BY <1>1, <2>1, <2>2, <2>3 DEF IsMap
  <2> QED
    BY <2>2, <2>4, Zenon
<1>10. \A x \in Id \ {id} :
         /\ x \in DOMAIN locations' <=> x \in DOMAIN locations
         /\ x \in DOMAIN locations => locations'[x] = locations[x]
  BY <1>9, Zenon
<1>11. ~Lists(old.orders, id)
  <2> SUFFICES ASSUME NEW i \in DOMAIN old.orders, old.orders[i].id = id
               PROVE  FALSE
    BY Zenon DEF Lists
  <2>1. WellPlaced(old.orders[i], side, price, locations)
    BY <1>3, Zenon DEF Placed
  <2> QED
    BY <1>1, <2>1, Zenon DEF WellPlaced
<1>12. Placed(level.orders, side, price, locations')
  <2>1. Placed(old.orders, side, price, locations')
    <3>1. IsMap(locations, Id, OrderLocation)
      BY Zenon DEF BookTypeOK
    <3> QED
      BY <1>3, <1>10, <1>11, <3>1, PlacedElsewhere, Zenon
  <2>2. WellPlaced(o, side, price, locations')
    <3>1. o.quantity > 0 /\ o.type = "LIMIT"
      BY DEF Insertable, Order
    <3> QED
      BY <1>1, <1>9, <3>1, Zenon DEF WellPlaced
  <2>3. \A i \in DOMAIN level.orders : WellPlaced(level.orders[i], side, price, locations')
    BY <1>8, <2>1, <2>2, Zenon DEF Placed
  <2>4. UniqueIds(level.orders)
    <3>1. \A i \in DOMAIN old.orders : old.orders[i].id # o.id
      BY <1>1, <1>11, Zenon DEF Lists
    <3>2. \A i, j \in DOMAIN old.orders : old.orders[i].id = old.orders[j].id => i = j
      BY <2>1, Zenon DEF Placed, UniqueIds
    <3> SUFFICES ASSUME NEW i \in DOMAIN level.orders, NEW j \in DOMAIN level.orders,
                        level.orders[i].id = level.orders[j].id
                 PROVE  i = j
      BY Zenon DEF UniqueIds
    <3>3. CASE i \in DOMAIN old.orders
      BY <1>8, <3>1, <3>2, <3>3, Zenon
    <3>4. CASE i = Len(old.orders) + 1
      BY <1>8, <3>1, <3>2, <3>4, Zenon
    <3> QED
      BY <1>8, <3>3, <3>4, Zenon
  <2> QED
    BY <2>3, <2>4, Zenon DEF Placed
<1>13. \A x \in DOMAIN locations' : locations'[x] = here => Lists(level.orders, x)
  <2>1. Lists(level.orders, id)
    BY <1>1, <1>8, Zenon DEF Lists
  <2>2. ASSUME NEW x \in DOMAIN locations, locations[x] = here
        PROVE  Lists(level.orders, x)
    <3>1. Lists(old.orders, x)
      BY <1>3, <2>2, Zenon
    <3> QED
      BY <1>8, <3>1, Zenon DEF Lists
  <2> QED
    BY <1>9, <2>1, <2>2, Zenon
<1>14. BookTypeOK' /\ IndexAgrees'
  <2>1. id \in DOMAIN locations' => locations'[id] = here
    BY <1>9, Zenon
  <2>2. LevelStep(side, price, level, id)
    BY <1>1, <1>5, <1>9, <1>10, <1>12, <1>13, <2>1, Zenon DEF LevelStep
  <2> QED
    BY <1>1, <1>7, <2>2, LevelReplaced, Zenon
<1>15. Stored(side, price, level)
  BY <1>5, <1>7, StoreLevelFacts, Zenon
<1>16. /\ \A s \in Side \ {side} : levels'[s] = levels[s]
       /\ DOMAIN levels'[side] = DOMAIN levels[side] \cup {price}
  <2>1. /\ \A p \in DOMAIN levels'[side] \ {price} : p \in DOMAIN levels[side]
        /\ \A p \in DOMAIN levels[side] \ {price} : p \in DOMAIN levels'[side]
        /\ price \in DOMAIN levels'[side]
        /\ \A s \in Side \ {side} : levels'[s] = levels[s]
    BY <1>8, <1>15, Zenon DEF Stored
  <2> QED
    BY <2>1, Zenon
<1>17. BookInOrder(now + 1)'
  <2>1. ArrivedInOrder(level.orders, now + 1)
    BY <1>3, <1>6, AppendInOrder, Zenon
  <2> SUFFICES ASSUME NEW s \in Side, NEW p \in DOMAIN levels'[s]
               PROVE  ArrivedInOrder(levels'[s][p].orders, now + 1)
    BY Zenon DEF BookInOrder
  <2>2. \/ s = side /\ p = price /\ levels'[s][p] = level
        \/ p \in DOMAIN levels[s] /\ levels'[s][p] = levels[s][p]
    BY <1>15, StoredCases
  <2>3. CASE p \in DOMAIN levels[s] /\ levels'[s][p] = levels[s][p]
    <3>1. PICK orders \in Seq(Order) : orders = levels[s][p].orders
      BY <2>3, OrdersOfLevel, Zenon
    <3>2. ArrivedInOrder(orders, now)
      BY <2>3, <3>1, Zenon DEF BookInOrder
    <3> QED
      BY <2>3, <3>1, <3>2, InOrderLater, Zenon
  <2> QED
    BY <2>1, <2>2, <2>3, Zenon
<1> QED
  BY <1>1, <1>9, <1>14, <1>16, <1>17, Zenon
-----------------------------------------------------------------------------
(* cancelOrder and a complete fill *)

\* list::erase of the element at a position.
LEMMA EraseAtProperties ==
  ASSUME NEW S, NEW s \in Seq(S), NEW i \in 1..Len(s)
  PROVE  /\ EraseAt(s, i) \in Seq(S)
         /\ Len(EraseAt(s, i)) = Len(s) - 1
         /\ \A j \in 1..(Len(s) - 1) :
              EraseAt(s, i)[j] = IF j < i THEN s[j] ELSE s[j + 1]
<1> DEFINE a == SubSeq(s, 1, i - 1)
           b == SubSeq(s, i + 1, Len(s))
<1>1. Len(s) \in Nat /\ i \in Nat /\ i >= 1 /\ i <= Len(s)
  BY LenProperties
<1>2. /\ a \in Seq(S) /\ Len(a) = i - 1
      /\ \A j \in 1..(i - 1) : a[j] = s[j]
  BY <1>1, SubSeqProperties
<1>3. /\ b \in Seq(S) /\ Len(b) = Len(s) - i
      /\ \A j \in 1..(Len(s) - i) : b[j] = s[i + j]
  BY <1>1, SubSeqProperties
<1>4. EraseAt(s, i) = a \o b
  BY DEF EraseAt
<1> HIDE DEF a, b
<1>5. /\ a \o b \in Seq(S) /\ Len(a \o b) = Len(a) + Len(b)
      /\ \A j \in 1..(Len(a) + Len(b)) :
           (a \o b)[j] = IF j <= Len(a) THEN a[j] ELSE b[j - Len(a)]
  BY <1>2, <1>3, ConcatProperties, Zenon
<1>6. Len(a) + Len(b) = Len(s) - 1
  BY <1>1, <1>2, <1>3
<1>7. ASSUME NEW j \in 1..(Len(s) - 1)
      PROVE  (a \o b)[j] = IF j < i THEN s[j] ELSE s[j + 1]
  <2>1. CASE j < i
    BY <1>1, <1>2, <1>5, <1>6, <2>1
  <2>2. CASE ~(j < i)
    <3>1. j - Len(a) \in 1..(Len(s) - i) /\ i + (j - Len(a)) = j + 1
      BY <1>1, <1>2, <2>2
    <3>2. (a \o b)[j] = b[j - Len(a)]
      BY <1>1, <1>2, <1>5, <1>6, <2>2
    <3>3. b[j - Len(a)] = s[i + (j - Len(a))]
      BY <1>3, <3>1, Zenon
    <3> QED
      BY <2>2, <3>1, <3>2, <3>3
  <2> QED
    BY <2>1, <2>2, Zenon
<1> QED
  BY <1>4, <1>5, <1>6, <1>7, Zenon

\* One list is another without the order at a position.
SkipsAt(new, old, pos) ==
  /\ Len(new) = Len(old) - 1
  /\ \A j \in 1..(Len(old) - 1) : new[j] = IF j < pos THEN old[j] ELSE old[j + 1]

\* Where the orders of the shorter list were.
Before(j, pos) == IF j < pos THEN j ELSE j + 1

LEMMA SkipsFacts ==
  ASSUME NEW old \in Seq(Order), NEW new \in Seq(Order), NEW pos \in DOMAIN old,
         SkipsAt(new, old, pos)
  PROVE  /\ \A j \in DOMAIN new :
              /\ Before(j, pos) \in DOMAIN old \ {pos} /\ new[j] = old[Before(j, pos)]
              /\ \A k \in 1..(j - 1) : k \in DOMAIN new /\ Before(k, pos) \in 1..(Before(j, pos) - 1)
         /\ \A i \in DOMAIN old \ {pos} : \E j \in DOMAIN new : new[j] = old[i]
         /\ \A j, k \in DOMAIN new : Before(j, pos) = Before(k, pos) => j = k
<1>1. /\ Len(old) \in Nat /\ DOMAIN old = 1..Len(old)
      /\ DOMAIN new = 1..(Len(old) - 1)
  BY LenProperties DEF SkipsAt
<1>2. ASSUME NEW j \in DOMAIN new
      PROVE  /\ Before(j, pos) \in DOMAIN old \ {pos}
             /\ \A k \in 1..(j - 1) : k \in DOMAIN new /\ Before(k, pos) \in 1..(Before(j, pos) - 1)
  BY <1>1 DEF Before
<1>3. ASSUME NEW j \in DOMAIN new
      PROVE  new[j] = old[Before(j, pos)]
  <2>1. new[j] = IF j < pos THEN old[j] ELSE old[j + 1]
    BY <1>1, Zenon DEF SkipsAt
  <2> QED
    BY <2>1, Zenon DEF Before
<1>4. ASSUME NEW i \in DOMAIN old \ {pos}
      PROVE  \E j \in DOMAIN new : new[j] = old[i]
  <2>1. CASE i < pos
    <3>1. i \in DOMAIN new /\ Before(i, pos) = i
      BY <1>1, <2>1 DEF Before
    <3> QED
      BY <1>3, <3>1, Zenon
  <2>2. CASE ~(i < pos)
    <3>1. i - 1 \in DOMAIN new /\ Before(i - 1, pos) = i
      BY <1>1, <2>2 DEF Before
    <3> QED
      BY <1>3, <3>1, Zenon
  <2> QED
    BY <2>1, <2>2, Zenon
<1>5. \A j, k \in DOMAIN new : Before(j, pos) = Before(k, pos) => j = k
  BY <1>1 DEF Before
<1> QED
  BY <1>2, <1>3, <1>4, <1>5, Zenon

\* Taking an order out of a list keeps the arrival order of the others.
LEMMA SkipsInOrder ==
  ASSUME NEW old \in Seq(Order), NEW new \in Seq(Order), NEW pos \in DOMAIN old,
         SkipsAt(new, old, pos), NEW now, ArrivedInOrder(old, now)
  PROVE  ArrivedInOrder(new, now)
<1> SUFFICES ASSUME NEW j \in DOMAIN new
             PROVE  /\ new[j].sequence <= now
                    /\ \A k \in 1..(j - 1) : new[k].sequence < new[j].sequence
  BY Zenon DEF ArrivedInOrder
<1>1. PICK i \in DOMAIN old : i = Before(j, pos) /\ new[j] = old[i]
  BY SkipsFacts
<1>2. old[i].sequence <= now /\ \A b \in 1..(i - 1) : old[b].sequence < old[i].sequence
  BY Zenon DEF ArrivedInOrder
<1>3. ASSUME NEW k \in 1..(j - 1)
      PROVE  new[k].sequence < new[j].sequence
  <2>1. k \in DOMAIN new /\ Before(k, pos) \in 1..(i - 1)
    BY <1>1, SkipsFacts, Zenon
  <2>2. new[k] = old[Before(k, pos)]
    BY <2>1, SkipsFacts, Zenon
  <2> QED
    BY <1>1, <1>2, <2>1, <2>2, Zenon
<1> QED
  BY <1>1, <1>2, <1>3, Zenon

\* And they stay where the index, without the order's id, says they are.
LEMMA SkipsPlaced ==
  ASSUME NEW old \in Seq(Order), NEW new \in Seq(Order), NEW pos \in DOMAIN old,
         SkipsAt(new, old, pos), NEW s, NEW p, NEW index, Placed(old, s, p, index)
  PROVE  /\ Placed(new, s, p, index)
         /\ ~Lists(new, old[pos].id)
         /\ \A x : Lists(old, x) /\ x # old[pos].id => Lists(new, x)
<1>1. /\ \A i \in DOMAIN old : WellPlaced(old[i], s, p, index)
      /\ \A i, j \in DOMAIN old : old[i].id = old[j].id => i = j
  BY Zenon DEF Placed, UniqueIds
<1>2. \A j \in DOMAIN new : Before(j, pos) \in DOMAIN old \ {pos} /\ new[j] = old[Before(j, pos)]
  BY SkipsFacts, Zenon
<1>3. Placed(new, s, p, index)
  <2>1. \A j \in DOMAIN new : WellPlaced(new[j], s, p, index)
    BY <1>1, <1>2, Zenon
  <2>2. ASSUME NEW j \in DOMAIN new, NEW k \in DOMAIN new, new[j].id = new[k].id
        PROVE  j = k
    <3>1. Before(j, pos) = Before(k, pos)
      BY <1>1, <1>2, <2>2, Zenon
    <3> QED
      BY <3>1, SkipsFacts, Zenon
  <2> QED
    BY <2>1, <2>2, Zenon DEF Placed, UniqueIds
<1>4. ~Lists(new, old[pos].id)
  BY <1>1, <1>2, Zenon DEF Lists
<1>5. ASSUME NEW x, Lists(old, x), x # old[pos].id
      PROVE  Lists(new, x)
  <2>1. PICK i \in DOMAIN old \ {pos} : old[i].id = x
    BY <1>5, Zenon DEF Lists
  <2>2. \E j \in DOMAIN new : new[j] = old[i]
    BY SkipsFacts
  <2> QED
    BY <2>1, <2>2, Zenon DEF Lists
<1> QED
  BY <1>3, <1>4, <1>5, Zenon

\* One order leaves its level, and the index.
RemovesAt(side, price, pos, level, id) ==
  LET old == levels[side][price].orders IN
  /\ pos \in DOMAIN old /\ id = old[pos].id
  /\ SkipsAt(level.orders, old, pos)
  /\ StoreLevel(side, price, level)
  /\ locations' = Erase(locations, id)

\* This keeps the book consistent: what cancelOrder and a complete fill have
\* in common.
LEMMA OrderRemoved ==
  ASSUME BookTypeOK, IndexAgrees, NEW side \in Side,
         NEW price \in DOMAIN levels[side], NEW level \in PriceLevel, NEW pos, NEW id,
         RemovesAt(side, price, pos, level, id),
         NEW now \in Nat, BookInOrder(now)
  PROVE  /\ BookTypeOK' /\ IndexAgrees' /\ BookInOrder(now)'
         /\ id \in DOMAIN locations
         /\ DOMAIN locations' = DOMAIN locations \ {id}
         /\ \A s \in Side : DOMAIN levels'[s] \subseteq DOMAIN levels[s]
<1> DEFINE here == [side |-> side, price |-> price]
<1>1. PICK old \in Seq(Order) : old = levels[side][price].orders
  BY OrdersOfLevel, Zenon
<1>2. /\ pos \in DOMAIN old /\ id = old[pos].id
      /\ SkipsAt(level.orders, old, pos)
      /\ StoreLevel(side, price, level)
      /\ locations' = Erase(locations, id)
  BY <1>1, Zenon DEF RemovesAt
<1>3. price \in Price /\ level.orders \in Seq(Order)
  BY OrdersOfLevel DEF PriceLevel
<1>4. Placed(old, side, price, locations)
  BY <1>1, OfLevel, Zenon
<1>5. id \in DOMAIN locations /\ locations[id] = here
  BY <1>2, <1>4, Zenon DEF Placed, WellPlaced
<1>6. id \in Id /\ IsMap(locations, Id, OrderLocation)
  BY <1>5, Zenon DEF BookTypeOK, IsMap
<1>7. /\ DOMAIN locations' = DOMAIN locations \ {id}
      /\ \A x \in DOMAIN locations \ {id} : locations'[x] = locations[x]
      /\ IsMap(locations', Id, OrderLocation)
  <2>1. /\ DOMAIN locations' = DOMAIN locations \ {id}
        /\ \A x \in DOMAIN locations \ {id} : locations'[x] = locations[x]
        /\ locations' = [x \in DOMAIN locations' |-> locations'[x]]
    BY <1>2 DEF Erase, Restrict
  <2>2. IsMap(locations', Id, OrderLocation)
    BY <1>6, <2>1 DEF IsMap
  <2> QED
    BY <2>1, <2>2, Zenon
<1>8. \A x \in Id \ {id} : /\ x \in DOMAIN locations' <=> x \in DOMAIN locations
                           /\ x \in DOMAIN locations => locations'[x] = locations[x]
  BY <1>7, Zenon
<1>9. /\ Placed(level.orders, side, price, locations)
      /\ ~Lists(level.orders, id)
      /\ \A x : Lists(old, x) /\ x # id => Lists(level.orders, x)
  BY <1>2, <1>3, <1>4, SkipsPlaced, Zenon
<1>10. Placed(level.orders, side, price, locations')
  BY <1>6, <1>8, <1>9, PlacedElsewhere, Zenon
<1>11. ASSUME NEW x \in DOMAIN locations', locations'[x] = here
       PROVE  Lists(level.orders, x)
  <2>1. x \in DOMAIN locations /\ x # id /\ locations[x] = here
    BY <1>7, <1>11, Zenon
  <2>2. locations[x].side = side /\ locations[x].price = price
    BY <2>1
  <2>3. Lists(old, x)
    BY <1>1, <2>1, <2>2, OfId, Zenon
  <2> QED
    BY <1>9, <2>1, <2>3, Zenon
<1>12. BookTypeOK' /\ IndexAgrees'
  <2>1. LevelStep(side, price, level, id)
    BY <1>2, <1>5, <1>7, <1>8, <1>10, <1>11, Zenon DEF LevelStep
  <2> QED
    BY <1>3, <1>6, <2>1, LevelReplaced, Zenon
<1>13. ArrivedInOrder(level.orders, now)
  <2>1. ArrivedInOrder(old, now)
    BY <1>1, Zenon DEF BookInOrder
  <2> QED
    BY <1>2, <1>3, <2>1, SkipsInOrder, Zenon
<1>14. BookInOrder(now)' /\ \A s \in Side : DOMAIN levels'[s] \subseteq DOMAIN levels[s]
  BY <1>2, <1>13, LevelInOrder, Zenon
<1> QED
  BY <1>5, <1>7, <1>12, <1>14, Zenon

\* cancelOrder keeps the book consistent and removes exactly its order.
LEMMA CancelOrderPreserves ==
  ASSUME BookTypeOK, IndexAgrees, NEW id, cancelOrder(id),
         NEW now \in Nat, BookInOrder(now)
  PROVE  /\ BookTypeOK' /\ IndexAgrees' /\ BookInOrder(now)'
         /\ DOMAIN locations' = DOMAIN locations \ {id}
         /\ \A s \in Side : DOMAIN levels'[s] \subseteq DOMAIN levels[s]
         /\ contains(id) => OrderOf(id) \in Order
<1>1. CASE ~contains(id)
  <2>1. levels' = levels /\ locations' = locations /\ id \notin DOMAIN locations
    BY <1>1 DEF cancelOrder, book, contains
  <2>2. BookTypeOK'
    BY <2>1, Zenon DEF BookTypeOK
  <2>3. IndexAgrees'
    BY <2>1, Zenon DEF IndexAgrees
  <2>4. BookInOrder(now)'
    BY <2>1, Zenon DEF BookInOrder
  <2>5. DOMAIN locations' = DOMAIN locations \ {id}
    BY <2>1, Zenon
  <2> QED
    BY <1>1, <2>1, <2>2, <2>3, <2>4, <2>5, Zenon
<1>2. CASE contains(id)
  <2>1. id \in DOMAIN locations
    BY <1>2, Zenon DEF contains
  <2>2. PICK side \in Side, price \in Price :
          /\ side = locations[id].side /\ price = locations[id].price
          /\ price \in DOMAIN levels[side]
          /\ Lists(levels[side][price].orders, id)
    BY <2>1, OfId, Zenon
  <2>3. PICK old \in Seq(Order) : old = levels[side][price].orders
    BY <2>2, OrdersOfLevel, Zenon
  <2>4. PICK pos \in DOMAIN old : pos = Position(id) /\ old[pos].id = id
    BY <2>2, <2>3, Zenon DEF Position, Lists
  <2>5. OrderOf(id) = old[pos]
    BY <2>2, <2>3, <2>4, Zenon DEF OrderOf
  <2>6. DOMAIN old = 1..Len(old) /\ old[pos] \in Order
    BY <2>3, LenProperties, ElementOfSeq, Zenon
  <2>7. levels[side][price].total_quantity - old[pos].quantity \in Int
    <3>1. levels[side][price].total_quantity \in Int
      BY <2>2, OrdersOfLevel, Zenon
    <3>2. old[pos].quantity \in Int
      BY <2>6 DEF Order
    <3> QED
      BY <3>1, <3>2
  <2>8. PICK level :
          level = [orders         |-> EraseAt(old, pos),
                   total_quantity |-> levels[side][price].total_quantity
                                      - old[pos].quantity]
    BY Zenon
  <2>9. EraseAt(old, pos) \in Seq(Order) /\ SkipsAt(EraseAt(old, pos), old, pos)
    BY <2>6, EraseAtProperties, Zenon DEF SkipsAt
  <2>10. level \in PriceLevel /\ level.orders = EraseAt(old, pos)
    BY <2>7, <2>8, <2>9 DEF PriceLevel
  <2>11. StoreLevel(side, price, level) /\ locations' = Erase(locations, id)
    BY <1>2, <2>2, <2>3, <2>4, <2>5, <2>8, Zenon DEF cancelOrder
  <2>12. RemovesAt(side, price, pos, level, id)
    BY <2>3, <2>4, <2>9, <2>10, <2>11, Zenon DEF RemovesAt
  <2>13. /\ BookTypeOK' /\ IndexAgrees' /\ BookInOrder(now)'
         /\ DOMAIN locations' = DOMAIN locations \ {id}
         /\ \A s \in Side : DOMAIN levels'[s] \subseteq DOMAIN levels[s]
    BY <2>2, <2>10, <2>12, OrderRemoved, Zenon
  <2> QED
    BY <2>5, <2>6, <2>13, Zenon
<1> QED
  BY <1>1, <1>2, Zenon
-----------------------------------------------------------------------------
(* reduceFront *)

\* The front order of the best level, the only one the engine trades with.
LEMMA FrontOfBest ==
  ASSUME BookTypeOK, IndexAgrees, NEW side \in Side, ~emptySide(side)
  PROVE  LET best == frontOfBest(side) IN
         /\ best \in Order /\ best.price = bestPrice(side) /\ best.price \in Price
         /\ best.id \in DOMAIN locations /\ best.id \in Id
         /\ best.quantity \in Nat \ {0} /\ best.side = side
         /\ bestPrice(side) \in DOMAIN levels[side]
         /\ 1 \in DOMAIN levels[side][bestPrice(side)].orders
         /\ best = levels[side][bestPrice(side)].orders[1]
<1>1. PICK price \in DOMAIN levels[side] : price = bestPrice(side)
  BY BestPrice, Zenon
<1>2. PICK old \in Seq(Order) : old = levels[side][price].orders
  BY OrdersOfLevel, Zenon
<1>3. /\ old # << >> /\ price \in Price
      /\ \A i \in DOMAIN old : WellPlaced(old[i], side, price, locations)
      /\ \A i \in DOMAIN old : old[i] \in Order
  BY <1>2, OrdersOfLevel, OfLevel, Zenon
<1>4. 1 \in DOMAIN old
  BY <1>3, EmptySeq, LenProperties
<1>5. frontOfBest(side) = old[1]
  BY <1>1, <1>2, Zenon DEF frontOfBest
<1>6. old[1] \in Order /\ WellPlaced(old[1], side, price, locations)
  BY <1>3, <1>4, Zenon
<1>7. old[1].quantity \in Nat \ {0}
  BY <1>6 DEF Order, WellPlaced
<1>8. old[1].id \in DOMAIN locations /\ old[1].id \in Id
  BY <1>6, Zenon DEF WellPlaced, BookTypeOK, IsMap
<1> QED
  BY <1>1, <1>2, <1>3, <1>4, <1>5, <1>6, <1>7, <1>8, Zenon DEF WellPlaced

\* A list whose front order has traded, not completely.
LEMMA FrontReplaced ==
  ASSUME NEW old \in Seq(Order), NEW rest \in Order,
         rest.id = old[1].id, rest.sequence = old[1].sequence,
         NEW new, DOMAIN new = DOMAIN old, new[1] = rest,
         \A i \in DOMAIN old \ {1} : new[i] = old[i],
         NEW s, NEW p, Placed(old, s, p, locations), WellPlaced(rest, s, p, locations),
         NEW now, ArrivedInOrder(old, now)
  PROVE  /\ ArrivedInOrder(new, now)
         /\ Placed(new, s, p, locations)
         /\ \A x : Lists(old, x) => Lists(new, x)
<1>3. \A i \in DOMAIN new : new[i].id = old[i].id /\ new[i].sequence = old[i].sequence
  OBVIOUS
<1>4. Placed(new, s, p, locations)
  <2>1. \A i \in DOMAIN new : WellPlaced(new[i], s, p, locations)
    <3>1. ASSUME NEW i \in DOMAIN old \ {1}
          PROVE  WellPlaced(new[i], s, p, locations)
      BY Zenon DEF Placed
    <3> QED
      BY <3>1, Zenon
  <2>2. UniqueIds(new)
    BY <1>3, Zenon DEF Placed, UniqueIds
  <2> QED
    BY <2>1, <2>2, Zenon DEF Placed
<1>5. \A x : Lists(old, x) => Lists(new, x)
  BY <1>3, Zenon DEF Lists
<1>6. ArrivedInOrder(new, now)
  <2>1. \A i \in DOMAIN old : \A j \in 1..(i - 1) : j \in DOMAIN old
    BY LenProperties
  <2> QED
    BY <1>3, <2>1, Zenon DEF ArrivedInOrder
<1> QED
  BY <1>4, <1>5, <1>6, Zenon

\* What is left of an order that traded.
LEMMA RestOfOrder ==
  ASSUME NEW o \in Order, NEW qty \in Nat, qty <= o.quantity
  PROVE  LET rest == [o EXCEPT !.quantity = @ - qty] IN
         /\ rest \in Order /\ rest.quantity = o.quantity - qty /\ rest.id = o.id
         /\ rest.side = o.side /\ rest.price = o.price /\ rest.type = o.type
         /\ rest.sequence = o.sequence /\ rest.flags = o.flags
<1>1. PICK q : q = o.quantity - qty
  BY Zenon
<1>2. q \in Nat
  BY <1>1 DEF Order
<1>3. PICK rest : rest = [o EXCEPT !.quantity = q]
  BY Zenon
<1>4. /\ rest \in Order /\ rest.quantity = q /\ rest.id = o.id
      /\ rest.side = o.side /\ rest.price = o.price /\ rest.type = o.type
      /\ rest.sequence = o.sequence /\ rest.flags = o.flags
  BY <1>2, <1>3 DEF Order
<1> QED
  BY <1>1, <1>3, <1>4, Zenon

\* reduceFront keeps the book consistent, removing the front order exactly
\* when it is filled.
LEMMA ReduceFrontPreserves ==
  ASSUME BookTypeOK, IndexAgrees, NEW side \in Side, ~emptySide(side),
         NEW qty \in Nat, qty <= frontOfBest(side).quantity, reduceFront(side, qty),
         NEW now \in Nat, BookInOrder(now)
  PROVE  /\ BookTypeOK' /\ IndexAgrees' /\ BookInOrder(now)'
         /\ DOMAIN locations' \subseteq DOMAIN locations
         /\ \A s \in Side : DOMAIN levels'[s] \subseteq DOMAIN levels[s]
<1>1. PICK price \in DOMAIN levels[side] : price = bestPrice(side)
  BY BestPrice, Zenon
<1>2. PICK old \in Seq(Order) : old = levels[side][price].orders
  BY OrdersOfLevel, Zenon
<1>3. PICK total \in Int : total = levels[side][price].total_quantity - qty
  <2>1. levels[side][price].total_quantity \in Int
    BY OrdersOfLevel, Zenon
  <2> QED
    BY <2>1
<1>4. PICK front \in Order : front = old[1] /\ front = frontOfBest(side)
  BY <1>1, <1>2, FrontOfBest, Zenon
<1>5. /\ 1 \in DOMAIN old /\ front.quantity \in Nat /\ qty <= front.quantity
      /\ front.id \in DOMAIN locations /\ front.id \in Id
  BY <1>1, <1>2, <1>4, FrontOfBest, Zenon
<1>6. /\ price \in Price
      /\ Placed(old, side, price, locations) /\ ArrivedInOrder(old, now)
      /\ WellPlaced(front, side, price, locations)
  BY <1>2, <1>4, <1>5, OrdersOfLevel, OfLevel, Zenon DEF BookInOrder
<1>7. CASE front.quantity = qty
  <2>1. PICK level : level = [orders |-> Tail(old), total_quantity |-> total]
    BY Zenon
  <2>2. StoreLevel(side, price, level) /\ locations' = Erase(locations, front.id)
    BY <1>1, <1>2, <1>3, <1>4, <1>7, <2>1, Zenon DEF reduceFront, Reduced
  <2>3. /\ Tail(old) \in Seq(Order) /\ Len(Tail(old)) = Len(old) - 1
        /\ \A j \in 1..Len(Tail(old)) : Tail(old)[j] = old[j + 1]
    BY <1>5, HeadTailProperties, LenProperties
  <2>4. level \in PriceLevel /\ level.orders = Tail(old)
    BY <2>1, <2>3 DEF PriceLevel
  <2>5. PICK pos \in DOMAIN old : pos = 1
    BY <1>5, Zenon
  <2>6. SkipsAt(Tail(old), old, pos)
    <3>1. ASSUME NEW j \in 1..(Len(old) - 1)
          PROVE  Tail(old)[j] = IF j < pos THEN old[j] ELSE old[j + 1]
      <4>1. ~(j < pos)
        BY <2>5
      <4>2. Tail(old)[j] = old[j + 1]
        BY <2>3, Zenon
      <4> QED
        BY <4>1, <4>2, Zenon
    <3> QED
      BY <2>3, <3>1, Zenon DEF SkipsAt
  <2>7. RemovesAt(side, price, pos, level, front.id)
    BY <1>2, <1>4, <2>2, <2>4, <2>5, <2>6, Zenon DEF RemovesAt
  <2>8. /\ BookTypeOK' /\ IndexAgrees' /\ BookInOrder(now)'
        /\ DOMAIN locations' = DOMAIN locations \ {front.id}
        /\ \A s \in Side : DOMAIN levels'[s] \subseteq DOMAIN levels[s]
    BY <2>4, <2>7, OrderRemoved, Zenon
  <2> QED
    BY <2>8, Zenon
<1>8. CASE front.quantity # qty
  <2>1. PICK rest : rest = [front EXCEPT !.quantity = @ - qty]
    BY Zenon
  <2>2. /\ rest \in Order /\ rest.quantity > 0 /\ rest.id = front.id
        /\ rest.side = front.side /\ rest.price = front.price
        /\ rest.type = front.type /\ rest.sequence = front.sequence
    <3>1. front.quantity - qty > 0
      BY <1>5, <1>8
    <3> QED
      BY <1>5, <2>1, <3>1, RestOfOrder, Zenon
  <2>3. PICK new : new = [old EXCEPT ![1] = rest]
    BY Zenon
  <2>4. WellPlaced(rest, side, price, locations)
    BY <1>6, <2>2, Zenon DEF WellPlaced
  <2>5. /\ new \in Seq(Order) /\ ArrivedInOrder(new, now)
        /\ Placed(new, side, price, locations)
        /\ \A x : Lists(old, x) => Lists(new, x)
    <3>1. new \in Seq(Order)
      BY <1>5, <2>2, <2>3, ExceptSeq, LenProperties
    <3>2. /\ DOMAIN new = DOMAIN old /\ new[1] = rest
          /\ \A i \in DOMAIN old \ {1} : new[i] = old[i]
      BY <1>5, <2>3
    <3>3. rest.id = old[1].id /\ rest.sequence = old[1].sequence
      BY <1>4, <2>2, Zenon
    <3> QED
      BY <1>6, <2>2, <2>4, <3>1, <3>2, <3>3, FrontReplaced, Zenon
  <2>6. PICK level : level = [orders |-> new, total_quantity |-> total]
    BY Zenon
  <2>7. level \in PriceLevel /\ level.orders = new
    BY <2>5, <2>6 DEF PriceLevel
  <2>8. StoreLevel(side, price, level) /\ locations' = locations
    BY <1>1, <1>2, <1>3, <1>4, <1>8, <2>1, <2>3, <2>6, Zenon DEF reduceFront, Reduced
  <2>9. ASSUME NEW x \in DOMAIN locations, locations[x] = [side |-> side, price |-> price]
        PROVE  Lists(new, x)
    <3>1. locations[x].side = side /\ locations[x].price = price
      BY <2>9
    <3>2. Lists(old, x)
      BY <1>2, <3>1, OfId, Zenon
    <3> QED
      BY <2>5, <3>2, Zenon
  <2>10. LevelStep(side, price, level, front.id)
    <3>1. locations[front.id] = [side |-> side, price |-> price]
      BY <1>6, Zenon DEF WellPlaced
    <3>2. IsMap(locations, Id, OrderLocation)
      BY Zenon DEF BookTypeOK
    <3> QED
      BY <2>5, <2>7, <2>8, <2>9, <3>1, <3>2, Zenon DEF LevelStep
  <2>11. BookTypeOK' /\ IndexAgrees'
    BY <1>5, <1>6, <2>7, <2>10, LevelReplaced, Zenon
  <2>12. BookInOrder(now)' /\ \A s \in Side : DOMAIN levels'[s] \subseteq DOMAIN levels[s]
    BY <2>5, <2>7, <2>8, LevelInOrder, Zenon
  <2> QED
    BY <2>8, <2>11, <2>12, Zenon
<1> QED
  BY <1>7, <1>8, Zenon

-----------------------------------------------------------------------------

\* A chain of checks gives the reason of one that fails, or NONE if none does.
LEMMA FirstFailureFacts ==
  ASSUME NEW checks, NEW n \in Nat, DOMAIN checks = 1..n
  PROVE  \/ /\ FirstFailure(checks) = "NONE"
            /\ \A i \in DOMAIN checks : ~checks[i].fails
         \/ \E i \in DOMAIN checks : /\ checks[i].fails
                                     /\ FirstFailure(checks) = checks[i].reason
<1> DEFINE failing == {i \in DOMAIN checks : checks[i].fails}
<1>1. CASE failing = {}
  BY <1>1 DEF FirstFailure
<1>2. CASE failing # {}
  <2>1. failing \subseteq Nat
    OBVIOUS
  <2>2. \E x \in failing : \A y \in failing : x <= y
    BY <1>2, <2>1, NatMin, Zenon
  <2>3. Min(failing) \in failing
    BY <2>2 DEF Min
  <2>4. FirstFailure(checks) = checks[Min(failing)].reason
    BY <1>2 DEF FirstFailure
  <2> QED
    BY <2>3, <2>4, Zenon
<1> QED
  BY <1>1, <1>2

\* validateStatic lets through exactly what the matching loop relies on.
LEMMA StaticFacts ==
  ASSUME NEW o \in Order
  PROVE  /\ validateStatic(o) \in RejectReason
         /\ validateStatic(o) = "NONE" =>
              /\ o.id \in Id /\ o.side \in Side /\ o.type \in OrderType
              /\ o.quantity > 0 /\ (o.type = "LIMIT" => o.price > 0)
<1> DEFINE checks == StaticChecks(o)
<1>1. DOMAIN checks = 1..9
  BY DEF StaticChecks
<1>2. \A i \in 1..9 : checks[i].reason \in RejectReason \ {"NONE"}
  BY DEF StaticChecks, Check, RejectReason
<1>3. /\ checks[1].fails <=> o.id = 0
      /\ checks[2].fails <=> o.side \notin Side
      /\ checks[3].fails <=> o.type \notin OrderType
      /\ checks[6].fails <=> o.quantity = 0
      /\ checks[7].fails <=> o.type = "LIMIT" /\ o.price <= 0
  BY Zenon DEF StaticChecks, Check
<1>4. validateStatic(o) = FirstFailure(checks)
  BY DEF validateStatic
<1> HIDE DEF checks
<1>5. \/ /\ FirstFailure(checks) = "NONE"
         /\ \A i \in DOMAIN checks : ~checks[i].fails
      \/ \E i \in DOMAIN checks : /\ checks[i].fails
                                  /\ FirstFailure(checks) = checks[i].reason
  BY <1>1, FirstFailureFacts, Zenon
<1>6. validateStatic(o) \in RejectReason
  BY <1>1, <1>2, <1>4, <1>5 DEF RejectReason
<1>7. ASSUME validateStatic(o) = "NONE"
      PROVE  /\ o.id \in Id /\ o.side \in Side /\ o.type \in OrderType
             /\ o.quantity > 0 /\ (o.type = "LIMIT" => o.price > 0)
  <2>1. \A i \in 1..9 : ~checks[i].fails
    BY <1>1, <1>2, <1>4, <1>5, <1>7
  <2>2. ~checks[1].fails /\ ~checks[2].fails /\ ~checks[3].fails /\ ~checks[6].fails
        /\ ~checks[7].fails
    BY <2>1
  <2> QED
    BY <1>3, <2>2 DEF Order
<1> QED
  BY <1>6, <1>7

\* The division of the notional check loses nothing: it rejects exactly the
\* orders whose price times quantity exceeds the limit.
THEOREM NotionalExact ==
  ASSUME NEW price \in Int, NEW quantity \in Nat \ {0}, NEW max_notional \in Nat
  PROVE  ExceedsNotional(price, quantity, max_notional)
           <=> price * quantity > max_notional
<1> DEFINE d == max_notional \div quantity
           r == max_notional % quantity
<1>1. /\ d \in Nat /\ r \in Nat /\ r < quantity
      /\ max_notional = quantity * d + r
  OBVIOUS
<1> HIDE DEF d, r
<1>2. CASE price > d
  <2>1. price >= d + 1
    BY <1>1, <1>2
  <2>2. price * quantity >= (d + 1) * quantity
    BY <1>1, <2>1
  <2>3. (d + 1) * quantity = quantity * d + quantity
    BY <1>1
  <2>4. quantity * d \in Int /\ price * quantity \in Int /\ (d + 1) * quantity \in Int
    BY <1>1
  <2>5. price * quantity > max_notional
    BY <1>1, <2>2, <2>3, <2>4
  <2> QED
    BY <1>2, <2>5 DEF ExceedsNotional, d
<1>3. CASE ~(price > d)
  <2>1. price * quantity <= d * quantity
    BY <1>1, <1>3
  <2>2. d * quantity = quantity * d /\ d * quantity \in Int /\ price * quantity \in Int
    BY <1>1
  <2>3. ~(price * quantity > max_notional)
    BY <1>1, <2>1, <2>2
  <2> QED
    BY <1>3, <2>3 DEF ExceedsNotional, d
<1> QED
  BY <1>2, <1>3

LEMMA RiskFacts ==
  ASSUME NEW o \in Order, NEW n, NEW may
  PROVE  validate(o, n, may) \in RejectReason
<1> DEFINE checks == RiskChecks(o, n, may)
<1>1. DOMAIN checks = 1..5
  BY DEF RiskChecks
<1>2. \A i \in 1..5 : checks[i].reason \in RejectReason
  BY DEF RiskChecks, Check, RejectReason
<1>3. validate(o, n, may) = FirstFailure(checks)
  BY DEF validate
<1> HIDE DEF checks
<1>4. \/ FirstFailure(checks) = "NONE"
      \/ \E i \in DOMAIN checks : FirstFailure(checks) = checks[i].reason
  BY <1>1, FirstFailureFacts, Zenon
<1> QED
  BY <1>1, <1>2, <1>3, <1>4 DEF RejectReason

\* What processOrder knows of an order it accepts, and that a rejection has a
\* reason.
LEMMA DecisionFacts ==
  ASSUME NEW o \in Order
  PROVE  /\ RejectReasonFor(o) \in RejectReason
         /\ RejectReasonFor(o) = "NONE" =>
              /\ o.id \in Id /\ o.side \in Side /\ o.type \in OrderType
              /\ o.quantity > 0 /\ (o.type = "LIMIT" => o.price > 0)
              /\ o.id \notin seen_order_ids
              /\ hasFlag(o, "POST_ONLY") => ~wouldCross(o)
<1>1. PICK executable : executable = executableQuantity(o, o.quantity)
  OBVIOUS
<1>2. PICK says : says = validate(o, orderCount, IsGtcLimit(o) /\ executable < o.quantity)
  OBVIOUS
<1>3. PICK checks : checks = StateChecks(o)
  OBVIOUS
<1>4. checks = << Check(o.id \in seen_order_ids, "DUPLICATE_ORDER_ID"),
                  Check(says # "NONE", says),
                  Check(hasFlag(o, "POST_ONLY") /\ wouldCross(o), "POST_ONLY_WOULD_TRADE"),
                  Check(o.time_in_force = "FOK" /\ executable < o.quantity,
                        "FOK_NOT_FILLABLE") >>
  BY <1>1, <1>2, <1>3 DEF StateChecks
<1>5. says \in RejectReason
  BY <1>2, RiskFacts
<1>6. DOMAIN checks = 1..4 /\ \A i \in 1..4 : checks[i].reason \in RejectReason
  BY <1>4, <1>5 DEF Check, RejectReason
<1>7. /\ checks[1].fails <=> o.id \in seen_order_ids
      /\ checks[2].fails <=> says # "NONE"
      /\ checks[3].fails <=> hasFlag(o, "POST_ONLY") /\ wouldCross(o)
      /\ checks[1].reason = "DUPLICATE_ORDER_ID" /\ checks[2].reason = says
      /\ checks[3].reason = "POST_ONLY_WOULD_TRADE"
      /\ checks[4].reason = "FOK_NOT_FILLABLE"
  BY <1>4, Zenon DEF Check
<1>8. \/ /\ FirstFailure(checks) = "NONE"
         /\ \A i \in DOMAIN checks : ~checks[i].fails
      \/ \E i \in DOMAIN checks : /\ checks[i].fails
                                  /\ FirstFailure(checks) = checks[i].reason
  BY <1>6, FirstFailureFacts, Zenon
<1>9. RejectReasonFor(o) \in RejectReason
  BY <1>3, <1>6, <1>8, StaticFacts DEF RejectReasonFor, RejectReason
<1>10. ASSUME RejectReasonFor(o) = "NONE"
       PROVE  /\ validateStatic(o) = "NONE" /\ o.id \notin seen_order_ids
              /\ hasFlag(o, "POST_ONLY") => ~wouldCross(o)
  <2>1. validateStatic(o) = "NONE" /\ FirstFailure(checks) = "NONE"
    BY <1>3, <1>10 DEF RejectReasonFor
  <2>2. \A i \in 1..4 : ~checks[i].fails
    <3>1. ASSUME NEW i \in 1..4, checks[i].fails, "NONE" = checks[i].reason
          PROVE  FALSE
      <4>1. i = 1 \/ i = 2 \/ i = 3 \/ i = 4
        OBVIOUS
      <4> QED
        BY <1>7, <3>1, <4>1
    <3> QED
      BY <1>6, <1>8, <2>1, <3>1
  <2>3. ~checks[1].fails /\ ~checks[3].fails
    BY <2>2
  <2> QED
    BY <1>7, <2>1, <2>3
<1> QED
  BY <1>9, <1>10, StaticFacts
-----------------------------------------------------------------------------
\* What a call that has been accepted and not returned relies on: its order
\* carries the newest sequence and an id that is used up but not in the book,
\* and it passed the checks.
CallInv ==
  /\ sequence > 0 /\ order.sequence = sequence
  /\ order.id \in seen_order_ids \ DOMAIN locations
  /\ order.side \in Side /\ order.type \in OrderType
  /\ order.type = "LIMIT" => order.price > 0
  /\ order.quantity <= requested
  /\ hasFlag(order, "POST_ONLY") => trades = << >> /\ ~LoopContinues

\* The sequence of the last event that is no longer in progress.
LastEvent == IF pc = "match" THEN sequence - 1 ELSE sequence

\* The inductive invariant.
IInv ==
  /\ TypeOK /\ IndexAgrees /\ NotCrossed /\ NoSelfTrade
  /\ BookInOrder(LastEvent)
  /\ DOMAIN locations \subseteq seen_order_ids
  /\ pc = "match" => CallInv

\* A step that leaves the book alone leaves all that is said of it.
LEMMA BookUnchanged ==
  ASSUME UNCHANGED book, BookTypeOK, IndexAgrees, NotCrossed, NEW now, BookInOrder(now)
  PROVE  BookTypeOK' /\ IndexAgrees' /\ NotCrossed' /\ BookInOrder(now)'
<1>1. levels' = levels /\ locations' = locations
  BY DEF book
<1>2. BookTypeOK'
  BY <1>1, SMTT(30) DEF BookTypeOK
<1>3. IndexAgrees'
  BY <1>1 DEF IndexAgrees
<1>4. NotCrossed'
  BY <1>1 DEF NotCrossed
<1>5. BookInOrder(now)'
  BY <1>1 DEF BookInOrder
<1> QED
  BY <1>2, <1>3, <1>4, <1>5

\* Nor does it change what the book offers.
LEMMA OfferUnchanged ==
  ASSUME UNCHANGED book, NEW side
  PROVE  /\ frontOfBest(side)' = frontOfBest(side)
         /\ emptySide(side)' <=> emptySide(side)
<1>1. levels' = levels
  BY DEF book
<1>2. bestPrice(side)' = bestPrice(side)
  BY <1>1 DEF bestPrice
<1> QED
  BY <1>1, <1>2 DEF frontOfBest, emptySide

\* Arrival order does not depend on how late it is.
LEMMA BookInOrderLater ==
  ASSUME BookTypeOK', NEW now \in Nat, BookInOrder(now)'
  PROVE  BookInOrder(now + 1)'
<1> SUFFICES ASSUME NEW s \in Side, NEW p \in DOMAIN levels'[s]
             PROVE  ArrivedInOrder(levels'[s][p].orders, now + 1)
  BY DEF BookInOrder
<1>1. levels'[s][p].orders \in Seq(Order)
  BY DEF BookTypeOK, IsMap, PriceLevel
<1>2. \A i \in DOMAIN levels'[s][p].orders : levels'[s][p].orders[i] \in Order
  BY <1>1, LenProperties, ElementOfSeq
<1>3. \A i \in DOMAIN levels'[s][p].orders : levels'[s][p].orders[i].sequence \in Nat
  BY <1>2 DEF Order
<1>4. ArrivedInOrder(levels'[s][p].orders, now)
  BY DEF BookInOrder
<1> QED
  BY <1>3, <1>4 DEF ArrivedInOrder

\* The initial state satisfies the invariant.
LEMMA InitIInv == Init => IInv
<1> SUFFICES ASSUME Init PROVE IInv
  OBVIOUS
<1>1. levels = [s \in Side |-> << >>] /\ locations = << >>
  BY DEF Init, BookInit
<1>2. \A s \in Side : DOMAIN levels[s] = {}
  BY <1>1
<1>3. BookTypeOK
  BY <1>1 DEF BookTypeOK, IsMap
<1>4. IndexAgrees /\ NotCrossed /\ BookInOrder(LastEvent)
  BY <1>1, <1>2 DEF IndexAgrees, NotCrossed, BookInOrder, Side
<1>5. NoOrder \in Order /\ NoReport \in ExecutionReport
  BY OrderAssumption DEF NoOrder, Order, NoReport, ExecutionReport, Side, OrderType,
     TimeInForce, ExecutionStatus, RejectReason
<1>6. RiskTypeOK
  BY Zenon DEF Init, RiskInit, RiskTypeOK
<1>7. TypeOK
  BY <1>3, <1>5, <1>6, EngineAssumption DEF TypeOK, Init
<1> QED
  BY <1>1, <1>4, <1>7 DEF IInv, Init, NoSelfTrade

\* The decision of processOrder.  A rejection leaves the book alone; an
\* acceptance establishes CallInv.
LEMMA ProcessOrderIInv ==
  ASSUME IInv, NEW o \in OrderInputs, ProcessOrder(o)
  PROVE  IInv'
<1>1. /\ pc = "idle" /\ sequence \in Nat /\ sequence' = sequence + 1
      /\ sequence + 1 \in 0..MaxSequence
      /\ trades' = << >> /\ UNCHANGED <<risk, next_trade_id, canceled_orders>>
  BY EngineAssumption DEF ProcessOrder, IInv, TypeOK
<1>2. UNCHANGED book
  BY DEF ProcessOrder, Reject, Accept
<1>3. o \in Order
  BY BookAssumption
<1>4. PICK reason : reason = RejectReasonFor(o)
  OBVIOUS
<1>5. BookInOrder(sequence)
  BY <1>1 DEF IInv, LastEvent
<1>6. PICK now \in Nat : now = sequence
  BY <1>1
<1>7. BookTypeOK' /\ IndexAgrees' /\ NotCrossed' /\ BookInOrder(now)'
  BY <1>2, <1>5, <1>6, BookUnchanged DEF IInv, TypeOK
<1>8. RiskTypeOK' /\ NoSelfTrade'
  BY <1>1 DEF IInv, TypeOK, RiskTypeOK, risk, NoSelfTrade
<1>9. CASE reason # "NONE"
  <2>1. Reject(o, reason)
    BY <1>4, <1>9 DEF ProcessOrder
  <2>2. report' \in ExecutionReport
    <3>1. reason \in RejectReason /\ o.id \in Id \cup {0} /\ o.quantity \in Nat
      BY <1>3, <1>4, DecisionFacts DEF Order
    <3>2. report' = [order_id |-> o.id, sequence |-> sequence + 1,
                     command |-> "NEW_ORDER", status |-> "REJECTED",
                     reject_reason |-> reason, requested_quantity |-> o.quantity,
                     executed_quantity |-> 0, remaining_quantity |-> o.quantity,
                     trade_count |-> 0]
      BY <2>1, Zenon DEF Reject, NoReport
    <3> QED
      BY <1>1, <3>1, <3>2 DEF ExecutionReport, ExecutionStatus
  <2>3. TypeOK'
    BY <1>1, <1>7, <1>8, <2>1, <2>2 DEF IInv, TypeOK, Reject
  <2>4. pc' = "idle" /\ BookInOrder(LastEvent)'
    <3>1. pc' = "idle"
      BY <1>1, <2>1 DEF Reject
    <3>2. BookInOrder(now + 1)'
      BY <1>6, <1>7, BookInOrderLater
    <3> QED
      BY <1>1, <1>6, <3>1, <3>2 DEF LastEvent
  <2> QED
    BY <1>2, <1>7, <1>8, <2>1, <2>3, <2>4 DEF IInv, Reject, book
<1>10. CASE reason = "NONE"
  <2>1. Accept(o)
    BY <1>4, <1>10 DEF ProcessOrder
  <2>2. /\ o.id \in Id /\ o.side \in Side /\ o.type \in OrderType
        /\ o.quantity > 0 /\ (o.type = "LIMIT" => o.price > 0)
        /\ o.id \notin seen_order_ids
        /\ hasFlag(o, "POST_ONLY") => ~wouldCross(o)
    BY <1>3, <1>4, <1>10, DecisionFacts, Zenon
  <2>3. /\ order' \in Order /\ order'.sequence = sequence'
        /\ order'.id = o.id /\ order'.side = o.side /\ order'.type = o.type
        /\ order'.price = o.price /\ order'.quantity = o.quantity
        /\ order'.flags = o.flags
        /\ requested' = o.quantity /\ o.quantity \in Nat
    BY <1>1, <1>3, <2>1 DEF Accept, Order
  <2>4. TypeOK'
    BY <1>1, <1>7, <1>8, <2>1, <2>2, <2>3 DEF IInv, TypeOK, Accept
  <2>5. pc' = "match" /\ BookInOrder(LastEvent)'
    BY <1>1, <1>6, <1>7, <2>1 DEF Accept, LastEvent
  <2>6. hasFlag(order', "POST_ONLY") => ~LoopContinues'
    <3> SUFFICES ASSUME "POST_ONLY" \in o.flags, LoopContinues' PROVE FALSE
      BY <2>3 DEF hasFlag
    <3>1. PICK opp : opp = Opposite(o.side)
      OBVIOUS
    <3>2. ~emptySide(opp)' /\ Crosses(order', frontOfBest(opp)'.price)
      BY <2>3, <3>1 DEF LoopContinues
    <3>3. ~emptySide(opp) /\ Crosses(order', frontOfBest(opp).price)
      BY <1>2, <3>2, OfferUnchanged
    <3>4. Crosses(o, frontOfBest(opp).price)
      BY <2>3, <3>3 DEF Crosses
    <3> QED
      BY <2>2, <3>1, <3>3, <3>4 DEF wouldCross, hasFlag
  <2>7. CallInv'
    BY <1>1, <1>2, <2>1, <2>2, <2>3, <2>6 DEF CallInv, Accept, IInv, book
  <2>8. (DOMAIN locations \subseteq seen_order_ids)'
    BY <1>2, <2>1 DEF IInv, Accept, book
  <2> QED
    BY <1>7, <1>8, <2>4, <2>5, <2>7, <2>8 DEF IInv
<1> QED
  BY <1>9, <1>10

LEMMA MinOfTwo ==
  ASSUME NEW a \in Nat, NEW b \in Nat
  PROVE  /\ Min({a, b}) \in Nat /\ Min({a, b}) <= a /\ Min({a, b}) <= b
         /\ Min({a, b}) = a \/ Min({a, b}) = b
<1>1. \E x \in {a, b} : \A y \in {a, b} : x <= y
  <2>1. CASE a <= b
    BY <2>1
  <2>2. CASE b <= a
    BY <2>2
  <2> QED
    BY <2>1, <2>2
<1>2. Min({a, b}) \in {a, b} /\ \A y \in {a, b} : Min({a, b}) <= y
  BY <1>1 DEF Min
<1> QED
  BY <1>2

\* An iteration of the loop.  The two parties differ because one is in the
\* book and the other is not.
LEMMA MatchStepIInv ==
  ASSUME IInv, MatchStep
  PROVE  IInv'
<1>1. /\ pc = "match" /\ LoopContinues /\ CallInv
      /\ BookTypeOK /\ IndexAgrees /\ NotCrossed
      /\ order \in Order /\ trades \in Seq(Trade) /\ next_trade_id \in Nat \ {0}
      /\ sequence \in 0..MaxSequence /\ seen_order_ids \subseteq Id
  BY DEF MatchStep, IInv, TypeOK
<1>2. PICK now \in Nat : now = sequence - 1 /\ BookInOrder(now)
  BY <1>1 DEF CallInv, IInv, LastEvent
<1>3. PICK opp \in Side : opp = Opposite(order.side)
  BY DEF Opposite, Side
<1>4. ~emptySide(opp)
  BY <1>1, <1>3 DEF LoopContinues
<1>5. PICK best \in Order : best = frontOfBest(opp)
  BY <1>1, <1>4, FrontOfBest
<1>6. /\ best.price \in Price /\ best.id \in DOMAIN locations /\ best.id \in Id
      /\ best.quantity \in Nat
  BY <1>1, <1>4, <1>5, FrontOfBest
<1>7. order.quantity \in Nat /\ order.id \in Id /\ order.sequence \in Nat
  BY <1>1 DEF Order, CallInv
<1>8. PICK traded \in Nat : /\ traded = Min({order.quantity, best.quantity})
                            /\ traded <= order.quantity /\ traded <= best.quantity
  BY <1>6, <1>7, MinOfTwo
<1>9. /\ trades' = Append(trades, TradeWith(best, traded))
      /\ reduceFront(opp, traded)
      /\ order' = [order EXCEPT !.quantity = @ - traded]
      /\ next_trade_id' = next_trade_id + 1
      /\ UNCHANGED <<risk, seen_order_ids, sequence, accepted_orders,
                     rejected_orders, canceled_orders, pc, requested, report>>
  BY <1>3, <1>5, <1>8 DEF MatchStep
<1>10. /\ BookTypeOK' /\ IndexAgrees' /\ BookInOrder(now)'
       /\ DOMAIN locations' \subseteq DOMAIN locations
       /\ \A s \in Side : DOMAIN levels'[s] \subseteq DOMAIN levels[s]
  <2>1. traded <= frontOfBest(opp).quantity
    BY <1>5, <1>8
  <2> QED
    BY <1>1, <1>2, <1>4, <1>9, <2>1, ReduceFrontPreserves
<1>11. NotCrossed'
  BY <1>1, <1>10 DEF NotCrossed, Side
<1>12. /\ order' \in Order /\ order'.quantity <= order.quantity
       /\ order'.sequence = order.sequence /\ order'.id = order.id
       /\ order'.side = order.side /\ order'.type = order.type
       /\ order'.price = order.price /\ order'.flags = order.flags
       /\ order'.quantity \in Nat
  <2>1. order.quantity - traded \in Nat /\ order.quantity - traded <= order.quantity
    BY <1>7, <1>8
  <2>2. order \in Order
    BY <1>1, Zenon
  <2> QED
    BY <1>8, <1>9, <2>1, <2>2, RestOfOrder, Zenon
<1>13. PICK trade \in Trade : /\ trade = TradeWith(best, traded)
                              /\ trade.buy_order_id # trade.sell_order_id
  <2>1. order.id # best.id
    BY <1>1, <1>6 DEF CallInv
  <2>2. TradeWith(best, traded) \in Trade
    BY <1>1, <1>6, <1>7 DEF TradeWith, Trade
  <2> QED
    BY <2>1, <2>2 DEF TradeWith
<1>14. trades' \in Seq(Trade) /\ NoSelfTrade'
  <2>1. trades' = Append(trades, trade)
    BY <1>9, <1>13
  <2>2. /\ trades' \in Seq(Trade) /\ Len(trades') = Len(trades) + 1
        /\ \A n \in 1..Len(trades) : trades'[n] = trades[n]
        /\ trades'[Len(trades) + 1] = trade
    BY <1>1, <2>1, AppendProperties
  <2>3. /\ Len(trades) \in Nat /\ DOMAIN trades = 1..Len(trades)
        /\ DOMAIN trades' = 1..Len(trades')
    BY <1>1, <2>2, LenProperties
  <2>4. \A n \in DOMAIN trades : trades[n].buy_order_id # trades[n].sell_order_id
    BY DEF IInv, NoSelfTrade
  <2>5. ASSUME NEW n \in DOMAIN trades'
        PROVE  trades'[n].buy_order_id # trades'[n].sell_order_id
    <3>1. CASE n \in 1..Len(trades)
      BY <2>2, <2>3, <2>4, <3>1
    <3>2. CASE n = Len(trades) + 1
      BY <1>13, <2>2, <3>2
    <3> QED
      BY <2>2, <2>3, <3>1, <3>2
  <2> QED
    BY <2>2, <2>5 DEF NoSelfTrade
<1>15. TypeOK'
  <2>1. RiskTypeOK'
    BY <1>9 DEF IInv, TypeOK, RiskTypeOK, risk
  <2>2. next_trade_id' \in Nat \ {0}
    BY <1>9 DEF IInv, TypeOK
  <2> QED
    BY <1>1, <1>9, <1>10, <1>12, <1>14, <2>1, <2>2, Zenon DEF IInv, TypeOK
<1>16. CallInv'
  <2>1. ~hasFlag(order', "POST_ONLY")
    BY <1>1, <1>12 DEF CallInv, hasFlag
  <2>2. requested' = requested /\ requested \in Nat
    BY <1>9 DEF IInv, TypeOK
  <2>3. order'.quantity <= requested
    BY <1>1, <1>7, <1>12, <2>2 DEF CallInv
  <2>4. order'.id \in seen_order_ids' \ DOMAIN locations'
    <3>1. order.id \in seen_order_ids /\ order.id \notin DOMAIN locations
      BY <1>1, Zenon DEF CallInv
    <3>2. order'.id = order.id /\ seen_order_ids' = seen_order_ids
      BY <1>9, <1>12
    <3>3. DOMAIN locations' \subseteq DOMAIN locations
      BY <1>10, Zenon
    <3> QED
      BY <3>1, <3>2, <3>3, Zenon
  <2>5. /\ sequence' > 0 /\ order'.sequence = sequence'
        /\ order'.side \in Side /\ order'.type \in OrderType
        /\ order'.type = "LIMIT" => order'.price > 0
    BY <1>1, <1>9, <1>12, Zenon DEF CallInv
  <2> QED
    BY <2>1, <2>2, <2>3, <2>4, <2>5 DEF CallInv
<1>17. BookInOrder(LastEvent)'
  BY <1>1, <1>2, <1>9, <1>10 DEF LastEvent
<1> QED
  BY <1>9, <1>10, <1>11, <1>14, <1>15, <1>16, <1>17, Zenon DEF IInv

\* The return.  What rests does not cross the other side: the loop ended with
\* quantity left, so the best opposite price, hence every one, is out of reach.
LEMMA FinishOrderIInv ==
  ASSUME IInv, FinishOrder
  PROVE  IInv'
<1>1. /\ pc = "match" /\ ~LoopContinues /\ CallInv
      /\ BookTypeOK /\ IndexAgrees /\ NotCrossed
      /\ order \in Order /\ trades \in Seq(Trade) /\ requested \in Nat
      /\ sequence \in 0..MaxSequence /\ seen_order_ids \subseteq Id
  BY SMTT(30) DEF FinishOrder, IInv, TypeOK
<1>2. PICK now \in Nat : now = sequence - 1 /\ BookInOrder(now)
  BY <1>1 DEF CallInv, IInv, LastEvent
<1>3. /\ pc' = "idle" /\ order' = NoOrder /\ requested' = 0
      /\ UNCHANGED <<risk, engine, trades>>
  BY DEF FinishOrder
<1>4. order.quantity \in Nat /\ order.id \in Id /\ order.sequence = now + 1
  BY <1>1, <1>2 DEF Order, CallInv
<1>5. /\ BookTypeOK' /\ IndexAgrees' /\ NotCrossed' /\ BookInOrder(now + 1)'
      /\ DOMAIN locations' \subseteq seen_order_ids
  <2>1. CASE ShouldRest
    <3>1. PICK o \in Order : o = order
      BY <1>1
    <3>2. addOrder(o)
      BY <2>1, <3>1 DEF FinishOrder
    <3>3. Insertable(o) /\ o.side \in Side /\ o.price \in Price
      BY <1>1, <1>4, <2>1, <3>1, OrderAssumption
         DEF Insertable, CallInv, ShouldRest, IsGtcLimit, contains, Order, Price
    <3>4. /\ BookTypeOK' /\ IndexAgrees' /\ BookInOrder(now + 1)'
          /\ DOMAIN locations' = DOMAIN locations \cup {o.id}
          /\ \A s \in Side \ {o.side} : levels'[s] = levels[s]
          /\ DOMAIN levels'[o.side] = DOMAIN levels[o.side] \cup {o.price}
      BY <1>1, <1>2, <1>4, <3>1, <3>2, <3>3, AddOrderPreserves, Zenon
    <3>5. \A q \in DOMAIN levels[Opposite(o.side)] :
            IF o.side = "BUY" THEN o.price < q ELSE o.price > q
      <4>1. PICK opp \in Side : opp = Opposite(o.side)
        BY DEF Opposite, Side
      <4>2. CASE emptySide(opp)
        BY <4>1, <4>2 DEF emptySide
      <4>3. CASE ~emptySide(opp)
        <5>1. PICK b : b = bestPrice(opp)
          BY SMTT(30)
        <5>2. /\ b \in DOMAIN levels[opp]
              /\ \A q \in DOMAIN levels[opp] \ {b} : Better(opp, b, q)
          BY <1>1, <4>3, <5>1, BestPrice
        <5>3. frontOfBest(opp).price = b
          BY <1>1, <4>3, <5>1, FrontOfBest
        <5>4. ~Crosses(o, b)
          BY <1>1, <2>1, <3>1, <4>1, <4>3, <5>3 DEF LoopContinues, ShouldRest
        <5>5. o.price \in Int /\ \A q \in DOMAIN levels[opp] : q \in Int
          BY <1>1 DEF Order, BookTypeOK, IsMap, Price
        <5> QED
          BY <3>3, <4>1, <5>2, <5>4, <5>5 DEF Better, Crosses, Opposite, Side
      <4> QED
        BY <4>2, <4>3
    <3>6. NotCrossed'
      <4>1. CASE o.side = "BUY"
        BY <1>1, <3>4, <3>5, <4>1 DEF NotCrossed, Opposite, Side
      <4>2. CASE o.side = "SELL"
        <5>1. o.price \in Int /\ \A q \in DOMAIN levels["BUY"] : q \in Int
          BY <1>1 DEF Order, BookTypeOK, IsMap, Price, Side
        <5> QED
          BY <1>1, <3>4, <3>5, <4>2, <5>1 DEF NotCrossed, Opposite, Side
      <4> QED
        BY <3>3, <4>1, <4>2 DEF Side
    <3> QED
      BY <1>1, <3>1, <3>4, <3>6, Zenon DEF IInv, CallInv
  <2>2. CASE ~ShouldRest
    <3>1. UNCHANGED book
      BY <2>2 DEF FinishOrder
    <3>2. BookTypeOK' /\ IndexAgrees' /\ NotCrossed' /\ BookInOrder(now)'
      BY <1>1, <1>2, <3>1, BookUnchanged, Zenon
    <3> QED
      BY <3>1, <3>2, BookInOrderLater DEF IInv, book
  <2> QED
    BY <2>1, <2>2
<1>6. report' \in ExecutionReport
  <2>1. FinalStatus \in ExecutionStatus
    BY <1>1, <1>4 DEF FinalStatus, ExecutionStatus, CallInv
  <2>2. requested - order.quantity \in Nat /\ Len(trades) \in Nat
    BY <1>1, <1>4, LenProperties DEF CallInv
  <2> QED
    BY <1>1, <1>4, <2>1, <2>2 DEF FinishOrder, ExecutionReport, RejectReason, CallInv
<1>7. TypeOK'
  <2>1. RiskTypeOK'
    BY <1>3 DEF IInv, TypeOK, RiskTypeOK, risk
  <2>2. NoOrder \in Order
    BY OrderAssumption DEF NoOrder, Order, Side, OrderType, TimeInForce
  <2> QED
    BY <1>1, <1>3, <1>5, <1>6, <2>1, <2>2, Zenon DEF IInv, TypeOK, engine
<1>8. BookInOrder(LastEvent)'
  BY <1>1, <1>2, <1>3, <1>5 DEF LastEvent, engine
<1>9. NoSelfTrade'
  BY <1>3 DEF IInv, NoSelfTrade
<1> QED
  BY <1>3, <1>5, <1>7, <1>8, <1>9, Zenon DEF IInv, engine

LEMMA CancelReportType ==
  ASSUME NEW id \in Id \cup {0}, NEW status \in ExecutionStatus,
         NEW reason \in RejectReason, NEW quantity \in Nat, sequence \in Nat
  PROVE  CancelReport(id, status, reason, quantity) \in ExecutionReport
BY DEF CancelReport, ExecutionReport

\* A cancel, of an order in the book or not.
LEMMA CancelIInv ==
  ASSUME IInv, NEW id \in Id \cup {0}, Cancel(id)
  PROVE  IInv'
<1>1. /\ pc = "idle" /\ sequence \in Nat /\ sequence' = sequence + 1
      /\ sequence + 1 \in 0..MaxSequence /\ trades' = << >> /\ cancelOrder(id)
      /\ UNCHANGED <<risk, seen_order_ids, next_trade_id, accepted_orders,
                     rejected_orders, pc, order, requested>>
  BY EngineAssumption DEF Cancel, IInv, TypeOK
<1>2. PICK now \in Nat : now = sequence /\ BookInOrder(now)
  BY <1>1, SMTT(30) DEF IInv, LastEvent
<1>3. /\ BookTypeOK' /\ IndexAgrees' /\ BookInOrder(now)'
      /\ DOMAIN locations' = DOMAIN locations \ {id}
      /\ \A s \in Side : DOMAIN levels'[s] \subseteq DOMAIN levels[s]
      /\ contains(id) => OrderOf(id) \in Order
  BY <1>1, <1>2, CancelOrderPreserves, Zenon DEF IInv, TypeOK
<1>4. NotCrossed'
  BY <1>3 DEF IInv, NotCrossed, Side
<1>5. canceled_orders' \in Nat /\ report' \in ExecutionReport
  <2>1. canceled_orders \in Nat /\ canceled_orders + 1 \in Nat
    BY DEF IInv, TypeOK
  <2>2. CASE contains(id)
    <3>1. PICK q \in Nat : q = OrderOf(id).quantity
      BY <1>3, <2>2, Zenon DEF Order
    <3>2. /\ canceled_orders' = canceled_orders + 1
          /\ report' = CancelReport(id, "CANCELED", "NONE", q)
      BY <2>2, <3>1, Zenon DEF Cancel
    <3>3. CancelReport(id, "CANCELED", "NONE", q) \in ExecutionReport
      BY <1>1, CancelReportType, Zenon DEF ExecutionStatus, RejectReason
    <3> QED
      BY <2>1, <3>2, <3>3, Zenon
  <2>3. CASE ~contains(id)
    <3>1. PICK reason \in RejectReason :
            reason = IF id = 0 THEN "INVALID_ORDER_ID" ELSE "ORDER_NOT_FOUND"
      BY DEF RejectReason
    <3>2. /\ canceled_orders' = canceled_orders
          /\ report' = CancelReport(id, "REJECTED", reason, 0)
      BY <2>3, <3>1, Zenon DEF Cancel
    <3>3. CancelReport(id, "REJECTED", reason, 0) \in ExecutionReport
      <4>1. 0 \in Nat
        OBVIOUS
      <4> QED
        BY <1>1, <4>1, CancelReportType, Zenon DEF ExecutionStatus
    <3> QED
      BY <2>1, <3>2, <3>3, Zenon
  <2> QED
    BY <2>2, <2>3, Zenon
<1>6. TypeOK'
  <2>1. RiskTypeOK'
    BY <1>1 DEF IInv, TypeOK, RiskTypeOK, risk
  <2>2. << >> \in Seq(Trade)
    OBVIOUS
  <2> QED
    BY <1>1, <1>3, <1>5, <2>1, <2>2, Zenon DEF IInv, TypeOK
<1>7. BookInOrder(LastEvent)'
  <2>1. BookInOrder(now + 1)'
    BY <1>3, BookInOrderLater
  <2> QED
    BY <1>1, <1>2, <2>1 DEF LastEvent
<1> QED
  BY <1>1, <1>3, <1>4, <1>6, <1>7 DEF IInv, NoSelfTrade

\* A step that changes nothing but the risk configuration.
LEMMA OthersUnchanged ==
  ASSUME IInv, UNCHANGED <<book, engine, call>>, RiskTypeOK'
  PROVE  IInv'
<1>1. /\ UNCHANGED book /\ pc' = pc /\ sequence' = sequence
      /\ UNCHANGED <<engine, call>>
  BY DEF call, engine
<1>2. PICK now : now = LastEvent
  OBVIOUS
<1>3. BookTypeOK' /\ IndexAgrees' /\ NotCrossed' /\ BookInOrder(now)'
  BY <1>1, <1>2, BookUnchanged DEF IInv, TypeOK
<1>4. BookInOrder(LastEvent)'
  BY <1>1, <1>2, <1>3 DEF LastEvent
<1>5. TypeOK'
  BY <1>1, <1>3 DEF IInv, TypeOK, engine, call
<1>6. pc = "match" => CallInv'
  <2> SUFFICES ASSUME pc = "match" PROVE CallInv'
    OBVIOUS
  <2>1. LoopContinues' <=> LoopContinues
    <3>1. PICK opp : opp = Opposite(order.side)
      BY SMTT(30)
    <3>2. order' = order
      BY <1>1 DEF call
    <3>3. LoopContinues <=> /\ order.quantity > 0 /\ ~emptySide(opp)
                            /\ Crosses(order, frontOfBest(opp).price)
      BY <3>1 DEF LoopContinues
    <3>4. LoopContinues' <=> /\ order.quantity > 0 /\ ~emptySide(opp)'
                             /\ Crosses(order, frontOfBest(opp)'.price)
      BY <3>1, <3>2 DEF LoopContinues
    <3> QED
      BY <1>1, <3>3, <3>4, OfferUnchanged
  <2> QED
    BY <1>1, <2>1 DEF IInv, CallInv, engine, call, book
<1> QED
  BY <1>1, <1>3, <1>4, <1>5, <1>6 DEF IInv, engine, call, book, NoSelfTrade

\* Every step of the engine preserves the invariant.
LEMMA NextIInv == IInv /\ [Next]_vars => IInv'
<1> SUFFICES ASSUME IInv, [Next]_vars PROVE IInv'
  BY SMTT(30)
<1>1. ASSUME NEW o \in OrderInputs, ProcessOrder(o) PROVE IInv'
  BY <1>1, ProcessOrderIInv
<1>2. CASE MatchStep
  BY <1>2, MatchStepIInv
<1>3. CASE FinishOrder
  BY <1>3, FinishOrderIInv
<1>4. ASSUME NEW id \in Id \cup {0}, Cancel(id) PROVE IInv'
  BY <1>4, CancelIInv
<1>5. ASSUME NEW enabled \in BOOLEAN, SetKillSwitch(enabled) PROVE IInv'
  <2>1. UNCHANGED <<book, engine, call>>
    BY <1>5 DEF SetKillSwitch
  <2>2. RiskTypeOK'
    BY <1>5, Zenon DEF SetKillSwitch, setKillSwitch, RiskTypeOK, IInv, TypeOK
  <2> QED
    BY <2>1, <2>2, OthersUnchanged
<1>6. ASSUME NEW new_limits \in RiskLimitsChoices, SetLimits(new_limits) PROVE IInv'
  <2>1. UNCHANGED <<book, engine, call>>
    BY <1>6 DEF SetLimits
  <2>2. RiskTypeOK'
    BY <1>6, Zenon DEF SetLimits, setLimits, RiskTypeOK, IInv, TypeOK
  <2> QED
    BY <2>1, <2>2, OthersUnchanged
<1>7. CASE UNCHANGED vars
  <2>1. UNCHANGED <<book, engine, call>> /\ limits' = limits /\ kill_switch' = kill_switch
    BY <1>7 DEF vars, risk
  <2>2. RiskTypeOK'
    BY <2>1, Zenon DEF RiskTypeOK, IInv, TypeOK
  <2> QED
    BY <2>1, <2>2, OthersUnchanged
<1> QED
  BY <1>1, <1>2, <1>3, <1>4, <1>5, <1>6, <1>7 DEF Next

\* The invariant holds in every reachable state.
LEMMA Invariant == Spec => []IInv
  BY InitIInv, NextIInv, PTL DEF Spec

\* Every variable of the engine, its book and its risk layer keeps its type.
THEOREM TypeCorrect == Spec => []TypeOK
<1>1. IInv => TypeOK
  BY DEF IInv
<1> QED
  BY <1>1, Invariant, PTL

\* The lists of addOrder, cancelOrder and reduceFront and the id index agree in
\* every reachable state of the engine.
THEOREM BookConsistent == Spec => []IndexAgrees
<1>1. IInv => IndexAgrees
  BY DEF IInv
<1> QED
  BY <1>1, Invariant, PTL

\* processOrder never leaves a bid at or above an ask in the book, not even
\* between two fills.
THEOREM NeverCrossed == Spec => []NotCrossed
<1>1. IInv => NotCrossed
  BY DEF IInv
<1> QED
  BY <1>1, Invariant, PTL

\* Time priority: the front order of a level, the one processOrder trades with,
\* is the one that arrived first.
THEOREM TimePriority == Spec => []ArrivalOrder
<1>1. ASSUME IInv PROVE ArrivalOrder
  <2>1. CASE pc = "match"
    <3>1. PICK now \in Nat : now + 1 = sequence /\ BookInOrder(now)
      BY <1>1, <2>1 DEF IInv, CallInv, LastEvent, TypeOK
    <3>2. ASSUME NEW s \in Side, NEW p \in DOMAIN levels[s]
          PROVE  ArrivedInOrder(levels[s][p].orders, now + 1)
      <4>1. PICK orders \in Seq(Order) : orders = levels[s][p].orders
        BY <1>1, OrdersOfLevel, Zenon DEF IInv, TypeOK
      <4>2. ArrivedInOrder(orders, now)
        BY <3>1, <4>1, Zenon DEF BookInOrder
      <4> QED
        BY <4>1, <4>2, InOrderLater, Zenon
    <3> QED
      BY <3>1, <3>2 DEF ArrivalOrder, BookInOrder
  <2>2. CASE pc # "match"
    BY <1>1, <2>2 DEF IInv, LastEvent, ArrivalOrder
  <2> QED
    BY <2>1, <2>2
<1> QED
  BY <1>1, Invariant, PTL

\* The assert that a remainder can always be put into the book never fails.
THEOREM AssertHolds == Spec => []RemainderInsertable
<1>1. ASSUME IInv PROVE RemainderInsertable
  <2> SUFFICES ASSUME pc = "match", ShouldRest PROVE Insertable(order)
    BY DEF RemainderInsertable
  <2>1. CallInv /\ order.id \in Id /\ order.quantity \in Nat
    BY <1>1 DEF IInv, CallInv, TypeOK, Order
  <2> QED
    BY <2>1, OrderAssumption DEF Insertable, CallInv, ShouldRest, IsGtcLimit, contains
<1> QED
  BY <1>1, Invariant, PTL

\* A trade always has two different orders as its parties.
THEOREM TwoParties == Spec => []NoSelfTrade
<1>1. IInv => NoSelfTrade
  BY DEF IInv
<1> QED
  BY <1>1, Invariant, PTL

\* A post-only order processOrder accepts never enters the matching loop.
THEOREM PostOnlyRests == Spec => []PostOnlyNeverTakes
<1>1. IInv => PostOnlyNeverTakes
  BY DEF IInv, CallInv, PostOnlyNeverTakes
<1> QED
  BY <1>1, Invariant, PTL

\* Each iteration of the matching loop strictly reduces what is left of the
\* incoming order, so the loop of processOrder terminates.
THEOREM LoopTerminates == Spec => FillsProgress
<1> DEFINE Progress == trades' # trades /\ trades' # << >> => order'.quantity < order.quantity
<1>1. ASSUME IInv, [Next]_vars PROVE [Progress]_vars
  <2>1. ASSUME MatchStep PROVE order'.quantity < order.quantity
    <3>1. /\ LoopContinues /\ BookTypeOK /\ IndexAgrees /\ order \in Order
          /\ order.quantity \in Nat \ {0}
      BY <1>1, <2>1 DEF MatchStep, IInv, TypeOK, LoopContinues, Order
    <3>2. PICK opp \in Side : opp = Opposite(order.side)
      BY DEF Opposite, Side
    <3>3. ~emptySide(opp)
      BY <3>1, <3>2 DEF LoopContinues
    <3>4. frontOfBest(opp).quantity \in Nat \ {0}
      BY <3>1, <3>3, FrontOfBest
    <3>5. PICK traded \in Nat \ {0} :
            traded = Min({order.quantity, frontOfBest(opp).quantity})
      BY <3>1, <3>4, MinOfTwo
    <3>6. order' = [order EXCEPT !.quantity = @ - traded]
      BY <2>1, <3>2, <3>5 DEF MatchStep
    <3>7. order'.quantity = order.quantity - traded
      BY <3>1, <3>6 DEF Order
    <3> QED
      BY <3>1, <3>5, <3>7
  <2>2. ASSUME NEW o \in OrderInputs, ProcessOrder(o) PROVE Progress
    BY <2>2 DEF ProcessOrder
  <2>3. CASE FinishOrder
    BY <2>3 DEF FinishOrder
  <2>4. ASSUME NEW id \in Id \cup {0}, Cancel(id) PROVE Progress
    BY <2>4 DEF Cancel
  <2>5. ASSUME NEW enabled \in BOOLEAN, SetKillSwitch(enabled) PROVE Progress
    BY <2>5 DEF SetKillSwitch, call
  <2>6. ASSUME NEW new_limits \in RiskLimitsChoices, SetLimits(new_limits) PROVE Progress
    BY <2>6 DEF SetLimits, call
  <2> QED
    BY <1>1, <2>1, <2>2, <2>3, <2>4, <2>5, <2>6 DEF Next
<1> QED
  BY <1>1, Invariant, PTL DEF Spec, FillsProgress
=============================================================================
