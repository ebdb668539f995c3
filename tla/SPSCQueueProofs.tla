-------------------------- MODULE SPSCQueueProofs --------------------------
(***************************************************************************)
(* The ring buffer is safe and is a bounded FIFO, for every capacity and   *)
(* every width of the counters.                                            *)
(*                                                                         *)
(* The invariant counts from the value of tail_ that the producer has seen *)
(* last: tail_, the value of head_ that the consumer has seen last and     *)
(* head_ follow it in this order, and head_ by at most Capacity.  So the   *)
(* differences that the code computes never wrap into one another, and two *)
(* different counters between tail_ and head_ have different slots.        *)
(***************************************************************************)
EXTENDS SPSCQueue, Integers, TLAPS

\* Distances from the producer's view of tail_.
Behind(counter) == Minus(counter, producer.seen)

RingInv ==
  /\ TypeOK
  /\ Behind(tail) <= Behind(consumer.seen) /\ Behind(consumer.seen) <= Behind(head)
  /\ Behind(head) <= Capacity
  /\ producer.at \in {"write", "publish"} => Behind(head) < Capacity
  /\ producer.at = "publish" => buffer[index(head)] = producer.item
  /\ consumer.at \in {"read", "release"} => consumer.seen # tail
  /\ consumer.at = "release" => consumer.item = buffer[index(tail)]
-----------------------------------------------------------------------------
(* Unsigned arithmetic *)

LEMMA MinusIs ==
  ASSUME NEW a \in Counter, NEW b \in Counter
  PROVE  Minus(a, b) = IF a >= b THEN a - b ELSE a + Modulus - b
<1>1. Modulus \in Nat \ {0}
  BY SPSCAssumption, SMT
<1>2. CASE a >= b
  <2>1. PICK d \in Nat : d = a - b /\ d < Modulus
    BY <1>1, <1>2, SMT DEF Counter
  <2>2. (d + Modulus) % Modulus = d
    BY <1>1, <2>1, SMT
  <2>3. a + Modulus - b = d + Modulus
    BY <1>1, <2>1, SMT DEF Counter
  <2> QED
    BY <1>2, <2>1, <2>2, <2>3, Zenon DEF Minus
<1>3. CASE ~(a >= b)
  <2>1. PICK d \in Nat : d = a + Modulus - b /\ d < Modulus
    BY <1>1, <1>3, SMT DEF Counter
  <2>2. d % Modulus = d
    BY <1>1, <2>1, SMT
  <2> QED
    BY <1>3, <2>1, <2>2, Zenon DEF Minus
<1> QED
  BY <1>2, <1>3

LEMMA PlusIs ==
  ASSUME NEW a \in Counter, NEW b \in Counter
  PROVE  Plus(a, b) = IF a + b < Modulus THEN a + b ELSE a + b - Modulus
<1>1. Modulus \in Nat \ {0}
  BY SPSCAssumption, SMT
<1>2. CASE a + b < Modulus
  BY <1>1, <1>2, SMT DEF Plus, Counter
<1>3. CASE ~(a + b < Modulus)
  <2>1. PICK d \in Nat : d = a + b - Modulus /\ d < Modulus
    BY <1>1, <1>3, SMT DEF Counter
  <2>2. (d + Modulus) % Modulus = d
    BY <1>1, <2>1, SMT
  <2>3. a + b = d + Modulus
    BY <1>1, <2>1, SMT DEF Counter
  <2> QED
    BY <1>3, <2>1, <2>2, <2>3, Zenon DEF Plus
<1> QED
  BY <1>2, <1>3

LEMMA Distance ==
  ASSUME NEW a \in Counter, NEW b \in Counter
  PROVE  Minus(a, b) \in Counter /\ (Minus(a, b) = 0 <=> a = b)
<1>1. Modulus \in Nat \ {0}
  BY SPSCAssumption, SMT
<1> QED
  BY <1>1, MinusIs, SMT DEF Counter

LEMMA DistanceNat ==
  ASSUME NEW a \in Counter, NEW b \in Counter PROVE Minus(a, b) \in Nat
<1>1. Minus(a, b) \in Counter
  BY Distance, Zenon
<1> QED
  BY <1>1, SPSCAssumption, SMT DEF Counter

\* Distances from a common origin can be subtracted.
LEMMA Between ==
  ASSUME NEW s \in Counter, NEW a \in Counter, NEW b \in Counter, Minus(b, s) <= Minus(a, s)
  PROVE  Minus(a, b) = Minus(a, s) - Minus(b, s)
<1>1. Modulus \in Nat \ {0}
  BY SPSCAssumption, SMT
<1> QED
  BY <1>1, MinusIs, SMT DEF Counter

LEMMA Advance ==
  ASSUME NEW s \in Counter, NEW i \in Counter
  PROVE  Plus(s, i) \in Counter /\ Minus(Plus(s, i), s) = i
<1>1. Modulus \in Nat \ {0}
  BY SPSCAssumption, SMT
<1>2. Plus(s, i) \in Counter
  BY <1>1, PlusIs, SMT DEF Counter
<1> QED
  BY <1>1, <1>2, PlusIs, MinusIs, SMT DEF Counter

\* One more, counted from s.
LEMMA OneMore ==
  ASSUME NEW s \in Counter, NEW a \in Counter, Minus(a, s) < Capacity
  PROVE  Plus(a, 1) \in Counter /\ Minus(Plus(a, 1), s) = Minus(a, s) + 1
<1>1. Modulus \in Nat /\ Capacity \in Nat \ {0} /\ Modulus > Capacity /\ 1 \in Counter
  BY SPSCAssumption, SMT DEF Counter
<1>2. Plus(a, 1) = IF a + 1 < Modulus THEN a + 1 ELSE a + 1 - Modulus
  BY <1>1, PlusIs, Zenon
<1>3. Plus(a, 1) \in Counter
  BY <1>1, <1>2, SMT DEF Counter
<1>4. PICK c \in Counter : c = Plus(a, 1)
  BY <1>3, Zenon
<1>5. /\ Minus(c, s) = IF c >= s THEN c - s ELSE c + Modulus - s
      /\ Minus(a, s) = IF a >= s THEN a - s ELSE a + Modulus - s
  BY MinusIs, Zenon
<1>6. c = IF a + 1 < Modulus THEN a + 1 ELSE a + 1 - Modulus
  BY <1>2, <1>4, Zenon
<1>7. Minus(c, s) = Minus(a, s) + 1
  BY <1>1, <1>5, <1>6, SMT DEF Counter
<1> QED
  BY <1>4, <1>7, Zenon

LEMMA PlusZero == ASSUME NEW a \in Counter PROVE Plus(a, 0) = a
<1>1. Modulus \in Nat /\ Capacity \in Nat \ {0} /\ Modulus > Capacity /\ 0 \in Counter
  BY SPSCAssumption, SMT DEF Counter
<1> QED
  BY <1>1, PlusIs, SMT DEF Counter

LEMMA PlusMinus ==
  ASSUME NEW a \in Counter, NEW b \in Counter PROVE Plus(b, Minus(a, b)) = a
<1>1. Modulus \in Nat \ {0}
  BY SPSCAssumption, SMT
<1>2. PICK d \in Counter : d = Minus(a, b)
  BY Distance, Zenon
<1>3. d = IF a >= b THEN a - b ELSE a + Modulus - b
  BY <1>2, MinusIs, Zenon
<1>4. Plus(b, d) = a
  BY <1>1, <1>3, PlusIs, SMT DEF Counter
<1> QED
  BY <1>2, <1>4, Zenon

LEMMA PlusAssoc ==
  ASSUME NEW a \in Counter, NEW i \in Counter, i + 1 \in Counter
  PROVE  Plus(Plus(a, 1), i) = Plus(a, i + 1)
<1>1. Modulus \in Nat /\ Capacity \in Nat \ {0} /\ Modulus > Capacity /\ 1 \in Counter /\ 0 \in Counter
  BY SPSCAssumption, SMT DEF Counter
<1>2. PICK c \in Counter : c = Plus(a, 1)
  BY <1>1, Advance, Zenon
<1>3. c = IF a + 1 < Modulus THEN a + 1 ELSE a + 1 - Modulus
  BY <1>1, <1>2, PlusIs, Zenon
<1> QED
  BY <1>1, <1>2, <1>3, PlusIs, SMT DEF Counter
-----------------------------------------------------------------------------
(* Slots *)

LEMMA NoMultipleBetween ==
  ASSUME NEW c \in Nat \ {0}, NEW z \in Int, 0 < c * z, c * z < c PROVE FALSE
<1>1. CASE z <= 0
  BY <1>1, SMT
<1>2. CASE z >= 1
  BY <1>2, SMT
<1> QED
  BY <1>1, <1>2, SMT

LEMMA Remainder ==
  ASSUME NEW a \in Nat, NEW c \in Nat \ {0}
  PROVE  \E q \in Nat : a = c * q + (a % c) /\ a % c \in 0..(c - 1)
<1>1. a \div c \in Nat /\ a % c \in 0..(c - 1)
  BY SMT
<1>2. a = c * (a \div c) + (a % c)
  BY SMT
<1> QED
  BY <1>1, <1>2, Zenon

\* Counters that are less than Capacity apart have slots of their own, also
\* across the wraparound, because Capacity divides Modulus.
LEMMA SlotsDiffer ==
  ASSUME NEW a \in Counter, NEW b \in Counter, Minus(a, b) > 0, Minus(a, b) < Capacity
  PROVE  index(a) # index(b)
<1>1. Capacity \in Nat \ {0} /\ Modulus \in Nat /\ a \in Nat /\ b \in Nat
  BY SPSCAssumption, SMT DEF Counter
<1>2. PICK p \in Nat : a = Capacity * p + index(a)
  BY <1>1, Remainder, Zenon DEF index
<1>3. PICK q \in Nat : b = Capacity * q + index(b)
  BY <1>1, Remainder, Zenon DEF index
<1>4. PICK r \in Nat : Modulus = Capacity * r + (Modulus % Capacity)
  BY <1>1, Remainder, Zenon
<1>5. Modulus = Capacity * r
  BY <1>1, <1>4, SPSCAssumption, SMT
<1>6. index(a) \in Nat /\ index(b) \in Nat
  BY <1>1, Remainder, SMT DEF index
<1> SUFFICES ASSUME index(a) = index(b) PROVE FALSE
  OBVIOUS
<1>7. PICK x \in Nat : x = index(a)
  BY <1>6, Zenon
<1>8. CASE a >= b
  <2>1. Minus(a, b) = Capacity * (p - q)
    BY <1>1, <1>2, <1>3, <1>7, <1>8, MinusIs, SMT
  <2> QED
    BY <1>1, <2>1, NoMultipleBetween, SMT
<1>9. CASE ~(a >= b)
  <2>1. Minus(a, b) = Capacity * (p - q + r)
    BY <1>1, <1>2, <1>3, <1>5, <1>7, <1>9, MinusIs, SMT
  <2> QED
    BY <1>1, <2>1, NoMultipleBetween, SMT
<1> QED
  BY <1>8, <1>9

LEMMA IndexType ==
  ASSUME NEW a \in Counter PROVE index(a) \in 0..(Capacity - 1)
<1>1. Capacity \in Nat \ {0} /\ a \in Nat
  BY SPSCAssumption, SMT DEF Counter
<1> QED
  BY <1>1, Remainder, Zenon DEF index
-----------------------------------------------------------------------------
(* The invariant *)

\* What the invariant says in distances between the counters themselves.
LEMMA Distances ==
  ASSUME RingInv
  PROVE  /\ head \in Counter /\ tail \in Counter
         /\ producer.seen \in Counter /\ consumer.seen \in Counter
         /\ Behind(tail) \in Nat /\ Behind(consumer.seen) \in Nat /\ Behind(head) \in Nat
         /\ Minus(head, tail) = Behind(head) - Behind(tail)
         /\ Minus(consumer.seen, tail) = Behind(consumer.seen) - Behind(tail)
         /\ Minus(head, consumer.seen) = Behind(head) - Behind(consumer.seen)
<1>1. /\ head \in Counter /\ tail \in Counter
      /\ producer.seen \in Counter /\ consumer.seen \in Counter
  BY SMT DEF RingInv, TypeOK
<1>2. Behind(tail) \in Nat /\ Behind(consumer.seen) \in Nat /\ Behind(head) \in Nat
  <2>1. Behind(tail) \in Counter /\ Behind(consumer.seen) \in Counter /\ Behind(head) \in Counter
    BY <1>1, Distance, Zenon DEF Behind
  <2> QED
    BY <2>1, SPSCAssumption, SMT DEF Counter
<1>3. Behind(tail) <= Behind(consumer.seen) /\ Behind(consumer.seen) <= Behind(head)
  BY DEF RingInv
<1>4. Behind(tail) <= Behind(head)
  BY <1>2, <1>3, SMT
<1> QED
  BY <1>1, <1>2, <1>3, <1>4, Between, Zenon DEF Behind

LEMMA RingImplies == RingInv => RingSafe
<1> SUFFICES ASSUME RingInv PROVE RingSafe
  OBVIOUS
<1>1. /\ Behind(tail) <= Behind(consumer.seen) /\ Behind(consumer.seen) <= Behind(head)
      /\ Behind(head) <= Capacity /\ Capacity \in Nat
  BY SPSCAssumption, Zenon DEF RingInv
<1>2. StaleViewsAreSafe
  <2>1. Minus(head, tail) <= Capacity /\ Minus(consumer.seen, tail) <= Minus(head, tail)
        /\ Behind(tail) <= Behind(head)
    BY <1>1, Distances, SMT
  <2> QED
    BY <2>1, Zenon DEF StaleViewsAreSafe, Behind
<1>3. SlotRaceFree
  <2> SUFFICES ASSUME producer.at = "write", consumer.at = "read" PROVE index(head) # index(tail)
    BY Zenon DEF SlotRaceFree
  <2>1. Behind(head) < Capacity /\ consumer.seen # tail
    BY Zenon DEF RingInv
  <2>2. Minus(consumer.seen, tail) # 0
    BY <2>1, Distances, Distance, Zenon
  <2>3. Minus(head, tail) > 0 /\ Minus(head, tail) < Capacity
    BY <1>1, <2>1, <2>2, Distances, SMT
  <2> QED
    BY <2>3, Distances, SlotsDiffer, Zenon
<1> QED
  BY <1>2, <1>3, Zenon DEF RingInv, RingSafe

LEMMA RingInit == Init => RingInv
<1> SUFFICES ASSUME Init PROVE RingInv
  OBVIOUS
<1>1. Capacity \in Nat \ {0} /\ 0 \in Counter
  BY SPSCAssumption, SMT DEF Counter
<1>2. TypeOK /\ producer.seen = 0 /\ consumer.seen = 0 /\ head = 0 /\ tail = 0
      /\ producer.at = "idle" /\ consumer.at = "idle"
  BY <1>1, SMT DEF Init, TypeOK, Thread
<1>3. Minus(0, 0) = 0
  BY <1>1, Distance, Zenon
<1>4. Behind(tail) = 0 /\ Behind(head) = 0 /\ Behind(consumer.seen) = 0
  BY <1>2, <1>3, Zenon DEF Behind
<1> QED
  BY <1>1, <1>2, <1>4, SMT DEF RingInv

\* A load goes forward from what the thread has seen, and not past the counter.
LEMMA Loaded ==
  ASSUME NEW s \in Counter, NEW seen \in Counter, NEW counter \in Counter,
         Minus(seen, s) <= Minus(counter, s), NEW t \in Visible(counter, seen)
  PROVE  /\ t \in Counter /\ Minus(seen, s) <= Minus(t, s) /\ Minus(t, s) <= Minus(counter, s)
<1>1. PICK i \in 0..Minus(counter, seen) : t = Plus(seen, i)
  BY Zenon DEF Visible
<1>2. Modulus \in Nat /\ Minus(counter, seen) \in Counter /\ Minus(counter, s) \in Counter
      /\ Minus(seen, s) \in Counter
  BY SPSCAssumption, Distance, Zenon
<1>3. Minus(counter, seen) = Minus(counter, s) - Minus(seen, s)
  BY Between, Zenon
<1>4. i \in Counter /\ Minus(seen, s) + i <= Minus(counter, s) /\ i >= 0
  BY <1>1, <1>2, <1>3, SMT DEF Counter
<1>5. t \in Counter
  BY <1>1, <1>4, Advance, Zenon
<1>6. /\ t = IF seen + i < Modulus THEN seen + i ELSE seen + i - Modulus
      /\ Minus(t, s) = IF t >= s THEN t - s ELSE t + Modulus - s
      /\ Minus(seen, s) = IF seen >= s THEN seen - s ELSE seen + Modulus - s
  BY <1>1, <1>4, <1>5, PlusIs, MinusIs, Zenon
<1>7. Minus(t, s) = Minus(seen, s) + i
  <2>1. Minus(counter, s) < Modulus
    BY <1>2, SMT DEF Counter
  <2>2. PICK n \in Counter : n = Minus(counter, s)
    BY <1>2, Zenon
  <2> QED
    BY <1>2, <1>4, <1>5, <1>6, <2>2, SMT DEF Counter
<1> QED
  BY <1>2, <1>4, <1>5, <1>7, SMT DEF Counter

\* The invariant is about these numbers and fields.
LEMMA SameCounters ==
  ASSUME RingInv, TypeOK', UNCHANGED <<head, tail>>,
         producer'.seen = producer.seen, consumer'.seen = consumer.seen
  PROVE  /\ Behind(tail)' = Behind(tail) /\ Behind(head)' = Behind(head)
         /\ Behind(consumer.seen)' = Behind(consumer.seen)
         /\ Behind(tail)' <= Behind(consumer.seen)' /\ Behind(consumer.seen)' <= Behind(head)'
         /\ Behind(head)' <= Capacity
BY Zenon DEF RingInv, Behind

LEMMA RingTypes == RingInv /\ [Next]_vars => TypeOK'
<1> SUFFICES ASSUME RingInv, [Next]_vars PROVE TypeOK'
  OBVIOUS
<1>1. TypeOK
  BY DEF RingInv
<1>2. /\ head \in Counter /\ tail \in Counter /\ producer.seen \in Counter /\ consumer.seen \in Counter
      /\ producer.item \in Item /\ consumer.item \in Item /\ 1 \in Counter /\ Capacity \in Nat \ {0}
  BY <1>1, SPSCAssumption, SMT DEF TypeOK, Counter
<1>3. Plus(head, 1) \in Counter /\ Plus(tail, 1) \in Counter
  BY <1>2, Advance, Zenon
<1>4. index(head) \in 0..(Capacity - 1) /\ index(tail) \in 0..(Capacity - 1)
  BY <1>2, IndexType, Zenon
<1>5. ASSUME NEW c \in Counter, NEW seen \in Counter, NEW t \in Visible(c, seen) PROVE t \in Counter
  <2>1. Minus(seen, seen) <= Minus(c, seen)
    BY Distance, SPSCAssumption, SMT DEF Counter
  <2> QED
    BY <2>1, Loaded, Zenon
<1>6. ASSUME NEW x \in Item, Call(x) PROVE TypeOK'
  BY <1>1, <1>2, <1>6, SMT DEF TypeOK, Call, Thread
<1>7. CASE LoadTail
  <2>1. PICK t \in Visible(tail, producer.seen) :
          producer' = Thread(IF HasRoom(t) THEN "write" ELSE "idle", producer.item, t)
    BY <1>7, Zenon DEF LoadTail
  <2>2. t \in Counter
    BY <1>2, <1>5, Zenon
  <2> QED
    BY <1>1, <1>2, <1>7, <2>1, <2>2, SMT DEF TypeOK, LoadTail, Thread
<1>8. CASE WriteSlot
  BY <1>1, <1>2, <1>4, <1>8, SMT DEF TypeOK, WriteSlot, Thread
<1>9. CASE Publish
  BY <1>1, <1>2, <1>3, <1>9, SMT DEF TypeOK, Publish, Thread
<1>10. CASE LoadHead
  <2>1. PICK h \in Visible(head, consumer.seen) :
          consumer' = Thread(IF h = tail THEN "idle" ELSE "read", consumer.item, h)
    BY <1>10, Zenon DEF LoadHead
  <2>2. h \in Counter
    BY <1>2, <1>5, Zenon
  <2> QED
    BY <1>1, <1>2, <1>10, <2>1, <2>2, SMT DEF TypeOK, LoadHead, Thread
<1>11. CASE ReadSlot
  BY <1>1, <1>2, <1>4, <1>11, SMT DEF TypeOK, ReadSlot, Thread
<1>12. CASE Release
  BY <1>1, <1>2, <1>3, <1>12, SMT DEF TypeOK, Release, Thread
<1>13. CASE UNCHANGED vars
  BY <1>1, <1>13, Zenon DEF TypeOK, vars
<1> QED
  BY <1>6, <1>7, <1>8, <1>9, <1>10, <1>11, <1>12, <1>13, Zenon DEF Next

LEMMA SlotsOfHeadAndTail ==
  ASSUME RingInv, producer.at \in {"write", "publish"}, consumer.at \in {"read", "release"}
  PROVE  index(head) # index(tail)
<1>1. Behind(head) < Capacity /\ consumer.seen # tail /\ Capacity \in Nat
      /\ Behind(tail) <= Behind(consumer.seen) /\ Behind(consumer.seen) <= Behind(head)
  BY SPSCAssumption, Zenon DEF RingInv
<1>2. Minus(consumer.seen, tail) # 0
  BY <1>1, Distances, Distance, Zenon
<1>3. Minus(head, tail) > 0 /\ Minus(head, tail) < Capacity
  BY <1>1, <1>2, Distances, SMT
<1> QED
  BY <1>3, Distances, SlotsDiffer, Zenon

LEMMA RingStep == RingInv /\ [Next]_vars => RingInv'
<1> SUFFICES ASSUME RingInv, [Next]_vars PROVE RingInv'
  OBVIOUS
<1>1. TypeOK'
  BY RingTypes
<1>2. /\ Behind(tail) <= Behind(consumer.seen) /\ Behind(consumer.seen) <= Behind(head)
      /\ Behind(head) <= Capacity /\ Capacity \in Nat
      /\ (producer.at \in {"write", "publish"} => Behind(head) < Capacity)
      /\ (producer.at = "publish" => buffer[index(head)] = producer.item)
      /\ (consumer.at \in {"read", "release"} => consumer.seen # tail)
      /\ (consumer.at = "release" => consumer.item = buffer[index(tail)])
  BY SPSCAssumption, Zenon DEF RingInv
<1>3. ASSUME NEW x \in Item, Call(x) PROVE RingInv'
  <2>1. /\ UNCHANGED <<head, tail, buffer, consumer>>
        /\ producer'.at = "load" /\ producer'.seen = producer.seen
    BY <1>3, SMT DEF Call, Thread
  <2> QED
    BY <1>1, <1>2, <2>1, SameCounters, Zenon DEF RingInv
<1>4. CASE LoadTail
  <2>1. PICK t \in Visible(tail, producer.seen) :
          producer' = Thread(IF HasRoom(t) THEN "write" ELSE "idle", producer.item, t)
    BY <1>4, Zenon DEF LoadTail
  <2>2. /\ UNCHANGED <<head, tail, buffer, consumer>>
        /\ producer'.at \in {"write", "idle"} /\ producer'.seen = t
        /\ (producer'.at = "write" => HasRoom(t))
    BY <1>4, <2>1, SMT DEF LoadTail, Thread
  <2>3. Behind(producer.seen) = 0 /\ Behind(producer.seen) <= Behind(tail)
    <3>1. Behind(producer.seen) = 0
      BY Distances, Distance, Zenon DEF Behind
    <3> QED
      BY <3>1, Distances, SMT
  <2>4. t \in Counter /\ Behind(t) <= Behind(tail)
    BY <2>3, Distances, Loaded, Zenon DEF Behind
  <2>5. Behind(t) \in Nat
    BY <2>4, Distances, DistanceNat, Zenon DEF Behind
  <2>6. Behind(t) <= Behind(consumer.seen) /\ Behind(t) <= Behind(head)
    BY <1>2, <2>4, <2>5, Distances, SMT
  <2>7. /\ Minus(tail, t) = Behind(tail) - Behind(t)
        /\ Minus(consumer.seen, t) = Behind(consumer.seen) - Behind(t)
        /\ Minus(head, t) = Behind(head) - Behind(t)
    BY <2>4, <2>6, Distances, Between, Zenon DEF Behind
  <2>8. /\ Behind(tail)' = Minus(tail, t) /\ Behind(consumer.seen)' = Minus(consumer.seen, t)
        /\ Behind(head)' = Minus(head, t)
    BY <2>2, Zenon DEF Behind
  <2>9. /\ Minus(tail, t) <= Minus(consumer.seen, t) /\ Minus(consumer.seen, t) <= Minus(head, t)
        /\ Minus(head, t) <= Capacity
    BY <1>2, <2>5, <2>7, Distances, SMT
  <2> QED
    BY <1>1, <1>2, <2>2, <2>8, <2>9, Zenon DEF RingInv, HasRoom
<1>5. CASE WriteSlot
  <2>1. /\ UNCHANGED <<head, tail, consumer>> /\ producer.at = "write" /\ producer'.at = "publish"
        /\ producer'.seen = producer.seen /\ producer'.item = producer.item
        /\ buffer' = [buffer EXCEPT ![index(head)] = producer.item]
    BY <1>5, SMT DEF WriteSlot, Thread
  <2>2. buffer \in [0..(Capacity - 1) -> Item] /\ index(head) \in 0..(Capacity - 1)
        /\ index(tail) \in 0..(Capacity - 1)
    BY Distances, IndexType, Zenon DEF RingInv, TypeOK
  <2>3. buffer'[index(head)] = producer.item
    BY <2>1, <2>2, SMT
  <2>4. index(head) # index(tail) => buffer'[index(tail)] = buffer[index(tail)]
    BY <2>1, <2>2, SMT
  <2>5. consumer.at = "release" => consumer.item = buffer'[index(tail)]
    BY <1>2, <2>1, <2>4, SlotsOfHeadAndTail, Zenon
  <2> QED
    BY <1>1, <1>2, <2>1, <2>3, <2>5, SameCounters, Zenon DEF RingInv, index
<1>6. CASE Publish
  <2>1. /\ UNCHANGED <<tail, buffer, consumer>> /\ producer.at = "publish" /\ producer'.at = "idle"
        /\ producer'.seen = producer.seen /\ head' = Plus(head, 1)
    BY <1>6, SMT DEF Publish, Thread
  <2>2. Minus(Plus(head, 1), producer.seen) = Behind(head) + 1
    BY <1>2, <2>1, Distances, OneMore, Zenon DEF Behind
  <2>3. /\ Behind(tail)' = Behind(tail) /\ Behind(consumer.seen)' = Behind(consumer.seen)
        /\ Behind(head)' = Behind(head) + 1
    BY <2>1, <2>2, Zenon DEF Behind
  <2>4. Behind(consumer.seen) <= Behind(head) + 1 /\ Behind(head) + 1 <= Capacity
    BY <1>2, <2>1, Distances, SMT
  <2> QED
    BY <1>1, <1>2, <2>1, <2>3, <2>4, Zenon DEF RingInv
<1>7. CASE LoadHead
  <2>1. PICK h \in Visible(head, consumer.seen) :
          consumer' = Thread(IF h = tail THEN "idle" ELSE "read", consumer.item, h)
    BY <1>7, Zenon DEF LoadHead
  <2>2. /\ UNCHANGED <<head, tail, buffer, producer>>
        /\ consumer'.at \in {"read", "idle"} /\ consumer'.seen = h
        /\ (consumer'.at = "read" => h # tail)
    BY <1>7, <2>1, SMT DEF LoadHead, Thread
  <2>3. h \in Counter /\ Behind(consumer.seen) <= Behind(h) /\ Behind(h) <= Behind(head)
    BY <1>2, Distances, Loaded, Zenon DEF Behind
  <2>4. Behind(tail) <= Behind(h)
    <3>1. Behind(h) \in Nat
      BY <2>3, Distances, DistanceNat, Zenon DEF Behind
    <3> QED
      BY <1>2, <2>3, <3>1, Distances, SMT
  <2>5. /\ Behind(tail)' = Behind(tail) /\ Behind(consumer.seen)' = Behind(h)
        /\ Behind(head)' = Behind(head)
    BY <2>2, Zenon DEF Behind
  <2> QED
    BY <1>1, <1>2, <2>2, <2>3, <2>4, <2>5, Zenon DEF RingInv, index
<1>8. CASE ReadSlot
  <2>1. /\ UNCHANGED <<head, tail, buffer, producer>> /\ consumer.at = "read"
        /\ consumer'.at = "release" /\ consumer'.seen = consumer.seen
        /\ consumer'.item = buffer[index(tail)]
    BY <1>8, SMT DEF ReadSlot, Thread
  <2> QED
    BY <1>1, <1>2, <2>1, SameCounters, Zenon DEF RingInv, index
<1>9. CASE Release
  <2>1. /\ UNCHANGED <<head, buffer, producer>> /\ consumer.at = "release" /\ consumer'.at = "idle"
        /\ consumer'.seen = consumer.seen /\ tail' = Plus(tail, 1)
    BY <1>9, SMT DEF Release, Thread
  <2>2. Minus(consumer.seen, tail) # 0
    BY <1>2, <2>1, Distances, Distance, Zenon
  <2>3. Behind(tail) < Capacity /\ Behind(tail) + 1 <= Behind(consumer.seen)
    BY <1>2, <2>2, Distances, SMT
  <2>4. Minus(Plus(tail, 1), producer.seen) = Behind(tail) + 1
    BY <2>3, Distances, OneMore, Zenon DEF Behind
  <2>5. /\ Behind(tail)' = Behind(tail) + 1 /\ Behind(consumer.seen)' = Behind(consumer.seen)
        /\ Behind(head)' = Behind(head)
    BY <2>1, <2>4, Zenon DEF Behind
  <2> QED
    BY <1>1, <1>2, <2>1, <2>3, <2>5, Zenon DEF RingInv, index
<1>10. CASE UNCHANGED vars
  BY <1>1, <1>2, <1>10, SameCounters, Zenon DEF RingInv, vars, index
<1> QED
  BY <1>3, <1>4, <1>5, <1>6, <1>7, <1>8, <1>9, <1>10, Zenon DEF Next

LEMMA RingAlways == Spec => []RingInv
BY RingInit, RingStep, PTL DEF Spec

\* Whatever old counters the two threads of spsc_queue.hpp work with, they never
\* touch a slot at the same time and never take the ring for emptier or fuller
\* than is safe, for every capacity and every width of the counters.
THEOREM RingIsSafe == Spec => []RingSafe
BY RingAlways, RingImplies, PTL
-----------------------------------------------------------------------------
(* The refinement *)

\* How many items the abstract queue holds, and its i-th item.
Count == Minus(head, tail) - Taken
Slot(i) == buffer[index(Plus(tail, Taken + i - 1))]

LEMMA CountType ==
  ASSUME RingInv
  PROVE  /\ Count \in Nat /\ Taken \in {0, 1} /\ Minus(head, tail) \in Nat
         /\ Count + Taken = Minus(head, tail) /\ Minus(head, tail) <= Capacity
         /\ Minus(head, tail) < Modulus
         /\ (consumer.at \in {"read", "release"} => Minus(head, tail) > 0)
<1>1. /\ Behind(tail) <= Behind(consumer.seen) /\ Behind(consumer.seen) <= Behind(head)
      /\ Behind(head) <= Capacity /\ Capacity \in Nat /\ Modulus \in Nat /\ Modulus > Capacity
      /\ (consumer.at \in {"read", "release"} => consumer.seen # tail)
  BY SPSCAssumption, Zenon DEF RingInv
<1>2. Minus(head, tail) \in Nat /\ Minus(head, tail) <= Capacity /\ Minus(head, tail) < Modulus
  BY <1>1, Distances, SMT
<1>3. ASSUME consumer.at \in {"read", "release"} PROVE Minus(head, tail) > 0
  <2>1. Minus(consumer.seen, tail) # 0
    BY <1>1, <1>3, Distances, Distance, Zenon
  <2> QED
    BY <1>1, <2>1, Distances, SMT
<1>4. Taken \in {0, 1} /\ (Taken = 1 => consumer.at = "release")
  BY SMT DEF Taken
<1> QED
  BY <1>2, <1>3, <1>4, SMT DEF Count

Shape == Count \in Nat /\ Inside \in Seq(Item) /\ Inside = [i \in 1..Count |-> Slot(i)]

LEMMA InsideShape == RingInv => Shape
<1> SUFFICES ASSUME RingInv PROVE Shape
  OBVIOUS
<1>1. Inside = [i \in 1..Count |-> Slot(i)]
  BY SMT DEF Inside, Count, Slot
<1>2. ASSUME NEW i \in 1..Count PROVE Slot(i) \in Item
  <2>1. Taken + i - 1 \in Counter
    BY CountType, SPSCAssumption, SMT DEF Counter
  <2>2. index(Plus(tail, Taken + i - 1)) \in 0..(Capacity - 1)
    BY <2>1, Distances, Advance, IndexType, Zenon
  <2> QED
    BY <2>2, SMT DEF RingInv, TypeOK, Slot
<1>3. Count \in Nat
  BY CountType
<1> QED
  BY <1>1, <1>2, <1>3, SMT DEF Shape

LEMMA NextShape == RingInv' => Shape'
BY InsideShape, PTL

\* The same slots hold the same items.
LEMMA InsideSame ==
  ASSUME RingInv, RingInv', Count' = Count, \A i \in 1..Count : Slot(i)' = Slot(i)
  PROVE  Inside' = Inside
<1>1. Inside' = [i \in 1..Count' |-> Slot(i)']
  BY NextShape, Zenon DEF Shape
<1>2. Inside = [i \in 1..Count |-> Slot(i)]
  BY InsideShape, Zenon DEF Shape
<1> QED
  BY <1>1, <1>2, SMT

LEMMA CallIsStutter ==
  ASSUME UNCHANGED <<head, tail, buffer, consumer>> PROVE UNCHANGED <<Inside, consumer.item>>
BY SMT DEF Inside, Taken

LEMMA LoadHeadIsStutter ==
  ASSUME LoadHead PROVE UNCHANGED <<Inside, consumer.item>>
<1>1. /\ UNCHANGED <<head, tail, buffer>> /\ consumer.at = "idle" /\ consumer'.at \in {"idle", "read"}
      /\ consumer'.item = consumer.item
  BY SMT DEF LoadHead, Thread
<1>2. Taken = 0 /\ Taken' = 0
  BY <1>1, SMT DEF Taken
<1> QED
  BY <1>1, <1>2, SMT DEF Inside

LEMMA WriteIsStutter ==
  ASSUME RingInv, RingInv', WriteSlot PROVE UNCHANGED <<Inside, consumer.item>>
<1>1. /\ UNCHANGED <<head, tail, consumer>> /\ producer.at = "write"
      /\ buffer' = [buffer EXCEPT ![index(head)] = producer.item]
      /\ Behind(head) < Capacity
  BY Zenon DEF WriteSlot, RingInv
<1>2. Taken' = Taken /\ Count' = Count
  BY <1>1, Zenon DEF Taken, Count
<1>3. Minus(head, tail) < Capacity
  BY <1>1, Distances, SPSCAssumption, SMT
<1>4. ASSUME NEW i \in 1..Count PROVE Slot(i)' = Slot(i)
  <2>1. PICK k \in Counter : k = Taken + i - 1 /\ k < Minus(head, tail)
    <3>1. Taken + i - 1 \in Counter /\ Taken + i - 1 < Minus(head, tail)
      BY CountType, SPSCAssumption, SMT DEF Counter
    <3> QED
      BY <3>1, Zenon
  <2>2. PICK c \in Counter : c = Plus(tail, k) /\ Minus(c, tail) = k
    BY Distances, Advance, Zenon
  <2>3. Minus(c, tail) <= Minus(head, tail) /\ k \in Nat
    BY <2>1, <2>2, CountType, SPSCAssumption, SMT DEF Counter
  <2>4. Minus(head, c) = Minus(head, tail) - k
    <3>1. head \in Counter /\ tail \in Counter
      BY Distances
    <3>2. Minus(head, c) = Minus(head, tail) - Minus(c, tail)
      BY <2>3, <3>1, Between
    <3> QED
      BY <2>2, <3>2, Zenon
  <2>5. Minus(head, c) > 0 /\ Minus(head, c) < Capacity
    BY <1>3, <2>1, <2>3, <2>4, CountType, SPSCAssumption, SMT
  <2>6. index(head) # index(c)
    BY <2>5, Distances, SlotsDiffer, Zenon
  <2>7. buffer'[index(c)] = buffer[index(c)]
    <3>1. index(c) \in 0..(Capacity - 1) /\ buffer \in [0..(Capacity - 1) -> Item]
      BY IndexType, Zenon DEF RingInv, TypeOK
    <3> QED
      BY <1>1, <2>6, <3>1, SMT
  <2> QED
    BY <1>1, <1>2, <2>1, <2>2, <2>7, Zenon DEF Slot, Plus, index
<1> QED
  BY <1>1, <1>2, <1>4, InsideSame, Zenon

LEMMA PublishIsPut ==
  ASSUME RingInv, RingInv', Publish PROVE Fifo!Put(producer.item)
<1>1. /\ UNCHANGED <<tail, buffer, consumer>> /\ producer.at = "publish" /\ head' = Plus(head, 1)
      /\ Behind(head) < Capacity /\ buffer[index(head)] = producer.item
  BY Zenon DEF Publish, RingInv
<1>2. Minus(head, tail) < Capacity
  BY <1>1, Distances, SPSCAssumption, SMT
<1>3. Minus(Plus(head, 1), tail) = Minus(head, tail) + 1
  BY <1>2, Distances, OneMore, Zenon
<1>4. Taken' = Taken /\ Count' = (Minus(head, tail) + 1) - Taken
  <2>1. Taken' = Taken
    BY <1>1, Zenon DEF Taken
  <2>2. Minus(head, tail)' = Minus(head, tail) + 1
    BY <1>1, <1>3, Zenon DEF Minus
  <2> QED
    BY <2>1, <2>2, Zenon DEF Count
<1>5. Count' = Count + 1 /\ Count < Capacity /\ Count \in Nat
  BY <1>2, <1>4, CountType, SPSCAssumption, SMT
<1>6. ASSUME NEW i \in Nat PROVE Slot(i)' = Slot(i)
  BY <1>1, <1>4, Zenon DEF Slot, Plus, index
<1>7. Slot(Count + 1) = producer.item
  <2>1. Taken + (Count + 1) - 1 = Minus(head, tail)
    BY CountType, SMT
  <2>2. Plus(tail, Minus(head, tail)) = head
    BY Distances, PlusMinus, Zenon
  <2> QED
    BY <1>1, <2>1, <2>2, Zenon DEF Slot
<1>8. Inside' \in Seq(Item) /\ Inside' = [i \in 1..Count' |-> Slot(i)']
  BY NextShape, Zenon DEF Shape
<1>9. Inside \in Seq(Item) /\ Inside = [i \in 1..Count |-> Slot(i)] /\ producer.item \in Item
  BY InsideShape, SMT DEF RingInv, TypeOK, Shape
<1>10. Inside' = Append(Inside, producer.item) /\ Len(Inside) = Count
  BY <1>5, <1>6, <1>7, <1>8, <1>9, SMT
<1> QED
  BY <1>1, <1>5, <1>10, SMT DEF Fifo!Put

LEMMA ReadIsGet ==
  ASSUME RingInv, RingInv', ReadSlot PROVE Fifo!Get
<1>1. /\ UNCHANGED <<head, tail, buffer>> /\ consumer.at = "read" /\ consumer'.at = "release"
      /\ consumer'.item = buffer[index(tail)]
  BY SMT DEF ReadSlot, Thread
<1>2. Taken = 0 /\ Taken' = 1
  BY <1>1, SMT DEF Taken
<1>3. Count' = Minus(head, tail) - 1 /\ Count = Minus(head, tail) - 0
  BY <1>1, <1>2, Zenon DEF Count
<1>4. Count' = Count - 1 /\ Count \in Nat \ {0}
  BY <1>1, <1>3, CountType, SMT
<1>5. ASSUME NEW i \in Nat PROVE Slot(i)' = Slot(i + 1)
  <2>1. 1 + i - 1 = 0 + (i + 1) - 1
    BY SMT
  <2> QED
    BY <1>1, <1>2, <2>1, Zenon DEF Slot, Plus, index
<1>6. Slot(1) = consumer'.item
  <2>1. Plus(tail, 0) = tail
    BY Distances, PlusZero, Zenon
  <2>2. 0 + 1 - 1 = 0
    BY SMT
  <2> QED
    BY <1>1, <1>2, <2>1, <2>2, Zenon DEF Slot
<1>7. Inside' \in Seq(Item) /\ Inside' = [i \in 1..Count' |-> Slot(i)']
  BY NextShape, Zenon DEF Shape
<1>8. Inside \in Seq(Item) /\ Inside = [i \in 1..Count |-> Slot(i)]
  BY InsideShape, Zenon DEF Shape
<1>9. Inside # << >> /\ Head(Inside) = Slot(1) /\ Len(Inside) = Count
  BY <1>4, <1>8, SMT
<1>10. Inside' = Tail(Inside)
  <2>1. Tail(Inside) = [i \in 1..(Count - 1) |-> Inside[i + 1]]
    BY <1>4, <1>8, <1>9, SMT
  <2>2. \A i \in 1..(Count - 1) : Inside[i + 1] = Slot(i + 1)
    BY <1>4, <1>8, SMT
  <2>3. \A i \in 1..(Count - 1) : Slot(i)' = Slot(i + 1)
    BY <1>4, <1>5, SMT
  <2>4. Inside' = [i \in 1..(Count - 1) |-> Slot(i)']
    BY <1>4, <1>7, Zenon
  <2> QED
    BY <2>1, <2>2, <2>3, <2>4, SMT
<1> QED
  BY <1>6, <1>9, <1>10, SMT DEF Fifo!Get

LEMMA ReleaseIsStutter ==
  ASSUME RingInv, RingInv', Release PROVE UNCHANGED <<Inside, consumer.item>>
<1>1. /\ UNCHANGED <<head, buffer>> /\ consumer.at = "release" /\ consumer'.at = "idle"
      /\ tail' = Plus(tail, 1) /\ consumer'.item = consumer.item
  BY SMT DEF Release, Thread
<1>2. Taken = 1 /\ Taken' = 0
  BY <1>1, SMT DEF Taken
<1>3. 1 \in Counter /\ Minus(head, tail) >= 1
  BY <1>1, CountType, SPSCAssumption, SMT DEF Counter
<1>4. Plus(tail, 1) \in Counter /\ Minus(Plus(tail, 1), tail) = 1
  BY <1>3, Distances, Advance, Zenon
<1>5. Minus(Plus(tail, 1), tail) <= Minus(head, tail)
  BY <1>3, <1>4, CountType, SMT
<1>6. Minus(head, Plus(tail, 1)) = Minus(head, tail) - 1
  <2>1. head \in Counter /\ tail \in Counter
    BY Distances
  <2>2. Minus(head, Plus(tail, 1)) = Minus(head, tail) - Minus(Plus(tail, 1), tail)
    BY <1>4, <1>5, <2>1, Between
  <2> QED
    BY <1>4, <2>2, Zenon
<1>7. Count' = Minus(head, tail) - 1 - 0 /\ Count = Minus(head, tail) - 1
  BY <1>1, <1>2, <1>6, Zenon DEF Count
<1>8. Count' = Count
  BY <1>7, CountType, SMT
<1>9. ASSUME NEW i \in 1..Count PROVE Slot(i)' = Slot(i)
  <2>1. PICK k \in Counter : k = i - 1 /\ k + 1 \in Counter /\ k + 1 = 1 + i - 1 /\ k = 0 + i - 1
    <3>1. /\ i - 1 \in Counter /\ (i - 1) + 1 \in Counter /\ (i - 1) + 1 = 1 + i - 1
          /\ i - 1 = 0 + i - 1
      BY <1>7, CountType, SPSCAssumption, SMT DEF Counter
    <3> QED
      BY <3>1, Zenon
  <2>2. Plus(Plus(tail, 1), k) = Plus(tail, k + 1)
    BY <2>1, Distances, PlusAssoc, Zenon
  <2>3. Slot(i)' = buffer[index(Plus(Plus(tail, 1), k))]
    BY <1>1, <1>2, <2>1, Zenon DEF Slot, Plus, index
  <2>4. Slot(i) = buffer[index(Plus(tail, k + 1))]
    BY <1>2, <2>1, Zenon DEF Slot
  <2> QED
    BY <2>2, <2>3, <2>4, Zenon
<1> QED
  BY <1>1, <1>8, <1>9, InsideSame, Zenon

\* Under every interleaving, staleness and wraparound the ring buffer of
\* spsc_queue.hpp is a bounded FIFO: what try_push puts in, try_pop takes out,
\* once and in the same order.
THEOREM RingIsFifo == Spec => ImplementsFifo
<1>1. Init => Fifo!Init
  <2> SUFFICES ASSUME Init PROVE Fifo!Init
    OBVIOUS
  <2>1. RingInv /\ head = 0 /\ tail = 0 /\ 0 \in Counter /\ consumer.at = "idle" /\ consumer.item \in Item
    BY RingInit, SPSCAssumption, SMT DEF Init, Thread, Counter
  <2>2. Minus(head, tail) = 0
    BY <2>1, Distance, Zenon
  <2>3. Taken = 0
    BY <2>1, SMT DEF Taken
  <2>4. Count = 0
    BY <2>2, <2>3, SMT DEF Count
  <2>5. Inside = << >>
    BY <2>1, <2>4, InsideShape, SMT DEF Shape
  <2> QED
    BY <2>1, <2>5, Zenon DEF Fifo!Init
<1>2. RingInv /\ RingInv' /\ [Next]_vars => [Fifo!Next]_<<Inside, consumer.item>>
  <2> SUFFICES ASSUME RingInv, RingInv', [Next]_vars PROVE [Fifo!Next]_<<Inside, consumer.item>>
    OBVIOUS
  <2>1. CASE (\E x \in Item : Call(x)) \/ LoadTail \/ UNCHANGED vars
    <3>1. UNCHANGED <<head, tail, buffer, consumer>>
      BY <2>1, Zenon DEF Call, LoadTail, vars
    <3> QED
      BY <3>1, CallIsStutter, Zenon
  <2>2. CASE Publish
    <3>1. producer.item \in Item
      BY SMT DEF RingInv, TypeOK
    <3> QED
      BY <2>2, <3>1, PublishIsPut, Zenon DEF Fifo!Next
  <2>3. CASE ReadSlot
    BY <2>3, ReadIsGet, Zenon DEF Fifo!Next
  <2>4. CASE WriteSlot \/ LoadHead \/ Release
    BY <2>4, WriteIsStutter, LoadHeadIsStutter, ReleaseIsStutter, Zenon
  <2> QED
    BY <2>1, <2>2, <2>3, <2>4, Zenon DEF Next
<1> QED
  BY <1>1, <1>2, RingAlways, PTL DEF Spec, ImplementsFifo, Fifo!Spec
=============================================================================
