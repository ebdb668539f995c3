----------------------------- MODULE SPSCQueue -----------------------------
(***************************************************************************)
(* The lock-free ring buffer (include/spsc_queue.hpp), one producer and    *)
(* one consumer.                                                           *)
(*                                                                         *)
(* The counters have a finite width: they are kept modulo Modulus (2^64 in *)
(* the code), and no other variable grows, so TLC sees every wraparound.   *)
(* A thread that loads the other one's counter gets the latest value or an *)
(* older one, but none older than it got before; the release stores and    *)
(* acquire loads promise no more than this, and that the slots up to the   *)
(* counter are up to date.  Slots are plain memory: a slot is written, or  *)
(* read, in a step of its own.                                             *)
(***************************************************************************)
EXTENDS Naturals, Sequences

CONSTANTS Item, Capacity, Modulus

ASSUME SPSCAssumption ==
  /\ Capacity \in Nat \ {0} /\ Modulus \in Nat
  /\ Modulus % Capacity = 0 /\ Modulus > Capacity
  /\ Item # {}

VARIABLES head, tail, buffer,
          producer,    \* at, the item being pushed, the value of tail_ seen last
          consumer     \* at, the item popped last, the value of head_ seen last

vars == <<head, tail, buffer, producer, consumer>>

Counter == 0..(Modulus - 1)

\* Unsigned arithmetic.
Plus(a, b)  == (a + b) % Modulus
Minus(a, b) == (a + Modulus - b) % Modulus

\* Seeded fault: one slot is never used.
indexOfAllButOne(counter) == counter % (Capacity - 1)

index(counter) == counter % Capacity

\* A thread: where it is, the item it carries, the other counter as seen last.
Thread(at, item, seen) == [at |-> at, item |-> item, seen |-> seen]

TypeOK ==
  /\ head \in Counter /\ tail \in Counter /\ buffer \in [0..(Capacity - 1) -> Item]
  /\ producer \in [at : {"idle", "load", "write", "publish"}, item : Item, seen : Counter]
  /\ consumer \in [at : {"idle", "read", "release"}, item : Item, seen : Counter]

Init ==
  /\ head = 0 /\ tail = 0
  /\ \E x \in Item : /\ buffer = [i \in 0..(Capacity - 1) |-> x]
                     /\ producer = Thread("idle", x, 0)
                     /\ consumer = Thread("idle", x, 0)

\* The values a load of counter may return to a thread that saw seen.
Visible(counter, seen) == {Plus(seen, i) : i \in 0..Minus(counter, seen)}
-----------------------------------------------------------------------------
\* try_push.
Call(x) ==
  /\ producer.at = "idle"
  /\ producer' = Thread("load", x, producer.seen)
  /\ UNCHANGED <<head, tail, buffer, consumer>>

\* Seeded fault: off by one in the test for full.
HasRoomForOneMore(t) == Minus(head, t) <= Capacity

HasRoom(t) == Minus(head, t) < Capacity

LoadTail ==
  /\ producer.at = "load"
  /\ \E t \in Visible(tail, producer.seen) :
       producer' = Thread(IF HasRoom(t) THEN "write" ELSE "idle", producer.item, t)
  /\ UNCHANGED <<head, tail, buffer, consumer>>

WriteSlot ==
  /\ producer.at = "write"
  /\ buffer' = [buffer EXCEPT ![index(head)] = producer.item]
  /\ producer' = Thread("publish", producer.item, producer.seen)
  /\ UNCHANGED <<head, tail, consumer>>

Publish ==
  /\ producer.at = "publish"
  /\ head' = Plus(head, 1)
  /\ producer' = Thread("idle", producer.item, producer.seen)
  /\ UNCHANGED <<tail, buffer, consumer>>

\* try_pop.
LoadHead ==
  /\ consumer.at = "idle"
  /\ \E h \in Visible(head, consumer.seen) :
       consumer' = Thread(IF h = tail THEN "idle" ELSE "read", consumer.item, h)
  /\ UNCHANGED <<head, tail, buffer, producer>>

ReadSlot ==
  /\ consumer.at = "read"
  /\ consumer' = Thread("release", buffer[index(tail)], consumer.seen)
  /\ UNCHANGED <<head, tail, buffer, producer>>

Release ==
  /\ consumer.at = "release"
  /\ tail' = Plus(tail, 1)
  /\ consumer' = Thread("idle", consumer.item, consumer.seen)
  /\ UNCHANGED <<head, buffer, producer>>

Next ==
  \/ \E x \in Item : Call(x)
  \/ LoadTail \/ WriteSlot \/ Publish
  \/ LoadHead \/ ReadSlot \/ Release

Spec == Init /\ [][Next]_vars
-----------------------------------------------------------------------------
\* The payload is plain memory, so the two threads must never be at the same
\* slot: the producer has not started to write the slot the consumer reads.
SlotRaceFree ==
  ~(/\ producer.at = "write" /\ consumer.at = "read"
    /\ index(head) = index(tail))

\* What each thread believes of the other is safe although it may be old: the
\* producer never takes the queue for emptier, nor the consumer for fuller,
\* than it is, across a wraparound of the counters too.
StaleViewsAreSafe ==
  /\ Minus(head, tail) <= Capacity
  /\ Minus(tail, producer.seen) <= Minus(head, producer.seen)
  /\ Minus(consumer.seen, tail) <= Minus(head, tail)

\* The safety of the ring buffer, with the types of its variables.
RingSafe == TypeOK /\ SlotRaceFree /\ StaleViewsAreSafe

\* An item leaves the abstract queue when the consumer has copied it.
Taken == IF consumer.at = "release" THEN 1 ELSE 0

Inside ==
  [i \in 1..(Minus(head, tail) - Taken) |-> buffer[index(Plus(tail, Taken + i - 1))]]

Fifo == INSTANCE BoundedFifo WITH items <- Inside, out <- consumer.item

\* The ring buffer is a bounded FIFO: nothing lost, duplicated or reordered
\* under any interleaving, staleness or wraparound.
ImplementsFifo == Fifo!Spec
=============================================================================
