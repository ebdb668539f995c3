----------------------------- MODULE MPMCQueue -----------------------------
(***************************************************************************)
(* The bounded blocking queue (include/mpmc_queue.hpp) as a value and the  *)
(* operations its critical sections perform on it.  A component that owns  *)
(* queues keeps one such record per queue and interleaves the steps of the *)
(* threads that use it: a critical section is one step, and a notify_one   *)
(* or notify_all, which the code issues after unlocking, is another.       *)
(*                                                                         *)
(* not_full and not_empty are the sets of threads blocked on the condition *)
(* variables.  A thread that is taken out of one has still to take the     *)
(* lock and to test its predicate again.                                   *)
(***************************************************************************)
EXTENDS Naturals, Sequences

CONSTANT Capacity

ASSUME CapacityAssumption == Capacity \in Nat \ {0}

Queue(buffer, high_watermark, closed, not_full, not_empty) ==
  [buffer |-> buffer, high_watermark |-> high_watermark, closed |-> closed,
   not_full |-> not_full, not_empty |-> not_empty]

NewQueue == Queue(<< >>, 0, FALSE, {}, {})

QueueOf(Item, Thread) ==
  [buffer : {items \in Seq(Item) : Len(items) <= Capacity},
   high_watermark : 0..Capacity, closed : BOOLEAN,
   not_full : SUBSET Thread, not_empty : SUBSET Thread]

\* The predicates push() and pop() wait for.
PushReady(q) == q.closed \/ Len(q.buffer) < Capacity
PopReady(q)  == q.closed \/ q.buffer # << >>

\* push() and try_push() put the item into a queue that is open and has space.
Accepts(q) == ~q.closed /\ Len(q.buffer) < Capacity

\* Seeded fault: the newest item is put in front.
InsertedInFront(q, item) == [q EXCEPT !.buffer = <<item>> \o @]

Inserted(q, item) ==
  LET size == Len(q.buffer) + 1
  IN  Queue(Append(q.buffer, item), IF size > q.high_watermark THEN size ELSE q.high_watermark,
            q.closed, q.not_full, q.not_empty)

\* Seeded fault: the item is read and left in the queue.
Peeked(q) == q

\* What pop() and try_pop() do to a queue that has an item.
Removed(q) == Queue(Tail(q.buffer), q.high_watermark, q.closed, q.not_full, q.not_empty)

Closed(q) == Queue(q.buffer, q.high_watermark, TRUE, q.not_full, q.not_empty)

\* Thread t goes to sleep on condition variable cv.
Asleep(q, cv, t) == [q EXCEPT ![cv] = @ \cup {t}]

\* Seeded fault: the notification is forgotten.
NotifyNone(q, cv) == {q}

\* The queues notify_one may leave: some sleeper, if there is one, wakes up.
NotifyOne(q, cv) ==
  IF q[cv] = {} THEN {q} ELSE {[q EXCEPT ![cv] = @ \ {t}] : t \in q[cv]}

\* Seeded fault: close() wakes one sleeper of each kind.
NotifyFirst(q) ==
  [q EXCEPT !.not_full = IF @ = {} THEN {} ELSE @ \ {CHOOSE t \in @ : TRUE},
            !.not_empty = IF @ = {} THEN {} ELSE @ \ {CHOOSE t \in @ : TRUE}]


NotifyAll(q) == Queue(q.buffer, q.high_watermark, q.closed, {}, {})

\* Either condition variable may wake a sleeper for no reason.
SpuriousWakeup(q) ==
  UNION {{[q EXCEPT ![cv] = @ \ {t}] : t \in q[cv]} : cv \in {"not_full", "not_empty"}}

Sleepers(q) == q.not_full \cup q.not_empty
=============================================================================
