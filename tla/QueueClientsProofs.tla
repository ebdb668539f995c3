------------------------- MODULE QueueClientsProofs -------------------------
(***************************************************************************)
(* The blocking queue is a FIFO and loses no wakeup, for every number of   *)
(* threads and every capacity.                                             *)
(*                                                                         *)
(* NoLostWakeup is inductive together with the fact that whoever sleeps on *)
(* a condition variable is inside the call that waits for it: then each    *)
(* step changes the number of items (or of free slots) by as much as the   *)
(* number of threads that will look after them.                            *)
(***************************************************************************)
EXTENDS QueueClients, FiniteSetTheorems, TLAPS

\* Sleepers are inside the call that sleeps; a push has an item.
Engaged ==
  /\ \A t \in queue.not_empty : thread[t].at = "lock" /\ thread[t].op = "pop"
  /\ \A t \in queue.not_full : thread[t].at = "lock" /\ thread[t].op = "push"
  /\ \A t \in Thread : thread[t].at = "lock" /\ thread[t].op \in Pushes => thread[t].item \in 1..MaxItems

QueueInv == Fifo /\ Engaged /\ NoLostWakeup
-----------------------------------------------------------------------------
(* Counting threads *)

LEMMA CardNat == ASSUME NEW A \in SUBSET Thread PROVE IsFiniteSet(A) /\ Cardinality(A) \in Nat
BY FS_Subset, FS_CardinalityType, ClientsAssumption, Zenon

LEMMA CardMono ==
  ASSUME NEW A \in SUBSET Thread, NEW B \in SUBSET Thread, A \subseteq B
  PROVE  Cardinality(A) <= Cardinality(B)
BY CardNat, FS_Subset, Zenon

LEMMA CardAdd ==
  ASSUME NEW A \in SUBSET Thread, NEW B \in SUBSET Thread, NEW t \in Thread, t \notin A,
         A \cup {t} \subseteq B
  PROVE  Cardinality(A) + 1 <= Cardinality(B)
<1>1. Cardinality(A \cup {t}) = Cardinality(A) + 1
  BY CardNat, FS_AddElement, Zenon
<1>2. A \cup {t} \in SUBSET Thread
  BY Zenon
<1>3. Cardinality(A \cup {t}) <= Cardinality(B)
  BY <1>2, CardMono, Zenon
<1> QED
  BY <1>1, <1>3, Zenon

LEMMA CardDrop ==
  ASSUME NEW A \in SUBSET Thread, NEW B \in SUBSET Thread, NEW t \in Thread, A \ {t} \subseteq B
  PROVE  Cardinality(A) <= Cardinality(B) + 1
<1>1. Cardinality(A \ {t}) = IF t \in A THEN Cardinality(A) - 1 ELSE Cardinality(A)
  BY CardNat, FS_RemoveElement, Zenon
<1>2. A \ {t} \in SUBSET Thread
  BY Zenon
<1>3. Cardinality(A \ {t}) <= Cardinality(B)
  BY <1>2, CardMono, Zenon
<1>4. Cardinality(A) \in Nat /\ Cardinality(B) \in Nat
  BY CardNat, Zenon
<1> QED
  BY <1>1, <1>3, <1>4, SMT

\* Those awake, A, and those about to notify, N, look after n items.  Do B and M
\* after a step?  They do when nobody has gone, when a pusher came with its item,
\* when a popper left with one, and when a notification has woken somebody.
LEMMA EnoughKept ==
  ASSUME NEW A \in SUBSET Thread, NEW N \in SUBSET Thread,
         NEW B \in SUBSET Thread, NEW M \in SUBSET Thread,
         NEW n \in Nat, n <= Cardinality(A) + Cardinality(N),
         A \subseteq B, N \subseteq M
  PROVE  n <= Cardinality(B) + Cardinality(M)
<1>1. PICK a \in Nat, c \in Nat, b \in Nat, m \in Nat :
        a = Cardinality(A) /\ c = Cardinality(N) /\ b = Cardinality(B) /\ m = Cardinality(M)
  BY CardNat, Zenon
<1>2. a <= b /\ c <= m
  BY <1>1, CardMono, Zenon
<1>3. n <= a + c
  BY <1>1, Zenon
<1>4. n <= b + m
  BY <1>2, <1>3, SMT
<1> QED
  BY <1>1, <1>4, Zenon

LEMMA EnoughMore ==
  ASSUME NEW A \in SUBSET Thread, NEW N \in SUBSET Thread,
         NEW B \in SUBSET Thread, NEW M \in SUBSET Thread,
         NEW n \in Nat, n <= Cardinality(A) + Cardinality(N),
         NEW t \in Thread, A \subseteq B, t \notin N, N \cup {t} \subseteq M
  PROVE  n + 1 <= Cardinality(B) + Cardinality(M)
<1>1. PICK a \in Nat, c \in Nat, b \in Nat, m \in Nat :
        a = Cardinality(A) /\ c = Cardinality(N) /\ b = Cardinality(B) /\ m = Cardinality(M)
  BY CardNat, Zenon
<1>2. a <= b /\ c + 1 <= m
  BY <1>1, CardMono, CardAdd, Zenon
<1>3. n <= a + c
  BY <1>1, Zenon
<1>4. n + 1 <= b + m
  BY <1>2, <1>3, SMT
<1> QED
  BY <1>1, <1>4, Zenon

LEMMA EnoughLess ==
  ASSUME NEW A \in SUBSET Thread, NEW N \in SUBSET Thread,
         NEW B \in SUBSET Thread, NEW M \in SUBSET Thread,
         NEW n \in Nat, n <= Cardinality(A) + Cardinality(N),
         NEW t \in Thread, A \ {t} \subseteq B, N \subseteq M
  PROVE  n <= Cardinality(B) + Cardinality(M) + 1
<1>1. PICK a \in Nat, c \in Nat, b \in Nat, m \in Nat :
        a = Cardinality(A) /\ c = Cardinality(N) /\ b = Cardinality(B) /\ m = Cardinality(M)
  BY CardNat, Zenon
<1>2. a <= b + 1 /\ c <= m
  BY <1>1, CardMono, CardDrop, Zenon
<1>3. n <= a + c
  BY <1>1, Zenon
<1>4. n <= b + m + 1
  BY <1>2, <1>3, SMT
<1> QED
  BY <1>1, <1>4, Zenon

LEMMA EnoughWoken ==
  ASSUME NEW A \in SUBSET Thread, NEW N \in SUBSET Thread,
         NEW B \in SUBSET Thread, NEW M \in SUBSET Thread,
         NEW n \in Nat, n <= Cardinality(A) + Cardinality(N),
         NEW t \in Thread, NEW u \in Thread, u \notin A,
         A \cup {u} \subseteq B, N \ {t} \subseteq M
  PROVE  n <= Cardinality(B) + Cardinality(M)
<1>1. PICK a \in Nat, c \in Nat, b \in Nat, m \in Nat :
        a = Cardinality(A) /\ c = Cardinality(N) /\ b = Cardinality(B) /\ m = Cardinality(M)
  BY CardNat, Zenon
<1>2. a + 1 <= b /\ c <= m + 1
  BY <1>1, CardAdd, CardDrop, Zenon
<1>3. n <= a + c
  BY <1>1, Zenon
<1>4. n <= b + m
  BY <1>2, <1>3, SMT
<1> QED
  BY <1>1, <1>4, Zenon
-----------------------------------------------------------------------------
(* What each operation does to the queue *)

Q == QueueOf(1..MaxItems, Thread)

LEMMA TailFacts ==
  ASSUME NEW S, NEW s \in Seq(S), s # << >>
  PROVE  Head(s) \in S /\ Tail(s) \in Seq(S) /\ Len(s) = Len(Tail(s)) + 1 /\ Len(Tail(s)) \in Nat
BY SMT

LEMMA PopFront ==
  ASSUME NEW s \in Seq(1..MaxItems), NEW b \in Seq(1..MaxItems), b # << >>
  PROVE  Append(s, Head(b)) \o Tail(b) = s \o b
BY SMT

LEMMA PushBack ==
  ASSUME NEW s \in Seq(1..MaxItems), NEW b \in Seq(1..MaxItems), NEW x \in 1..MaxItems
  PROVE  s \o Append(b, x) = Append(s \o b, x)
BY SMT

LEMMA InsertEffect ==
  ASSUME NEW q \in Q, NEW x \in 1..MaxItems, Accepts(q), NEW r, r = Inserted(q, x)
  PROVE  /\ r \in Q /\ r.buffer = Append(q.buffer, x) /\ Len(r.buffer) = Len(q.buffer) + 1
         /\ r.closed = q.closed /\ r.not_full = q.not_full /\ r.not_empty = q.not_empty
<1>1. r.buffer = Append(q.buffer, x) /\ Len(r.buffer) = Len(q.buffer) + 1 /\ Len(r.buffer) <= Capacity
      /\ r.buffer \in Seq(1..MaxItems)
  BY CapacityAssumption, SMT DEF Q, QueueOf, Inserted, Queue, Accepts
<1>2. r.high_watermark \in 0..Capacity
  BY CapacityAssumption, SMT DEF Q, QueueOf, Inserted, Queue, Accepts
<1>3. r.closed = q.closed /\ r.not_full = q.not_full /\ r.not_empty = q.not_empty
  BY SMT DEF Inserted, Queue
<1>4. r \in Q
  BY <1>1, <1>2, <1>3, SMT DEF Q, QueueOf, Inserted, Queue
<1> QED
  BY <1>1, <1>3, <1>4, Zenon

LEMMA RemoveEffect ==
  ASSUME NEW q \in Q, q.buffer # << >>, NEW r, r = Removed(q)
  PROVE  /\ r \in Q /\ r.buffer = Tail(q.buffer) /\ Len(q.buffer) = Len(r.buffer) + 1
         /\ Head(q.buffer) \in 1..MaxItems
         /\ r.closed = q.closed /\ r.not_full = q.not_full /\ r.not_empty = q.not_empty
<1>a. q.buffer \in Seq(1..MaxItems) /\ Len(q.buffer) <= Capacity
  BY SMT DEF Q, QueueOf
<1>b. r.buffer = Tail(q.buffer)
  BY SMT DEF Removed, Queue
<1>c. /\ Head(q.buffer) \in 1..MaxItems /\ r.buffer \in Seq(1..MaxItems) /\ Len(r.buffer) \in Nat
      /\ Len(q.buffer) = Len(r.buffer) + 1
  BY <1>a, <1>b, TailFacts, Zenon
<1>1. Len(r.buffer) <= Capacity
  BY <1>a, <1>c, CapacityAssumption, SMT
<1>2. r.closed = q.closed /\ r.not_full = q.not_full /\ r.not_empty = q.not_empty
  BY SMT DEF Removed, Queue
<1>3. r \in Q
  BY <1>c, <1>1, <1>2, SMT DEF Q, QueueOf, Removed, Queue
<1> QED
  BY <1>b, <1>c, <1>2, <1>3, Zenon

LEMMA CloseEffect ==
  ASSUME NEW q \in Q, NEW r, r = Closed(q)
  PROVE  /\ r \in Q /\ r.buffer = q.buffer /\ r.closed = TRUE
         /\ r.not_full = q.not_full /\ r.not_empty = q.not_empty
BY SMT DEF Q, QueueOf, Closed, Queue

LEMMA NotifyAllEffect ==
  ASSUME NEW q \in Q, NEW r, r = NotifyAll(q)
  PROVE  /\ r \in Q /\ r.buffer = q.buffer /\ r.closed = q.closed
         /\ r.not_full = {} /\ r.not_empty = {}
BY SMT DEF Q, QueueOf, NotifyAll, Queue

LEMMA PusherSleeps ==
  ASSUME NEW q \in Q, NEW t \in Thread, NEW r, r = Asleep(q, "not_full", t)
  PROVE  /\ r \in Q /\ r.buffer = q.buffer /\ r.closed = q.closed
         /\ r.not_full = q.not_full \cup {t} /\ r.not_empty = q.not_empty
BY SMT DEF Q, QueueOf, Asleep

LEMMA PopperSleeps ==
  ASSUME NEW q \in Q, NEW t \in Thread, NEW r, r = Asleep(q, "not_empty", t)
  PROVE  /\ r \in Q /\ r.buffer = q.buffer /\ r.closed = q.closed
         /\ r.not_full = q.not_full /\ r.not_empty = q.not_empty \cup {t}
BY SMT DEF Q, QueueOf, Asleep

LEMMA PopperNotified ==
  ASSUME NEW q \in Q, NEW r \in NotifyOne(q, "not_empty")
  PROVE  /\ r \in Q /\ r.buffer = q.buffer /\ r.closed = q.closed /\ r.not_full = q.not_full
         /\ \/ q.not_empty = {} /\ r.not_empty = {}
            \/ \E u \in q.not_empty : r.not_empty = q.not_empty \ {u}
BY SMT DEF Q, QueueOf, NotifyOne

LEMMA PusherNotified ==
  ASSUME NEW q \in Q, NEW r \in NotifyOne(q, "not_full")
  PROVE  /\ r \in Q /\ r.buffer = q.buffer /\ r.closed = q.closed /\ r.not_empty = q.not_empty
         /\ \/ q.not_full = {} /\ r.not_full = {}
            \/ \E u \in q.not_full : r.not_full = q.not_full \ {u}
BY SMT DEF Q, QueueOf, NotifyOne

LEMMA SpuriousEffect ==
  ASSUME NEW q \in Q, NEW r \in SpuriousWakeup(q)
  PROVE  /\ r \in Q /\ r.buffer = q.buffer /\ r.closed = q.closed
         /\ r.not_full \subseteq q.not_full /\ r.not_empty \subseteq q.not_empty
BY SMT DEF Q, QueueOf, SpuriousWakeup

LEMMA QueueType ==
  ASSUME NEW q \in Q
  PROVE  /\ q.buffer \in Seq(1..MaxItems) /\ Len(q.buffer) \in 0..Capacity /\ q.closed \in BOOLEAN
         /\ q.not_full \in SUBSET Thread /\ q.not_empty \in SUBSET Thread
BY CapacityAssumption, SMT DEF Q, QueueOf

LEMMA Sizes ==
  ASSUME NEW q \in Q
  PROVE  (\E n \in Nat : n = Len(q.buffer)) /\ (\E n \in Nat : n = Capacity - Len(q.buffer))
<1>1. Len(q.buffer) \in 0..Capacity
  BY QueueType, Zenon
<1>2. Len(q.buffer) \in Nat /\ Capacity - Len(q.buffer) \in Nat
  BY <1>1, CapacityAssumption, SMT
<1> QED
  BY <1>2, Zenon
-----------------------------------------------------------------------------
(* Who is awake, and who is about to notify *)

ItemsSeen ==
  queue.not_empty # {} =>
    Len(queue.buffer) <= Cardinality(Awake("pop")) + Cardinality(Notifying(Pushes))
SlotsSeen ==
  queue.not_full # {} /\ ~queue.closed =>
    Capacity - Len(queue.buffer) <= Cardinality(Awake("push")) + Cardinality(Notifying(Pops))
CloseSeen == queue.closed /\ Sleepers(queue) # {} => Notifying({"close"}) # {}

LEMMA ThreeParts == NoLostWakeup <=> ItemsSeen /\ SlotsSeen /\ CloseSeen
BY Zenon DEF NoLostWakeup, ItemsSeen, SlotsSeen, CloseSeen, Pushes, Pops

LEMMA Subsets ==
  ASSUME NEW op, NEW ops
  PROVE  /\ Awake(op) \in SUBSET Thread /\ Awake(op)' \in SUBSET Thread
         /\ Notifying(ops) \in SUBSET Thread /\ Notifying(ops)' \in SUBSET Thread
BY Zenon DEF Awake, Notifying

\* One thread does something: the others stay what they are.
LEMMA OneMoves ==
  ASSUME TypeOK, NEW t \in Thread, NEW X, thread' = [thread EXCEPT ![t] = X]
  PROVE  thread'[t] = X /\ \A u \in Thread \ {t} : thread'[u] = thread[u]
BY Zenon DEF TypeOK

LEMMA AwakeKept ==
  ASSUME NEW T, \A u \in Thread \ T : thread'[u] = thread[u],
         \A u \in Thread \ T : u \notin Sleepers(queue) => u \notin Sleepers(queue)', NEW op
  PROVE  Awake(op) \ T \subseteq Awake(op)'
BY Zenon DEF Awake, AtLock

LEMMA NotifyingKept ==
  ASSUME NEW T, \A u \in Thread \ T : thread'[u] = thread[u], NEW ops
  PROVE  Notifying(ops) \ T \subseteq Notifying(ops)'
BY Zenon DEF Notifying

LEMMA Outside ==
  ASSUME NEW t \in Thread, NEW op, NEW ops
  PROVE  /\ thread[t].at # "lock" => t \notin Awake(op)
         /\ thread[t].op # op => t \notin Awake(op)
         /\ t \in Sleepers(queue) => t \notin Awake(op)
         /\ thread[t].at # "notify" => t \notin Notifying(ops)
         /\ thread[t].op \notin ops => t \notin Notifying(ops)
BY Zenon DEF Awake, AtLock, Notifying
-----------------------------------------------------------------------------
(* The steps *)

Activity == [at : {"rest", "lock", "notify"}, op : Operations \cup {"none"}, item : 0..MaxItems]

LEMMA Unpack ==
  QueueInv => /\ TypeOK /\ queue \in Q /\ thread \in [Thread -> Activity]
              /\ inserted \in Seq(1..MaxItems) /\ taken \in Seq(1..MaxItems)
              /\ inserted = taken \o queue.buffer /\ Engaged /\ ItemsSeen /\ SlotsSeen /\ CloseSeen
BY ThreeParts, Zenon DEF QueueInv, Fifo, TypeOK, Q, Activity

LEMMA Pack ==
  ASSUME queue' \in Q, thread' \in [Thread -> Activity], started' \in 0..MaxItems,
         inserted' \in Seq(1..MaxItems), taken' \in Seq(1..MaxItems),
         inserted' = taken' \o queue'.buffer, Engaged', ItemsSeen', SlotsSeen', CloseSeen'
  PROVE  QueueInv'
<1>1. NoLostWakeup'
  BY Zenon DEF NoLostWakeup, ItemsSeen, SlotsSeen, CloseSeen, Pushes, Pops
<1> QED
  BY <1>1, Zenon DEF QueueInv, Fifo, TypeOK, Q, Activity

LEMMA Activities ==
  ASSUME TypeOK, NEW t \in Thread
  PROVE  /\ thread[t] \in Activity /\ Resting \in Activity
         /\ Doing("notify", thread[t].op, thread[t].item) \in Activity
<1>1. thread[t] \in Activity
  BY Zenon DEF TypeOK, Activity
<1>2. Resting \in Activity
  BY ClientsAssumption, SMT DEF Activity, Resting, Doing
<1>3. Doing("notify", thread[t].op, thread[t].item) \in Activity
  BY <1>1, SMT DEF Activity, Doing
<1> QED
  BY <1>1, <1>2, <1>3, Zenon

LEMMA ThreadType ==
  ASSUME TypeOK, NEW t \in Thread, NEW X \in Activity, thread' = [thread EXCEPT ![t] = X]
  PROVE  thread' \in [Thread -> Activity]
<1>1. thread \in [Thread -> Activity]
  BY Zenon DEF TypeOK, Activity
<1> QED
  BY <1>1, Zenon

\* What Return and ThenNotify leave.
LEMMA Leaves ==
  ASSUME TypeOK, NEW t \in Thread
  PROVE  /\ Return(t) =>
              /\ thread' \in [Thread -> Activity]
              /\ thread'[t].at = "rest" /\ \A u \in Thread \ {t} : thread'[u] = thread[u]
         /\ ThenNotify(t) =>
              /\ thread' \in [Thread -> Activity]
              /\ thread'[t].at = "notify" /\ thread'[t].op = thread[t].op
              /\ \A u \in Thread \ {t} : thread'[u] = thread[u]
<1>1. ASSUME Return(t)
      PROVE  /\ thread' \in [Thread -> Activity]
             /\ thread'[t].at = "rest" /\ \A u \in Thread \ {t} : thread'[u] = thread[u]
  <2>1. thread' = [thread EXCEPT ![t] = Resting]
    BY <1>1, Zenon DEF Return
  <2>2. thread'[t] = Resting /\ \A u \in Thread \ {t} : thread'[u] = thread[u]
    BY <2>1, OneMoves, Zenon
  <2>3. thread'[t].at = "rest"
    BY <2>2, SMT DEF Resting, Doing
  <2>4. thread' \in [Thread -> Activity]
    BY <2>1, Activities, ThreadType, Zenon
  <2> QED
    BY <2>2, <2>3, <2>4, Zenon
<1>2. ASSUME ThenNotify(t)
      PROVE  /\ thread' \in [Thread -> Activity]
             /\ thread'[t].at = "notify" /\ thread'[t].op = thread[t].op
             /\ \A u \in Thread \ {t} : thread'[u] = thread[u]
  <2>1. thread' = [thread EXCEPT ![t] = Doing("notify", thread[t].op, thread[t].item)]
    BY <1>2, Zenon DEF ThenNotify
  <2>2. /\ thread'[t] = Doing("notify", thread[t].op, thread[t].item)
        /\ \A u \in Thread \ {t} : thread'[u] = thread[u]
    BY <2>1, OneMoves, Zenon
  <2>3. thread'[t].at = "notify" /\ thread'[t].op = thread[t].op
    BY <2>2, SMT DEF Doing
  <2>4. thread' \in [Thread -> Activity]
    BY <2>1, Activities, ThreadType, Zenon
  <2> QED
    BY <2>2, <2>3, <2>4, Zenon
<1> QED
  BY <1>1, <1>2, Zenon

\* A step after which those who sleep slept before, and one thread that does
\* not sleep has moved on from its critical section or its notification.
LEMMA StillEngaged ==
  ASSUME Engaged, NEW T, \A u \in Thread \ T : thread'[u] = thread[u],
         \A t \in T \cap Thread : thread'[t].at # "lock",
         queue'.not_empty \subseteq queue.not_empty \ T, queue'.not_full \subseteq queue.not_full \ T,
         queue.not_empty \subseteq Thread, queue.not_full \subseteq Thread
  PROVE  Engaged'
<1>1. ASSUME NEW u \in queue'.not_empty PROVE thread'[u].at = "lock" /\ thread'[u].op = "pop"
  BY Zenon DEF Engaged
<1>2. ASSUME NEW u \in queue'.not_full PROVE thread'[u].at = "lock" /\ thread'[u].op = "push"
  BY Zenon DEF Engaged
<1>3. ASSUME NEW u \in Thread, thread'[u].at = "lock" /\ thread'[u].op \in Pushes
      PROVE  thread'[u].item \in 1..MaxItems
  BY <1>3, Zenon DEF Engaged
<1> QED
  BY <1>1, <1>2, <1>3, Zenon DEF Engaged

\* The three parts of NoLostWakeup, after a step that leaves the buffer alone and
\* after which no thread has gone that the part counts on.
LEMMA ItemsKept ==
  ASSUME QueueInv, queue'.buffer = queue.buffer, queue'.not_empty \subseteq queue.not_empty,
         Awake("pop") \subseteq Awake("pop")', Notifying(Pushes) \subseteq Notifying(Pushes)'
  PROVE  ItemsSeen'
<1>1. ItemsSeen /\ queue \in Q
  BY Unpack, Zenon
<1>2. Len(queue.buffer) \in Nat
  BY <1>1, QueueType, CapacityAssumption, SMT
<1>3. ASSUME queue'.not_empty # {}
      PROVE  Len(queue.buffer) <= Cardinality(Awake("pop")') + Cardinality(Notifying(Pushes)')
  <2>1. Len(queue.buffer) <= Cardinality(Awake("pop")) + Cardinality(Notifying(Pushes))
    BY <1>1, <1>3, Zenon DEF ItemsSeen
  <2> QED
    BY <2>1, <1>2, Subsets, EnoughKept, Zenon
<1> QED
  BY <1>3, Zenon DEF ItemsSeen

LEMMA SlotsKept ==
  ASSUME QueueInv, queue'.buffer = queue.buffer, queue'.not_full \subseteq queue.not_full,
         queue'.closed = queue.closed,
         Awake("push") \subseteq Awake("push")', Notifying(Pops) \subseteq Notifying(Pops)'
  PROVE  SlotsSeen'
<1>1. SlotsSeen /\ queue \in Q
  BY Unpack, Zenon
<1>2. PICK n \in Nat : n = Capacity - Len(queue.buffer)
  BY <1>1, Sizes, Zenon
<1>3. ASSUME queue'.not_full # {}, ~queue'.closed
      PROVE  n <= Cardinality(Awake("push")') + Cardinality(Notifying(Pops)')
  <2>1. n <= Cardinality(Awake("push")) + Cardinality(Notifying(Pops))
    BY <1>1, <1>2, <1>3, Zenon DEF SlotsSeen
  <2> QED
    BY <2>1, Subsets, EnoughKept, Zenon
<1> QED
  BY <1>2, <1>3, Zenon DEF SlotsSeen

LEMMA CloseKept ==
  ASSUME QueueInv, queue'.closed = queue.closed, queue'.not_full \subseteq queue.not_full,
         queue'.not_empty \subseteq queue.not_empty, Notifying({"close"}) \subseteq Notifying({"close"})'
  PROVE  CloseSeen'
<1>1. CloseSeen
  BY Unpack, Zenon
<1> QED
  BY <1>1, Zenon DEF CloseSeen, Sleepers

\* Nothing left to look after: an empty buffer, a full one.
LEMMA NothingToSee ==
  /\ Len(queue'.buffer) = 0 => ItemsSeen'
  /\ Capacity - Len(queue'.buffer) = 0 => SlotsSeen'
<1>1. \A op, ops : Cardinality(Awake(op)') \in Nat /\ Cardinality(Notifying(ops)') \in Nat
  BY Subsets, CardNat, Zenon
<1>2. \A op, ops : 0 <= Cardinality(Awake(op)') + Cardinality(Notifying(ops)')
  <2> TAKE op, ops
  <2>1. Cardinality(Awake(op)') \in Nat /\ Cardinality(Notifying(ops)') \in Nat
    BY <1>1, Zenon
  <2> QED
    BY <2>1, SMT
<1> QED
  BY <1>2, Zenon DEF ItemsSeen, SlotsSeen

LEMMA PushInserts ==
  ASSUME QueueInv, NEW t \in Thread, AtLock(t, Pushes), Accepts(queue),
         queue' = Inserted(queue, thread[t].item), inserted' = Append(inserted, thread[t].item),
         ThenNotify(t), UNCHANGED <<started, taken>>
  PROVE  QueueInv'
<1> DEFINE x == thread[t].item
           q == queue
           r == queue'
<1>0. q \in Q
  BY Unpack, Zenon
<1>1. /\ TypeOK /\ q \in Q /\ inserted \in Seq(1..MaxItems) /\ taken \in Seq(1..MaxItems)
      /\ inserted = taken \o q.buffer /\ Engaged /\ ItemsSeen /\ SlotsSeen /\ CloseSeen
      /\ started \in 0..MaxItems /\ started' = started /\ taken' = taken
  BY Unpack, Zenon DEF TypeOK
<1>2. /\ thread[t].at = "lock" /\ thread[t].op \in Pushes /\ t \notin q.not_empty /\ t \notin q.not_full
      /\ x \in 1..MaxItems
  <2>1. thread[t].at = "lock" /\ thread[t].op \in Pushes /\ t \notin q.not_empty /\ t \notin q.not_full
    BY Zenon DEF AtLock, Sleepers
  <2> QED
    BY <2>1, <1>1, Zenon DEF Engaged
<1>3. /\ r \in Q /\ r.buffer = Append(q.buffer, x) /\ Len(r.buffer) = Len(q.buffer) + 1
      /\ r.closed = q.closed /\ r.not_full = q.not_full /\ r.not_empty = q.not_empty
  <2>1. x \in 1..MaxItems
    BY <1>2, Zenon
  <2> QED
    BY <1>0, <2>1, InsertEffect, SMT
<1>5. /\ thread' \in [Thread -> Activity]
      /\ thread'[t].at = "notify" /\ thread'[t].op = thread[t].op
      /\ \A u \in Thread \ {t} : thread'[u] = thread[u]
  BY <1>1, Leaves, Zenon
<1>7. /\ q.buffer \in Seq(1..MaxItems) /\ Len(q.buffer) \in 0..Capacity
      /\ q.not_empty \in SUBSET Thread /\ q.not_full \in SUBSET Thread
  BY <1>1, QueueType, Zenon
<1>8. inserted' \in Seq(1..MaxItems) /\ inserted' = taken \o r.buffer
  <2>1. inserted' \in Seq(1..MaxItems)
    BY <1>1, <1>2, SMT
  <2>2. taken \o Append(q.buffer, x) = Append(taken \o q.buffer, x)
    BY <1>1, <1>2, <1>7, PushBack, Zenon
  <2> QED
    BY <2>1, <2>2, <1>1, <1>3, Zenon
<1>9. Engaged'
  <2>1. /\ \A u \in {t} \cap Thread : thread'[u].at # "lock"
        /\ r.not_empty \subseteq q.not_empty \ {t} /\ r.not_full \subseteq q.not_full \ {t}
        /\ q.not_empty \subseteq Thread /\ q.not_full \subseteq Thread
    BY <1>2, <1>3, <1>5, <1>7, Zenon
  <2> QED
    BY <2>1, <1>1, <1>5, StillEngaged, Zenon
<1>10. /\ \A op : Awake(op) \ {t} \subseteq Awake(op)'
       /\ \A ops : Notifying(ops) \ {t} \subseteq Notifying(ops)'
  BY <1>3, <1>5, AwakeKept, NotifyingKept, Zenon DEF Sleepers
<1>11. ItemsSeen'
  <2>1. t \notin Awake("pop") /\ t \notin Notifying(Pushes) /\ t \in Notifying(Pushes)'
    <3>1. thread[t].op # "pop" /\ thread[t].at # "notify"
      BY <1>2, Zenon DEF Pushes
    <3> QED
      BY <3>1, <1>2, <1>5, Outside, Zenon DEF Notifying
  <2>2. Awake("pop") \subseteq Awake("pop")' /\ Notifying(Pushes) \cup {t} \subseteq Notifying(Pushes)'
    BY <2>1, <1>10, Zenon
  <2>3. ASSUME r.not_empty # {}
        PROVE  Len(r.buffer) <= Cardinality(Awake("pop")') + Cardinality(Notifying(Pushes)')
    <3>1. Len(q.buffer) \in Nat /\ Len(q.buffer) <= Cardinality(Awake("pop")) + Cardinality(Notifying(Pushes))
      BY <2>3, <1>1, <1>3, <1>7, CapacityAssumption, SMT DEF ItemsSeen
    <3>2. Len(q.buffer) + 1 <= Cardinality(Awake("pop")') + Cardinality(Notifying(Pushes)')
      BY <3>1, <2>1, <2>2, Subsets, EnoughMore, Zenon
    <3> QED
      BY <3>2, <1>3, Zenon
  <2> QED
    BY <2>3, Zenon DEF ItemsSeen
<1>12. SlotsSeen'
  <2>1. t \notin Notifying(Pops)
    BY <1>2, Outside, Zenon
  <2>2. Awake("push") \ {t} \subseteq Awake("push")' /\ Notifying(Pops) \subseteq Notifying(Pops)'
    BY <2>1, <1>10, Zenon
  <2>3. ASSUME r.not_full # {}, ~r.closed
        PROVE  Capacity - Len(r.buffer) <= Cardinality(Awake("push")') + Cardinality(Notifying(Pops)')
    <3>0. Capacity - Len(q.buffer) <= Cardinality(Awake("push")) + Cardinality(Notifying(Pops))
      BY <2>3, <1>1, <1>3, Zenon DEF SlotsSeen
    <3>1. PICK n \in Nat : n = Capacity - Len(q.buffer)
      BY <1>0, Sizes, Zenon
    <3>2. n <= Cardinality(Awake("push")') + Cardinality(Notifying(Pops)') + 1
      BY <3>0, <3>1, <2>2, Subsets, EnoughLess, Zenon
    <3>3. Capacity - Len(r.buffer) = n - 1
      BY <3>1, <1>3, <1>7, CapacityAssumption, SMT
    <3>4. Cardinality(Awake("push")') \in Nat /\ Cardinality(Notifying(Pops)') \in Nat
      BY Subsets, CardNat, Zenon
    <3> QED
      BY <3>2, <3>3, <3>4, SMT
  <2> QED
    BY <2>3, Zenon DEF SlotsSeen
<1>13. CloseSeen'
  BY <1>3, Zenon DEF CloseSeen, Accepts
<1> QED
  BY <1>1, <1>3, <1>5, <1>8, <1>9, <1>11, <1>12, <1>13, Pack, Zenon
LEMMA PushReturns ==
  ASSUME QueueInv, NEW t \in Thread, AtLock(t, Pushes), ~Accepts(queue),
         thread[t].op = "try_push" \/ PushReady(queue),
         Return(t), UNCHANGED <<queue, inserted>>, UNCHANGED <<started, taken>>
  PROVE  QueueInv'
<1>0. queue \in Q
  BY Unpack, Zenon
<1>1. /\ TypeOK /\ queue \in Q /\ inserted \in Seq(1..MaxItems) /\ taken \in Seq(1..MaxItems)
      /\ inserted = taken \o queue.buffer /\ Engaged
      /\ queue' = queue /\ inserted' = inserted
      /\ started \in 0..MaxItems /\ started' = started /\ taken' = taken
  BY Unpack, Zenon DEF TypeOK
<1>2. /\ thread[t].at = "lock" /\ thread[t].op \in Pushes
      /\ t \notin queue.not_empty /\ t \notin queue.not_full
  BY Zenon DEF AtLock, Sleepers
<1>3. /\ thread' \in [Thread -> Activity] /\ thread'[t].at = "rest"
      /\ \A u \in Thread \ {t} : thread'[u] = thread[u]
  BY <1>1, Leaves, Zenon
<1>4. Engaged'
  <2>1. /\ \A u \in {t} \cap Thread : thread'[u].at # "lock"
        /\ queue'.not_empty \subseteq queue.not_empty \ {t} /\ queue'.not_full \subseteq queue.not_full \ {t}
        /\ queue.not_empty \subseteq Thread /\ queue.not_full \subseteq Thread
    BY <1>1, <1>2, <1>3, QueueType, Zenon
  <2> QED
    BY <2>1, <1>1, <1>3, StillEngaged, Zenon
<1>5. /\ \A op : Awake(op) \ {t} \subseteq Awake(op)'
      /\ \A ops : Notifying(ops) \ {t} \subseteq Notifying(ops)'
  BY <1>1, <1>3, AwakeKept, NotifyingKept, Zenon
<1>6. thread[t].op # "pop" /\ \A ops : t \notin Notifying(ops)
  BY <1>2, Outside, Zenon DEF Pushes
<1>7. \A ops : Notifying(ops) \subseteq Notifying(ops)'
  BY <1>5, <1>6, Zenon
<1>8. ItemsSeen'
  <2>1. Awake("pop") \subseteq Awake("pop")'
    BY <1>5, <1>6, Outside, Zenon
  <2> QED
    BY <2>1, <1>1, <1>7, ItemsKept, Zenon
<1>9. SlotsSeen'
  <2>1. CASE queue.closed
    BY <2>1, <1>1, Zenon DEF SlotsSeen
  <2>2. CASE ~queue.closed
    <3>1. thread[t].op # "push"
      BY <2>2, Zenon DEF PushReady, Accepts
    <3>2. Awake("push") \subseteq Awake("push")'
      BY <3>1, <1>5, Outside, Zenon
    <3> QED
      BY <3>2, <1>1, <1>7, SlotsKept, Zenon
  <2> QED
    BY <2>1, <2>2, Zenon
<1>10. CloseSeen'
  BY <1>1, <1>7, CloseKept, Zenon
<1> QED
  BY <1>1, <1>3, <1>4, <1>8, <1>9, <1>10, Pack, Zenon

LEMMA PushSleeps ==
  ASSUME QueueInv, NEW t \in Thread, AtLock(t, Pushes), thread[t].op = "push", ~PushReady(queue),
         queue' = Asleep(queue, "not_full", t),
         UNCHANGED <<thread, inserted>>, UNCHANGED <<started, taken>>
  PROVE  QueueInv'
<1>0. queue \in Q
  BY Unpack, Zenon
<1>1. /\ TypeOK /\ queue \in Q /\ inserted \in Seq(1..MaxItems) /\ taken \in Seq(1..MaxItems)
      /\ inserted = taken \o queue.buffer /\ Engaged /\ thread \in [Thread -> Activity]
      /\ thread' = thread /\ inserted' = inserted
      /\ started \in 0..MaxItems /\ started' = started /\ taken' = taken
  BY Unpack, Zenon DEF TypeOK
<1>2. thread[t].at = "lock"
  BY Zenon DEF AtLock
<1>3. /\ queue' \in Q /\ queue'.buffer = queue.buffer /\ queue'.closed = queue.closed
      /\ queue'.not_full = queue.not_full \cup {t} /\ queue'.not_empty = queue.not_empty
  BY <1>0, PusherSleeps, SMT
<1>4. Engaged'
  <2>1. \A u \in queue'.not_full : thread'[u].at = "lock" /\ thread'[u].op = "push"
    BY <1>1, <1>2, <1>3, Zenon DEF Engaged
  <2>2. \A u \in queue'.not_empty : thread'[u].at = "lock" /\ thread'[u].op = "pop"
    BY <1>1, <1>3, Zenon DEF Engaged
  <2>3. \A u \in Thread : thread'[u].at = "lock" /\ thread'[u].op \in Pushes => thread'[u].item \in 1..MaxItems
    BY <1>1, Zenon DEF Engaged
  <2> QED
    BY <2>1, <2>2, <2>3, Zenon DEF Engaged
<1>5. /\ \A op : Awake(op) \ {t} \subseteq Awake(op)'
      /\ \A ops : Notifying(ops) \subseteq Notifying(ops)'
  <2>1. \A op : Awake(op) \ {t} \subseteq Awake(op)'
    BY <1>1, <1>3, AwakeKept, Zenon DEF Sleepers
  <2>2. \A ops : Notifying(ops) \subseteq Notifying(ops)'
    BY <1>1, Zenon DEF Notifying
  <2> QED
    BY <2>1, <2>2, Zenon
<1>6. ItemsSeen'
  <2>1. Awake("pop") \subseteq Awake("pop")'
    BY <1>5, Outside, Zenon
  <2> QED
    BY <2>1, <1>3, <1>5, ItemsKept, Zenon
<1>7. ~queue.closed /\ Capacity - Len(queue.buffer) = 0
  <2>1. ~queue.closed /\ ~(Len(queue.buffer) < Capacity)
    BY Zenon DEF PushReady
  <2>2. Len(queue.buffer) \in 0..Capacity
    BY <1>1, QueueType, Zenon
  <2> QED
    BY <2>1, <2>2, CapacityAssumption, SMT
<1>8. SlotsSeen' /\ CloseSeen'
  BY <1>3, <1>7, NothingToSee, Zenon DEF CloseSeen
<1> QED
  BY <1>1, <1>3, <1>4, <1>6, <1>8, Pack, Zenon
LEMMA PopRemoves ==
  ASSUME QueueInv, NEW t \in Thread, AtLock(t, Pops), queue.buffer # << >>,
         queue' = Removed(queue), taken' = Append(taken, Head(queue.buffer)),
         ThenNotify(t), UNCHANGED <<started, inserted>>
  PROVE  QueueInv'
<1> DEFINE q == queue
           r == queue'
<1>0. q \in Q
  BY Unpack, Zenon
<1>1. /\ TypeOK /\ inserted \in Seq(1..MaxItems) /\ taken \in Seq(1..MaxItems)
      /\ inserted = taken \o q.buffer /\ Engaged /\ ItemsSeen /\ SlotsSeen
      /\ started \in 0..MaxItems /\ started' = started /\ inserted' = inserted
  BY Unpack, Zenon DEF TypeOK
<1>2. thread[t].at = "lock" /\ thread[t].op \in Pops /\ t \notin q.not_empty /\ t \notin q.not_full
  BY Zenon DEF AtLock, Sleepers
<1>3. /\ r \in Q /\ r.buffer = Tail(q.buffer) /\ Len(q.buffer) = Len(r.buffer) + 1
      /\ Head(q.buffer) \in 1..MaxItems
      /\ r.closed = q.closed /\ r.not_full = q.not_full /\ r.not_empty = q.not_empty
  BY <1>0, RemoveEffect, SMT
<1>4. /\ thread' \in [Thread -> Activity]
      /\ thread'[t].at = "notify" /\ thread'[t].op = thread[t].op
      /\ \A u \in Thread \ {t} : thread'[u] = thread[u]
  BY <1>1, Leaves, Zenon
<1>5. /\ q.buffer \in Seq(1..MaxItems) /\ Len(q.buffer) \in 0..Capacity
      /\ q.not_empty \in SUBSET Thread /\ q.not_full \in SUBSET Thread
  BY <1>0, QueueType, Zenon
<1>6. taken' \in Seq(1..MaxItems) /\ inserted' = taken' \o r.buffer
  <2>1. taken' \in Seq(1..MaxItems)
    BY <1>1, <1>3, SMT
  <2>2. Append(taken, Head(q.buffer)) \o Tail(q.buffer) = taken \o q.buffer
    BY <1>1, <1>5, PopFront, Zenon
  <2> QED
    BY <2>1, <2>2, <1>1, <1>3, Zenon
<1>7. Engaged'
  <2>1. /\ \A u \in {t} \cap Thread : thread'[u].at # "lock"
        /\ r.not_empty \subseteq q.not_empty \ {t} /\ r.not_full \subseteq q.not_full \ {t}
        /\ q.not_empty \subseteq Thread /\ q.not_full \subseteq Thread
    BY <1>2, <1>3, <1>4, <1>5, Zenon
  <2> QED
    BY <2>1, <1>1, <1>4, StillEngaged, Zenon
<1>8. /\ \A op : Awake(op) \ {t} \subseteq Awake(op)'
      /\ \A ops : Notifying(ops) \ {t} \subseteq Notifying(ops)'
  BY <1>3, <1>4, AwakeKept, NotifyingKept, Zenon DEF Sleepers
<1>9. thread[t].op # "push" /\ \A ops : t \notin Notifying(ops)
  BY <1>2, Outside, Zenon DEF Pops
<1>10. \A ops : Notifying(ops) \subseteq Notifying(ops)'
  BY <1>8, <1>9, Zenon
<1>11. ItemsSeen'
  <2>1. ASSUME r.not_empty # {}
        PROVE  Len(r.buffer) <= Cardinality(Awake("pop")') + Cardinality(Notifying(Pushes)')
    <3>0. Len(q.buffer) <= Cardinality(Awake("pop")) + Cardinality(Notifying(Pushes))
      BY <2>1, <1>1, <1>3, Zenon DEF ItemsSeen
    <3>1. PICK n \in Nat : n = Len(q.buffer)
      BY <1>0, Sizes, Zenon
    <3>2. n <= Cardinality(Awake("pop")') + Cardinality(Notifying(Pushes)') + 1
      BY <3>0, <3>1, <1>8, <1>10, Subsets, EnoughLess, Zenon
    <3>3. Cardinality(Awake("pop")') \in Nat /\ Cardinality(Notifying(Pushes)') \in Nat
      BY Subsets, CardNat, Zenon
    <3>4. Len(r.buffer) = n - 1
      BY <3>1, <1>3, <1>5, CapacityAssumption, SMT
    <3> QED
      BY <3>2, <3>3, <3>4, SMT
  <2> QED
    BY <2>1, Zenon DEF ItemsSeen
<1>12. SlotsSeen'
  <2>a. t \notin Awake("push") /\ t \in Notifying(Pops)'
    BY <1>2, <1>4, <1>9, Outside, Zenon DEF Notifying
  <2>1. Awake("push") \subseteq Awake("push")' /\ Notifying(Pops) \cup {t} \subseteq Notifying(Pops)'
    BY <2>a, <1>8, <1>10, Zenon
  <2>2. ASSUME r.not_full # {}, ~r.closed
        PROVE  Capacity - Len(r.buffer) <= Cardinality(Awake("push")') + Cardinality(Notifying(Pops)')
    <3>0. Capacity - Len(q.buffer) <= Cardinality(Awake("push")) + Cardinality(Notifying(Pops))
      BY <2>2, <1>1, <1>3, Zenon DEF SlotsSeen
    <3>1. PICK n \in Nat : n = Capacity - Len(q.buffer)
      BY <1>0, Sizes, Zenon
    <3>b. n <= Cardinality(Awake("push")) + Cardinality(Notifying(Pops)) /\ t \notin Notifying(Pops)
      BY <3>0, <3>1, <1>9, Zenon
    <3>2. n + 1 <= Cardinality(Awake("push")') + Cardinality(Notifying(Pops)')
      BY <3>b, <2>1, Subsets, EnoughMore, Zenon
    <3>3. Capacity - Len(r.buffer) = n + 1
      BY <3>1, <1>3, <1>5, CapacityAssumption, SMT
    <3> QED
      BY <3>2, <3>3, Zenon
  <2> QED
    BY <2>2, Zenon DEF SlotsSeen
<1>13. CloseSeen'
  BY <1>3, <1>10, CloseKept, Zenon
<1> QED
  BY <1>1, <1>3, <1>4, <1>6, <1>7, <1>11, <1>12, <1>13, Pack, Zenon

LEMMA PopReturns ==
  ASSUME QueueInv, NEW t \in Thread, AtLock(t, Pops), queue.buffer = << >>,
         Return(t), UNCHANGED <<queue, taken>>, UNCHANGED <<started, inserted>>
  PROVE  QueueInv'
<1>0. queue \in Q
  BY Unpack, Zenon
<1>1. /\ TypeOK /\ inserted \in Seq(1..MaxItems) /\ taken \in Seq(1..MaxItems)
      /\ inserted = taken \o queue.buffer /\ Engaged
      /\ queue' = queue /\ inserted' = inserted
      /\ started \in 0..MaxItems /\ started' = started /\ taken' = taken
  BY Unpack, Zenon DEF TypeOK
<1>2. /\ thread[t].at = "lock" /\ thread[t].op \in Pops
      /\ t \notin queue.not_empty /\ t \notin queue.not_full
  BY Zenon DEF AtLock, Sleepers
<1>3. /\ thread' \in [Thread -> Activity] /\ thread'[t].at = "rest"
      /\ \A u \in Thread \ {t} : thread'[u] = thread[u]
  BY <1>1, Leaves, Zenon
<1>4. Engaged'
  <2>1. /\ \A u \in {t} \cap Thread : thread'[u].at # "lock"
        /\ queue'.not_empty \subseteq queue.not_empty \ {t} /\ queue'.not_full \subseteq queue.not_full \ {t}
        /\ queue.not_empty \subseteq Thread /\ queue.not_full \subseteq Thread
    BY <1>0, <1>1, <1>2, <1>3, QueueType, Zenon
  <2> QED
    BY <2>1, <1>1, <1>3, StillEngaged, Zenon
<1>5. /\ \A op : Awake(op) \ {t} \subseteq Awake(op)'
      /\ \A ops : Notifying(ops) \ {t} \subseteq Notifying(ops)'
  BY <1>1, <1>3, AwakeKept, NotifyingKept, Zenon
<1>6. thread[t].op # "push" /\ \A ops : t \notin Notifying(ops)
  BY <1>2, Outside, Zenon DEF Pops
<1>7. \A ops : Notifying(ops) \subseteq Notifying(ops)'
  BY <1>5, <1>6, Zenon
<1>8. ItemsSeen'
  <2>1. Len(queue'.buffer) = 0
    BY <1>1, SMT
  <2> QED
    BY <2>1, NothingToSee, Zenon
<1>9. SlotsSeen'
  <2>1. Awake("push") \subseteq Awake("push")'
    BY <1>5, <1>6, Outside, Zenon
  <2> QED
    BY <2>1, <1>1, <1>7, SlotsKept, Zenon
<1>10. CloseSeen'
  BY <1>1, <1>7, CloseKept, Zenon
<1> QED
  BY <1>0, <1>1, <1>3, <1>4, <1>8, <1>9, <1>10, Pack, Zenon

LEMMA PopSleeps ==
  ASSUME QueueInv, NEW t \in Thread, AtLock(t, Pops), thread[t].op = "pop", ~PopReady(queue),
         queue' = Asleep(queue, "not_empty", t),
         UNCHANGED <<thread, taken>>, UNCHANGED <<started, inserted>>
  PROVE  QueueInv'
<1>0. queue \in Q
  BY Unpack, Zenon
<1>1. /\ TypeOK /\ inserted \in Seq(1..MaxItems) /\ taken \in Seq(1..MaxItems)
      /\ inserted = taken \o queue.buffer /\ Engaged /\ thread \in [Thread -> Activity]
      /\ thread' = thread /\ inserted' = inserted
      /\ started \in 0..MaxItems /\ started' = started /\ taken' = taken
  BY Unpack, Zenon DEF TypeOK
<1>2. thread[t].at = "lock"
  BY Zenon DEF AtLock
<1>3. /\ queue' \in Q /\ queue'.buffer = queue.buffer /\ queue'.closed = queue.closed
      /\ queue'.not_full = queue.not_full /\ queue'.not_empty = queue.not_empty \cup {t}
  BY <1>0, PopperSleeps, SMT
<1>4. Engaged'
  <2>1. \A u \in queue'.not_empty : thread'[u].at = "lock" /\ thread'[u].op = "pop"
    BY <1>1, <1>2, <1>3, Zenon DEF Engaged
  <2>2. \A u \in queue'.not_full : thread'[u].at = "lock" /\ thread'[u].op = "push"
    BY <1>1, <1>3, Zenon DEF Engaged
  <2>3. \A u \in Thread : thread'[u].at = "lock" /\ thread'[u].op \in Pushes => thread'[u].item \in 1..MaxItems
    BY <1>1, Zenon DEF Engaged
  <2> QED
    BY <2>1, <2>2, <2>3, Zenon DEF Engaged
<1>5. /\ \A op : Awake(op) \ {t} \subseteq Awake(op)'
      /\ \A ops : Notifying(ops) \subseteq Notifying(ops)'
  <2>1. \A op : Awake(op) \ {t} \subseteq Awake(op)'
    BY <1>1, <1>3, AwakeKept, Zenon DEF Sleepers
  <2>2. \A ops : Notifying(ops) \subseteq Notifying(ops)'
    BY <1>1, Zenon DEF Notifying
  <2> QED
    BY <2>1, <2>2, Zenon
<1>6. SlotsSeen'
  <2>1. Awake("push") \subseteq Awake("push")'
    BY <1>5, Outside, Zenon
  <2> QED
    BY <2>1, <1>3, <1>5, SlotsKept, Zenon
<1>7. ~queue.closed /\ queue.buffer = << >>
  BY Zenon DEF PopReady
<1>8. ItemsSeen' /\ CloseSeen'
  <2>1. Len(queue'.buffer) = 0
    BY <1>3, <1>7, SMT
  <2> QED
    BY <2>1, <1>3, <1>7, NothingToSee, Zenon DEF CloseSeen
<1> QED
  BY <1>1, <1>3, <1>4, <1>6, <1>8, Pack, Zenon
LEMMA CallStep ==
  ASSUME QueueInv, NEW t \in Thread, NEW op \in Operations, Call(t, op)
  PROVE  QueueInv'
<1> DEFINE item == IF op \in Pushes THEN started + 1 ELSE 0
<1>0. queue \in Q
  BY Unpack, Zenon
<1>1. /\ TypeOK /\ inserted \in Seq(1..MaxItems) /\ taken \in Seq(1..MaxItems)
      /\ inserted = taken \o queue.buffer /\ Engaged /\ started \in 0..MaxItems
  BY Unpack, Zenon DEF TypeOK
<1>2. /\ queue' = queue /\ inserted' = inserted /\ taken' = taken
      /\ thread[t] = Resting /\ thread' = [thread EXCEPT ![t] = Doing("lock", op, item)]
      /\ started' = (IF op \in Pushes THEN started + 1 ELSE started)
      /\ op \in Pushes => started < MaxItems
  BY Zenon DEF Call, Pushes
<1>3. started' \in 0..MaxItems /\ item \in 0..MaxItems /\ (op \in Pushes => item \in 1..MaxItems)
  <2>1. CASE op \in Pushes
    <3>1. started' = started + 1 /\ started < MaxItems
      BY <2>1, <1>2, Zenon
    <3> QED
      BY <2>1, <3>1, <1>1, ClientsAssumption, SMT
  <2>2. CASE op \notin Pushes
    <3>1. started' = started /\ item = 0
      BY <2>2, <1>2, Zenon
    <3> QED
      BY <2>2, <3>1, <1>1, ClientsAssumption, SMT
  <2> QED
    BY <2>1, <2>2, Zenon
<1> HIDE DEF item
<1>4. Doing("lock", op, item) \in Activity
  BY <1>3, SMT DEF Activity, Doing
<1>5. thread' \in [Thread -> Activity]
  BY <1>1, <1>2, <1>4, ThreadType, Zenon
<1>6. thread'[t] = Doing("lock", op, item) /\ \A u \in Thread \ {t} : thread'[u] = thread[u]
  BY <1>1, <1>2, OneMoves, Zenon
<1>7. thread'[t].op = op /\ thread'[t].item = item
  BY <1>6, SMT DEF Doing
<1>8. thread[t].at # "lock" /\ thread[t].at # "notify"
  BY <1>2, SMT DEF Resting, Doing
<1>9. t \notin queue.not_empty /\ t \notin queue.not_full
  BY <1>1, <1>8, Zenon DEF Engaged
<1>10. queue.not_empty \subseteq Thread /\ queue.not_full \subseteq Thread
  BY <1>0, QueueType, Zenon
<1>11. Engaged'
  <2>1. \A u \in queue'.not_empty : thread'[u].at = "lock" /\ thread'[u].op = "pop"
    BY <1>1, <1>2, <1>6, <1>9, <1>10, Zenon DEF Engaged
  <2>2. \A u \in queue'.not_full : thread'[u].at = "lock" /\ thread'[u].op = "push"
    BY <1>1, <1>2, <1>6, <1>9, <1>10, Zenon DEF Engaged
  <2>3. ASSUME NEW u \in Thread, thread'[u].at = "lock" /\ thread'[u].op \in Pushes
        PROVE  thread'[u].item \in 1..MaxItems
    <3>1. CASE u = t
      BY <2>3, <3>1, <1>3, <1>7, Zenon
    <3>2. CASE u # t
      BY <2>3, <3>2, <1>1, <1>6, Zenon DEF Engaged
    <3> QED
      BY <3>1, <3>2, Zenon
  <2> QED
    BY <2>1, <2>2, <2>3, Zenon DEF Engaged
<1>12. /\ \A o : Awake(o) \ {t} \subseteq Awake(o)'
       /\ \A ops : Notifying(ops) \ {t} \subseteq Notifying(ops)'
  BY <1>2, <1>6, AwakeKept, NotifyingKept, Zenon
<1>13. /\ \A o : Awake(o) \subseteq Awake(o)'
       /\ \A ops : Notifying(ops) \subseteq Notifying(ops)'
  <2>1. (\A o : t \notin Awake(o)) /\ (\A ops : t \notin Notifying(ops))
    BY <1>8, Outside, Zenon
  <2> QED
    BY <2>1, <1>12, Zenon
<1>14. ItemsSeen' /\ SlotsSeen' /\ CloseSeen'
  BY <1>2, <1>13, ItemsKept, SlotsKept, CloseKept, Zenon
<1> QED
  BY <1>0, <1>1, <1>2, <1>3, <1>5, <1>11, <1>14, Pack, Zenon

LEMMA CloseStep ==
  ASSUME QueueInv, NEW t \in Thread, Close(t)
  PROVE  QueueInv'
<1>0. queue \in Q
  BY Unpack, Zenon
<1>1. /\ TypeOK /\ inserted \in Seq(1..MaxItems) /\ taken \in Seq(1..MaxItems)
      /\ inserted = taken \o queue.buffer /\ Engaged /\ started \in 0..MaxItems
  BY Unpack, Zenon DEF TypeOK
<1>2. /\ thread[t].at = "lock" /\ thread[t].op = "close"
      /\ t \notin queue.not_empty /\ t \notin queue.not_full
      /\ queue' = Closed(queue) /\ ThenNotify(t)
      /\ started' = started /\ inserted' = inserted /\ taken' = taken
  BY Zenon DEF Close, AtLock, Sleepers
<1>3. /\ queue' \in Q /\ queue'.buffer = queue.buffer /\ queue'.closed = TRUE
      /\ queue'.not_full = queue.not_full /\ queue'.not_empty = queue.not_empty
  <2>1. queue' = Closed(queue)
    BY <1>2, Zenon
  <2> QED
    BY <1>0, <2>1, CloseEffect, Zenon
<1>4. /\ thread' \in [Thread -> Activity]
      /\ thread'[t].at = "notify" /\ thread'[t].op = thread[t].op
      /\ \A u \in Thread \ {t} : thread'[u] = thread[u]
  BY <1>1, <1>2, Leaves, Zenon
<1>5. Engaged'
  <2>1. /\ \A u \in {t} \cap Thread : thread'[u].at # "lock"
        /\ queue'.not_empty \subseteq queue.not_empty \ {t} /\ queue'.not_full \subseteq queue.not_full \ {t}
        /\ queue.not_empty \subseteq Thread /\ queue.not_full \subseteq Thread
    BY <1>0, <1>2, <1>3, <1>4, QueueType, Zenon
  <2> QED
    BY <2>1, <1>1, <1>4, StillEngaged, Zenon
<1>6. ItemsSeen'
  <2>1. Awake("pop") \ {t} \subseteq Awake("pop")' /\ Notifying(Pushes) \ {t} \subseteq Notifying(Pushes)'
    BY <1>3, <1>4, AwakeKept, NotifyingKept, Zenon DEF Sleepers
  <2>2. t \notin Awake("pop") /\ t \notin Notifying(Pushes)
    <3>1. thread[t].at # "notify" /\ thread[t].op # "pop"
      BY <1>2, Zenon
    <3> QED
      BY <3>1, Outside, Zenon
  <2>3. Awake("pop") \subseteq Awake("pop")' /\ Notifying(Pushes) \subseteq Notifying(Pushes)'
    BY <2>1, <2>2, Zenon
  <2> QED
    BY <2>3, <1>3, ItemsKept, Zenon
<1>7. SlotsSeen'
  BY <1>3, Zenon DEF SlotsSeen
<1>8. CloseSeen'
  <2>1. t \in Notifying({"close"})'
    BY <1>2, <1>4, Zenon DEF Notifying
  <2> QED
    BY <2>1, Zenon DEF CloseSeen
<1> QED
  BY <1>1, <1>2, <1>3, <1>4, <1>5, <1>6, <1>7, <1>8, Pack, Zenon
\* A notification of a push wakes a popper, and one of a pop wakes a pusher:
\* the one who notified is replaced by the one who was woken.
LEMMA NotifyPopper ==
  ASSUME QueueInv, NEW t \in Thread, thread[t].at = "notify", thread[t].op \in Pushes,
         queue' \in NotifyOne(queue, "not_empty"), Return(t), UNCHANGED <<started, inserted, taken>>
  PROVE  QueueInv'
<1>0. queue \in Q
  BY Unpack, Zenon
<1>1. /\ TypeOK /\ inserted \in Seq(1..MaxItems) /\ taken \in Seq(1..MaxItems)
      /\ inserted = taken \o queue.buffer /\ Engaged /\ ItemsSeen /\ started \in 0..MaxItems
      /\ started' = started /\ inserted' = inserted /\ taken' = taken
  BY Unpack, Zenon DEF TypeOK
<1>2. /\ queue' \in Q /\ queue'.buffer = queue.buffer /\ queue'.closed = queue.closed
      /\ queue'.not_full = queue.not_full
      /\ \/ queue.not_empty = {} /\ queue'.not_empty = {}
         \/ \E u \in queue.not_empty : queue'.not_empty = queue.not_empty \ {u}
  BY <1>0, PopperNotified, SMT
<1>3. queue'.not_empty \subseteq queue.not_empty
  BY <1>2, Zenon
<1>4. /\ thread' \in [Thread -> Activity] /\ thread'[t].at = "rest"
      /\ \A u \in Thread \ {t} : thread'[u] = thread[u]
  BY <1>1, Leaves, Zenon
<1>5. /\ t \notin queue.not_empty /\ t \notin queue.not_full
      /\ queue.not_empty \subseteq Thread /\ queue.not_full \subseteq Thread
  <2>1. t \notin queue.not_empty /\ t \notin queue.not_full
    BY <1>1, Zenon DEF Engaged
  <2> QED
    BY <2>1, <1>0, QueueType, Zenon
<1>6. Engaged'
  <2>1. /\ \A u \in {t} \cap Thread : thread'[u].at # "lock"
        /\ queue'.not_empty \subseteq queue.not_empty \ {t} /\ queue'.not_full \subseteq queue.not_full \ {t}
        /\ queue.not_empty \subseteq Thread /\ queue.not_full \subseteq Thread
    BY <1>2, <1>3, <1>4, <1>5, Zenon
  <2> QED
    BY <2>1, <1>1, <1>4, StillEngaged, Zenon
<1>7. /\ \A op : Awake(op) \ {t} \subseteq Awake(op)'
      /\ \A ops : Notifying(ops) \ {t} \subseteq Notifying(ops)'
  BY <1>2, <1>3, <1>4, AwakeKept, NotifyingKept, Zenon DEF Sleepers
<1>8. \A op : Awake(op) \subseteq Awake(op)'
  BY <1>7, Outside, Zenon
<1>9. ItemsSeen'
  <2>1. CASE queue'.not_empty = {}
    BY <2>1, Zenon DEF ItemsSeen
  <2>2. CASE queue'.not_empty # {}
    <3>1. PICK u \in queue.not_empty : queue'.not_empty = queue.not_empty \ {u}
      BY <2>2, <1>2, Zenon
    <3>2. u \in Thread /\ u # t /\ thread[u].at = "lock" /\ thread[u].op = "pop" /\ thread[u].op # "push"
      BY <3>1, <1>1, <1>5, Zenon DEF Engaged
    <3>3. u \notin queue'.not_full /\ u \notin queue'.not_empty
      BY <3>1, <3>2, <1>1, <1>2, Zenon DEF Engaged
    <3>4. u \notin Awake("pop") /\ u \in Awake("pop")'
      BY <3>1, <3>2, <3>3, <1>4, Zenon DEF Awake, AtLock, Sleepers
    <3>5. Awake("pop") \cup {u} \subseteq Awake("pop")'
      BY <3>4, <1>8, Zenon
    <3>6. Len(queue.buffer) <= Cardinality(Awake("pop")) + Cardinality(Notifying(Pushes))
      BY <3>1, <1>1, Zenon DEF ItemsSeen
    <3>7. PICK n \in Nat : n = Len(queue.buffer)
      BY <1>0, Sizes, Zenon
    <3>8. /\ n <= Cardinality(Awake("pop")) + Cardinality(Notifying(Pushes))
          /\ u \in Thread /\ u \notin Awake("pop")
          /\ Notifying(Pushes) \ {t} \subseteq Notifying(Pushes)'
      BY <3>2, <3>4, <3>6, <3>7, <1>7, Zenon
    <3>9. /\ Awake("pop") \in SUBSET Thread /\ Notifying(Pushes) \in SUBSET Thread
          /\ Awake("pop")' \in SUBSET Thread /\ Notifying(Pushes)' \in SUBSET Thread
      BY Subsets, Zenon
    <3>10. n <= Cardinality(Awake("pop")') + Cardinality(Notifying(Pushes)')
      BY <3>5, <3>8, <3>9, EnoughWoken, SMT
    <3> QED
      BY <3>7, <3>10, <1>2, Zenon DEF ItemsSeen
  <2> QED
    BY <2>1, <2>2, Zenon
<1>10. SlotsSeen' /\ CloseSeen'
  <2>1. t \notin Notifying(Pops) /\ t \notin Notifying({"close"})
    <3>1. thread[t].op \notin Pops /\ thread[t].op \notin {"close"}
      BY Zenon DEF Pushes, Pops
    <3> QED
      BY <3>1, Outside, Zenon
  <2>2. /\ Notifying(Pops) \subseteq Notifying(Pops)'
        /\ Notifying({"close"}) \subseteq Notifying({"close"})'
    BY <2>1, <1>7, Zenon
  <2> QED
    BY <2>2, <1>2, <1>3, <1>8, SlotsKept, CloseKept, Zenon
<1> QED
  BY <1>1, <1>2, <1>4, <1>6, <1>9, <1>10, Pack, Zenon

LEMMA NotifyPusher ==
  ASSUME QueueInv, NEW t \in Thread, thread[t].at = "notify", thread[t].op \in Pops,
         queue' \in NotifyOne(queue, "not_full"), Return(t), UNCHANGED <<started, inserted, taken>>
  PROVE  QueueInv'
<1>0. queue \in Q
  BY Unpack, Zenon
<1>1. /\ TypeOK /\ inserted \in Seq(1..MaxItems) /\ taken \in Seq(1..MaxItems)
      /\ inserted = taken \o queue.buffer /\ Engaged /\ SlotsSeen /\ started \in 0..MaxItems
      /\ started' = started /\ inserted' = inserted /\ taken' = taken
  BY Unpack, Zenon DEF TypeOK
<1>2. /\ queue' \in Q /\ queue'.buffer = queue.buffer /\ queue'.closed = queue.closed
      /\ queue'.not_empty = queue.not_empty
      /\ \/ queue.not_full = {} /\ queue'.not_full = {}
         \/ \E u \in queue.not_full : queue'.not_full = queue.not_full \ {u}
  BY <1>0, PusherNotified, SMT
<1>3. queue'.not_full \subseteq queue.not_full
  BY <1>2, Zenon
<1>4. /\ thread' \in [Thread -> Activity] /\ thread'[t].at = "rest"
      /\ \A u \in Thread \ {t} : thread'[u] = thread[u]
  BY <1>1, Leaves, Zenon
<1>5. /\ t \notin queue.not_empty /\ t \notin queue.not_full
      /\ queue.not_empty \subseteq Thread /\ queue.not_full \subseteq Thread
  <2>1. t \notin queue.not_empty /\ t \notin queue.not_full
    BY <1>1, Zenon DEF Engaged
  <2> QED
    BY <2>1, <1>0, QueueType, Zenon
<1>6. Engaged'
  <2>1. /\ \A u \in {t} \cap Thread : thread'[u].at # "lock"
        /\ queue'.not_empty \subseteq queue.not_empty \ {t} /\ queue'.not_full \subseteq queue.not_full \ {t}
        /\ queue.not_empty \subseteq Thread /\ queue.not_full \subseteq Thread
    BY <1>2, <1>3, <1>4, <1>5, Zenon
  <2> QED
    BY <2>1, <1>1, <1>4, StillEngaged, Zenon
<1>7. /\ \A op : Awake(op) \ {t} \subseteq Awake(op)'
      /\ \A ops : Notifying(ops) \ {t} \subseteq Notifying(ops)'
  BY <1>2, <1>3, <1>4, AwakeKept, NotifyingKept, Zenon DEF Sleepers
<1>8. \A op : Awake(op) \subseteq Awake(op)'
  BY <1>7, Outside, Zenon
<1>9. SlotsSeen'
  <2>1. CASE queue'.not_full = {} \/ queue'.closed
    BY <2>1, Zenon DEF SlotsSeen
  <2>2. CASE queue'.not_full # {} /\ ~queue'.closed
    <3>1. PICK u \in queue.not_full : queue'.not_full = queue.not_full \ {u}
      BY <2>2, <1>2, Zenon
    <3>2. u \in Thread /\ u # t /\ thread[u].at = "lock" /\ thread[u].op = "push" /\ thread[u].op # "pop"
      BY <3>1, <1>1, <1>5, Zenon DEF Engaged
    <3>3. u \notin queue'.not_full /\ u \notin queue'.not_empty
      BY <3>1, <3>2, <1>1, <1>2, Zenon DEF Engaged
    <3>4. u \notin Awake("push") /\ u \in Awake("push")'
      BY <3>1, <3>2, <3>3, <1>4, Zenon DEF Awake, AtLock, Sleepers
    <3>5. Awake("push") \cup {u} \subseteq Awake("push")'
      BY <3>4, <1>8, Zenon
    <3>6. Capacity - Len(queue.buffer) <= Cardinality(Awake("push")) + Cardinality(Notifying(Pops))
      BY <2>2, <3>1, <1>1, <1>2, Zenon DEF SlotsSeen
    <3>7. PICK n \in Nat : n = Capacity - Len(queue.buffer)
      BY <1>0, Sizes, Zenon
    <3>8. /\ n <= Cardinality(Awake("push")) + Cardinality(Notifying(Pops))
          /\ u \in Thread /\ u \notin Awake("push")
          /\ Notifying(Pops) \ {t} \subseteq Notifying(Pops)'
      BY <3>2, <3>4, <3>6, <3>7, <1>7, Zenon
    <3>9. /\ Awake("push") \in SUBSET Thread /\ Notifying(Pops) \in SUBSET Thread
          /\ Awake("push")' \in SUBSET Thread /\ Notifying(Pops)' \in SUBSET Thread
      BY Subsets, Zenon
    <3>10. n <= Cardinality(Awake("push")') + Cardinality(Notifying(Pops)')
      BY <3>5, <3>8, <3>9, EnoughWoken, SMT
    <3> QED
      BY <3>7, <3>10, <1>2, Zenon DEF SlotsSeen
  <2> QED
    BY <2>1, <2>2, Zenon
<1>10. ItemsSeen' /\ CloseSeen'
  <2>1. t \notin Notifying(Pushes) /\ t \notin Notifying({"close"})
    <3>1. thread[t].op \notin Pushes /\ thread[t].op \notin {"close"}
      BY Zenon DEF Pushes, Pops
    <3> QED
      BY <3>1, Outside, Zenon
  <2>2. /\ Notifying(Pushes) \subseteq Notifying(Pushes)'
        /\ Notifying({"close"}) \subseteq Notifying({"close"})'
    BY <2>1, <1>7, Zenon
  <2> QED
    BY <2>2, <1>2, <1>3, <1>8, ItemsKept, CloseKept, Zenon
<1> QED
  BY <1>1, <1>2, <1>4, <1>6, <1>9, <1>10, Pack, Zenon

LEMMA NotifyEverybody ==
  ASSUME QueueInv, NEW t \in Thread, thread[t].at = "notify",
         queue' = NotifyAll(queue), Return(t), UNCHANGED <<started, inserted, taken>>
  PROVE  QueueInv'
<1>0. queue \in Q
  BY Unpack, Zenon
<1>1. /\ TypeOK /\ inserted \in Seq(1..MaxItems) /\ taken \in Seq(1..MaxItems)
      /\ inserted = taken \o queue.buffer /\ Engaged /\ started \in 0..MaxItems
      /\ started' = started /\ inserted' = inserted /\ taken' = taken
  BY Unpack, Zenon DEF TypeOK
<1>2. /\ queue' \in Q /\ queue'.buffer = queue.buffer /\ queue'.closed = queue.closed
      /\ queue'.not_full = {} /\ queue'.not_empty = {}
  BY <1>0, NotifyAllEffect, SMT
<1>3. /\ thread' \in [Thread -> Activity] /\ thread'[t].at = "rest"
      /\ \A u \in Thread \ {t} : thread'[u] = thread[u]
  BY <1>1, Leaves, Zenon
<1>4. Engaged'
  <2>1. /\ \A u \in {t} \cap Thread : thread'[u].at # "lock"
        /\ queue'.not_empty \subseteq queue.not_empty \ {t} /\ queue'.not_full \subseteq queue.not_full \ {t}
        /\ queue.not_empty \subseteq Thread /\ queue.not_full \subseteq Thread
    BY <1>0, <1>2, <1>3, QueueType, Zenon
  <2> QED
    BY <2>1, <1>1, <1>3, StillEngaged, Zenon
<1>5. ItemsSeen' /\ SlotsSeen' /\ CloseSeen'
  BY <1>2, Zenon DEF ItemsSeen, SlotsSeen, CloseSeen, Sleepers
<1> QED
  BY <1>1, <1>2, <1>3, <1>4, <1>5, Pack, Zenon

LEMMA WakeupStep ==
  ASSUME QueueInv, Wakeup
  PROVE  QueueInv'
<1>0. queue \in Q
  BY Unpack, Zenon
<1>1. /\ TypeOK /\ inserted \in Seq(1..MaxItems) /\ taken \in Seq(1..MaxItems)
      /\ inserted = taken \o queue.buffer /\ Engaged /\ started \in 0..MaxItems
      /\ thread \in [Thread -> Activity]
  BY Unpack, Zenon DEF TypeOK
<1>2. queue' \in SpuriousWakeup(queue)
  BY Zenon DEF Wakeup
<1>3. thread' = thread /\ started' = started /\ inserted' = inserted /\ taken' = taken
  BY Zenon DEF Wakeup
<1>4. /\ queue' \in Q /\ queue'.buffer = queue.buffer /\ queue'.closed = queue.closed
      /\ queue'.not_full \subseteq queue.not_full /\ queue'.not_empty \subseteq queue.not_empty
  BY <1>0, <1>2, SpuriousEffect, SMT
<1>5. Engaged'
  BY <1>1, <1>3, <1>4, Zenon DEF Engaged
<1>6. /\ \A op : Awake(op) \subseteq Awake(op)'
      /\ \A ops : Notifying(ops) \subseteq Notifying(ops)'
  BY <1>3, <1>4, Zenon DEF Awake, AtLock, Notifying, Sleepers
<1>7. ItemsSeen' /\ SlotsSeen' /\ CloseSeen'
  BY <1>4, <1>6, ItemsKept, SlotsKept, CloseKept, Zenon
<1> QED
  BY <1>1, <1>3, <1>4, <1>5, <1>7, Pack, Zenon
-----------------------------------------------------------------------------
(* The theorems *)

LEMMA InitInv == Init => QueueInv
<1> SUFFICES ASSUME Init PROVE QueueInv
  OBVIOUS
<1>1. /\ queue = NewQueue /\ thread = [t \in Thread |-> Resting]
      /\ started = 0 /\ inserted = << >> /\ taken = << >>
  BY Zenon DEF Init
<1>2. /\ queue.buffer = << >> /\ queue.not_full = {} /\ queue.not_empty = {}
      /\ queue.closed = FALSE /\ queue \in Q
  BY <1>1, CapacityAssumption, SMT DEF NewQueue, Queue, Q, QueueOf
<1>3. Resting \in Activity /\ Resting.at = "rest"
  BY ClientsAssumption, SMT DEF Activity, Resting, Doing
<1>4. thread \in [Thread -> Activity] /\ \A t \in Thread : thread[t].at = "rest"
  BY <1>1, <1>3, Zenon
<1>5. /\ started \in 0..MaxItems /\ inserted \in Seq(1..MaxItems) /\ taken \in Seq(1..MaxItems)
  BY <1>1, ClientsAssumption, SMT
<1>6. inserted = taken \o queue.buffer
  BY <1>1, <1>2, SMT
<1>7. Fifo
  BY <1>2, <1>4, <1>5, <1>6, Zenon DEF Fifo, TypeOK, Q, Activity
<1>8. Engaged
  BY <1>2, <1>4, Zenon DEF Engaged
<1>9. NoLostWakeup
  BY <1>2, Zenon DEF NoLostWakeup, Sleepers
<1> QED
  BY <1>7, <1>8, <1>9, Zenon DEF QueueInv

LEMMA NextInv == QueueInv /\ [Next]_vars => QueueInv'
<1> SUFFICES ASSUME QueueInv, [Next]_vars PROVE QueueInv'
  OBVIOUS
<1>1. ASSUME NEW t \in Thread, NEW op \in Operations, Call(t, op) PROVE QueueInv'
  BY <1>1, CallStep, Zenon
<1>2. ASSUME NEW t \in Thread, Push(t) PROVE QueueInv'
  BY <1>2, PushInserts, PushReturns, PushSleeps, Zenon DEF Push, Pushes
<1>3. ASSUME NEW t \in Thread, Pop(t) PROVE QueueInv'
  BY <1>3, PopRemoves, PopReturns, PopSleeps, Zenon DEF Pop, Pops
<1>4. ASSUME NEW t \in Thread, Close(t) PROVE QueueInv'
  BY <1>4, CloseStep, Zenon
<1>5. ASSUME NEW t \in Thread, Notify(t) PROVE QueueInv'
  BY <1>5, NotifyPopper, NotifyPusher, NotifyEverybody, Zenon DEF Notify, Pushes, Pops
<1>6. CASE Wakeup
  BY <1>6, WakeupStep, Zenon
<1>7. CASE UNCHANGED vars
  BY <1>7, Zenon DEF vars, QueueInv, Fifo, TypeOK, Engaged, NoLostWakeup, Awake, Notifying, AtLock
<1> QED
  BY <1>1, <1>2, <1>3, <1>4, <1>5, <1>6, <1>7, Zenon DEF Next

\* The blocking queue hands out what was put in, in order, each item once, and
\* never holds more than its capacity, for any threads calling push, try_push,
\* pop, try_pop and close in any order (the buffer under the mutex).
THEOREM QueueIsFifo == Spec => []Fifo
<1>1. QueueInv => Fifo
  BY Zenon DEF QueueInv
<1> QED
  BY <1>1, InitInv, NextInv, PTL DEF Spec

\* Notifying after unlocking loses no wakeup: as long as somebody sleeps, there is
\* for every item (or free slot) a thread that is going to see it, and after
\* close() one that is going to wake everybody.
THEOREM WakeupsNotLost == Spec => []NoLostWakeup
<1>1. QueueInv => NoLostWakeup
  BY Zenon DEF QueueInv
<1> QED
  BY <1>1, InitInv, NextInv, PTL DEF Spec
=============================================================================
