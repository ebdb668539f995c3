---------------------------- MODULE QueueClients ----------------------------
(***************************************************************************)
(* One MPMCQueue used by any number of threads, each of which may call     *)
(* push, try_push, pop, try_pop and close in any order.                    *)
(*                                                                         *)
(* A call is at most three steps: enter (the caller picks an operation),   *)
(* the critical section (which may go to sleep and be repeated), and the   *)
(* notification that the code issues after it has unlocked the mutex.      *)
(***************************************************************************)
EXTENDS MPMCQueue, FiniteSets

CONSTANTS Thread,
          MaxItems    \* bound: pushes that may be started

ASSUME ClientsAssumption == IsFiniteSet(Thread) /\ MaxItems \in Nat

VARIABLES queue,     \* the queue
          thread,    \* what each thread is doing
          started,   \* items handed to push or try_push so far
          inserted,  \* history: items in the order they entered the queue
          taken      \* history: items in the order they left it

vars == <<queue, thread, started, inserted, taken>>

Pushes == {"push", "try_push"}
Pops == {"pop", "try_pop"}
Operations == Pushes \cup Pops \cup {"close"}
Doing(at, op, item) == [at |-> at, op |-> op, item |-> item]
Resting == Doing("rest", "none", 0)

\* Types, and the bound that push() and try_push() enforce: neither the buffer
\* nor highWatermark() ever exceeds the capacity.
TypeOK ==
  /\ queue \in QueueOf(1..MaxItems, Thread)
  /\ thread \in [Thread -> [at : {"rest", "lock", "notify"},
                            op : Operations \cup {"none"}, item : 0..MaxItems]]
  /\ started \in 0..MaxItems
  /\ inserted \in Seq(1..MaxItems) /\ taken \in Seq(1..MaxItems)

Init ==
  /\ queue = NewQueue /\ thread = [t \in Thread |-> Resting]
  /\ started = 0 /\ inserted = << >> /\ taken = << >>

Return(t) == thread' = [thread EXCEPT ![t] = Resting]
ThenNotify(t) == thread' = [thread EXCEPT ![t] = Doing("notify", @.op, @.item)]

\* A caller starts an operation.  Items are numbered as they are handed in.
Call(t, op) ==
  /\ thread[t] = Resting
  /\ op \in Pushes => started < MaxItems
  /\ started' = IF op \in Pushes THEN started + 1 ELSE started
  /\ thread' = [thread EXCEPT ![t] =
                  Doing("lock", op, IF op \in Pushes THEN started + 1 ELSE 0)]
  /\ UNCHANGED <<queue, inserted, taken>>

AtLock(t, ops) ==
  /\ thread[t].at = "lock" /\ thread[t].op \in ops
  /\ t \notin Sleepers(queue)

\* push() until it has inserted, found the queue closed, or gone to sleep;
\* try_push() in one go.
Push(t) ==
  /\ AtLock(t, Pushes)
  /\ \/ /\ Accepts(queue)
        /\ queue' = Inserted(queue, thread[t].item)
        /\ inserted' = Append(inserted, thread[t].item)
        /\ ThenNotify(t)
     \/ /\ ~Accepts(queue)
        /\ thread[t].op = "try_push" \/ PushReady(queue)
        /\ Return(t) /\ UNCHANGED <<queue, inserted>>
     \/ /\ thread[t].op = "push" /\ ~PushReady(queue)
        /\ queue' = Asleep(queue, "not_full", t)
        /\ UNCHANGED <<thread, inserted>>
  /\ UNCHANGED <<started, taken>>

\* pop() until it has an item, found the queue closed and drained, or gone to
\* sleep; try_pop() in one go.
Pop(t) ==
  /\ AtLock(t, Pops)
  /\ \/ /\ queue.buffer # << >>
        /\ queue' = Removed(queue)
        /\ taken' = Append(taken, Head(queue.buffer))
        /\ ThenNotify(t)
     \/ /\ queue.buffer = << >>
        /\ thread[t].op = "try_pop" \/ PopReady(queue)
        /\ Return(t) /\ UNCHANGED <<queue, taken>>
     \/ /\ thread[t].op = "pop" /\ ~PopReady(queue)
        /\ queue' = Asleep(queue, "not_empty", t)
        /\ UNCHANGED <<thread, taken>>
  /\ UNCHANGED <<started, inserted>>

Close(t) ==
  /\ AtLock(t, {"close"})
  /\ queue' = Closed(queue)
  /\ ThenNotify(t)
  /\ UNCHANGED <<started, inserted, taken>>

\* The notification at the end of an operation that changed the queue.
Notify(t) ==
  /\ thread[t].at = "notify"
  /\ \/ thread[t].op \in Pushes /\ queue' \in NotifyOne(queue, "not_empty")
     \/ thread[t].op \in Pops /\ queue' \in NotifyOne(queue, "not_full")
     \/ thread[t].op = "close" /\ queue' = NotifyAll(queue)
  /\ Return(t)
  /\ UNCHANGED <<started, inserted, taken>>

Wakeup ==
  /\ queue' \in SpuriousWakeup(queue)
  /\ UNCHANGED <<thread, started, inserted, taken>>

Next ==
  \/ \E t \in Thread : \/ \E op \in Operations : Call(t, op)
                       \/ Push(t) \/ Pop(t) \/ Close(t) \/ Notify(t)
  \/ Wakeup

Spec == Init /\ [][Next]_vars

\* A thread inside an operation runs on unless it is asleep; nobody has to
\* start an operation, and no sleeper may count on a spurious wakeup.
FairSpec ==
  Spec /\ \A t \in Thread : WF_vars(Push(t) \/ Pop(t) \/ Close(t) \/ Notify(t))
-----------------------------------------------------------------------------
\* Items leave in the order they entered, none twice and none lost, whichever
\* threads push and pop (the deque of mpmc_queue.hpp under one mutex), and the
\* buffer and highWatermark() stay within the capacity (TypeOK).
Fifo == TypeOK /\ inserted = taken \o queue.buffer

\* No lost wakeup.  As notifications are issued outside the lock, a thread may
\* sleep on not_empty although there is an item; but then there is, for every
\* item, a thread that is going to look at it: one that is about to notify, or
\* one that is awake inside pop().  The same for free slots and not_full.
Awake(op) == {t \in Thread : AtLock(t, {op})}
Notifying(ops) == {t \in Thread : thread[t].at = "notify" /\ thread[t].op \in ops}

NoLostWakeup ==
  /\ queue.not_empty # {} =>
       Len(queue.buffer) <= Cardinality(Awake("pop"))
                            + Cardinality(Notifying(Pushes))
  /\ queue.not_full # {} /\ ~queue.closed =>
       Capacity - Len(queue.buffer) <= Cardinality(Awake("push"))
                                       + Cardinality(Notifying(Pops))
  /\ queue.closed /\ Sleepers(queue) # {} => Notifying({"close"}) # {}

\* A thread that sleeps while there is something for it to do wakes up: on
\* not_empty with an item or after close(), on not_full with a free slot or
\* after close().
SleepersAreWoken ==
  \A t \in Thread :
    /\ t \in queue.not_empty /\ PopReady(queue) ~> t \notin queue.not_empty \/ ~PopReady(queue)
    /\ t \in queue.not_full /\ PushReady(queue) ~> t \notin queue.not_full \/ ~PushReady(queue)
=============================================================================
