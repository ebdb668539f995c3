---------------------- MODULE PartitionedEngineProofs ----------------------
(***************************************************************************)
(* The partitioned engine, for any number of clients, shards, symbols and  *)
(* commands: order, the count of pending commands, honest futures, a       *)
(* shutdown that drains and logs without a gap.  The steps of an owner     *)
(* that move a command keep the invariant of PartitionedEngineInvariant,   *)
(* which is therefore one of the engine, and the theorems follow from it.  *)
(***************************************************************************)
EXTENDS PartitionedEngineInvariant

\* A leaf that names no prover is tried with Zenon.
USE Zenon

-----------------------------------------------------------------------------
(* Steps of an owner that take, apply, record or complete a command *)

OwnerFrame(s) ==
  /\ client' = client /\ UNCHANGED <<config, idle, history>>
  /\ owner' \in [Shard -> OwnerRecord] /\ \A r \in Shard : r # s => owner'[r] = owner[r]
  /\ owner[s].at \notin {"off", "exited"} /\ owner'[s].at \notin {"off", "exited"}

LEMMA OwnerAlone ==
  ASSUME EngineInv, NEW s \in Shard, OwnerFrame(s), queue' \in [Shard -> Q],
         \A r \in Shard : r # s => queue'[r] = queue[r], pending' \in Nat, DataOK'
  PROVE  TypeOK' /\ Kept' /\ Rejects' /\ Stopping'
<1>0. TypeOK /\ Moving /\ Stopping
  BY Parts
<1>1. TypeOK'
  <2>1. /\ client \in [Client -> ClientRecord] /\ idle \subseteq Client /\ accepting \in BOOLEAN
        /\ phase \in {"constructing", "unwinding", "failed", "running"}
    BY <1>0, TypeData, Types
  <2> QED
    BY <2>1, TypeStep DEF OwnerFrame, config
<1>2. client' = client /\ phase' = phase /\ arrivals' = arrivals /\ returned' = returned
  BY DEF OwnerFrame, config, history
<1>3. Kept'
  <2>1. \A c \in Client : client'[c].at \in Sent =>
           client[c].at \in Sent /\ client'[c].command = client[c].command
    BY <1>2
  <2>2. \A c \in Client : \A k \in client'[c].debt : k \in client[c].debt \/ k \in returned
    BY <1>2
  <2> QED
    BY <1>0, <1>2, <2>1, <2>2, KeptFrame DEF Moving
<1>4. Rejects'
  BY <1>0, <1>2 DEF Moving, Rejects
<1>5. Stopping'
  <2>1. /\ \A r \in Shard : owner'[r].at = "off" => owner[r].at = "off"
        /\ \A r \in Shard : owner'[r].at = "exited" <=> owner[r].at = "exited"
    BY DEF OwnerFrame
  <2>2. \A r \in Shard : owner[r].at = "exited" /\ queue[r].closed /\ queue[r].buffer = << >>
                         => queue'[r].closed /\ queue'[r].buffer = << >>
    BY DEF OwnerFrame
  <2> QED
    BY <1>0, <1>2, <2>1, <2>2, StoppingFrame
<1> QED
  BY <1>1, <1>3, <1>4, <1>5

LEMMA SameUnique ==
  ASSUME Unique, UNCHANGED <<client, promise, arrivals>>
  PROVE  Unique'
<1>1. \A c \in Client : client'[c].at \in Unsent =>
        client[c].at \in Unsent /\ client'[c].command = client[c].command
        /\ client'[c].call = client[c].call
  OBVIOUS
<1> QED
  BY <1>1, UniqueFrame

\* The owner has taken the first command of its queue.
TookFirst(s, k) ==
  /\ queue' \in [Shard -> Q] /\ \A r \in Shard : r # s => queue'[r] = queue[r]
  /\ Len(queue[s].buffer) >= 1 /\ queue[s].buffer[1] = k
  /\ Len(queue'[s].buffer) = Len(queue[s].buffer) - 1
  /\ \A i \in 1..(Len(queue[s].buffer) - 1) : queue'[s].buffer[i] = queue[s].buffer[i + 1]
  /\ DOMAIN queue'[s].buffer = 1..(Len(queue[s].buffer) - 1)
  /\ owner[s].at = "pop" /\ owner'[s].at = "popped" /\ owner'[s].command = k
  /\ OwnerFrame(s) /\ UNCHANGED <<pending, promise, results>>

LEMMA OwnType ==
  ASSUME NEW at \in OwnerState, NEW command \in Command \cup {NoCommand},
         NEW accepted \in BOOLEAN, NEW trades \in Seq(Nat), NEW recorded \in Nat
  PROVE  /\ Owning(at, command, accepted, trades, recorded) \in OwnerRecord
         /\ Owning(at, command, accepted, trades, recorded).at = at
         /\ Owning(at, command, accepted, trades, recorded).command = command
         /\ Owning(at, command, accepted, trades, recorded).accepted = accepted
         /\ Owning(at, command, accepted, trades, recorded).trades = trades
         /\ Owning(at, command, accepted, trades, recorded).recorded = recorded
BY SMT DEF Owning, OwnerRecord

LEMMA TailIs ==
  \A seq \in Seq(Command) : seq # << >> =>
    /\ Len(seq) >= 1 /\ Len(seq) \in Nat /\ seq[1] = Head(seq) /\ Head(seq) \in Command
    /\ Len(Tail(seq)) = Len(seq) - 1 /\ DOMAIN Tail(seq) = 1..(Len(seq) - 1)
    /\ \A i \in 1..(Len(seq) - 1) : Tail(seq)[i] = seq[i + 1]
BY SMT

LEMMA Removal ==
  ASSUME NEW q \in Q, q.buffer # << >>
  PROVE  Removed(q) \in Q /\ Removed(q).buffer = Tail(q.buffer) /\ q.buffer \in Seq(Command)
<1>1. /\ q.buffer \in Seq(Command) /\ Len(q.buffer) <= Capacity
      /\ q.high_watermark \in 0..Capacity /\ q.closed \in BOOLEAN
      /\ q.not_full \subseteq Client \cup {"owner"} /\ q.not_empty \subseteq Client \cup {"owner"}
  BY SMT DEF Q, QueueOf
<1>2. Tail(q.buffer) \in Seq(Command) /\ Len(Tail(q.buffer)) <= Capacity
  <2>1. \A seq \in Seq(Command) : seq # << >> /\ Len(seq) <= Capacity =>
          Tail(seq) \in Seq(Command) /\ Len(Tail(seq)) <= Capacity
    BY CapacityAssumption, SMT
  <2> QED
    BY <1>1, <2>1
<1>3. PICK rest : rest = Tail(q.buffer)
  OBVIOUS
<1>4. Removed(q) = Queue(rest, q.high_watermark, q.closed, q.not_full, q.not_empty)
  BY <1>3 DEF Removed
<1>5. rest \in Seq(Command) /\ Len(rest) <= Capacity
  BY <1>2, <1>3
<1>6. Removed(q) \in Q /\ Removed(q).buffer = rest
  BY <1>1, <1>4, <1>5, SMT DEF Queue, Q, QueueOf
<1> QED
  BY <1>1, <1>3, <1>6

LEMMA TakeEffect ==
  ASSUME EngineInv, NEW s \in Shard, owner[s].at = "pop", queue[s].buffer # << >>,
         queue' = [queue EXCEPT ![s] = Removed(queue[s])],
         owner' = [owner EXCEPT ![s] = Owning("popped", Head(queue[s].buffer), FALSE, << >>, 0)],
         UNCHANGED <<config, pending, client, idle, promise, results, history>>
  PROVE  Head(queue[s].buffer) \in Command /\ TookFirst(s, Head(queue[s].buffer))
<1>0. TypeOK /\ queue[s] \in Q
  BY TypeOf, Types
<1>1. /\ Removed(queue[s]) \in Q /\ Removed(queue[s]).buffer = Tail(queue[s].buffer)
      /\ queue[s].buffer \in Seq(Command)
  BY <1>0, Removal
<1>2. /\ queue' \in [Shard -> Q] /\ queue'[s] = Removed(queue[s])
      /\ \A t \in Shard : t # s => queue'[t] = queue[t]
  BY <1>0, <1>1, QueueSet
<1>3. PICK seq \in Seq(Command) : seq = queue[s].buffer
  BY <1>1
<1>4. /\ Len(seq) >= 1 /\ Len(seq) \in Nat /\ seq[1] = Head(seq) /\ Head(seq) \in Command
      /\ Len(Tail(seq)) = Len(seq) - 1 /\ DOMAIN Tail(seq) = 1..(Len(seq) - 1)
      /\ \A i \in 1..(Len(seq) - 1) : Tail(seq)[i] = seq[i + 1]
  BY <1>3, TailIs
<1>5. queue'[s].buffer = Tail(seq)
  BY <1>1, <1>2, <1>3
<1>6. PICK k \in Command : k = Head(seq)
  BY <1>4
<1>7. /\ owner' \in [Shard -> OwnerRecord] /\ owner'[s] = Owning("popped", k, FALSE, << >>, 0)
      /\ \A t \in Shard : t # s => owner'[t] = owner[t]
  <2>1. Owning("popped", k, FALSE, << >>, 0) \in OwnerRecord
    <3>1. "popped" \in OwnerState /\ << >> \in Seq(Nat) /\ 0 \in Nat
      BY SMT DEF OwnerState
    <3> QED
      BY <3>1, OwnType
  <2>2. owner' = [owner EXCEPT ![s] = Owning("popped", k, FALSE, << >>, 0)]
    BY <1>3, <1>6
  <2> QED
    BY <1>0, <2>1, <2>2, OwnerSet
<1>8. owner'[s].at = "popped" /\ owner'[s].command = k
  BY <1>7, SMT DEF Owning
<1>9. OwnerFrame(s)
  <2>1. "pop" \notin {"off", "exited"} /\ "popped" \notin {"off", "exited"}
    BY SMT
  <2> QED
    BY <1>7, <1>8, <2>1 DEF OwnerFrame
<1>10. TookFirst(s, k)
  <2>1. Len(queue[s].buffer) >= 1 /\ queue[s].buffer[1] = k
    BY <1>3, <1>4, <1>6
  <2>2. /\ Len(queue'[s].buffer) = Len(queue[s].buffer) - 1
        /\ DOMAIN queue'[s].buffer = 1..(Len(queue[s].buffer) - 1)
    BY <1>3, <1>4, <1>5
  <2>3. \A i \in 1..(Len(queue[s].buffer) - 1) : queue'[s].buffer[i] = queue[s].buffer[i + 1]
    BY <1>3, <1>4, <1>5
  <2> QED
    BY <1>2, <1>8, <1>9, <2>1, <2>2, <2>3 DEF TookFirst
<1> QED
  BY <1>3, <1>6, <1>10

LEMMA ProjectedSame ==
  ASSUME Projected, arrivals' = arrivals, engines' = engines,
         \A r \in Shard : AppliedBy(r)' = AppliedBy(r)
  PROVE  Projected'
<1> SUFFICES ASSUME NEW symbol \in Symbol
             PROVE  Projects(engines[symbol].applied, arrivals[ShardOf[symbol]],
                             AppliedBy(ShardOf[symbol]), symbol)'
  BY DEF Projected
<1>1. Projects(engines[symbol].applied, arrivals[ShardOf[symbol]], AppliedBy(ShardOf[symbol]), symbol)
  BY DEF Projected
<1>2. ShardOf[symbol] \in Shard
  BY PartitionAssumption
<1>3. AppliedBy(ShardOf[symbol])' = AppliedBy(ShardOf[symbol])
  BY <1>2
<1>4. Projects(engines'[symbol].applied, arrivals'[ShardOf[symbol]],
               AppliedBy(ShardOf[symbol])', symbol)
  BY <1>1, <1>3
<1> QED
  BY <1>4 DEF Projects

LEMMA PromisesSame ==
  ASSUME Promises, arrivals' = arrivals, promise' = promise,
         \A r \in Shard : Settled(r)' = Settled(r)
  PROVE  Promises'
<1>1. ASSUME NEW s \in Shard, NEW i \in 1..Settled(s)'
      PROVE  promise'[arrivals'[s][i].id] \in {"detached", "executed"}
  BY DEF Promises
<1>2. ASSUME NEW s \in Shard, NEW i \in DOMAIN arrivals'[s], i > Settled(s)'
      PROVE  promise'[arrivals'[s][i].id] \in {"detached", "unset"}
  BY <1>2 DEF Promises
<1> QED
  BY <1>1, <1>2 DEF Promises

LEMMA TakeStep ==
  ASSUME EngineInv, NEW s \in Shard, NEW k \in Command, TookFirst(s, k) PROVE EngineInv'
<1>0. TypeOK /\ Moving /\ Order
  BY Parts DEF Moving
<1>1. /\ queue' \in [Shard -> Q] /\ \A r \in Shard : r # s => queue'[r] = queue[r]
      /\ owner[s].at = "pop" /\ owner'[s].at = "popped" /\ owner'[s].command = k
      /\ OwnerFrame(s) /\ UNCHANGED <<pending, promise, results>>
  BY DEF TookFirst
<1>2. /\ arrivals' = arrivals /\ client' = client /\ promise' = promise /\ engines' = engines
      /\ trade_log' = trade_log /\ pending' = pending
      /\ \A r \in Shard : r # s => owner'[r] = owner[r]
  BY <1>1 DEF OwnerFrame, history, results
<1>3. PICK a \in Nat, b \in Nat : a = Len(arrivals[s]) /\ b = Len(queue[s].buffer)
  BY <1>0, Places
<1>4. /\ b >= 1 /\ queue[s].buffer[1] = k /\ Len(queue'[s].buffer) = b - 1
      /\ \A i \in 1..(b - 1) : queue'[s].buffer[i] = queue[s].buffer[i + 1]
      /\ DOMAIN queue'[s].buffer = 1..(b - 1)
  BY <1>3 DEF TookFirst
<1>5. /\ b <= a /\ Taken(s) = a - b /\ Taken(s)' = a - (b - 1) /\ DOMAIN queue[s].buffer = 1..b
      /\ \A i \in 1..b : queue[s].buffer[i] = arrivals[s][(a - b) + i]
  <2>1. Taken(s) = a - b /\ Taken(s)' = a - (b - 1)
    BY <1>2, <1>3, <1>4 DEF Taken
  <2>2. DOMAIN queue[s].buffer = 1..b
    BY <1>0, <1>3, Places
  <2> QED
    BY <1>0, <1>3, <2>1, <2>2 DEF Order
<1>6. /\ ~Open(s) /\ ~Holds(s) /\ ~Busy(s) /\ Open(s)' /\ Holds(s)' /\ Busy(s)'
  BY <1>1, SMT DEF Open, Holds, Busy
<1>7. \A r \in Shard : Settled(r)' = Settled(r) /\ AppliedBy(r)' = AppliedBy(r)
  <2>1. ASSUME NEW r \in Shard, r # s PROVE Settled(r)' = Settled(r) /\ AppliedBy(r)' = AppliedBy(r)
    <3>1. queue'[r] = queue[r] /\ owner'[r] = owner[r] /\ arrivals'[r] = arrivals[r]
      BY <1>1, <1>2, <2>1
    <3> QED
      BY <3>1 DEF Settled, AppliedBy, Taken, Open, Holds
  <2>2. Settled(s)' = Settled(s) /\ AppliedBy(s)' = AppliedBy(s)
    <3>1. Settled(s) = (a - b) - 0 /\ AppliedBy(s) = (a - b) - 0
      BY <1>5, <1>6, Counts
    <3>2. Settled(s)' = (a - (b - 1)) - 1 /\ AppliedBy(s)' = (a - (b - 1)) - 1
      BY <1>5, <1>6, Counts
    <3>3. (a - (b - 1)) - 1 = (a - b) - 0
      BY SMT
    <3> QED
      BY <3>1, <3>2, <3>3
  <2> QED
    BY <2>1, <2>2
<1>8. TypeOK' /\ Kept' /\ Rejects' /\ Stopping'
  <2>1. DataOK'
    BY <1>0, <1>1, TypeData, DataSame DEF OwnerFrame
  <2>2. pending' \in Nat
    BY <1>0, <1>2, TypeData
  <2> QED
    BY <1>1, <2>1, <2>2, OwnerAlone
<1>9. Unique' /\ NeverTwice'
  BY <1>0, <1>2, SameUnique DEF Moving, NeverTwice
<1>10. Projected' /\ Promises'
  BY <1>0, <1>2, <1>7, ProjectedSame, PromisesSame DEF Moving
<1>11. Logged'
  <2>1. \A r \in Shard : owner'[r].at = "record" <=> owner[r].at = "record"
    BY <1>1, <1>2
  <2>2. \A r \in Shard : owner[r].at = "record" => owner'[r] = owner[r]
    BY <1>1, <1>2
  <2> QED
    BY <1>0, <1>2, <2>1, <2>2, LoggedFrame DEF Moving
<1>12. Order'
  <2> SUFFICES ASSUME NEW r \in Shard
               PROVE  /\ Len(queue'[r].buffer) <= Len(arrivals'[r])
                      /\ \A i \in DOMAIN queue'[r].buffer :
                            queue'[r].buffer[i] = arrivals'[r][Taken(r)' + i]
                      /\ Busy(r)' => Taken(r)' >= 1 /\ arrivals'[r][Taken(r)'] = owner'[r].command
                      /\ \A i \in DOMAIN arrivals'[r] : ShardOf[arrivals'[r][i].symbol] = r
    BY DEF Order
  <2>0. /\ Len(queue[r].buffer) <= Len(arrivals[r])
        /\ \A i \in DOMAIN queue[r].buffer : queue[r].buffer[i] = arrivals[r][Taken(r) + i]
        /\ Busy(r) => Taken(r) >= 1 /\ arrivals[r][Taken(r)] = owner[r].command
        /\ \A i \in DOMAIN arrivals[r] : ShardOf[arrivals[r][i].symbol] = r
    BY <1>0 DEF Order
  <2>1. CASE r # s
    <3>1. queue'[r] = queue[r] /\ owner'[r] = owner[r] /\ arrivals'[r] = arrivals[r]
      BY <1>1, <1>2, <2>1
    <3>2. Taken(r)' = Taken(r) /\ (Busy(r)' <=> Busy(r))
      BY <3>1 DEF Taken, Busy
    <3> QED
      BY <2>0, <3>1, <3>2
  <2>2. CASE r = s
    <3>1. b - 1 <= a /\ a - (b - 1) >= 1 /\ a - (b - 1) = (a - b) + 1
      BY <1>4, <1>5, SMT
    <3>2. Len(queue'[r].buffer) <= Len(arrivals'[r])
      BY <1>2, <1>3, <1>4, <2>2, <3>1
    <3>3. ASSUME NEW i \in 1..(b - 1) PROVE queue'[s].buffer[i] = arrivals[s][(a - (b - 1)) + i]
      <4>1. i + 1 \in 1..b /\ (a - b) + (i + 1) = (a - (b - 1)) + i
        BY SMT
      <4>2. queue'[s].buffer[i] = queue[s].buffer[i + 1]
        BY <1>4
      <4>3. queue[s].buffer[i + 1] = arrivals[s][(a - b) + (i + 1)]
        BY <1>5, <4>1
      <4> QED
        BY <4>1, <4>2, <4>3
    <3>4. arrivals[s][a - (b - 1)] = k
      <4>1. 1 \in 1..b
        BY <1>4, SMT
      <4>2. queue[s].buffer[1] = arrivals[s][(a - b) + 1]
        BY <1>5, <4>1
      <4> QED
        BY <1>4, <3>1, <4>2
    <3> QED
      BY <1>1, <1>2, <1>4, <1>5, <2>0, <2>2, <3>1, <3>2, <3>3, <3>4
  <2> QED
    BY <2>1, <2>2
<1>13. Counted'
  <2>1. \A x : InQueue(x)' => InQueue(x)
    <3> SUFFICES ASSUME NEW x, NEW r \in Shard, NEW i \in DOMAIN queue'[r].buffer, queue'[r].buffer[i] = x
                 PROVE  InQueue(x)
      BY DEF InQueue
    <3>1. CASE r # s
      <4>1. queue'[r] = queue[r]
        BY <1>1, <3>1
      <4> QED
        BY <4>1 DEF InQueue
    <3>2. CASE r = s
      <4>1. i \in 1..(b - 1)
        BY <1>4, <3>2
      <4>2. i + 1 \in 1..b
        BY <4>1, SMT
      <4>3. queue[s].buffer[i + 1] = x /\ i + 1 \in DOMAIN queue[s].buffer
        BY <1>4, <1>5, <3>2, <4>1, <4>2
      <4> QED
        BY <4>3 DEF InQueue
    <3> QED
      BY <3>1, <3>2
  <2>2. \A x : InQueue(x) => InQueue(x)' \/ x = k
    <3> SUFFICES ASSUME NEW x, NEW r \in Shard, NEW i \in DOMAIN queue[r].buffer, queue[r].buffer[i] = x
                 PROVE  InQueue(x)' \/ x = k
      BY DEF InQueue
    <3>1. CASE r # s
      <4>1. queue'[r] = queue[r]
        BY <1>1, <3>1
      <4> QED
        BY <4>1 DEF InQueue
    <3>2. CASE r = s /\ i = 1
      BY <1>4, <3>2
    <3>3. CASE r = s /\ i # 1
      <4>1. i \in 1..b
        BY <1>5, <3>3
      <4>2. i - 1 \in 1..(b - 1) /\ (i - 1) + 1 = i
        BY <3>3, <4>1, SMT
      <4>3. queue'[s].buffer[i - 1] = x /\ i - 1 \in DOMAIN queue'[s].buffer
        BY <1>4, <3>3, <4>2
      <4> QED
        BY <4>3 DEF InQueue
    <3> QED
      BY <3>1, <3>2, <3>3
  <2>3. InQueue(k)
    <3>1. 1 \in DOMAIN queue[s].buffer
      BY <1>4, <1>5, SMT
    <3> QED
      BY <1>4, <3>1 DEF InQueue
  <2>4. \A x : WithOwner(x)' <=> WithOwner(x) \/ x = k
    <3>1. \A r \in Shard : r # s => (Busy(r)' <=> Busy(r))
      BY <1>2 DEF Busy
    <3> QED
      BY <1>1, <1>2, <1>6, <3>1 DEF WithOwner
  <2>5. \A x : WithClient(x)' <=> WithClient(x)
    BY <1>2 DEF WithClient
  <2>6. OnTheWay' = OnTheWay
    BY <2>1, <2>2, <2>3, <2>4, <2>5 DEF OnTheWay
  <2> QED
    BY <1>0, <1>2, <2>6 DEF Counted, Moving
<1> QED
  BY <1>8, <1>9, <1>10, <1>11, <1>12, <1>13 DEF EngineInv

LEMMA OwnerPopStep ==
  ASSUME EngineInv, NEW s \in Shard, OwnerPop(s) PROVE EngineInv'
<1>0. owner[s].at = "pop" /\ UNCHANGED <<config, pending, client, idle, promise, results, history>>
  BY DEF OwnerPop
<1>1. CASE /\ queue[s].buffer # << >> /\ queue' = [queue EXCEPT ![s] = Removed(queue[s])]
           /\ owner' = [owner EXCEPT ![s] = Owning("popped", Head(queue[s].buffer), FALSE, << >>, 0)]
  BY <1>0, <1>1, TakeEffect, TakeStep
<1>2. CASE queue[s].buffer = << >> /\ PopReady(queue[s]) /\ OwnerGoto(s, "exited") /\ UNCHANGED queue
  BY <1>0, <1>2, OwnerExitStep
<1>3. CASE queue' = [queue EXCEPT ![s] = Asleep(queue[s], "not_empty", "owner")] /\ UNCHANGED owner
  BY <1>0, <1>3, OwnerSleepStep
<1> QED
  BY <1>1, <1>2, <1>3 DEF OwnerPop

LEMMA Alone ==
  ASSUME EngineInv, NEW s \in Shard, Busy(s)
  PROVE  /\ ~InQueue(owner[s].command) /\ ~WithClient(owner[s].command)
         /\ \A r \in Shard : Busy(r) /\ owner[r].command = owner[s].command => r = s
<1>1. Taken(s) \in DOMAIN arrivals[s] /\ arrivals[s][Taken(s)] = owner[s].command
  BY InHand
<1>2. Distinct /\ Order /\ Unique /\ TypeOK
  BY Parts DEF Moving, Unique
<1>3. \A r \in Shard : \A j \in DOMAIN arrivals[r] :
        arrivals[r][j].id = arrivals[s][Taken(s)].id => r = s /\ j = Taken(s)
  BY <1>1, <1>2, SMT DEF Distinct
<1>4. ASSUME NEW r \in Shard, Busy(r), owner[r].command = owner[s].command PROVE r = s
  <2>1. Taken(r) \in DOMAIN arrivals[r] /\ arrivals[r][Taken(r)] = owner[r].command
    BY <1>4, InHand
  <2>2. arrivals[r][Taken(r)] = arrivals[s][Taken(s)]
    BY <1>1, <1>4, <2>1
  <2> QED
    BY <1>3, <2>1, <2>2
<1>5. ASSUME NEW r \in Shard, NEW i \in DOMAIN queue[r].buffer, queue[r].buffer[i] = owner[s].command
      PROVE  FALSE
  <2>1. PICK a \in Nat, b \in Nat : a = Len(arrivals[r]) /\ b = Len(queue[r].buffer)
    BY <1>2, Places
  <2>2. /\ DOMAIN arrivals[r] = 1..a /\ DOMAIN queue[r].buffer = 1..b /\ Taken(r) = a - b
        /\ Taken(r) \in 0..a
    BY <1>2, <2>1, Places
  <2>3. queue[r].buffer[i] = arrivals[r][Taken(r) + i]
    BY <1>2 DEF Order
  <2>4. Taken(r) + i \in 1..a /\ Taken(r) + i # Taken(r)
    BY <2>2, SMT
  <2>5. Taken(r) + i \in DOMAIN arrivals[r]
    BY <2>2, <2>4
  <2>6. arrivals[r][Taken(r) + i] = arrivals[s][Taken(s)]
    BY <1>1, <1>5, <2>3
  <2>7. r = s /\ Taken(r) + i = Taken(s)
    BY <1>3, <2>5, <2>6
  <2> QED
    BY <2>4, <2>7
<1>6. ASSUME NEW c \in Client, client[c].at \in {"push", "refused"}, client[c].command = owner[s].command
      PROVE  FALSE
  <2>1. client[c].at \in Unsent
    BY <1>6 DEF Unsent
  <2>2. Own(c)
    BY <1>2, <2>1 DEF Unique
  <2> QED
    BY <1>1, <1>6, <2>2 DEF Own
<1> QED
  BY <1>4, <1>5, <1>6 DEF InQueue, WithClient

LEMMA FinishStep ==
  ASSUME EngineInv, NEW s \in Shard, Finish(s) PROVE EngineInv'
<1>0. /\ TypeOK /\ Moving /\ owner[s].at = "finish" /\ pending' = pending - 1
      /\ UNCHANGED <<config, queue, client, idle, promise, results, history>>
  BY Parts DEF Finish, FinishOne
<1>1. PICK w \in {"notify", "pop"} : OwnerGoto(s, w)
  BY DEF Finish
<1>2. /\ w \in OwnerState /\ w \notin {"off", "exited", "record"}
      /\ w \in {"off", "pop", "notify", "exited"} /\ w \notin {"popped", "apply"}
      /\ w \notin {"popped", "apply", "record", "count", "complete"}
  BY <1>1 DEF OwnerState
<1>3. OwnerMoved(s, w)
  BY <1>0, <1>1, <1>2, OwnerGotoEffect
<1>4. owner'[s].at = w /\ \A r \in Shard : r # s => owner'[r] = owner[r]
  BY <1>3 DEF OwnerMoved
<1>5. Busy(s) /\ ~Holds(s) /\ ~Open(s) /\ "finish" \notin {"off", "exited", "record"}
  BY <1>0, SMT DEF Busy, Holds, Open
<1>6. ~Busy(s)' /\ ~Holds(s)' /\ ~Open(s)'
  BY <1>2, <1>4 DEF Busy, Holds, Open
<1>7. queue' = queue /\ client' = client /\ promise' = promise /\ arrivals' = arrivals
      /\ engines' = engines /\ trade_log' = trade_log
  BY <1>0 DEF results, history
<1>8. /\ \A r \in Shard : Taken(r)' = Taken(r)
      /\ \A r \in Shard : Settled(r)' = Settled(r) /\ AppliedBy(r)' = AppliedBy(r)
  <2>1. \A r \in Shard : Taken(r)' = Taken(r)
    BY <1>7 DEF Taken
  <2>2. \A r \in Shard : (Open(r)' <=> Open(r)) /\ (Holds(r)' <=> Holds(r))
    <3>1. \A r \in Shard : r # s => (Open(r)' <=> Open(r)) /\ (Holds(r)' <=> Holds(r))
      BY <1>4 DEF Open, Holds
    <3> QED
      BY <1>5, <1>6, <3>1
  <2> QED
    BY <2>1, <2>2, Counts
<1>9. Counted' /\ pending' \in Nat
  <2> DEFINE k == owner[s].command
  <2>1. k \in Command /\ ~InQueue(k) /\ ~WithClient(k)
        /\ \A r \in Shard : Busy(r) /\ owner[r].command = k => r = s
    BY <1>5, InHand, Alone
  <2>2. \A x : WithClient(x)' <=> WithClient(x)
    BY <1>7 DEF WithClient
  <2>3. \A x : InQueue(x)' <=> InQueue(x)
    BY <1>7 DEF InQueue
  <2>4. \A x : WithOwner(x)' <=> WithOwner(x) /\ x # k
    <3>1. \A r \in Shard : r # s => (Busy(r)' <=> Busy(r))
      BY <1>4 DEF Busy
    <3> QED
      BY <1>4, <1>5, <1>6, <2>1, <3>1 DEF WithOwner
  <2>5. OnTheWay' = OnTheWay \ {k}
    BY <2>1, <2>2, <2>3, <2>4 DEF OnTheWay
  <2>6. k \in OnTheWay
    BY <1>5, <2>1 DEF OnTheWay, WithOwner
  <2> QED
    BY <1>0, <2>5, <2>6, TypeData, OneLess DEF Moving
<1>10. TypeOK' /\ Kept' /\ Rejects' /\ Stopping'
  <2>1. DataOK'
    BY <1>0, TypeData, DataSame
  <2>2. OwnerFrame(s)
    BY <1>0, <1>2, <1>3, <1>5 DEF OwnerFrame, OwnerMoved
  <2>3. queue' \in [Shard -> Q] /\ \A r \in Shard : r # s => queue'[r] = queue[r]
    BY <1>0, <1>7, Types
  <2> QED
    BY <1>9, <2>1, <2>2, <2>3, OwnerAlone
<1>11. Unique' /\ NeverTwice'
  BY <1>0, <1>7, SameUnique DEF Moving, NeverTwice
<1>12. Projected' /\ Promises'
  BY <1>0, <1>7, <1>8, ProjectedSame, PromisesSame DEF Moving
<1>13. Logged'
  <2>1. \A r \in Shard : owner'[r].at = "record" <=> owner[r].at = "record"
    BY <1>0, <1>2, <1>4, <1>5
  <2>2. \A r \in Shard : owner[r].at = "record" => owner'[r] = owner[r]
    BY <1>0, <1>4, <1>5
  <2> QED
    BY <1>0, <1>7, <2>1, <2>2, LoggedFrame DEF Moving
<1>14. Order'
  <2>1. SameBuffers
    BY <1>7 DEF SameBuffers
  <2>2. \A r \in Shard : owner'[r].at \notin {"off", "pop", "notify", "exited"} =>
           Busy(r) /\ owner'[r].command = owner[r].command
    BY <1>2, <1>4 DEF Busy
  <2> QED
    BY <1>0, <1>7, <2>1, <2>2, OrderFrame DEF Moving
<1> QED
  BY <1>9, <1>10, <1>11, <1>12, <1>13, <1>14 DEF EngineInv

\* The owner completes the promise of the command in hand, if there is one.
LEMMA CompleteStep ==
  ASSUME EngineInv, NEW s \in Shard, Complete(s) PROVE EngineInv'
<1>0. /\ TypeOK /\ Moving /\ owner[s].at = "complete" /\ OwnerGoto(s, "finish")
      /\ UNCHANGED <<config, pending, queue, client, idle, results, history>>
  BY Parts DEF Complete
<1>1. /\ "finish" \in OwnerState /\ "finish" \notin {"off", "exited", "record"}
      /\ "complete" \notin {"off", "exited", "record"}
  BY SMT DEF OwnerState
<1>2. OwnerMoved(s, "finish")
  BY <1>0, <1>1, OwnerGotoEffect
<1>3. /\ owner'[s].at = "finish" /\ owner'[s].command = owner[s].command
      /\ \A r \in Shard : r # s => owner'[r] = owner[r]
  BY <1>2 DEF OwnerMoved
<1>4. Busy(s) /\ ~Holds(s) /\ Open(s) /\ Busy(s)' /\ ~Holds(s)' /\ ~Open(s)'
  BY <1>0, <1>3, SMT DEF Busy, Holds, Open
<1>5. queue' = queue /\ client' = client /\ arrivals' = arrivals
      /\ engines' = engines /\ trade_log' = trade_log /\ pending' = pending
  BY <1>0 DEF results, history
<1>6. PICK t \in DOMAIN arrivals[s] : t = Taken(s) /\ arrivals[s][t] = owner[s].command
  BY <1>4, InHand
<1>7. PICK id \in 1..MaxCommands : id = arrivals[s][t].id
  BY <1>4, <1>6, InHand
<1>8. t \in Nat \ {0} /\ Settled(s) = t - 1 /\ Settled(s)' = t - 0
      /\ (\A r \in Shard : Taken(r)' = Taken(r)) /\ \A r \in Shard : r # s => Settled(r)' = Settled(r)
  <2>1. t \in Nat \ {0}
    <3>1. DOMAIN arrivals[s] = 1..Len(arrivals[s]) /\ Len(arrivals[s]) \in Nat
      BY <1>0, Places DEF Moving
    <3> QED
      BY <3>1, SMT
  <2>2. \A r \in Shard : Taken(r)' = Taken(r)
    BY <1>5 DEF Taken
  <2>3. \A r \in Shard : r # s => (Open(r)' <=> Open(r))
    BY <1>3 DEF Open
  <2> QED
    BY <1>4, <1>6, <2>1, <2>2, <2>3, Counts
<1>9. promise[id] \in {"detached", "unset"}
  <2>1. t > t - 1
    BY <1>8, SMT
  <2> QED
    BY <1>0, <1>6, <1>7, <1>8, <2>1 DEF Moving, Promises
<1>10. /\ promise' \in [1..MaxCommands -> {"none", "detached", "unset", "executed", "shutting_down", "set_twice"}]
       /\ promise'[id] \in {"detached", "executed"}
       /\ \A i \in 1..MaxCommands : i # id => promise'[i] = promise[i]
  <2>0. promise \in [1..MaxCommands -> {"none", "detached", "unset", "executed", "shutting_down", "set_twice"}]
    BY <1>0, TypeData DEF DataOK
  <2>1. CASE promise[id] = "detached"
    <3>1. promise' = promise
      BY <1>6, <1>7, <2>1 DEF Complete
    <3> QED
      BY <2>0, <2>1, <3>1
  <2>2. CASE promise[id] = "unset"
    <3>1. promise' = [promise EXCEPT ![id] = "executed"]
      <4>1. promise[id] # "detached"
        BY <2>2, SMT
      <4>2. Fulfil(id, "executed")
        BY <1>6, <1>7, <4>1 DEF Complete
      <4> QED
        BY <2>2, <4>2 DEF Fulfil
    <3> QED
      BY <2>0, <3>1, SMT
  <2> QED
    BY <1>9, <2>1, <2>2
<1>11. \A r \in Shard : \A i \in DOMAIN arrivals[r] :
         arrivals[r][i].id \in 1..MaxCommands /\ (arrivals[r][i].id = id => r = s /\ i = t)
  <2>1. Distinct
    BY <1>0 DEF Moving, Unique
  <2>2. \A r \in Shard : \A i \in DOMAIN arrivals[r] : arrivals[r][i].id = arrivals[s][t].id => r = s /\ i = t
    BY <2>1, SMT DEF Distinct
  <2>3. \A r \in Shard : \A i \in DOMAIN arrivals[r] : arrivals[r][i].id \in 1..MaxCommands
    BY EnteredIssued
  <2> QED
    BY <1>7, <2>2, <2>3
<1>12. TypeOK' /\ Kept' /\ Rejects' /\ Stopping'
  <2>1. DataOK'
    BY <1>0, <1>10, TypeData DEF DataOK, results, history
  <2>2. OwnerFrame(s)
    BY <1>0, <1>1, <1>2 DEF OwnerFrame, OwnerMoved
  <2>3. queue' \in [Shard -> Q] /\ (\A r \in Shard : r # s => queue'[r] = queue[r]) /\ pending' \in Nat
    BY <1>0, <1>5, Types, TypeData
  <2> QED
    BY <2>1, <2>2, <2>3, OwnerAlone
<1>13. Unique'
  <2>1. Numbered'
    <3>1. \A i \in 1..MaxCommands : promise'[i] # "none" <=> promise[i] # "none"
      BY <1>9, <1>10
    <3> QED
      BY <1>0, <3>1 DEF Moving, Unique, Numbered
  <2>2. ASSUME NEW d \in Client, client[d].at \in Unsent PROVE Own(d)'
    <3>1. Own(d)
      BY <1>0, <2>2 DEF Moving, Unique
    <3>2. client[d].command.id # id
      BY <1>7, <3>1 DEF Own
    <3>3. client[d].command.id \in 1..MaxCommands
      BY <3>1, SMT DEF Own, Command
    <3>4. promise'[client[d].command.id] = promise[client[d].command.id]
      BY <1>10, <3>2, <3>3
    <3> QED
      BY <1>5, <3>1, <3>4 DEF Own
  <2>3. OneOwner /\ Distinct
    BY <1>0 DEF Moving, Unique
  <2>4. OneOwner'
    BY <1>5, <2>3 DEF OneOwner
  <2>5. Distinct'
    BY <1>5, <2>3, SMT DEF Distinct
  <2> QED
    BY <1>5, <2>1, <2>2, <2>4, <2>5 DEF Unique
<1>14. NeverTwice'
  <2> SUFFICES ASSUME NEW i \in 1..MaxCommands PROVE promise'[i] # "set_twice"
    BY DEF NeverTwice
  <2>1. promise[i] # "set_twice"
    BY <1>0 DEF Moving, NeverTwice
  <2>2. CASE i = id
    <3>1. promise'[i] \in {"detached", "executed"}
      BY <1>10, <2>2
    <3> QED
      BY <3>1, SMT
  <2>3. CASE i # id
    <3>1. promise'[i] = promise[i]
      BY <1>10, <2>3
    <3> QED
      BY <2>1, <3>1
  <2> QED
    BY <2>2, <2>3
<1>15. Order' /\ Projected' /\ Counted'
  <2>1. SameBuffers
    BY <1>5 DEF SameBuffers
  <2>2. /\ \A r \in Shard : owner'[r].at \notin {"off", "pop", "notify", "exited"} <=> Busy(r)
        /\ \A r \in Shard : owner'[r].command = owner[r].command
        /\ \A r \in Shard : owner'[r].at \in {"popped", "apply"} <=> Holds(r)
    <3>1. \A r \in Shard : r # s => (owner'[r].at \notin {"off", "pop", "notify", "exited"} <=> Busy(r))
                                    /\ (owner'[r].at \in {"popped", "apply"} <=> Holds(r))
      BY <1>3 DEF Busy, Holds
    <3>2. owner'[s].at \notin {"off", "pop", "notify", "exited"} /\ owner'[s].at \notin {"popped", "apply"}
      BY <1>4 DEF Busy, Holds
    <3> QED
      BY <1>3, <1>4, <3>1, <3>2
  <2>3. Order'
    BY <1>0, <1>5, <2>1, <2>2, OrderFrame DEF Moving
  <2>4. Projected'
    BY <1>0, <1>5, <2>1, <2>2, ProjectedFrame DEF Moving
  <2>5. OnTheWay' = OnTheWay
    BY <1>5, <2>1, <2>2, SameWay
  <2> QED
    BY <1>0, <1>5, <2>3, <2>4, <2>5 DEF Counted, Moving
<1>16. Logged'
  <2>1. \A r \in Shard : owner'[r].at = "record" <=> owner[r].at = "record"
    BY <1>0, <1>1, <1>3
  <2>2. \A r \in Shard : owner[r].at = "record" => owner'[r] = owner[r]
    BY <1>0, <1>1, <1>3
  <2> QED
    BY <1>0, <1>5, <2>1, <2>2, LoggedFrame DEF Moving
<1>17. Promises'
  <2>1. \A r \in Shard : DOMAIN arrivals[r] = 1..Len(arrivals[r]) /\ Len(arrivals[r]) \in Nat
          /\ Taken(r) \in 0..Len(arrivals[r]) /\ Settled(r) \in 0..Taken(r)
    BY <1>0, Places DEF Moving
  <2>2. ASSUME NEW r \in Shard, NEW i \in 1..Settled(r)'
        PROVE  promise'[arrivals[r][i].id] \in {"detached", "executed"}
    <3>1. CASE r = s /\ i = t
      BY <1>7, <1>10, <3>1
    <3>2. CASE ~(r = s /\ i = t)
      <4>1. i \in 1..Settled(r)
        <5>1. CASE r # s
          BY <1>8, <5>1
        <5>2. CASE r = s
          <6>1. i \in 1..(t - 0) /\ i # t
            BY <1>8, <3>2, <5>2
          <6>2. i \in 1..(t - 1)
            BY <1>8, <6>1, SMT
          <6> QED
            BY <1>8, <5>2, <6>2
        <5> QED
          BY <5>1, <5>2
      <4>2. i \in DOMAIN arrivals[r]
        BY <2>1, <4>1, SMT
      <4>3. promise'[arrivals[r][i].id] = promise[arrivals[r][i].id]
        BY <1>10, <1>11, <3>2, <4>2
      <4> QED
        BY <1>0, <4>1, <4>3 DEF Moving, Promises
    <3> QED
      BY <3>1, <3>2
  <2>3. ASSUME NEW r \in Shard, NEW i \in DOMAIN arrivals[r], i > Settled(r)'
        PROVE  promise'[arrivals[r][i].id] \in {"detached", "unset"}
    <3>1. i > Settled(r) /\ ~(r = s /\ i = t)
      <4>1. CASE r # s
        BY <1>8, <2>3, <4>1
      <4>2. CASE r = s
        <5>1. i > t - 0 /\ i \in Nat
          <6>1. i \in 1..Len(arrivals[r]) /\ Len(arrivals[r]) \in Nat
            BY <2>1
          <6>2. i \in Nat
            BY <6>1, SMT
          <6> QED
            BY <1>8, <2>3, <4>2, <6>2
        <5>2. i > t - 1 /\ i # t
          BY <1>8, <5>1, SMT
        <5> QED
          BY <1>8, <4>2, <5>2
      <4> QED
        BY <4>1, <4>2
    <3>2. promise'[arrivals[r][i].id] = promise[arrivals[r][i].id]
      BY <1>10, <1>11, <3>1
    <3> QED
      BY <1>0, <3>1, <3>2 DEF Moving, Promises
  <2> QED
    BY <1>5, <2>2, <2>3 DEF Promises
<1> QED
  BY <1>12, <1>13, <1>14, <1>15, <1>16, <1>17 DEF EngineInv

\* The owner goes on with the command in hand, which stays with it: only what it
\* has applied and recorded may change.
HandFrame(s) ==
  /\ OwnerFrame(s) /\ UNCHANGED <<queue, pending, promise>>
  /\ owner[s].at \in {"apply", "record"} /\ owner'[s].at \in {"record", "count"}
  /\ owner'[s].command = owner[s].command

LEMMA HandStep ==
  ASSUME EngineInv, NEW s \in Shard, HandFrame(s), DataOK', Projected', Logged' PROVE EngineInv'
<1>0. TypeOK /\ Moving
  BY Parts
<1>1. /\ OwnerFrame(s) /\ queue' = queue /\ pending' = pending /\ promise' = promise
      /\ client' = client /\ arrivals' = arrivals
      /\ (\A r \in Shard : r # s => owner'[r] = owner[r]) /\ owner'[s].command = owner[s].command
  BY DEF HandFrame, OwnerFrame, history
<1>2. Busy(s) /\ Open(s) /\ Busy(s)' /\ Open(s)'
  <2>1. owner[s].at \in {"apply", "record"} /\ owner'[s].at \in {"record", "count"}
    BY DEF HandFrame
  <2> QED
    BY <2>1, SMT DEF Busy, Open
<1>3. TypeOK' /\ Kept' /\ Rejects' /\ Stopping'
  <2>1. queue' \in [Shard -> Q] /\ pending' \in Nat
    BY <1>0, <1>1, Types, TypeData
  <2> QED
    BY <1>1, <2>1, OwnerAlone
<1>4. Unique' /\ NeverTwice'
  BY <1>0, <1>1, SameUnique DEF Moving, NeverTwice
<1>5. \A r \in Shard : (Busy(r)' <=> Busy(r)) /\ (Open(r)' <=> Open(r))
                       /\ owner'[r].command = owner[r].command
  <2>1. \A r \in Shard : r # s => (Busy(r)' <=> Busy(r)) /\ (Open(r)' <=> Open(r))
    BY <1>1 DEF Busy, Open
  <2> QED
    BY <1>1, <1>2, <2>1
<1>6. Promises'
  <2>1. \A r \in Shard : Taken(r)' = Taken(r)
    BY <1>1 DEF Taken
  <2>2. \A r \in Shard : Settled(r)' = Settled(r)
    BY <1>5, <2>1, Counts
  <2> QED
    BY <1>0, <1>1, <2>2, PromisesSame DEF Moving
<1>7. Order' /\ Counted'
  <2>1. SameBuffers
    BY <1>1 DEF SameBuffers
  <2>2. \A r \in Shard : owner'[r].at \notin {"off", "pop", "notify", "exited"} <=> Busy(r)
    BY <1>5 DEF Busy
  <2>3. Order'
    BY <1>0, <1>1, <1>5, <2>1, <2>2, OrderFrame DEF Moving
  <2>4. OnTheWay' = OnTheWay
    BY <1>1, <1>5, <2>1, <2>2, SameWay
  <2> QED
    BY <1>0, <1>1, <2>3, <2>4 DEF Counted, Moving
<1> QED
  BY <1>3, <1>4, <1>6, <1>7 DEF EngineInv

\* One command more has been applied: to another symbol, or to this one.
LEMMA ProjectsSkip ==
  ASSUME NEW seq, NEW all, NEW n \in Nat, NEW symbol, Projects(seq, all, n, symbol),
         all[n + 1].symbol # symbol
  PROVE  Projects(seq, all, n + 1, symbol)
<1>1. PICK place \in [DOMAIN seq -> 1..n] :
        /\ \A p \in DOMAIN seq : all[place[p]] = seq[p]
        /\ \A p, q \in DOMAIN seq : p < q => place[p] < place[q]
        /\ \A i \in 1..n : all[i].symbol = symbol <=> \E p \in DOMAIN seq : place[p] = i
  BY DEF Projects
<1>2. \A i \in 1..n : i \in 1..(n + 1) /\ i # n + 1
  BY SMT
<1>3. \A i \in 1..(n + 1) : i = n + 1 \/ i \in 1..n
  BY SMT
<1>4. place \in [DOMAIN seq -> 1..(n + 1)] /\ \A p \in DOMAIN seq : place[p] # n + 1
  BY <1>2
<1>5. \A i \in 1..(n + 1) : all[i].symbol = symbol <=> \E p \in DOMAIN seq : place[p] = i
  BY <1>1, <1>3, <1>4
<1> QED
  BY <1>1, <1>4, <1>5 DEF Projects

LEMMA ProjectsNext ==
  ASSUME NEW seq \in Seq(Command), NEW all, NEW n \in Nat, NEW symbol, NEW k \in Command,
         Projects(seq, all, n, symbol), all[n + 1] = k, k.symbol = symbol
  PROVE  Projects(Append(seq, k), all, n + 1, symbol)
<1>1. PICK place \in [DOMAIN seq -> 1..n] :
        /\ \A p \in DOMAIN seq : all[place[p]] = seq[p]
        /\ \A p, q \in DOMAIN seq : p < q => place[p] < place[q]
        /\ \A i \in 1..n : all[i].symbol = symbol <=> \E p \in DOMAIN seq : place[p] = i
  BY DEF Projects
<1>2. PICK m \in Nat : m = Len(seq) /\ DOMAIN seq = 1..m
  BY SMT
<1>3. PICK longer : longer = Append(seq, k)
  OBVIOUS
<1>4. /\ DOMAIN longer = 1..(m + 1) /\ longer[m + 1] = k
      /\ \A p \in 1..m : longer[p] = seq[p]
  <2>1. longer \in Seq(Command) /\ Len(longer) = m + 1 /\ longer[m + 1] = k
        /\ \A p \in 1..m : longer[p] = seq[p]
    BY <1>2, <1>3, Appended
  <2>2. \A x \in Seq(Command) : DOMAIN x = 1..Len(x)
    BY SMT
  <2> QED
    BY <2>1, <2>2
<1> DEFINE further == [p \in 1..(m + 1) |-> IF p = m + 1 THEN n + 1 ELSE place[p]]
<1>5. /\ \A p \in 1..m : p \in 1..(m + 1) /\ p # m + 1
      /\ \A p \in 1..(m + 1) : p = m + 1 \/ p \in 1..m
      /\ \A i \in 1..n : i \in 1..(n + 1) /\ i # n + 1 /\ i < n + 1
      /\ \A i \in 1..(n + 1) : i = n + 1 \/ i \in 1..n
      /\ m + 1 \in 1..(m + 1) /\ n + 1 \in 1..(n + 1)
  BY SMT
<1>6. further[m + 1] = n + 1 /\ \A p \in 1..m : further[p] = place[p] /\ place[p] \in 1..n
  BY <1>2, <1>5
<1>7. further \in [1..(m + 1) -> 1..(n + 1)]
  <2>1. \A p \in 1..(m + 1) : further[p] \in 1..(n + 1)
    BY <1>5, <1>6
  <2> QED
    BY <2>1
<1> HIDE DEF further
<1>8. \A p \in 1..(m + 1) : all[further[p]] = longer[p]
  BY <1>1, <1>2, <1>4, <1>5, <1>6
<1>9. \A p, q \in 1..(m + 1) : p < q => further[p] < further[q]
  <2> SUFFICES ASSUME NEW p \in 1..(m + 1), NEW q \in 1..(m + 1), p < q PROVE further[p] < further[q]
    OBVIOUS
  <2>1. p \in 1..m
    BY SMT
  <2>2. CASE q = m + 1
    BY <1>5, <1>6, <2>1, <2>2
  <2>3. CASE q \in 1..m
    BY <1>1, <1>2, <1>6, <2>1, <2>3
  <2> QED
    BY <1>5, <2>2, <2>3
<1>10. \A i \in 1..(n + 1) : all[i].symbol = symbol <=> \E p \in 1..(m + 1) : further[p] = i
  <2> SUFFICES ASSUME NEW i \in 1..(n + 1)
               PROVE  all[i].symbol = symbol <=> \E p \in 1..(m + 1) : further[p] = i
    OBVIOUS
  <2>1. CASE i = n + 1
    BY <1>5, <1>6, <2>1
  <2>2. CASE i \in 1..n
    <3>1. all[i].symbol = symbol <=> \E p \in 1..m : place[p] = i
      BY <1>1, <1>2, <2>2
    <3> QED
      BY <1>5, <1>6, <2>2, <3>1
  <2> QED
    BY <1>5, <2>1, <2>2
<1>11. Projects(longer, all, n + 1, symbol)
  <2>1. further \in [DOMAIN longer -> 1..(n + 1)]
    BY <1>4, <1>7
  <2>2. \A p \in DOMAIN longer : all[further[p]] = longer[p]
    BY <1>4, <1>8
  <2>3. \A p, q \in DOMAIN longer : p < q => further[p] < further[q]
    BY <1>4, <1>9
  <2>4. \A i \in 1..(n + 1) : all[i].symbol = symbol <=> \E p \in DOMAIN longer : further[p] = i
    BY <1>4, <1>10
  <2> QED
    BY <2>1, <2>2, <2>3, <2>4 DEF Projects
<1> QED
  BY <1>3, <1>11

\* The log takes the next trade.
LEMMA LatestMore ==
  ASSUME NEW log \in Seq(Nat), NEW n \in Nat, Latest(log, n)
  PROVE  record(log, n + 1) \in Seq(Nat) /\ Latest(record(log, n + 1), n + 1)
<1>1. PICK m \in Nat : m = Len(log)
  BY SMT
<1>2. PICK longer : longer = Append(log, n + 1)
  OBVIOUS
<1>3. /\ longer \in Seq(Nat) /\ Len(longer) = m + 1 /\ longer[m + 1] = n + 1
      /\ \A i \in 1..m : longer[i] = log[i]
  BY <1>1, <1>2, SMT
<1>4. m = (IF n < LogDepth THEN n ELSE LogDepth) /\ \A i \in 1..m : log[i] = n - m + i
  BY <1>1 DEF Latest
<1>5. \A i \in 1..(m + 1) : longer[i] = (n + 1) - (m + 1) + i
  <2>1. ASSUME NEW i \in 1..m PROVE longer[i] = (n + 1) - (m + 1) + i
    <3>1. longer[i] = n - m + i
      BY <1>3, <1>4
    <3>2. n - m + i = (n + 1) - (m + 1) + i
      BY SMT
    <3> QED
      BY <3>1, <3>2
  <2>2. n + 1 = (n + 1) - (m + 1) + (m + 1) /\ \A i \in 1..(m + 1) : i = m + 1 \/ i \in 1..m
    BY SMT
  <2> QED
    BY <1>3, <2>1, <2>2
<1>6. CASE m + 1 > LogDepth
  <2>1. PICK rest : rest = Tail(longer)
    OBVIOUS
  <2>2. rest \in Seq(Nat) /\ Len(rest) = m /\ \A i \in 1..m : rest[i] = longer[i + 1]
    BY <1>3, <2>1, SMT
  <2>3. m = LogDepth /\ ~(n + 1 < LogDepth)
    BY <1>4, <1>6, LogAssumption, SMT
  <2>4. ASSUME NEW i \in 1..m PROVE rest[i] = (n + 1) - m + i
    <3>1. i + 1 \in 1..(m + 1) /\ (n + 1) - (m + 1) + (i + 1) = (n + 1) - m + i
      BY SMT
    <3>2. rest[i] = (n + 1) - (m + 1) + (i + 1)
      BY <1>5, <2>2, <3>1
    <3> QED
      BY <3>1, <3>2
  <2>5. Latest(rest, n + 1)
    BY <2>2, <2>3, <2>4 DEF Latest
  <2>6. record(log, n + 1) = rest
    BY <1>1, <1>2, <1>6, <2>1 DEF record
  <2> QED
    BY <2>2, <2>5, <2>6
<1>7. CASE ~(m + 1 > LogDepth)
  <2>1. m + 1 = IF n + 1 < LogDepth THEN n + 1 ELSE LogDepth
    BY <1>4, <1>7, LogAssumption, SMT
  <2>2. Latest(longer, n + 1)
    BY <1>3, <1>5, <2>1 DEF Latest
  <2>3. record(log, n + 1) = longer
    BY <1>1, <1>2, <1>7 DEF record
  <2> QED
    BY <1>3, <2>2, <2>3
<1> QED
  BY <1>6, <1>7

\* The command in hand belongs to a symbol, whose engine no other owner has.
LEMMA HandSymbol ==
  ASSUME EngineInv, NEW s \in Shard, Busy(s)
  PROVE  /\ owner[s].command.symbol \in Symbol /\ ShardOf[owner[s].command.symbol] = s
         /\ \A r \in Shard : Busy(r) /\ r # s => owner[r].command.symbol # owner[s].command.symbol
<1>1. owner[s].command \in Command /\ ShardOf[owner[s].command.symbol] = s
  BY InHand
<1>2. owner[s].command.symbol \in Symbol
  BY <1>1, SMT DEF Command
<1>3. \A r \in Shard : Busy(r) => ShardOf[owner[r].command.symbol] = r
  BY InHand
<1> QED
  BY <1>1, <1>2, <1>3

\* What Apply does: n trades of the engine of the symbol.
Executed(s, symbol, n) ==
  /\ HandFrame(s) /\ owner[s].at = "apply" /\ owner'[s].at = "record"
  /\ symbol = owner[s].command.symbol /\ DataOK' /\ trade_log' = trade_log
  /\ engines'[symbol].applied = Append(engines[symbol].applied, owner[s].command)
  /\ engines'[symbol].trade_count = engines[symbol].trade_count + n
  /\ \A y \in Symbol : y # symbol => engines'[y] = engines[y]
  /\ owner'[s].recorded = 0 /\ Len(owner'[s].trades) = n
  /\ \A i \in 1..n : owner'[s].trades[i] = engines[symbol].trade_count + i

LEMMA ApplyEffect ==
  ASSUME EngineInv, NEW s \in Shard, Apply(s)
  PROVE  \E n \in Nat : Executed(s, owner[s].command.symbol, n)
<1> DEFINE symbol == owner[s].command.symbol
           k == owner[s].command
           e == engines[symbol]
<1>0. /\ TypeOK /\ DataOK /\ owner[s].at = "apply"
      /\ UNCHANGED <<config, pending, stats, queue, client, idle, trade_log, promise, history>>
  BY Parts, TypeData DEF Apply
<1>1. Busy(s) /\ "apply" \notin {"off", "exited"} /\ "record" \notin {"off", "exited"}
      /\ "apply" \in {"apply", "record"} /\ "record" \in {"record", "count"} /\ "record" \in OwnerState
  BY <1>0, SMT DEF Busy, OwnerState
<1>2. k \in Command /\ symbol \in Symbol
  BY <1>1, InHand, HandSymbol
<1>3. e.applied \in Seq(Command) /\ e.trade_count \in Nat
  BY <1>2, EngineType
<1>4. PICK accepted \in BOOLEAN, n \in 0..MaxTrades :
        /\ engines' = [engines EXCEPT ![symbol] =
                         [applied |-> Append(e.applied, k), trade_count |-> e.trade_count + n]]
        /\ owner' = [owner EXCEPT ![s] =
                       Owning("record", k, accepted, [i \in 1..n |-> e.trade_count + i], 0)]
  BY DEF Apply
<1>5. n \in Nat
  BY PartitionAssumption, SMT
<1>6. PICK count \in Nat : count = e.trade_count
  BY <1>3
<1>7. PICK trades : trades = [i \in 1..n |-> count + i]
  OBVIOUS
<1>8. trades \in Seq(Nat) /\ Len(trades) = n /\ \A i \in 1..n : trades[i] = count + i
  BY <1>5, <1>7, SMT
<1>9. PICK seq \in Seq(Command) : seq = Append(e.applied, k)
  BY <1>2, <1>3, Appended
<1>10. PICK f : f = [applied |-> seq, trade_count |-> count + n]
  OBVIOUS
<1>11. f \in [applied : Seq(Command), trade_count : Nat] /\ f.applied = seq /\ f.trade_count = count + n
  BY <1>5, <1>10, SMT
<1>12. engines' = [engines EXCEPT ![symbol] = f]
  BY <1>4, <1>6, <1>9, <1>10
<1>13. /\ engines' \in [Symbol -> [applied : Seq(Command), trade_count : Nat]] /\ engines'[symbol] = f
       /\ \A y \in Symbol : y # symbol => engines'[y] = engines[y]
  <2>1. engines \in [Symbol -> [applied : Seq(Command), trade_count : Nat]]
    BY <1>0 DEF DataOK
  <2> QED
    BY <1>2, <1>11, <1>12, <2>1
<1>14. PICK o \in OwnerRecord :
         /\ o = Owning("record", k, accepted, trades, 0)
         /\ o.at = "record" /\ o.command = k /\ o.trades = trades /\ o.recorded = 0
  <2>1. k \in Command \cup {NoCommand} /\ 0 \in Nat
    BY <1>2, SMT
  <2>2. /\ Owning("record", k, accepted, trades, 0) \in OwnerRecord
        /\ Owning("record", k, accepted, trades, 0).at = "record"
        /\ Owning("record", k, accepted, trades, 0).command = k
        /\ Owning("record", k, accepted, trades, 0).trades = trades
        /\ Owning("record", k, accepted, trades, 0).recorded = 0
    <3>1. PICK j \in Command \cup {NoCommand} : j = k
      BY <2>1
    <3>2. /\ Owning("record", j, accepted, trades, 0) \in OwnerRecord
          /\ Owning("record", j, accepted, trades, 0).at = "record"
          /\ Owning("record", j, accepted, trades, 0).command = j
          /\ Owning("record", j, accepted, trades, 0).trades = trades
          /\ Owning("record", j, accepted, trades, 0).recorded = 0
      BY <1>1, <1>8, <2>1, SMT DEF Owning, OwnerRecord
    <3> QED
      BY <3>1, <3>2
  <2> QED
    BY <2>2
<1>15. owner' \in [Shard -> OwnerRecord] /\ owner'[s] = o /\ \A r \in Shard : r # s => owner'[r] = owner[r]
  <2>1. owner' = [owner EXCEPT ![s] = o]
    BY <1>4, <1>6, <1>7, <1>14
  <2> QED
    BY <1>0, <2>1, OwnerSet
<1>16. HandFrame(s)
  <2>1. OwnerFrame(s)
    BY <1>0, <1>1, <1>14, <1>15 DEF OwnerFrame
  <2> QED
    BY <1>0, <1>1, <1>14, <1>15, <2>1 DEF HandFrame
<1>17. DataOK'
  BY <1>0, <1>13 DEF DataOK, history
<1>18. Executed(s, symbol, n)
  <2>1. owner'[s].at = "record" /\ owner'[s].recorded = 0 /\ owner'[s].trades = trades
    BY <1>14, <1>15
  <2>2. /\ Len(owner'[s].trades) = n
        /\ \A i \in 1..n : owner'[s].trades[i] = engines[symbol].trade_count + i
    BY <1>6, <1>8, <2>1
  <2>3. /\ engines'[symbol].applied = Append(engines[symbol].applied, k)
        /\ engines'[symbol].trade_count = engines[symbol].trade_count + n
    BY <1>6, <1>9, <1>11, <1>13
  <2> QED
    BY <1>0, <1>13, <1>16, <1>17, <2>1, <2>2, <2>3 DEF Executed
<1> QED
  BY <1>5, <1>18

LEMMA ExecutedProjected ==
  ASSUME EngineInv, NEW s \in Shard, NEW n \in Nat, Executed(s, owner[s].command.symbol, n)
  PROVE  Projected'
<1> DEFINE symbol == owner[s].command.symbol
           k == owner[s].command
<1>0. /\ TypeOK /\ Order /\ Projected /\ owner[s].at = "apply" /\ owner'[s].at = "record"
      /\ HandFrame(s) /\ queue' = queue /\ arrivals' = arrivals
      /\ \A r \in Shard : r # s => owner'[r] = owner[r]
  BY Parts DEF Executed, Moving, HandFrame, OwnerFrame, history
<1>1. Busy(s) /\ Holds(s) /\ ~Holds(s)'
  BY <1>0, SMT DEF Busy, Holds
<1>2. symbol \in Symbol /\ ShardOf[symbol] = s /\ k \in Command /\ Taken(s) \in DOMAIN arrivals[s]
      /\ arrivals[s][Taken(s)] = k
  BY <1>1, InHand, HandSymbol
<1>3. PICK m \in Nat : Taken(s) = m + 1 /\ AppliedBy(s) = m /\ AppliedBy(s)' = m + 1
  <2>1. AppliedBy(s) = Taken(s) - 1 /\ AppliedBy(s)' = Taken(s)' - 0 /\ Taken(s)' = Taken(s)
    BY <1>0, <1>1, Counts DEF Taken
  <2>2. PICK t \in Nat \ {0} : t = Taken(s)
    <3>1. DOMAIN arrivals[s] = 1..Len(arrivals[s]) /\ Len(arrivals[s]) \in Nat
      BY <1>0, Places
    <3> QED
      BY <1>2, <3>1, SMT
  <2>3. t - 1 \in Nat /\ t = (t - 1) + 1 /\ t - 0 = (t - 1) + 1
    BY SMT
  <2> QED
    BY <2>1, <2>2, <2>3
<1>4. \A r \in Shard : r # s => AppliedBy(r)' = AppliedBy(r)
  BY <1>0 DEF AppliedBy, Holds
<1> SUFFICES ASSUME NEW y \in Symbol
             PROVE  Projects(engines'[y].applied, arrivals'[ShardOf[y]], AppliedBy(ShardOf[y])', y)
  BY DEF Projected, Projects
<1>5. Projects(engines[y].applied, arrivals[ShardOf[y]], AppliedBy(ShardOf[y]), y)
      /\ ShardOf[y] \in Shard /\ engines[y].applied \in Seq(Command)
  BY <1>0, EngineType DEF Projected
<1>6. y # symbol => engines'[y] = engines[y]
  BY DEF Executed
<1>7. CASE ShardOf[y] # s
  <2>1. y # symbol
    BY <1>2, <1>7
  <2> QED
    BY <1>0, <1>4, <1>5, <1>6, <1>7, <2>1
<1>8. CASE ShardOf[y] = s /\ y # symbol
  <2>1. Projects(engines[y].applied, arrivals[s], m, y) /\ arrivals[s][m + 1].symbol # y
    BY <1>2, <1>3, <1>5, <1>8
  <2>2. Projects(engines[y].applied, arrivals[s], m + 1, y)
    BY <2>1, ProjectsSkip
  <2> QED
    BY <1>0, <1>3, <1>6, <1>8, <2>2
<1>9. CASE y = symbol
  <2>1. Projects(engines[symbol].applied, arrivals[s], m, symbol) /\ arrivals[s][m + 1] = k
        /\ engines[symbol].applied \in Seq(Command)
    BY <1>2, <1>3, <1>5, <1>9
  <2>2. Projects(Append(engines[symbol].applied, k), arrivals[s], m + 1, symbol)
    BY <1>2, <2>1, ProjectsNext
  <2>3. engines'[symbol].applied = Append(engines[symbol].applied, k)
    BY DEF Executed
  <2> QED
    BY <1>0, <1>2, <1>3, <1>9, <2>2, <2>3
<1> QED
  BY <1>7, <1>8, <1>9

LEMMA ExecutedLogged ==
  ASSUME EngineInv, NEW s \in Shard, NEW n \in Nat, Executed(s, owner[s].command.symbol, n)
  PROVE  Logged'
<1> DEFINE symbol == owner[s].command.symbol
<1>0. /\ TypeOK /\ Logged /\ owner[s].at = "apply" /\ owner'[s].at = "record"
      /\ owner'[s].command = owner[s].command /\ trade_log' = trade_log
      /\ \A r \in Shard : r # s => owner'[r] = owner[r]
  BY Parts DEF Executed, Moving, HandFrame, OwnerFrame
<1>1. Busy(s) /\ \A r \in Shard : owner[r].at = "record" => Busy(r)
  BY <1>0, SMT DEF Busy
<1>2. symbol \in Symbol /\ ShardOf[symbol] = s
      /\ \A r \in Shard : Busy(r) /\ r # s => owner[r].command.symbol # symbol
  BY <1>1, HandSymbol
<1>3. \A r \in Shard : Busy(r) => owner[r].command.symbol \in Symbol
  BY HandSymbol
<1>4. PICK count \in Nat : count = engines[symbol].trade_count
  BY <1>2, EngineType
<1>5. /\ engines'[symbol].trade_count = count + n /\ owner'[s].recorded = 0 /\ Len(owner'[s].trades) = n
      /\ \A i \in 1..n : owner'[s].trades[i] = count + i
      /\ \A y \in Symbol : y # symbol => engines'[y] = engines[y]
  BY <1>4 DEF Executed
<1>6. 0 <= n /\ n - 0 <= count + n /\ (count + n) - (n - 0) = count - 0
      /\ \A i \in 1..n : count + i = (count + n) - n + i
  BY SMT
<1>7. Behind(s)' = n - 0
  BY <1>5 DEF Behind
<1>8. ASSUME NEW r \in Shard, owner'[r].at = "record"
      PROVE  /\ owner'[r].recorded <= Len(owner'[r].trades)
             /\ \A i \in 1..Len(owner'[r].trades) :
                  owner'[r].trades[i] = engines'[owner'[r].command.symbol].trade_count - Len(owner'[r].trades) + i
             /\ Behind(r)' <= engines'[owner'[r].command.symbol].trade_count
  <2>1. CASE r = s
    BY <1>0, <1>5, <1>6, <1>7, <2>1
  <2>2. CASE r # s
    <3>1. owner'[r] = owner[r] /\ owner[r].at = "record" /\ Behind(r)' = Behind(r)
      BY <1>0, <1>8, <2>2 DEF Behind
    <3>2. engines'[owner[r].command.symbol] = engines[owner[r].command.symbol]
      BY <1>1, <1>2, <1>3, <1>5, <2>2, <3>1
    <3> QED
      BY <1>0, <3>1, <3>2 DEF Logged
  <2> QED
    BY <2>1, <2>2
<1>9. ASSUME NEW y \in Symbol
      PROVE  Latest(trade_log[y], engines'[y].trade_count
                      - (IF Recording(ShardOf[y], y)' THEN Behind(ShardOf[y])' ELSE 0))
  <2>1. Latest(trade_log[y], engines[y].trade_count
                 - (IF Recording(ShardOf[y], y) THEN Behind(ShardOf[y]) ELSE 0)) /\ ShardOf[y] \in Shard
    BY <1>0, EngineType DEF Logged
  <2>2. ~Recording(s, y)
    <3>1. "apply" # "record"
      BY SMT
    <3> QED
      BY <1>0, <3>1 DEF Recording
  <2>3. CASE y = symbol
    <3>1. Recording(s, y)'
      BY <1>0, <2>3 DEF Recording
    <3> QED
      BY <1>2, <1>4, <1>5, <1>6, <1>7, <2>1, <2>2, <2>3, <3>1
  <2>4. CASE y # symbol /\ ShardOf[y] = s
    <3>1. ~Recording(s, y)'
      BY <1>0, <2>4 DEF Recording
    <3> QED
      BY <1>5, <2>1, <2>2, <2>4, <3>1
  <2>5. CASE ShardOf[y] # s
    <3>1. (Recording(ShardOf[y], y)' <=> Recording(ShardOf[y], y)) /\ Behind(ShardOf[y])' = Behind(ShardOf[y])
      BY <1>0, <2>1, <2>5 DEF Recording, Behind
    <3>2. y # symbol
      BY <1>2, <2>5
    <3> QED
      BY <1>5, <2>1, <3>1, <3>2
  <2> QED
    BY <2>3, <2>4, <2>5
<1> QED
  BY <1>0, <1>8, <1>9 DEF Logged, Latest

\* The engine of the symbol executes the command.
LEMMA ApplyStep ==
  ASSUME EngineInv, NEW s \in Shard, Apply(s) PROVE EngineInv'
<1>1. PICK n \in Nat : Executed(s, owner[s].command.symbol, n)
  BY ApplyEffect
<1>2. Projected' /\ Logged'
  BY <1>1, ExecutedProjected, ExecutedLogged
<1>3. HandFrame(s) /\ DataOK'
  BY <1>1 DEF Executed
<1> QED
  BY <1>2, <1>3, HandStep

\* The engines stay, and so does who has applied what.
LEMMA HandProjected ==
  ASSUME EngineInv, NEW s \in Shard, HandFrame(s), owner[s].at = "record", engines' = engines
  PROVE  Projected'
<1>1. Projected /\ queue' = queue /\ arrivals' = arrivals /\ \A r \in Shard : r # s => owner'[r] = owner[r]
  BY Parts DEF Moving, HandFrame, OwnerFrame, history
<1>2. ~Holds(s) /\ ~Holds(s)'
  <2>1. owner'[s].at \in {"record", "count"}
    BY DEF HandFrame
  <2> QED
    BY <2>1, SMT DEF Holds
<1>3. \A r \in Shard : Holds(r)' <=> Holds(r)
  <2>1. \A r \in Shard : r # s => (Holds(r)' <=> Holds(r))
    BY <1>1 DEF Holds
  <2> QED
    BY <1>2, <2>1
<1>4. \A r \in Shard : Taken(r)' = Taken(r)
  BY <1>1 DEF Taken
<1>5. \A r \in Shard : AppliedBy(r)' = AppliedBy(r)
  BY <1>3, <1>4, Counts
<1> QED
  BY <1>1, <1>5, ProjectedSame

\* One more trade of the command in hand is in the log, or all are.
Logging(s, symbol) ==
  /\ HandFrame(s) /\ owner[s].at = "record" /\ symbol = owner[s].command.symbol
  /\ engines' = engines /\ owner'[s].trades = owner[s].trades
  /\ \A y \in Symbol : y # symbol => trade_log'[y] = trade_log[y]

LEMMA LoggingStep ==
  ASSUME EngineInv, NEW s \in Shard, Logging(s, owner[s].command.symbol),
         owner'[s].at = "record" =>
           owner'[s].recorded <= Len(owner[s].trades)
           /\ Behind(s)' <= engines[owner[s].command.symbol].trade_count,
         Latest(trade_log'[owner[s].command.symbol], engines[owner[s].command.symbol].trade_count
                  - (IF owner'[s].at = "record" THEN Behind(s)' ELSE 0))
  PROVE  Logged'
<1> DEFINE symbol == owner[s].command.symbol
<1>0. /\ Logged /\ owner[s].at = "record" /\ owner'[s].command = owner[s].command
      /\ engines' = engines /\ owner'[s].trades = owner[s].trades
      /\ (\A r \in Shard : r # s => owner'[r] = owner[r])
      /\ \A y \in Symbol : y # symbol => trade_log'[y] = trade_log[y]
  BY Parts DEF Logging, Moving, HandFrame, OwnerFrame
<1>1. Busy(s)
  BY <1>0, SMT DEF Busy
<1>2. symbol \in Symbol /\ ShardOf[symbol] = s
  BY <1>1, HandSymbol
<1>3. ASSUME NEW r \in Shard, owner'[r].at = "record"
      PROVE  /\ owner'[r].recorded <= Len(owner'[r].trades)
             /\ \A i \in 1..Len(owner'[r].trades) :
                  owner'[r].trades[i] = engines'[owner'[r].command.symbol].trade_count - Len(owner'[r].trades) + i
             /\ Behind(r)' <= engines'[owner'[r].command.symbol].trade_count
  <2>1. CASE r = s
    BY <1>0, <1>3, <2>1 DEF Logged
  <2>2. CASE r # s
    <3>1. owner'[r] = owner[r] /\ Behind(r)' = Behind(r)
      BY <1>0, <2>2 DEF Behind
    <3> QED
      BY <1>0, <1>3, <3>1 DEF Logged
  <2> QED
    BY <2>1, <2>2
<1>4. ASSUME NEW y \in Symbol
      PROVE  Latest(trade_log'[y], engines'[y].trade_count
                      - (IF Recording(ShardOf[y], y)' THEN Behind(ShardOf[y])' ELSE 0))
  <2>1. Latest(trade_log[y], engines[y].trade_count
                 - (IF Recording(ShardOf[y], y) THEN Behind(ShardOf[y]) ELSE 0)) /\ ShardOf[y] \in Shard
    BY <1>0, EngineType DEF Logged
  <2>2. CASE y = symbol
    <3>1. Recording(s, y)' <=> owner'[s].at = "record"
      BY <1>0, <2>2 DEF Recording
    <3> QED
      BY <1>0, <1>2, <2>2, <3>1
  <2>3. CASE y # symbol /\ ShardOf[y] = s
    <3>1. ~Recording(s, y) /\ ~Recording(s, y)'
      BY <1>0, <2>3 DEF Recording
    <3> QED
      BY <1>0, <2>1, <2>3, <3>1
  <2>4. CASE ShardOf[y] # s
    <3>1. (Recording(ShardOf[y], y)' <=> Recording(ShardOf[y], y)) /\ Behind(ShardOf[y])' = Behind(ShardOf[y])
      BY <1>0, <2>1, <2>4 DEF Recording, Behind
    <3>2. y # symbol
      BY <1>2, <2>4
    <3> QED
      BY <1>0, <2>1, <3>1, <3>2
  <2> QED
    BY <2>2, <2>3, <2>4
<1> QED
  BY <1>3, <1>4 DEF Logged, Latest

\* The trades of the command in hand go into the log one after the other.
LEMMA RecordStep ==
  ASSUME EngineInv, NEW s \in Shard, Record(s) PROVE EngineInv'
<1> DEFINE symbol == owner[s].command.symbol
<1>0. /\ TypeOK /\ DataOK /\ Logged /\ owner[s].at = "record"
      /\ UNCHANGED <<config, pending, stats, queue, client, idle, engines, promise, history>>
  BY Parts, TypeData DEF Record, Moving
<1>1. /\ Busy(s) /\ "record" \notin {"off", "exited"} /\ "count" \notin {"off", "exited"}
      /\ "record" \in {"apply", "record"} /\ {"record", "count"} \subseteq OwnerState /\ "count" # "record"
  BY <1>0, SMT DEF Busy, OwnerState
<1>2. symbol \in Symbol /\ ShardOf[symbol] = s /\ owner[s].command \in Command
  BY <1>1, HandSymbol, InHand
<1>3. PICK count \in Nat, len \in Nat, done \in Nat :
        count = engines[symbol].trade_count /\ len = Len(owner[s].trades) /\ done = owner[s].recorded
  <2>1. engines[symbol].trade_count \in Nat /\ owner[s].trades \in Seq(Nat) /\ owner[s].recorded \in Nat
    BY <1>0, <1>2, EngineType, OwnerFields
  <2>2. Len(owner[s].trades) \in Nat
    BY <2>1, SMT
  <2> QED
    BY <2>1, <2>2
<1>4. /\ done <= len /\ len - done <= count
      /\ \A i \in 1..len : owner[s].trades[i] = count - len + i
      /\ trade_log[symbol] \in Seq(Nat) /\ Latest(trade_log[symbol], count - (len - done))
  <2>1. Behind(s) = len - done /\ Recording(s, symbol)
    BY <1>0, <1>3 DEF Behind, Recording
  <2> QED
    BY <1>0, <1>2, <1>3, <2>1, EngineType DEF Logged
<1>5. ASSUME NEW w \in {"record", "count"}, owner' \in [Shard -> OwnerRecord],
             \A r \in Shard : r # s => owner'[r] = owner[r], owner'[s].at = w,
             owner'[s].command = owner[s].command
      PROVE  HandFrame(s)
  <2>1. OwnerFrame(s)
    BY <1>0, <1>1, <1>5 DEF OwnerFrame
  <2> QED
    BY <1>0, <1>1, <1>5, <2>1 DEF HandFrame
<1>6. ASSUME HandFrame(s), DataOK', Logged' PROVE EngineInv'
  BY <1>0, <1>6, HandProjected, HandStep
<1>7. CASE done + 1 <= len
  <2>1. /\ trade_log' = [trade_log EXCEPT ![symbol] = record(@, owner[s].trades[done + 1])]
        /\ owner' = [owner EXCEPT ![s] =
             Owning("record", @.command, @.accepted, @.trades, done + 1)]
    BY <1>3, <1>7 DEF Record
  <2>2. PICK n \in Nat : n = count - (len - done) /\ owner[s].trades[done + 1] = n + 1
    <3>1. done + 1 \in 1..len /\ count - (len - done) \in Nat
          /\ count - len + (done + 1) = (count - (len - done)) + 1
      BY <1>4, <1>7, SMT
    <3> QED
      BY <1>4, <3>1
  <2>3. PICK log \in Seq(Nat) : log = record(trade_log[symbol], n + 1) /\ Latest(log, n + 1)
    BY <1>4, <2>2, LatestMore
  <2>4. /\ trade_log' \in [Symbol -> Seq(Nat)] /\ trade_log'[symbol] = log
        /\ \A y \in Symbol : y # symbol => trade_log'[y] = trade_log[y]
    <3>1. trade_log \in [Symbol -> Seq(Nat)] /\ trade_log' = [trade_log EXCEPT ![symbol] = log]
      BY <1>0, <2>1, <2>2, <2>3 DEF DataOK
    <3> QED
      BY <1>2, <3>1
  <2>5. PICK o \in OwnerRecord :
          /\ owner' = [owner EXCEPT ![s] = o] /\ o.at = "record" /\ o.command = owner[s].command
          /\ o.trades = owner[s].trades /\ o.recorded = done + 1
    <3>1. \A a \in OwnerRecord, j \in Nat :
            /\ Owning("record", a.command, a.accepted, a.trades, j) \in OwnerRecord
            /\ Owning("record", a.command, a.accepted, a.trades, j).at = "record"
            /\ Owning("record", a.command, a.accepted, a.trades, j).command = a.command
            /\ Owning("record", a.command, a.accepted, a.trades, j).trades = a.trades
            /\ Owning("record", a.command, a.accepted, a.trades, j).recorded = j
      BY SMT DEF Owning, OwnerRecord, OwnerState
    <3>2. owner[s] \in OwnerRecord /\ done + 1 \in Nat
      BY <1>0, Types, SMT
    <3> QED
      BY <2>1, <3>1, <3>2
  <2>6. /\ owner' \in [Shard -> OwnerRecord] /\ owner'[s] = o
        /\ \A r \in Shard : r # s => owner'[r] = owner[r]
    BY <1>0, <2>5, OwnerSet
  <2>7. HandFrame(s)
    BY <1>5, <2>5, <2>6
  <2>8. DataOK'
    BY <1>0, <2>4 DEF DataOK, history
  <2>9. Behind(s)' = len - (done + 1)
    BY <1>3, <2>5, <2>6 DEF Behind
  <2>10. len - (done + 1) <= count /\ n + 1 = count - (len - (done + 1))
    BY <1>4, <2>2, SMT
  <2>11. Logging(s, symbol)
    BY <1>0, <2>4, <2>5, <2>6, <2>7 DEF Logging
  <2>12. Logged'
    <3>1. owner'[s].at = "record" /\ owner'[s].recorded <= Len(owner[s].trades)
          /\ Behind(s)' <= engines[symbol].trade_count
      BY <1>3, <1>7, <2>5, <2>6, <2>9, <2>10
    <3>2. Latest(trade_log'[symbol], engines[symbol].trade_count
                   - (IF owner'[s].at = "record" THEN Behind(s)' ELSE 0))
      BY <1>3, <2>3, <2>4, <2>9, <2>10, <3>1
    <3> QED
      BY <2>11, <3>1, <3>2, LoggingStep
  <2> QED
    BY <1>6, <2>7, <2>8, <2>12
<1>8. CASE ~(done + 1 <= len)
  <2>1. OwnerGoto(s, "count") /\ trade_log' = trade_log
    BY <1>3, <1>8 DEF Record
  <2>2. OwnerMoved(s, "count")
    BY <1>0, <1>1, <2>1, OwnerGotoEffect
  <2>3. HandFrame(s)
    BY <1>5, <2>2 DEF OwnerMoved
  <2>4. DataOK'
    BY <1>0, <2>1 DEF DataOK, history
  <2>5. Logging(s, symbol) /\ owner'[s].at # "record"
    BY <1>0, <1>1, <2>1, <2>2, <2>3 DEF Logging, OwnerMoved
  <2>6. count - (len - done) = count - 0
    BY <1>4, <1>8, SMT
  <2>7. Latest(trade_log'[symbol], engines[symbol].trade_count
                 - (IF owner'[s].at = "record" THEN Behind(s)' ELSE 0))
    BY <1>3, <1>4, <2>1, <2>5, <2>6
  <2>8. Logged'
    BY <2>5, <2>7, LoggingStep
  <2> QED
    BY <1>6, <2>3, <2>4, <2>8
<1> QED
  BY <1>7, <1>8

-----------------------------------------------------------------------------
(* The invariant holds at every step *)

LEMMA OwnerStepInv ==
  ASSUME EngineInv, NEW s \in Shard, OwnerStep(s) PROVE EngineInv'
<1>1. CASE OwnerPop(s) \/ NotifyClient(s) \/ Apply(s) \/ Record(s)
  BY <1>1, OwnerPopStep, NotifyClientStep, ApplyStep, RecordStep
<1>2. CASE Count(s) \/ Complete(s) \/ Finish(s) \/ FinishNotify(s)
  BY <1>2, CountStep, CompleteStep, FinishStep, FinishNotifyStep
<1> QED
  BY <1>1, <1>2 DEF OwnerStep

\* Nothing changes.
LEMMA StutterInv == ASSUME EngineInv, UNCHANGED vars PROVE EngineInv'
<1>0. /\ TypeOK /\ Stopping
      /\ UNCHANGED <<phase, accepting, pending, queue, owner, client, idle, promise, results, history>>
  BY Parts DEF vars, results, history
<1>1. queue' \in [Shard -> Q] /\ \A t \in Shard : SameItems(queue[t], queue'[t])
  BY <1>0, SameItemsAll
<1>2. ShardFrame
  BY <1>0, <1>1, StatsType, TypeData DEF ShardFrame, results
<1>3. Stopping'
  BY <1>0 DEF Stopping
<1>4. owner' \in [Shard -> OwnerRecord] /\ \A r \in Shard : SameOwner(r)
  BY <1>0, Types, SameOwnerAll
<1>5. phase' \in {"constructing", "unwinding", "failed", "running"}
  BY <1>0, TypeData
<1> QED
  BY <1>2, <1>3, <1>4, <1>5, QuietShards

LEMMA NextInv == ASSUME EngineInv, [Next]_vars PROVE EngineInv'
<1>1. CASE EngineNext
  <2>1. CASE \E s \in Shard : StartOwner(s) \/ OwnerStep(s)
    BY <2>1, StartOwnerStep, OwnerStepInv
  <2>2. CASE ConstructorFails \/ Rethrow \/ SpuriousWakeups
    BY <2>2, ConstructorFailsStep, RethrowStep, SpuriousWakeupsStep
  <2>3. CASE \E c \in Client : ClientStep(c)
    BY <2>3, ClientStepInv
  <2> QED
    BY <1>1, <2>1, <2>2, <2>3 DEF EngineNext
<1>2. CASE \E c \in Client : AnyCall(c)
  BY <1>2, BeginStep, BeginControlStep DEF AnyCall
<1> QED
  BY <1>1, <1>2, StutterInv DEF Next

\* The invariant of the partitioned engine (include/partitioned_engine.hpp): it
\* holds after every step of a client, an owner, the constructor or a spurious
\* wakeup, whatever calls the clients make.
THEOREM EngineInvariant == Spec => []EngineInv
<1>1. Init => EngineInv
  BY InitInv
<1>2. EngineInv /\ [Next]_vars => EngineInv'
  BY NextInv
<1> QED
  BY <1>1, <1>2, PTL DEF Spec

-----------------------------------------------------------------------------
(* What follows from it *)

\* pending_ is exact at every moment: it counts the commands between the
\* fetch_add of enqueueCommand and finishOnePending, no more and no fewer.
THEOREM PendingIsExact == Spec => []PendingExact
<1>1. EngineInv => PendingExact
  BY DEF EngineInv, PendingExact, Counted
<1> QED
  BY <1>1, EngineInvariant, PTL

\* The shard owner processes commands in exact FIFO order: a shard applies what
\* entered its queue in the order of the insertion, and nothing enters twice.
THEOREM ShardsAreFifo == Spec => []ShardFifo
<1>1. ASSUME EngineInv PROVE ShardFifo
  <2>1. Projected /\ Distinct
    BY <1>1 DEF EngineInv, Unique
  <2> QED
    BY <1>1, <2>1, Fifo DEF ShardFifo, Projected, Distinct
<1> QED
  BY <1>1, EngineInvariant, PTL

\* When the shutdown that cleared accepting_ is about to return, after join() on
\* the owners, everything that ever entered a queue has been applied and answered.
THEOREM ShutdownDrainsAll == Spec => []ShutdownDrains
<1>1. ASSUME EngineInv, NEW c \in Client, client[c].at = "wake_idle", NEW s \in Shard
      PROVE  /\ owner[s].at = "exited" /\ queue[s].buffer = << >>
             /\ \A k \in Range(arrivals[s]) : Done(k)
  <2>1. owner[s].at = "exited" /\ queue[s].buffer = << >>
    BY <1>1 DEF EngineInv, Stopping
  <2>2. ~Open(s)
    BY <2>1, SMT DEF Open
  <2>3. \A i \in DOMAIN arrivals[s] : Done(arrivals[s][i])
    BY <1>1, <2>1, <2>2, DrainedDone
  <2> QED
    BY <2>1, <2>3 DEF Range
<1>2. EngineInv => ShutdownDrains
  BY <1>1 DEF ShutdownDrains
<1> QED
  BY <1>2, EngineInvariant, PTL

\* When waitUntilIdle returns, every command whose call had returned true before
\* it was called has been applied and answered.
THEOREM IdleMeansAllDone == Spec => IdleMeansDone
<1>1. ASSUME EngineInv, [Next]_vars, NEW c \in Client, client[c].at = "wait", client'[c].at = "rest",
             NEW k \in client[c].debt
      PROVE  Done(k)
  <2>1. pending = 0
    BY <1>1, WaitEnds
  <2>2. PICK s \in Shard : \E i \in DOMAIN arrivals[s] : arrivals[s][i] = k
    BY <1>1 DEF EngineInv, Kept, Entered
  <2>3. queue[s].buffer = << >> /\ ~Open(s)
    BY <1>1, <2>1, NothingLeft
  <2> QED
    BY <1>1, <2>2, <2>3, DrainedDone
<1>2. EngineInv /\ [Next]_vars =>
        [\A c \in Client : client[c].at = "wait" /\ client'[c].at = "rest" =>
           \A k \in client[c].debt : Done(k)]_vars
  BY <1>1
<1> QED
  BY <1>2, EngineInvariant, PTL DEF Spec, IdleMeansDone

\* A future tells the truth: "shutting down" means the command never got into a
\* queue, a result means it was applied, and no promise is set twice.
THEOREM FuturesAreHonest == Spec => []FuturesHonest
<1>1. Init => Answered
  <2>1. "none" # "executed"
    BY SMT
  <2> QED
    BY <2>1, InitFacts DEF Answered
<1>2. EngineInv /\ Answered /\ [Next]_vars => Answered'
  BY AnsweredNext
<1>3. ASSUME EngineInv, Answered PROVE FuturesHonest
  <2>1. ASSUME NEW i \in 1..MaxCommands, promise[i] = "shutting_down",
               NEW s \in Shard, NEW k \in Range(arrivals[s]), k.id = i
        PROVE  FALSE
    <3>1. PICK j \in DOMAIN arrivals[s] : arrivals[s][j] = k
      BY <2>1 DEF Range
    <3>2. promise[i] \in {"detached", "unset", "executed"}
      BY <1>3, <2>1, <3>1, EnteredIssued
    <3> QED
      BY <2>1, <3>2, SMT
  <2>2. ASSUME NEW i \in 1..MaxCommands, promise[i] = "executed"
        PROVE  \E s \in Shard : \E k \in Range(arrivals[s]) :
                 k.id = i /\ k \in Range(engines[k.symbol].applied)
    <3>0. PICK s \in Shard : \E j \in DOMAIN arrivals[s] : arrivals[s][j].id = i
      BY <1>3, <2>2 DEF Answered
    <3>1. PICK j \in DOMAIN arrivals[s] : arrivals[s][j].id = i
      BY <3>0
    <3>2. j \in 1..Settled(s)
      <4>1. Len(arrivals[s]) \in Nat /\ j \in 1..Len(arrivals[s]) /\ Taken(s) \in 0..Len(arrivals[s])
            /\ Settled(s) \in 0..Taken(s)
        BY <1>3, Places DEF EngineInv
      <4>2. j > Settled(s) \/ j \in 1..Settled(s)
        BY <4>1, SMT
      <4>3. promise[i] \notin {"detached", "unset"}
        BY <2>2, SMT
      <4> QED
        BY <1>3, <3>1, <4>2, <4>3 DEF EngineInv, Promises
    <3>3. Done(arrivals[s][j])
      BY <1>3, <3>2, SettledDone
    <3>4. arrivals[s][j] \in Range(arrivals[s])
      BY DEF Range
    <3> QED
      BY <3>1, <3>3, <3>4 DEF Done
  <2>3. \A i \in 1..MaxCommands : promise[i] # "set_twice"
    BY <1>3 DEF EngineInv, NeverTwice
  <2> QED
    BY <2>1, <2>2, <2>3 DEF FuturesHonest
<1> QED
  BY <1>1, <1>2, <1>3, EngineInvariant, PTL DEF Spec

\* Whoever reads the log of a symbol gets the latest trades of its engine, oldest
\* first and without a gap, up to those its owner is about to record.
THEOREM TradeLogIsExact == Spec => []TradeLogExact
<1>1. ASSUME EngineInv, NEW symbol \in Symbol, NEW count \in 0..(LogDepth + 1)
      PROVE  LET s       == ShardOf[symbol]
                 behind  == IF owner[s].command.symbol = symbol /\ owner[s].at = "record"
                            THEN Len(owner[s].trades) - owner[s].recorded ELSE 0
                 newest  == engines[symbol].trade_count - behind
                 size    == Min({newest, LogDepth, count})
             IN  recent(trade_log[symbol], count) = [i \in 1..size |-> newest - size + i]
  <2> DEFINE s      == ShardOf[symbol]
             behind == IF owner[s].command.symbol = symbol /\ owner[s].at = "record"
                       THEN Len(owner[s].trades) - owner[s].recorded ELSE 0
             newest == engines[symbol].trade_count - behind
  <2>0. /\ engines[symbol].trade_count \in Nat /\ trade_log[symbol] \in Seq(Nat) /\ s \in Shard
    BY <1>1, EngineType
  <2>1. behind = IF Recording(s, symbol) THEN Behind(s) ELSE 0
    BY DEF Recording, Behind
  <2>2. Latest(trade_log[symbol], newest)
    BY <1>1, <2>1 DEF EngineInv, Logged
  <2>3. newest \in Nat
    <3>1. CASE Recording(s, symbol)
      <4>1. PICK a \in Nat, b \in Nat, c \in Nat :
              a = Len(owner[s].trades) /\ b = owner[s].recorded /\ c = engines[symbol].trade_count
        <5>1. owner[s].trades \in Seq(Nat) /\ owner[s].recorded \in Nat
          BY <1>1, <2>0, TypeOf, OwnerFields
        <5>2. Len(owner[s].trades) \in Nat
          BY <5>1, SMT
        <5> QED
          BY <2>0, <5>1, <5>2
      <4>2. b <= a /\ a - b <= c
        BY <1>1, <2>0, <3>1, <4>1 DEF EngineInv, Logged, Recording, Behind
      <4>3. newest = c - (a - b)
        BY <2>1, <3>1, <4>1 DEF Behind
      <4>4. c - (a - b) \in Nat
        BY <4>2, SMT
      <4> QED
        BY <4>3, <4>4
    <3>2. CASE ~Recording(s, symbol)
      <4>1. newest = engines[symbol].trade_count - 0
        BY <2>1, <3>2
      <4>2. \A n \in Nat : n - 0 \in Nat
        BY SMT
      <4> QED
        BY <2>0, <4>1, <4>2
    <3> QED
      BY <3>1, <3>2
  <2>4. count \in Nat
    BY <1>1, LogAssumption, SMT
  <2> HIDE DEF newest, behind, s
  <2>5. LET size == Min({newest, LogDepth, count})
        IN  recent(trade_log[symbol], count) = [i \in 1..size |-> newest - size + i]
    BY <2>0, <2>2, <2>3, <2>4, RecentIs
  <2> QED
    BY <2>5 DEF newest, behind, s
<1>2. EngineInv => TradeLogExact
  BY <1>1 DEF TradeLogExact
<1> QED
  BY <1>2, EngineInvariant, PTL
=============================================================================
