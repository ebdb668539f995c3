--------------------- MODULE PartitionedEngineInvariant ---------------------
(***************************************************************************)
(* The partitioned engine, for any number of clients, shards, symbols and  *)
(* commands: the invariant of its proofs, why the steps of the clients and *)
(* those that move no command keep it, and what it says of a state.        *)
(*                                                                         *)
(* The invariant follows a command: it is with one client until it enters  *)
(* a shard, at a place of its own (Unique); what a shard has taken in is   *)
(* what it applied, what its owner has in hand and what waits (Order); how *)
(* far a command has got decides what may be in its promise (Promises).    *)
(***************************************************************************)
EXTENDS PartitionedEngine, TLAPS

\* A leaf that names no prover is tried with Zenon.
USE Zenon

\* Where a client is while its command has not entered a queue, and after that.
Unsent == {"gate", "count", "push", "refused", "refused_notify", "reject"}
Sent == {"pushed", "submitted"}

\* Command k is entry i of the arrivals of some shard.
Entered(k) == \E s \in Shard : \E i \in DOMAIN arrivals[s] : arrivals[s][i] = k

\* The commands that left the queue, and those among them that are finished but
\* for the count.
Taken(s) == Len(arrivals[s]) - Len(queue[s].buffer)
Open(s) == owner[s].at \in {"popped", "apply", "record", "count", "complete"}
Settled(s) == Taken(s) - (IF Open(s) THEN 1 ELSE 0)

\* Ids are handed out one after the other, and each belongs to one client or to
\* one arrival.
Numbered ==
  \E n \in 0..MaxCommands : \A i \in 1..MaxCommands : promise[i] # "none" <=> i <= n

Own(c) ==
  /\ client[c].command \in Command
  /\ promise[client[c].command.id] = IF client[c].call = "submit" THEN "unset" ELSE "detached"
  /\ \A s \in Shard : \A i \in DOMAIN arrivals[s] : arrivals[s][i].id # client[c].command.id

OneOwner ==
  \A c, d \in Client :
    client[c].at \in Unsent /\ client[d].at \in Unsent /\ client[c].command.id = client[d].command.id
    => c = d

Distinct ==
  \A s, r \in Shard : \A i \in DOMAIN arrivals[s], j \in DOMAIN arrivals[r] :
    arrivals[s][i].id = arrivals[r][j].id => s = r /\ i = j

Unique ==
  Numbered /\ (\A c \in Client : client[c].at \in Unsent => Own(c)) /\ OneOwner /\ Distinct

\* What has entered stays, and what was promised to a client had entered.
Kept ==
  /\ \A c \in Client : client[c].at \in Sent => Entered(client[c].command)
  /\ \A k \in returned : Entered(k)
  /\ \A c \in Client : \A k \in client[c].debt : Entered(k)

Order ==
  /\ \A s \in Shard :
       /\ Len(queue[s].buffer) <= Len(arrivals[s])
       /\ \A i \in DOMAIN queue[s].buffer : queue[s].buffer[i] = arrivals[s][Taken(s) + i]
       /\ Busy(s) => Taken(s) >= 1 /\ arrivals[s][Taken(s)] = owner[s].command
       /\ \A i \in DOMAIN arrivals[s] : ShardOf[arrivals[s][i].symbol] = s

Projected ==
  \A symbol \in Symbol :
    Projects(engines[symbol].applied, arrivals[ShardOf[symbol]], AppliedBy(ShardOf[symbol]), symbol)

Promises ==
  \A s \in Shard :
    /\ \A i \in 1..Settled(s) : promise[arrivals[s][i].id] \in {"detached", "executed"}
    /\ \A i \in DOMAIN arrivals[s] : i > Settled(s) => promise[arrivals[s][i].id] \in {"detached", "unset"}

Rejects == \A c \in Client : client[c].at = "reject" => client[c].call = "submit"
NeverTwice == \A i \in 1..MaxCommands : promise[i] # "set_twice"

\* The log of a symbol holds its latest trades up to number n.
Latest(log, n) ==
  /\ Len(log) = IF n < LogDepth THEN n ELSE LogDepth
  /\ \A i \in 1..Len(log) : log[i] = n - Len(log) + i
Recording(s, symbol) == owner[s].command.symbol = symbol /\ owner[s].at = "record"
Behind(s) == Len(owner[s].trades) - owner[s].recorded

Logged ==
  /\ \A s \in Shard : owner[s].at = "record" =>
       /\ owner[s].recorded <= Len(owner[s].trades)
       /\ \A i \in 1..Len(owner[s].trades) :
            owner[s].trades[i] = engines[owner[s].command.symbol].trade_count - Len(owner[s].trades) + i
       /\ Behind(s) <= engines[owner[s].command.symbol].trade_count
  /\ \A symbol \in Symbol :
       LET s == ShardOf[symbol]
       IN  Latest(trade_log[symbol], engines[symbol].trade_count
                                     - (IF Recording(s, symbol) THEN Behind(s) ELSE 0))

Stopping ==
  /\ \A c \in Client : client[c].at # "rest" => phase = "running"
  /\ phase = "running" => \A s \in Shard : owner[s].at # "off"
  /\ \A s \in Shard : owner[s].at = "exited" => queue[s].closed /\ queue[s].buffer = << >>
  /\ \A c \in Client : client[c].at = "wake_idle" => \A s \in Shard : owner[s].at = "exited"

Counted == ExistsBijection(OnTheWay, 1..pending)

EngineInv ==
  /\ TypeOK /\ Unique /\ Kept /\ Order /\ Projected /\ Promises
  /\ Rejects /\ NeverTwice /\ Logged /\ Stopping /\ Counted

-----------------------------------------------------------------------------
(* What a step may leave alone, and which parts of the invariant that keeps. *)

SameBuffers == \A s \in Shard : queue'[s].buffer = queue[s].buffer

SameOwner(s) ==
  /\ owner'[s].command = owner[s].command
  /\ owner'[s].at \notin {"off", "pop", "notify", "exited"} <=> Busy(s)
  /\ owner'[s].at \in {"popped", "apply"} <=> Holds(s)
  /\ owner'[s].at \in {"popped", "apply", "record", "count", "complete"} <=> Open(s)
  /\ owner'[s].at = "record" <=> owner[s].at = "record"
  /\ owner'[s].trades = owner[s].trades /\ owner'[s].recorded = owner[s].recorded

\* The client has not come by a command, but it may have lost its own.
SameClient(c) ==
  /\ client'[c].at \in Unsent => client[c].at \in Unsent
  /\ client'[c].at \in Sent => client[c].at \in Sent
  /\ client'[c].at \in Unsent \cup Sent =>
       client'[c].command = client[c].command /\ client'[c].call = client[c].call
  /\ client'[c].at \in {"push", "refused"} <=> client[c].at \in {"push", "refused"}
  /\ client'[c].at = "reject" => client'[c].call = "submit"
  /\ \A k \in client'[c].debt : k \in client[c].debt \/ k \in returned

\* How the numbers of commands in a shard compare.
LEMMA Places ==
  ASSUME TypeOK, Order, NEW s \in Shard
  PROVE  /\ arrivals[s] \in Seq(Command) /\ queue[s].buffer \in Seq(Command)
         /\ Len(arrivals[s]) \in Nat /\ DOMAIN arrivals[s] = 1..Len(arrivals[s])
         /\ Len(queue[s].buffer) \in Nat /\ DOMAIN queue[s].buffer = 1..Len(queue[s].buffer)
         /\ Taken(s) \in 0..Len(arrivals[s]) /\ Taken(s) = Len(arrivals[s]) - Len(queue[s].buffer)
         /\ Settled(s) \in 0..Taken(s) /\ AppliedBy(s) \in 0..Taken(s)
<1>1. arrivals[s] \in Seq(Command) /\ queue[s].buffer \in Seq(Command)
  <2>1. /\ arrivals \in [Shard -> Seq(Command)]
        /\ queue \in [Shard -> QueueOf(Command, Client \cup {"owner"})]
    BY DEF TypeOK
  <2> QED
    BY <2>1, SMT DEF QueueOf
<1>2. Len(queue[s].buffer) <= Len(arrivals[s]) /\ (Busy(s) => Taken(s) >= 1)
  BY DEF Order
<1>3. Open(s) \/ Holds(s) => Busy(s)
  BY DEF Open, Holds, Busy
<1>4. /\ Len(arrivals[s]) \in Nat /\ DOMAIN arrivals[s] = 1..Len(arrivals[s])
      /\ Len(queue[s].buffer) \in Nat /\ DOMAIN queue[s].buffer = 1..Len(queue[s].buffer)
  BY <1>1, SMT
<1>5. /\ Taken(s) = Len(arrivals[s]) - Len(queue[s].buffer)
      /\ Settled(s) = Taken(s) - (IF Open(s) THEN 1 ELSE 0)
      /\ AppliedBy(s) = Taken(s) - (IF Holds(s) THEN 1 ELSE 0)
  BY DEF Taken, Settled, AppliedBy
<1>6. Taken(s) \in 0..Len(arrivals[s])
  <2>1. PICK a \in Nat, b \in Nat : a = Len(arrivals[s]) /\ b = Len(queue[s].buffer)
    BY <1>4
  <2>2. Taken(s) = a - b /\ b <= a
    BY <1>2, <1>5, <2>1
  <2>3. Taken(s) \in 0..a
    BY <2>2, SMT
  <2> QED
    BY <2>1, <2>3
<1>7. Settled(s) \in {Taken(s), Taken(s) - 1} /\ AppliedBy(s) \in {Taken(s), Taken(s) - 1}
      /\ (Taken(s) < 1 => Settled(s) = Taken(s) /\ AppliedBy(s) = Taken(s))
  <2>1. PICK t \in Nat : t = Taken(s)
    BY <1>6, SMT
  <2>2. CASE Busy(s)
    <3>1. t >= 1
      BY <1>2, <2>1, <2>2
    <3>2. ~(t < 1) /\ t - 0 = t
      BY <3>1, SMT
    <3> QED
      BY <1>5, <2>1, <3>2
  <2>3. CASE ~Busy(s)
    <3>1. t - 0 = t
      BY SMT
    <3> QED
      BY <1>3, <1>5, <2>1, <2>3, <3>1
  <2> QED
    BY <2>2, <2>3
<1>8. Settled(s) \in 0..Taken(s) /\ AppliedBy(s) \in 0..Taken(s)
  BY <1>4, <1>6, <1>7, SMT
<1> QED
  BY <1>1, <1>4, <1>5, <1>6, <1>8

LEMMA UniqueFrame ==
  ASSUME Unique, promise' = promise, arrivals' = arrivals,
         \A c \in Client : client'[c].at \in Unsent =>
           client[c].at \in Unsent /\ client'[c].command = client[c].command
           /\ client'[c].call = client[c].call
  PROVE  Unique'
<1>1. Numbered'
  BY DEF Unique, Numbered
<1>2. ASSUME NEW c \in Client, client'[c].at \in Unsent PROVE Own(c)'
  <2>1. Own(c) /\ client'[c].command = client[c].command /\ client'[c].call = client[c].call
    BY <1>2 DEF Unique
  <2> QED
    BY <2>1 DEF Own
<1>3. OneOwner'
  <2> SUFFICES ASSUME NEW c \in Client, NEW d \in Client, client'[c].at \in Unsent,
                      client'[d].at \in Unsent, client'[c].command.id = client'[d].command.id
               PROVE  c = d
    BY DEF OneOwner
  <2>1. /\ client[c].at \in Unsent /\ client'[c].command = client[c].command
        /\ client[d].at \in Unsent /\ client'[d].command = client[d].command
    OBVIOUS
  <2>2. OneOwner
    BY DEF Unique
  <2> QED
    BY <2>1, <2>2 DEF OneOwner
<1>4. Distinct'
  <2>1. Distinct
    BY DEF Unique
  <2> QED
    BY <2>1, SMT DEF Distinct
<1> QED
  BY <1>1, <1>2, <1>3, <1>4 DEF Unique

LEMMA KeptFrame ==
  ASSUME Kept, arrivals' = arrivals, returned' = returned,
         \A c \in Client : client'[c].at \in Sent =>
           client[c].at \in Sent /\ client'[c].command = client[c].command,
         \A c \in Client : \A k \in client'[c].debt : k \in client[c].debt \/ k \in returned
  PROVE  Kept'
<1>0. \A k : Entered(k) => Entered(k)'
  BY DEF Entered
<1>1. \A c \in Client : client'[c].at \in Sent => Entered(client'[c].command)
  BY DEF Kept
<1>2. \A c \in Client : \A k \in client'[c].debt : Entered(k)
  BY DEF Kept
<1>3. \A k \in returned' : Entered(k)
  BY DEF Kept
<1> QED
  BY <1>0, <1>1, <1>2, <1>3 DEF Kept

LEMMA OrderFrame ==
  ASSUME Order, arrivals' = arrivals, SameBuffers,
         \A s \in Shard : owner'[s].at \notin {"off", "pop", "notify", "exited"} =>
           Busy(s) /\ owner'[s].command = owner[s].command
  PROVE  Order'
<1> SUFFICES ASSUME NEW s \in Shard
             PROVE  /\ Len(queue'[s].buffer) <= Len(arrivals[s])
                    /\ \A i \in DOMAIN queue'[s].buffer :
                          queue'[s].buffer[i] = arrivals[s][Taken(s)' + i]
                    /\ Busy(s)' => Taken(s)' >= 1 /\ arrivals[s][Taken(s)'] = owner'[s].command
                    /\ \A i \in DOMAIN arrivals[s] : ShardOf[arrivals[s][i].symbol] = s
  BY DEF Order
<1>1. queue'[s].buffer = queue[s].buffer /\ Taken(s)' = Taken(s)
  BY DEF SameBuffers, Taken
<1>2. Busy(s)' => Busy(s) /\ owner'[s].command = owner[s].command
  BY DEF Busy
<1>3. /\ Len(queue[s].buffer) <= Len(arrivals[s])
      /\ \A i \in DOMAIN queue[s].buffer : queue[s].buffer[i] = arrivals[s][Taken(s) + i]
      /\ Busy(s) => Taken(s) >= 1 /\ arrivals[s][Taken(s)] = owner[s].command
      /\ \A i \in DOMAIN arrivals[s] : ShardOf[arrivals[s][i].symbol] = s
  BY DEF Order
<1> QED
  BY <1>1, <1>2, <1>3

LEMMA ProjectedFrame ==
  ASSUME Projected, TypeOK, arrivals' = arrivals, engines' = engines, SameBuffers,
         \A s \in Shard : owner'[s].at \in {"popped", "apply"} <=> Holds(s)
  PROVE  Projected'
<1>1. \A s \in Shard : AppliedBy(s)' = AppliedBy(s)
  BY DEF AppliedBy, Holds, SameBuffers
<1>2. \A symbol \in Symbol : ShardOf[symbol] \in Shard
  BY PartitionAssumption
<1> SUFFICES ASSUME NEW symbol \in Symbol
             PROVE  Projects(engines[symbol].applied, arrivals[ShardOf[symbol]],
                             AppliedBy(ShardOf[symbol]), symbol)'
  BY DEF Projected
<1>3. Projects(engines[symbol].applied, arrivals[ShardOf[symbol]], AppliedBy(ShardOf[symbol]), symbol)
  BY DEF Projected
<1>4. AppliedBy(ShardOf[symbol])' = AppliedBy(ShardOf[symbol])
  BY <1>1, <1>2
<1>5. Projects(engines'[symbol].applied, arrivals'[ShardOf[symbol]],
               AppliedBy(ShardOf[symbol])', symbol)
  BY <1>3, <1>4
<1> QED
  BY <1>5 DEF Projects

LEMMA PromisesFrame ==
  ASSUME TypeOK, Promises, Order, arrivals' = arrivals, SameBuffers,
         \A s \in Shard : \A i \in DOMAIN arrivals[s] :
           promise'[arrivals[s][i].id] = promise[arrivals[s][i].id],
         \A s \in Shard : owner'[s].at \in {"popped", "apply", "record", "count", "complete"} <=> Open(s)
  PROVE  Promises'
<1>1. \A s \in Shard : Settled(s)' = Settled(s)
  BY DEF Settled, Taken, Open, SameBuffers
<1>2. ASSUME NEW s \in Shard, NEW i \in 1..Settled(s)'
      PROVE  promise'[arrivals[s][i].id] \in {"detached", "executed"}
  <2>1. i \in 1..Settled(s)
    BY <1>1
  <2>2. i \in DOMAIN arrivals[s]
    <3>1. /\ DOMAIN arrivals[s] = 1..Len(arrivals[s]) /\ Len(arrivals[s]) \in Nat
          /\ Taken(s) \in 0..Len(arrivals[s]) /\ Settled(s) \in 0..Taken(s)
      BY Places
    <3> QED
      BY <2>1, <3>1, SMT
  <2>3. promise[arrivals[s][i].id] \in {"detached", "executed"}
    BY <2>1 DEF Promises
  <2> QED
    BY <2>2, <2>3
<1>3. ASSUME NEW s \in Shard, NEW i \in DOMAIN arrivals[s], i > Settled(s)'
      PROVE  promise'[arrivals[s][i].id] \in {"detached", "unset"}
  <2>1. i > Settled(s)
    BY <1>1, <1>3
  <2>2. promise[arrivals[s][i].id] \in {"detached", "unset"}
    BY <2>1 DEF Promises
  <2> QED
    BY <2>2
<1> QED
  BY <1>2, <1>3 DEF Promises

LEMMA LoggedFrame ==
  ASSUME Logged, engines' = engines, trade_log' = trade_log,
         \A s \in Shard : owner'[s].at = "record" <=> owner[s].at = "record",
         \A s \in Shard : owner[s].at = "record" =>
           owner'[s].command = owner[s].command /\ owner'[s].trades = owner[s].trades
           /\ owner'[s].recorded = owner[s].recorded
  PROVE  Logged'
<1>1. \A symbol \in Symbol : ShardOf[symbol] \in Shard
  BY PartitionAssumption
<1>2. \A s \in Shard : owner[s].at = "record" => Behind(s)' = Behind(s)
  BY DEF Behind
<1>3. \A s \in Shard, symbol \in Symbol : Recording(s, symbol)' <=> Recording(s, symbol)
  BY DEF Recording
<1>4. \A s \in Shard, symbol \in Symbol : Recording(s, symbol) => owner[s].at = "record"
  BY DEF Recording
<1>5. \A s \in Shard : owner'[s].at = "record" =>
       /\ owner'[s].recorded <= Len(owner'[s].trades)
       /\ \A i \in 1..Len(owner'[s].trades) :
            owner'[s].trades[i] = engines[owner'[s].command.symbol].trade_count - Len(owner'[s].trades) + i
       /\ Behind(s)' <= engines[owner'[s].command.symbol].trade_count
  BY <1>2 DEF Logged
<1>6. \A symbol \in Symbol :
        Latest(trade_log[symbol], engines[symbol].trade_count
          - (IF Recording(ShardOf[symbol], symbol)' THEN Behind(ShardOf[symbol])' ELSE 0))
  BY <1>1, <1>2, <1>3, <1>4 DEF Logged
<1> QED
  BY <1>5, <1>6 DEF Logged, Latest

LEMMA SameWay ==
  ASSUME SameBuffers,
         \A c \in Client : client'[c].at \in {"push", "refused"} <=> client[c].at \in {"push", "refused"},
         \A c \in Client : client'[c].at \in {"push", "refused"} => client'[c].command = client[c].command,
         \A s \in Shard : owner'[s].at \notin {"off", "pop", "notify", "exited"} <=> Busy(s),
         \A s \in Shard : Busy(s) => owner'[s].command = owner[s].command
  PROVE  OnTheWay' = OnTheWay
<1>1. \A k : WithClient(k)' <=> WithClient(k)
  BY DEF WithClient
<1>2. \A k : InQueue(k)' <=> InQueue(k)
  BY DEF InQueue, SameBuffers
<1>3. \A k : WithOwner(k)' <=> WithOwner(k)
  BY DEF WithOwner, Busy
<1> QED
  BY <1>1, <1>2, <1>3 DEF OnTheWay

\* A step that moves no command, no promise and no trade.
Quiet ==
  /\ UNCHANGED <<pending, engines, trade_log, promise, history>>
  /\ SameBuffers
  /\ \A s \in Shard : SameOwner(s)
  /\ \A c \in Client : SameClient(c)

Moving == Unique /\ Kept /\ Order /\ Projected /\ Promises /\ Rejects /\ NeverTwice /\ Logged /\ Counted

LEMMA QuietStep ==
  ASSUME TypeOK, Moving, Quiet
  PROVE  Moving'
<1>0. /\ pending' = pending /\ engines' = engines /\ trade_log' = trade_log /\ promise' = promise
      /\ arrivals' = arrivals /\ returned' = returned /\ SameBuffers
      /\ (\A s \in Shard : SameOwner(s)) /\ (\A c \in Client : SameClient(c))
  BY DEF Quiet, history
<1>1. Unique'
  BY <1>0, UniqueFrame DEF Moving, SameClient
<1>2. Kept'
  <2>1. \A c \in Client : client'[c].at \in Sent =>
           client[c].at \in Sent /\ client'[c].command = client[c].command
    BY <1>0 DEF SameClient
  <2>2. \A c \in Client : \A k \in client'[c].debt : k \in client[c].debt \/ k \in returned
    BY <1>0 DEF SameClient
  <2> QED
    BY <1>0, <2>1, <2>2, KeptFrame DEF Moving
<1>3. Order'
  BY <1>0, OrderFrame DEF Moving, SameOwner
<1>4. Projected'
  BY <1>0, ProjectedFrame DEF Moving, SameOwner
<1>5. Promises'
  <2>1. \A s \in Shard : \A i \in DOMAIN arrivals[s] :
           promise'[arrivals[s][i].id] = promise[arrivals[s][i].id]
    BY <1>0
  <2>2. \A s \in Shard : owner'[s].at \in {"popped", "apply", "record", "count", "complete"} <=> Open(s)
    BY <1>0 DEF SameOwner
  <2> QED
    BY <1>0, <2>1, <2>2, PromisesFrame DEF Moving
<1>6. Rejects'
  BY <1>0 DEF Rejects, SameClient
<1>7. NeverTwice'
  BY <1>0 DEF NeverTwice, Moving
<1>8. Logged'
  BY <1>0, LoggedFrame DEF Moving, SameOwner
<1>a. \A c \in Client : client'[c].at \in {"push", "refused"} => client'[c].command = client[c].command
  BY <1>0 DEF SameClient, Unsent
<1>b. \A c \in Client : client'[c].at \in {"push", "refused"} <=> client[c].at \in {"push", "refused"}
  BY <1>0 DEF SameClient
<1>c. /\ \A s \in Shard : owner'[s].at \notin {"off", "pop", "notify", "exited"} <=> Busy(s)
      /\ \A s \in Shard : Busy(s) => owner'[s].command = owner[s].command
  BY <1>0 DEF SameOwner
<1>d. OnTheWay' = OnTheWay
  BY <1>0, <1>a, <1>b, <1>c, SameWay
<1>9. Counted'
  BY <1>0, <1>d DEF Counted, Moving
<1> QED
  BY <1>1, <1>2, <1>3, <1>4, <1>5, <1>6, <1>7, <1>8, <1>9 DEF Moving

-----------------------------------------------------------------------------
(* Types, and what moving a client, an owner or a queue changes *)

Q == QueueOf(Command, Client \cup {"owner"})
ClientRecord == [at : ClientState, call : Operation \cup {"none"},
                 command : Command \cup {NoCommand}, debt : SUBSET Command]
OwnerRecord == [at : OwnerState, command : Command \cup {NoCommand},
                accepted : BOOLEAN, trades : Seq(Nat), recorded : Nat]

LEMMA Types ==
  ASSUME TypeOK
  PROVE  /\ client \in [Client -> ClientRecord] /\ owner \in [Shard -> OwnerRecord]
         /\ queue \in [Shard -> Q]
         /\ \A c \in Client : client[c] \in ClientRecord
         /\ \A s \in Shard : owner[s] \in OwnerRecord
         /\ \A s \in Shard : queue[s] \in Q
<1>1. /\ client \in [Client -> ClientRecord] /\ owner \in [Shard -> OwnerRecord]
      /\ queue \in [Shard -> Q]
  BY DEF TypeOK, ClientRecord, OwnerRecord, Q
<1> QED
  BY <1>1

LEMMA RestType == Resting \in ClientRecord
BY SMT DEF Resting, Calling, ClientRecord, ClientState

LEMMA ClientFields ==
  ASSUME TypeOK, NEW c \in Client
  PROVE  /\ client[c].at \in ClientState /\ client[c].call \in Operation \cup {"none"}
         /\ client[c].command \in Command \cup {NoCommand} /\ client[c].debt \in SUBSET Command
<1>1. client[c] \in ClientRecord
  BY Types
<1> QED
  BY <1>1, SMT DEF ClientRecord

LEMMA OwnerFields ==
  ASSUME TypeOK, NEW s \in Shard
  PROVE  /\ owner[s].at \in OwnerState /\ owner[s].command \in Command \cup {NoCommand}
         /\ owner[s].accepted \in BOOLEAN /\ owner[s].trades \in Seq(Nat)
         /\ owner[s].recorded \in Nat
<1>1. owner[s] \in OwnerRecord
  BY Types
<1> QED
  BY <1>1, SMT DEF OwnerRecord

\* Client c has gone to w, with all it had; or its call has returned.
Moved(c, w) ==
  /\ client' \in [Client -> ClientRecord]
  /\ client'[c].at = w /\ client'[c].call = client[c].call
  /\ client'[c].command = client[c].command /\ client'[c].debt = client[c].debt
  /\ \A d \in Client : d # c => client'[d] = client[d]

Rested(c) ==
  /\ client' \in [Client -> ClientRecord]
  /\ client'[c].at = "rest" /\ client'[c].debt = {}
  /\ \A d \in Client : d # c => client'[d] = client[d]

OwnerMoved(s, w) ==
  /\ owner' \in [Shard -> OwnerRecord]
  /\ owner'[s].at = w /\ owner'[s].command = owner[s].command
  /\ owner'[s].accepted = owner[s].accepted /\ owner'[s].trades = owner[s].trades
  /\ owner'[s].recorded = owner[s].recorded
  /\ \A r \in Shard : r # s => owner'[r] = owner[r]

LEMMA ClientSet ==
  ASSUME TypeOK, NEW c \in Client, NEW r \in ClientRecord, client' = [client EXCEPT ![c] = r]
  PROVE  /\ client' \in [Client -> ClientRecord] /\ client'[c] = r
         /\ \A d \in Client : d # c => client'[d] = client[d]
BY Types

LEMMA OwnerSet ==
  ASSUME TypeOK, NEW s \in Shard, NEW r \in OwnerRecord, owner' = [owner EXCEPT ![s] = r]
  PROVE  /\ owner' \in [Shard -> OwnerRecord] /\ owner'[s] = r
         /\ \A t \in Shard : t # s => owner'[t] = owner[t]
BY Types

LEMMA QueueSet ==
  ASSUME TypeOK, NEW s \in Shard, NEW r \in Q, queue' = [queue EXCEPT ![s] = r]
  PROVE  /\ queue' \in [Shard -> Q] /\ queue'[s] = r
         /\ \A t \in Shard : t # s => queue'[t] = queue[t]
BY Types

LEMMA GotoEffect ==
  ASSUME TypeOK, NEW c \in Client, NEW w \in ClientState, Goto(c, w)
  PROVE  Moved(c, w)
<1> DEFINE r == Calling(w, client[c].call, client[c].command, client[c].debt)
<1>1. /\ r \in ClientRecord /\ r.at = w /\ r.call = client[c].call
      /\ r.command = client[c].command /\ r.debt = client[c].debt
  <2>1. /\ client[c].call \in Operation \cup {"none"}
        /\ client[c].command \in Command \cup {NoCommand} /\ client[c].debt \in SUBSET Command
    BY ClientFields
  <2> QED
    BY <2>1, SMT DEF Calling, ClientRecord
<1>2. client' = [client EXCEPT ![c] = r]
  BY SMT DEF Goto
<1> HIDE DEF r
<1>3. /\ client' \in [Client -> ClientRecord] /\ client'[c] = r
      /\ \A d \in Client : d # c => client'[d] = client[d]
  BY <1>1, <1>2, ClientSet
<1> QED
  BY <1>1, <1>3 DEF Moved

LEMMA ReturnEffect ==
  ASSUME TypeOK, NEW c \in Client, Return(c)
  PROVE  Rested(c)
<1>1. Resting.at = "rest" /\ Resting.debt = {}
  BY SMT DEF Resting, Calling
<1> QED
  BY <1>1, RestType, ClientSet DEF Return, Rested

LEMMA OwnerGotoEffect ==
  ASSUME TypeOK, NEW s \in Shard, NEW w \in OwnerState, OwnerGoto(s, w)
  PROVE  OwnerMoved(s, w)
<1> DEFINE r == Owning(w, owner[s].command, owner[s].accepted, owner[s].trades, owner[s].recorded)
<1>1. /\ r \in OwnerRecord /\ r.at = w /\ r.command = owner[s].command
      /\ r.accepted = owner[s].accepted /\ r.trades = owner[s].trades
      /\ r.recorded = owner[s].recorded
  <2>1. /\ owner[s].command \in Command \cup {NoCommand} /\ owner[s].accepted \in BOOLEAN
        /\ owner[s].trades \in Seq(Nat) /\ owner[s].recorded \in Nat
    BY OwnerFields
  <2> QED
    BY <2>1, SMT DEF Owning, OwnerRecord
<1>2. owner' = [owner EXCEPT ![s] = r]
  BY SMT DEF OwnerGoto
<1> HIDE DEF r
<1>3. /\ owner' \in [Shard -> OwnerRecord] /\ owner'[s] = r
      /\ \A t \in Shard : t # s => owner'[t] = owner[t]
  BY <1>1, <1>2, OwnerSet
<1> QED
  BY <1>1, <1>3 DEF OwnerMoved

LEMMA SameClientMoved ==
  ASSUME Rejects, NEW c \in Client, NEW w, Moved(c, w),
         w \in Unsent => client[c].at \in Unsent, w \in Sent => client[c].at \in Sent,
         w \in {"push", "refused"} <=> client[c].at \in {"push", "refused"},
         w = "reject" => client[c].call = "submit"
  PROVE  \A d \in Client : SameClient(d)
<1>1. SameClient(c)
  BY DEF Moved, SameClient
<1>2. ASSUME NEW d \in Client, d # c PROVE SameClient(d)
  <2>1. client'[d] = client[d]
    BY <1>2 DEF Moved
  <2> QED
    BY <2>1 DEF SameClient, Rejects
<1> QED
  BY <1>1, <1>2

LEMMA SameClientRested ==
  ASSUME Rejects, NEW c \in Client, Rested(c), client[c].at \notin {"push", "refused"}
  PROVE  \A d \in Client : SameClient(d)
<1>1. SameClient(c)
  <2>1. client'[c].at = "rest" /\ client'[c].debt = {}
    BY DEF Rested
  <2> QED
    BY <2>1, SMT DEF SameClient, Unsent, Sent
<1>2. ASSUME NEW d \in Client, d # c PROVE SameClient(d)
  <2>1. client'[d] = client[d]
    BY <1>2 DEF Rested
  <2> QED
    BY <2>1 DEF SameClient, Rejects
<1> QED
  BY <1>1, <1>2

LEMMA SameClientAll ==
  ASSUME Rejects, client' = client
  PROVE  \A d \in Client : SameClient(d)
BY DEF SameClient, Rejects

\* The stages of an owner that count for the invariant.
Stage(w) ==
  IF w \in {"popped", "apply"} THEN 1 ELSE IF w = "record" THEN 2
  ELSE IF w \in {"count", "complete"} THEN 3 ELSE IF w = "finish" THEN 4 ELSE 0

LEMMA SameOwnerAll ==
  ASSUME owner' = owner
  PROVE  \A s \in Shard : SameOwner(s)
BY DEF SameOwner, Busy, Holds, Open

LEMMA SameOwnerMoved ==
  ASSUME TypeOK, NEW s \in Shard, NEW w \in OwnerState, OwnerMoved(s, w), Stage(w) = Stage(owner[s].at)
  PROVE  \A r \in Shard : SameOwner(r)
<1>0. owner[s].at \in OwnerState
  BY OwnerFields
<1>1. SameOwner(s)
  <2>1. /\ owner'[s].at = w /\ owner'[s].command = owner[s].command
        /\ owner'[s].trades = owner[s].trades /\ owner'[s].recorded = owner[s].recorded
    BY DEF OwnerMoved
  <2>2. /\ w \notin {"off", "pop", "notify", "exited"} <=> Stage(w) # 0
        /\ w \in {"popped", "apply"} <=> Stage(w) = 1
        /\ w \in {"popped", "apply", "record", "count", "complete"} <=> Stage(w) \in {1, 2, 3}
        /\ w = "record" <=> Stage(w) = 2
    BY SMT DEF Stage, OwnerState
  <2>3. /\ Busy(s) <=> Stage(owner[s].at) # 0
        /\ Holds(s) <=> Stage(owner[s].at) = 1
        /\ Open(s) <=> Stage(owner[s].at) \in {1, 2, 3}
        /\ owner[s].at = "record" <=> Stage(owner[s].at) = 2
    BY <1>0, SMT DEF Stage, OwnerState, Busy, Holds, Open
  <2> QED
    BY <2>1, <2>2, <2>3 DEF SameOwner
<1>2. ASSUME NEW r \in Shard, r # s PROVE SameOwner(r)
  <2>1. owner'[r] = owner[r]
    BY <1>2 DEF OwnerMoved
  <2> QED
    BY <2>1 DEF SameOwner, Busy, Holds, Open
<1> QED
  BY <1>1, <1>2

\* The queue of one shard is replaced by another with the same items.
SameItems(q, r) == r \in Q /\ r.buffer = q.buffer /\ (q.closed => r.closed)

LEMMA SameItemsSet ==
  ASSUME TypeOK, NEW s \in Shard, NEW r, SameItems(queue[s], r), queue' = [queue EXCEPT ![s] = r]
  PROVE  queue' \in [Shard -> Q] /\ \A t \in Shard : SameItems(queue[t], queue'[t])
<1>1. /\ queue' \in [Shard -> Q] /\ queue'[s] = r
      /\ \A t \in Shard : t # s => queue'[t] = queue[t]
  BY QueueSet DEF SameItems
<1>2. \A t \in Shard : queue'[t] \in Q
  BY <1>1
<1> QED
  BY <1>1, <1>2 DEF SameItems

LEMMA SameItemsAll ==
  ASSUME TypeOK, queue' = queue
  PROVE  queue' \in [Shard -> Q] /\ \A t \in Shard : SameItems(queue[t], queue'[t])
BY Types DEF SameItems

LEMMA SleepEffect ==
  ASSUME NEW q \in Q, NEW t \in Client \cup {"owner"}, NEW cv \in {"not_full", "not_empty"}
  PROVE  SameItems(q, Asleep(q, cv, t))
BY SMT DEF Q, QueueOf, Asleep, SameItems

LEMMA NotifyOneEffect ==
  ASSUME NEW q \in Q, NEW cv \in {"not_full", "not_empty"}, NEW r \in NotifyOne(q, cv)
  PROVE  SameItems(q, r)
BY SMT DEF Q, QueueOf, NotifyOne, SameItems

LEMMA SpuriousEffect ==
  ASSUME NEW q \in Q, NEW r \in SpuriousWakeup(q)
  PROVE  SameItems(q, r)
<1>1. PICK cv \in {"not_full", "not_empty"} : \E t \in q[cv] : r = [q EXCEPT ![cv] = @ \ {t}]
  BY SMT DEF SpuriousWakeup
<1> QED
  BY <1>1, SMT DEF Q, QueueOf, SameItems

LEMMA CloseEffect ==
  ASSUME NEW q \in Q
  PROVE  SameItems(q, Closed(q)) /\ SameItems(q, NotifyAll(q))
         /\ SameItems(q, NotifyAll(Closed(q)))
BY SMT DEF Q, QueueOf, Closed, NotifyAll, Queue, SameItems

LEMMA BuffersSame ==
  ASSUME \A t \in Shard : SameItems(queue[t], queue'[t])
  PROVE  SameBuffers
BY DEF SameItems, SameBuffers

LEMMA StoppingFrame ==
  ASSUME Stopping, phase' = phase,
         \A c \in Client : client'[c].at # "rest" => client[c].at # "rest" \/ phase = "running",
         \A c \in Client : client'[c].at = "wake_idle" => client[c].at = "wake_idle",
         \A s \in Shard : owner'[s].at = "off" => owner[s].at = "off",
         \A s \in Shard : owner'[s].at = "exited" <=> owner[s].at = "exited",
         \A s \in Shard : owner[s].at = "exited" /\ queue[s].closed /\ queue[s].buffer = << >>
                          => queue'[s].closed /\ queue'[s].buffer = << >>
  PROVE  Stopping'
<1>1. \A c \in Client : client'[c].at # "rest" => phase = "running"
  BY DEF Stopping
<1>2. phase = "running" => \A s \in Shard : owner'[s].at # "off"
  BY DEF Stopping
<1>3. \A s \in Shard : owner'[s].at = "exited" => queue'[s].closed /\ queue'[s].buffer = << >>
  BY DEF Stopping
<1>4. \A c \in Client : client'[c].at = "wake_idle" => \A s \in Shard : owner'[s].at = "exited"
  BY DEF Stopping
<1> QED
  BY <1>1, <1>2, <1>3, <1>4 DEF Stopping

DataOK ==
  /\ stats \in [submitted : Nat, processed : Nat, accepted : Nat, rejected : Nat, trades : Nat]
  /\ engines \in [Symbol -> [applied : Seq(Command), trade_count : Nat]]
  /\ trade_log \in [Symbol -> Seq(Nat)]
  /\ promise \in [1..MaxCommands -> {"none", "detached", "unset", "executed",
                                   "shutting_down", "set_twice"}]
  /\ arrivals \in [Shard -> Seq(Command)] /\ returned \subseteq Command

LEMMA TypeStep ==
  ASSUME phase' \in {"constructing", "unwinding", "failed", "running"}, accepting' \in BOOLEAN,
         pending' \in Nat, idle' \subseteq Client, client' \in [Client -> ClientRecord],
         owner' \in [Shard -> OwnerRecord], queue' \in [Shard -> Q], DataOK'
  PROVE  TypeOK'
BY DEF TypeOK, DataOK, ClientRecord, OwnerRecord, Q

LEMMA TypeData ==
  ASSUME TypeOK
  PROVE  /\ DataOK /\ phase \in {"constructing", "unwinding", "failed", "running"}
         /\ accepting \in BOOLEAN /\ pending \in Nat /\ idle \subseteq Client
BY DEF TypeOK, DataOK

LEMMA DataSame ==
  ASSUME DataOK, UNCHANGED <<results, promise, history>>
  PROVE  DataOK'
BY DEF DataOK, results, history

LEMMA Parts ==
  ASSUME EngineInv
  PROVE  TypeOK /\ Moving /\ Stopping
BY DEF EngineInv, Moving

LEMMA Whole ==
  ASSUME TypeOK', Moving', Stopping'
  PROVE  EngineInv'
BY DEF EngineInv, Moving

-----------------------------------------------------------------------------
(* Steps of a client that move no command *)

ClientFrame ==
  /\ owner' = owner /\ queue' \in [Shard -> Q]
  /\ \A s \in Shard : SameItems(queue[s], queue'[s])
  /\ phase' = phase /\ accepting' \in BOOLEAN /\ pending' = pending /\ idle' \subseteq Client
  /\ UNCHANGED <<results, promise, history>>

LEMMA QuietClient ==
  ASSUME EngineInv, NEW c \in Client, client' \in [Client -> ClientRecord],
         \A d \in Client : SameClient(d), \A d \in Client : d # c => client'[d] = client[d],
         phase = "running", client'[c].at # "wake_idle", ClientFrame
  PROVE  EngineInv'
<1>0. TypeOK /\ Moving /\ Stopping
  BY Parts
<1>1. TypeOK'
  <2>1. DataOK /\ phase \in {"constructing", "unwinding", "failed", "running"} /\ pending \in Nat
        /\ owner \in [Shard -> OwnerRecord]
    BY <1>0, TypeData, Types
  <2>2. DataOK'
    BY <2>1, DataSame DEF ClientFrame
  <2> QED
    BY <2>1, <2>2, TypeStep DEF ClientFrame
<1>2. Quiet
  <2>1. \A s \in Shard : SameOwner(s)
    BY SameOwnerAll DEF ClientFrame
  <2>2. SameBuffers
    BY BuffersSame DEF ClientFrame
  <2>3. UNCHANGED <<pending, engines, trade_log, promise, history>>
    BY DEF ClientFrame, results
  <2> QED
    BY <2>1, <2>2, <2>3 DEF Quiet
<1>3. Moving'
  BY <1>0, <1>2, QuietStep
<1>4. Stopping'
  <2>1. phase' = phase /\ owner' = owner
    BY DEF ClientFrame
  <2>2. \A d \in Client : client'[d].at = "wake_idle" => client[d].at = "wake_idle"
    OBVIOUS
  <2>3. \A s \in Shard : /\ owner'[s].at = "off" => owner[s].at = "off"
                         /\ owner'[s].at = "exited" <=> owner[s].at = "exited"
    BY <2>1
  <2>4. \A s \in Shard : queue[s].closed /\ queue[s].buffer = << >>
                         => queue'[s].closed /\ queue'[s].buffer = << >>
    BY DEF ClientFrame, SameItems
  <2> QED
    BY <1>0, <2>1, <2>2, <2>3, <2>4, StoppingFrame
<1> QED
  BY <1>1, <1>3, <1>4, Whole

LEMMA Active ==
  ASSUME EngineInv, NEW c \in Client, client[c].at # "rest"
  PROVE  phase = "running"
BY DEF EngineInv, Stopping

LEMMA QuietGoto ==
  ASSUME EngineInv, NEW c \in Client, NEW w \in ClientState, Goto(c, w), w # "wake_idle",
         w \in Unsent => client[c].at \in Unsent, w \in Sent => client[c].at \in Sent,
         w \in {"push", "refused"} <=> client[c].at \in {"push", "refused"},
         w = "reject" => client[c].call = "submit",
         client[c].at # "rest", ClientFrame
  PROVE  EngineInv'
<1>1. Moved(c, w) /\ Rejects
  BY GotoEffect DEF EngineInv
<1>2. \A d \in Client : SameClient(d)
  BY <1>1, SameClientMoved
<1>3. phase = "running"
  BY Active
<1>4. /\ client' \in [Client -> ClientRecord] /\ client'[c].at = w
      /\ \A d \in Client : d # c => client'[d] = client[d]
  BY <1>1 DEF Moved
<1> QED
  BY <1>2, <1>3, <1>4, QuietClient

LEMMA QuietReturn ==
  ASSUME EngineInv, NEW c \in Client, Return(c), client[c].at \notin {"push", "refused", "rest"},
         ClientFrame
  PROVE  EngineInv'
<1>1. Rested(c) /\ Rejects
  BY ReturnEffect DEF EngineInv
<1>2. \A d \in Client : SameClient(d)
  BY <1>1, SameClientRested
<1>3. phase = "running"
  BY Active
<1>4. /\ client' \in [Client -> ClientRecord] /\ client'[c].at # "wake_idle"
      /\ \A d \in Client : d # c => client'[d] = client[d]
  BY <1>1 DEF Rested
<1> QED
  BY <1>2, <1>3, <1>4, QuietClient

\* enqueueCommand returns false, from a place where the command is not counted.
LEMMA QuietReturnFalse ==
  ASSUME EngineInv, NEW c \in Client, ReturnFalse(c), client[c].at \in {"gate", "refused_notify"},
         ClientFrame
  PROVE  EngineInv'
<1>0. client[c].at \in Unsent /\ client[c].at \notin {"push", "refused", "rest"}
  BY DEF Unsent
<1>1. CASE client[c].call = "submit"
  <2>1. Goto(c, "reject")
    BY <1>1 DEF ReturnFalse
  <2>2. "reject" \in ClientState /\ "reject" \notin Sent /\ "reject" \notin {"push", "refused", "wake_idle"}
    BY SMT DEF ClientState, Sent
  <2> QED
    BY <1>0, <1>1, <2>1, <2>2, QuietGoto
<1>2. CASE client[c].call # "submit"
  <2>1. Return(c)
    BY <1>2 DEF ReturnFalse
  <2> QED
    BY <1>0, <2>1, QuietReturn
<1> QED
  BY <1>1, <1>2

LEMMA IdleFrame ==
  ASSUME TypeOK, phase' = phase, accepting' \in BOOLEAN, idle' \subseteq Client,
         UNCHANGED <<pending, queue, owner, promise, results, history>>
  PROVE  ClientFrame
BY SameItemsAll DEF ClientFrame

LEMMA QueueFrame ==
  ASSUME TypeOK, NEW s \in Shard, NEW r, SameItems(queue[s], r), queue' = [queue EXCEPT ![s] = r],
         UNCHANGED <<config, pending, owner, idle, promise, results, history>>
  PROVE  ClientFrame
<1>1. /\ queue' \in [Shard -> Q] /\ \A t \in Shard : SameItems(queue[t], queue'[t])
  BY SameItemsSet
<1>2. phase' = phase /\ accepting' = accepting
  BY DEF config
<1> QED
  BY <1>1, <1>2, TypeData DEF ClientFrame

LEMMA TypeOf == ASSUME EngineInv PROVE TypeOK BY DEF EngineInv

LEMMA GateStep ==
  ASSUME EngineInv, NEW c \in Client, Gate(c) PROVE EngineInv'
<1>0. TypeOK /\ client[c].at = "gate" /\ UNCHANGED <<config, pending, queue, owner, idle, promise, results, history>>
  BY TypeOf DEF Gate
<1>1. ClientFrame
  BY <1>0, TypeData, IdleFrame DEF config
<1>2. CASE accepting
  <2>1. Goto(c, "count")
    BY <1>2 DEF Gate
  <2>2. "count" \in ClientState /\ "count" \in Unsent /\ "gate" \in Unsent /\ "count" \notin Sent
        /\ "count" \notin {"push", "refused", "reject", "wake_idle"} /\ "gate" \notin {"push", "refused", "rest"}
    BY SMT DEF ClientState, Sent, Unsent
  <2> QED
    BY <1>0, <1>1, <2>1, <2>2, QuietGoto
<1>3. CASE ~accepting
  <2>1. ReturnFalse(c)
    BY <1>3 DEF Gate
  <2> QED
    BY <1>0, <1>1, <2>1, QuietReturnFalse
<1> QED
  BY <1>2, <1>3

LEMMA RefusedNotifyStep ==
  ASSUME EngineInv, NEW c \in Client, RefusedNotify(c) PROVE EngineInv'
<1>0. /\ TypeOK /\ client[c].at = "refused_notify" /\ idle' = {} /\ ReturnFalse(c)
      /\ UNCHANGED <<config, pending, queue, owner, promise, results, history>>
  BY TypeOf DEF RefusedNotify
<1>1. ClientFrame
  BY <1>0, TypeData, IdleFrame DEF config
<1> QED
  BY <1>0, <1>1, QuietReturnFalse

LEMMA ShardForClient ==
  ASSUME EngineInv, NEW c \in Client, client[c].at \in Unsent \cup Sent
  PROVE  client[c].command \in Command /\ ShardFor(c) \in Shard
<1>1. ASSUME client[c].at \in Unsent PROVE client[c].command \in Command
  BY <1>1 DEF EngineInv, Unique, Own
<1>2. ASSUME client[c].at \in Sent PROVE client[c].command \in Command
  <2>1. Entered(client[c].command)
    BY <1>2 DEF EngineInv, Kept
  <2>2. PICK s \in Shard : \E i \in DOMAIN arrivals[s] : arrivals[s][i] = client[c].command
    BY <2>1 DEF Entered
  <2>3. arrivals[s] \in Seq(Command)
    BY TypeOf, TypeData DEF DataOK
  <2> QED
    BY <2>2, <2>3, SMT
<1>3. client[c].command \in Command
  BY <1>1, <1>2
<1>4. client[c].command.symbol \in Symbol
  BY <1>3, SMT DEF Command
<1> QED
  BY <1>3, <1>4, PartitionAssumption DEF ShardFor, CommandOf

LEMMA NotifyOwnerStep ==
  ASSUME EngineInv, NEW c \in Client, NotifyOwner(c) PROVE EngineInv'
<1> DEFINE s == ShardFor(c)
<1>0. /\ TypeOK /\ client[c].at = "pushed" /\ Goto(c, "submitted")
      /\ UNCHANGED <<config, pending, owner, idle, promise, results, history>>
  BY TypeOf DEF NotifyOwner
<1>1. PICK r \in NotifyOne(queue[s], "not_empty") : queue' = [queue EXCEPT ![s] = r]
  BY DEF NotifyOwner
<1>2. s \in Shard
  BY <1>0, ShardForClient DEF Sent
<1> HIDE DEF s
<1>3. SameItems(queue[s], r)
  BY <1>0, <1>1, <1>2, Types, NotifyOneEffect
<1>4. ClientFrame
  BY <1>0, <1>1, <1>2, <1>3, QueueFrame
<1>5. "submitted" \in ClientState /\ "submitted" \notin Unsent /\ "pushed" \in Sent
      /\ "submitted" \notin {"push", "refused", "reject", "wake_idle"} /\ "pushed" \notin {"push", "refused", "rest"}
  BY SMT DEF ClientState, Sent, Unsent
<1> QED
  BY <1>0, <1>4, <1>5, QuietGoto

LEMMA WaitStep ==
  ASSUME EngineInv, NEW c \in Client, WaitUntilIdle(c) \/ Block(c) \/ Shutdown(c) \/ WakeIdle(c)
  PROVE  EngineInv'
<1>0. /\ TypeOK /\ client[c].at \in {"wait", "block", "stop", "wake_idle"}
      /\ phase' = phase /\ UNCHANGED <<pending, queue, owner, promise, results, history>>
  BY TypeOf DEF WaitUntilIdle, Block, Shutdown, WakeIdle, config
<1>1. accepting' \in BOOLEAN /\ idle' \subseteq Client
  <2>1. accepting' \in {accepting, FALSE} /\ idle' \in {idle, idle \cup {c}, {}}
    BY DEF WaitUntilIdle, Block, Shutdown, WakeIdle, config
  <2>2. accepting \in BOOLEAN /\ idle \subseteq Client
    BY <1>0, TypeData
  <2> QED
    BY <2>1, <2>2
<1>2. ClientFrame
  BY <1>0, <1>1, IdleFrame
<1>3. Return(c) \/ \E w \in {"block", "wait", "close"} : Goto(c, w)
  BY DEF WaitUntilIdle, Block, Shutdown, WakeIdle
<1>4. client[c].at \notin {"push", "refused", "rest"}
  BY <1>0
<1>5. CASE Return(c)
  BY <1>2, <1>4, <1>5, QuietReturn
<1>6. ASSUME NEW w \in {"block", "wait", "close"}, Goto(c, w) PROVE EngineInv'
  <2>1. w \in ClientState /\ w \notin Unsent /\ w \notin Sent /\ w \notin {"push", "refused", "reject", "wake_idle"}
    BY DEF ClientState, Sent, Unsent
  <2> QED
    BY <1>2, <1>4, <1>6, <2>1, QuietGoto
<1> QED
  BY <1>3, <1>5, <1>6

LEMMA CloseStep ==
  ASSUME EngineInv, NEW c \in Client, CloseQueue(c) PROVE EngineInv'
<1> DEFINE s == Min({r \in Shard : ~queue[r].closed})
<1>0. /\ TypeOK /\ client[c].at = "close" /\ Goto(c, "wake")
      /\ queue' = [queue EXCEPT ![s] = Closed(queue[s])]
      /\ UNCHANGED <<config, pending, owner, idle, promise, results, history>>
  BY TypeOf, SMT DEF CloseQueue
<1> HIDE DEF s
<1>1. queue' \in [Shard -> Q] /\ \A t \in Shard : SameItems(queue[t], queue'[t])
  <2>1. queue \in [Shard -> Q] /\ \A t \in Shard : queue[t] \in Q
    BY <1>0, Types
  <2>2. CASE s \in Shard
    BY <1>0, <2>1, <2>2, CloseEffect, SameItemsSet
  <2>3. CASE s \notin Shard
    <3>1. queue' = queue
      BY <1>0, <2>1, <2>3, SMT
    <3> QED
      BY <1>0, <3>1, SameItemsAll
  <2> QED
    BY <2>2, <2>3
<1>2. ClientFrame
  BY <1>0, <1>1, TypeData DEF ClientFrame, config
<1>3. "wake" \in ClientState /\ "wake" \notin Unsent /\ "wake" \notin Sent
      /\ "wake" \notin {"push", "refused", "reject", "wake_idle"} /\ "close" \notin {"push", "refused", "rest"}
  BY SMT DEF ClientState, Sent, Unsent
<1> QED
  BY <1>0, <1>2, <1>3, QuietGoto

LEMMA WakeStep ==
  ASSUME EngineInv, NEW c \in Client, WakeQueue(c) PROVE EngineInv'
<1> DEFINE s == Max({r \in Shard : queue[r].closed})
<1>0. /\ TypeOK /\ client[c].at = "wake" /\ Goto(c, IF s = ShardCount THEN "join" ELSE "close")
      /\ queue' = [queue EXCEPT ![s] = NotifyAll(queue[s])]
      /\ UNCHANGED <<config, pending, owner, idle, promise, results, history>>
  BY TypeOf, SMT DEF WakeQueue
<1> HIDE DEF s
<1>1. queue' \in [Shard -> Q] /\ \A t \in Shard : SameItems(queue[t], queue'[t])
  <2>1. queue \in [Shard -> Q] /\ \A t \in Shard : queue[t] \in Q
    BY <1>0, Types
  <2>2. CASE s \in Shard
    BY <1>0, <2>1, <2>2, CloseEffect, SameItemsSet
  <2>3. CASE s \notin Shard
    <3>1. queue' = queue
      BY <1>0, <2>1, <2>3, SMT
    <3> QED
      BY <1>0, <3>1, SameItemsAll
  <2> QED
    BY <2>2, <2>3
<1>2. ClientFrame
  BY <1>0, <1>1, TypeData DEF ClientFrame, config
<1>3. ASSUME NEW w \in {"join", "close"}, Goto(c, w) PROVE EngineInv'
  <2>1. w \in ClientState /\ w \notin Unsent /\ w \notin Sent
        /\ w \notin {"push", "refused", "reject", "wake_idle"} /\ "wake" \notin {"push", "refused", "rest"}
    BY DEF ClientState, Sent, Unsent
  <2> QED
    BY <1>0, <1>2, <1>3, <2>1, QuietGoto
<1>4. \E w \in {"join", "close"} : Goto(c, w)
  BY <1>0
<1> QED
  BY <1>3, <1>4

\* All owners have exited when join() returns.
LEMMA JoinStep ==
  ASSUME EngineInv, NEW c \in Client, Join(c) PROVE EngineInv'
<1>0. /\ TypeOK /\ Moving /\ Stopping /\ client[c].at = "join" /\ Joined /\ Goto(c, "wake_idle")
      /\ UNCHANGED <<config, pending, queue, owner, idle, promise, results, history>>
  BY Parts DEF Join
<1>1. ClientFrame
  BY <1>0, TypeData, IdleFrame DEF config
<1>2. phase = "running"
  BY <1>0, Active
<1>3. "wake_idle" \in ClientState /\ "wake_idle" \notin Unsent /\ "wake_idle" \notin Sent
      /\ "wake_idle" \notin {"push", "refused", "reject"} /\ "join" \notin {"push", "refused", "rest"}
  BY SMT DEF ClientState, Sent, Unsent
<1>4. Moved(c, "wake_idle")
  BY <1>0, <1>3, GotoEffect
<1>5. \A d \in Client : SameClient(d)
  BY <1>0, <1>3, <1>4, SameClientMoved DEF Moving
<1>6. TypeOK'
  <2>1. DataOK /\ owner \in [Shard -> OwnerRecord] /\ phase \in {"constructing", "unwinding", "failed", "running"} /\ pending \in Nat
    BY <1>0, TypeData, Types
  <2>2. DataOK'
    BY <1>0, <2>1, DataSame
  <2> QED
    BY <1>1, <1>4, <2>1, <2>2, TypeStep DEF ClientFrame, Moved
<1>7. Moving'
  <2>1. Quiet
    BY <1>0, <1>5, SameOwnerAll DEF Quiet, SameBuffers, results
  <2> QED
    BY <1>0, <2>1, QuietStep
<1>8. Stopping'
  <2>1. phase' = phase /\ owner' = owner /\ queue' = queue
    BY <1>0 DEF config
  <2>2. \A s \in Shard : owner[s].at = "exited"
    BY <1>0, <1>2 DEF Stopping, Joined
  <2>3. \A d \in Client : client'[d].at # "rest" => phase = "running"
    BY <1>2
  <2> QED
    BY <1>0, <2>1, <2>2, <2>3 DEF Stopping
<1> QED
  BY <1>6, <1>7, <1>8, Whole

LEMMA BeginControlStep ==
  ASSUME EngineInv, NEW c \in Client, NEW call, BeginControl(c, call) PROVE EngineInv'
<1>0. /\ TypeOK /\ phase = "running" /\ client[c] = Resting /\ call \in Operation \ Pushing
      /\ UNCHANGED <<config, pending, queue, owner, idle, promise, results, history>>
  BY TypeOf, PartitionAssumption DEF BeginControl
<1> DEFINE r == IF call = "shutdown" THEN Calling("stop", call, NoCommand, {})
                                     ELSE Calling("wait", call, NoCommand, returned)
<1>1. /\ r \in ClientRecord /\ r.at \in {"stop", "wait"} /\ \A k \in r.debt : k \in returned
  <2>1. returned \subseteq Command
    BY <1>0, TypeData DEF DataOK
  <2> QED
    BY <1>0, <2>1, SMT DEF Calling, ClientRecord, ClientState
<1>2. client' = [client EXCEPT ![c] = r]
  BY DEF BeginControl
<1> HIDE DEF r
<1>3. /\ client' \in [Client -> ClientRecord] /\ client'[c] = r
      /\ \A d \in Client : d # c => client'[d] = client[d]
  BY <1>0, <1>1, <1>2, ClientSet
<1>4. Resting.at = "rest"
  BY SMT DEF Resting, Calling
<1>5. \A d \in Client : SameClient(d)
  <2>1. SameClient(c)
    BY <1>0, <1>1, <1>3, <1>4 DEF SameClient, Unsent, Sent
  <2>2. ASSUME NEW d \in Client, d # c PROVE SameClient(d)
    BY <1>3, <2>2 DEF SameClient, EngineInv, Rejects
  <2> QED
    BY <2>1, <2>2
<1>6. ClientFrame
  BY <1>0, TypeData, IdleFrame DEF config
<1>7. client'[c].at # "wake_idle"
  BY <1>1, <1>3
<1> QED
  BY <1>0, <1>3, <1>5, <1>6, <1>7, QuietClient

-----------------------------------------------------------------------------
(* Steps of a client that start a call, or move its command *)

LEMMA IssuedIs ==
  ASSUME EngineInv
  PROVE  Issued \in 0..MaxCommands /\ \A i \in 1..MaxCommands : promise[i] # "none" <=> i <= Issued
<1>1. PICK n \in 0..MaxCommands : \A i \in 1..MaxCommands : promise[i] # "none" <=> i <= n
  BY DEF EngineInv, Unique, Numbered
<1> QED
  BY <1>1 DEF Issued

LEMMA EnteredIssued ==
  ASSUME EngineInv, NEW s \in Shard, NEW i \in DOMAIN arrivals[s]
  PROVE  /\ arrivals[s][i] \in Command /\ arrivals[s][i].id \in 1..MaxCommands
         /\ promise[arrivals[s][i].id] \in {"detached", "unset", "executed"}
<1>1. /\ arrivals[s] \in Seq(Command) /\ DOMAIN arrivals[s] = 1..Len(arrivals[s])
      /\ Len(arrivals[s]) \in Nat /\ Taken(s) \in 0..Len(arrivals[s]) /\ Settled(s) \in 0..Taken(s)
  BY Places DEF EngineInv
<1>2. arrivals[s][i] \in Command
  BY <1>1, SMT
<1>3. i \in 1..Settled(s) \/ i > Settled(s)
  BY <1>1, SMT
<1>4. promise[arrivals[s][i].id] \in {"detached", "unset", "executed"}
  BY <1>3 DEF EngineInv, Promises
<1> QED
  BY <1>2, <1>4, SMT DEF Command

\* A step that leaves the shards alone.
LEMMA ShardsFrame ==
  ASSUME TypeOK, Moving, UNCHANGED <<queue, owner, engines, trade_log, arrivals>>,
         \A s \in Shard : \A i \in DOMAIN arrivals[s] :
           promise'[arrivals[s][i].id] = promise[arrivals[s][i].id]
  PROVE  /\ Order' /\ Projected' /\ Promises' /\ Logged'
         /\ SameBuffers /\ \A s \in Shard : SameOwner(s)
<1>1. SameBuffers /\ \A s \in Shard : SameOwner(s)
  BY SameOwnerAll DEF SameBuffers
<1>2. Order'
  BY <1>1, OrderFrame DEF Moving, SameOwner
<1>3. Projected'
  BY <1>1, ProjectedFrame DEF Moving, SameOwner
<1>4. Promises'
  BY <1>1, PromisesFrame DEF Moving, SameOwner
<1>5. Logged'
  BY <1>1, LoggedFrame DEF Moving, SameOwner
<1> QED
  BY <1>1, <1>2, <1>3, <1>4, <1>5

\* A command gets an id that nobody has.
LEMMA BeginStep ==
  ASSUME EngineInv, NEW c \in Client, NEW call, NEW symbol \in Symbol, Begin(c, call, symbol)
  PROVE  EngineInv'
<1> DEFINE n == Issued + 1
           k == [id |-> n, symbol |-> symbol]
           v == IF call = "submit" THEN "unset" ELSE "detached"
           r == Calling("gate", call, k, {})
<1>0. /\ TypeOK /\ Moving /\ Stopping /\ phase = "running" /\ client[c] = Resting
      /\ call \in Pushing /\ client' = [client EXCEPT ![c] = r]
      /\ promise' = [promise EXCEPT ![n] = v] /\ Issued < MaxCommands
      /\ UNCHANGED <<config, pending, queue, owner, idle, results, history>>
  BY Parts, PartitionAssumption DEF Begin
<1>1. /\ n \in 1..MaxCommands /\ promise[n] = "none"
      /\ \A i \in 1..MaxCommands : promise[i] # "none" \/ i = n <=> i <= n
  <2>1. PICK m \in 0..MaxCommands : m = Issued
    BY IssuedIs
  <2>2. /\ m + 1 \in 1..MaxCommands /\ ~(m + 1 <= m)
        /\ \A i \in 1..MaxCommands : i <= m \/ i = m + 1 <=> i <= m + 1
    BY <1>0, <2>1, PartitionAssumption, SMT
  <2> QED
    BY <2>1, <2>2, IssuedIs
<1>2. k \in Command /\ k.id = n
  BY <1>1, SMT DEF Command
<1>3. /\ promise' \in [1..MaxCommands -> {"none", "detached", "unset", "executed", "shutting_down", "set_twice"}]
      /\ promise'[n] = v /\ \A i \in 1..MaxCommands : i # n => promise'[i] = promise[i]
  <2>1. promise \in [1..MaxCommands -> {"none", "detached", "unset", "executed", "shutting_down", "set_twice"}]
    BY <1>0, TypeData DEF DataOK
  <2> QED
    BY <1>0, <1>1, <2>1, SMT
<1>4. r \in ClientRecord /\ r.at = "gate" /\ r.call = call /\ r.command = k /\ r.debt = {}
  <2> HIDE DEF k
  <2> QED
    BY <1>0, <1>2, SMT DEF Calling, ClientRecord, ClientState, Pushing, Operation
<1>v. v \in {"unset", "detached"} /\ v = IF call = "submit" THEN "unset" ELSE "detached"
  OBVIOUS
<1> HIDE DEF n, k, v, r
<1>5. /\ client' \in [Client -> ClientRecord] /\ client'[c] = r
      /\ \A d \in Client : d # c => client'[d] = client[d]
  BY <1>0, <1>4, ClientSet
<1>6. Resting.at = "rest"
  BY SMT DEF Resting, Calling
<1>7. \A s \in Shard : \A i \in DOMAIN arrivals[s] :
        /\ arrivals[s][i].id # n
        /\ promise'[arrivals[s][i].id] = promise[arrivals[s][i].id]
  BY <1>1, <1>3, EnteredIssued
<1>8. \A d \in Client : client[d].at \in Unsent => Own(d) /\ client[d].command.id # n
                        /\ promise'[client[d].command.id] = promise[client[d].command.id]
  <2> SUFFICES ASSUME NEW d \in Client, client[d].at \in Unsent
               PROVE  Own(d) /\ client[d].command.id # n
                      /\ promise'[client[d].command.id] = promise[client[d].command.id]
    OBVIOUS
  <2>1. Own(d)
    BY <1>0 DEF Moving, Unique
  <2>2. client[d].command.id \in 1..MaxCommands
    BY <2>1, SMT DEF Own, Command
  <2>3. promise[client[d].command.id] # "none"
    BY <2>1 DEF Own
  <2> QED
    BY <1>1, <1>3, <2>1, <2>2, <2>3
<1>9. TypeOK'
  <2>1. DataOK'
    BY <1>0, <1>3, TypeData DEF DataOK, results, history
  <2>2. /\ owner \in [Shard -> OwnerRecord] /\ queue \in [Shard -> Q]
        /\ phase \in {"constructing", "unwinding", "failed", "running"}
        /\ accepting \in BOOLEAN /\ pending \in Nat /\ idle \subseteq Client
    BY <1>0, TypeData, Types
  <2> QED
    BY <1>0, <1>5, <2>1, <2>2, TypeStep DEF config
<1>10. Unique'
  <2>1. Numbered'
    <3>1. \A i \in 1..MaxCommands : promise'[i] # "none" <=> i <= n
      BY <1>1, <1>3, <1>v
    <3>2. n \in 0..MaxCommands
      BY <1>1, PartitionAssumption, SMT
    <3> QED
      BY <3>1, <3>2 DEF Numbered
  <2>2. ASSUME NEW d \in Client, client'[d].at \in Unsent PROVE Own(d)'
    <3>1. CASE d = c
      <4>1. client'[c].command = k /\ client'[c].call = call /\ arrivals' = arrivals
        BY <1>0, <1>4, <1>5 DEF history
      <4>2. k \in Command /\ promise'[k.id] = IF call = "submit" THEN "unset" ELSE "detached"
        BY <1>2, <1>3, <1>v
      <4>3. \A s \in Shard : \A i \in DOMAIN arrivals[s] : arrivals[s][i].id # k.id
        BY <1>2, <1>7
      <4> QED
        BY <3>1, <4>1, <4>2, <4>3 DEF Own
    <3>2. CASE d # c
      <4>1. client'[d] = client[d]
        BY <1>5, <3>2
      <4>2. Own(d) /\ promise'[client[d].command.id] = promise[client[d].command.id]
        BY <1>8, <2>2, <4>1
      <4>3. arrivals' = arrivals
        BY <1>0 DEF history
      <4> QED
        BY <4>1, <4>2, <4>3 DEF Own
    <3> QED
      BY <3>1, <3>2
  <2>3. OneOwner'
    <3> SUFFICES ASSUME NEW d \in Client, NEW e \in Client, client'[d].at \in Unsent,
                        client'[e].at \in Unsent, client'[d].command.id = client'[e].command.id
                 PROVE  d = e
      BY DEF OneOwner
    <3>1. CASE d = c \/ e = c
      BY <1>2, <1>4, <1>5, <1>8, <3>1
    <3>2. CASE d # c /\ e # c
      BY <1>0, <1>5, <3>2 DEF Moving, Unique, OneOwner
    <3> QED
      BY <3>1, <3>2
  <2>4. Distinct'
    <3>1. Distinct /\ arrivals' = arrivals
      BY <1>0 DEF Moving, Unique, history
    <3> QED
      BY <3>1, SMT DEF Distinct
  <2> QED
    BY <2>1, <2>2, <2>3, <2>4 DEF Unique
<1>11. Kept'
  <2>1. \A d \in Client : client'[d].at \in Sent =>
           client[d].at \in Sent /\ client'[d].command = client[d].command
    BY <1>4, <1>5 DEF Sent
  <2>2. \A d \in Client : \A x \in client'[d].debt : x \in client[d].debt \/ x \in returned
    BY <1>4, <1>5
  <2> QED
    BY <1>0, <2>1, <2>2, KeptFrame DEF Moving, history
<1>12. Order' /\ Projected' /\ Promises' /\ Logged'
  BY <1>0, <1>7, ShardsFrame DEF history, results
<1>13. Rejects' /\ NeverTwice'
  <2>1. Rejects'
    BY <1>0, <1>4, <1>5 DEF Moving, Rejects
  <2>2. NeverTwice'
    BY <1>0, <1>1, <1>3, <1>v DEF Moving, NeverTwice
  <2> QED
    BY <2>1, <2>2
<1>14. Counted'
  <2>1. OnTheWay' = OnTheWay
    <3>1. SameBuffers /\ \A s \in Shard : SameOwner(s)
      BY <1>0, SameOwnerAll DEF SameBuffers
    <3>2. \A d \in Client : client'[d].at \in {"push", "refused"} <=> client[d].at \in {"push", "refused"}
      BY <1>0, <1>4, <1>5, <1>6
    <3>3. \A d \in Client : client'[d].at \in {"push", "refused"} => client'[d].command = client[d].command
      BY <1>4, <1>5
    <3> QED
      BY <3>1, <3>2, <3>3, SameWay DEF SameOwner
  <2> QED
    BY <1>0, <2>1 DEF Counted, Moving
<1>15. Stopping'
  <2>1. phase' = phase /\ owner' = owner /\ queue' = queue
    BY <1>0 DEF config
  <2>2. \A d \in Client : client'[d].at = "wake_idle" => client[d].at = "wake_idle"
    BY <1>4, <1>5
  <2> QED
    BY <1>0, <2>1, <2>2, StoppingFrame
<1> QED
  BY <1>9, <1>10, <1>11, <1>12, <1>13, <1>14, <1>15 DEF EngineInv

LEMMA WaysEntered ==
  ASSUME EngineInv, NEW k, InQueue(k) \/ WithOwner(k)
  PROVE  Entered(k)
<1>1. CASE InQueue(k)
  <2>1. PICK s \in Shard : \E i \in DOMAIN queue[s].buffer : queue[s].buffer[i] = k
    BY <1>1 DEF InQueue
  <2>2. PICK i \in DOMAIN queue[s].buffer : queue[s].buffer[i] = k
    BY <2>1
  <2>3. arrivals[s][Taken(s) + i] = k
    BY <2>2 DEF EngineInv, Order
  <2>4. /\ DOMAIN arrivals[s] = 1..Len(arrivals[s]) /\ Taken(s) = Len(arrivals[s]) - Len(queue[s].buffer)
        /\ Len(arrivals[s]) \in Nat /\ Len(queue[s].buffer) \in Nat
        /\ Taken(s) \in 0..Len(arrivals[s]) /\ DOMAIN queue[s].buffer = 1..Len(queue[s].buffer)
    BY Places DEF EngineInv
  <2>5. Taken(s) + i \in DOMAIN arrivals[s]
    <3>1. PICK a \in Nat, b \in Nat : a = Len(arrivals[s]) /\ b = Len(queue[s].buffer)
      BY <2>4
    <3>2. Taken(s) = a - b /\ Taken(s) \in 0..a /\ i \in 1..b
      BY <2>4, <3>1
    <3>3. Taken(s) + i \in 1..a
      BY <3>2, SMT
    <3> QED
      BY <2>4, <3>1, <3>3
  <2> QED
    BY <2>3, <2>5 DEF Entered
<1>2. CASE WithOwner(k)
  <2>1. PICK s \in Shard : Busy(s) /\ owner[s].command = k
    BY <1>2 DEF WithOwner
  <2>2. Taken(s) >= 1 /\ arrivals[s][Taken(s)] = k
    BY <2>1 DEF EngineInv, Order
  <2>3. /\ DOMAIN arrivals[s] = 1..Len(arrivals[s]) /\ Len(arrivals[s]) \in Nat
        /\ Taken(s) \in 0..Len(arrivals[s])
    BY Places DEF EngineInv
  <2>4. Taken(s) \in DOMAIN arrivals[s]
    BY <2>2, <2>3, SMT
  <2> QED
    BY <2>2, <2>4 DEF Entered
<1> QED
  BY <1>1, <1>2

\* The command of a client that has not pushed it is nowhere else.
LEMMA Unshared ==
  ASSUME EngineInv, NEW c \in Client, client[c].at \in Unsent
  PROVE  /\ client[c].command \in Command
         /\ ~InQueue(client[c].command) /\ ~WithOwner(client[c].command)
         /\ \A d \in Client : client[d].at \in {"push", "refused"} /\ client[d].command = client[c].command
                              => d = c
<1>1. Own(c) /\ OneOwner
  BY DEF EngineInv, Unique
<1>2. ~Entered(client[c].command)
  BY <1>1 DEF Own, Entered
<1>3. ~InQueue(client[c].command) /\ ~WithOwner(client[c].command)
  BY <1>2, WaysEntered
<1>4. \A d \in Client : client[d].at \in {"push", "refused"} => client[d].at \in Unsent
  BY DEF Unsent
<1>5. \A d \in Client : client[d].at \in {"push", "refused"} /\ client[d].command = client[c].command => d = c
  BY <1>1, <1>4 DEF OneOwner
<1> QED
  BY <1>1, <1>3, <1>5 DEF Own

\* A set is numbered 1..n when a function does it, and what that means for one
\* element more or less.
Numbers(f, S, n) ==
  /\ f \in [S -> 1..n]
  /\ \A x, y \in S : f[x] = f[y] => x = y
  /\ \A i \in 1..n : \E x \in S : f[x] = i

LEMMA Numbering ==
  ASSUME NEW S, NEW n PROVE ExistsBijection(S, 1..n) <=> \E f : Numbers(f, S, n)
<1>1. \A f : f \in Bijection(S, 1..n) <=> Numbers(f, S, n)
  BY SMT DEF Bijection, Injection, Surjection, IsInjective, Numbers
<1> QED
  BY <1>1 DEF ExistsBijection

LEMMA NumberMore ==
  ASSUME NEW S, NEW k, k \notin S, NEW n \in Nat, NEW f, Numbers(f, S, n)
  PROVE  \E g : Numbers(g, S \cup {k}, n + 1)
<1> DEFINE g == [x \in S \cup {k} |-> IF x = k THEN n + 1 ELSE f[x]]
<1>1. \A x \in S : f[x] \in 1..n /\ f[x] # n + 1 /\ g[x] = f[x]
  BY SMT DEF Numbers
<1>2. g[k] = n + 1
  OBVIOUS
<1>3. g \in [S \cup {k} -> 1..(n + 1)]
  BY SMT DEF Numbers
<1>4. \A x, y \in S \cup {k} : g[x] = g[y] => x = y
  BY <1>1, <1>2, SMT DEF Numbers
<1>5. \A i \in 1..(n + 1) : \E x \in S \cup {k} : g[x] = i
  BY <1>1, <1>2, SMT DEF Numbers
<1> QED
  BY <1>3, <1>4, <1>5 DEF Numbers

LEMMA NumberLess ==
  ASSUME NEW S, NEW k \in S, NEW n \in Nat, NEW f, Numbers(f, S, n)
  PROVE  n - 1 \in Nat /\ \E g : Numbers(g, S \ {k}, n - 1)
<1> DEFINE g == [x \in S \ {k} |-> IF f[x] = n THEN f[k] ELSE f[x]]
<1>1. n - 1 \in Nat /\ f[k] \in 1..n
  BY SMT DEF Numbers
<1>2. \A x \in S \ {k} : f[x] \in 1..n /\ f[x] # f[k] /\ g[x] = IF f[x] = n THEN f[k] ELSE f[x]
  BY SMT DEF Numbers
<1>3. \A x \in S \ {k} : g[x] \in 1..(n - 1)
  BY <1>1, <1>2, SMT
<1>4. g \in [S \ {k} -> 1..(n - 1)]
  BY <1>3
<1>5. \A x, y \in S \ {k} : g[x] = g[y] => x = y
  BY <1>1, <1>2, SMT DEF Numbers
<1>6. \A i \in 1..(n - 1) : \E x \in S \ {k} : g[x] = i
  <2> SUFFICES ASSUME NEW i \in 1..(n - 1) PROVE \E x \in S \ {k} : g[x] = i
    OBVIOUS
  <2>1. i \in 1..n /\ n \in 1..n /\ i # n
    BY <1>1, SMT
  <2>2. PICK x \in S : f[x] = i
    BY <2>1 DEF Numbers
  <2>3. PICK y \in S : f[y] = n
    BY <2>1 DEF Numbers
  <2>4. CASE x # k
    BY <1>2, <2>1, <2>2, <2>4
  <2>5. CASE x = k
    BY <1>2, <2>1, <2>2, <2>3, <2>5
  <2> QED
    BY <2>4, <2>5
<1> QED
  BY <1>1, <1>4, <1>5, <1>6 DEF Numbers

LEMMA OneMore ==
  ASSUME Counted, NEW k, k \notin OnTheWay, OnTheWay' = OnTheWay \cup {k}, pending \in Nat,
         pending' = pending + 1
  PROVE  Counted' /\ pending' \in Nat
<1>1. \E f : Numbers(f, OnTheWay, pending)
  BY Numbering DEF Counted
<1>2. \E f : Numbers(f, OnTheWay \cup {k}, pending + 1)
  BY <1>1, NumberMore
<1>3. Counted'
  BY <1>2, Numbering DEF Counted
<1>4. pending' \in Nat
  BY SMT
<1> QED
  BY <1>3, <1>4

LEMMA OneLess ==
  ASSUME Counted, NEW k \in OnTheWay, OnTheWay' = OnTheWay \ {k}, pending \in Nat,
         pending' = pending - 1
  PROVE  Counted' /\ pending' \in Nat
<1>1. \E f : Numbers(f, OnTheWay, pending)
  BY Numbering DEF Counted
<1>2. pending - 1 \in Nat /\ \E f : Numbers(f, OnTheWay \ {k}, pending - 1)
  BY <1>1, NumberLess
<1>3. Counted'
  BY <1>2, Numbering DEF Counted
<1> QED
  BY <1>2, <1>3

\* The client's steps around its own command: the shards, and who has what, stay.
LEMMA ClientOnly ==
  ASSUME EngineInv, NEW c \in Client, client[c].at # "rest",
         client' \in [Client -> ClientRecord], \A d \in Client : d # c => client'[d] = client[d],
         client'[c].at \in Unsent => client[c].at \in Unsent /\ client'[c].command = client[c].command
                                     /\ client'[c].call = client[c].call,
         client'[c].at \notin Sent, client'[c].at # "wake_idle",
         client'[c].at = "reject" => client'[c].call = "submit",
         \A k \in client'[c].debt : k \in client[c].debt,
         pending' \in Nat, Counted', stats' = stats, returned' = returned, promise' = promise,
         UNCHANGED <<config, queue, owner, idle, engines, trade_log, arrivals>>
  PROVE  EngineInv'
<1>0. TypeOK /\ Moving /\ Stopping
  BY Parts
<1>1. TypeOK'
  <2>1. DataOK'
    BY <1>0, TypeData DEF DataOK
  <2>2. /\ owner \in [Shard -> OwnerRecord] /\ queue \in [Shard -> Q]
        /\ phase \in {"constructing", "unwinding", "failed", "running"}
        /\ accepting \in BOOLEAN /\ idle \subseteq Client
    BY <1>0, TypeData, Types
  <2> QED
    BY <2>1, <2>2, TypeStep DEF config
<1>2. Unique'
  <2>1. \A d \in Client : client'[d].at \in Unsent =>
           client[d].at \in Unsent /\ client'[d].command = client[d].command
           /\ client'[d].call = client[d].call
    OBVIOUS
  <2> QED
    BY <1>0, <2>1, UniqueFrame DEF Moving
<1>3. Kept'
  <2>1. \A d \in Client : client'[d].at \in Sent =>
           client[d].at \in Sent /\ client'[d].command = client[d].command
    OBVIOUS
  <2>2. \A d \in Client : \A k \in client'[d].debt : k \in client[d].debt \/ k \in returned
    OBVIOUS
  <2> QED
    BY <1>0, <2>1, <2>2, KeptFrame DEF Moving
<1>4. Order' /\ Projected' /\ Promises' /\ Logged'
  BY <1>0, ShardsFrame
<1>5. Rejects' /\ NeverTwice'
  BY <1>0 DEF Moving, Rejects, NeverTwice
<1>6. Stopping'
  <2>1. phase' = phase /\ phase = "running"
    BY Active DEF config
  <2>2. \A d \in Client : client'[d].at = "wake_idle" => client[d].at = "wake_idle"
    OBVIOUS
  <2> QED
    BY <1>0, <2>1, <2>2, StoppingFrame
<1> QED
  BY <1>1, <1>2, <1>3, <1>4, <1>5, <1>6 DEF EngineInv

LEMMA CountPendingStep ==
  ASSUME EngineInv, NEW c \in Client, CountPending(c) PROVE EngineInv'
<1> DEFINE k == client[c].command
<1>0. /\ TypeOK /\ Moving /\ client[c].at = "count" /\ pending' = pending + 1 /\ Goto(c, "push")
      /\ UNCHANGED <<config, queue, owner, idle, promise, results, history>>
  BY Parts DEF CountPending
<1>1. "push" \in ClientState /\ "push" \in Unsent /\ "push" \notin Sent /\ "count" \in Unsent
  BY SMT DEF ClientState, Sent, Unsent
<1>2. Moved(c, "push")
  BY <1>0, <1>1, GotoEffect
<1>3. /\ k \in Command /\ ~InQueue(k) /\ ~WithOwner(k)
      /\ \A d \in Client : client[d].at \in {"push", "refused"} /\ client[d].command = k => d = c
  BY <1>0, <1>1, Unshared
<1>4. k \notin OnTheWay
  BY <1>0, <1>3 DEF OnTheWay, WithClient
<1>5. OnTheWay' = OnTheWay \cup {k}
  <2>1. \A x : WithClient(x)' <=> WithClient(x) \/ x = k
    <3>1. /\ client'[c].at = "push" /\ client'[c].command = k
          /\ \A d \in Client : d # c => client'[d] = client[d]
      BY <1>2 DEF Moved
    <3> QED
      BY <1>0, <3>1 DEF WithClient
  <2>2. \A x : InQueue(x)' <=> InQueue(x)
    BY <1>0 DEF InQueue
  <2>3. \A x : WithOwner(x)' <=> WithOwner(x)
    BY <1>0 DEF WithOwner, Busy
  <2> QED
    BY <1>3, <2>1, <2>2, <2>3 DEF OnTheWay
<1>6. Counted' /\ pending' \in Nat
  BY <1>0, <1>4, <1>5, TypeData, OneMore DEF Moving
<1> QED
  BY <1>0, <1>1, <1>2, <1>6, ClientOnly DEF Moved, results, history

LEMMA RefusedStep ==
  ASSUME EngineInv, NEW c \in Client, Refused(c) PROVE EngineInv'
<1> DEFINE k == client[c].command
<1>0. /\ TypeOK /\ Moving /\ client[c].at = "refused" /\ pending' = pending - 1
      /\ UNCHANGED <<config, queue, owner, idle, promise, results, history>>
  BY Parts DEF Refused, FinishOne
<1>1. "refused" \in Unsent
  BY SMT DEF Unsent
<1>2. /\ k \in Command /\ ~InQueue(k) /\ ~WithOwner(k)
      /\ \A d \in Client : client[d].at \in {"push", "refused"} /\ client[d].command = k => d = c
  BY <1>0, <1>1, Unshared
<1>3. k \in OnTheWay
  BY <1>0, <1>2 DEF OnTheWay, WithClient
\* Wherever the client goes from here, it is not counted there.
<1>4. ASSUME \A d \in Client : d # c => client'[d] = client[d],
             client'[c].at \notin {"push", "refused"}
      PROVE  Counted' /\ pending' \in Nat
  <2>1. \A x : WithClient(x)' <=> WithClient(x) /\ x # k
    BY <1>0, <1>2, <1>4 DEF WithClient
  <2>2. \A x : InQueue(x)' <=> InQueue(x)
    BY <1>0 DEF InQueue
  <2>3. \A x : WithOwner(x)' <=> WithOwner(x)
    BY <1>0 DEF WithOwner, Busy
  <2>4. OnTheWay' = OnTheWay \ {k}
    BY <1>2, <2>1, <2>2, <2>3 DEF OnTheWay
  <2> QED
    BY <1>0, <1>3, <2>4, TypeData, OneLess DEF Moving
<1>5. ASSUME NEW w \in {"refused_notify", "reject"}, Goto(c, w), w = "reject" => client[c].call = "submit"
      PROVE  EngineInv'
  <2>1. w \in ClientState /\ w \in Unsent /\ w \notin Sent /\ w \notin {"push", "refused", "wake_idle"}
    BY DEF ClientState, Sent, Unsent
  <2>2. Moved(c, w)
    BY <1>0, <1>5, <2>1, GotoEffect
  <2>3. Counted' /\ pending' \in Nat
    BY <1>4, <2>1, <2>2 DEF Moved
  <2> QED
    BY <1>0, <1>1, <1>5, <2>1, <2>2, <2>3, ClientOnly DEF Moved, results, history
<1>6. CASE Return(c)
  <2>1. Rested(c)
    BY <1>0, <1>6, ReturnEffect
  <2>2. "rest" \notin Unsent /\ "rest" \notin Sent /\ "rest" \notin {"push", "refused"}
    BY SMT DEF Unsent, Sent
  <2>3. Counted' /\ pending' \in Nat
    BY <1>4, <2>1, <2>2 DEF Rested
  <2> QED
    BY <1>0, <2>1, <2>2, <2>3, ClientOnly DEF Rested, results, history
<1> QED
  BY <1>5, <1>6 DEF Refused, ReturnFalse

\* The call returns true: the command has entered.
LEMMA SubmittedStep ==
  ASSUME EngineInv, NEW c \in Client, Submitted(c) PROVE EngineInv'
<1>0. /\ TypeOK /\ Moving /\ Stopping /\ client[c].at = "submitted" /\ Return(c)
      /\ stats' = [stats EXCEPT !.submitted = @ + 1] /\ returned' = returned \cup {client[c].command}
      /\ UNCHANGED <<config, pending, queue, owner, idle, engines, trade_log, promise, arrivals>>
  BY Parts DEF Submitted, CommandOf
<1>1. Rested(c)
  BY <1>0, ReturnEffect
<1>2. client[c].at \in Sent /\ client[c].at \notin {"push", "refused", "rest"}
  BY <1>0, SMT DEF Sent
<1>3. \A d \in Client : SameClient(d)
  BY <1>0, <1>1, <1>2, SameClientRested DEF Moving
<1>4. TypeOK'
  <2>1. stats' \in [submitted : Nat, processed : Nat, accepted : Nat, rejected : Nat, trades : Nat]
    <3>1. stats \in [submitted : Nat, processed : Nat, accepted : Nat, rejected : Nat, trades : Nat]
      BY <1>0, TypeData DEF DataOK
    <3> QED
      BY <1>0, <3>1, SMT
  <2>2. client[c].command \in Command
    BY <1>2, ShardForClient
  <2>3. DataOK'
    BY <1>0, <2>1, <2>2, TypeData DEF DataOK
  <2>4. /\ owner \in [Shard -> OwnerRecord] /\ queue \in [Shard -> Q]
        /\ phase \in {"constructing", "unwinding", "failed", "running"}
        /\ accepting \in BOOLEAN /\ idle \subseteq Client /\ pending \in Nat
    BY <1>0, TypeData, Types
  <2> QED
    BY <1>0, <1>1, <2>3, <2>4, TypeStep DEF config, Rested
<1>5. Unique'
  BY <1>0, <1>3, UniqueFrame DEF Moving, SameClient
<1>6. Kept'
  <2>0. \A k : Entered(k)' <=> Entered(k)
    BY <1>0 DEF Entered
  <2>1. Entered(client[c].command)
    BY <1>0, <1>2 DEF Moving, Kept
  <2>2. \A k \in returned' : Entered(k)
    BY <1>0, <2>1 DEF Moving, Kept
  <2>3. \A d \in Client : client'[d].at \in Sent => Entered(client'[d].command)
    BY <1>0, <1>3 DEF Moving, Kept, SameClient
  <2>4. \A d \in Client : \A k \in client'[d].debt : Entered(k)
    BY <1>0, <1>3 DEF Moving, Kept, SameClient
  <2> QED
    BY <2>0, <2>2, <2>3, <2>4 DEF Kept
<1>7. Order' /\ Projected' /\ Promises' /\ Logged' /\ SameBuffers /\ \A s \in Shard : SameOwner(s)
  BY <1>0, ShardsFrame
<1>8. Rejects' /\ NeverTwice'
  BY <1>0, <1>3 DEF Moving, Rejects, NeverTwice, SameClient
<1>9. Counted'
  <2>1. \A d \in Client : client'[d].at \in {"push", "refused"} <=> client[d].at \in {"push", "refused"}
    BY <1>3 DEF SameClient
  <2>2. \A d \in Client : client'[d].at \in {"push", "refused"} => client'[d].command = client[d].command
    BY <1>3 DEF SameClient, Unsent
  <2>3. OnTheWay' = OnTheWay
    BY <1>7, <2>1, <2>2, SameWay DEF SameOwner
  <2> QED
    BY <1>0, <2>3 DEF Counted, Moving
<1>10. Stopping'
  <2>1. phase' = phase /\ phase = "running"
    BY <1>0, <1>2, Active DEF config
  <2>2. \A d \in Client : client'[d].at = "wake_idle" => client[d].at = "wake_idle"
    BY <1>1 DEF Rested
  <2> QED
    BY <1>0, <2>1, <2>2, StoppingFrame
<1> QED
  BY <1>4, <1>5, <1>6, <1>7, <1>8, <1>9, <1>10 DEF EngineInv

\* The rejected command has not entered, and nobody else has its promise.
LEMMA CompleteRejectedStep ==
  ASSUME EngineInv, NEW c \in Client, CompleteRejected(c) PROVE EngineInv'
<1> DEFINE id == client[c].command.id
<1>0. /\ TypeOK /\ Moving /\ Stopping /\ client[c].at = "reject" /\ Return(c)
      /\ Fulfil(id, "shutting_down")
      /\ UNCHANGED <<config, pending, queue, owner, idle, results, history>>
  BY Parts DEF CompleteRejected, CommandOf
<1>1. client[c].at \in Unsent /\ client[c].at \notin {"push", "refused", "rest"}
  BY <1>0, SMT DEF Unsent
<1>2. Own(c) /\ OneOwner /\ client[c].call = "submit"
  BY <1>0, <1>1 DEF Moving, Unique, Rejects
<1>3. id \in 1..MaxCommands
  BY <1>2, SMT DEF Own, Command
<1>4. promise[id] = "unset"
  BY <1>2 DEF Own
<1>5. /\ promise' \in [1..MaxCommands -> {"none", "detached", "unset", "executed", "shutting_down", "set_twice"}]
      /\ promise'[id] = "shutting_down" /\ \A i \in 1..MaxCommands : i # id => promise'[i] = promise[i]
  <2>1. promise \in [1..MaxCommands -> {"none", "detached", "unset", "executed", "shutting_down", "set_twice"}]
    BY <1>0, TypeData DEF DataOK
  <2>2. promise' = [promise EXCEPT ![id] = "shutting_down"]
    BY <1>0, <1>4 DEF Fulfil
  <2> HIDE DEF id
  <2> QED
    BY <1>3, <2>1, <2>2, SMT
<1>6. Rested(c)
  BY <1>0, ReturnEffect
<1>7. \A s \in Shard : \A i \in DOMAIN arrivals[s] :
        promise'[arrivals[s][i].id] = promise[arrivals[s][i].id]
  <2> SUFFICES ASSUME NEW s \in Shard, NEW i \in DOMAIN arrivals[s]
               PROVE  promise'[arrivals[s][i].id] = promise[arrivals[s][i].id]
    OBVIOUS
  <2>1. arrivals[s][i].id \in 1..MaxCommands
    BY EnteredIssued
  <2>2. arrivals[s][i].id # id
    BY <1>2 DEF Own
  <2> QED
    BY <1>5, <2>1, <2>2
<1>8. TypeOK'
  <2>1. DataOK'
    BY <1>0, <1>5, TypeData DEF DataOK, results, history
  <2>2. /\ owner \in [Shard -> OwnerRecord] /\ queue \in [Shard -> Q]
        /\ phase \in {"constructing", "unwinding", "failed", "running"}
        /\ accepting \in BOOLEAN /\ idle \subseteq Client /\ pending \in Nat
    BY <1>0, TypeData, Types
  <2> QED
    BY <1>0, <1>6, <2>1, <2>2, TypeStep DEF config, Rested
<1>9. \A d \in Client : SameClient(d)
  BY <1>0, <1>1, <1>6, SameClientRested DEF Moving
<1>10. Unique'
  <2>1. Numbered'
    <3>1. \A i \in 1..MaxCommands : promise'[i] # "none" <=> promise[i] # "none"
      BY <1>3, <1>4, <1>5
    <3> QED
      BY <1>0, <3>1 DEF Moving, Unique, Numbered
  <2>2. ASSUME NEW d \in Client, client'[d].at \in Unsent PROVE Own(d)'
    <3>1. d # c
      <4>1. "rest" \notin Unsent
        BY SMT DEF Unsent
      <4> QED
        BY <1>6, <2>2, <4>1 DEF Rested
    <3>2. client'[d] = client[d] /\ arrivals' = arrivals
      BY <1>0, <1>6, <3>1 DEF Rested, history
    <3>3. Own(d) /\ client[d].at \in Unsent
      BY <1>0, <2>2, <3>2 DEF Moving, Unique
    <3>4. client[d].command.id # id
      BY <1>1, <1>2, <3>1, <3>3 DEF OneOwner
    <3>5. client[d].command.id \in 1..MaxCommands
      BY <3>3, SMT DEF Own, Command
    <3>6. promise'[client[d].command.id] = promise[client[d].command.id]
      BY <1>5, <3>4, <3>5
    <3> QED
      BY <3>2, <3>3, <3>6 DEF Own
  <2>3. OneOwner'
    <3>1. \A d \in Client : client'[d].at \in Unsent =>
            client[d].at \in Unsent /\ client'[d].command = client[d].command
      BY <1>9 DEF SameClient
    <3> QED
      BY <1>2, <3>1 DEF OneOwner
  <2>4. Distinct'
    <3>1. Distinct /\ arrivals' = arrivals
      BY <1>0 DEF Moving, Unique, history
    <3> QED
      BY <3>1, SMT DEF Distinct
  <2> QED
    BY <2>1, <2>2, <2>3, <2>4 DEF Unique
<1>11. Kept'
  <2>1. \A d \in Client : client'[d].at \in Sent =>
           client[d].at \in Sent /\ client'[d].command = client[d].command
    BY <1>9 DEF SameClient
  <2>2. \A d \in Client : \A x \in client'[d].debt : x \in client[d].debt \/ x \in returned
    BY <1>9 DEF SameClient
  <2> QED
    BY <1>0, <2>1, <2>2, KeptFrame DEF Moving, history
<1>12. Order' /\ Projected' /\ Promises' /\ Logged' /\ SameBuffers /\ \A s \in Shard : SameOwner(s)
  BY <1>0, <1>7, ShardsFrame DEF history, results
<1>13. Rejects' /\ NeverTwice'
  <2>1. Rejects'
    BY <1>9 DEF Rejects, SameClient
  <2>2. NeverTwice'
    BY <1>0, <1>3, <1>5 DEF Moving, NeverTwice
  <2> QED
    BY <2>1, <2>2
<1>14. Counted'
  <2>1. \A d \in Client : client'[d].at \in {"push", "refused"} <=> client[d].at \in {"push", "refused"}
    BY <1>9 DEF SameClient
  <2>2. \A d \in Client : client'[d].at \in {"push", "refused"} => client'[d].command = client[d].command
    BY <1>9 DEF SameClient, Unsent
  <2>3. OnTheWay' = OnTheWay
    BY <1>12, <2>1, <2>2, SameWay DEF SameOwner
  <2> QED
    BY <1>0, <2>3 DEF Counted, Moving
<1>15. Stopping'
  <2>1. phase' = phase /\ phase = "running"
    BY <1>0, <1>1, Active DEF config
  <2>2. \A d \in Client : client'[d].at = "wake_idle" => client[d].at = "wake_idle"
    BY <1>6 DEF Rested
  <2> QED
    BY <1>0, <2>1, <2>2, StoppingFrame
<1> QED
  BY <1>8, <1>10, <1>11, <1>12, <1>13, <1>14, <1>15 DEF EngineInv

\* A longer sequence projects the same way below n.
LEMMA ProjectsLonger ==
  ASSUME NEW seq, NEW all, NEW more, NEW n, NEW symbol, Projects(seq, all, n, symbol),
         \A i \in 1..n : more[i] = all[i]
  PROVE  Projects(seq, more, n, symbol)
<1>1. PICK place \in [DOMAIN seq -> 1..n] :
        /\ \A p \in DOMAIN seq : all[place[p]] = seq[p]
        /\ \A p, q \in DOMAIN seq : p < q => place[p] < place[q]
        /\ \A i \in 1..n : all[i].symbol = symbol <=> \E p \in DOMAIN seq : place[p] = i
  BY DEF Projects
<1>2. \A p \in DOMAIN seq : more[place[p]] = seq[p]
  BY <1>1
<1>3. \A i \in 1..n : more[i].symbol = symbol <=> \E p \in DOMAIN seq : place[p] = i
  BY <1>1
<1> QED
  BY <1>1, <1>2, <1>3 DEF Projects

LEMMA Appended ==
  \A seq \in Seq(Command), k \in Command :
    /\ Append(seq, k) \in Seq(Command) /\ Len(Append(seq, k)) = Len(seq) + 1
    /\ \A i \in 1..Len(seq) : Append(seq, k)[i] = seq[i]
    /\ Append(seq, k)[Len(seq) + 1] = k
BY SMT

\* Command k has gone to the end of shard s, in the queue and in the history.
Arrived(s, k) ==
  /\ arrivals' \in [Shard -> Seq(Command)]
  /\ Len(arrivals'[s]) = Len(arrivals[s]) + 1 /\ arrivals'[s][Len(arrivals[s]) + 1] = k
  /\ \A i \in 1..Len(arrivals[s]) : arrivals'[s][i] = arrivals[s][i]
  /\ Len(queue'[s].buffer) = Len(queue[s].buffer) + 1
  /\ queue'[s].buffer[Len(queue[s].buffer) + 1] = k
  /\ \A i \in 1..Len(queue[s].buffer) : queue'[s].buffer[i] = queue[s].buffer[i]
  /\ queue' \in [Shard -> Q]
  /\ \A r \in Shard : r # s => arrivals'[r] = arrivals[r] /\ queue'[r] = queue[r]

LEMMA ArriveEffect ==
  ASSUME TypeOK, NEW s \in Shard, NEW k \in Command, Accepts(queue[s]),
         queue' = [queue EXCEPT ![s] = Inserted(queue[s], k)],
         arrivals' = [arrivals EXCEPT ![s] = Append(@, k)]
  PROVE  Arrived(s, k)
<1>1. arrivals \in [Shard -> Seq(Command)] /\ arrivals[s] \in Seq(Command) /\ queue[s] \in Q
  BY Types, TypeData DEF DataOK
<1>2. /\ Inserted(queue[s], k) \in Q
      /\ Inserted(queue[s], k).buffer = Append(queue[s].buffer, k)
      /\ queue[s].buffer \in Seq(Command)
  <2>1. \A q \in Q : Accepts(q) =>
          /\ Inserted(q, k) \in Q /\ Inserted(q, k).buffer = Append(q.buffer, k)
          /\ q.buffer \in Seq(Command)
    BY CapacityAssumption, SMT DEF Q, QueueOf, Inserted, Queue, Accepts
  <2> QED
    BY <1>1, <2>1
<1>3. /\ queue' \in [Shard -> Q] /\ queue'[s] = Inserted(queue[s], k)
      /\ \A r \in Shard : r # s => queue'[r] = queue[r]
  BY <1>2, QueueSet
<1>4. Append(arrivals[s], k) \in Seq(Command)
  BY <1>1, Appended
<1>5. /\ arrivals' \in [Shard -> Seq(Command)] /\ arrivals'[s] = Append(arrivals[s], k)
      /\ \A r \in Shard : r # s => arrivals'[r] = arrivals[r]
  BY <1>1, <1>4
<1>6. /\ Len(arrivals'[s]) = Len(arrivals[s]) + 1 /\ arrivals'[s][Len(arrivals[s]) + 1] = k
      /\ \A i \in 1..Len(arrivals[s]) : arrivals'[s][i] = arrivals[s][i]
  <2>1. /\ Len(Append(arrivals[s], k)) = Len(arrivals[s]) + 1
        /\ Append(arrivals[s], k)[Len(arrivals[s]) + 1] = k
        /\ \A i \in 1..Len(arrivals[s]) : Append(arrivals[s], k)[i] = arrivals[s][i]
    BY <1>1, Appended
  <2>2. arrivals'[s] = Append(arrivals[s], k)
    BY <1>5
  <2> QED
    BY <2>1, <2>2
<1>7. /\ Len(queue'[s].buffer) = Len(queue[s].buffer) + 1
      /\ queue'[s].buffer[Len(queue[s].buffer) + 1] = k
      /\ \A i \in 1..Len(queue[s].buffer) : queue'[s].buffer[i] = queue[s].buffer[i]
  <2>1. /\ Len(Append(queue[s].buffer, k)) = Len(queue[s].buffer) + 1
        /\ Append(queue[s].buffer, k)[Len(queue[s].buffer) + 1] = k
        /\ \A i \in 1..Len(queue[s].buffer) : Append(queue[s].buffer, k)[i] = queue[s].buffer[i]
    BY <1>2, Appended
  <2>2. queue'[s].buffer = Append(queue[s].buffer, k)
    BY <1>2, <1>3
  <2> QED
    BY <2>1, <2>2
<1> QED
  BY <1>3, <1>5, <1>6, <1>7 DEF Arrived

\* The numbers of what has been taken stay, and so do the entries below.
OldStay ==
  \A r \in Shard : \A i \in DOMAIN arrivals[r] :
    i \in DOMAIN arrivals'[r] /\ arrivals'[r][i] = arrivals[r][i]
OneNew(s, k) ==
  \A r \in Shard : \A i \in DOMAIN arrivals'[r] :
    \/ i \in DOMAIN arrivals[r] /\ arrivals'[r][i] = arrivals[r][i]
    \/ r = s /\ i = Len(arrivals[s]) + 1 /\ arrivals'[r][i] = k

LEMMA ArrivedNumbers ==
  ASSUME TypeOK, Order, NEW s \in Shard, NEW k \in Command, Arrived(s, k), owner' = owner
  PROVE  /\ \A r \in Shard : Taken(r)' = Taken(r) /\ Settled(r)' = Settled(r) /\ AppliedBy(r)' = AppliedBy(r)
         /\ OldStay /\ OneNew(s, k)
         /\ DOMAIN arrivals'[s] = 1..(Len(arrivals[s]) + 1)
<1>0. /\ Len(arrivals[s]) \in Nat /\ DOMAIN arrivals[s] = 1..Len(arrivals[s])
      /\ Len(queue[s].buffer) \in Nat
  BY Places
<1>1. Taken(s)' = Taken(s)
  <2>1. PICK a \in Nat, b \in Nat : a = Len(arrivals[s]) /\ b = Len(queue[s].buffer)
    BY <1>0
  <2>2. (a + 1) - (b + 1) = a - b
    BY SMT
  <2>3. Len(arrivals'[s]) = a + 1 /\ Len(queue'[s].buffer) = b + 1
    BY <2>1 DEF Arrived
  <2>4. Taken(s)' = (a + 1) - (b + 1)
    BY <2>3 DEF Taken
  <2> QED
    BY <2>1, <2>2, <2>4 DEF Taken
<1>2. \A r \in Shard : Taken(r)' = Taken(r)
  <2>1. \A r \in Shard : r # s => Taken(r)' = Taken(r)
    BY DEF Taken, Arrived
  <2> QED
    BY <1>1, <2>1
<1>3. \A r \in Shard : Settled(r)' = Settled(r)
  BY <1>2 DEF Settled, Open
<1>4. \A r \in Shard : AppliedBy(r)' = AppliedBy(r)
  <2>1. \A r : AppliedBy(r) = Taken(r) - (IF Holds(r) THEN 1 ELSE 0)
    BY DEF AppliedBy, Taken
  <2>2. \A r : AppliedBy(r)' = Taken(r)' - (IF Holds(r)' THEN 1 ELSE 0)
    BY DEF AppliedBy, Taken
  <2>3. \A r : Holds(r)' <=> Holds(r)
    BY DEF Holds
  <2> QED
    BY <1>2, <2>1, <2>2, <2>3
<1>5. DOMAIN arrivals'[s] = 1..(Len(arrivals[s]) + 1)
  <2>1. arrivals'[s] \in Seq(Command) /\ Len(arrivals'[s]) = Len(arrivals[s]) + 1
    BY DEF Arrived
  <2>2. DOMAIN arrivals'[s] = 1..Len(arrivals'[s])
    BY <2>1, SMT
  <2> QED
    BY <2>1, <2>2
<1>6. /\ \A i \in DOMAIN arrivals[s] : i \in DOMAIN arrivals'[s]
      /\ \A i \in DOMAIN arrivals'[s] : i \in DOMAIN arrivals[s] \/ i = Len(arrivals[s]) + 1
  BY <1>0, <1>5, SMT
<1>7. OldStay
  BY <1>0, <1>6 DEF Arrived, OldStay
<1>8. OneNew(s, k)
  BY <1>0, <1>6 DEF Arrived, OneNew
<1> QED
  BY <1>2, <1>3, <1>4, <1>5, <1>7, <1>8

\* The command of a client enters a queue.
Entering(c, s, k) ==
  /\ client[c].at = "push" /\ client[c].command = k /\ s = ShardOf[k.symbol]
  /\ Accepts(queue[s]) /\ Arrived(s, k) /\ Goto(c, "pushed")
  /\ UNCHANGED <<config, pending, owner, idle, promise, returned, results>>

LEMMA ArriveStep ==
  ASSUME EngineInv, NEW c \in Client, NEW s \in Shard, NEW k \in Command, Entering(c, s, k)
  PROVE  EngineInv'
<1>0. TypeOK /\ Moving /\ Stopping /\ Order
  BY Parts DEF Moving
<1>20. /\ client[c].at = "push" /\ client[c].command = k /\ s = ShardOf[k.symbol]
      /\ Accepts(queue[s]) /\ Arrived(s, k) /\ Goto(c, "pushed")
      /\ UNCHANGED <<config, pending, owner, idle, promise, returned, results>>
  BY DEF Entering
<1>1. /\ client[c].at \in Unsent /\ "pushed" \in Sent /\ "pushed" \in ClientState
      /\ "pushed" \notin Unsent /\ "pushed" \notin {"push", "refused", "reject", "rest", "wake_idle"}
      /\ client[c].at \notin Sent /\ client[c].at # "rest"
  BY <1>20, SMT DEF Unsent, Sent, ClientState
<1>2. Moved(c, "pushed")
  BY <1>0, <1>1, <1>20, GotoEffect
<1>3. Own(c) /\ OneOwner
  BY <1>0, <1>1 DEF Moving, Unique, Own
<1>21. owner' = owner /\ promise' = promise /\ returned' = returned /\ engines' = engines
      /\ trade_log' = trade_log
  BY <1>20 DEF results
<1>4. \A r \in Shard : Taken(r)' = Taken(r) /\ Settled(r)' = Settled(r) /\ AppliedBy(r)' = AppliedBy(r)
  BY <1>0, <1>20, <1>21, ArrivedNumbers
<1>22. OldStay
  BY <1>0, <1>20, <1>21, ArrivedNumbers
<1>23. OneNew(s, k)
  BY <1>0, <1>20, <1>21, ArrivedNumbers
<1>24. DOMAIN arrivals'[s] = 1..(Len(arrivals[s]) + 1)
  BY <1>0, <1>20, <1>21, ArrivedNumbers
<1>5. TypeOK'
  <2>1. DataOK'
    BY <1>0, <1>20, TypeData DEF DataOK, results, Arrived
  <2>2. /\ owner \in [Shard -> OwnerRecord] /\ queue' \in [Shard -> Q]
        /\ phase \in {"constructing", "unwinding", "failed", "running"}
        /\ accepting \in BOOLEAN /\ idle \subseteq Client /\ pending \in Nat
    BY <1>0, <1>20, TypeData, Types DEF Arrived
  <2> QED
    BY <1>2, <1>20, <2>1, <2>2, TypeStep DEF config, Moved
<1>6. \A d \in Client : client'[d].at \in Unsent =>
        d # c /\ client'[d] = client[d] /\ client[d].at \in Unsent
  BY <1>1, <1>2 DEF Moved
<1>7. Unique'
  <2>1. Numbered'
    BY <1>0, <1>21 DEF Moving, Unique, Numbered
  <2>2. ASSUME NEW d \in Client, client'[d].at \in Unsent PROVE Own(d)'
    <3>1. d # c /\ client'[d] = client[d] /\ client[d].at \in Unsent /\ promise' = promise
      BY <1>6, <1>21, <2>2
    <3>2. Own(d)
      BY <1>0, <3>1 DEF Moving, Unique
    <3>3. client[d].command.id # k.id
      BY <1>1, <1>3, <1>20, <3>1 DEF OneOwner
    <3>4. \A r \in Shard : \A i \in DOMAIN arrivals'[r] : arrivals'[r][i].id # client[d].command.id
      <4> SUFFICES ASSUME NEW r \in Shard, NEW i \in DOMAIN arrivals'[r]
                   PROVE  arrivals'[r][i].id # client[d].command.id
        OBVIOUS
      <4>1. CASE i \in DOMAIN arrivals[r] /\ arrivals'[r][i] = arrivals[r][i]
        BY <3>2, <4>1 DEF Own
      <4>2. CASE arrivals'[r][i] = k
        BY <3>3, <4>2
      <4> QED
        BY <1>23, <4>1, <4>2 DEF OneNew
    <3> QED
      BY <3>1, <3>2, <3>4 DEF Own
  <2>3. OneOwner'
    BY <1>3, <1>6 DEF OneOwner
  <2>4. Distinct'
    <3>1. \A r \in Shard : \A i \in DOMAIN arrivals[r] : arrivals[r][i].id # k.id
      BY <1>3, <1>20 DEF Own
    <3>2. Distinct
      BY <1>0 DEF Moving, Unique
    <3> SUFFICES ASSUME NEW r \in Shard, NEW t \in Shard, NEW i \in DOMAIN arrivals'[r],
                        NEW j \in DOMAIN arrivals'[t], arrivals'[r][i].id = arrivals'[t][j].id
                 PROVE  r = t /\ i = j
      BY DEF Distinct
    <3>3. \/ i \in DOMAIN arrivals[r] /\ arrivals'[r][i] = arrivals[r][i]
          \/ r = s /\ i = Len(arrivals[s]) + 1 /\ arrivals'[r][i] = k
      BY <1>23 DEF OneNew
    <3>4. \/ j \in DOMAIN arrivals[t] /\ arrivals'[t][j] = arrivals[t][j]
          \/ t = s /\ j = Len(arrivals[s]) + 1 /\ arrivals'[t][j] = k
      BY <1>23 DEF OneNew
    <3>5. CASE i \in DOMAIN arrivals[r] /\ arrivals'[r][i] = arrivals[r][i]
      <4>1. CASE j \in DOMAIN arrivals[t] /\ arrivals'[t][j] = arrivals[t][j]
        <5>1. arrivals[r][i].id = arrivals[t][j].id
          BY <3>5, <4>1
        <5>2. i \in DOMAIN arrivals[r] /\ j \in DOMAIN arrivals[t]
          BY <3>5, <4>1
        <5> QED
          BY <3>2, <5>1, <5>2, SMT DEF Distinct
      <4>2. CASE arrivals'[t][j] = k
        BY <3>1, <3>5, <4>2
      <4> QED
        BY <3>4, <4>1, <4>2
    <3>6. CASE r = s /\ i = Len(arrivals[s]) + 1 /\ arrivals'[r][i] = k
      <4>1. CASE j \in DOMAIN arrivals[t] /\ arrivals'[t][j] = arrivals[t][j]
        BY <3>1, <3>6, <4>1
      <4>2. CASE t = s /\ j = Len(arrivals[s]) + 1
        BY <3>6, <4>2
      <4> QED
        BY <3>4, <4>1, <4>2
    <3> QED
      BY <3>3, <3>5, <3>6
  <2> QED
    BY <2>1, <2>2, <2>3, <2>4 DEF Unique
<1>8. Kept'
  <2>1. \A x : Entered(x) => Entered(x)'
    <3> SUFFICES ASSUME NEW x, NEW r \in Shard, NEW i \in DOMAIN arrivals[r], arrivals[r][i] = x
                 PROVE  \E t \in Shard : \E j \in DOMAIN arrivals'[t] : arrivals'[t][j] = x
      BY DEF Entered
    <3>1. i \in DOMAIN arrivals'[r] /\ arrivals'[r][i] = x
      BY <1>22 DEF OldStay
    <3> QED
      BY <3>1
  <2>2. Entered(k)'
    <3>1. Len(arrivals[s]) \in Nat
      BY <1>0, Places
    <3>2. Len(arrivals[s]) + 1 \in 1..(Len(arrivals[s]) + 1)
      BY <3>1, SMT
    <3>3. arrivals'[s][Len(arrivals[s]) + 1] = k
      BY <1>20 DEF Arrived
    <3>4. Len(arrivals[s]) + 1 \in DOMAIN arrivals'[s]
      BY <1>24, <3>2
    <3> QED
      BY <3>3, <3>4 DEF Entered
  <2>3. /\ client'[c].command = k /\ client'[c].debt = client[c].debt
        /\ \A d \in Client : d # c => client'[d] = client[d]
    BY <1>2, <1>20 DEF Moved
  <2>4. Kept /\ returned' = returned
    BY <1>0, <1>21 DEF Moving
  <2>5. \A d \in Client : client'[d].at \in Sent =>
          \E r \in Shard : \E i \in DOMAIN arrivals'[r] : arrivals'[r][i] = client'[d].command
    <3>1. \A x : \A d \in Client : client'[d].at \in Sent /\ client'[d].command = x => Entered(x)'
      BY <2>1, <2>2, <2>3, <2>4 DEF Kept
    <3> QED
      BY <3>1 DEF Entered
  <2>6. \A d \in Client : \A x \in client'[d].debt : Entered(x)'
    BY <2>1, <2>3, <2>4 DEF Kept
  <2>7. \A x \in returned' : Entered(x)'
    BY <2>1, <2>4 DEF Kept
  <2> QED
    BY <2>5, <2>6, <2>7 DEF Kept, Entered
<1>9. Order'
  <2> SUFFICES ASSUME NEW r \in Shard
               PROVE  /\ Len(queue'[r].buffer) <= Len(arrivals'[r])
                      /\ \A i \in DOMAIN queue'[r].buffer :
                            queue'[r].buffer[i] = arrivals'[r][Taken(r)' + i]
                      /\ Busy(r)' => Taken(r)' >= 1 /\ arrivals'[r][Taken(r)'] = owner'[r].command
                      /\ \A i \in DOMAIN arrivals'[r] : ShardOf[arrivals'[r][i].symbol] = r
    BY DEF Order
  <2>0. /\ Len(queue[r].buffer) <= Len(arrivals[r])
        /\ \A i \in DOMAIN queue[r].buffer : queue[r].buffer[i] = arrivals[r][Taken(r) + i]
        /\ Busy(r) => Taken(r) >= 1 /\ arrivals[r][Taken(r)] = owner[r].command
        /\ \A i \in DOMAIN arrivals[r] : ShardOf[arrivals[r][i].symbol] = r
    BY <1>0 DEF Order
  <2>1. \A i \in DOMAIN arrivals'[r] : ShardOf[arrivals'[r][i].symbol] = r
    <3> SUFFICES ASSUME NEW i \in DOMAIN arrivals'[r] PROVE ShardOf[arrivals'[r][i].symbol] = r
      OBVIOUS
    <3>1. CASE i \in DOMAIN arrivals[r] /\ arrivals'[r][i] = arrivals[r][i]
      BY <2>0, <3>1
    <3>2. CASE r = s /\ arrivals'[r][i] = k
      BY <1>20, <3>2
    <3> QED
      BY <1>23, <3>1, <3>2 DEF OneNew
  <2>2. /\ Len(arrivals[r]) \in Nat /\ DOMAIN arrivals[r] = 1..Len(arrivals[r])
        /\ Len(queue[r].buffer) \in Nat /\ DOMAIN queue[r].buffer = 1..Len(queue[r].buffer)
        /\ Taken(r) \in 0..Len(arrivals[r]) /\ Taken(r) = Len(arrivals[r]) - Len(queue[r].buffer)
    BY <1>0, Places
  <2>3. Busy(r)' => Taken(r)' >= 1 /\ arrivals'[r][Taken(r)'] = owner'[r].command
    <3>1. owner' = owner /\ Taken(r)' = Taken(r) /\ (Busy(r)' <=> Busy(r))
      BY <1>4, <1>21 DEF Busy
    <3>2. Busy(r) => Taken(r) \in DOMAIN arrivals[r]
      <4>1. PICK a \in Nat : a = Len(arrivals[r])
        BY <2>2
      <4>2. \A n \in 0..a : n >= 1 => n \in 1..a
        BY SMT
      <4> QED
        BY <2>0, <2>2, <4>1, <4>2
    <3>3. Busy(r) => arrivals'[r][Taken(r)] = arrivals[r][Taken(r)]
      BY <1>22, <3>2 DEF OldStay
    <3> QED
      BY <2>0, <3>1, <3>3
  <2>4. CASE r # s
    <3>1. queue'[r] = queue[r] /\ arrivals'[r] = arrivals[r] /\ Taken(r)' = Taken(r)
      BY <1>4, <1>20, <2>4 DEF Arrived
    <3> QED
      BY <2>0, <2>1, <2>3, <3>1
  <2>5. CASE r = s
    <3>1. PICK a \in Nat, b \in Nat : a = Len(arrivals[r]) /\ b = Len(queue[r].buffer)
      BY <2>2
    <3>2. /\ Len(arrivals'[r]) = a + 1 /\ Len(queue'[r].buffer) = b + 1
          /\ arrivals'[r][a + 1] = k /\ queue'[r].buffer[b + 1] = k
          /\ \A i \in 1..b : queue'[r].buffer[i] = queue[r].buffer[i]
          /\ \A i \in 1..a : arrivals'[r][i] = arrivals[r][i]
      BY <1>20, <2>5, <3>1 DEF Arrived
    <3>3. b <= a /\ Taken(r) = a - b /\ Taken(r)' = a - b
      BY <1>4, <2>0, <2>2, <3>1
    <3>4. Len(queue'[r].buffer) <= Len(arrivals'[r])
      BY <3>2, <3>3, SMT
    <3>5. DOMAIN queue'[r].buffer = 1..(b + 1)
      <4>1. queue'[r].buffer \in Seq(Command)
        <5>1. queue'[r] \in Q
          BY <1>20 DEF Arrived
        <5> QED
          BY <5>1, SMT DEF Q, QueueOf
      <4> QED
        BY <3>2, <4>1, SMT
    <3>6. ASSUME NEW i \in 1..(b + 1) PROVE queue'[r].buffer[i] = arrivals'[r][(a - b) + i]
      <4>1. CASE i = b + 1
        <5>1. (a - b) + (b + 1) = a + 1
          BY SMT
        <5> QED
          BY <3>2, <4>1, <5>1
      <4>2. CASE i \in 1..b
        <5>1. (a - b) + i \in 1..a
          BY <3>3, <4>2, SMT
        <5>2. queue[r].buffer[i] = arrivals[r][(a - b) + i]
          BY <2>0, <2>2, <3>1, <3>3, <4>2
        <5> QED
          BY <3>2, <4>2, <5>1, <5>2
      <4>3. i = b + 1 \/ i \in 1..b
        BY SMT
      <4> QED
        BY <4>1, <4>2, <4>3
    <3> QED
      BY <2>1, <2>3, <3>3, <3>4, <3>5, <3>6
  <2> QED
    BY <2>4, <2>5
<1>10. Projected'
  <2> SUFFICES ASSUME NEW symbol \in Symbol
               PROVE  Projects(engines[symbol].applied, arrivals[ShardOf[symbol]],
                               AppliedBy(ShardOf[symbol]), symbol)'
    BY DEF Projected
  <2>1. ShardOf[symbol] \in Shard
    BY PartitionAssumption
  <2>2. PICK r \in Shard : r = ShardOf[symbol]
    BY <2>1
  <2>3. Projects(engines[symbol].applied, arrivals[r], AppliedBy(r), symbol)
    BY <1>0, <2>2 DEF Moving, Projected
  <2>4. \A i \in 1..AppliedBy(r) : arrivals'[r][i] = arrivals[r][i]
    <3>1. /\ Len(arrivals[r]) \in Nat /\ DOMAIN arrivals[r] = 1..Len(arrivals[r])
          /\ Taken(r) \in 0..Len(arrivals[r]) /\ AppliedBy(r) \in 0..Taken(r)
      BY <1>0, Places
    <3>2. \A i \in 1..AppliedBy(r) : i \in DOMAIN arrivals[r]
      BY <3>1, SMT
    <3> QED
      <4> SUFFICES ASSUME NEW i \in 1..AppliedBy(r) PROVE arrivals'[r][i] = arrivals[r][i]
        OBVIOUS
      <4>1. i \in DOMAIN arrivals[r]
        BY <3>2
      <4> QED
        BY <1>22, <4>1 DEF OldStay
  <2>5. Projects(engines[symbol].applied, arrivals'[r], AppliedBy(r), symbol)
    BY <2>3, <2>4, ProjectsLonger
  <2>6. Projects(engines'[symbol].applied, arrivals'[ShardOf[symbol]], AppliedBy(ShardOf[symbol])', symbol)
    <3>1. engines' = engines /\ AppliedBy(r)' = AppliedBy(r)
      BY <1>4, <1>21
    <3> QED
      BY <2>2, <2>5, <3>1
  <2> QED
    BY <2>6 DEF Projects
<1>11. Promises'
  <2>1. ASSUME NEW r \in Shard, NEW i \in 1..Settled(r)'
        PROVE  promise'[arrivals'[r][i].id] \in {"detached", "executed"}
    <3>1. /\ Len(arrivals[r]) \in Nat /\ DOMAIN arrivals[r] = 1..Len(arrivals[r])
          /\ Taken(r) \in 0..Len(arrivals[r]) /\ Settled(r) \in 0..Taken(r)
      BY <1>0, Places
    <3>2. i \in 1..Settled(r)
      BY <1>4
    <3>3. i \in DOMAIN arrivals[r]
      BY <3>1, <3>2, SMT
    <3> QED
      <4>1. arrivals'[r][i] = arrivals[r][i]
        BY <1>22, <3>3 DEF OldStay
      <4>2. promise[arrivals[r][i].id] \in {"detached", "executed"}
        BY <1>0, <3>2 DEF Moving, Promises
      <4> QED
        BY <1>21, <4>1, <4>2
  <2>2. ASSUME NEW r \in Shard, NEW i \in DOMAIN arrivals'[r], i > Settled(r)'
        PROVE  promise'[arrivals'[r][i].id] \in {"detached", "unset"}
    <3>1. i > Settled(r) /\ promise' = promise
      BY <1>4, <1>21, <2>2
    <3>2. promise[k.id] \in {"detached", "unset"}
      BY <1>3, <1>20 DEF Own
    <3>3. CASE i \in DOMAIN arrivals[r] /\ arrivals'[r][i] = arrivals[r][i]
      <4>1. promise[arrivals[r][i].id] \in {"detached", "unset"}
        BY <1>0, <3>1, <3>3 DEF Moving, Promises
      <4> QED
        BY <3>1, <3>3, <4>1
    <3>4. CASE arrivals'[r][i] = k
      BY <3>1, <3>2, <3>4
    <3> QED
      BY <1>23, <3>3, <3>4 DEF OneNew
  <2> QED
    BY <2>1, <2>2 DEF Promises
<1>12. Rejects' /\ NeverTwice'
  BY <1>0, <1>1, <1>2, <1>21 DEF Moving, Rejects, NeverTwice, Moved
<1>13. Logged'
  BY <1>0, <1>21, LoggedFrame DEF Moving
<1>14. Counted'
  <2>1. OnTheWay' = OnTheWay
    <3>1. \A x : InQueue(x)' <=> InQueue(x) \/ x = k
      <4>1. Len(queue[s].buffer) \in Nat /\ DOMAIN queue[s].buffer = 1..Len(queue[s].buffer)
        BY <1>0, Places
      <4>2. PICK b \in Nat : b = Len(queue[s].buffer)
        BY <4>1
      <4>3. /\ Len(queue'[s].buffer) = b + 1 /\ queue'[s].buffer[b + 1] = k
            /\ \A i \in 1..b : queue'[s].buffer[i] = queue[s].buffer[i]
            /\ \A r \in Shard : r # s => queue'[r] = queue[r]
        BY <1>20, <4>2 DEF Arrived
      <4>4. DOMAIN queue'[s].buffer = 1..(b + 1)
        <5>1. queue'[s].buffer \in Seq(Command)
          <6>1. queue'[s] \in Q
            BY <1>20 DEF Arrived
          <6> QED
            BY <6>1, SMT DEF Q, QueueOf
        <5> QED
          BY <4>3, <5>1, SMT
      <4>5. (\A i \in 1..b : i \in 1..(b + 1)) /\ b + 1 \in 1..(b + 1)
            /\ \A i \in 1..(b + 1) : i \in 1..b \/ i = b + 1
        BY SMT
      <4>6. \A x : (\E i \in DOMAIN queue'[s].buffer : queue'[s].buffer[i] = x)
                   <=> (\E i \in DOMAIN queue[s].buffer : queue[s].buffer[i] = x) \/ x = k
        <5>1. DOMAIN queue[s].buffer = 1..b
          BY <4>1, <4>2
        <5>2. ASSUME NEW x, NEW i \in DOMAIN queue'[s].buffer, queue'[s].buffer[i] = x
              PROVE  (\E j \in DOMAIN queue[s].buffer : queue[s].buffer[j] = x) \/ x = k
          BY <4>3, <4>4, <4>5, <5>1, <5>2
        <5>3. ASSUME NEW x, NEW i \in DOMAIN queue[s].buffer, queue[s].buffer[i] = x
              PROVE  \E j \in DOMAIN queue'[s].buffer : queue'[s].buffer[j] = x
          BY <4>3, <4>4, <4>5, <5>1, <5>3
        <5>4. \E j \in DOMAIN queue'[s].buffer : queue'[s].buffer[j] = k
          BY <4>3, <4>4, <4>5
        <5> QED
          BY <5>2, <5>3, <5>4
      <4> QED
        <5>1. ASSUME NEW x, NEW r \in Shard, NEW i \in DOMAIN queue'[r].buffer, queue'[r].buffer[i] = x
              PROVE  InQueue(x) \/ x = k
          <6>1. CASE r = s
            BY <4>6, <5>1, <6>1 DEF InQueue
          <6>2. CASE r # s
            <7>1. queue'[r] = queue[r]
              BY <4>3, <6>2
            <7> QED
              BY <5>1, <7>1 DEF InQueue
          <6> QED
            BY <6>1, <6>2
        <5>2. ASSUME NEW x, NEW r \in Shard, NEW i \in DOMAIN queue[r].buffer, queue[r].buffer[i] = x
              PROVE  InQueue(x)'
          <6>1. CASE r = s
            BY <4>6, <5>2, <6>1 DEF InQueue
          <6>2. CASE r # s
            <7>1. queue'[r] = queue[r]
              BY <4>3, <6>2
            <7> QED
              BY <5>2, <7>1 DEF InQueue
          <6> QED
            BY <6>1, <6>2
        <5>3. InQueue(k)'
          BY <4>6 DEF InQueue
        <5>4. \A x : InQueue(x)' => InQueue(x) \/ x = k
          BY <5>1 DEF InQueue
        <5>5. \A x : InQueue(x) => InQueue(x)'
          BY <5>2 DEF InQueue
        <5> QED
          BY <5>3, <5>4, <5>5
    <3>2. \A x : WithClient(x) <=> WithClient(x)' \/ x = k
      <4>1. \A d \in Client : client[d].at \in {"push", "refused"} /\ client[d].command = k => d = c
        BY <1>1, <1>20, Unshared
      <4>2. client'[c].at \notin {"push", "refused"} /\ \A d \in Client : d # c => client'[d] = client[d]
        BY <1>1, <1>2 DEF Moved
      <4> QED
        BY <1>20, <4>1, <4>2 DEF WithClient
    <3>3. \A x : WithOwner(x)' <=> WithOwner(x)
      BY <1>21 DEF WithOwner, Busy
    <3> QED
      BY <3>1, <3>2, <3>3 DEF OnTheWay
  <2> QED
    BY <1>0, <1>20, <2>1 DEF Counted, Moving
<1>15. Stopping'
  <2>1. phase' = phase /\ phase = "running"
    BY <1>1, <1>20, Active DEF config
  <2>2. \A d \in Client : client'[d].at = "wake_idle" => client[d].at = "wake_idle"
    BY <1>1, <1>2 DEF Moved
  <2>3. \A r \in Shard : owner[r].at = "exited" /\ queue[r].closed /\ queue[r].buffer = << >>
                         => queue'[r].closed /\ queue'[r].buffer = << >>
    BY <1>20 DEF Accepts, Arrived
  <2> QED
    BY <1>0, <1>21, <2>1, <2>2, <2>3, StoppingFrame
<1> QED
  BY <1>5, <1>7, <1>8, <1>9, <1>10, <1>11, <1>12, <1>13, <1>14, <1>15 DEF EngineInv

LEMMA PushStep ==
  ASSUME EngineInv, NEW c \in Client, Push(c) PROVE EngineInv'
<1>1. PICK s \in Shard, k \in Command : s = ShardFor(c) /\ k = client[c].command
  <2>1. client[c].at \in Unsent \cup Sent
    <3>1. client[c].at = "push"
      BY DEF Push
    <3> QED
      BY <3>1, SMT DEF Unsent
  <2> QED
    BY <2>1, ShardForClient
<1>2. TypeOK
  BY TypeOf
<1>3. /\ client[c].at = "push"
      /\ UNCHANGED <<config, pending, owner, idle, promise, returned, results>>
      /\ \/ /\ Accepts(queue[s])
            /\ queue' = [queue EXCEPT ![s] = Inserted(queue[s], k)]
            /\ arrivals' = [arrivals EXCEPT ![s] = Append(@, k)]
            /\ Goto(c, "pushed")
         \/ Goto(c, "refused") /\ UNCHANGED <<queue, arrivals>>
         \/ queue' = [queue EXCEPT ![s] = Asleep(queue[s], "not_full", c)] /\ UNCHANGED <<client, arrivals>>
  BY <1>1 DEF Push, CommandOf
<1>4. CASE /\ Accepts(queue[s])
           /\ queue' = [queue EXCEPT ![s] = Inserted(queue[s], k)]
           /\ arrivals' = [arrivals EXCEPT ![s] = Append(@, k)]
           /\ Goto(c, "pushed")
  <2>1. Arrived(s, k)
    BY <1>2, <1>4, ArriveEffect
  <2>2. Entering(c, s, k)
    BY <1>1, <1>3, <1>4, <2>1 DEF Entering, ShardFor, CommandOf
  <2> QED
    BY <2>2, ArriveStep
<1>5. CASE Goto(c, "refused") /\ UNCHANGED <<queue, arrivals>>
  <2>1. /\ "refused" \in ClientState /\ "refused" \in Unsent /\ "refused" \notin Sent
        /\ "push" \in Unsent /\ "refused" # "wake_idle" /\ "refused" # "reject"
    BY SMT DEF ClientState, Unsent, Sent
  <2>2. UNCHANGED <<config, pending, queue, owner, idle, promise, results, history>>
    BY <1>3, <1>5 DEF history
  <2>3. accepting \in BOOLEAN /\ idle \subseteq Client
    BY <1>2, TypeData
  <2>4. ClientFrame
    BY <1>2, <2>2, <2>3, IdleFrame DEF config
  <2> QED
    BY <1>3, <1>5, <2>1, <2>4, QuietGoto
<1>6. CASE queue' = [queue EXCEPT ![s] = Asleep(queue[s], "not_full", c)] /\ UNCHANGED <<client, arrivals>>
  <2>1. queue[s] \in Q /\ client \in [Client -> ClientRecord]
    BY <1>2, Types
  <2>2. SameItems(queue[s], Asleep(queue[s], "not_full", c))
    BY <2>1, SleepEffect
  <2>3. UNCHANGED <<config, pending, owner, idle, promise, results, history>>
    BY <1>3, <1>6 DEF history
  <2>4. ClientFrame
    BY <1>2, <1>6, <2>2, <2>3, QueueFrame
  <2>5. \A d \in Client : SameClient(d)
    BY <1>6, Parts, SameClientAll DEF Moving
  <2>6. phase = "running"
    BY <1>3, Active
  <2> QED
    BY <1>3, <1>6, <2>1, <2>4, <2>5, <2>6, QuietClient
<1> QED
  BY <1>3, <1>4, <1>5, <1>6

-----------------------------------------------------------------------------
(* Steps that move no command: of the owners, the constructor, and nobody's *)

Statistics == [submitted : Nat, processed : Nat, accepted : Nat, rejected : Nat, trades : Nat]

ShardFrame ==
  /\ client' = client /\ queue' \in [Shard -> Q]
  /\ \A s \in Shard : SameItems(queue[s], queue'[s])
  /\ accepting' \in BOOLEAN /\ idle' \subseteq Client /\ stats' \in Statistics
  /\ UNCHANGED <<pending, engines, trade_log, promise, history>>

LEMMA QuietShards ==
  ASSUME EngineInv, ShardFrame, owner' \in [Shard -> OwnerRecord], \A s \in Shard : SameOwner(s),
         phase' \in {"constructing", "unwinding", "failed", "running"}, Stopping'
  PROVE  EngineInv'
<1>0. TypeOK /\ Moving
  BY Parts
<1>1. TypeOK'
  <2>1. DataOK /\ pending \in Nat /\ client \in [Client -> ClientRecord]
    BY <1>0, TypeData, Types
  <2>2. DataOK'
    BY <2>1 DEF ShardFrame, DataOK, history, Statistics
  <2> QED
    BY <2>1, <2>2, TypeStep DEF ShardFrame
<1>2. Quiet
  <2>1. SameBuffers
    BY BuffersSame DEF ShardFrame
  <2>2. \A c \in Client : SameClient(c)
    BY <1>0, SameClientAll DEF ShardFrame, Moving
  <2> QED
    BY <2>1, <2>2 DEF Quiet, ShardFrame
<1>3. Moving'
  BY <1>0, <1>2, QuietStep
<1> QED
  BY <1>1, <1>3, Whole

LEMMA StatsType ==
  ASSUME TypeOK PROVE stats \in Statistics
BY DEF TypeOK, Statistics

\* The owner goes on, with the command it has or without one as before.
LEMMA QuietOwner ==
  ASSUME EngineInv, ShardFrame, NEW s \in Shard, NEW w \in OwnerState, OwnerGoto(s, w),
         Stage(w) = Stage(owner[s].at), owner[s].at \notin {"off", "exited"}, w \notin {"off", "exited"},
         phase' = phase
  PROVE  EngineInv'
<1>0. TypeOK /\ Moving /\ Stopping
  BY Parts
<1>1. OwnerMoved(s, w)
  BY <1>0, OwnerGotoEffect
<1>2. \A r \in Shard : SameOwner(r)
  BY <1>0, <1>1, SameOwnerMoved
<1>3. Stopping'
  <2>1. /\ \A r \in Shard : owner'[r].at = "off" => owner[r].at = "off"
        /\ \A r \in Shard : owner'[r].at = "exited" <=> owner[r].at = "exited"
    BY <1>1 DEF OwnerMoved
  <2>2. \A r \in Shard : queue[r].closed /\ queue[r].buffer = << >>
                         => queue'[r].closed /\ queue'[r].buffer = << >>
    BY DEF ShardFrame, SameItems
  <2> QED
    BY <1>0, <2>1, <2>2, StoppingFrame DEF ShardFrame
<1>4. owner' \in [Shard -> OwnerRecord] /\ phase \in {"constructing", "unwinding", "failed", "running"}
  BY <1>0, <1>1, TypeData DEF OwnerMoved
<1> QED
  BY <1>2, <1>3, <1>4, QuietShards

LEMMA NotifyClientStep ==
  ASSUME EngineInv, NEW s \in Shard, NotifyClient(s) PROVE EngineInv'
<1>0. /\ TypeOK /\ owner[s].at = "popped" /\ OwnerGoto(s, "apply")
      /\ UNCHANGED <<config, pending, client, idle, promise, results, history>>
  BY TypeOf DEF NotifyClient
<1>1. PICK r \in NotifyOne(queue[s], "not_full") : queue' = [queue EXCEPT ![s] = r]
  BY DEF NotifyClient
<1>2. queue[s] \in Q
  BY <1>0, Types
<1>3. SameItems(queue[s], r)
  BY <1>2, NotifyOneEffect
<1>4. queue' \in [Shard -> Q] /\ \A t \in Shard : SameItems(queue[t], queue'[t])
  BY <1>0, <1>1, <1>3, SameItemsSet
<1>5. ShardFrame
  BY <1>0, <1>4, StatsType, TypeData DEF ShardFrame, config, results
<1>6. /\ Stage("apply") = Stage("popped") /\ "apply" \in OwnerState
      /\ "popped" \notin {"off", "exited"} /\ "apply" \notin {"off", "exited"}
  BY SMT DEF Stage, OwnerState
<1> QED
  BY <1>0, <1>5, <1>6, QuietOwner DEF config

LEMMA CountStep ==
  ASSUME EngineInv, NEW s \in Shard, Count(s) PROVE EngineInv'
<1>0. /\ TypeOK /\ owner[s].at = "count" /\ OwnerGoto(s, "complete")
      /\ UNCHANGED <<config, pending, queue, client, idle, engines, trade_log, promise, history>>
  BY TypeOf DEF Count
<1>1. stats' \in Statistics
  <2>1. stats \in Statistics /\ owner[s].trades \in Seq(Nat)
    BY <1>0, StatsType, OwnerFields
  <2>2. PICK n \in Nat : n = Len(owner[s].trades)
    BY <2>1, SMT
  <2>3. PICK a \in {0, 1}, r \in {0, 1} :
          stats' = Stats(stats.submitted, stats.processed + 1, stats.accepted + a, stats.rejected + r,
                         stats.trades + n)
    BY <2>2 DEF Count
  <2>4. \A st \in Statistics :
          Stats(st.submitted, st.processed + 1, st.accepted + a, st.rejected + r, st.trades + n) \in Statistics
    BY SMT DEF Statistics, Stats
  <2> QED
    BY <2>1, <2>3, <2>4
<1>2. queue' \in [Shard -> Q] /\ \A t \in Shard : SameItems(queue[t], queue'[t])
  BY <1>0, SameItemsAll
<1>3. ShardFrame
  BY <1>0, <1>1, <1>2, TypeData DEF ShardFrame, config
<1>4. /\ Stage("complete") = Stage("count") /\ "complete" \in OwnerState
      /\ "count" \notin {"off", "exited"} /\ "complete" \notin {"off", "exited"}
  BY SMT DEF Stage, OwnerState
<1> QED
  BY <1>0, <1>3, <1>4, QuietOwner DEF config

LEMMA FinishNotifyStep ==
  ASSUME EngineInv, NEW s \in Shard, FinishNotify(s) PROVE EngineInv'
<1>0. /\ TypeOK /\ owner[s].at = "notify" /\ OwnerGoto(s, "pop") /\ idle' = {}
      /\ UNCHANGED <<config, pending, queue, client, promise, results, history>>
  BY TypeOf DEF FinishNotify
<1>1. queue' \in [Shard -> Q] /\ \A t \in Shard : SameItems(queue[t], queue'[t])
  BY <1>0, SameItemsAll
<1>2. ShardFrame
  BY <1>0, <1>1, StatsType, TypeData DEF ShardFrame, config, results
<1>3. /\ Stage("notify") = Stage("pop") /\ "pop" \in OwnerState
      /\ "notify" \notin {"off", "exited"} /\ "pop" \notin {"off", "exited"}
  BY SMT DEF Stage, OwnerState
<1> QED
  BY <1>0, <1>2, <1>3, QuietOwner DEF config

LEMMA OwnerSleepStep ==
  ASSUME EngineInv, NEW s \in Shard, queue' = [queue EXCEPT ![s] = Asleep(queue[s], "not_empty", "owner")],
         owner' = owner, UNCHANGED <<config, pending, client, idle, promise, results, history>>
  PROVE  EngineInv'
<1>0. TypeOK /\ Stopping
  BY Parts
<1>1. queue[s] \in Q /\ owner \in [Shard -> OwnerRecord]
  BY <1>0, Types
<1>2. SameItems(queue[s], Asleep(queue[s], "not_empty", "owner"))
  BY <1>1, SleepEffect
<1>3. queue' \in [Shard -> Q] /\ \A t \in Shard : SameItems(queue[t], queue'[t])
  BY <1>0, <1>2, SameItemsSet
<1>4. ShardFrame
  BY <1>0, <1>3, StatsType, TypeData DEF ShardFrame, config, results
<1>5. Stopping'
  BY <1>0, <1>3, StoppingFrame DEF config, SameItems
<1> QED
  BY <1>0, <1>1, <1>4, <1>5, SameOwnerAll, TypeData, QuietShards DEF config

\* A worker leaves its loop when the queue is closed and drained.
LEMMA OwnerExitStep ==
  ASSUME EngineInv, NEW s \in Shard, owner[s].at = "pop", queue[s].buffer = << >>, PopReady(queue[s]),
         OwnerGoto(s, "exited"), UNCHANGED queue,
         UNCHANGED <<config, pending, client, idle, promise, results, history>>
  PROVE  EngineInv'
<1>0. TypeOK /\ Stopping
  BY Parts
<1>1. queue' \in [Shard -> Q] /\ \A t \in Shard : SameItems(queue[t], queue'[t])
  BY <1>0, SameItemsAll
<1>2. ShardFrame
  BY <1>0, <1>1, StatsType, TypeData DEF ShardFrame, config, results
<1>3. "exited" \in OwnerState /\ Stage("exited") = Stage("pop")
  BY SMT DEF OwnerState, Stage
<1>4. OwnerMoved(s, "exited")
  BY <1>0, <1>3, OwnerGotoEffect
<1>5. \A r \in Shard : SameOwner(r)
  BY <1>0, <1>3, <1>4, SameOwnerMoved
<1>6. Stopping'
  <2>1. queue[s].closed
    BY DEF PopReady
  <2>2. /\ owner'[s].at = "exited" /\ \A r \in Shard : r # s => owner'[r] = owner[r]
    BY <1>4 DEF OwnerMoved
  <2>3. phase' = phase
    BY DEF config
  <2>4. \A c \in Client : client[c].at # "rest" => phase = "running"
    BY <1>0 DEF Stopping
  <2>5. phase = "running" => \A r \in Shard : owner'[r].at # "off"
    BY <1>0, <2>2 DEF Stopping
  <2>6. \A r \in Shard : owner'[r].at = "exited" => queue[r].closed /\ queue[r].buffer = << >>
    BY <1>0, <2>1, <2>2 DEF Stopping
  <2>7. \A c \in Client : client[c].at = "wake_idle" => \A r \in Shard : owner'[r].at = "exited"
    BY <1>0, <2>2 DEF Stopping
  <2> QED
    BY <2>3, <2>4, <2>5, <2>6, <2>7 DEF Stopping
<1> QED
  BY <1>0, <1>2, <1>4, <1>5, <1>6, TypeData, QuietShards DEF config, OwnerMoved

\* No client exists while the constructor runs.
LEMMA NoClients ==
  ASSUME Stopping, phase # "running"
  PROVE  \A c \in Client : client[c].at = "rest"
BY DEF Stopping

LEMMA StartOwnerStep ==
  ASSUME EngineInv, NEW s \in Shard, StartOwner(s) PROVE EngineInv'
<1>0. /\ TypeOK /\ Stopping /\ phase = "constructing" /\ owner[s].at = "off" /\ OwnerGoto(s, "pop")
      /\ \A r \in 1..(s - 1) : owner[r].at # "off"
      /\ phase' = IF s = ShardCount THEN "running" ELSE phase
      /\ UNCHANGED <<accepting, pending, queue, client, idle, promise, results, history>>
  BY Parts DEF StartOwner
<1>1. queue' \in [Shard -> Q] /\ \A t \in Shard : SameItems(queue[t], queue'[t])
  BY <1>0, SameItemsAll
<1>2. ShardFrame
  BY <1>0, <1>1, StatsType, TypeData DEF ShardFrame, results
<1>3. "pop" \in OwnerState /\ Stage("pop") = Stage("off") /\ "pop" \notin {"off", "exited"}
  BY SMT DEF OwnerState, Stage
<1>4. OwnerMoved(s, "pop")
  BY <1>0, <1>3, OwnerGotoEffect
<1>5. \A r \in Shard : SameOwner(r)
  BY <1>0, <1>3, <1>4, SameOwnerMoved
<1>6. phase' \in {"constructing", "unwinding", "failed", "running"}
  BY <1>0
<1>7. Stopping'
  <2>1. \A c \in Client : client[c].at = "rest"
    BY <1>0, NoClients
  <2>2. owner'[s].at = "pop" /\ \A r \in Shard : r # s => owner'[r] = owner[r]
    BY <1>4 DEF OwnerMoved
  <2>3. ASSUME phase' = "running", NEW r \in Shard PROVE owner'[r].at # "off"
    <3>1. s = ShardCount
      BY <1>0, <2>3
    <3>2. r # s => r \in 1..(s - 1)
      BY <3>1, PartitionAssumption, SMT DEF Shard
    <3> QED
      BY <1>0, <1>3, <2>2, <3>2
  <2>4. \A r \in Shard : owner'[r].at = "exited" => queue'[r].closed /\ queue'[r].buffer = << >>
    BY <1>0, <1>3, <2>2 DEF Stopping
  <2> QED
    BY <1>0, <2>1, <2>3, <2>4 DEF Stopping
<1> QED
  BY <1>2, <1>4, <1>5, <1>6, <1>7, QuietShards DEF OwnerMoved

LEMMA ConstructorFailsStep ==
  ASSUME EngineInv, ConstructorFails PROVE EngineInv'
<1>0. /\ TypeOK /\ Stopping /\ phase = "constructing" /\ phase' = "unwinding" /\ accepting' = FALSE
      /\ queue' = [s \in Shard |-> NotifyAll(Closed(queue[s]))]
      /\ UNCHANGED <<pending, owner, client, idle, promise, results, history>>
  BY Parts DEF ConstructorFails
<1>1. \A t \in Shard : SameItems(queue[t], queue'[t])
  <2> SUFFICES ASSUME NEW t \in Shard PROVE SameItems(queue[t], queue'[t])
    OBVIOUS
  <2>1. queue[t] \in Q /\ queue'[t] = NotifyAll(Closed(queue[t]))
    BY <1>0, Types
  <2>2. SameItems(queue[t], NotifyAll(Closed(queue[t])))
    BY <2>1, CloseEffect
  <2> QED
    BY <2>1, <2>2
<1>2. queue' \in [Shard -> Q]
  <2>1. \A t \in Shard : queue'[t] \in Q /\ queue'[t] = NotifyAll(Closed(queue[t]))
    BY <1>0, <1>1 DEF SameItems
  <2> QED
    BY <1>0, <2>1
<1>3. ShardFrame
  BY <1>0, <1>1, <1>2, StatsType, TypeData DEF ShardFrame, results
<1>4. Stopping'
  <2>1. \A c \in Client : client[c].at = "rest"
    BY <1>0, NoClients
  <2>2. \A r \in Shard : owner[r].at = "exited" => queue'[r].closed /\ queue'[r].buffer = << >>
    BY <1>0, <1>1 DEF Stopping, SameItems
  <2> QED
    BY <1>0, <2>1, <2>2 DEF Stopping
<1>5. owner' \in [Shard -> OwnerRecord] /\ \A r \in Shard : SameOwner(r)
  BY <1>0, Types, SameOwnerAll
<1> QED
  BY <1>0, <1>3, <1>4, <1>5, QuietShards

LEMMA RethrowStep ==
  ASSUME EngineInv, Rethrow PROVE EngineInv'
<1>0. /\ TypeOK /\ Stopping /\ phase \in {"unwinding", "failed"} /\ phase' = "failed"
      /\ UNCHANGED <<accepting, pending, queue, owner, client, idle, promise, results, history>>
  BY Parts DEF Rethrow
<1>1. queue' \in [Shard -> Q] /\ \A t \in Shard : SameItems(queue[t], queue'[t])
  BY <1>0, SameItemsAll
<1>2. ShardFrame
  BY <1>0, <1>1, StatsType, TypeData DEF ShardFrame, results
<1>3. Stopping'
  <2>1. phase # "running"
    BY <1>0
  <2>2. \A c \in Client : client[c].at = "rest"
    BY <1>0, <2>1, NoClients
  <2> QED
    BY <1>0, <2>2 DEF Stopping
<1>4. owner' \in [Shard -> OwnerRecord] /\ \A r \in Shard : SameOwner(r)
  BY <1>0, Types, SameOwnerAll
<1> QED
  BY <1>0, <1>2, <1>3, <1>4, QuietShards

LEMMA SpuriousWakeupsStep ==
  ASSUME EngineInv, SpuriousWakeups PROVE EngineInv'
<1>0. /\ TypeOK /\ Stopping /\ UNCHANGED <<config, pending, owner, client, promise, results, history>>
  BY Parts DEF SpuriousWakeups
<1>1. idle' \subseteq Client
  BY <1>0, TypeData DEF SpuriousWakeups
<1>2. queue' \in [Shard -> Q] /\ \A t \in Shard : SameItems(queue[t], queue'[t])
  <2>1. CASE queue' = queue
    BY <1>0, <2>1, SameItemsAll
  <2>2. ASSUME NEW s \in Shard, NEW q \in SpuriousWakeup(queue[s]), queue' = [queue EXCEPT ![s] = q]
        PROVE  queue' \in [Shard -> Q] /\ \A t \in Shard : SameItems(queue[t], queue'[t])
    <3>1. queue[s] \in Q
      BY <1>0, Types
    <3>2. SameItems(queue[s], q)
      BY <2>2, <3>1, SpuriousEffect
    <3> QED
      BY <1>0, <2>2, <3>2, SameItemsSet
  <2> QED
    BY <2>1, <2>2 DEF SpuriousWakeups
<1>3. ShardFrame
  BY <1>0, <1>1, <1>2, StatsType, TypeData DEF ShardFrame, config, results
<1>4. Stopping'
  BY <1>0, <1>2, StoppingFrame DEF config, SameItems
<1>5. owner' \in [Shard -> OwnerRecord] /\ \A r \in Shard : SameOwner(r)
  BY <1>0, Types, SameOwnerAll
<1> QED
  BY <1>0, <1>3, <1>4, <1>5, TypeData, QuietShards DEF config

-----------------------------------------------------------------------------
(* The invariant holds from the start *)

\* How the counts of a shard depend on the number taken and the stage.
LEMMA Counts ==
  ASSUME NEW r
  PROVE  /\ Settled(r) = Taken(r) - (IF Open(r) THEN 1 ELSE 0)
         /\ AppliedBy(r) = Taken(r) - (IF Holds(r) THEN 1 ELSE 0)
         /\ Settled(r)' = Taken(r)' - (IF Open(r)' THEN 1 ELSE 0)
         /\ AppliedBy(r)' = Taken(r)' - (IF Holds(r)' THEN 1 ELSE 0)
BY DEF Settled, AppliedBy, Taken

\* At the start no command is anywhere.
LEMMA InitFacts ==
  ASSUME Init
  PROVE  /\ \A s \in Shard : /\ queue[s] = NewQueue /\ arrivals[s] = << >>
                             /\ owner[s] = Owning("off", NoCommand, FALSE, << >>, 0)
         /\ \A c \in Client : client[c] = Resting
         /\ \A y \in Symbol : /\ engines[y] = [applied |-> << >>, trade_count |-> 0]
                              /\ trade_log[y] = << >>
         /\ \A i \in 1..MaxCommands : promise[i] = "none"
         /\ phase = "constructing" /\ pending = 0 /\ returned = {}
BY DEF Init

LEMMA InitType == ASSUME Init PROVE TypeOK
<1>1. NewQueue \in Q /\ Owning("off", NoCommand, FALSE, << >>, 0) \in OwnerRecord /\ Resting \in ClientRecord
  <2>1. NewQueue \in Q
    BY CapacityAssumption, SMT DEF NewQueue, Queue, Q, QueueOf
  <2>2. Owning("off", NoCommand, FALSE, << >>, 0) \in OwnerRecord
    BY SMT DEF Owning, OwnerRecord, OwnerState
  <2> QED
    BY <2>1, <2>2, RestType
<1>2. queue \in [Shard -> Q] /\ owner \in [Shard -> OwnerRecord] /\ client \in [Client -> ClientRecord]
  BY <1>1 DEF Init
<1>3. /\ [applied |-> << >>, trade_count |-> 0] \in [applied : Seq(Command), trade_count : Nat]
      /\ << >> \in Seq(Nat) /\ << >> \in Seq(Command)
  BY SMT
<1>4. /\ engines \in [Symbol -> [applied : Seq(Command), trade_count : Nat]]
      /\ trade_log \in [Symbol -> Seq(Nat)] /\ arrivals \in [Shard -> Seq(Command)]
      /\ promise \in [1..MaxCommands -> {"none", "detached", "unset", "executed", "shutting_down", "set_twice"}]
  BY <1>3 DEF Init
<1>5. stats \in [submitted : Nat, processed : Nat, accepted : Nat, rejected : Nat, trades : Nat] /\ pending \in Nat
  BY SMT DEF Init, Stats
<1>6. /\ phase \in {"constructing", "unwinding", "failed", "running"} /\ accepting \in BOOLEAN
      /\ idle \subseteq Client /\ returned \subseteq Command
  BY DEF Init
<1> QED
  BY <1>2, <1>4, <1>5, <1>6 DEF TypeOK, Q, OwnerRecord, ClientRecord

LEMMA InitInv == ASSUME Init PROVE EngineInv
<1>1. /\ \A s \in Shard : queue[s].buffer = << >> /\ arrivals[s] = << >> /\ owner[s].at = "off"
      /\ \A c \in Client : client[c].at = "rest" /\ client[c].debt = {}
      /\ \A y \in Symbol : engines[y].applied = << >> /\ engines[y].trade_count = 0 /\ trade_log[y] = << >>
  <2>1. /\ NewQueue.buffer = << >> /\ Owning("off", NoCommand, FALSE, << >>, 0).at = "off"
        /\ Resting.at = "rest" /\ Resting.debt = {}
    BY SMT DEF NewQueue, Queue, Owning, Resting, Calling
  <2>2. \A e : e = [applied |-> << >>, trade_count |-> 0] => e.applied = << >> /\ e.trade_count = 0
    BY SMT
  <2> QED
    BY <2>1, <2>2, InitFacts
<1>2. DOMAIN << >> = {} /\ Len(<< >>) = 0
  BY SMT
<1>3. \A s \in Shard : ~Busy(s) /\ ~Open(s) /\ ~Holds(s) /\ owner[s].at # "record" /\ owner[s].at # "exited"
  BY <1>1, SMT DEF Busy, Open, Holds
<1>4. \A s \in Shard : Settled(s) = 0 /\ AppliedBy(s) = 0
  <2>1. 0 - 0 = 0
    BY SMT
  <2>2. \A s \in Shard : Taken(s) = 0
    BY <1>1, <1>2, <2>1 DEF Taken
  <2> QED
    BY <1>3, <2>1, <2>2, Counts
<1>5. Unique
  <2>1. Numbered
    <3>1. 0 \in 0..MaxCommands /\ \A i \in 1..MaxCommands : ~(i <= 0)
      BY PartitionAssumption, SMT
    <3> QED
      BY <3>1, InitFacts DEF Numbered
  <2>2. \A c \in Client : client[c].at \notin Unsent
    BY <1>1, SMT DEF Unsent
  <2>3. Distinct
    BY <1>1, <1>2 DEF Distinct
  <2> QED
    BY <2>1, <2>2, <2>3 DEF Unique, OneOwner
<1>6. Kept
  <2>1. \A c \in Client : client[c].at \notin Sent
    BY <1>1, SMT DEF Sent
  <2> QED
    BY <1>1, <2>1, InitFacts DEF Kept
<1>7. Order
  <2>1. \A s \in Shard : Len(queue[s].buffer) <= Len(arrivals[s])
    BY <1>1, SMT
  <2> QED
    BY <1>1, <1>2, <1>3, <2>1 DEF Order
<1>8. Projected
  <2>1. \A all, symbol : Projects(<< >>, all, 0, symbol)
    <3>1. 1..0 = {} /\ << >> \in [{} -> {}]
      BY SMT
    <3> QED
      BY <1>2, <3>1 DEF Projects
  <2>2. \A y \in Symbol : ShardOf[y] \in Shard
    BY PartitionAssumption
  <2> QED
    BY <1>1, <1>4, <2>1, <2>2 DEF Projected
<1>9. Promises
  <2>1. 1..0 = {}
    BY SMT
  <2> QED
    BY <1>1, <1>2, <1>4, <2>1 DEF Promises
<1>10. Rejects /\ NeverTwice
  <2>1. "none" # "set_twice" /\ "rest" # "reject"
    BY SMT
  <2> QED
    BY <1>1, <2>1, InitFacts DEF Rejects, NeverTwice
<1>11. Logged
  <2>1. Latest(<< >>, 0 - 0)
    BY LogAssumption, SMT DEF Latest
  <2>2. \A y \in Symbol : ShardOf[y] \in Shard /\ ~Recording(ShardOf[y], y)
    BY <1>3, PartitionAssumption DEF Recording
  <2> QED
    BY <1>1, <1>3, <2>1, <2>2 DEF Logged
<1>12. Stopping
  <2>1. "constructing" # "running" /\ "rest" # "wake_idle"
    BY SMT
  <2> QED
    BY <1>1, <1>3, <2>1, InitFacts DEF Stopping
<1>13. Counted
  <2>1. OnTheWay = {}
    <3>1. \A c \in Client : client[c].at \notin {"push", "refused"}
      BY <1>1, SMT
    <3> QED
      BY <1>1, <1>2, <1>3, <3>1 DEF OnTheWay, WithClient, InQueue, WithOwner
  <2>2. 1..0 = {} /\ << >> \in [{} -> {}]
    BY SMT
  <2>3. Numbers(<< >>, {}, 0)
    BY <2>2 DEF Numbers
  <2> QED
    BY <2>1, <2>3, Numbering, InitFacts DEF Counted
<1> QED
  BY <1>5, <1>6, <1>7, <1>8, <1>9, <1>10, <1>11, <1>12, <1>13, InitType DEF EngineInv

LEMMA ClientStepInv ==
  ASSUME EngineInv, NEW c \in Client, ClientStep(c) PROVE EngineInv'
<1>1. CASE Gate(c) \/ CountPending(c) \/ Push(c) \/ NotifyOwner(c) \/ Submitted(c)
  BY <1>1, GateStep, CountPendingStep, PushStep, NotifyOwnerStep, SubmittedStep
<1>2. CASE Refused(c) \/ RefusedNotify(c) \/ CompleteRejected(c)
  BY <1>2, RefusedStep, RefusedNotifyStep, CompleteRejectedStep
<1>3. CASE WaitUntilIdle(c) \/ Block(c) \/ Shutdown(c) \/ WakeIdle(c)
  BY <1>3, WaitStep
<1>4. CASE CloseQueue(c) \/ WakeQueue(c) \/ Join(c)
  BY <1>4, CloseStep, WakeStep, JoinStep
<1> QED
  BY <1>1, <1>2, <1>3, <1>4 DEF ClientStep

-----------------------------------------------------------------------------
(* What the invariant says *)

\* The command in the hands of an owner: where it stands among the arrivals, and
\* that nobody else has it.
LEMMA InHand ==
  ASSUME EngineInv, NEW s \in Shard, Busy(s)
  PROVE  /\ Taken(s) \in DOMAIN arrivals[s] /\ arrivals[s][Taken(s)] = owner[s].command
         /\ owner[s].command \in Command /\ owner[s].command.id \in 1..MaxCommands
         /\ ShardOf[owner[s].command.symbol] = s
<1>1. /\ Len(arrivals[s]) \in Nat /\ DOMAIN arrivals[s] = 1..Len(arrivals[s])
      /\ Taken(s) \in 0..Len(arrivals[s])
  BY Parts, Places DEF Moving
<1>2. Taken(s) >= 1 /\ arrivals[s][Taken(s)] = owner[s].command
      /\ \A i \in DOMAIN arrivals[s] : ShardOf[arrivals[s][i].symbol] = s
  BY Parts DEF Moving, Order
<1>3. Taken(s) \in DOMAIN arrivals[s]
  <2>1. PICK a \in Nat : a = Len(arrivals[s])
    BY <1>1
  <2>2. \A n \in 0..a : n >= 1 => n \in 1..a
    BY SMT
  <2> QED
    BY <1>1, <1>2, <2>1, <2>2
<1>4. arrivals[s][Taken(s)] \in Command /\ arrivals[s][Taken(s)].id \in 1..MaxCommands
  BY <1>3, EnteredIssued
<1> QED
  BY <1>2, <1>3, <1>4

\* An engine and its log, and what an owner in the middle of recording says of them.
LEMMA EngineType ==
  ASSUME EngineInv, NEW symbol \in Symbol
  PROVE  /\ engines[symbol] \in [applied : Seq(Command), trade_count : Nat]
         /\ engines[symbol].applied \in Seq(Command) /\ engines[symbol].trade_count \in Nat
         /\ trade_log[symbol] \in Seq(Nat) /\ ShardOf[symbol] \in Shard
<1>1. /\ engines \in [Symbol -> [applied : Seq(Command), trade_count : Nat]]
      /\ trade_log \in [Symbol -> Seq(Nat)]
  BY Parts, TypeData DEF DataOK
<1>2. engines[symbol] \in [applied : Seq(Command), trade_count : Nat] /\ trade_log[symbol] \in Seq(Nat)
  BY <1>1
<1>3. \A e \in [applied : Seq(Command), trade_count : Nat] : e.applied \in Seq(Command) /\ e.trade_count \in Nat
  BY SMT
<1>4. ShardOf[symbol] \in Shard
  BY PartitionAssumption
<1> QED
  BY <1>2, <1>3, <1>4

\* Sequences are equal when their elements are, and what the elements of a part
\* and of a concatenation are.
LEMMA SeqEqual ==
  ASSUME NEW S, NEW a \in Seq(S), NEW b \in Seq(S), Len(a) = Len(b), \A i \in 1..Len(b) : a[i] = b[i]
  PROVE  a = b
<1>1. /\ DOMAIN a = 1..Len(a) /\ a = [i \in DOMAIN a |-> a[i]]
      /\ DOMAIN b = 1..Len(b) /\ b = [i \in DOMAIN b |-> b[i]]
  BY SMT
<1> QED
  BY <1>1

LEMMA SeqFirst ==
  ASSUME NEW S, NEW a \in Seq(S), NEW n \in Nat, n <= Len(a)
  PROVE  /\ SubSeq(a, 1, n) \in Seq(S) /\ Len(SubSeq(a, 1, n)) = n
         /\ \A i \in 1..n : SubSeq(a, 1, n)[i] = a[i]
<1>1. Len(SubSeq(a, 1, n)) = n /\ \A i \in 1..n : SubSeq(a, 1, n)[i] = a[i]
  BY SMT
<1>2. SubSeq(a, 1, n) \in Seq(S)
  BY SMT
<1> QED
  BY <1>1, <1>2

LEMMA SeqJoin ==
  ASSUME NEW S, NEW a \in Seq(S), NEW b \in Seq(S)
  PROVE  /\ a \o b \in Seq(S) /\ Len(a \o b) = Len(a) + Len(b)
         /\ \A i \in 1..Len(a) : (a \o b)[i] = a[i]
         /\ \A i \in 1..Len(b) : (a \o b)[Len(a) + i] = b[i]
<1>1. a \o b \in Seq(S) /\ Len(a \o b) = Len(a) + Len(b)
  BY SMT
<1>2. \A i \in 1..Len(a) : (a \o b)[i] = a[i]
  BY SMT
<1>3. \A i \in 1..Len(b) : (a \o b)[Len(a) + i] = b[i]
  BY SMT
<1> QED
  BY <1>1, <1>2, <1>3

\* all starts with front and goes on with rest.
LEMMA SeqSplit ==
  ASSUME NEW S, NEW all \in Seq(S), NEW front \in Seq(S), NEW rest \in Seq(S),
         Len(all) = Len(front) + Len(rest), \A i \in 1..Len(front) : front[i] = all[i],
         \A i \in 1..Len(rest) : rest[i] = all[Len(front) + i]
  PROVE  all = front \o rest
<1>1. PICK whole : whole = front \o rest
  OBVIOUS
<1>2. /\ whole \in Seq(S) /\ Len(whole) = Len(front) + Len(rest)
      /\ \A i \in 1..Len(front) : whole[i] = front[i]
      /\ \A i \in 1..Len(rest) : whole[Len(front) + i] = rest[i]
  <2>1. /\ front \o rest \in Seq(S) /\ Len(front \o rest) = Len(front) + Len(rest)
        /\ \A i \in 1..Len(front) : (front \o rest)[i] = front[i]
        /\ \A i \in 1..Len(rest) : (front \o rest)[Len(front) + i] = rest[i]
    BY SeqJoin, SMT
  <2> QED
    BY <1>1, <2>1
<1>3. PICK a \in Nat, b \in Nat : a = Len(front) /\ b = Len(rest)
  <2>1. Len(front) \in Nat /\ Len(rest) \in Nat
    BY SMT
  <2> QED
    BY <2>1
<1>4. \A i \in 1..(a + b) : i \in 1..a \/ \E j \in 1..b : i = a + j
  <2>1. \A i \in 1..(a + b) : i \in 1..a \/ (i - a \in 1..b /\ i = a + (i - a))
    BY SMT
  <2> QED
    BY <2>1
<1>5. \A i \in 1..(a + b) : whole[i] = all[i]
  <2>1. (\A i \in 1..a : whole[i] = all[i]) /\ \A j \in 1..b : whole[a + j] = all[a + j]
    BY <1>2, <1>3
  <2> QED
    BY <1>4, <2>1
<1> QED
  BY <1>1, <1>2, <1>3, <1>5, SeqEqual

\* A shard is a queue: what entered it is what was applied, what its owner has in
\* hand and what waits.
LEMMA Fifo ==
  ASSUME EngineInv, NEW s \in Shard
  PROVE  /\ AppliedBy(s) \in Nat
         /\ arrivals[s] = SubSeq(arrivals[s], 1, AppliedBy(s))
                          \o (IF Holds(s) THEN <<owner[s].command>> ELSE << >>)
                          \o queue[s].buffer
<1>1. PICK all \in Seq(Command), buffer \in Seq(Command), n \in Nat, m \in Nat :
        /\ all = arrivals[s] /\ buffer = queue[s].buffer
        /\ n = AppliedBy(s) /\ m = Taken(s)
        /\ m = Len(all) - Len(buffer) /\ n <= Len(all)
  <2>1. TypeOK /\ Order
    BY DEF EngineInv
  <2>2. /\ arrivals[s] \in Seq(Command) /\ queue[s].buffer \in Seq(Command)
        /\ Len(arrivals[s]) \in Nat
        /\ Taken(s) \in 0..Len(arrivals[s]) /\ Taken(s) = Len(arrivals[s]) - Len(queue[s].buffer)
        /\ AppliedBy(s) \in 0..Taken(s)
    BY <2>1, Places
  <2>3. \A a, b, c : a \in Nat /\ b \in 0..a /\ c \in 0..b => b \in Nat /\ c \in Nat /\ c <= a
    BY SMT
  <2> QED
    BY <2>2, <2>3
<1>2. \A i \in 1..Len(buffer) : buffer[i] = all[m + i]
  <2>1. DOMAIN buffer = 1..Len(buffer)
    BY SMT
  <2> QED
    BY <1>1, <2>1 DEF EngineInv, Order
<1>3. PICK front \in Seq(Command) :
        /\ front = SubSeq(all, 1, n) \o (IF Holds(s) THEN <<owner[s].command>> ELSE << >>)
        /\ Len(front) = m /\ \A i \in 1..m : front[i] = all[i]
  <2>1. PICK first \in Seq(Command) :
          first = SubSeq(all, 1, n) /\ Len(first) = n /\ \A i \in 1..n : first[i] = all[i]
    <3>1. /\ SubSeq(all, 1, n) \in Seq(Command) /\ Len(SubSeq(all, 1, n)) = n
          /\ \A i \in 1..n : SubSeq(all, 1, n)[i] = all[i]
      BY <1>1, SeqFirst
    <3> QED
      BY <3>1
  <2>2. CASE Holds(s)
    <3>1. n = m - 1
      BY <1>1, <2>2, Counts
    <3>2. PICK k \in Command : k = owner[s].command /\ all[m] = k
      <4>1. Busy(s)
        BY <2>2, SMT DEF Holds, Busy
      <4> QED
        BY <1>1, <4>1, InHand
    <3>3. /\ first \o <<k>> \in Seq(Command) /\ Len(first \o <<k>>) = n + 1
          /\ (\A i \in 1..n : (first \o <<k>>)[i] = first[i]) /\ (first \o <<k>>)[n + 1] = k
      <4>1. first \o <<k>> \in Seq(Command) /\ Len(first \o <<k>>) = Len(first) + 1
        BY SMT
      <4>2. \A i \in 1..Len(first) : (first \o <<k>>)[i] = first[i]
        BY SMT
      <4>3. (first \o <<k>>)[Len(first) + 1] = k
        BY SMT
      <4> QED
        BY <2>1, <4>1, <4>2, <4>3
    <3>4. m = n + 1 /\ \A i \in 1..m : i \in 1..n \/ i = n + 1
      BY <3>1, SMT
    <3>5. \A i \in 1..m : (first \o <<k>>)[i] = all[i]
      BY <2>1, <3>2, <3>3, <3>4
    <3> QED
      BY <2>1, <2>2, <3>2, <3>3, <3>4, <3>5
  <2>3. CASE ~Holds(s)
    <3>1. n = m - 0
      BY <1>1, <2>3, Counts
    <3>2. m = n
      BY <3>1, SMT
    <3>3. first \o << >> = first
      BY SMT
    <3> QED
      BY <2>1, <2>3, <3>2, <3>3
  <2> QED
    BY <2>2, <2>3
<1>4. Len(all) = m + Len(buffer)
  <2>1. Len(all) \in Nat /\ Len(buffer) \in Nat
    BY SMT
  <2> QED
    BY <1>1, <2>1, SMT
<1>5. all = front \o buffer
  BY <1>2, <1>3, <1>4, SeqSplit
<1> QED
  BY <1>1, <1>3, <1>5

\* The commands a shard has applied are in the engines, and those that are
\* settled are done.
LEMMA AppliedIs ==
  ASSUME EngineInv, NEW s \in Shard, NEW i \in DOMAIN arrivals[s], i \in 1..AppliedBy(s)
  PROVE  arrivals[s][i] \in Range(engines[arrivals[s][i].symbol].applied)
<1>1. PICK k \in Command : k = arrivals[s][i] /\ k.symbol \in Symbol /\ ShardOf[k.symbol] = s
  <2>1. arrivals[s][i] \in Command
    BY EnteredIssued
  <2>2. arrivals[s][i].symbol \in Symbol
    BY <2>1, SMT DEF Command
  <2> QED
    BY <2>1, <2>2 DEF EngineInv, Order
<1>2. Projects(engines[k.symbol].applied, arrivals[s], AppliedBy(s), k.symbol)
  BY <1>1 DEF EngineInv, Projected
<1>3. PICK seq : seq = engines[k.symbol].applied
  OBVIOUS
<1>4. PICK place \in [DOMAIN seq -> 1..AppliedBy(s)] :
        /\ \A p \in DOMAIN seq : arrivals[s][place[p]] = seq[p]
        /\ \A j \in 1..AppliedBy(s) :
             arrivals[s][j].symbol = k.symbol <=> \E p \in DOMAIN seq : place[p] = j
  BY <1>2, <1>3 DEF Projects
<1>5. \E p \in DOMAIN seq : seq[p] = k
  <2>1. arrivals[s][i].symbol = k.symbol
    BY <1>1
  <2>2. PICK p \in DOMAIN seq : place[p] = i
    BY <1>4, <2>1
  <2>3. arrivals[s][place[p]] = seq[p]
    BY <1>4, <2>2
  <2> QED
    BY <1>1, <2>2, <2>3
<1> QED
  BY <1>1, <1>3, <1>5 DEF Range

LEMMA SettledDone ==
  ASSUME EngineInv, NEW s \in Shard, NEW i \in DOMAIN arrivals[s], i \in 1..Settled(s)
  PROVE  Done(arrivals[s][i])
<1>1. i \in 1..AppliedBy(s)
  <2>1. Holds(s) => Open(s)
    BY DEF Holds, Open
  <2>2. PICK n \in Int : n = Taken(s)
    <3>1. Taken(s) \in 0..Len(arrivals[s])
      BY Places DEF EngineInv
    <3>2. \A a, b : a \in 0..b => a \in Int
      BY SMT
    <3> QED
      BY <3>1, <3>2
  <2>3. /\ Settled(s) = n - (IF Open(s) THEN 1 ELSE 0)
        /\ AppliedBy(s) = n - (IF Holds(s) THEN 1 ELSE 0)
    BY <2>2, Counts
  <2> QED
    BY <2>1, <2>3, SMT
<1>2. promise[arrivals[s][i].id] \in {"detached", "executed"}
  BY DEF EngineInv, Promises
<1> QED
  BY <1>1, <1>2, AppliedIs DEF Done

LEMMA DrainedDone ==
  ASSUME EngineInv, NEW s \in Shard, queue[s].buffer = << >>, ~Open(s), NEW i \in DOMAIN arrivals[s]
  PROVE  Done(arrivals[s][i])
<1>1. PICK n \in Nat : n = Len(arrivals[s]) /\ i \in 1..n /\ Taken(s) = n - 0
  <2>1. Len(<< >>) = 0
    BY SMT
  <2> QED
    BY <2>1, Places DEF EngineInv
<1>2. (n - 0) - 0 = n
  BY SMT
<1>3. i \in 1..Settled(s)
  BY <1>1, <1>2, Counts
<1> QED
  BY <1>3, SettledDone

\* With pending_ = 0 the shards have nothing left to do.
LEMMA NothingLeft ==
  ASSUME EngineInv, pending = 0, NEW s \in Shard
  PROVE  queue[s].buffer = << >> /\ ~Open(s)
<1>1. OnTheWay = {}
  <2>1. PICK f : Numbers(f, OnTheWay, 0)
    BY Numbering DEF EngineInv, Counted
  <2>2. 1..0 = {}
    BY SMT
  <2> QED
    BY <2>1, <2>2 DEF Numbers
<1>2. queue[s].buffer = << >>
  <2>1. PICK buffer \in Seq(Command) : buffer = queue[s].buffer
    BY Places DEF EngineInv
  <2>2. buffer # << >> => 1 \in DOMAIN buffer /\ buffer[1] \in Command
    BY SMT
  <2> QED
    BY <1>1, <2>1, <2>2 DEF OnTheWay, InQueue
<1>3. ~Busy(s)
  BY <1>1, InHand DEF OnTheWay, WithOwner
<1>4. Open(s) => Busy(s)
  BY SMT DEF Open, Busy
<1> QED
  BY <1>2, <1>3, <1>4

\* Only waitUntilIdle itself ends a wait.
LEMMA WaitEnds ==
  ASSUME EngineInv, [Next]_vars, NEW c \in Client, client[c].at = "wait", client'[c].at = "rest"
  PROVE  pending = 0
<1>0. TypeOK /\ "wait" # "rest"
  BY Parts, SMT
<1>1. client' # client
  BY <1>0
<1>2. ~EngineNext \/ \E d \in Client : ClientStep(d)
  <2>1. ASSUME NEW s \in Shard PROVE ~StartOwner(s) /\ ~OwnerStep(s)
    <3>1. ~StartOwner(s) /\ ~OwnerPop(s) /\ ~NotifyClient(s) /\ ~Apply(s) /\ ~Record(s)
      BY <1>1 DEF StartOwner, OwnerPop, NotifyClient, Apply, Record
    <3>2. ~Count(s) /\ ~Complete(s) /\ ~Finish(s) /\ ~FinishNotify(s)
      BY <1>1 DEF Count, Complete, Finish, FinishNotify
    <3> QED
      BY <3>1, <3>2 DEF OwnerStep
  <2>2. ~ConstructorFails /\ ~Rethrow /\ ~SpuriousWakeups
    BY <1>1 DEF ConstructorFails, Rethrow, SpuriousWakeups
  <2> QED
    BY <2>1, <2>2 DEF EngineNext
<1>3. ASSUME NEW d \in Client, d # c, NEW r, client' = [client EXCEPT ![d] = r] PROVE FALSE
  <2>1. client \in [Client -> ClientRecord]
    BY <1>0, Types
  <2>2. client'[c] = client[c]
    BY <1>3, <2>1
  <2> QED
    BY <1>0, <2>2
<1>4. ASSUME NEW d \in Client, NEW w, Goto(d, w) \/ Return(d), d # c PROVE FALSE
  BY <1>3, <1>4 DEF Goto, Return
<1>5. ASSUME NEW d \in Client, AnyCall(d) PROVE FALSE
  <2>1. client[d] = Resting /\ \E r : client' = [client EXCEPT ![d] = r]
    BY <1>5 DEF AnyCall, Begin, BeginControl
  <2>2. Resting.at = "rest"
    BY SMT DEF Resting, Calling
  <2> QED
    BY <1>0, <1>3, <2>1, <2>2
<1>6. ASSUME NEW d \in Client, ClientStep(d) PROVE WaitUntilIdle(c) /\ d = c
  <2>1. d = c
    <3>1. CASE Gate(d) \/ CountPending(d) \/ NotifyOwner(d) \/ Submitted(d)
      BY <1>4, <3>1 DEF Gate, CountPending, NotifyOwner, Submitted, ReturnFalse
    <3>2. CASE Push(d)
      BY <1>1, <1>4, <3>2 DEF Push
    <3>3. CASE Refused(d) \/ RefusedNotify(d) \/ CompleteRejected(d)
      BY <1>4, <3>3 DEF Refused, RefusedNotify, CompleteRejected, ReturnFalse
    <3>4. CASE WaitUntilIdle(d) \/ Block(d) \/ Shutdown(d) \/ WakeIdle(d)
      BY <1>4, <3>4 DEF WaitUntilIdle, Block, Shutdown, WakeIdle
    <3>5. CASE CloseQueue(d) \/ WakeQueue(d) \/ Join(d)
      BY <1>4, <3>5 DEF CloseQueue, WakeQueue, Join
    <3> QED
      BY <1>6, <3>1, <3>2, <3>3, <3>4, <3>5 DEF ClientStep
  <2>2. /\ ~Gate(c) /\ ~CountPending(c) /\ ~Push(c) /\ ~NotifyOwner(c) /\ ~Submitted(c)
        /\ ~Refused(c) /\ ~RefusedNotify(c) /\ ~CompleteRejected(c)
    BY DEF Gate, CountPending, Push, NotifyOwner, Submitted, Refused, RefusedNotify, CompleteRejected
  <2>3. ~Block(c) /\ ~Shutdown(c) /\ ~CloseQueue(c) /\ ~WakeQueue(c) /\ ~Join(c) /\ ~WakeIdle(c)
    BY DEF Block, Shutdown, CloseQueue, WakeQueue, Join, WakeIdle
  <2> QED
    BY <1>6, <2>1, <2>2, <2>3 DEF ClientStep
<1>7. WaitUntilIdle(c)
  <2>1. Next
    BY <1>1 DEF vars
  <2> QED
    BY <1>2, <1>5, <1>6, <2>1 DEF Next
<1>8. ~Goto(c, "block")
  <2>1. "block" \in ClientState /\ "block" # "rest"
    BY SMT DEF ClientState
  <2> QED
    BY <1>0, <2>1, GotoEffect DEF Moved
<1> QED
  BY <1>7, <1>8 DEF WaitUntilIdle, Idle

\* What is completed as executed has entered a shard.
Answered ==
  \A i \in 1..MaxCommands : promise[i] = "executed" =>
    \E s \in Shard : \E j \in DOMAIN arrivals[s] : arrivals[s][j].id = i

\* A promise becomes executed only for the command an owner has in hand.
LEMMA AnsweredSet ==
  ASSUME TypeOK, Answered, arrivals' = arrivals, NEW x, NEW v,
         promise' = [promise EXCEPT ![x] = v], v = "executed" =>
           \E s \in Shard : \E j \in DOMAIN arrivals[s] : arrivals[s][j].id = x
  PROVE  Answered'
<1>1. DOMAIN promise = 1..MaxCommands
  BY TypeData DEF DataOK
<1>2. \A i \in 1..MaxCommands : promise'[i] = IF i = x THEN v ELSE promise[i]
  BY <1>1
<1>3. ASSUME NEW i \in 1..MaxCommands, promise'[i] = "executed"
      PROVE  \E s \in Shard : \E j \in DOMAIN arrivals[s] : arrivals[s][j].id = i
  <2>1. CASE i = x
    BY <1>2, <1>3, <2>1
  <2>2. CASE i # x
    BY <1>2, <1>3, <2>2 DEF Answered
  <2> QED
    BY <2>1, <2>2
<1> QED
  BY <1>3 DEF Answered

LEMMA AnsweredSame ==
  ASSUME Answered, promise' = promise, arrivals' = arrivals PROVE Answered'
BY DEF Answered

LEMMA AnsweredPush ==
  ASSUME EngineInv, Answered, NEW c \in Client, Push(c) PROVE Answered'
<1>1. PICK s \in Shard, k \in Command : s = ShardFor(c) /\ k = client[c].command
  <2>1. client[c].at \in Unsent
    BY DEF Push, Unsent
  <2>2. client[c].command \in Command
    BY <2>1 DEF EngineInv, Unique, Own
  <2>3. client[c].command.symbol \in Symbol
    BY <2>2, SMT DEF Command
  <2> QED
    BY <2>2, <2>3, PartitionAssumption DEF ShardFor, CommandOf
<1>2. CASE arrivals' = arrivals
  BY <1>2, AnsweredSame DEF Push
<1>3. CASE /\ Accepts(queue[s]) /\ queue' = [queue EXCEPT ![s] = Inserted(queue[s], k)]
           /\ arrivals' = [arrivals EXCEPT ![s] = Append(@, k)]
  <2>1. OldStay
    <3>1. TypeOK /\ Order /\ owner' = owner
      BY DEF EngineInv, Push
    <3>2. Arrived(s, k)
      BY <1>3, <3>1, ArriveEffect
    <3> QED
      BY <3>1, <3>2, ArrivedNumbers
  <2>2. promise' = promise
    BY DEF Push
  <2>3. ASSUME NEW i \in 1..MaxCommands, promise[i] = "executed"
        PROVE  \E r \in Shard : \E j \in DOMAIN arrivals'[r] : arrivals'[r][j].id = i
    <3>1. PICK r \in Shard : \E j \in DOMAIN arrivals[r] : arrivals[r][j].id = i
      BY <2>3 DEF Answered
    <3> QED
      BY <2>1, <3>1 DEF OldStay
  <2> QED
    BY <2>2, <2>3 DEF Answered
<1> QED
  BY <1>1, <1>2, <1>3 DEF Push, CommandOf

LEMMA AnsweredNext ==
  ASSUME EngineInv, Answered, [Next]_vars PROVE Answered'
<1>1. ASSUME NEW s \in Shard, StartOwner(s) \/ OwnerStep(s) PROVE Answered'
  <2>1. CASE Complete(s)
    <3>1. CASE promise[owner[s].command.id] = "detached"
      BY <2>1, <3>1, AnsweredSame DEF Complete, history
    <3>2. CASE promise[owner[s].command.id] # "detached"
      <4>1. /\ arrivals' = arrivals /\ owner[s].at = "complete"
            /\ \E v : promise' = [promise EXCEPT ![owner[s].command.id] = v]
        BY <2>1, <3>2 DEF Complete, Fulfil, history
      <4>2. Busy(s)
        BY <4>1, SMT DEF Busy
      <4>3. \E r \in Shard : \E j \in DOMAIN arrivals[r] : arrivals[r][j].id = owner[s].command.id
        BY <4>2, InHand
      <4> QED
        BY <4>1, <4>3, TypeOf, AnsweredSet
    <3> QED
      BY <3>1, <3>2
  <2>2. CASE StartOwner(s) \/ OwnerPop(s) \/ NotifyClient(s) \/ Apply(s)
    BY <2>2, AnsweredSame DEF StartOwner, OwnerPop, NotifyClient, Apply, history
  <2>3. CASE Record(s) \/ Count(s) \/ Finish(s) \/ FinishNotify(s)
    BY <2>3, AnsweredSame DEF Record, Count, Finish, FinishNotify, history
  <2> QED
    BY <1>1, <2>1, <2>2, <2>3 DEF OwnerStep
<1>2. CASE ConstructorFails \/ Rethrow \/ SpuriousWakeups
  BY <1>2, AnsweredSame DEF ConstructorFails, Rethrow, SpuriousWakeups, history
<1>3. ASSUME NEW c \in Client, ClientStep(c) PROVE Answered'
  <2>1. CASE CompleteRejected(c)
    <3>1. "shutting_down" # "executed" /\ "set_twice" # "executed"
      BY SMT
    <3>2. arrivals' = arrivals /\ \E v \in {"shutting_down", "set_twice"} :
                                    promise' = [promise EXCEPT ![client[c].command.id] = v]
      BY <2>1 DEF CompleteRejected, Fulfil, CommandOf, history
    <3> QED
      BY <3>1, <3>2, TypeOf, AnsweredSet
  <2>2. CASE Gate(c) \/ CountPending(c) \/ NotifyOwner(c) \/ Submitted(c)
    BY <2>2, AnsweredSame DEF Gate, CountPending, NotifyOwner, Submitted, history
  <2>3. CASE Refused(c) \/ RefusedNotify(c) \/ WaitUntilIdle(c) \/ Block(c)
    BY <2>3, AnsweredSame DEF Refused, RefusedNotify, WaitUntilIdle, Block, history
  <2>4. CASE Shutdown(c) \/ CloseQueue(c) \/ WakeQueue(c) \/ Join(c) \/ WakeIdle(c)
    BY <2>4, AnsweredSame DEF Shutdown, CloseQueue, WakeQueue, Join, WakeIdle, history
  <2> QED
    BY <1>3, <2>1, <2>2, <2>3, <2>4, AnsweredPush DEF ClientStep
<1>4. ASSUME NEW c \in Client, AnyCall(c) PROVE Answered'
  <2>1. ASSUME NEW call, BeginControl(c, call) PROVE Answered'
    BY <2>1, AnsweredSame DEF BeginControl, history
  <2>2. ASSUME NEW call, NEW symbol \in Symbol, Begin(c, call, symbol) PROVE Answered'
    <3>1. "unset" # "executed" /\ "detached" # "executed"
      BY SMT
    <3>2. arrivals' = arrivals /\ \E v \in {"unset", "detached"} : promise' = [promise EXCEPT ![Issued + 1] = v]
      BY <2>2 DEF Begin, history
    <3> QED
      BY <3>1, <3>2, TypeOf, AnsweredSet
  <2> QED
    BY <1>4, <2>1, <2>2 DEF AnyCall
<1>5. CASE UNCHANGED vars
  BY <1>5, AnsweredSame DEF vars
<1> QED
  BY <1>1, <1>2, <1>3, <1>4, <1>5 DEF Next, EngineNext

\* The least of three numbers, and the last n entries of a sequence.
LEMMA LeastOfThree ==
  ASSUME NEW a \in Nat, NEW b \in Nat, NEW c \in Nat, NEW n \in Nat,
         n \in {a, b, c}, n <= a, n <= b, n <= c
  PROVE  Min({a, b, c}) = n
<1>1. \A x \in {a, b, c} : n <= x
  OBVIOUS
<1>2. PICK m \in {a, b, c} : m = Min({a, b, c}) /\ \A x \in {a, b, c} : m <= x
  BY <1>1 DEF Min
<1>3. m = n
  BY <1>1, <1>2, SMT
<1> QED
  BY <1>2, <1>3

LEMMA PartOf ==
  ASSUME NEW q \in Seq(Nat), NEW m \in 1..(Len(q) + 1), NEW n \in 0..Len(q)
  PROVE  \A i \in 1..(n - m + 1) : SubSeq(q, m, n)[i] = q[m + i - 1]
BY SMT

LEMMA LastOf ==
  ASSUME NEW log \in Seq(Nat), NEW len \in Nat, len = Len(log), NEW n \in 0..len
  PROVE  SubSeq(log, len - n + 1, len) = [i \in 1..n |-> log[len - n + i]]
<1>1. PICK part : part = SubSeq(log, len - n + 1, len)
  OBVIOUS
<1>2. part \in Seq(Nat) /\ Len(part) = n
  BY <1>1, SMT
<1>3. \A i \in 1..n : part[i] = log[len - n + i]
  <2>0. len - n + 1 \in 1..(len + 1)
    BY SMT
  <2>1. PICK m \in 1..(len + 1) : m = len - n + 1
    BY <2>0
  <2>2. \A i \in 1..(len - m + 1) : SubSeq(log, m, len)[i] = log[m + i - 1]
    BY PartOf, SMT
  <2>3. \A i \in 1..n : i \in 1..(len - m + 1) /\ m + i - 1 = len - n + i
    BY <2>1, SMT
  <2> QED
    BY <1>1, <2>1, <2>2, <2>3
<1>4. DOMAIN part = 1..n /\ part = [i \in DOMAIN part |-> part[i]]
  BY <1>2, SMT
<1> QED
  BY <1>1, <1>3, <1>4

LEMMA RecentIs ==
  ASSUME NEW log \in Seq(Nat), NEW newest \in Nat, Latest(log, newest), NEW count \in Nat
  PROVE  LET size == Min({newest, LogDepth, count})
         IN  recent(log, count) = [i \in 1..size |-> newest - size + i]
<1>1. PICK len \in Nat : len = Len(log)
  <2>1. Len(log) \in Nat
    BY SMT
  <2> QED
    BY <2>1
<1>2. PICK n \in Nat : n = IF count < len THEN count ELSE len
  OBVIOUS
<1>3. /\ len = IF newest < LogDepth THEN newest ELSE LogDepth
      /\ \A i \in 1..len : log[i] = newest - len + i
  BY <1>1 DEF Latest
<1>4. Min({newest, LogDepth, count}) = n
  <2>1. n \in {newest, LogDepth, count} /\ n <= newest /\ n <= LogDepth /\ n <= count
    BY <1>2, <1>3, LogAssumption, SMT
  <2> QED
    BY <2>1, LogAssumption, LeastOfThree
<1>5. n \in 0..len
  BY <1>2, SMT
<1>6. recent(log, count) = [i \in 1..n |-> log[len - n + i]]
  <2>1. recent(log, count) = SubSeq(log, len - n + 1, len)
    BY <1>1, <1>2, SMT DEF recent
  <2>2. SubSeq(log, len - n + 1, len) = [i \in 1..n |-> log[len - n + i]]
    BY <1>1, <1>5, LastOf
  <2> QED
    BY <2>1, <2>2
<1>7. \A i \in 1..n : log[len - n + i] = newest - n + i
  <2>1. \A i \in 1..n : len - n + i \in 1..len /\ newest - len + (len - n + i) = newest - n + i
    BY <1>5, SMT
  <2> QED
    BY <1>3, <2>1
<1>8. recent(log, count) = [i \in 1..n |-> newest - n + i]
  BY <1>6, <1>7
<1> QED
  BY <1>4, <1>8
=============================================================================
