------------------------- MODULE PartitionedEngine -------------------------
(***************************************************************************)
(* PartitionedMatchingEngine (include/partitioned_engine.hpp): client      *)
(* threads put commands into one bounded queue per shard, and one owner    *)
(* thread per shard takes them out and applies them to the engines of its  *)
(* symbols.                                                                *)
(*                                                                         *)
(* A client executes one call at a time; a step is one critical section,   *)
(* one atomic read-modify-write or one notification.  An engine is what it *)
(* has applied: which commands, in which order, and how many trades came   *)
(* out of them.  Whether a command is accepted and how much it trades is   *)
(* the business of MatchingEngine.tla and any answer is possible here.     *)
(*                                                                         *)
(* The counters that only statistics read (processed, accepted, rejected,  *)
(* trades) are increased in one step.                                      *)
(***************************************************************************)
EXTENDS MPMCQueue, TradeLog, Integers, FiniteSetsExt

CONSTANTS Client, Symbol,
          ShardCount,      \* shards are numbered 1..ShardCount
          ShardOf,         \* shardIndex: the shard a symbol hashes to
          Calls,           \* the calls a client may choose to make
          MaxCommands,     \* bound: commands clients may start
          MaxTrades        \* bound: trades of one command

Shard == 1..ShardCount
Pushing == {"enqueue", "tryEnqueue", "submit"}
Operation == Pushing \cup {"waitUntilIdle", "shutdown"}

ASSUME PartitionAssumption ==
  /\ ShardCount \in Nat \ {0} /\ ShardOf \in [Symbol -> Shard]
  /\ Calls \in [Client -> SUBSET Operation]
  /\ MaxCommands \in Nat /\ MaxTrades \in Nat

VARIABLES phase,      \* of the constructor: threads started so far, or failed
          accepting, pending, stats,
          queue,      \* one MPMCQueue per shard
          owner,      \* one owner thread per shard
          client,     \* the call each client is in
          idle,       \* clients blocked on idle_cv_
          engines, trade_log,
          promise,    \* per command: none before the call, detached if nobody
                      \* waits for the result, or the state of the promise
          arrivals,   \* history: commands in the order they entered a shard
          returned    \* history: commands whose call has returned true

vars == <<phase, accepting, pending, stats, queue, owner, client, idle,
          engines, trade_log, promise, arrivals, returned>>

\* Groups of variables that most steps leave alone.
config == <<phase, accepting>>
results == <<stats, engines, trade_log>>
history == <<arrivals, returned>>

\* enqueue stands for enqueueCancel too, submit for cancel: they differ in the
\* type of the command only.
Command == [id : 1..MaxCommands, symbol : Symbol]
NoCommand == [id |-> 0, symbol |-> CHOOSE s \in Symbol : TRUE]

Calling(at, call, command, debt) ==
  [at |-> at, call |-> call, command |-> command, debt |-> debt]
Resting == Calling("rest", "none", NoCommand, {})

\* An owner with a command in hand, the answer of the engine and how many of its
\* trades are in the log.
Owning(at, command, accepted, trades, recorded) ==
  [at |-> at, command |-> command, accepted |-> accepted, trades |-> trades,
   recorded |-> recorded]

\* What stats() reports.
Stats(submitted, processed, accepted, rejected, trades) ==
  [submitted |-> submitted, processed |-> processed, accepted |-> accepted,
   rejected |-> rejected, trades |-> trades]

OwnerState == {"off", "pop", "popped", "apply", "record", "count", "complete",
               "finish", "notify", "exited"}
ClientState == {"rest", "gate", "count", "push", "pushed", "submitted", "refused",
                "refused_notify", "reject", "wait", "block", "stop", "close",
                "wake", "join", "wake_idle"}

TypeOK ==
  /\ phase \in {"constructing", "unwinding", "failed", "running"}
  /\ accepting \in BOOLEAN /\ pending \in Nat
  /\ stats \in [submitted : Nat, processed : Nat, accepted : Nat, rejected : Nat, trades : Nat]
  /\ queue \in [Shard -> QueueOf(Command, Client \cup {"owner"})]
  /\ owner \in [Shard -> [at : OwnerState, command : Command \cup {NoCommand},
                          accepted : BOOLEAN, trades : Seq(Nat), recorded : Nat]]
  /\ client \in [Client -> [at : ClientState, call : Operation \cup {"none"},
                            command : Command \cup {NoCommand}, debt : SUBSET Command]]
  /\ idle \subseteq Client
  /\ engines \in [Symbol -> [applied : Seq(Command), trade_count : Nat]]
  /\ trade_log \in [Symbol -> Seq(Nat)]
  /\ promise \in [1..MaxCommands -> {"none", "detached", "unset", "executed",
                                   "shutting_down", "set_twice"}]
  /\ arrivals \in [Shard -> Seq(Command)] /\ returned \subseteq Command

Init ==
  /\ phase = "constructing"
  /\ accepting = TRUE /\ pending = 0
  /\ stats = Stats(0, 0, 0, 0, 0)
  /\ queue = [s \in Shard |-> NewQueue]
  /\ owner = [s \in Shard |-> Owning("off", NoCommand, FALSE, << >>, 0)]
  /\ client = [c \in Client |-> Resting]
  /\ idle = {}
  /\ engines = [s \in Symbol |-> [applied |-> << >>, trade_count |-> 0]]
  /\ trade_log = [s \in Symbol |-> << >>]
  /\ promise = [i \in 1..MaxCommands |-> "none"]
  /\ arrivals = [s \in Shard |-> << >>] /\ returned = {}
-----------------------------------------------------------------------------
Goto(c, where) ==
  client' = [client EXCEPT ![c] = Calling(where, @.call, @.command, @.debt)]
OwnerGoto(s, where) ==
  owner' = [owner EXCEPT ![s] = Owning(where, @.command, @.accepted, @.trades, @.recorded)]

\* The constructor starts the owners in order.  If a thread cannot be created
\* it closes all queues (in one step here: no client exists yet), joins the
\* owners that run, and rethrows.
StartOwner(s) ==
  /\ phase = "constructing" /\ owner[s].at = "off"
  /\ \A r \in 1..(s - 1) : owner[r].at # "off"
  /\ OwnerGoto(s, "pop")
  /\ phase' = IF s = ShardCount THEN "running" ELSE phase
  /\ UNCHANGED <<accepting, pending, queue, client, idle, promise, results, history>>

ConstructorFails ==
  /\ phase = "constructing"
  /\ phase' = "unwinding" /\ accepting' = FALSE
  /\ queue' = [s \in Shard |-> NotifyAll(Closed(queue[s]))]
  /\ UNCHANGED <<pending, owner, client, idle, promise, results, history>>

\* Seeded fault: the owner threads are not waited for.
NotJoined == TRUE

\* join() on the owners that were started has returned.
Joined == \A s \in Shard : owner[s].at \in {"off", "exited"}

Rethrow ==
  /\ phase \in {"unwinding", "failed"}
  /\ Joined
  /\ phase' = "failed"
  /\ UNCHANGED <<accepting, pending, queue, owner, client, idle, promise, results, history>>
-----------------------------------------------------------------------------
\* Clients.
Return(c) == client' = [client EXCEPT ![c] = Resting]
CommandOf(c) == client[c].command
ShardFor(c) == ShardOf[CommandOf(c).symbol]

\* The last id that was handed out.
Issued ==
  CHOOSE n \in 0..MaxCommands : \A i \in 1..MaxCommands : promise[i] # "none" <=> i <= n

\* A promise is set; set_value on one that is set would throw.
Fulfil(id, value) ==
  promise' = [promise EXCEPT ![id] = IF @ = "unset" THEN value ELSE "set_twice"]

Begin(c, call, symbol) ==
  /\ phase = "running" /\ client[c] = Resting /\ Issued < MaxCommands
  /\ call \in Pushing
  /\ client' = [client EXCEPT ![c] =
                  Calling("gate", call, [id |-> Issued + 1, symbol |-> symbol], {})]
  /\ promise' = [promise EXCEPT ![Issued + 1] =
                   IF call = "submit" THEN "unset" ELSE "detached"]
  /\ UNCHANGED <<config, pending, queue, owner, idle, results, history>>

BeginControl(c, call) ==
  /\ phase = "running" /\ client[c] = Resting
  /\ call \in Operation \ Pushing
  /\ client' = [client EXCEPT ![c] =
                  IF call = "shutdown" THEN Calling("stop", call, NoCommand, {})
                                       ELSE Calling("wait", call, NoCommand, returned)]
  /\ UNCHANGED <<config, pending, queue, owner, idle, promise, results, history>>

\* enqueueCommand has returned false: submit completes the promise itself.
ReturnFalse(c) == IF client[c].call = "submit" THEN Goto(c, "reject") ELSE Return(c)

Gate(c) ==
  /\ client[c].at = "gate"
  /\ IF accepting THEN Goto(c, "count") ELSE ReturnFalse(c)
  /\ UNCHANGED <<config, pending, queue, owner, idle, promise, results, history>>

CountPending(c) ==
  /\ client[c].at = "count"
  /\ pending' = pending + 1
  /\ Goto(c, "push")
  /\ UNCHANGED <<config, queue, owner, idle, promise, results, history>>

\* push() or try_push() on the queue of the shard.
Push(c) ==
  LET s == ShardFor(c)
      q == queue[s]
  IN  /\ client[c].at = "push" /\ c \notin q.not_full
      /\ \/ /\ Accepts(q)
            /\ queue' = [queue EXCEPT ![s] = Inserted(q, CommandOf(c))]
            /\ arrivals' = [arrivals EXCEPT ![s] = Append(@, CommandOf(c))]
            /\ Goto(c, "pushed")
         \/ /\ ~Accepts(q) /\ (client[c].call = "tryEnqueue" \/ PushReady(q))
            /\ Goto(c, "refused") /\ UNCHANGED <<queue, arrivals>>
         \/ /\ client[c].call # "tryEnqueue" /\ ~PushReady(q)
            /\ queue' = [queue EXCEPT ![s] = Asleep(q, "not_full", c)]
            /\ UNCHANGED <<client, arrivals>>
      /\ UNCHANGED <<config, pending, owner, idle, promise, returned, results>>

NotifyOwner(c) ==
  LET s == ShardFor(c)
  IN  /\ client[c].at = "pushed"
      /\ \E q \in NotifyOne(queue[s], "not_empty") : queue' = [queue EXCEPT ![s] = q]
      /\ Goto(c, "submitted")
      /\ UNCHANGED <<config, pending, owner, idle, promise, results, history>>

Submitted(c) ==
  /\ client[c].at = "submitted"
  /\ stats' = [stats EXCEPT !.submitted = @ + 1]
  /\ returned' = returned \cup {CommandOf(c)}
  /\ Return(c)
  /\ UNCHANGED <<config, pending, queue, owner, idle, engines, trade_log, promise, arrivals>>

\* Seeded fault: a command that is finished stays counted.
FinishNone == UNCHANGED pending

\* The fetch_sub of finishOnePending; whoever took pending_ to 0 then notifies.
FinishOne == pending' = pending - 1

\* finishOnePending after a push that failed, in two steps.
Refused(c) ==
  /\ client[c].at = "refused"
  /\ FinishOne
  /\ IF pending = 1 THEN Goto(c, "refused_notify") ELSE ReturnFalse(c)
  /\ UNCHANGED <<config, queue, owner, idle, promise, results, history>>

RefusedNotify(c) ==
  /\ client[c].at = "refused_notify"
  /\ idle' = {}
  /\ ReturnFalse(c)
  /\ UNCHANGED <<config, pending, queue, owner, promise, results, history>>

CompleteRejected(c) ==
  /\ client[c].at = "reject"
  /\ Fulfil(CommandOf(c).id, "shutting_down")
  /\ Return(c)
  /\ UNCHANGED <<config, pending, queue, owner, idle, results, history>>
-----------------------------------------------------------------------------
\* Seeded fault: idle is taken to mean that the queues are empty.
QueuesEmpty == \A s \in Shard : queue[s].buffer = << >>

\* The predicate waitUntilIdle waits for.
Idle == pending = 0

\* waitUntilIdle: the predicate is evaluated under idle_mutex_, and wait()
\* releases the mutex and blocks in one step; but those who change pending_
\* and notify do not hold the mutex, so they may come in between.
WaitUntilIdle(c) ==
  /\ client[c].at = "wait" /\ c \notin idle
  /\ \A d \in Client : client[d].at # "block"
  /\ IF Idle THEN Return(c) ELSE Goto(c, "block")
  /\ UNCHANGED <<config, pending, queue, owner, idle, promise, results, history>>

Block(c) ==
  /\ client[c].at = "block"
  /\ idle' = idle \cup {c}
  /\ Goto(c, "wait")
  /\ UNCHANGED <<config, pending, queue, owner, promise, results, history>>

\* shutdown: only the caller that clears accepting_ goes on.
Shutdown(c) ==
  /\ client[c].at = "stop"
  /\ accepting' = FALSE
  /\ IF accepting THEN Goto(c, "close") ELSE Return(c)
  /\ UNCHANGED <<phase, pending, queue, owner, idle, promise, results, history>>

CloseQueue(c) ==
  LET s == Min({r \in Shard : ~queue[r].closed})
  IN  /\ client[c].at = "close"
      /\ queue' = [queue EXCEPT ![s] = Closed(@)]
      /\ Goto(c, "wake")
      /\ UNCHANGED <<config, pending, owner, idle, promise, results, history>>

WakeQueue(c) ==
  LET s == Max({r \in Shard : queue[r].closed})
  IN  /\ client[c].at = "wake"
      /\ queue' = [queue EXCEPT ![s] = NotifyAll(@)]
      /\ Goto(c, IF s = ShardCount THEN "join" ELSE "close")
      /\ UNCHANGED <<config, pending, owner, idle, promise, results, history>>

Join(c) ==
  /\ client[c].at = "join"
  /\ Joined
  /\ Goto(c, "wake_idle")
  /\ UNCHANGED <<config, pending, queue, owner, idle, promise, results, history>>

WakeIdle(c) ==
  /\ client[c].at = "wake_idle"
  /\ idle' = {}
  /\ Return(c)
  /\ UNCHANGED <<config, pending, queue, owner, promise, results, history>>
-----------------------------------------------------------------------------
\* Owner threads: workerLoop.
OwnerPop(s) ==
  LET q == queue[s]
  IN  /\ owner[s].at = "pop" /\ "owner" \notin q.not_empty
      /\ \/ /\ q.buffer # << >>
            /\ queue' = [queue EXCEPT ![s] = Removed(q)]
            /\ owner' = [owner EXCEPT ![s] =
                           Owning("popped", Head(q.buffer), FALSE, << >>, 0)]
         \/ /\ q.buffer = << >> /\ PopReady(q)
            /\ OwnerGoto(s, "exited") /\ UNCHANGED queue
         \/ /\ ~PopReady(q)
            /\ queue' = [queue EXCEPT ![s] = Asleep(q, "not_empty", "owner")]
            /\ UNCHANGED owner
      /\ UNCHANGED <<config, pending, client, idle, promise, results, history>>

NotifyClient(s) ==
  /\ owner[s].at = "popped"
  /\ \E q \in NotifyOne(queue[s], "not_full") : queue' = [queue EXCEPT ![s] = q]
  /\ OwnerGoto(s, "apply")
  /\ UNCHANGED <<config, pending, client, idle, promise, results, history>>

\* Under state_mutex: the engine of the symbol is created if need be, and it
\* executes the command.  Its trades carry consecutive ids.
Apply(s) ==
  LET symbol == owner[s].command.symbol
      count  == engines[symbol].trade_count
  IN  /\ owner[s].at = "apply"
      /\ \E accepted \in BOOLEAN, n \in 0..MaxTrades :
           /\ n > 0 => accepted
           /\ engines' = [engines EXCEPT ![symbol] =
                            [applied |-> Append(@.applied, owner[s].command),
                             trade_count |-> count + n]]
           /\ owner' = [owner EXCEPT ![s] =
                Owning("record", @.command, accepted, [i \in 1..n |-> count + i], 0)]
      /\ UNCHANGED <<config, pending, stats, queue, client, idle, trade_log, promise, history>>

\* The trades go into the log one at a time.
Record(s) ==
  LET symbol == owner[s].command.symbol
      next   == owner[s].recorded + 1
  IN  /\ owner[s].at = "record"
      /\ IF next <= Len(owner[s].trades)
         THEN /\ trade_log' = [trade_log EXCEPT ![symbol] =
                                 record(@, owner[s].trades[next])]
              /\ owner' = [owner EXCEPT ![s] =
                   Owning("record", @.command, @.accepted, @.trades, next)]
         ELSE OwnerGoto(s, "count") /\ UNCHANGED trade_log
      /\ UNCHANGED <<config, pending, stats, queue, client, idle, engines, promise, history>>

Count(s) ==
  /\ owner[s].at = "count"
  /\ stats' = Stats(stats.submitted, stats.processed + 1,
                    stats.accepted + (IF owner[s].accepted THEN 1 ELSE 0),
                    stats.rejected + (IF owner[s].accepted THEN 0 ELSE 1),
                    stats.trades + Len(owner[s].trades))
  /\ OwnerGoto(s, "complete")
  /\ UNCHANGED <<config, pending, queue, client, idle, engines, trade_log, promise, history>>

Complete(s) ==
  LET id == owner[s].command.id
  IN  /\ owner[s].at = "complete"
      /\ IF promise[id] = "detached" THEN UNCHANGED promise
                                     ELSE Fulfil(id, "executed")
      /\ OwnerGoto(s, "finish")
      /\ UNCHANGED <<config, pending, queue, client, idle, results, history>>

\* finishOnePending, in two steps.
Finish(s) ==
  /\ owner[s].at = "finish"
  /\ FinishOne
  /\ OwnerGoto(s, IF pending = 1 THEN "notify" ELSE "pop")
  /\ UNCHANGED <<config, queue, client, idle, promise, results, history>>

FinishNotify(s) ==
  /\ owner[s].at = "notify"
  /\ idle' = {}
  /\ OwnerGoto(s, "pop")
  /\ UNCHANGED <<config, pending, queue, client, promise, results, history>>
-----------------------------------------------------------------------------
\* A condition variable may wake a thread for no reason.
SpuriousWakeups ==
  /\ \/ /\ \E s \in Shard : \E q \in SpuriousWakeup(queue[s]) :
             queue' = [queue EXCEPT ![s] = q]
        /\ UNCHANGED idle
     \/ /\ \E c \in idle : idle' = idle \ {c}
        /\ UNCHANGED queue
  /\ UNCHANGED <<config, pending, owner, client, promise, results, history>>

ClientStep(c) ==
  \/ Gate(c) \/ CountPending(c) \/ Push(c) \/ NotifyOwner(c) \/ Submitted(c)
  \/ Refused(c) \/ RefusedNotify(c) \/ CompleteRejected(c)
  \/ WaitUntilIdle(c) \/ Block(c)
  \/ Shutdown(c) \/ CloseQueue(c) \/ WakeQueue(c) \/ Join(c) \/ WakeIdle(c)

OwnerStep(s) ==
  \/ OwnerPop(s) \/ NotifyClient(s) \/ Apply(s) \/ Record(s) \/ Count(s)
  \/ Complete(s) \/ Finish(s) \/ FinishNotify(s)

\* A client makes a call of its choice.
AnyCall(c) ==
  \E call \in Calls[c] : \/ BeginControl(c, call)
                         \/ \E symbol \in Symbol : Begin(c, call, symbol)

\* Everything but the decision to make a call.
EngineNext ==
  \/ \E s \in Shard : StartOwner(s) \/ OwnerStep(s)
  \/ ConstructorFails \/ Rethrow
  \/ \E c \in Client : ClientStep(c)
  \/ SpuriousWakeups

Next == EngineNext \/ \E c \in Client : AnyCall(c)

Spec == Init /\ [][Next]_vars

\* Every thread runs on inside a call or its loop unless it is blocked, and so
\* does the constructor once it has given up.
Fairness ==
  /\ WF_vars(Rethrow)
  /\ \A c \in Client : WF_vars(ClientStep(c))
  /\ \A s \in Shard : WF_vars(OwnerStep(s))
FairSpec == Spec /\ Fairness
-----------------------------------------------------------------------------
\* The owner has a command that it has not applied yet, or not finished.
Holds(s) == owner[s].at \in {"popped", "apply"}
Busy(s) == owner[s].at \notin {"off", "pop", "notify", "exited"}

\* How many commands of shard s have been applied.
AppliedBy(s) ==
  Len(arrivals[s]) - Len(queue[s].buffer) - (IF Holds(s) THEN 1 ELSE 0)

\* seq has exactly the commands of symbol among the first n of all, in order:
\* entry p of seq is entry place[p] of all.
Projects(seq, all, n, symbol) ==
  \E place \in [DOMAIN seq -> 1..n] :
    /\ \A p \in DOMAIN seq : all[place[p]] = seq[p]
    /\ \A p, q \in DOMAIN seq : p < q => place[p] < place[q]
    /\ \A i \in 1..n : all[i].symbol = symbol <=> \E p \in DOMAIN seq : place[p] = i

\* The insertion into the queue fixes the order of a shard ("the shard owner
\* processes commands in exact FIFO order"): what entered is, in that order,
\* what was applied, what the owner holds and what still waits; each engine
\* applied exactly the commands of its symbol in that order; and nothing enters
\* twice, be it one shard or two.
ShardFifo ==
  /\ \A s \in Shard :
       /\ AppliedBy(s) \in Nat
       /\ arrivals[s] = SubSeq(arrivals[s], 1, AppliedBy(s))
                        \o (IF Holds(s) THEN <<owner[s].command>> ELSE << >>)
                        \o queue[s].buffer
  /\ \A symbol \in Symbol :
       LET s == ShardOf[symbol]
       IN  Projects(engines[symbol].applied, arrivals[s], AppliedBy(s), symbol)
  /\ \A s, r \in Shard : \A i \in DOMAIN arrivals[s], j \in DOMAIN arrivals[r] :
       arrivals[s][i].id = arrivals[r][j].id => s = r /\ i = j

\* The commands on their way: in the hands of a client between fetch_add and the
\* end of a failed push, in a queue, or with an owner.
WithClient(k) ==
  \E c \in Client : client[c].at \in {"push", "refused"} /\ client[c].command = k
InQueue(k) == \E s \in Shard : \E i \in DOMAIN queue[s].buffer : queue[s].buffer[i] = k
WithOwner(k) == \E s \in Shard : Busy(s) /\ owner[s].command = k
OnTheWay == {k \in Command : WithClient(k) \/ InQueue(k) \/ WithOwner(k)}

\* pending_ is the number of commands on their way: 1..pending_ numbers them.
PendingExact == TypeOK /\ ExistsBijection(OnTheWay, 1..pending)

\* Whoever reads the log of a symbol gets the latest trades of its engine,
\* "oldest first, at most count" (trade_log.hpp:57) and without a gap, up to the
\* ones its owner is about to record.
TradeLogExact ==
  \A symbol \in Symbol, count \in 0..(LogDepth + 1) :
    LET s       == ShardOf[symbol]
        behind  == IF owner[s].command.symbol = symbol /\ owner[s].at = "record"
                   THEN Len(owner[s].trades) - owner[s].recorded ELSE 0
        newest  == engines[symbol].trade_count - behind
        size    == Min({newest, LogDepth, count})
    IN  recent(trade_log[symbol], count) = [i \in 1..size |-> newest - size + i]

\* A future tells the truth: a command completed as "shutting down" never gets
\* into a queue, one completed by an owner has been applied, and no promise is
\* set twice (set_value would throw in the owner thread).
FuturesHonest ==
  \A i \in 1..MaxCommands :
    LET applied(k) == k.id = i /\ k \in Range(engines[k.symbol].applied)
        entered    == \E s \in Shard : \E k \in Range(arrivals[s]) : k.id = i
    IN  /\ promise[i] # "set_twice"
        /\ promise[i] = "shutting_down" => ~entered
        /\ promise[i] = "executed" => \E s \in Shard : \E k \in Range(arrivals[s]) : applied(k)

\* A command is done when it was applied and nobody waits for its result.
Done(k) ==
  k \in Range(engines[k.symbol].applied) /\ promise[k.id] \in {"detached", "executed"}

\* When waitUntilIdle returns, every command whose call had returned true
\* before it was called is done, whatever others submitted in the meantime.
IdleMeansDone ==
  [][\A c \in Client : client[c].at = "wait" /\ client'[c].at = "rest" =>
       \A k \in client[c].debt : Done(k)]_vars

\* When the shutdown that cleared accepting_ is about to return, the owners are
\* gone, the queues empty, and everything that ever entered a queue is done.
ShutdownDrains ==
  \A c \in Client : client[c].at = "wake_idle" =>
    \A s \in Shard : /\ owner[s].at = "exited" /\ queue[s].buffer = << >>
                     /\ \A k \in Range(arrivals[s]) : Done(k)

\* Every future that submit or cancel hands out is completed eventually, also
\* when the queue is full and when shutdown overtakes the call.
FuturesComplete ==
  \A i \in 1..MaxCommands : promise[i] = "unset" ~> promise[i] # "unset"


\* waitUntilIdle returns once the engine has become idle for good
\* (docs/partitioned_engine.md: "waits until all accepted queue entries have
\* completed").
WaitReturnsWhenIdle ==
  \A c \in Client : client[c].call = "waitUntilIdle" ~> client[c].call # "waitUntilIdle"
=============================================================================
