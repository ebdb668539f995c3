--------------------------- MODULE EngineProcess ---------------------------
(***************************************************************************)
(* The life of the region file (src/shared_memory.cpp) around the journal: *)
(* matching_engine_main removes the file of an earlier run, creates and    *)
(* sizes a new one, constructs the region in it and marks it READY;        *)
(* feed_handler opens whatever the path leads to, waits for READY and      *)
(* pushes its orders.  Every process may die at any point and be started   *)
(* again, and cleanup_shared_memory may run at any time.                   *)
(*                                                                         *)
(* Every file is a region of its own: a process that has mapped one keeps  *)
(* it after the path has been unlinked or leads to another.  At most one   *)
(* engine and one feed run at a time, and unlink() succeeds.  market_viewer *)
(* attaches with the same code as the feed.                                *)
(***************************************************************************)
EXTENDS JournaledEngine, FiniteSets

CONSTANTS Orders,        \* orders a feed sends, with the ids 1, 2, 3...
          MaxRegions,    \* bound: files created in all
          MaxAttempts    \* 200 in the code

ASSUME ProcessAssumption ==
  Orders \in Nat /\ MaxRegions \in Nat /\ MaxAttempts \in Nat

VARIABLES path,         \* the region the path leads to, 0 for none
          regions,      \* the regions in the order of their creation: the
                        \* stages of its initialisation each has gone through
          order_queue,  \* and their order queues
          boot,         \* the next step of the engine's start
          mine,         \* the region of the engine
          feed,
          order_of      \* order_of[n] is the order id of the n-th command sent

region_vars == <<path, regions, order_queue, boot, mine, feed, order_of>>
processVars == <<vars, region_vars>>

Initialised == {"sized", "constructed", "header", "ready"}
Feed(place, region, attempt, next) ==
  [at |-> place, region |-> region, attempt |-> attempt, next |-> next]
NoFeed == Feed("off", 0, 0, 1)

ProcessInit ==
  /\ Init /\ path = 0 /\ regions = << >> /\ order_queue = << >> /\ boot = "none" /\ mine = 0
  /\ feed = NoFeed /\ order_of = << >>

\* A store into region r.
Mark(r, stage) == regions' = [regions EXCEPT ![r] = @ \cup {stage}]
-----------------------------------------------------------------------------
\* matching_engine_main.
Start ==
  /\ StartFresh \/ StartRecover
  /\ Len(regions) < MaxRegions
  /\ boot' = "remove"
  /\ UNCHANGED <<path, regions, order_queue, mine, feed, order_of>>

\* Seeded fault: the file of an earlier run stays where it is.
KeepFile ==
  /\ boot = "remove" /\ boot' = "create"
  /\ UNCHANGED <<vars, path, regions, order_queue, mine, feed, order_of>>

remove_file ==
  /\ boot = "remove" /\ boot' = "create"
  /\ path' = 0
  /\ UNCHANGED <<vars, regions, order_queue, mine, feed, order_of>>

\* open with O_CREAT and O_TRUNC: a new file, or the old one emptied.
create ==
  /\ boot = "create" /\ boot' = "size"
  /\ IF path = 0
     THEN /\ regions' = Append(regions, {}) /\ order_queue' = Append(order_queue, << >>)
          /\ path' = Len(regions) + 1
     ELSE /\ regions' = [regions EXCEPT ![path] = {}]
          /\ order_queue' = [order_queue EXCEPT ![path] = << >>]
          /\ path' = path
  /\ mine' = path'
  /\ UNCHANGED <<vars, feed, order_of>>

ftruncate ==
  /\ boot = "size" /\ boot' = "construct" /\ Mark(mine, "sized")
  /\ UNCHANGED <<vars, path, order_queue, mine, feed, order_of>>

\* Seeded fault: READY is the value the state is constructed with.
FreshReady == {"sized", "constructed", "ready"}

\* A region as the constructor leaves it: NOT_READY.
Fresh == {"sized", "constructed"}

\* new (region.data()) SharedRegion()
Construct ==
  /\ boot = "construct" /\ boot' = "header"
  /\ regions' = [regions EXCEPT ![mine] = Fresh]
  /\ order_queue' = [order_queue EXCEPT ![mine] = << >>]
  /\ UNCHANGED <<vars, path, mine, feed, order_of>>

\* Magic, size, version, counters and best prices.
StoreHeader ==
  /\ boot = "header" /\ boot' = "ready" /\ Mark(mine, "header")
  /\ UNCHANGED <<vars, path, order_queue, mine, feed, order_of>>

Ready ==
  /\ boot = "ready" /\ boot' = "none" /\ Mark(mine, "ready") /\ Serve
  /\ UNCHANGED <<path, order_queue, mine, feed, order_of>>

Pop ==
  /\ at = "loop" /\ order_queue[mine] # << >>
  /\ PopCommand(Head(order_queue[mine]))
  /\ order_queue' = [order_queue EXCEPT ![mine] = Tail(@)]
  /\ UNCHANGED <<path, regions, boot, mine, feed, order_of>>

Work ==
  /\ RecoveryFails \/ Stop \/ Write \/ Sync \/ Apply \/ Publish \/ Exit
  /\ UNCHANGED region_vars

\* The engine dies, or main returns because create failed.
Die == Crash /\ boot' = "none" /\ UNCHANGED <<path, regions, order_queue, mine, feed, order_of>>

\* The file may be gone with /tmp.
Reboot ==
  /\ PowerLoss
  /\ boot' = "none" /\ feed' = NoFeed /\ path' \in {0, path}
  /\ UNCHANGED <<regions, order_queue, mine, order_of>>

cleanup_shared_memory ==
  /\ path' = 0 /\ UNCHANGED <<vars, regions, order_queue, boot, mine, feed, order_of>>
-----------------------------------------------------------------------------
\* feed_handler.
StartFeed ==
  /\ feed.at = "off" /\ feed' = Feed("open", 0, 0, 1)
  /\ UNCHANGED <<vars, path, regions, order_queue, boot, mine, order_of>>

\* open() fails as long as the file is missing or too small.
OpenRegion ==
  /\ feed.at = "open"
  /\ feed' = IF path # 0 /\ "sized" \in regions[path]
             THEN Feed("poll", path, 0, 1)
             ELSE IF feed.attempt > MaxAttempts THEN NoFeed
             ELSE Feed("open", 0, feed.attempt + 1, 1)
  /\ UNCHANGED <<vars, path, regions, order_queue, boot, mine, order_of>>

SeeReady ==
  /\ feed.at = "poll" /\ "ready" \in regions[feed.region]
  /\ feed' = Feed("check", feed.region, 0, 1)
  /\ UNCHANGED <<vars, path, regions, order_queue, boot, mine, order_of>>

CheckProtocol ==
  /\ feed.at = "check"
  /\ feed' = IF "header" \in regions[feed.region] THEN Feed("push", feed.region, 0, 1)
                                               ELSE NoFeed
  /\ UNCHANGED <<vars, path, regions, order_queue, boot, mine, order_of>>

sendOrder ==
  /\ feed.at = "push" /\ feed.next <= Orders /\ Len(order_of) < MaxCommands
  /\ order_of' = Append(order_of, feed.next)
  /\ order_queue' = [order_queue EXCEPT ![feed.region] = Append(@, Len(order_of) + 1)]
  /\ feed' = Feed("push", feed.region, 0, feed.next + 1)
  /\ UNCHANGED <<vars, path, regions, boot, mine>>

FeedDone ==
  /\ feed.at = "push" /\ feed.next > Orders
  /\ Mark(feed.region, "producer_done") /\ feed' = NoFeed
  /\ UNCHANGED <<vars, path, order_queue, boot, mine, order_of>>

FeedDies ==
  /\ feed.at # "off" /\ feed' = NoFeed
  /\ UNCHANGED <<vars, path, regions, order_queue, boot, mine, order_of>>

ProcessNext ==
  \/ Start \/ remove_file \/ create \/ ftruncate \/ Construct \/ StoreHeader \/ Ready
  \/ Pop \/ Work \/ Die \/ Reboot \/ cleanup_shared_memory
  \/ StartFeed \/ OpenRegion \/ SeeReady \/ CheckProtocol \/ sendOrder \/ FeedDone \/ FeedDies

ProcessSpec == ProcessInit /\ [][ProcessNext]_processVars
-----------------------------------------------------------------------------
\* "once a process observes READY, it also sees ... a fully-initialized,
\* non-garbage SharedRegion" (docs/ipc.md:100): what a feed has found READY is
\* completely initialised and stays so as long as it uses it, whatever engines
\* die, restart and create in the meantime; the protocol check never fails.
HandshakeSound ==
  feed.at \in {"check", "push"} =>
    feed.region \in DOMAIN regions /\ Initialised \subseteq regions[feed.region]

\* The ids that came before the i-th command, and the commands that bring an
\* order for the first time: unless it was rejected, an order that comes again
\* is a DUPLICATE_ORDER_ID.
CameBefore(i) == {order_of[engine[j]] : j \in 1..(i - 1)}
FirstArrivals == {i \in DOMAIN engine : order_of[engine[i]] \notin CameBefore(i)}

\* A feed that is run again after a crash sends its orders from the start.
\* However often engine, feed and machine died, the orders get to the engine for
\* the first time in the order of the feed, none left out; and after one
\* complete run of the feed with one engine none is missing.
FirstArrivalsInOrder ==
  /\ \A i \in FirstArrivals : order_of[engine[i]] = Cardinality(CameBefore(i)) + 1
  /\ at = "loop" /\ "producer_done" \in regions[mine] /\ order_queue[mine] = << >> =>
       Cardinality(FirstArrivals) = Orders
=============================================================================
