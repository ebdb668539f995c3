SPECIFICATION DemoSpec
CONSTANTS
  Client = {c1, c2, m}
  c1 = c1
  c2 = c2
  m = m
  Main = m
  Programs <- MCPrograms
  OrdersPerProducer = 1
  Symbol = {x, y}
  ShardCount = 2
  ShardOf <- MCTwoShards
  Capacity = 1
  Calls <- MCFreeCalls
  MaxCommands = 2
  MaxTrades = 1
  LogDepth = 1
INVARIANTS PendingExact FuturesHonest ShutdownDrains DemoPasses
PROPERTY IdleMeansDone
