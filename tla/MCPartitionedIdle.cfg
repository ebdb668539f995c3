SPECIFICATION FairDemoSpec
CONSTANTS
  Client = {c1, m}
  c1 = c1
  c2 = c2
  m = m
  Main = m
  Programs <- MCDemo
  OrdersPerProducer = 1
  Symbol = {x}
  ShardCount = 1
  ShardOf <- MCOneShard
  Capacity = 1
  Calls <- MCNoCalls
  MaxCommands = 1
  MaxTrades = 0
  LogDepth = 1
PROPERTY WaitReturnsWhenIdle
