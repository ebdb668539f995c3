SPECIFICATION FairSpec
CONSTANTS
  c1 = c1
  c2 = c2
  Client = {c1, c2}
  Symbol = {x}
  ShardCount = 1
  ShardOf <- MCOneShard
  Capacity = 2
  Calls <- MCWaitAndStop
  MaxCommands = 3
  MaxTrades = 2
  LogDepth = 2
INVARIANTS ShardFifo TradeLogExact
PROPERTIES FuturesComplete 
