SPECIFICATION FairSpec
CONSTANTS
  Producer = {p1, p2, p3}
  Worker = {w1, w2}
  Symbol = {x, y}
  ShardOf <- MCOneShard
  OrdersPerProducer = 1
  Capacity = 1
  MaxTrades = 1
  LogDepth = 1
INVARIANTS NoneLostNoneTwice SummaryExact
PROPERTY Ends
