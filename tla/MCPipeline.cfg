SPECIFICATION FairSpec
CONSTANTS
  Orders = 2
  CancelEvery = 2
  QueueCapacity = 1
  MaxTrades = 2
INVARIANTS LosslessInOrder BookLineRecent
PROPERTIES AllDelivered StopEnds
