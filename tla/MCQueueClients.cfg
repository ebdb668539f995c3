SPECIFICATION FairSpec
CONSTANTS
  Thread = {t1, t2, t3}
  Capacity = 2
  MaxItems = 3
INVARIANTS Fifo NoLostWakeup
PROPERTY SleepersAreWoken
