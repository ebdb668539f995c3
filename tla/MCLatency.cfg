SPECIFICATION Spec
CONSTANTS
  Thread = {t1, t2}
  Latency = {0, 2, 3, 4, 20}
  BucketCount = 4
  MaxValue = 31
  MaxRecords = 3
SYMMETRY MCSymmetry
INVARIANTS ExtremesExact 
