SPECIFICATION AuditSpec
CONSTANTS
  Id = {a, b, c}
  MaxPrice = 2
  MaxSequence = 3
  OrderInputs <- MCAllKinds
  RiskLimitsChoices <- MCNoLimits
SYMMETRY MCSymmetry
INVARIANTS TypeOK NotCrossed RemainderInsertable FokFillsCompletely
PROPERTY ImplementsPriceTimePriority
