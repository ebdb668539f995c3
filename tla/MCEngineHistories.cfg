SPECIFICATION AuditSpec
CONSTANTS
  Id = {a, b, c, d}
  MaxPrice = 2
  MaxSequence = 4
  OrderInputs <- MCSweep
  RiskLimitsChoices <- MCLooseAndTight
SYMMETRY MCSymmetry
INVARIANTS IndexAgrees PreflightExact DepthFeedExact ArrivalOrder QuantityConserved
PROPERTIES FillsProgress ActiveOrdersCapped
