SPECIFICATION ProcessSpec
CONSTANTS
  MaxCommands = 3
  Orders = 2
  MaxRegions = 3
  MaxAttempts = 0
INVARIANTS WriteAhead OrdinalsContiguous ReportedSurvive HandshakeSound FirstArrivalsInOrder
