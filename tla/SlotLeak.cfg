\* A client leaves while its race is hedged.
CONSTANTS
  w1 = w1
  w2 = w2
  r1 = r1
  r2 = r2
  NoWorker = NoWorker
  Workers <- TwoWorkers
  Requests <- OneRequest
  ReadySets <- AlwaysAll
  InitialCap = 1
  MinCap = 1
  MaxCap = 2
  Threshold = 3
SPECIFICATION Spec
INVARIANT IdleGatewayHoldsNoSlot
CHECK_DEADLOCK FALSE
