\* Two clients and two workers; the pool settles, and nobody retries.
CONSTANTS
  w1 = w1
  w2 = w2
  r1 = r1
  r2 = r2
  NoWorker = NoWorker
  Workers <- TwoWorkers
  Requests <- TwoRequests
  ReadySets <- AlwaysAll
  InitialCap = 1
  MinCap = 1
  MaxCap = 2
  Threshold = 2
SPECIFICATION Spec
VIEW View
SYMMETRY AnySymmetry
INVARIANTS SlotAccounting  
CONSTRAINT NoRetry
CHECK_DEADLOCK FALSE
