\* Liveness: one client and two workers.
CONSTANTS
  w1 = w1
  w2 = w2
  r1 = r1
  r2 = r2
  NoWorker = NoWorker
  Workers <- TwoWorkers
  Requests <- OneRequest
  ReadySets <- AlwaysAll
  InitialCap = 1
  MinCap = 1
  MaxCap = 2
  Threshold = 2
SPECIFICATION FairSpec
PROPERTIES EveryClientAnswered SlotsComeBack
CHECK_DEADLOCK FALSE
