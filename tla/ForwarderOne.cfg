\* One client, a pool whose ready set changes at will, both attempts.
CONSTANTS
  w1 = w1
  w2 = w2
  r1 = r1
  r2 = r2
  NoWorker = NoWorker
  Workers <- TwoWorkers
  Requests <- OneRequest
  ReadySets <- AnySet
  InitialCap = 1
  MinCap = 1
  MaxCap = 1
  Threshold = 1
SPECIFICATION Spec
SYMMETRY WorkerSymmetry
INVARIANTS TypeOK OrphansOnlyOfGoneClients RelayUndisturbed 
PROPERTY ClientViewKept
CHECK_DEADLOCK FALSE
