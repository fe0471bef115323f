\* Three requests of one session; a struct is free whenever one is needed.
CONSTANTS
  w1 = w1
  w2 = w2
  c1 = c1
  c2 = c2
  c3 = c3
  k1 = k1
  s1 = s1
  s2 = s2
  s3 = s3
  s4 = s4
  NoWorker = NoWorker
  NoStruct = NoStruct
  Workers <- TwoWorkers
  Callers <- ThreeCallers
  Keys <- OneKey
  Structs <- FourStructs
SPECIFICATION Spec
SYMMETRY Symmetry
INVARIANTS TypeOK AnswersInTime OneWorkerPerSession
PROPERTY StickySessions
