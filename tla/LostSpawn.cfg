\* Starting an actor may raise.
CONSTANTS
  w1 = w1
  w2 = w2
  p1 = p1
  p2 = p2
  a1 = a1
  a2 = a2
  a3 = a3
  a4 = a4
  NoWorker = NoWorker
  NoPoll = NoPoll
  NoActor = NoActor
  Workers <- OneWorker
  Polls <- OnePoll
  Actors <- ThreeActors
  SuspectThreshold = 0
  DeadThreshold = 1
  ClientTimeout = 1
  MaxPoll = 1
  MaxFaults = 1
  MaxRestarts = 0
  SpawnMayFail = TRUE
  MaxVersion = 0
  ChildrenOutlive = FALSE
SPECIFICATION FairSpec
PROPERTY DeadRespawned
