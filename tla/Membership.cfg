\* Two workers, polls that do not overlap and answer in time; one fault, one restart
\* of the registry, spawns that raise, processes that outlive their actors.
CONSTANTS
  w1 = w1
  w2 = w2
  p1 = p1
  p2 = p2
  a1 = a1
  a2 = a2
  a3 = a3
  a4 = a4
  NoWorker = NoWorker
  NoPoll = NoPoll
  NoActor = NoActor
  Workers <- TwoWorkers
  Polls <- OnePoll
  Actors <- ThreeActors
  SuspectThreshold = 0
  DeadThreshold = 1
  ClientTimeout = 2
  MaxPoll = 1
  MaxFaults = 1
  MaxRestarts = 1
  SpawnMayFail = TRUE
  MaxVersion = 0
  ChildrenOutlive = TRUE
SPECIFICATION FairSpec
INVARIANT ListedAsKnown
PROPERTIES DeathByStages SilentBeforeKill Recovers
