\* Runs one after another, each an experiment or a game day, two lost requests in each.
CONSTANTS
  w1 = w1
  w2 = w2
  NoWorker = NoWorker
  Workers <- TwoWorkers
  Experiments <- Files
  GameDays <- ThreeRounds
  MaxLost = 2
SPECIFICATION Spec
INVARIANTS TypeOK RunsLeaveNothing RoundsIndependent 
VIEW View
