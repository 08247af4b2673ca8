SPECIFICATION JobSpec
CONSTANTS
  w1 = w1
  w2 = w2
  g1 = g1
  g2 = g2
  g3 = g3
  Workers = {w1, w2}
  Calls = {w1, w2}
  WorkerOf <- OwnWorker
  Gates = {g1, g2}
  FirstGate = g1
  Steps = {}
  Replayable = {}
  Detached = {g1}
  Verdicts <- ShippedVerdicts
  NoWorker = NoWorker
  NoScope = NoScope
CHECK_DEADLOCK FALSE
INVARIANT FailureIsReported
