SPECIFICATION TimelySpec
CONSTANTS
  w1 = w1
  w2 = w2
  g1 = g1
  g2 = g2
  s1 = s1
  Workers = {w1, w2}
  Calls = {w1, w2}
  WorkerOf <- OwnWorker
  Gates = {g1, g2}
  Steps = {s1}
  Replayable = {}
  Detached = {s1}
  Verdicts <- ShippedVerdicts
  NoWorker = NoWorker
  NoScope = NoScope
SYMMETRY Alike
INVARIANTS OneDriveAtATime OneEffect OneReoffer
PROPERTY KeepsContract
