SPECIFICATION TurnSpec
CONSTANTS
  Operations = {o1, o2, o3}
  Answers = {a1, a2}
  Ids = {i1, i2}
  Requests = {r1, r2}
  None = None
  Starter = Starter
  MaxRounds = 2
  MaxRetries = 1
  LastStage = 2
  HasChecklist = FALSE
  StoreThrows = TRUE
CHECK_DEADLOCK FALSE
SYMMETRY Sym
INVARIANTS
  OneThread
  EndedIsQuiet
  PauseIsAnswerable
