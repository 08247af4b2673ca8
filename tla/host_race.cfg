SPECIFICATION HostSpec
CONSTANTS
  Operations = {o1, o2}
  Answers = {a1, a2}
  Ids = {i1, i2}
  Requests = {r1, r2}
  None = None
  Starter = Starter
  MaxRounds = 1
  MaxRetries = 1
  LastStage = 1
  HasChecklist = TRUE
  StoreThrows = FALSE
CHECK_DEADLOCK FALSE
INVARIANT EndedIsQuiet
