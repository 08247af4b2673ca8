CHECK_DEADLOCK FALSE
CONSTANTS
  Operations = {o1, o2, o3}
  Answers = {a1}
  Ids = {i1}
  Requests = {r1, r2}
  None = None
  Starter = Starter
  MaxRounds = 2
  MaxRetries = 1
  LastStage = 2
  HasChecklist = TRUE
  StoreThrows = FALSE
  Tasks = {t1, t2}
  Windows = {w1}
  NoTask = NoTask
  NoWindow = NoWindow
  FirstActive = t1
  Fresh = {}
  MaxFaults = 2
  Undisturbed = TRUE
  Relayed = {q1}
  Sweeps = {s1, s2}
  Hosts = {h1, h2}
  NoRequest = NoRequest
  MaxRelayFaults = 1
  Rounds = {b1}
  Watchdogs = {c1}
  Rescuers = {k1}
  Nobody = Nobody
  User = User
  MaxRenewals = 1
  MaxStalls = 1
SPECIFICATION MCSpec
INVARIANT RunningIsDriven
PROPERTIES
  RunSettles
  AttemptedIsRecovered
  FilesAreCleared
  DeadIsDisplaced
