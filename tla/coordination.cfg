CHECK_DEADLOCK FALSE
CONSTANTS
  Operations = {m1, m2}
  Answers = {n1, n2}
  Ids = {i1, i2}
  None = None
  Tasks = {t1, t2}
  Windows = {m1, m2}
  NoTask = NoTask
  NoWindow = NoWindow
  FirstActive = t1
  Fresh = {t2}
  MaxFaults = 2
  Undisturbed = TRUE
  Relayed = {r1}
  Sweeps = {m1, m2}
  Hosts = {i1, i2}
  NoRequest = NoRequest
  MaxRelayFaults = 2
  Rounds = {m1, m2}
  Watchdogs = {n1, n2}
  Rescuers = {k1}
  Nobody = Nobody
  User = User
  MaxRenewals = 1
  MaxStalls = 2
  Managers = {m1, m2}
  Callers = {n1, n2}
  Families = {f1}
  MaxRotations = 3
  NoPair = NoPair
  NoManager = NoManager
  MaxLosses = 1
  Uses = {m1, m2}
  Resets = {n1, n2}
  Boxes = {i1, i2}
  NoBox = NoBox
  MaxProviderFaults = 4
SPECIFICATION MCSpec
SYMMETRY MCSym
INVARIANTS
  MCTypeOK
  OneGrant
  GrantIsEarned
  OneActive
  RunsOnce
  AnswerIsTrue
  NotInterruptedByItself
  RoundBeatsPause
  RevokedForAReason
  LostForAReason
PROPERTIES
  NothingTakenBack
  PendingIsKept
  KeepsRelayContract
  UserPauseIsKept
  KeepsAdmissionContract
