CHECK_DEADLOCK FALSE
CONSTANTS
  Tasks = {t1, t2}
  Windows = {w1}
  NoTask = NoTask
  NoWindow = NoWindow
  FirstActive = t1
  Fresh = {}
  MaxFaults = 1
  Undisturbed = TRUE
SPECIFICATION FairActivationSpec
PROPERTY RecoveryEnds
