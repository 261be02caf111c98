SPECIFICATION Spec
CONSTANTS
  NoThread = NoThread
  Threads = {t1}
  Ops = {"new", "account", "tx", "drop"}
  Sharing = FALSE
  MaxEnvs = 1
  MaxHeight = 2
CHECK_DEADLOCK FALSE
INVARIANT
  BlockEnded
