SPECIFICATION Spec
CONSTANTS
  NoThread = NoThread
  Threads = {t1}
  Ops = {"new", "drop"}
  Sharing = FALSE
  MaxEnvs = 1
  MaxHeight = 2
CHECK_DEADLOCK FALSE
INVARIANT
  DropCleansUp
