SPECIFICATION FairSpec
CONSTANTS
  t1 = t1
  t2 = t2
  NoThread = NoThread
  Threads = {t1, t2}
  Ops = {"new", "account", "param", "tx", "time", "sim", "query", "drop"}
  Sharing = TRUE
  MaxEnvs = 1
  MaxHeight = 3
CHECK_DEADLOCK FALSE
INVARIANTS
  SerialUseNeverAborts
  MutexComesFree
  IInv
PROPERTIES
  OperationsAdvance
  OperationsEnd
