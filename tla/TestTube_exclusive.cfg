SPECIFICATION Spec
CONSTANTS
  t1 = t1
  t2 = t2
  NoThread = NoThread
  Threads = {t1, t2}
  Ops = {"new", "account", "param", "tx", "time", "sim", "query", "drop"}
  Sharing = FALSE
  MaxEnvs = 2
  MaxHeight = 3
SYMMETRY Symmetry
CHECK_DEADLOCK FALSE
INVARIANTS
  TypeOK
  HandlesUnique
  SerialUseNeverAborts
  BetweenBlocks
  AckedIsCommitted
PROPERTIES
  QueriesSeeAcked
  KeepsPromise
