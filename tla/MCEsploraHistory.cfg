SPECIFICATION Spec
CONSTANTS
  Tx = {t1, t2, t3}
  PageSize = 2
  PoolSize = 1
  PageLimit = 3
  NoTx = NoTx
INVARIANTS
  TypeOK
  HistoryComplete
PROPERTY
  Terminates
CHECK_DEADLOCK FALSE
