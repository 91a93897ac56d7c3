SPECIFICATION Spec
CONSTANTS
  t1 = t1
  t2 = t2
  Tx = {t1, t2}
  Kinds = {"transaction", "executeSql"}
  MaxStatements = 1
  MaxOpens = 1
  MaxCloses = 0
  MaxDeletes = 0
  AppWaits = TRUE
  OpenFailures = {}
  CommitFailures = {"keep"}
  AutoRollback = FALSE
SYMMETRY Symmetry
CHECK_DEADLOCK FALSE
INVARIANTS
  NoHangingTransaction
