SPECIFICATION Spec
CONSTANTS
  t1 = t1
  t2 = t2
  Tx = {t1, t2}
  Kinds = {"transaction", "readTransaction", "beginTransaction", "executeSql", "sqlBatch"}
  MaxStatements = 2
  MaxOpens = 2
  MaxCloses = 1
  MaxDeletes = 0
  AppWaits = TRUE
  OpenFailures = {"err", "none"}
  CommitFailures = {"undo"}
  AutoRollback = FALSE
SYMMETRY Symmetry
CHECK_DEADLOCK FALSE
INVARIANTS
  TypeOK
  Serialized
  QueueIsScheduled
  ErrorLeavesNothing
  SuccessIsDurable
  NoHangingTransaction
PROPERTIES
  ImplementsSerialTransactions
