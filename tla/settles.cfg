SPECIFICATION FairSpec
CONSTANTS
  t1 = t1
  t2 = t2
  Tx = {t1, t2}
  Kinds = {"transaction", "beginTransaction", "executeSql"}
  MaxStatements = 1
  MaxOpens = 2
  MaxCloses = 0
  MaxDeletes = 1
  AppWaits = TRUE
  OpenFailures = {"err"}
  CommitFailures = {"keep", "undo"}
  AutoRollback = TRUE
CHECK_DEADLOCK FALSE
INVARIANTS
  QueueIsScheduled
  HolderIsWaiting
PROPERTIES
  ReportedOnce
  EveryTransactionSettles
  StartedTransactionEnds
