SPECIFICATION Spec
CONSTANTS
  t1 = t1
  Tx = {t1}
  Kinds = {"sqlBatch"}
  MaxStatements = 2
  MaxOpens = 1
  MaxCloses = 0
  MaxDeletes = 0
  AppWaits = TRUE
  OpenFailures = {}
  CommitFailures = {}
  AutoRollback = TRUE
CHECK_DEADLOCK FALSE
INVARIANTS
  ErrorLeavesNothing
