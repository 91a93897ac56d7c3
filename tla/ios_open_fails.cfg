SPECIFICATION FairSpec
CONSTANTS
  t1 = t1
  t2 = t2
  Tx = {t1, t2}
  Kinds = {"transaction"}
  MaxStatements = 1
  MaxOpens = 1
  MaxCloses = 0
  MaxDeletes = 0
  AppWaits = TRUE
  OpenFailures = {"ok"}
  CommitFailures = {}
  AutoRollback = FALSE
CHECK_DEADLOCK FALSE
PROPERTIES
  EveryTransactionSettles
