SPECIFICATION Spec
CONSTANTS
  page = page
  w1 = w1
  Contexts = {page, w1}
  Workers = {w1}
  Platforms = {"android", "ios"}
  MaxSqlChunk = 1
  Chunking = {}
  MaxPartSize = 5
  MaxTransactions = 2
  MaxStatements = 1
  MaxParams = 1
  Terminates = {}
  LateFailures = TRUE
CHECK_DEADLOCK FALSE
INVARIANT RunningIsOnItsWay
