SPECIFICATION Spec
CONSTANTS
  page = page
  w1 = w1
  w2 = w2
  Contexts = {page, w1, w2}
  Workers = {w1, w2}
  Platforms = {"android", "ios"}
  MaxSqlChunk = 1
  Chunking = {w1}
  MaxPartSize = 5
  MaxTransactions = 2
  MaxStatements = 2
  MaxParams = 1
  Terminates = {w2}
  LateFailures = FALSE
CHECK_DEADLOCK FALSE
INVARIANTS
  TypeOK
  HandlersGetOwnResults
  ExecutedInOrder
  SuccessIsComplete
  EndIsLast
  RunningIsOnItsWay
