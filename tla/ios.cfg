SPECIFICATION Spec
CONSTANTS
  Platforms = {"android", "ios"}
  Databases = {"a", "b"}
  WorkerDatabases = {"b"}
  CommitFailures = {"keep", "undo"}
  MaxCalls = 3
  MaxTransactions = 2
  MaxReloads = 1
CHECK_DEADLOCK FALSE
INVARIANTS
  TypeOK
  StatementsHaveConnection
  ConnectionsAreInTable
  UnfinishedIsNotCommitted
  SuccessIsDurable
  ErrorLeavesNothing
  FirstTransactionRecovers
