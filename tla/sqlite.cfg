SPECIFICATION Spec
CONSTANTS
  c1 = c1
  c2 = c2
  Conns = {c1, c2}
  LastPage = 2
  MaxTransactions = 2
  IoErrors = TRUE
  MaxCrashes = 2
SYMMETRY Symmetry
CHECK_DEADLOCK FALSE
INVARIANTS
  TypeOK
  CacheIsCurrent
  PowerLossIsAtomic
PROPERTIES
  ImplementsAtomicDatabase
