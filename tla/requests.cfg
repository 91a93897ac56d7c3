SPECIFICATION Spec
CONSTANTS
  r1 = r1
  r2 = r2
  r3 = r3
  r4 = r4
  b1 = b1
  None = None
  Stop = Stop
  Requests = {r1, r2, r3, r4}
  Bridges = {b1}
  OpenFails = TRUE
  Destroys = FALSE
  Overlaps = {"callOpening", "callClosing"}
CHECK_DEADLOCK FALSE
INVARIANTS
  TypeOK
  OneConnection
  MapIsAlive
  ExecutesOnOpenConnection
PROPERTIES
  ImplementsDatabaseRequests
