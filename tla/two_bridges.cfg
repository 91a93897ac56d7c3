SPECIFICATION Spec
CONSTANTS
  r1 = r1
  r2 = r2
  r3 = r3
  b1 = b1
  b2 = b2
  None = None
  Stop = Stop
  Requests = {r1, r2, r3}
  Bridges = {b1, b2}
  OpenFails = FALSE
  Destroys = FALSE
  Overlaps = {"openOpening"}
SYMMETRY Symmetry
CHECK_DEADLOCK FALSE
INVARIANTS
  OneConnection
