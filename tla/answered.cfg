SPECIFICATION FairSpec
CONSTANTS
  r1 = r1
  r2 = r2
  r3 = r3
  r4 = r4
  b1 = b1
  None = None
  Stop = Stop
  Requests = {r1, r2, r3, r4}
  Bridges = {b1}
  OpenFails = TRUE
  Destroys = TRUE
  Overlaps = {"callOpening"}
CHECK_DEADLOCK FALSE
PROPERTIES
  EveryRequestAnswered
  OpenAnswerIsTrue
INVARIANTS
  DestroyClosesAll
  AnsweredAtMostOnce
