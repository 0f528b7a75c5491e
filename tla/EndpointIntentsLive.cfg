SPECIFICATION FairSpec
CONSTANTS
  Name = {n1}
  Instance = {i1}
  MaxLife = 2
  Real <- MCReal3
  Request = {q1, q2}
  Drainer = {d1}
  Overlap = FALSE
  StoreMayFail = TRUE
CHECK_DEADLOCK FALSE
PROPERTIES
  CallersAreAnswered
  ShutdownEnds
