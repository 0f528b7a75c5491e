SPECIFICATION Spec
CONSTANTS
  Session = {s1, s2, s3}
  Instance = {i1, i2}
  Key = {k1}
  Closer = {c1, c2}
  Drainer = {d1}
  Retained = 1
  None = None
SYMMETRY MCSymmetry
CHECK_DEADLOCK FALSE
INVARIANTS
  OneSessionPerKey
  FailuresAreTold
  NothingStaysOpen
