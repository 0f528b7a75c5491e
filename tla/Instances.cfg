SPECIFICATION Spec
CONSTANTS
  Resource = {r1, r2}
  Refresher = {p1}
  Command = {c1}
  Worker = {w1}
  MaxTries = 2
  MaxFaults = 1
  NoOne = NoOne
SYMMETRY MCSymmetry
CHECK_DEADLOCK FALSE
INVARIANTS
  StableIdentity
  ReportsAreTrue
  RetryCreatesOnce
PROPERTIES
  AcquiredStaysManaged
