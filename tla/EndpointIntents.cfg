SPECIFICATION Spec
CONSTANTS
  Name = {n1}
  Instance = {i1}
  MaxLife = 2
  Real <- MCReal4
  Request = {q1, q2, q3}
  Drainer = {d1}
  Overlap = FALSE
  StoreMayFail = FALSE
SYMMETRY MCSymmetry
CHECK_DEADLOCK FALSE
INVARIANTS
  ServesTheDefined
  NoTunnelIsLost
  EndedStaysClosed
