SPECIFICATION Spec
CONSTANTS
  Proc = {a, b}
  Key <- MCKey
  MaxFaults = 2
  None = None
SYMMETRY MCSymmetry
CHECK_DEADLOCK FALSE
INVARIANTS
  KeysAreRemoved
  LiveMaterialIsKept
  KnownAreConfirmed
  OneKeyPerHost
