SPECIFICATION Spec
CONSTANTS
  p1 = p1
  p2 = p2
  Plugin <- MCPlugin
  Conflict <- MCConflict
  Ref = {s1, s2}
  Admin = {a1, a2}
  Opener = {o1, o2}
  MaxCalls = 3
  MaxFaults = 2
  None = None
CHECK_DEADLOCK FALSE
INVARIANTS
  EnabledLoadTogether
  SecretsMatchReferences
PROPERTIES
  OpenedWithCurrent
  CallsEnd
