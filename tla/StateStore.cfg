\* One file may be destroyed once, at any moment.
CONSTANTS
  Update = {u1, u2, u3}
  Reader = {r1}
  NoOne = NoOne
  MaxDamage = 1
SPECIFICATION StoreSpec
SYMMETRY Symmetry
CHECK_DEADLOCK FALSE
INVARIANTS
  NoLostUpdate
  AcknowledgedSurvivesOneLoss
  ReadersSeeCommitted
PROPERTIES
  UpdatesAreAtomic
