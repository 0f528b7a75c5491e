SPECIFICATION TuiSpec
CONSTANTS
  LoadJob = {refresh1, refresh2}
  OpenJob = {open1, open2}
  Job <- MCJob
  Kind <- MCKind
  MaxStarts = 3
  NoOne = NoOne
SYMMETRY MCSymmetry
CHECK_DEADLOCK FALSE
INVARIANTS
  ScreenLeadsOn
  LiveIsListed
PROPERTIES
  NewestWins
