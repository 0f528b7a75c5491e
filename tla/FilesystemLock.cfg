\* Two processes may die anywhere, one may be suspended for any time.
SPECIFICATION FairSpec
CONSTANTS
  Process = {p1, p2, p3}
  Owner = owner
  Gone = gone
  MayCrash = {p1, p2}
  MayStall = {p2}
CHECK_DEADLOCK FALSE
INVARIANTS
  FreshOwnerKeepsFile
  OneOwnerUnlessRobbed
PROPERTIES
  NobodyBlocksTheLock
