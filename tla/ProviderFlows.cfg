SPECIFICATION FairSpec
CONSTANTS
  RawFeature <- MCFeature
  RawScreen <- MCScreen
  Args = {"x", "y"}
  MaxOpens = 3
CHECK_DEADLOCK FALSE
INVARIANTS
  EventFitsScreen
  SessionsAreSound
PROPERTIES
  CallsAreAnswered
