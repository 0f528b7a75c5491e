\* Three clients' connections and two cleanups of the adapter's own.
SPECIFICATION FairSpec
CONSTANTS
  Socket = {s1, s2, s3}
  AdapterCleanup = {a1, a2}
  None = None
CHECK_DEADLOCK FALSE
INVARIANTS
  ChannelsAreClosed
  ReleasesAreSound
  FailureIsReported
PROPERTIES
  CloseSettles
