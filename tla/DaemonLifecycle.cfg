\* Two daemons, of which one may be killed, and one client of each kind.
SPECIFICATION Spec
CONSTANTS
  Daemon = {d1, d2}
  Starter = {s1}
  Stopper = {t1}
  Destroyer = {c1}
  MayCrash = {d1, c1}
  NoFile = NoFile
  Partial = Partial
  None = None
CHECK_DEADLOCK FALSE
INVARIANTS
  OneDaemonUnlessRobbed
  DestroyHoldsNoTunnel
  DrainIsReleased
