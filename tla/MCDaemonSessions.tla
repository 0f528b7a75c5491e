-------------------------- MODULE MCDaemonSessions --------------------------
(***************************************************************************)
(* Small instances of DaemonSessions: sessions, closers, drainers and      *)
(* instances are interchangeable.                                          *)
(***************************************************************************)
EXTENDS DaemonSessions, TLC

MCSymmetry ==
  Permutations(Session) \cup Permutations(Closer) \cup Permutations(Instance)
    \cup Permutations(Drainer)

=============================================================================
