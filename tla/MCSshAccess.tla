---------------------------- MODULE MCSshAccess ----------------------------
(***************************************************************************)
(* Small instances of SshAccess: two processes, which are symmetric.       *)
(***************************************************************************)
EXTENDS SshAccess, TLC

MCKey == {1, 2}
MCSymmetry == Permutations(Proc)

=============================================================================
