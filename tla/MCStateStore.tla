---------------------------- MODULE MCStateStore ----------------------------
(***************************************************************************)
(* A small StateStore for TLC.  Updates are interchangeable.               *)
(* Each update and each read runs once and the system then stops.          *)
(***************************************************************************)
EXTENDS StateStore, TLC

Symmetry == Permutations(Update)

=============================================================================
