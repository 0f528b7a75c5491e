---------------------------- MODULE MCInstances ----------------------------
(***************************************************************************)
(* Small instances of Instances: resources are interchangeable, and so are *)
(* the clients of one kind.                                                *)
(***************************************************************************)
EXTENDS Instances, TLC

MCSymmetry ==
  Permutations(Resource) \cup Permutations(Refresher) \cup Permutations(Worker)

=============================================================================
