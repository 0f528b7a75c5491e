-------------------------------- MODULE MCTui --------------------------------
(***************************************************************************)
(* The jobs of the runs of Tui: calls of loadJobs and openJobs are         *)
(* interchangeable, and the other handlers are called once each.           *)
(***************************************************************************)
EXTENDS Tui, TLC

CONSTANTS LoadJob, OpenJob

MCJob ==
  LoadJob \cup OpenJob \cup
    {"retry", "close", "stop", "review", "removal", "mutate", "bulk", "flow",
     "credential", "setEnabled"}

MCKind ==
  [j \in MCJob |-> IF j \in LoadJob THEN "refresh" ELSE IF j \in OpenJob THEN "open" ELSE j]

MCSymmetry == Permutations(LoadJob) \cup Permutations(OpenJob)

=============================================================================
