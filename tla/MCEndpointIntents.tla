------------------------- MODULE MCEndpointIntents -------------------------
(***************************************************************************)
(* Model values of EndpointIntents.                                        *)
(***************************************************************************)
EXTENDS EndpointIntents, TLC

MCReal2 == 1 .. 2
MCReal3 == 1 .. 3
MCReal4 == 1 .. 4

\* Requests are interchangeable, and so are names, instances and drainers.
MCSymmetry == Permutations(Request) \cup Permutations(Name) \cup Permutations(Instance)
              \cup Permutations(Drainer)
=============================================================================
