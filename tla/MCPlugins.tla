----------------------------- MODULE MCPlugins -----------------------------
(***************************************************************************)
(* Small instances of Plugins: two plugins in conflict.                    *)
(***************************************************************************)
EXTENDS Plugins

CONSTANTS p1, p2

MCPlugin == {p1, p2}
MCConflict == {<<p1, p2>>, <<p2, p1>>}

=============================================================================
