-------------------------- MODULE MCForeignToplevel --------------------------
(* ForeignToplevel on a few windows and taskbars, for TLC.                 *)
EXTENDS ForeignToplevel, TLC

Symmetry == Permutations(Windows) \cup Permutations(Managers)
=============================================================================
