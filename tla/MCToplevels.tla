----------------------------- MODULE MCToplevels -----------------------------
(* Toplevels on small sets of windows and layers, for TLC. *)
EXTENDS Toplevels

WindowSymmetry == Permutations(Windows)
=============================================================================
