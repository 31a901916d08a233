------------------------------ MODULE MCCommits ------------------------------
(* Commits on a layer and a window, for TLC. *)
EXTENDS Commits
=============================================================================
