------------------------------ MODULE MCInput ------------------------------
(* Input with one keyboard and one inhibiting surface, for TLC. *)
EXTENDS Input

\* Return is the same under every modifier, F1 is not.
Layout == [k \in Keys |-> [M \in SUBSET Modifiers |->
             IF k = "F1" /\ M # {} THEN "XF86Switch_VT" ELSE k]]
=============================================================================
