------------------------------ MODULE MCOutputs ------------------------------
(* Outputs on two cards with a connector each, for TLC. *)
EXTENDS Outputs

\* A phone panel at scale 2, and a monitor at scale 1.
SmallPanels == {[mm |-> <<68, 147>>,  mode |-> <<1080, 2340>>],
                [mm |-> <<600, 340>>, mode |-> <<1920, 1080>>]}

MCCardOf == [c \in Crtcs |-> CHOOSE g \in Cards : <<c, g>> \in {<<"A", "card0">>, <<"B", "card1">>}]
=============================================================================
