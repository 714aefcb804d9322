---------------------------- MODULE MCLocalGame ----------------------------
(* A Human and two computer players. *)
EXTENDS LocalGame
CONSTANTS h, a, b
HumanFirst == {<<h, a, b>>}
=============================================================================
