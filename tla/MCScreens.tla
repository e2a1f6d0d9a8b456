----------------------------- MODULE MCScreens ------------------------------
(* Two outputs, and windows that differ in nothing. *)
EXTENDS Screens, TLC

CONSTANTS w1, w2

MCScreenq == <<"primary", "other">>
Symmetry == Permutations(Windows)
=============================================================================
