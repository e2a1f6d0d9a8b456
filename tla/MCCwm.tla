------------------------------- MODULE MCCwm -------------------------------
(***************************************************************************)
(* Values for the constants of Cwm: two windows, which suffice for one to  *)
(* be the current client, the transient or the group mate of the other.    *)
(***************************************************************************)
EXTENDS CwmDesktop

CONSTANTS w1, w2, f1

NoTransients == [w \in Windows |-> NoClient]
NoAutogroup  == [w \in Windows |-> NoGroup]

\* w2 is a dialog of w1, which the configuration sends to group 1
Dialog      == [w \in Windows |-> IF w = w2 THEN w1 ELSE NoClient]
FirstToOne  == [w \in Windows |-> IF w = w1 THEN 1 ELSE NoGroup]

Symmetry == Permutations(Windows)
=============================================================================
