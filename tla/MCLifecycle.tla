---------------------------- MODULE MCLifecycle ----------------------------
(***************************************************************************)
(* Values for the constants of Lifecycle: one window is enough, as every   *)
(* request, withdrawal and restart concerns windows one by one.            *)
(***************************************************************************)
EXTENDS Lifecycle

CONSTANTS w1, w2

NoTransients == [w \in Windows |-> NoClient]
NoAutogroup  == [w \in Windows |-> NoGroup]
============================================================================
