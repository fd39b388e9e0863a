---------------------------- MODULE MCCycleCheck ----------------------------
(* Every graph over three nodes, with one more id that does not resolve.   *)
EXTENDS CycleCheck
=============================================================================
