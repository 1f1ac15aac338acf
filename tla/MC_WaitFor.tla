----------------------------- MODULE MC_WaitFor -----------------------------
(* Model-checking instance of WaitFor: the constants are given in the cfgs. *)
EXTENDS WaitFor
=============================================================================
