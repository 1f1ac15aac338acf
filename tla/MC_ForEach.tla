----------------------------- MODULE MC_ForEach -----------------------------
(* Model-checking instance of ForEach: the constants are given in the cfgs. *)
EXTENDS ForEach
=============================================================================
