---------------------------- MODULE MCComparison ----------------------------
(***************************************************************************)
(* Instances of Comparison for TLC: a plain and a reviewed Task Run that   *)
(* share a budget, started one by one or as a comparison's candidates.     *)
(***************************************************************************)
EXTENDS Comparison

CONSTANTS w1, w2
=============================================================================
