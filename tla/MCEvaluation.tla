---------------------------- MODULE MCEvaluation ----------------------------
(***************************************************************************)
(* Instances of Evaluation for TLC: the analysis of a comparison and an    *)
(* EVALUATION worked off by a lane that may die and one that may not. *)
(***************************************************************************)
EXTENDS Evaluation

CONSTANTS w1, w2, q1, q2, nobody

AsksAgent == [q \in {q1, q2} |-> "agent"]
=============================================================================
