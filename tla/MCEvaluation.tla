----------------------------- MODULE MCEvaluation -----------------------------
(* Finite instances of Evaluation for TLC. *)
EXTENDS Evaluation, TLC

Symmetry == Permutations(Thread)
=============================================================================
