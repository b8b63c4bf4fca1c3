------------------------- MODULE MCEvaluationAction -------------------------
(***************************************************************************)
(* Finite instances of EvaluationAction for TLC.                            *)
(***************************************************************************)
EXTENDS EvaluationAction, TLC

Symmetry == Permutations(Action) \cup Permutations(GPU) \cup Permutations(Token)
=============================================================================
