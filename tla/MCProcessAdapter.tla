-------------------------- MODULE MCProcessAdapter --------------------------
(***************************************************************************)
(* Finite instances of ProcessAdapter for TLC.                              *)
(***************************************************************************)
EXTENDS ProcessAdapter, TLC

Symmetry == Permutations(Client) \cup Permutations(Process)
=============================================================================
