---------------------------- MODULE MCOutputRoot ----------------------------
(***************************************************************************)
(* Finite instances of OutputRoot for TLC.                                  *)
(***************************************************************************)
EXTENDS OutputRoot, TLC

CONSTANTS outer, inner

\* inner is a directory inside outer.
NestedRoots == (outer :> Outside) @@ (inner :> outer)
SingleRoot  == (outer :> Outside)

Symmetry == Permutations(Action) \cup Permutations(Process)
=============================================================================
