------------------------- MODULE MCReservationStore -------------------------
(***************************************************************************)
(* Finite instances of ReservationStore for TLC.                            *)
(***************************************************************************)
EXTENDS ReservationStore, TLC

\* Callers, UUIDs and tokens are only ever compared for equality.
Symmetry == Permutations(Proc) \cup Permutations(GPU) \cup Permutations(Token)
=============================================================================
