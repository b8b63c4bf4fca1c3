-------------------------- MODULE MCCircuitBreaker --------------------------
(* Three overlapping requests; thresholds that disable the breaker, open it at *)
(* the first and at the second failure, and close it at the first and second   *)
(* success.                                                                  *)
EXTENDS CircuitBreaker
=============================================================================
