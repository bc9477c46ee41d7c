-------------------------- MODULE MCCircuitBreaker --------------------------
(* CircuitBreaker with interchangeable call slots.                          *)
EXTENDS CircuitBreaker, TLC

Symmetry == Permutations(Calls)
=============================================================================
