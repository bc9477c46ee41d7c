----------------------------- MODULE MCEventBus -----------------------------
(* EventBus with interchangeable events and run slots.                      *)
EXTENDS EventBus

Symmetry == Permutations(Events) \cup Permutations(Runs)
=============================================================================
