------------------------------ MODULE MCBilling ------------------------------
(* Billing with interchangeable sessions and request slots.                 *)
EXTENDS Billing, TLC

Symmetry ==
  Permutations(Sessions) \cup Permutations(Requests)
=============================================================================
