--------------------------- MODULE MCSubscription ---------------------------
(* Subscription with interchangeable sessions and webhook requests.         *)
EXTENDS Subscription, TLC

Symmetry == Permutations(Checkouts) \cup Permutations(Handlers)
=============================================================================
