---------------------------- MODULE MCEventStore ----------------------------
(* EventStore with interchangeable approvals.                               *)
EXTENDS EventStore, TLC

Symmetry == Permutations(Approvals)
=============================================================================
