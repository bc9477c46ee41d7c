------------------------ MODULE MCComplianceLifecycle ------------------------
(* ComplianceLifecycle with interchangeable request slots.                  *)
EXTENDS ComplianceLifecycle, TLC

Symmetry == Permutations(Requests)
=============================================================================
