--------------------------- MODULE MCAccreditation ---------------------------
(* Accreditation with interchangeable applications and administrators.       *)
EXTENDS Accreditation, TLC

Symmetry == Permutations(Apps) \cup Permutations(Admins)
=============================================================================
