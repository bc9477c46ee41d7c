-------------------------- MODULE MCNocEscalation --------------------------
(* NocEscalation without symmetry: its runs check liveness.                 *)
EXTENDS NocEscalation
=============================================================================
