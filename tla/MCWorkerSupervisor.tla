------------------------ MODULE MCWorkerSupervisor ------------------------
(***************************************************************************)
(* The supervisor of one worker: two crashes and two manual restarts are    *)
(* enough for three children of one worker to overlap.                      *)
(***************************************************************************)
EXTENDS WorkerSupervisor
=============================================================================
