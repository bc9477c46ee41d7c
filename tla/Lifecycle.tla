------------------------------ MODULE Lifecycle ------------------------------
(***************************************************************************)
(* What the compliance workflow engine promises: an entity moves along the *)
(* table of its kind, one row at a time.                                   *)
(***************************************************************************)
EXTENDS LifecycleTables

CONSTANT Entities

VARIABLES
  kind,    \* which table an entity follows
  status

Init ==
  /\ kind \in [Entities -> Kinds]
  /\ status = [e \in Entities |-> "draft"]

Move(e, t) ==
  /\ status[e] = t.from
  /\ status' = [status EXCEPT ![e] = t.to]
  /\ UNCHANGED kind

Next == \E e \in Entities : \E t \in WORKFLOW_MAP[kind[e]] : Move(e, t)

Spec == Init /\ [][Next]_<<kind, status>>
=============================================================================
