----------------------------- MODULE AppendLog -----------------------------
(***************************************************************************)
(* What an event store promises of one aggregate: a history that only      *)
(* grows, one event at a time (server/eventstore/index.ts:1-12).           *)
(***************************************************************************)
EXTENDS Sequences

CONSTANT Events
VARIABLE log

Init == log = <<>>

Next == \E e \in Events : log' = Append(log, e)

Spec == Init /\ [][Next]_log
=============================================================================
