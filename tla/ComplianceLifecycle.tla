------------------------- MODULE ComplianceLifecycle -------------------------
(***************************************************************************)
(* executeTransition of server/workflows/complianceLifecycle.ts, as        *)
(* concurrent requests run it: read the row, look the transition up,       *)
(* update where the status is still the one read, run the side effects,    *)
(* write the audit row.  Each statement is a transaction of its own.       *)
(*                                                                         *)
(* Tables and columns are taken as the statements name them.               *)
(***************************************************************************)
EXTENDS LifecycleTables, Naturals, Sequences, FiniteSets

CONSTANTS
  Entities,   \* rows of the five tables
  Requests,   \* request slots
  MaxCommits  \* bound on the transitions of one entity

ASSUME LifecycleAssumption == MaxCommits \in Nat

VARIABLES
  kind,       \* the table an entity is in
  status,     \* its status column
  penalties,  \* financial_penalties rows per entity
  compliant,  \* organizations.compliance_status = 'compliant'
  audit,      \* audit_logs rows per entity: action and details
  req,        \* requests under way
  done        \* history: the transitions whose UPDATE took effect

vars == <<kind, status, penalties, compliant, audit, req, done>>

\* A request under way: the entity, the row found for it, the next statement.
Running ==
  [phase : {"update", "effect", "effect2", "audit"}, ent : Entities, row : Rows]

Idle == [phase |-> "idle"]

\* The audit row of executeTransition, and the one of approve_registration's
\* side effect, which has the same action.
Trail(t) == [action |-> t.action, details |-> [from |-> t.from, to |-> t.to]]
Approval == [action |-> "approve_registration", details |-> [approved |-> TRUE]]

Trails == {Trail(t) : t \in Rows}
AuditRows == Trails \cup {Approval}

TypeOK ==
  /\ kind \in [Entities -> Kinds]
  /\ status \in [Entities -> WorkflowStates]
  /\ penalties \in [Entities -> Nat]
  /\ compliant \in [Entities -> BOOLEAN]
  /\ audit \in [Entities -> Seq(AuditRows)]
  /\ req \in [Requests -> Running \cup {Idle}]
  /\ done \in [Entities -> Seq(Trails)]
  /\ \A e \in Entities : Len(done[e]) <= MaxCommits

Init ==
  /\ kind \in [Entities -> Kinds]
  /\ status = [e \in Entities |-> "draft"]
  /\ penalties = [e \in Entities |-> 0]
  /\ compliant = [e \in Entities |-> FALSE]
  /\ audit = [e \in Entities |-> <<>>]
  /\ req = [r \in Requests |-> Idle]
  /\ done = [e \in Entities |-> <<>>]

-----------------------------------------------------------------------------
\* The role the row asks for, or admin.
Permitted(t, role) == t.role = role \/ role = "admin"

\* The row of the current status and the requested action; a request without
\* one, or whose condition fails (met), returns at once and changes nothing.
ReadAndMatch(r, e, role, met) ==
  /\ req[r] = Idle
  /\ \E t \in WORKFLOW_MAP[kind[e]] :
       /\ t.from = status[e]
       /\ Permitted(t, role)
       /\ t.cond => met
       /\ req' = [req EXCEPT ![r] = [phase |-> "update", ent |-> e, row |-> t]]
  /\ UNCHANGED <<kind, status, penalties, compliant, audit, done>>

AfterUpdate(t) == IF t.effect = "none" THEN "audit" ELSE "effect"

\* Mutant: UPDATE ... WHERE id = $2, without the status read.
UpdateUnguarded(r) ==
  LET e == req[r].ent
      t == req[r].row
  IN
  /\ req[r].phase = "update"
  /\ Len(done[e]) < MaxCommits
  /\ status' = [status EXCEPT ![e] = t.to]
  /\ done' = [done EXCEPT ![e] = Append(@, Trail(t))]
  /\ req' = [req EXCEPT ![r].phase = AfterUpdate(t)]
  /\ UNCHANGED <<kind, penalties, compliant, audit>>

\* Mutant: the new status and the action are swapped in the statement.
UpdateWritesAction(r) ==
  LET e == req[r].ent
      t == req[r].row
  IN
  /\ req[r].phase = "update"
  /\ status[e] = t.from
  /\ Len(done[e]) < MaxCommits
  /\ status' = [status EXCEPT ![e] = t.action]
  /\ done' = [done EXCEPT ![e] = Append(@, Trail(t))]
  /\ req' = [req EXCEPT ![r].phase = AfterUpdate(t)]
  /\ UNCHANGED <<kind, penalties, compliant, audit>>

\* UPDATE ... WHERE id = $2 AND status = $3 finds the row as it was read ...
Update(r) ==
  LET e == req[r].ent
      t == req[r].row
  IN
  /\ req[r].phase = "update"
  /\ status[e] = t.from
  /\ Len(done[e]) < MaxCommits
  /\ status' = [status EXCEPT ![e] = t.to]
  /\ done' = [done EXCEPT ![e] = Append(@, Trail(t))]
  /\ req' = [req EXCEPT ![r].phase = AfterUpdate(t)]
  /\ UNCHANGED <<kind, penalties, compliant, audit>>

\* Mutant: the row count of the UPDATE is not looked at.
ConflictGoesOn(r) ==
  /\ req[r].phase = "update"
  /\ status[req[r].ent] # req[r].row.from
  /\ req' = [req EXCEPT ![r].phase = AfterUpdate(req[r].row)]
  /\ UNCHANGED <<kind, status, penalties, compliant, audit, done>>

\* ... or it does not, and the request ends with "Concurrent modification".
Conflict(r) ==
  /\ req[r].phase = "update"
  /\ status[req[r].ent] # req[r].row.from
  /\ req' = [req EXCEPT ![r] = Idle]
  /\ UNCHANGED <<kind, status, penalties, compliant, audit, done>>

\* impose_penalty inserts its penalty; approve_registration marks the
\* organization compliant and goes on to a second statement.
SideEffect(r) ==
  LET e == req[r].ent IN
  /\ req[r].phase = "effect"
  /\ \/ /\ req[r].row.effect = "penalty"
        /\ penalties' = [penalties EXCEPT ![e] = @ + 1]
        /\ req' = [req EXCEPT ![r].phase = "audit"]
        /\ UNCHANGED compliant
     \/ /\ req[r].row.effect = "compliant"
        /\ compliant' = [compliant EXCEPT ![e] = TRUE]
        /\ req' = [req EXCEPT ![r].phase = "effect2"]
        /\ UNCHANGED penalties
  /\ UNCHANGED <<kind, status, audit, done>>

\* approve_registration writes an audit row of its own.
ApprovalAudit(r) ==
  /\ req[r].phase = "effect2"
  /\ audit' = [audit EXCEPT ![req[r].ent] = Append(@, Approval)]
  /\ req' = [req EXCEPT ![r].phase = "audit"]
  /\ UNCHANGED <<kind, status, penalties, compliant, done>>

\* A failing side effect is logged and the request goes on.
SideEffectFails(r) ==
  /\ req[r].phase \in {"effect", "effect2"}
  /\ req' = [req EXCEPT ![r].phase = "audit"]
  /\ UNCHANGED <<kind, status, penalties, compliant, audit, done>>

AuditTrail(r) ==
  /\ req[r].phase = "audit"
  /\ audit' = [audit EXCEPT ![req[r].ent] = Append(@, Trail(req[r].row))]
  /\ req' = [req EXCEPT ![r] = Idle]
  /\ UNCHANGED <<kind, status, penalties, compliant, done>>

\* A statement outside the try block throws, or the server process dies.
RequestDies(r) ==
  /\ req[r] # Idle
  /\ req' = [req EXCEPT ![r] = Idle]
  /\ UNCHANGED <<kind, status, penalties, compliant, audit, done>>

Step(r) ==
  \/ Update(r)
  \/ Conflict(r)
  \/ SideEffect(r)
  \/ ApprovalAudit(r)
  \/ SideEffectFails(r)
  \/ AuditTrail(r)
  \/ RequestDies(r)

Next ==
  \/ \E r \in Requests, e \in Entities, role \in Roles, met \in BOOLEAN :
       ReadAndMatch(r, e, role, met)
  \/ \E r \in Requests : Step(r)

Spec == Init /\ [][Next]_vars

-----------------------------------------------------------------------------
(* Properties *)

\* However requests interleave, the status column only ever takes the steps of
\* the entity's table.
Abstract == INSTANCE Lifecycle
            WITH kind <- kind, status <- status, Entities <- Entities
ImplementsLifecycle == Abstract!Spec

\* Concurrent or repeated impose_penalty requests never fine a violation twice,
\* and nothing but a violation is fined.
OnePenaltyPerViolation ==
  \A e \in Entities : penalties[e] <= IF kind[e] = "violation" THEN 1 ELSE 0

Rowcount(x, s) == Cardinality({k \in 1..Len(s) : s[k] = x})

\* The transition an audit row is about.
TransitionOf(x) ==
  IF x = Approval
  THEN [action |-> x.action, details |-> [from |-> "under_review", to |-> "approved"]]
  ELSE x

\* The audit trail invents nothing: a transition that took effect has at most
\* one row with its action, from and to.  An approval has at most one more, of
\* the side effect and with the same action, told apart by its details.
AuditRowsAreTrue ==
  \A e \in Entities, x \in AuditRows :
    Rowcount(x, audit[e]) <= Rowcount(TransitionOf(x), done[e])

=============================================================================
