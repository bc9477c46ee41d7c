--------------------- MODULE ComplianceLifecycle_proofs ---------------------
(***************************************************************************)
(* The workflow engine implements its transition tables for every number   *)
(* of entities and concurrent requests, and fines a violation at most once.*)
(***************************************************************************)
EXTENDS ComplianceLifecycle, FiniteSetTheorems, SequenceTheorems, TLAPS

FinedStates == {"penalty_imposed", "appealed", "resolved"}

\* The five tables, one by one.
LEMMA Tables ==
  /\ WORKFLOW_MAP["organization"] = ORG_COMPLIANCE_TRANSITIONS
  /\ WORKFLOW_MAP["violation"] = VIOLATION_TRANSITIONS
  /\ WORKFLOW_MAP["breach"] = BREACH_TRANSITIONS
  /\ WORKFLOW_MAP["dpia"] = DPIA_TRANSITIONS
  /\ WORKFLOW_MAP["dsar"] = DSAR_TRANSITIONS
  BY DEF WORKFLOW_MAP, Kinds

\* What the tables say about penalties: only a violation is fined, on the way
\* from escalated to penalty_imposed, and never returns to a state before that.
LEMMA PenaltyRows ==
  ASSUME NEW k \in Kinds, NEW t \in WORKFLOW_MAP[k]
  PROVE  /\ t \in Rows
         /\ t.effect \in {"none", "penalty", "compliant"}
         /\ t.effect = "penalty" =>
              k = "violation" /\ t.from = "escalated" /\ t.to = "penalty_imposed"
         /\ k = "violation" /\ t.from \in FinedStates => t.to \in FinedStates
<1> USE DEF Row, Effect, Conditional
<1>1. t \in Rows
  BY DEF Rows
<1>2. CASE k = "organization"
  BY <1>1, <1>2, Tables DEF ORG_COMPLIANCE_TRANSITIONS
<1>3. CASE k = "violation"
  BY <1>1, <1>3, Tables DEF VIOLATION_TRANSITIONS, FinedStates
<1>4. CASE k = "breach"
  BY <1>1, <1>4, Tables DEF BREACH_TRANSITIONS
<1>5. CASE k = "dpia"
  BY <1>1, <1>5, Tables DEF DPIA_TRANSITIONS
<1>6. CASE k = "dsar"
  BY <1>1, <1>6, Tables DEF DSAR_TRANSITIONS
<1>7. QED
  BY <1>1, <1>2, <1>3, <1>4, <1>5, <1>6 DEF Kinds

\* The audit rows of a table's rows are no row of the side effect, which is
\* owed only where the registration was approved.
LEMMA TrailFacts ==
  /\ \A t \in Rows : Trail(t) \in Trails
  /\ \A x \in Trails : x \in AuditRows /\ x # Approval /\ TransitionOf(x) = x
  /\ Approval \in AuditRows
  /\ \A k \in Kinds : \A t \in WORKFLOW_MAP[k] :
       t.effect = "compliant" => Trail(t) = TransitionOf(Approval)
<1>1. \A t \in Rows : Trail(t) \in Trails
  BY DEF Trails
<1>2. \A t \in Rows : Trail(t) # Approval
  <2>1. SUFFICES ASSUME NEW t \in Rows, Trail(t) = Approval PROVE FALSE
    OBVIOUS
  <2>2. Trail(t).details = [from |-> t.from, to |-> t.to]
    BY DEF Trail
  <2>3. Approval.details = [approved |-> TRUE]
    BY DEF Approval
  <2>4. DOMAIN [from |-> t.from, to |-> t.to] = DOMAIN [approved |-> TRUE]
    BY <2>1, <2>2, <2>3
  <2>5. QED
    BY <2>4
<1>3. \A x \in Trails : x \in AuditRows /\ x # Approval /\ TransitionOf(x) = x
  BY <1>2 DEF Trails, AuditRows, TransitionOf
<1>4. ASSUME NEW k \in Kinds, NEW t \in WORKFLOW_MAP[k], t.effect = "compliant"
      PROVE  Trail(t) = TransitionOf(Approval)
  <2> USE DEF Row, Effect, Conditional
  <2>1. /\ t.action = "approve_registration"
        /\ t.from = "under_review" /\ t.to = "approved"
    <3>1. CASE k = "organization" BY <1>4, <3>1, Tables DEF ORG_COMPLIANCE_TRANSITIONS
    <3>2. CASE k = "violation" BY <1>4, <3>2, Tables DEF VIOLATION_TRANSITIONS
    <3>3. CASE k = "breach" BY <1>4, <3>3, Tables DEF BREACH_TRANSITIONS
    <3>4. CASE k = "dpia" BY <1>4, <3>4, Tables DEF DPIA_TRANSITIONS
    <3>5. CASE k = "dsar" BY <1>4, <3>5, Tables DEF DSAR_TRANSITIONS
    <3>6. QED BY <3>1, <3>2, <3>3, <3>4, <3>5 DEF Kinds
  <2>2. QED
    BY <2>1 DEF Trail, TransitionOf, Approval
<1>5. QED
  BY <1>1, <1>3, <1>4 DEF AuditRows

-----------------------------------------------------------------------------
Phases == {"update", "effect", "effect2", "audit"}

\* A request under way carries a row of its entity's table.
RowsOfKind ==
  \A r \in Requests : req[r] # Idle => req[r].row \in WORKFLOW_MAP[kind[req[r].ent]]

\* Request r is about to insert a penalty for entity e.
Fining(r, e) ==
  req[r].phase = "effect" /\ req[r].ent = e /\ req[r].row.effect = "penalty"

\* Penalty rows and pending penalty inserts of an entity: at most one of them,
\* and only past the impose_penalty transition.
FinesInv ==
  \A e \in Entities :
    /\ penalties[e] \in {0, 1}
    /\ penalties[e] # 0 => kind[e] = "violation" /\ status[e] \in FinedStates
    /\ \A r \in Requests : Fining(r, e) =>
         /\ kind[e] = "violation" /\ status[e] \in FinedStates
         /\ penalties[e] = 0
         /\ \A q \in Requests : Fining(q, e) => q = r

IInv == TypeOK /\ RowsOfKind /\ FinesInv

\* Every entity starts as an unfined draft.
LEMMA InitIInv == Init => IInv
<1> SUFFICES ASSUME Init PROVE IInv
  OBVIOUS
<1>1. TypeOK
  BY LifecycleAssumption DEF Init, TypeOK, WorkflowStates, Idle
<1>2. RowsOfKind /\ FinesInv
  BY DEF Init, RowsOfKind, FinesInv, Fining, Idle
<1>3. QED
  BY <1>1, <1>2 DEF IInv

\* A request that goes on to its next statement keeps its entity and its row.
LEMMA Proceeds ==
  ASSUME TypeOK, RowsOfKind, NEW r \in Requests, req[r].phase \in Phases,
         NEW p \in Phases, req' = [req EXCEPT ![r].phase = p], UNCHANGED kind
  PROVE  /\ req' \in [Requests -> Running \cup {Idle}]
         /\ RowsOfKind'
         /\ req'[r].phase = p /\ req'[r].ent = req[r].ent /\ req'[r].row = req[r].row
         /\ \A q \in Requests \ {r} : req'[q] = req[q]
<1> DEFINE x == [req[r] EXCEPT !.phase = p]
<1>1. req[r] \in Running /\ req[r] # Idle
  BY DEF TypeOK, Idle, Phases
<1>2. x \in Running /\ x.phase = p /\ x.ent = req[r].ent /\ x.row = req[r].row
  BY <1>1 DEF Running, Phases
<1>3. req' = [req EXCEPT ![r] = x]
  OBVIOUS
<1> HIDE DEF x
<1>4. /\ req' \in [Requests -> Running \cup {Idle}]
      /\ req'[r] = x
      /\ \A q \in Requests \ {r} : req'[q] = req[q]
  BY <1>2, <1>3 DEF TypeOK
<1>5. RowsOfKind'
  BY <1>1, <1>2, <1>4 DEF RowsOfKind
<1>6. QED
  BY <1>2, <1>4, <1>5

\* A request that ends frees its slot.
LEMMA Ends ==
  ASSUME TypeOK, RowsOfKind, NEW r \in Requests, req' = [req EXCEPT ![r] = Idle],
         UNCHANGED kind
  PROVE  /\ req' \in [Requests -> Running \cup {Idle}]
         /\ RowsOfKind'
         /\ req'[r] = Idle
         /\ \A q \in Requests \ {r} : req'[q] = req[q]
  BY DEF TypeOK, RowsOfKind

\* Nothing changes about fines when no slot starts fining and neither the
\* penalties nor the statuses change.
LEMMA FinesKept ==
  ASSUME FinesInv, UNCHANGED <<kind, status, penalties>>,
         \A q \in Requests, e \in Entities : Fining(q, e)' => Fining(q, e)
  PROVE  FinesInv'
  BY DEF FinesInv

\* The first read.
LEMMA ReadIInv ==
  ASSUME IInv, NEW r \in Requests, NEW e \in Entities, NEW role \in Roles,
         NEW met \in BOOLEAN, ReadAndMatch(r, e, role, met)
  PROVE  IInv'
<1>1. PICK t \in WORKFLOW_MAP[kind[e]] :
        req' = [req EXCEPT ![r] = [phase |-> "update", ent |-> e, row |-> t]]
  BY DEF ReadAndMatch
<1> DEFINE x == [phase |-> "update", ent |-> e, row |-> t]
<1>2. t \in Rows
  BY PenaltyRows DEF IInv, TypeOK
<1>3. x \in Running /\ x.phase # "effect" /\ x.ent = e /\ x.row = t
  BY <1>2 DEF Running
<1>4. req' = [req EXCEPT ![r] = x]
  BY <1>1
<1> HIDE DEF x
<1>5. /\ req' \in [Requests -> Running \cup {Idle}]
      /\ req'[r] = x
      /\ \A q \in Requests \ {r} : req'[q] = req[q]
  BY <1>3, <1>4 DEF IInv, TypeOK
<1>6. UNCHANGED <<kind, status, penalties, compliant, audit, done>>
  BY DEF ReadAndMatch
<1>7. TypeOK'
  BY <1>5, <1>6 DEF IInv, TypeOK
<1>8. RowsOfKind'
  BY <1>3, <1>5, <1>6 DEF IInv, RowsOfKind
<1>9. FinesInv'
  <2>1. \A q \in Requests, d \in Entities : Fining(q, d)' => Fining(q, d)
    BY <1>3, <1>5 DEF Fining
  <2>2. QED
    BY <1>6, <2>1, FinesKept DEF IInv
<1>10. QED
  BY <1>7, <1>8, <1>9 DEF IInv

\* A committed transition follows a row of the entity's table.
LEMMA UpdateMoves ==
  ASSUME IInv, NEW r \in Requests, Update(r)
  PROVE  /\ req[r] \in Running
         /\ req[r].ent \in Entities
         /\ req[r].row \in WORKFLOW_MAP[kind[req[r].ent]]
         /\ kind[req[r].ent] \in Kinds
         /\ req[r].row \in Rows
<1>1. req[r] \in Running /\ req[r] # Idle
  BY DEF IInv, TypeOK, Update, Idle
<1>2. QED
  BY <1>1 DEF IInv, TypeOK, RowsOfKind, Running

\* The UPDATE: the only step that can start a fine.
LEMMA UpdateIInv ==
  ASSUME IInv, NEW r \in Requests, Update(r)
  PROVE  IInv'
<1> DEFINE e == req[r].ent
           t == req[r].row
<1>1. /\ e \in Entities /\ kind[e] \in Kinds /\ t \in WORKFLOW_MAP[kind[e]]
      /\ t \in Rows
  BY UpdateMoves
<1>2. /\ status[e] = t.from
      /\ status' = [status EXCEPT ![e] = t.to]
      /\ UNCHANGED <<kind, penalties, compliant, audit>>
  BY DEF Update
<1>3. AfterUpdate(t) \in Phases /\ req[r].phase \in Phases
  BY DEF AfterUpdate, Phases, Update
<1>4. req' = [req EXCEPT ![r].phase = AfterUpdate(t)]
  BY DEF Update
<1>5. /\ req' \in [Requests -> Running \cup {Idle}]
      /\ RowsOfKind'
      /\ req'[r].phase = AfterUpdate(t) /\ req'[r].ent = e /\ req'[r].row = t
      /\ \A q \in Requests \ {r} : req'[q] = req[q]
  <2> HIDE DEF e, t
  <2>1. TypeOK /\ RowsOfKind /\ kind' = kind
    BY <1>2 DEF IInv
  <2>2. QED
    BY <1>3, <1>4, <2>1, Proceeds DEF e, t
<1>6. TypeOK'
  <2>1. t.to \in WorkflowStates /\ Trail(t) \in Trails
    BY <1>1, TrailFacts DEF WorkflowStates
  <2>2. status' \in [Entities -> WorkflowStates]
    BY <1>1, <1>2, <2>1 DEF IInv, TypeOK
  <2>3. /\ done' \in [Entities -> Seq(Trails)]
        /\ \A d \in Entities : Len(done'[d]) <= MaxCommits
    <3>1. done' = [done EXCEPT ![e] = Append(done[e], Trail(t))] /\ Len(done[e]) < MaxCommits
      BY DEF Update
    <3>2. done \in [Entities -> Seq(Trails)] /\ done[e] \in Seq(Trails)
      BY <1>1 DEF IInv, TypeOK
    <3>3. /\ Append(done[e], Trail(t)) \in Seq(Trails)
          /\ Len(Append(done[e], Trail(t))) = Len(done[e]) + 1
      BY <2>1, <3>2, AppendProperties
    <3>4. Len(done[e]) \in Nat /\ MaxCommits \in Nat
      BY <3>2, LenProperties, LifecycleAssumption
    <3> DEFINE s == Append(done[e], Trail(t))
    <3>5. s \in Seq(Trails) /\ Len(s) <= MaxCommits /\ done' = [done EXCEPT ![e] = s]
      BY <3>1, <3>3, <3>4
    <3> HIDE DEF s
    <3>6. QED
      BY <1>1, <3>2, <3>5 DEF IInv, TypeOK
  <2>4. QED
    BY <1>2, <1>5, <2>2, <2>3 DEF IInv, TypeOK
<1>7. FinesInv'
  <2>1. /\ t.effect = "penalty" =>
             kind[e] = "violation" /\ t.from = "escalated" /\ t.to = "penalty_imposed"
        /\ kind[e] = "violation" /\ t.from \in FinedStates => t.to \in FinedStates
    BY <1>1, PenaltyRows
  <2>2. /\ status'[e] = t.to
        /\ \A d \in Entities \ {e} : status'[d] = status[d]
    BY <1>1, <1>2 DEF IInv, TypeOK
  <2>3. \A q \in Requests, d \in Entities :
          Fining(q, d)' => \/ Fining(q, d)
                           \/ q = r /\ d = e /\ t.effect = "penalty"
    BY <1>5 DEF Fining
  <2>4. ~Fining(r, e)
    BY DEF Fining, Update
  <2>5. SUFFICES ASSUME NEW d \in Entities
                 PROVE
        /\ penalties'[d] \in {0, 1}
        /\ penalties'[d] # 0 => kind'[d] = "violation" /\ status'[d] \in FinedStates
        /\ \A q \in Requests : Fining(q, d)' =>
             /\ kind'[d] = "violation" /\ status'[d] \in FinedStates
             /\ penalties'[d] = 0
             /\ \A p \in Requests : Fining(p, d)' => p = q
    BY DEF FinesInv, Fining
  <2>6. /\ penalties[d] \in {0, 1}
        /\ penalties[d] # 0 => kind[d] = "violation" /\ status[d] \in FinedStates
        /\ \A q \in Requests : Fining(q, d) =>
             /\ kind[d] = "violation" /\ status[d] \in FinedStates
             /\ penalties[d] = 0
             /\ \A p \in Requests : Fining(p, d) => p = q
    BY DEF IInv, FinesInv
  <2> HIDE DEF e, t
  <2>7. CASE d # e
    BY <1>2, <2>2, <2>3, <2>6, <2>7
  <2>8. CASE d = e /\ t.effect # "penalty"
    BY <1>2, <2>1, <2>2, <2>3, <2>6, <2>8
  <2>9. CASE d = e /\ t.effect = "penalty"
    <3>1. status[e] \notin FinedStates /\ status'[e] \in FinedStates /\ kind[e] = "violation"
      BY <1>2, <2>1, <2>2, <2>9 DEF FinedStates
    <3>2. penalties[e] = 0 /\ \A q \in Requests : ~Fining(q, e)
      BY <2>6, <2>9, <3>1
    <3>3. QED
      BY <1>2, <2>3, <2>9, <3>1, <3>2
  <2>10. QED
    BY <2>7, <2>8, <2>9
<1>8. QED
  BY <1>5, <1>6, <1>7 DEF IInv

\* The side effect: a pending fine becomes a penalty row.
LEMMA SideEffectIInv ==
  ASSUME IInv, NEW r \in Requests, SideEffect(r)
  PROVE  IInv'
<1>0. req[r] \in Running /\ req[r].ent \in Entities
  BY DEF IInv, TypeOK, Running, Idle, SideEffect
<1>1. PICK e \in Entities : e = req[r].ent
  BY <1>0
<1>2. PICK p \in {"effect2", "audit"} : req' = [req EXCEPT ![r].phase = p]
  BY DEF SideEffect
<1>3. UNCHANGED <<kind, status, audit, done>>
  BY DEF SideEffect
<1>4. /\ req' \in [Requests -> Running \cup {Idle}]
      /\ RowsOfKind'
      /\ req'[r].phase = p
      /\ \A q \in Requests \ {r} : req'[q] = req[q]
  <2>1. TypeOK /\ RowsOfKind /\ kind' = kind /\ p \in Phases /\ req[r].phase \in Phases
    BY <1>3 DEF IInv, Phases, SideEffect
  <2>2. QED
    BY <1>2, <2>1, Proceeds
<1>5. \A q \in Requests, d \in Entities : Fining(q, d)' => q # r /\ Fining(q, d)
  BY <1>4 DEF Fining
<1>6. CASE req[r].row.effect = "penalty"
  <2>1. penalties' = [penalties EXCEPT ![e] = penalties[e] + 1] /\ UNCHANGED compliant
    BY <1>1, <1>6 DEF SideEffect
  <2>2. Fining(r, e)
    BY <1>1, <1>6 DEF Fining, SideEffect
  <2>3. /\ kind[e] = "violation" /\ status[e] \in FinedStates
        /\ penalties[e] = 0
        /\ \A q \in Requests : Fining(q, e) => q = r
    BY <1>1, <2>2 DEF IInv, FinesInv
  <2>4. penalties'[e] = 1 /\ \A d \in Entities \ {e} : penalties'[d] = penalties[d]
    BY <1>1, <2>1, <2>3 DEF IInv, TypeOK
  <2>5. penalties' \in [Entities -> Nat]
    BY <1>1, <2>1, <2>3 DEF IInv, TypeOK
  <2>6. TypeOK'
    BY <1>3, <1>4, <2>1, <2>5 DEF IInv, TypeOK
  <2>7. FinesInv'
    <3>1. ASSUME NEW d \in Entities, d # e
          PROVE
          /\ penalties'[d] \in {0, 1}
          /\ penalties'[d] # 0 => kind'[d] = "violation" /\ status'[d] \in FinedStates
          /\ \A q \in Requests : Fining(q, d)' =>
               /\ kind'[d] = "violation" /\ status'[d] \in FinedStates
               /\ penalties'[d] = 0
               /\ \A q2 \in Requests : Fining(q2, d)' => q2 = q
      BY <1>3, <1>5, <2>4, <3>1 DEF IInv, FinesInv
    <3>2. \A q \in Requests : ~Fining(q, e)'
      BY <1>1, <1>5, <2>3
    <3>3. QED
      BY <1>3, <2>3, <2>4, <3>1, <3>2 DEF FinesInv
  <2>8. QED
    BY <1>4, <2>6, <2>7 DEF IInv
<1>7. CASE req[r].row.effect # "penalty"
  <2>1. UNCHANGED penalties /\ compliant' \in [Entities -> BOOLEAN]
    BY <1>1, <1>7 DEF SideEffect, IInv, TypeOK
  <2>2. TypeOK'
    BY <1>3, <1>4, <2>1 DEF IInv, TypeOK
  <2>3. FinesInv'
    BY <1>3, <1>5, <2>1, FinesKept DEF IInv
  <2>4. QED
    BY <1>4, <2>2, <2>3 DEF IInv
<1>8. QED
  BY <1>6, <1>7

\* The remaining steps start no fine and leave statuses and penalties alone.
LEMMA OtherIInv ==
  ASSUME IInv, NEW r \in Requests,
         \/ Conflict(r) \/ ApprovalAudit(r) \/ SideEffectFails(r)
         \/ AuditTrail(r) \/ RequestDies(r)
  PROVE  IInv'
<1>1. UNCHANGED <<kind, status, penalties, compliant, done>>
  BY DEF Conflict, ApprovalAudit, SideEffectFails, AuditTrail, RequestDies
<1>2. \/ req' = [req EXCEPT ![r] = Idle]
      \/ req[r].phase \in Phases /\ req' = [req EXCEPT ![r].phase = "audit"]
  BY DEF Conflict, ApprovalAudit, SideEffectFails, AuditTrail, RequestDies, Phases
<1>3. /\ req' \in [Requests -> Running \cup {Idle}]
      /\ RowsOfKind'
      /\ req'[r].phase \in {"idle", "audit"}
      /\ \A q \in Requests \ {r} : req'[q] = req[q]
  <2>1. CASE req' = [req EXCEPT ![r] = Idle]
    BY <1>1, <2>1, Ends DEF IInv, Idle
  <2>2. CASE req[r].phase \in Phases /\ req' = [req EXCEPT ![r].phase = "audit"]
    BY <1>1, <2>2, Proceeds DEF IInv, Phases
  <2>3. QED
    BY <1>2, <2>1, <2>2
<1>4. audit' \in [Entities -> Seq(AuditRows)]
  <2>1. audit \in [Entities -> Seq(AuditRows)]
    BY DEF IInv, TypeOK
  <2>2. ASSUME NEW a \in AuditRows, NEW e \in Entities,
               audit' = [audit EXCEPT ![e] = Append(audit[e], a)]
        PROVE  audit' \in [Entities -> Seq(AuditRows)]
    <3>1. Append(audit[e], a) \in Seq(AuditRows)
      BY <2>1, AppendProperties
    <3>2. QED
      BY <2>1, <2>2, <3>1
  <2>3. CASE ApprovalAudit(r) \/ AuditTrail(r)
    <3>1. req[r] \in Running /\ req[r] # Idle
      BY <2>3 DEF IInv, TypeOK, Idle, ApprovalAudit, AuditTrail
    <3>2. /\ req[r].ent \in Entities
          /\ Trail(req[r].row) \in AuditRows /\ Approval \in AuditRows
      BY <3>1, TrailFacts DEF Running
    <3>3. QED
      BY <2>2, <2>3, <3>2 DEF ApprovalAudit, AuditTrail
  <2>4. CASE Conflict(r) \/ SideEffectFails(r) \/ RequestDies(r)
    BY <2>1, <2>4 DEF Conflict, SideEffectFails, RequestDies
  <2>5. QED
    BY <2>3, <2>4
<1>5. TypeOK'
  BY <1>1, <1>3, <1>4 DEF IInv, TypeOK
<1>6. FinesInv'
  <2>1. \A q \in Requests, e \in Entities : Fining(q, e)' => Fining(q, e)
    BY <1>3 DEF Fining
  <2>2. QED
    BY <1>1, <2>1, FinesKept DEF IInv
<1>7. QED
  BY <1>3, <1>5, <1>6 DEF IInv

\* One step per action.
LEMMA NextIInv == IInv /\ [Next]_vars => IInv'
<1> SUFFICES ASSUME IInv, [Next]_vars PROVE IInv'
  OBVIOUS
<1>1. ASSUME NEW r \in Requests, NEW e \in Entities, NEW role \in Roles,
             NEW met \in BOOLEAN, ReadAndMatch(r, e, role, met)
      PROVE  IInv'
  BY <1>1, ReadIInv
<1>2. ASSUME NEW r \in Requests, Step(r) PROVE IInv'
  BY <1>2, UpdateIInv, SideEffectIInv, OtherIInv DEF Step
<1>3. CASE UNCHANGED vars
  BY <1>3 DEF vars, IInv, TypeOK, RowsOfKind, FinesInv, Fining
<1>4. QED
  BY <1>1, <1>2, <1>3 DEF Next

\* The strengthened invariant, of which the theorems are consequences.
LEMMA LifecycleInductive == Spec => []IInv
  BY InitIInv, NextIInv, PTL DEF Spec

\* Rows and requests hold well-formed values.
THEOREM LifecycleTypeCorrect == Spec => []TypeOK
  BY LifecycleInductive, PTL DEF IInv

\* However many impose_penalty requests race, a violation is fined once.
THEOREM LifecycleOnePenalty == Spec => []OnePenaltyPerViolation
<1>1. IInv => OnePenaltyPerViolation
  BY DEF IInv, FinesInv, OnePenaltyPerViolation
<1>2. QED
  BY <1>1, LifecycleInductive, PTL

-----------------------------------------------------------------------------
(* The audit trail.  AuditRowsAreTrue is not inductive: AuditTrail would   *)
(* add a row for a transition that never took effect.  A request whose     *)
(* UPDATE took effect owes its entity one row, two if it approved a        *)
(* registration; rows written and rows owed together are at most what the  *)
(* transitions account for, the difference are requests that died.         *)

\* The requests that owe entity e the row x.
Owed(e, x) ==
  {r \in Requests :
     /\ req[r].ent = e
     /\ Trail(req[r].row) = TransitionOf(x)
     /\ \/ req[r].phase \in {"effect", "effect2"}
        \/ req[r].phase = "audit" /\ x # Approval}

Balanced ==
  \A e \in Entities, x \in AuditRows :
    /\ IsFiniteSet(Owed(e, x))
    /\ Rowcount(x, audit[e]) + Cardinality(Owed(e, x)) <= Rowcount(TransitionOf(x), done[e])

\* Only approve_registration has a second statement.
SecondStatements ==
  \A r \in Requests : req[r].phase = "effect2" => req[r].row.effect = "compliant"

AuditInv == Balanced /\ SecondStatements

\* Counting the rows equal to a: appending one adds one to its own count.
LEMMA RowcountAppend ==
  ASSUME NEW S, NEW s \in Seq(S), NEW x \in S, NEW a
  PROVE  /\ Rowcount(a, s) \in Nat
         /\ Rowcount(a, Append(s, x)) = Rowcount(a, s) + (IF x = a THEN 1 ELSE 0)
<1> DEFINE n == Len(s)
           K == {k \in 1..n : s[k] = a}
           L == {k \in 1..Len(Append(s, x)) : Append(s, x)[k] = a}
<1>1. n \in Nat /\ IsFiniteSet(1..n)
  BY LenProperties, FS_Interval
<1>2. IsFiniteSet(K) /\ Cardinality(K) \in Nat
  BY <1>1, FS_Subset, FS_CardinalityType
<1>3. /\ Len(Append(s, x)) = n + 1
      /\ \A k \in 1..n : Append(s, x)[k] = s[k]
      /\ Append(s, x)[n + 1] = x
  OBVIOUS
<1>4. L = IF x = a THEN K \cup {n + 1} ELSE K
  BY <1>1, <1>3
<1>5. n + 1 \notin K
  BY <1>1
<1>6. Cardinality(K \cup {n + 1}) = Cardinality(K) + 1
  BY <1>2, <1>5, FS_AddElement
<1>7. Rowcount(a, s) = Cardinality(K) /\ Rowcount(a, Append(s, x)) = Cardinality(L)
  BY DEF Rowcount
<1> HIDE DEF K, L
<1>8. QED
  BY <1>2, <1>4, <1>6, <1>7

\* The counts of both tables are numbers, and change by at most one.
LEMMA Rowcounts ==
  ASSUME TypeOK, NEW e \in Entities, NEW a
  PROVE  /\ Rowcount(a, audit[e]) \in Nat
         /\ Rowcount(a, done[e]) \in Nat
         /\ \A x \in AuditRows : \A s : s = Append(audit[e], x) =>
              Rowcount(a, s) = IF x = a THEN Rowcount(a, audit[e]) + 1 ELSE Rowcount(a, audit[e])
         /\ \A x \in Trails : \A s : s = Append(done[e], x) =>
              Rowcount(a, s) = IF x = a THEN Rowcount(a, done[e]) + 1 ELSE Rowcount(a, done[e])
<1>1. audit[e] \in Seq(AuditRows) /\ done[e] \in Seq(Trails)
  BY DEF TypeOK
<1>2. PICK x \in Trails : x \in AuditRows
  <2>1. Row("draft", "submit_dsar", "submitted", "user") \in Rows
    BY Tables DEF Rows, Kinds, DSAR_TRANSITIONS
  <2>2. QED
    BY <2>1, TrailFacts
<1>3. Rowcount(a, audit[e]) \in Nat /\ Rowcount(a, done[e]) \in Nat
  BY <1>1, <1>2, RowcountAppend
<1>4. ASSUME NEW y \in AuditRows
      PROVE  Rowcount(a, Append(audit[e], y))
               = IF y = a THEN Rowcount(a, audit[e]) + 1 ELSE Rowcount(a, audit[e])
  <2>1. Rowcount(a, Append(audit[e], y)) = Rowcount(a, audit[e]) + (IF y = a THEN 1 ELSE 0)
    BY <1>1, RowcountAppend
  <2>2. QED
    BY <1>3, <2>1, SMT
<1>5. ASSUME NEW y \in Trails
      PROVE  Rowcount(a, Append(done[e], y))
               = IF y = a THEN Rowcount(a, done[e]) + 1 ELSE Rowcount(a, done[e])
  <2>1. Rowcount(a, Append(done[e], y)) = Rowcount(a, done[e]) + (IF y = a THEN 1 ELSE 0)
    BY <1>1, RowcountAppend
  <2>2. QED
    BY <1>3, <2>1, SMT
<1>6. QED
  BY <1>3, <1>4, <1>5, Zenon

\* What one request does changes at most its own membership.
LEMMA OwedStep ==
  ASSUME NEW r \in Requests, \A q \in Requests \ {r} : req'[q] = req[q],
         NEW e, NEW x
  PROVE  Owed(e, x)' = IF r \in Owed(e, x)' THEN Owed(e, x) \cup {r}
                       ELSE Owed(e, x) \ {r}
BY DEF Owed

\* The balance of one kind of row: w written and the members of S owed are at
\* most n, and stay so when nothing happens, when a member settles its row, and
\* when a transition brings a new member.
LEMMA Balance ==
  ASSUME NEW S, NEW T, NEW r, NEW w \in Nat, NEW w2 \in Nat, NEW n \in Nat, NEW n2 \in Nat,
         IsFiniteSet(S), w + Cardinality(S) <= n,
         T = S \cup {r} \/ T = S \ {r},
         \/ w2 = w /\ n2 = n /\ (r \in T => r \in S)
         \/ w2 = w + 1 /\ n2 = n /\ r \in S /\ r \notin T
         \/ w2 = w /\ n2 = n + 1
  PROVE  IsFiniteSet(T) /\ w2 + Cardinality(T) <= n2
<1>1. Cardinality(S) \in Nat
  BY FS_CardinalityType
<1>2. CASE T = S
  BY <1>1, <1>2
<1>3. CASE T # S /\ T = S \cup {r}
  <2>1. r \notin S /\ r \in T
    BY <1>3
  <2>2. IsFiniteSet(S \cup {r}) /\ Cardinality(S \cup {r}) = Cardinality(S) + 1
    BY <2>1, FS_AddElement
  <2>3. QED
    BY <1>1, <1>3, <2>1, <2>2
<1>4. CASE T # S /\ T = S \ {r}
  <2>1. r \in S
    BY <1>4
  <2>2. IsFiniteSet(S \ {r}) /\ Cardinality(S \ {r}) = Cardinality(S) - 1
    BY <2>1, FS_RemoveElement
  <2>3. QED
    BY <1>1, <1>4, <2>2
<1>5. QED
  BY <1>2, <1>3, <1>4

\* A step of request r keeps the balance where, of every entity and row, it
\* leaves the counts alone and adds no debt, or settles one, or adds a transition.
LEMMA BalancedStep ==
  ASSUME IInv, IInv', Balanced, NEW r \in Requests,
         \A q \in Requests \ {r} : req'[q] = req[q],
         \A e \in Entities, x \in AuditRows :
           \/ /\ Rowcount(x, audit'[e]) = Rowcount(x, audit[e])
              /\ Rowcount(TransitionOf(x), done'[e]) = Rowcount(TransitionOf(x), done[e])
              /\ r \in Owed(e, x)' => r \in Owed(e, x)
           \/ /\ Rowcount(x, audit'[e]) = Rowcount(x, audit[e]) + 1
              /\ Rowcount(TransitionOf(x), done'[e]) = Rowcount(TransitionOf(x), done[e])
              /\ r \in Owed(e, x) /\ r \notin Owed(e, x)'
           \/ /\ Rowcount(x, audit'[e]) = Rowcount(x, audit[e])
              /\ Rowcount(TransitionOf(x), done'[e]) = Rowcount(TransitionOf(x), done[e]) + 1
  PROVE  Balanced'
<1>1. SUFFICES ASSUME NEW e \in Entities, NEW x \in AuditRows
               PROVE  /\ IsFiniteSet(Owed(e, x)')
                      /\ Rowcount(x, audit'[e]) + Cardinality(Owed(e, x)')
                           <= Rowcount(TransitionOf(x), done'[e])
  BY DEF Balanced, Owed
<1>2. /\ Rowcount(x, audit[e]) \in Nat /\ Rowcount(TransitionOf(x), done[e]) \in Nat
  BY Rowcounts DEF IInv
<1>3. /\ Rowcount(x, audit'[e]) \in Nat /\ Rowcount(TransitionOf(x), done'[e]) \in Nat
  BY <1>2
<1>4. /\ IsFiniteSet(Owed(e, x))
      /\ Rowcount(x, audit[e]) + Cardinality(Owed(e, x)) <= Rowcount(TransitionOf(x), done[e])
  BY DEF Balanced
<1>5. Owed(e, x)' = Owed(e, x) \cup {r} \/ Owed(e, x)' = Owed(e, x) \ {r}
  BY OwedStep
<1>6. PICK w, w2, n, n2, S, T :
        /\ w = Rowcount(x, audit[e]) /\ w2 = Rowcount(x, audit'[e])
        /\ n = Rowcount(TransitionOf(x), done[e]) /\ n2 = Rowcount(TransitionOf(x), done'[e])
        /\ S = Owed(e, x) /\ T = Owed(e, x)'
  OBVIOUS
<1>7. \/ w2 = w /\ n2 = n /\ (r \in T => r \in S)
      \/ w2 = w + 1 /\ n2 = n /\ r \in S /\ r \notin T
      \/ w2 = w /\ n2 = n + 1
  BY <1>6
<1>8. /\ w \in Nat /\ w2 \in Nat /\ n \in Nat /\ n2 \in Nat
      /\ IsFiniteSet(S) /\ w + Cardinality(S) <= n
      /\ T = S \cup {r} \/ T = S \ {r}
  BY <1>2, <1>3, <1>4, <1>5, <1>6
<1>9. IsFiniteSet(T) /\ w2 + Cardinality(T) <= n2
  BY <1>7, <1>8, Balance
<1>10. QED
  BY <1>6, <1>9

\* The one row the audit trail has gained is y, for entity d.
OneMoreRow(d, y, e, x) ==
  /\ Rowcount(TransitionOf(x), done'[e]) = Rowcount(TransitionOf(x), done[e])
  /\ e = d /\ x = y => Rowcount(x, audit'[e]) = Rowcount(x, audit[e]) + 1
  /\ e # d \/ x # y => Rowcount(x, audit'[e]) = Rowcount(x, audit[e])

\* A row y appended to the audit rows of entity d counts for y, and for nothing
\* else.
LEMMA RowAppended ==
  ASSUME IInv, NEW d \in Entities, NEW y \in AuditRows, done' = done,
         audit' = [audit EXCEPT ![d] = Append(audit[d], y)],
         NEW e \in Entities, NEW x \in AuditRows
  PROVE  OneMoreRow(d, y, e, x)
<1>1. audit \in [Entities -> Seq(AuditRows)]
  BY DEF IInv, TypeOK
<1>2. e # d => audit'[e] = audit[e]
  BY <1>1
<1>3. e = d => audit'[e] = Append(audit[e], y)
  BY <1>1
<1>4. \A s : s = Append(audit[e], y) =>
        Rowcount(x, s) = IF y = x THEN Rowcount(x, audit[e]) + 1 ELSE Rowcount(x, audit[e])
  BY Rowcounts DEF IInv
<1>5. QED
  BY <1>2, <1>3, <1>4, Zenon DEF OneMoreRow

\* Steps that write neither a status nor an audit row: the request owes no more
\* than before.
LEMMA AuditQuiet ==
  ASSUME IInv, IInv', AuditInv, NEW r \in Requests,
         \/ Conflict(r) \/ SideEffect(r) \/ SideEffectFails(r) \/ RequestDies(r)
         \/ \E e \in Entities, role \in Roles, met \in BOOLEAN : ReadAndMatch(r, e, role, met)
  PROVE  AuditInv'
<1>1. audit' = audit /\ done' = done /\ kind' = kind
  BY DEF Conflict, SideEffect, SideEffectFails, RequestDies, ReadAndMatch
<1>2. /\ \A q \in Requests \ {r} : req'[q] = req[q]
      /\ \A e, x : r \in Owed(e, x)' => r \in Owed(e, x)
      /\ req'[r].phase = "effect2" => req'[r].row.effect = "compliant"
  <2>1. CASE Conflict(r) \/ RequestDies(r)
    <3>1. req'[r] = Idle /\ \A q \in Requests \ {r} : req'[q] = req[q]
      BY <1>1, <2>1, Ends DEF IInv, Conflict, RequestDies
    <3>2. QED
      BY <3>1 DEF Owed, Idle
  <2>2. CASE SideEffect(r) \/ SideEffectFails(r)
    <3>1. PICK p \in {"effect2", "audit"} :
            /\ req' = [req EXCEPT ![r].phase = p]
            /\ p = "effect2" => req[r].row.effect = "compliant"
      BY <2>2 DEF SideEffect, SideEffectFails
    <3>2. req[r].phase \in {"effect", "effect2"}
      BY <2>2 DEF SideEffect, SideEffectFails
    <3>3. p \in Phases /\ req[r].phase \in Phases
      BY <3>2 DEF Phases
    <3>4. /\ req'[r].phase = p /\ req'[r].ent = req[r].ent /\ req'[r].row = req[r].row
          /\ \A q \in Requests \ {r} : req'[q] = req[q]
      BY <1>1, <3>1, <3>3, Proceeds DEF IInv
    <3>5. QED
      BY <3>1, <3>2, <3>4 DEF Owed
  <2>3. ASSUME NEW e \in Entities, NEW role \in Roles, NEW met \in BOOLEAN,
               ReadAndMatch(r, e, role, met)
        PROVE  req'[r].phase = "update" /\ \A q \in Requests \ {r} : req'[q] = req[q]
    <3>1. PICK t : req' = [req EXCEPT ![r] = [phase |-> "update", ent |-> e, row |-> t]]
      BY <2>3 DEF ReadAndMatch
    <3>2. QED
      BY <3>1 DEF IInv, TypeOK
  <2>4. CASE req'[r].phase = "update" /\ \A q \in Requests \ {r} : req'[q] = req[q]
    BY <2>4 DEF Owed
  <2>5. QED
    BY <2>1, <2>2, <2>3, <2>4
<1>3. Balanced'
  BY <1>1, <1>2, BalancedStep DEF AuditInv
<1>4. SecondStatements'
  BY <1>2 DEF AuditInv, SecondStatements
<1>5. QED
  BY <1>3, <1>4 DEF AuditInv

\* The UPDATE adds a transition, and the rows it owes.
LEMMA AuditUpdate ==
  ASSUME IInv, IInv', AuditInv, NEW r \in Requests, Update(r)
  PROVE  AuditInv'
<1>1. PICK d \in Entities, b \in Trails : d = req[r].ent /\ b = Trail(req[r].row)
  BY UpdateMoves, TrailFacts
<1>2. audit' = audit /\ done' = [done EXCEPT ![d] = Append(done[d], b)]
  BY <1>1 DEF Update
<1>3. /\ req'[r].phase \in {"effect", "audit"} /\ req'[r].ent = d /\ req'[r].row = req[r].row
      /\ \A q \in Requests \ {r} : req'[q] = req[q]
  <2>1. AfterUpdate(req[r].row) \in {"effect", "audit"}
    BY DEF AfterUpdate
  <2>2. /\ AfterUpdate(req[r].row) \in Phases /\ req[r].phase \in Phases
        /\ req' = [req EXCEPT ![r].phase = AfterUpdate(req[r].row)] /\ kind' = kind
    BY <2>1 DEF Phases, Update
  <2>3. QED
    BY <1>1, <2>1, <2>2, Proceeds DEF IInv
<1>4. done \in [Entities -> Seq(Trails)]
  BY DEF IInv, TypeOK
<1>5. ASSUME NEW e \in Entities, NEW x \in AuditRows
      PROVE  \/ /\ Rowcount(TransitionOf(x), done'[e]) = Rowcount(TransitionOf(x), done[e])
                /\ r \in Owed(e, x)' => r \in Owed(e, x)
             \/ Rowcount(TransitionOf(x), done'[e]) = Rowcount(TransitionOf(x), done[e]) + 1
  <2>1. \A s : s = Append(done[e], b) =>
          Rowcount(TransitionOf(x), s) = IF b = TransitionOf(x)
                                         THEN Rowcount(TransitionOf(x), done[e]) + 1
                                         ELSE Rowcount(TransitionOf(x), done[e])
    BY Rowcounts DEF IInv
  <2>2. CASE e = d /\ b = TransitionOf(x)
    <3>1. done'[e] = Append(done[e], b)
      BY <1>2, <1>4, <2>2
    <3>2. QED
      BY <2>1, <2>2, <3>1, Zenon
  <2>3. CASE e # d
    <3>1. r \notin Owed(e, x)' /\ done'[e] = done[e]
      BY <1>2, <1>3, <1>4, <2>3 DEF Owed
    <3>2. QED
      BY <3>1
  <2>4. CASE e = d /\ b # TransitionOf(x)
    <3>1. done'[e] = Append(done[e], b)
      BY <1>2, <1>4, <2>4
    <3>2. r \notin Owed(e, x)'
      BY <1>1, <1>3, <2>4 DEF Owed
    <3>3. QED
      BY <2>1, <2>4, <3>1, <3>2, Zenon
  <2>5. QED
    BY <2>2, <2>3, <2>4
<1>6. Balanced'
  BY <1>2, <1>3, <1>5, BalancedStep DEF AuditInv
<1>7. SecondStatements'
  BY <1>3 DEF AuditInv, SecondStatements
<1>8. QED
  BY <1>6, <1>7 DEF AuditInv

\* An audit row settles what the request owes of it.
LEMMA AuditWritten ==
  ASSUME IInv, IInv', AuditInv, NEW r \in Requests, ApprovalAudit(r) \/ AuditTrail(r)
  PROVE  AuditInv'
<1>1. req[r] \in Running /\ req[r] # Idle /\ done' = done /\ kind' = kind
  BY DEF IInv, TypeOK, Idle, ApprovalAudit, AuditTrail
<1>2. /\ req[r].ent \in Entities /\ Trail(req[r].row) \in Trails
      /\ kind[req[r].ent] \in Kinds /\ req[r].row \in WORKFLOW_MAP[kind[req[r].ent]]
  BY <1>1, TrailFacts DEF Running, IInv, TypeOK, RowsOfKind
<1>3. PICK d \in Entities, y \in AuditRows :
        /\ d = req[r].ent
        /\ audit' = [audit EXCEPT ![d] = Append(audit[d], y)]
        /\ r \in Owed(d, y)
        /\ r \notin Owed(d, y)'
        /\ \A q \in Requests \ {r} : req'[q] = req[q]
        /\ \A e, x : r \in Owed(e, x)' => r \in Owed(e, x)
        /\ req'[r].phase # "effect2"
  <2>1. CASE ApprovalAudit(r)
    <3>1. /\ req[r].phase = "effect2" /\ req' = [req EXCEPT ![r].phase = "audit"]
          /\ audit' = [audit EXCEPT ![req[r].ent] = Append(audit[req[r].ent], Approval)]
      BY <2>1 DEF ApprovalAudit
    <3>2. /\ req'[r].phase = "audit" /\ req'[r].ent = req[r].ent /\ req'[r].row = req[r].row
          /\ \A q \in Requests \ {r} : req'[q] = req[q]
      BY <1>1, <3>1, Proceeds DEF IInv, Phases
    <3>3. Trail(req[r].row) = TransitionOf(Approval)
      BY <1>2, <3>1, TrailFacts DEF AuditInv, SecondStatements
    <3>4. r \in Owed(req[r].ent, Approval)
      BY <3>1, <3>3 DEF Owed
    <3>5. \A e : r \notin Owed(e, Approval)'
      BY <3>2 DEF Owed
    <3>6. \A e, x : r \in Owed(e, x)' => r \in Owed(e, x)
      BY <3>1, <3>2 DEF Owed
    <3>7. QED
      BY <1>2, <3>1, <3>2, <3>4, <3>5, <3>6, TrailFacts
  <2>2. CASE AuditTrail(r)
    <3>1. /\ req[r].phase = "audit" /\ req' = [req EXCEPT ![r] = Idle]
          /\ audit' = [audit EXCEPT ![req[r].ent] = Append(audit[req[r].ent], Trail(req[r].row))]
      BY <2>2 DEF AuditTrail
    <3>2. req'[r] = Idle /\ \A q \in Requests \ {r} : req'[q] = req[q]
      BY <1>1, <3>1, Ends DEF IInv
    <3>3. /\ Trail(req[r].row) \in AuditRows /\ Trail(req[r].row) # Approval
          /\ TransitionOf(Trail(req[r].row)) = Trail(req[r].row)
      BY <1>2, TrailFacts
    <3>4. r \in Owed(req[r].ent, Trail(req[r].row))
      BY <3>1, <3>3 DEF Owed
    <3>5. \A e, x : r \notin Owed(e, x)'
      BY <3>2 DEF Owed, Idle
    <3>6. req'[r].phase # "effect2"
      BY <3>2 DEF Idle
    <3>7. PICK y \in AuditRows : y = Trail(req[r].row)
      BY <3>3
    <3>8. r \in Owed(req[r].ent, y) /\ r \notin Owed(req[r].ent, y)'
      BY <3>4, <3>5, <3>7
    <3>9. QED
      BY <1>2, <3>1, <3>2, <3>5, <3>6, <3>7, <3>8
  <2>3. QED
    BY <2>1, <2>2
<1>4. ASSUME NEW e \in Entities, NEW x \in AuditRows
      PROVE  /\ Rowcount(TransitionOf(x), done'[e]) = Rowcount(TransitionOf(x), done[e])
             /\ e = d /\ x = y => Rowcount(x, audit'[e]) = Rowcount(x, audit[e]) + 1
             /\ e # d \/ x # y => Rowcount(x, audit'[e]) = Rowcount(x, audit[e])
  <2>1. IInv /\ done' = done /\ audit' = [audit EXCEPT ![d] = Append(audit[d], y)]
    BY <1>1, <1>3
  <2>2. OneMoreRow(d, y, e, x)
    BY <2>1, RowAppended
  <2>3. QED
    BY <2>2 DEF OneMoreRow
<1>5. ASSUME NEW e \in Entities, NEW x \in AuditRows
      PROVE  /\ e = d /\ x = y => r \in Owed(e, x) /\ r \notin Owed(e, x)'
             /\ r \in Owed(e, x)' => r \in Owed(e, x)
  BY <1>3
<1>6. Balanced'
  BY <1>3, <1>4, <1>5, BalancedStep DEF AuditInv
<1>7. SecondStatements'
  BY <1>3 DEF AuditInv, SecondStatements
<1>8. QED
  BY <1>6, <1>7 DEF AuditInv

\* Nothing is owed and nothing written at the start.
LEMMA AuditInit == Init => AuditInv
<1> SUFFICES ASSUME Init PROVE AuditInv
  OBVIOUS
<1>1. ASSUME NEW e \in Entities, NEW x \in AuditRows
      PROVE  /\ IsFiniteSet(Owed(e, x))
             /\ Rowcount(x, audit[e]) + Cardinality(Owed(e, x)) <= Rowcount(TransitionOf(x), done[e])
  <2>1. Owed(e, x) = {}
    BY DEF Init, Owed, Idle
  <2>2. audit[e] = <<>> /\ done[e] = <<>>
    BY DEF Init
  <2>3. \A a : Rowcount(a, <<>>) = 0
    BY FS_EmptySet DEF Rowcount
  <2>4. QED
    BY <2>1, <2>2, <2>3, FS_EmptySet
<1>2. QED
  BY <1>1 DEF AuditInv, Balanced, SecondStatements, Init, Idle

\* Every step keeps the balance of rows and transitions.
LEMMA AuditNext == IInv /\ AuditInv /\ [Next]_vars => AuditInv'
<1> SUFFICES ASSUME IInv, AuditInv, [Next]_vars PROVE AuditInv'
  OBVIOUS
<1>1. IInv'
  BY NextIInv
<1>2. ASSUME NEW r \in Requests, NEW e \in Entities, NEW role \in Roles,
             NEW met \in BOOLEAN, ReadAndMatch(r, e, role, met)
      PROVE  AuditInv'
  BY <1>1, <1>2, AuditQuiet
<1>3. ASSUME NEW r \in Requests, Step(r) PROVE AuditInv'
  BY <1>1, <1>3, AuditUpdate, AuditQuiet, AuditWritten DEF Step
<1>4. CASE UNCHANGED vars
  BY <1>4 DEF vars, AuditInv, Balanced, SecondStatements, Owed
<1>5. QED
  BY <1>2, <1>3, <1>4 DEF Next

\* However requests interleave, fail and die, no transition that took effect
\* has more than its row in the audit trail, and an approval one more.
THEOREM LifecycleAuditIsTrue == Spec => []AuditRowsAreTrue
<1>1. IInv /\ AuditInv => AuditRowsAreTrue
  <2> SUFFICES ASSUME IInv, AuditInv, NEW e \in Entities, NEW x \in AuditRows
               PROVE  Rowcount(x, audit[e]) <= Rowcount(TransitionOf(x), done[e])
    BY DEF AuditRowsAreTrue
  <2>1. /\ Cardinality(Owed(e, x)) \in Nat
        /\ Rowcount(x, audit[e]) + Cardinality(Owed(e, x)) <= Rowcount(TransitionOf(x), done[e])
    BY FS_CardinalityType DEF AuditInv, Balanced
  <2>2. Rowcount(x, audit[e]) \in Nat /\ Rowcount(TransitionOf(x), done[e]) \in Nat
    BY Rowcounts DEF IInv
  <2>3. QED
    BY <2>1, <2>2
<1>2. QED
  BY <1>1, AuditInit, AuditNext, LifecycleInductive, PTL DEF Spec

-----------------------------------------------------------------------------
\* The abstract specification uses the same tables.
LEMMA SameTables ==
  /\ Abstract!Kinds = Kinds
  /\ Abstract!WORKFLOW_MAP = WORKFLOW_MAP
<1> USE DEF Kinds, Abstract!Kinds, Row, Abstract!Row, Effect, Abstract!Effect,
      Conditional, Abstract!Conditional
<1>1. Abstract!ORG_COMPLIANCE_TRANSITIONS = ORG_COMPLIANCE_TRANSITIONS
  BY Zenon DEF ORG_COMPLIANCE_TRANSITIONS, Abstract!ORG_COMPLIANCE_TRANSITIONS
<1>2. Abstract!VIOLATION_TRANSITIONS = VIOLATION_TRANSITIONS
  BY Zenon DEF VIOLATION_TRANSITIONS, Abstract!VIOLATION_TRANSITIONS
<1>3. Abstract!BREACH_TRANSITIONS = BREACH_TRANSITIONS
  BY Zenon DEF BREACH_TRANSITIONS, Abstract!BREACH_TRANSITIONS
<1>4. Abstract!DPIA_TRANSITIONS = DPIA_TRANSITIONS
  BY Zenon DEF DPIA_TRANSITIONS, Abstract!DPIA_TRANSITIONS
<1>5. Abstract!DSAR_TRANSITIONS = DSAR_TRANSITIONS
  BY Zenon DEF DSAR_TRANSITIONS, Abstract!DSAR_TRANSITIONS
<1>6. QED
  BY <1>1, <1>2, <1>3, <1>4, <1>5, Zenon DEF WORKFLOW_MAP, Abstract!WORKFLOW_MAP

\* The engine with its concurrent requests implements the tables: every step of
\* it is a step along the entity's table or leaves the statuses alone.
THEOREM LifecycleRefinement == Spec => ImplementsLifecycle
<1>1. Init => Abstract!Init
  BY SameTables DEF Init, Abstract!Init
<1>2. IInv /\ [Next]_vars => [Abstract!Next]_<<kind, status>>
  <2> SUFFICES ASSUME IInv, [Next]_vars
               PROVE  Abstract!Next \/ UNCHANGED <<kind, status>>
    OBVIOUS
  <2>1. ASSUME NEW r \in Requests, Update(r) PROVE Abstract!Next
    BY <2>1, UpdateMoves, SameTables DEF Update, Abstract!Next, Abstract!Move
  <2>2. ASSUME NEW r \in Requests,
               \/ Conflict(r) \/ SideEffect(r) \/ ApprovalAudit(r)
               \/ SideEffectFails(r) \/ AuditTrail(r) \/ RequestDies(r)
        PROVE  UNCHANGED <<kind, status>>
    BY <2>2 DEF Conflict, SideEffect, ApprovalAudit, SideEffectFails, AuditTrail,
       RequestDies
  <2>3. ASSUME NEW r \in Requests, NEW e \in Entities, NEW role \in Roles,
               NEW met \in BOOLEAN, ReadAndMatch(r, e, role, met)
        PROVE  UNCHANGED <<kind, status>>
    BY <2>3 DEF ReadAndMatch
  <2>4. CASE UNCHANGED vars
    BY <2>4 DEF vars
  <2>5. QED
    BY <2>1, <2>2, <2>3, <2>4 DEF Next, Step
<1>3. QED
  BY <1>1, <1>2, LifecycleInductive, PTL DEF Spec, ImplementsLifecycle, Abstract!Spec
=============================================================================
