--------------------------- MODULE Billing_proofs ---------------------------
(***************************************************************************)
(* What the payment recorder of Billing guarantees for every number of     *)
(* invoices, sessions, requests and payments, and Subscription for every   *)
(* number of checkouts, webhook requests and events.                       *)
(***************************************************************************)
EXTENDS Billing, Subscription, SequenceTheorems, TLAPS

\* A completed checkout was opened for an invoice, and a webhook request in
\* flight handles a completed session of its own invoice.
SessionsInv ==
  /\ \A s \in sessionPaid : sessionFor[s] # NoSession
  /\ \A r \in Requests : req[r].op = "hook" =>
       req[r].ses \in sessionPaid /\ sessionFor[req[r].ses] = req[r].inv

\* A request about to record a payment for an invoice that had one read it
\* after it had been reopened.
PendingInv ==
  \A r \in Requests :
    req[r].op \in {"pay", "hook"} /\ req[r].again => req[r].reopened

IInv ==
  /\ TypeOK
  /\ SessionsInv
  /\ PendingInv
  /\ RecordedMeansPaid
  /\ SerialPaymentsRefused
  /\ SessionRecordedOnce
  /\ StripePaymentsAreBacked

\* Nothing is billed, paid or in flight at the start.
LEMMA InitIInv == Init => IInv
  BY BillingAssumption DEF Init, IInv, TypeOK, SessionsInv, PendingInv, RecordedMeansPaid,
    SerialPaymentsRefused, SessionRecordedOnce, StripePaymentsAreBacked, Paid,
    Status, Payment, Pending, Idle

\* The first read of a request puts a well-formed record into its slot.
LEMMA ReadType ==
  ASSUME TypeOK, NEW r \in Requests, NEW i \in Invoices,
         NEW op \in {"pay", "hook", "checkout", "email"},
         NEW s \in Sessions \cup {NoSession}, ReadInvoice(r, op, i, s)
  PROVE  req' \in [Requests -> Pending \cup {Idle}]
<1>1. [op |-> op, inv |-> i, ses |-> s, draft |-> status[i] = "draft",
       again |-> Paid(i), reopened |-> reopened[i]] \in Pending
  <2>1. (status[i] = "draft") \in BOOLEAN /\ Paid(i) \in BOOLEAN
    BY DEF Paid
  <2>2. reopened[i] \in BOOLEAN
    BY DEF TypeOK
  <2>3. QED
    BY <2>1, <2>2 DEF Pending
<1>2. QED
  BY <1>1 DEF TypeOK, ReadInvoice

\* A commit appends one well-formed payment row.
LEMMA CommitType ==
  ASSUME TypeOK, NEW r \in Requests, NEW ref \in Sessions \cup {NoSession},
         req[r] # Idle, CommitPayment(r, ref)
  PROVE  /\ req[r] \in Pending
         /\ payments' \in Seq(Payment)
         /\ Len(payments') = Len(payments) + 1
         /\ Len(payments') <= MaxPayments
         /\ payments'[Len(payments')] =
              [inv |-> req[r].inv, ref |-> ref, again |-> req[r].again,
               reopened |-> req[r].reopened]
         /\ \A k \in 1..Len(payments) : payments'[k] = payments[k]
<1> DEFINE payment == [inv |-> req[r].inv, ref |-> ref, again |-> req[r].again,
                       reopened |-> req[r].reopened]
<1>1. req[r] \in Pending
  BY DEF TypeOK
<1>2. payment \in Payment
  BY <1>1 DEF Pending, Payment
<1>3. payments \in Seq(Payment) /\ payments' = Append(payments, payment)
  BY DEF TypeOK, CommitPayment
<1>4. Len(payments) < MaxPayments /\ MaxPayments \in Nat /\ Len(payments) \in Nat
  BY <1>3, BillingAssumption, LenProperties DEF CommitPayment
<1> HIDE DEF payment
<1>5. /\ payments' \in Seq(Payment)
      /\ Len(payments') = Len(payments) + 1
      /\ \A k \in 1..Len(payments) : payments'[k] = payments[k]
      /\ payments'[Len(payments) + 1] = payment
  BY <1>2, <1>3, AppendProperties
<1>6. QED
  BY <1>1, <1>4, <1>5 DEF payment

\* No step leaves the types.
LEMMA NextTypeOK == TypeOK /\ SessionsInv /\ [Next]_vars => TypeOK'
<1> SUFFICES ASSUME TypeOK, SessionsInv, [Next]_vars PROVE TypeOK'
  OBVIOUS
<1> USE BillingAssumption DEF TypeOK
<1>1. ASSUME NEW i \in Invoices, CreateInvoice(i) PROVE TypeOK'
  BY <1>1 DEF CreateInvoice, Status
<1>2. ASSUME NEW i \in Invoices, DueDatePasses(i) PROVE TypeOK'
  BY <1>2 DEF DueDatePasses
<1>3. ASSUME NEW i \in Invoices, NEW s \in Status, UpdateInvoiceStatus(i, s)
      PROVE TypeOK'
  BY <1>3 DEF UpdateInvoiceStatus, SetStatus
<1>4. ASSUME NEW r \in Requests, NEW i \in Invoices,
             RecordPaymentRead(r, i) \/ CheckoutRead(r, i) \/ EmailRead(r, i)
      PROVE TypeOK'
  <2>1. req' \in [Requests -> Pending \cup {Idle}]
    BY <1>4, ReadType DEF RecordPaymentRead, CheckoutRead, EmailRead
  <2>2. QED
    BY <1>4, <2>1 DEF RecordPaymentRead, CheckoutRead, EmailRead
<1>5. ASSUME NEW r \in Requests, NEW s \in Sessions, CheckoutStore(r, s)
      PROVE TypeOK'
  <2>1. req[r] \in Pending
    BY <1>5 DEF CheckoutStore, Idle
  <2>2. req[r].inv \in Invoices
    BY <2>1 DEF Pending
  <2>3. QED
    BY <1>5, <2>2 DEF CheckoutStore, Finish
<1>6. ASSUME NEW r \in Requests, NEW s \in Sessions, WebhookRead(r, s)
      PROVE TypeOK'
  <2>1. sessionFor[s] \in Invoices
    BY <1>6 DEF WebhookRead, SessionsInv
  <2>2. req' \in [Requests -> Pending \cup {Idle}]
    BY <1>6, <2>1, ReadType DEF WebhookRead
  <2>3. QED
    BY <1>6, <2>2 DEF WebhookRead
<1>7. ASSUME NEW r \in Requests, RecordPaymentCommit(r) \/ WebhookCommit(r)
      PROVE TypeOK'
  <2>1. req[r] \in Pending
    BY <1>7 DEF RecordPaymentCommit, WebhookCommit, Idle
  <2>2. /\ req[r].ses \in Sessions \cup {NoSession}
        /\ req[r].inv \in Invoices
        /\ req[r] # Idle
    BY <1>7, <2>1 DEF Pending, Idle, RecordPaymentCommit, WebhookCommit
  <2>3. PICK ref \in Sessions \cup {NoSession} : CommitPayment(r, ref)
    BY <1>7, <2>2 DEF RecordPaymentCommit, WebhookCommit
  <2>4. /\ payments' \in Seq(Payment)
        /\ Len(payments') = Len(payments) + 1
        /\ Len(payments') <= MaxPayments
    BY <2>2, <2>3, CommitType
  <2>5. paidOut' \subseteq 1..Len(payments')
    <3>1. Len(payments) \in Nat
      BY LenProperties
    <3>2. paidOut' = paidOut
      BY <1>7 DEF RecordPaymentCommit, WebhookCommit
    <3>3. QED
      BY <2>4, <3>1, <3>2
  <2>6. /\ status' \in [Invoices -> Status \cup {"none"}]
        /\ reopened' \in [Invoices -> BOOLEAN]
        /\ req' \in [Requests -> Pending \cup {Idle}]
    BY <2>2, <2>3 DEF CommitPayment, Finish, Status
  <2>7. QED
    BY <1>7, <2>4, <2>5, <2>6 DEF RecordPaymentCommit, WebhookCommit
<1>8. ASSUME NEW r \in Requests, EmailSend(r) PROVE TypeOK'
  <2>1. req[r] \in Pending
    BY <1>8 DEF EmailSend, Idle
  <2>2. req[r].inv \in Invoices
    BY <2>1 DEF Pending
  <2>3. QED
    BY <1>8, <2>2 DEF EmailSend, Finish, SetStatus, Status
<1>9. ASSUME NEW r \in Requests, RequestFails(r) PROVE TypeOK'
  BY <1>9 DEF RequestFails, Finish
<1>10. ASSUME NEW s \in Sessions, SessionCompletes(s) PROVE TypeOK'
  BY <1>10 DEF SessionCompletes
<1>11. ASSUME NEW ids \in SUBSET PaymentIds, MarkDpcoPaidOut(ids) PROVE TypeOK'
  BY <1>11 DEF MarkDpcoPaidOut
<1>12. CASE OverdueCheck
  BY <1>12 DEF OverdueCheck, Late, Status
<1>13. CASE UNCHANGED vars
  BY <1>13 DEF vars
<1>14. QED
  BY <1>1, <1>2, <1>3, <1>4, <1>5, <1>6, <1>7, <1>8, <1>9, <1>10, <1>11, <1>12,
     <1>13 DEF Next

\* What a step does to the requests, for the invariants about them: a slot
\* keeps its request, is freed, or takes a new one that has just read its row.
LEMMA RequestSteps ==
  ASSUME TypeOK, SessionsInv, [Next]_vars, NEW q \in Requests
  PROVE  \/ req'[q] = req[q]
         \/ req'[q] = Idle
         \/ \E i \in Invoices, op \in {"checkout", "email"} :
              ReadInvoice(q, op, i, NoSession)
         \/ \E i \in Invoices : RecordPaymentRead(q, i)
         \/ \E s \in Sessions : WebhookRead(q, s)
<1>1. req \in [Requests -> Pending \cup {Idle}]
  BY DEF TypeOK
<1>2. ASSUME NEW r \in Requests, NEW i \in Invoices,
             RecordPaymentRead(r, i) \/ CheckoutRead(r, i) \/ EmailRead(r, i)
      PROVE  \/ req'[q] = req[q]
             \/ \E j \in Invoices, op \in {"checkout", "email"} :
                  ReadInvoice(q, op, j, NoSession)
             \/ \E j \in Invoices : RecordPaymentRead(q, j)
  <2>1. CASE q = r
    BY <1>2, <2>1 DEF CheckoutRead, EmailRead
  <2>2. CASE q # r
    BY <1>1, <1>2, <2>2 DEF RecordPaymentRead, CheckoutRead, EmailRead, ReadInvoice
  <2>3. QED
    BY <2>1, <2>2
<1>3. ASSUME NEW r \in Requests, NEW s \in Sessions, WebhookRead(r, s)
      PROVE  req'[q] = req[q] \/ WebhookRead(q, s)
  <2>1. CASE q = r
    BY <1>3, <2>1
  <2>2. CASE q # r
    BY <1>1, <1>3, <2>2 DEF WebhookRead, ReadInvoice
  <2>3. QED
    BY <2>1, <2>2
<1>4. ASSUME NEW r \in Requests, Finish(r) PROVE req'[q] \in {req[q], Idle}
  BY <1>1, <1>4 DEF Finish
<1>5. CASE \E r \in Requests :
             \/ \E s \in Sessions : CheckoutStore(r, s)
             \/ RecordPaymentCommit(r)
             \/ WebhookCommit(r)
             \/ EmailSend(r)
             \/ RequestFails(r)
  <2>1. PICK r \in Requests : Finish(r)
    BY <1>5 DEF CheckoutStore, RecordPaymentCommit, WebhookCommit, CommitPayment,
       EmailSend, RequestFails
  <2>2. QED
    BY <1>4, <2>1
<1>6. CASE UNCHANGED req
  BY <1>6
<1>7. ASSUME \/ \E i \in Invoices : CreateInvoice(i) \/ DueDatePasses(i)
             \/ \E i \in Invoices, s \in Status : UpdateInvoiceStatus(i, s)
             \/ \E s \in Sessions : SessionCompletes(s)
             \/ \E ids \in SUBSET PaymentIds : MarkDpcoPaidOut(ids)
             \/ OverdueCheck
             \/ UNCHANGED vars
      PROVE  UNCHANGED req
  BY <1>7 DEF CreateInvoice, DueDatePasses, UpdateInvoiceStatus, SessionCompletes,
     MarkDpcoPaidOut, OverdueCheck, vars
<1>8. QED
  BY <1>2, <1>3, <1>5, <1>6, <1>7 DEF Next

\* What a step does to the payments: nothing, or one commit.
LEMMA PaymentSteps ==
  ASSUME TypeOK, [Next]_vars
  PROVE  \/ UNCHANGED payments
         \/ \E r \in Requests : RecordPaymentCommit(r)
         \/ \E r \in Requests : WebhookCommit(r)
<1>1. SUFFICES ASSUME Next PROVE
         \/ UNCHANGED payments
         \/ \E r \in Requests : RecordPaymentCommit(r)
         \/ \E r \in Requests : WebhookCommit(r)
  BY DEF vars
<1>2. QED
  BY <1>1 DEF Next, CreateInvoice, DueDatePasses, UpdateInvoiceStatus,
     RecordPaymentRead, CheckoutRead, EmailRead, CheckoutStore, WebhookRead,
     EmailSend, RequestFails, SessionCompletes, MarkDpcoPaidOut, OverdueCheck

\* Stripe never forgets a completed session, nor what it was opened for.
LEMMA SessionsStay ==
  ASSUME TypeOK, [Next]_vars
  PROVE  /\ sessionPaid \subseteq sessionPaid'
         /\ \A s \in Sessions : sessionFor[s] # NoSession => sessionFor'[s] = sessionFor[s]
         /\ \A s \in sessionPaid' : s \in sessionPaid \/ sessionFor[s] # NoSession
<1>1. CASE \E r \in Requests, s \in Sessions : CheckoutStore(r, s)
  BY <1>1 DEF CheckoutStore, TypeOK
<1>2. CASE \E s \in Sessions : SessionCompletes(s)
  BY <1>2 DEF SessionCompletes
<1>3. CASE UNCHANGED <<sessionPaid, sessionFor>>
  BY <1>3
<1>4. QED
  <2>1. CASE Next
    BY <2>1, <1>1, <1>2, <1>3 DEF Next, CreateInvoice, DueDatePasses, UpdateInvoiceStatus,
     RecordPaymentRead, CheckoutRead, EmailRead, RecordPaymentCommit, WebhookCommit,
     WebhookRead, EmailSend, RequestFails, MarkDpcoPaidOut, OverdueCheck
  <2>2. CASE UNCHANGED vars
    BY <2>2, <1>3 DEF vars
  <2>3. QED
    BY <2>1, <2>2

\* Webhook requests keep matching the session they handle.
LEMMA NextSessionsInv == TypeOK /\ SessionsInv /\ [Next]_vars => SessionsInv'
<1> SUFFICES ASSUME TypeOK, SessionsInv, [Next]_vars PROVE SessionsInv'
  OBVIOUS
<1>1. ASSUME NEW s \in sessionPaid' PROVE sessionFor'[s] # NoSession
  <2>1. s \in Sessions /\ sessionFor[s] # NoSession
    BY SessionsStay, NextTypeOK DEF SessionsInv, TypeOK
  <2>2. QED
    BY <2>1, SessionsStay
<1>2. ASSUME NEW q \in Requests, req'[q].op = "hook"
      PROVE  req'[q].ses \in sessionPaid' /\ sessionFor'[req'[q].ses] = req'[q].inv
  <2> DEFINE Matches(x) == x.ses \in sessionPaid /\ sessionFor[x.ses] = x.inv
  <2>1. Matches(req'[q])
    <3>1. CASE req'[q] = req[q]
      BY <1>2, <3>1 DEF SessionsInv
    <3>2. CASE req'[q] = Idle
      BY <1>2, <3>2 DEF Idle
    <3>3. ASSUME NEW i \in Invoices, NEW op \in {"checkout", "email"},
                 ReadInvoice(q, op, i, NoSession)
          PROVE  FALSE
      BY <1>2, <3>3 DEF ReadInvoice, TypeOK
    <3>4. ASSUME NEW i \in Invoices, RecordPaymentRead(q, i) PROVE FALSE
      BY <1>2, <3>4 DEF RecordPaymentRead, ReadInvoice, TypeOK
    <3>5. ASSUME NEW s \in Sessions, WebhookRead(q, s) PROVE Matches(req'[q])
      BY <3>5 DEF WebhookRead, ReadInvoice, TypeOK
    <3>6. QED
      BY <3>1, <3>2, <3>3, <3>4, <3>5, RequestSteps
  <2>2. req'[q].ses \in Sessions /\ sessionFor[req'[q].ses] # NoSession
    BY <2>1 DEF SessionsInv, TypeOK
  <2>3. QED
    BY <2>1, <2>2, SessionsStay
<1>3. QED
  BY <1>1, <1>2 DEF SessionsInv

\* The status check of the first read keeps PendingInv.
LEMMA NextPendingInv ==
  TypeOK /\ SessionsInv /\ PendingInv /\ RecordedMeansPaid /\ [Next]_vars => PendingInv'
<1> SUFFICES ASSUME TypeOK, SessionsInv, PendingInv, RecordedMeansPaid, [Next]_vars,
                    NEW q \in Requests, req'[q].op \in {"pay", "hook"}, req'[q].again
             PROVE  req'[q].reopened
  BY DEF PendingInv
<1>1. ASSUME NEW i \in Invoices, NEW op \in {"pay", "hook"},
             NEW s \in Sessions \cup {NoSession},
             status[i] # "paid", ReadInvoice(q, op, i, s)
      PROVE  req'[q].reopened
  <2>1. Paid(i)
    BY <1>1 DEF ReadInvoice, TypeOK
  <2>2. reopened[i]
    BY <1>1, <2>1 DEF RecordedMeansPaid
  <2>3. QED
    BY <1>1, <2>2 DEF ReadInvoice, TypeOK
<1>2. CASE req'[q] = req[q]
  BY <1>2 DEF PendingInv
<1>3. CASE req'[q] = Idle
  BY <1>3 DEF Idle
<1>4. ASSUME NEW i \in Invoices, NEW op \in {"checkout", "email"},
             ReadInvoice(q, op, i, NoSession)
      PROVE  FALSE
  BY <1>4 DEF ReadInvoice, TypeOK
<1>5. ASSUME NEW i \in Invoices, RecordPaymentRead(q, i) PROVE req'[q].reopened
  BY <1>1, <1>5 DEF RecordPaymentRead
<1>6. ASSUME NEW s \in Sessions, WebhookRead(q, s) PROVE req'[q].reopened
  <2>1. sessionFor[s] \in Invoices
    BY <1>6 DEF WebhookRead, SessionsInv, TypeOK
  <2>2. QED
    BY <1>1, <1>6, <2>1 DEF WebhookRead
<1>7. QED
  BY <1>2, <1>3, <1>4, <1>5, <1>6, RequestSteps

\* A commit of either handler: its row, what it leaves alone, its reference.
CommitEffect(r, ref) ==
  /\ CommitPayment(r, ref)
  /\ req[r].op \in {"pay", "hook"}
  /\ req[r] \in Pending
  /\ Len(payments') = Len(payments) + 1
  /\ payments'[Len(payments')] =
       [inv |-> req[r].inv, ref |-> ref, again |-> req[r].again,
        reopened |-> req[r].reopened]
  /\ \A k \in 1..Len(payments) : payments'[k] = payments[k]
  /\ ref # NoSession =>
       /\ \A k \in 1..Len(payments) : payments[k].ref # ref
       /\ ref \in sessionPaid
       /\ sessionFor[ref] = req[r].inv

\* Both commits have that effect.
LEMMA CommitStep ==
  ASSUME TypeOK, SessionsInv, NEW r \in Requests,
         RecordPaymentCommit(r) \/ WebhookCommit(r)
  PROVE  \E ref \in Sessions \cup {NoSession} : CommitEffect(r, ref)
<1> USE DEF CommitEffect
<1>1. req[r] # Idle /\ req[r] \in Pending
  BY DEF TypeOK, RecordPaymentCommit, WebhookCommit, Idle
<1>2. CASE RecordPaymentCommit(r)
  <2>1. CommitPayment(r, NoSession) /\ req[r].op = "pay"
    BY <1>2 DEF RecordPaymentCommit
  <2>2. QED
    BY <1>1, <2>1, CommitType
<1>3. CASE WebhookCommit(r)
  <2>1. /\ CommitPayment(r, req[r].ses)
        /\ req[r].op = "hook"
        /\ \A k \in 1..Len(payments) : payments[k].ref # req[r].ses
    BY <1>3 DEF WebhookCommit
  <2>2. /\ req[r].ses \in Sessions \cup {NoSession}
        /\ req[r].ses \in sessionPaid
        /\ sessionFor[req[r].ses] = req[r].inv
    BY <1>1, <2>1 DEF Pending, SessionsInv
  <2>3. QED
    BY <1>1, <2>1, <2>2, CommitType
<1>4. QED
  BY <1>2, <1>3

\* Every write that takes an invoice out of 'paid' leaves its mark.
LEMMA NextRecordedMeansPaid ==
  TypeOK /\ SessionsInv /\ RecordedMeansPaid /\ [Next]_vars => RecordedMeansPaid'
<1> SUFFICES ASSUME TypeOK, SessionsInv, RecordedMeansPaid, [Next]_vars
             PROVE  RecordedMeansPaid'
  OBVIOUS
<1>1. ASSUME NEW j \in Invoices, NEW s \in Status \cup {"none"}, SetStatus(j, s),
             UNCHANGED payments
      PROVE  RecordedMeansPaid'
  BY <1>1 DEF SetStatus, RecordedMeansPaid, Paid, TypeOK
<1>2. ASSUME UNCHANGED <<status, reopened, payments>> PROVE RecordedMeansPaid'
  BY <1>2 DEF RecordedMeansPaid, Paid
<1>3. ASSUME NEW j \in Invoices, CreateInvoice(j) PROVE RecordedMeansPaid'
  BY <1>3 DEF CreateInvoice, RecordedMeansPaid, Paid, TypeOK
<1>4. ASSUME NEW r \in Requests, EmailSend(r) PROVE RecordedMeansPaid'
  <2>1. req[r].inv \in Invoices
    BY <1>4 DEF EmailSend, Idle, Pending, TypeOK
  <2>2. CASE req[r].draft
    BY <1>1, <1>4, <2>1, <2>2 DEF EmailSend, Status
  <2>3. CASE ~req[r].draft
    BY <1>2, <1>4, <2>3 DEF EmailSend
  <2>4. QED
    BY <2>2, <2>3
<1>5. ASSUME NEW r \in Requests, RecordPaymentCommit(r) \/ WebhookCommit(r)
      PROVE  RecordedMeansPaid'
  <2>0. PICK ref \in Sessions \cup {NoSession} : CommitEffect(r, ref)
    BY <1>5, CommitStep
  <2>1. /\ CommitPayment(r, ref)
        /\ req[r] \in Pending
        /\ Len(payments') = Len(payments) + 1
        /\ payments'[Len(payments')].inv = req[r].inv
        /\ \A k \in 1..Len(payments) : payments'[k] = payments[k]
    BY <2>0 DEF CommitEffect
  <2>2. req[r].inv \in Invoices /\ Len(payments) \in Nat
    BY <2>1, LenProperties DEF Pending
  <2>3. SUFFICES ASSUME NEW i \in Invoices, Paid(i)', ~reopened'[i]
                 PROVE  status'[i] = "paid"
    BY DEF RecordedMeansPaid
  <2>4. CASE i = req[r].inv
    BY <2>1, <2>4 DEF CommitPayment, TypeOK
  <2>5. CASE i # req[r].inv
    <3>1. Paid(i)
      BY <2>1, <2>2, <2>3, <2>5 DEF Paid
    <3>2. status'[i] = status[i] /\ reopened'[i] = reopened[i]
      BY <2>1, <2>2, <2>5 DEF CommitPayment, TypeOK
    <3>3. QED
      BY <2>3, <3>1, <3>2 DEF RecordedMeansPaid
  <2>6. QED
    BY <2>4, <2>5
<1>6. CASE OverdueCheck
  BY <1>6 DEF OverdueCheck, Late, RecordedMeansPaid, Paid, TypeOK
<1>7. CASE \/ \E i \in Invoices : DueDatePasses(i)
           \/ \E r \in Requests, i \in Invoices :
                RecordPaymentRead(r, i) \/ CheckoutRead(r, i) \/ EmailRead(r, i)
           \/ \E r \in Requests, s \in Sessions : CheckoutStore(r, s) \/ WebhookRead(r, s)
           \/ \E r \in Requests : RequestFails(r)
           \/ \E s \in Sessions : SessionCompletes(s)
           \/ \E ids \in SUBSET PaymentIds : MarkDpcoPaidOut(ids)
           \/ UNCHANGED vars
  BY <1>2, <1>7 DEF DueDatePasses, RecordPaymentRead, CheckoutRead, EmailRead,
     CheckoutStore, WebhookRead, RequestFails, SessionCompletes, MarkDpcoPaidOut, vars
<1>8. ASSUME NEW i \in Invoices, NEW s \in Status, UpdateInvoiceStatus(i, s)
      PROVE  RecordedMeansPaid'
  BY <1>1, <1>8 DEF UpdateInvoiceStatus
<1>9. QED
  BY <1>3, <1>4, <1>5, <1>6, <1>7, <1>8 DEF Next

\* The three invariants about the payment rows, all of which only a commit can
\* disturb.
LEMMA NextRows ==
  IInv /\ [Next]_vars =>
    SerialPaymentsRefused' /\ SessionRecordedOnce' /\ StripePaymentsAreBacked'
<1> SUFFICES ASSUME IInv, [Next]_vars
             PROVE  SerialPaymentsRefused' /\ SessionRecordedOnce' /\ StripePaymentsAreBacked'
  OBVIOUS
<1> USE DEF IInv
<1>0. /\ Len(payments) \in Nat
      /\ payments \in Seq(Payment)
  BY LenProperties DEF TypeOK
<1>1. \A k \in 1..Len(payments) :
        LET s == payments[k].ref IN
        s # NoSession => s \in sessionPaid' /\ sessionFor'[s] = payments[k].inv
  <2> SUFFICES ASSUME NEW k \in 1..Len(payments), payments[k].ref # NoSession
               PROVE  /\ payments[k].ref \in sessionPaid'
                      /\ sessionFor'[payments[k].ref] = payments[k].inv
    OBVIOUS
  <2>1. /\ payments[k].ref \in sessionPaid
        /\ sessionFor[payments[k].ref] = payments[k].inv
    BY DEF StripePaymentsAreBacked
  <2>2. payments[k].ref \in Sessions /\ sessionFor[payments[k].ref] # NoSession
    BY <2>1 DEF SessionsInv, TypeOK
  <2>3. QED
    BY <2>1, <2>2, SessionsStay
<1>2. CASE UNCHANGED payments
  BY <1>1, <1>2 DEF SerialPaymentsRefused, SessionRecordedOnce, StripePaymentsAreBacked
<1>3. ASSUME NEW r \in Requests, RecordPaymentCommit(r) \/ WebhookCommit(r)
      PROVE  SerialPaymentsRefused' /\ SessionRecordedOnce' /\ StripePaymentsAreBacked'
  <2> DEFINE n == Len(payments) + 1
  <2>0. PICK ref \in Sessions \cup {NoSession} : CommitEffect(r, ref)
    BY <1>3, CommitStep
  <2>1. /\ req[r].op \in {"pay", "hook"}
        /\ Len(payments') = n
        /\ payments'[n] =
             [inv |-> req[r].inv, ref |-> ref, again |-> req[r].again,
              reopened |-> req[r].reopened]
        /\ \A k \in 1..Len(payments) : payments'[k] = payments[k]
        /\ ref # NoSession =>
             /\ \A k \in 1..Len(payments) : payments[k].ref # ref
             /\ ref \in sessionPaid
             /\ sessionFor[ref] = req[r].inv
    BY <2>0 DEF CommitEffect
  <2>2. 1..Len(payments') = 1..Len(payments) \cup {n}
    BY <1>0, <2>1
  <2>3. SerialPaymentsRefused'
    BY <2>1, <2>2 DEF PendingInv, SerialPaymentsRefused
  <2>4. SessionRecordedOnce'
    <3>1. ASSUME NEW k \in 1..Len(payments), payments'[k].ref # NoSession
          PROVE  payments'[k].ref # payments'[n].ref
      BY <2>1, <3>1
    <3>2. QED
      BY <2>1, <2>2, <3>1 DEF SessionRecordedOnce
  <2>5. StripePaymentsAreBacked'
    <3>1. ref # NoSession => ref \in sessionPaid' /\ sessionFor'[ref] = req[r].inv
      BY <2>1, SessionsStay DEF SessionsInv, TypeOK
    <3>2. QED
      BY <1>1, <2>1, <2>2, <3>1 DEF StripePaymentsAreBacked
  <2>6. QED
    BY <2>3, <2>4, <2>5
<1>4. QED
  BY <1>2, <1>3, PaymentSteps

LEMMA NextIInv == IInv /\ [Next]_vars => IInv'
  BY NextTypeOK, NextSessionsInv, NextPendingInv, NextRecordedMeansPaid, NextRows DEF IInv

LEMMA BillingInductive == Spec => []IInv
  BY InitIInv, NextIInv, PTL DEF Spec

\* Every row and every request in flight holds a well-formed value.
THEOREM BillingTypeCorrect == Spec => []TypeOK
  BY BillingInductive, PTL DEF IInv

\* However many requests run, only an explicit status change takes an invoice
\* with a recorded payment out of 'paid'.
THEOREM BillingRecordedMeansPaid == Spec => []RecordedMeansPaid
  BY BillingInductive, PTL DEF IInv

\* A second payment needs a request that overlapped the first, or a reopened
\* invoice.
THEOREM BillingSerialPaymentsRefused == Spec => []SerialPaymentsRefused
  BY BillingInductive, PTL DEF IInv

\* Overlapping deliveries of one Stripe session record at most one payment.
THEOREM BillingSessionRecordedOnce == Spec => []SessionRecordedOnce
  BY BillingInductive, PTL DEF IInv

\* Every Stripe payment on the books has a completed checkout of its invoice.
THEOREM BillingStripePaymentsAreBacked == Spec => []StripePaymentsAreBacked
  BY BillingInductive, PTL DEF IInv

-----------------------------------------------------------------------------
(* Subscription.  TiersAgree says nothing of the time between the two      *)
(* statements of an upgrade and RowMirrorsStripe nothing of a request in   *)
(* progress; neither is inductive.  TierInv and MirrorInv follow an        *)
(* upgrade through its statements, and rest on what the log of events of   *)
(* a single paid checkout looks like (ShapeInv) and on there being no      *)
(* other request as long as the order is kept (SerialInv).                 *)

\* A webhook request is taken up by an event of the log; only an upgrade has
\* a second statement, and an UPDATE found its row.
DeliveryInv ==
  \A h \in Handlers : handler[h] # None =>
    /\ handler[h].i \in 1..Len(log)
    /\ log[handler[h].i].type \in {"completed", "payment_failed", "paid"}
    /\ Upgrading(h) \/ (handler[h].pc = "write" /\ row # None)
    /\ handler[h].pc = "org" => row # None

RequestInv == request # None /\ request.found => row # None

\* Events come from paid checkouts.
LogInv ==
  /\ \A i \in 1..Len(log) : sess[log[i].s].phase = "paid"
  /\ \A s \in Checkouts : sess[s].phase # "paid" => stripe[s] = "none"

Applied(h) == Upgrading(h) /\ handler[h].pc = "org"

\* Between its two statements an upgrade leaves the row ahead of org.
TierInv ==
  ~disturbed =>
    /\ \A g, h \in Handlers : Upgrading(g) /\ Upgrading(h) => g = h
    /\ ~direct /\ row # None =>
         /\ \A h \in Handlers : Applied(h) => row.tier = sess[log[handler[h].i].s].tier
         /\ (\A h \in Handlers : ~Applied(h)) => row.tier = org

OvertakenInv ==
  \A s \in Checkouts : sess[s].phase # "none" /\ s \notin overtaken => org <= sess[s].tier

\* The status a handled event leaves in the row.
StatusAfter(e) ==
  IF e.type \in {"completed", "paid"} THEN "active"
  ELSE IF e.type = "payment_failed" THEN "past_due"
  ELSE NewStatus(e)

Shown(st) ==
  NewStatus([type |-> IF st = "canceled" THEN "deleted" ELSE "updated", status |-> st])

OnlyPaid(s) == \A x \in Checkouts : sess[x].phase = "paid" <=> x = s

\* One paid checkout: its events begin with the payment and end with the
\* status Stripe has now.
ShapeInv ==
  \A s \in Checkouts : OnlyPaid(s) =>
    /\ Len(log) > 0
    /\ stripe[s] # "none"
    /\ StatusAfter(log[Len(log)]) = Shown(stripe[s])
    /\ \A i \in 1..Len(log) : log[i].type = "completed" <=> i = 1

\* As long as the order is kept, only the last event taken up is in progress.
SerialInv ==
  inOrder > 0 =>
    /\ inOrder <= Len(log) + 1
    /\ \A h \in Handlers : handler[h] # None => handler[h].i = inOrder - 1
    /\ \A g, h \in Handlers : handler[g] # None /\ handler[h] # None => g = h

Shows(s) ==
  row # None /\ row.customer = s /\ row.status = StatusAfter(log[inOrder - 1])

MirrorInv ==
  \A s \in Checkouts : OnlyPaid(s) /\ inOrder > 1 =>
    /\ NothingInProgress => Shows(s)
    /\ \A h \in Handlers : Applied(h) => Shows(s)
    /\ \A h \in Handlers : handler[h] # None /\ ~Upgrading(h) =>
         row # None /\ row.customer = s

SubIInv ==
  /\ SubTypeOK
  /\ DeliveryInv
  /\ RequestInv
  /\ LogInv
  /\ TierInv
  /\ OvertakenInv
  /\ ShapeInv
  /\ SerialInv
  /\ MirrorInv

\* Without a row, a request or an event every part holds.
LEMMA SubInitIInv == SubInit => SubIInv
<1> SUFFICES ASSUME SubInit PROVE SubIInv OBVIOUS
<1> USE SubscriptionAssumption DEF SubInit
<1>1. SubTypeOK
  <2>1. sess \in [Checkouts -> [phase : {"none", "checked", "open", "paid"}, tier : Tiers, base : Tiers]]
    BY DEF Tiers
  <2>2. log \in Seq(Events) /\ Len(log) = 0 OBVIOUS
  <2>3. Len(log) <= MaxEvents + 1 /\ inOrder \in 0..MaxEvents + 2 BY <2>2
  <2>4. org \in Tiers BY DEF Tiers
  <2>5. handler \in [Handlers -> Deliveries \cup {None}] OBVIOUS
  <2>6. stripe \in [Checkouts -> {"none", "active", "past_due", "unpaid", "canceled"}]
    OBVIOUS
  <2> QED BY <2>1, <2>2, <2>3, <2>4, <2>5, <2>6 DEF SubTypeOK
<1>2. DeliveryInv /\ RequestInv BY DEF DeliveryInv, RequestInv
<1>3. LogInv /\ OvertakenInv BY DEF LogInv, OvertakenInv
<1>4. TierInv BY DEF TierInv, Upgrading
<1>5. ShapeInv BY DEF ShapeInv, OnlyPaid
<1>6. SerialInv /\ MirrorInv BY DEF SerialInv, MirrorInv
<1> QED BY <1>1, <1>2, <1>3, <1>4, <1>5, <1>6 DEF SubIInv

\* The log never loses an event.
LogGrows ==
  /\ log' \in Seq(Events)
  /\ Len(log') >= Len(log)
  /\ \A i \in 1..Len(log) : log'[i] = log[i]

Fresh == 1..Len(log') \ 1..Len(log)

\* One event put behind a log, and two.
LEMMA OneMore ==
  ASSUME NEW q \in Seq(Events), NEW e \in Events, NEW r, r = Append(q, e)
  PROVE  /\ r \in Seq(Events) /\ Len(r) = Len(q) + 1
         /\ \A i \in 1..Len(q) : r[i] = q[i]
         /\ r[Len(q) + 1] = e
OBVIOUS

\* Two events put behind a log, as a renewal sends them.
LEMMA TwoMore ==
  ASSUME NEW q \in Seq(Events), NEW e \in Events, NEW f \in Events, NEW r,
         r = q \o <<e, f>>
  PROVE  /\ r \in Seq(Events) /\ Len(r) = Len(q) + 2
         /\ \A i \in 1..Len(q) : r[i] = q[i]
         /\ r[Len(q) + 1] = e /\ r[Len(q) + 2] = f
<1>1. <<e, f>> \in Seq(Events) OBVIOUS
<1> QED BY <1>1

\* The payment of a checkout is announced by one event.
LEMMA PaidFacts ==
  ASSUME SubTypeOK, NEW s \in Checkouts, CheckoutPaid(s)
  PROVE  /\ LogGrows /\ Len(log') = Len(log) + 1 /\ Len(log') <= MaxEvents + 1
         /\ log'[Len(log')].type = "completed" /\ log'[Len(log')].s = s
         /\ stripe' \in [Checkouts -> {"none", "active", "past_due", "unpaid", "canceled"}]
         /\ stripe'[s] = "active"
         /\ \A x \in Checkouts \ {s} : stripe'[x] = stripe[x]
<1>1. log \in Seq(Events) /\ Event("completed", s, "active") \in Events
  BY DEF SubTypeOK, Event, Events
<1>2. LogGrows /\ Len(log') = Len(log) + 1 /\ log'[Len(log) + 1] = Event("completed", s, "active")
  BY <1>1, OneMore DEF CheckoutPaid, LogGrows
<1>3. Event("completed", s, "active").type = "completed"
      /\ Event("completed", s, "active").s = s
  BY DEF Event
<1> QED BY <1>1, <1>2, <1>3, SubscriptionAssumption DEF CheckoutPaid, SubTypeOK

\* Every later event carries the status the subscription has by the last one.
LEMMA ChangeFacts ==
  ASSUME SubTypeOK, NEW s \in Checkouts, StripeChanges(s)
  PROVE  /\ LogGrows /\ Len(log') > Len(log) /\ Len(log') <= MaxEvents + 1
         /\ \A i \in Fresh : log'[i].s = s /\ log'[i].type # "completed"
         /\ stripe' \in [Checkouts -> {"none", "active", "past_due", "unpaid", "canceled"}]
         /\ stripe[s] # "none" /\ stripe'[s] # "none"
         /\ \A x \in Checkouts \ {s} : stripe'[x] = stripe[x]
         /\ StatusAfter(log'[Len(log')]) = Shown(stripe'[s])
<1>0. log \in Seq(Events) /\ Len(log) \in Nat /\ Len(log) < MaxEvents /\ MaxEvents \in Nat
  BY SubscriptionAssumption DEF SubTypeOK, StripeChanges
<1>1. \A t \in {"completed", "updated", "payment_failed", "paid", "deleted"},
         st \in {"active", "past_due", "unpaid", "canceled"} :
           /\ Event(t, s, st) \in Events
           /\ Event(t, s, st).type = t /\ Event(t, s, st).s = s
           /\ Event(t, s, st).status = st
  BY DEF Event, Events
<1> DEFINE Change(from, to, t) ==
      /\ stripe[s] \in from
      /\ stripe' = [stripe EXCEPT ![s] = to]
      /\ log' = Append(log, Event(t, s, to))
    Renewal(from, to, t) ==
      /\ stripe[s] \in from
      /\ stripe' = [stripe EXCEPT ![s] = to]
      /\ log' = log \o <<Event(t, s, to), Event("updated", s, to)>>
<1>2. \/ Renewal({"active"}, "past_due", "payment_failed")
      \/ Renewal({"past_due", "unpaid"}, "active", "paid")
      \/ Change({"past_due"}, "unpaid", "updated")
      \/ Change({"active", "past_due", "unpaid"}, "canceled", "deleted")
  BY DEF StripeChanges
<1>3. ASSUME NEW from, NEW to \in {"unpaid", "canceled"},
             NEW t \in {"updated", "deleted"}, t = "deleted" <=> to = "canceled",
             "none" \notin from, Change(from, to, t)
      PROVE  /\ LogGrows /\ Len(log') = Len(log) + 1
             /\ log'[Len(log')] = Event(t, s, to)
             /\ stripe'[s] = to /\ stripe[s] # "none"
             /\ StatusAfter(log'[Len(log')]) = Shown(stripe'[s])
  <2>1. LogGrows /\ Len(log') = Len(log) + 1 /\ log'[Len(log) + 1] = Event(t, s, to)
    BY <1>0, <1>1, <1>3, OneMore DEF LogGrows
  <2>2. stripe'[s] = to /\ stripe[s] # "none" BY <1>3 DEF SubTypeOK
  <2>3. StatusAfter(Event(t, s, to)) = Shown(to)
    BY <1>1, <1>3 DEF StatusAfter, Shown, NewStatus
  <2> QED BY <2>1, <2>2, <2>3
<1>4. ASSUME NEW from, NEW to \in {"active", "past_due"},
             NEW t \in {"payment_failed", "paid"}, "none" \notin from,
             Renewal(from, to, t)
      PROVE  /\ LogGrows /\ Len(log') = Len(log) + 2
             /\ log'[Len(log) + 1] = Event(t, s, to)
             /\ log'[Len(log')] = Event("updated", s, to)
             /\ stripe'[s] = to /\ stripe[s] # "none"
             /\ StatusAfter(log'[Len(log')]) = Shown(stripe'[s])
  <2>1. /\ LogGrows /\ Len(log') = Len(log) + 2
        /\ log'[Len(log) + 1] = Event(t, s, to)
        /\ log'[Len(log) + 2] = Event("updated", s, to)
    BY <1>0, <1>1, <1>4, TwoMore DEF LogGrows
  <2>2. stripe'[s] = to /\ stripe[s] # "none" BY <1>4 DEF SubTypeOK
  <2>3. StatusAfter(Event("updated", s, to)) = Shown(to)
    BY <1>1, <1>4 DEF StatusAfter, Shown, NewStatus
  <2> QED BY <2>1, <2>2, <2>3
<1>5. /\ stripe' \in [Checkouts -> {"none", "active", "past_due", "unpaid", "canceled"}]
      /\ \A x \in Checkouts \ {s} : stripe'[x] = stripe[x]
  BY DEF StripeChanges, SubTypeOK
<1> HIDE DEF Change, Renewal
<1>6. CASE \/ Change({"past_due"}, "unpaid", "updated")
           \/ Change({"active", "past_due", "unpaid"}, "canceled", "deleted")
  BY <1>0, <1>1, <1>3, <1>5, <1>6 DEF Fresh
<1>7. CASE \/ Renewal({"active"}, "past_due", "payment_failed")
           \/ Renewal({"past_due", "unpaid"}, "active", "paid")
  <2>1. PICK to \in {"active", "past_due"}, t \in {"payment_failed", "paid"} :
          /\ LogGrows /\ Len(log') = Len(log) + 2
          /\ log'[Len(log) + 1] = Event(t, s, to)
          /\ log'[Len(log')] = Event("updated", s, to)
          /\ stripe'[s] = to /\ stripe[s] # "none"
          /\ StatusAfter(log'[Len(log')]) = Shown(stripe'[s])
    BY <1>4, <1>7
  <2>2. \A i \in Fresh : i = Len(log) + 1 \/ i = Len(log) + 2
    BY <1>0, <2>1 DEF Fresh
  <2>3. \A i \in Fresh : log'[i].s = s /\ log'[i].type # "completed"
    BY <1>1, <2>1, <2>2
  <2> QED BY <1>0, <1>5, <2>1, <2>3
<1> QED BY <1>2, <1>6, <1>7

\* What the type invariant says of the parts of a request in progress.
LEMMA DeliveryTypes ==
  ASSUME SubTypeOK, DeliveryInv, NEW h \in Handlers, handler[h] # None
  PROVE  /\ handler[h] \in Deliveries
         /\ handler[h].i \in 1..Len(log)
         /\ log[handler[h].i] \in Events
         /\ log[handler[h].i].s \in Checkouts
         /\ sess[log[handler[h].i].s].tier \in Tiers
<1>1. handler[h] \in Deliveries /\ handler[h].i \in 1..Len(log)
  BY DEF SubTypeOK, DeliveryInv
<1>2. log[handler[h].i] \in Events BY <1>1 DEF SubTypeOK
<1>3. log[handler[h].i].s \in Checkouts BY <1>2 DEF Events
<1> QED BY <1>1, <1>2, <1>3 DEF SubTypeOK

\* The two statements of a webhook request that change the row.
LEMMA RowFacts ==
  ASSUME SubTypeOK, row \in Rows
  PROVE  /\ row # None
         /\ \A t \in Tiers : /\ [row EXCEPT !.tier = t] \in Rows
                             /\ [row EXCEPT !.tier = t].tier = t
                             /\ [row EXCEPT !.tier = t].status = row.status
                             /\ [row EXCEPT !.tier = t].customer = row.customer
         /\ \A st \in {"active", "past_due", "suspended", "cancelled"} :
              /\ [row EXCEPT !.status = st] \in Rows
              /\ [row EXCEPT !.status = st].tier = row.tier
              /\ [row EXCEPT !.status = st].status = st
              /\ [row EXCEPT !.status = st].customer = row.customer
BY SubscriptionAssumption DEF Rows

\* What a subscription event writes is never the status of a trial.
LEMMA NewStatusRange ==
  ASSUME NEW e PROVE NewStatus(e) \in {"active", "past_due", "suspended", "cancelled"}
BY DEF NewStatus

\* A webhook request that goes on or ends.
LEMMA HandlerStep ==
  ASSUME SubTypeOK, NEW h \in Handlers, NEW v \in Deliveries \cup {None},
         handler' = [handler EXCEPT ![h] = v]
  PROVE  /\ handler' \in [Handlers -> Deliveries \cup {None}]
         /\ handler'[h] = v
         /\ \A k \in Handlers \ {h} : handler'[k] = handler[k]
BY DEF SubTypeOK

\* The first statement of an upgrade: the row gets the tier and the customer of
\* the event's checkout, and the request goes on to the organisation.
LEMMA UpgradeStarts ==
  ASSUME SubTypeOK, DeliveryInv, NEW h \in Handlers, UpgradeSubscription(h)
  PROVE  /\ handler[h] # None /\ handler[h].pc = "write"
         /\ handler' \in [Handlers -> Deliveries \cup {None}]
         /\ handler'[h] # None /\ handler'[h].pc = "org" /\ handler'[h].i = handler[h].i
         /\ \A k \in Handlers \ {h} : handler'[k] = handler[k]
         /\ row' \in Rows /\ row' # None
         /\ row'.tier = sess[log[handler[h].i].s].tier
         /\ row'.status = "active" /\ row'.customer = log[handler[h].i].s
<1>1. handler[h] # None /\ handler[h].pc = "write" BY DEF UpgradeSubscription, Upgrading
<1>2. handler[h] \in Deliveries /\ log[handler[h].i].s \in Checkouts
      /\ sess[log[handler[h].i].s].tier \in Tiers
  BY <1>1, DeliveryTypes
<1>3. row' \in Rows /\ row'.tier = sess[log[handler[h].i].s].tier
      /\ row'.status = "active" /\ row'.customer = log[handler[h].i].s
  BY <1>2 DEF UpgradeSubscription, Rows
<1>4. [handler[h] EXCEPT !.pc = "org"] \in Deliveries
      /\ [handler[h] EXCEPT !.pc = "org"].pc = "org"
      /\ [handler[h] EXCEPT !.pc = "org"].i = handler[h].i
  BY <1>2 DEF Deliveries
<1>5. handler' = [handler EXCEPT ![h] = [handler[h] EXCEPT !.pc = "org"]]
  BY DEF UpgradeSubscription, SubTypeOK
<1>6. /\ handler' \in [Handlers -> Deliveries \cup {None}]
      /\ handler'[h] = [handler[h] EXCEPT !.pc = "org"]
      /\ \A k \in Handlers \ {h} : handler'[k] = handler[k]
  BY <1>4, <1>5, HandlerStep
<1> QED BY <1>1, <1>3, <1>4, <1>6, SubscriptionAssumption

\* The SELECT of a webhook request: it goes on if the event is a payment or the
\* row belongs to the event's customer.
LEMMA SelectFacts ==
  ASSUME SubTypeOK, NEW h \in Handlers, NEW i \in 1..Len(log), WebhookSelect(h, i)
  PROVE  /\ handler[h] = None
         /\ handler' \in [Handlers -> Deliveries \cup {None}]
         /\ \A k \in Handlers \ {h} : handler'[k] = handler[k]
         /\ log[i].type \in {"completed", "payment_failed", "paid"}
         /\ handler'[h] # None =>
              /\ handler'[h].pc = "write" /\ handler'[h].i = i
              /\ log[i].type = "completed" \/ row # None
         /\ log[i].type = "completed" \/ (row # None /\ row.customer = log[i].s)
              => handler'[h] # None
<1> DEFINE found == IF log[i].type = "completed" THEN row # None
                    ELSE row # None /\ row.customer = log[i].s
    taken == [pc |-> "write", i |-> i, found |-> found]
<1>1. handler[h] = None /\ log[i].type \in {"completed", "payment_failed", "paid"}
  BY DEF WebhookSelect
<1>2. i \in 1..MaxEvents + 1 BY SubscriptionAssumption DEF SubTypeOK
<1>3. taken \in Deliveries /\ taken # None /\ taken.pc = "write" /\ taken.i = i
  <2>1. found \in BOOLEAN OBVIOUS
  <2> HIDE DEF found
  <2> QED BY <1>2, <2>1, SubscriptionAssumption DEF Deliveries
<1>4. handler' = [handler EXCEPT ![h] =
                   IF found \/ log[i].type = "completed" THEN taken ELSE None]
  BY DEF WebhookSelect
<1> HIDE DEF taken
<1>5. CASE found \/ log[i].type = "completed"
  <2>1. handler' = [handler EXCEPT ![h] = taken] BY <1>4, <1>5
  <2>2. /\ handler' \in [Handlers -> Deliveries \cup {None}] /\ handler'[h] = taken
        /\ \A k \in Handlers \ {h} : handler'[k] = handler[k]
    BY <1>3, <2>1, HandlerStep
  <2> QED BY <1>1, <1>3, <1>5, <2>2
<1>6. CASE ~(found \/ log[i].type = "completed")
  <2>1. handler' = [handler EXCEPT ![h] = None] BY <1>4, <1>6
  <2>2. /\ handler' \in [Handlers -> Deliveries \cup {None}] /\ handler'[h] = None
        /\ \A k \in Handlers \ {h} : handler'[k] = handler[k]
    BY <2>1, HandlerStep
  <2> QED BY <1>1, <1>6, <2>2
<1> QED BY <1>5, <1>6

\* The second statement of an upgrade ends the request.
LEMMA OrgFacts ==
  ASSUME SubTypeOK, DeliveryInv, NEW h \in Handlers, UpgradeOrg(h)
  PROVE  /\ handler[h] # None /\ Applied(h)
         /\ handler' \in [Handlers -> Deliveries \cup {None}] /\ handler'[h] = None
         /\ \A k \in Handlers \ {h} : handler'[k] = handler[k]
         /\ log[handler[h].i].s \in Checkouts
         /\ org' \in Tiers /\ org' = sess[log[handler[h].i].s].tier
<1>1. handler[h] # None /\ Applied(h) BY DEF UpgradeOrg, Upgrading, Applied
<1>2. log[handler[h].i].s \in Checkouts /\ sess[log[handler[h].i].s].tier \in Tiers
  BY <1>1, DeliveryTypes
<1>3. handler' = [handler EXCEPT ![h] = None] BY DEF UpgradeOrg
<1>4. /\ handler' \in [Handlers -> Deliveries \cup {None}] /\ handler'[h] = None
      /\ \A k \in Handlers \ {h} : handler'[k] = handler[k]
  BY <1>3, HandlerStep
<1> QED BY <1>1, <1>2, <1>4 DEF UpgradeOrg

\* An invoice's event writes a status and ends the request.
LEMMA InvoiceFacts ==
  ASSUME SubTypeOK, DeliveryInv, NEW h \in Handlers, InvoiceEvent(h)
  PROVE  /\ handler[h] # None /\ ~Upgrading(h)
         /\ handler' \in [Handlers -> Deliveries \cup {None}] /\ handler'[h] = None
         /\ \A k \in Handlers \ {h} : handler'[k] = handler[k]
         /\ row # None /\ row' \in Rows /\ row' # None
         /\ row'.tier = row.tier /\ row'.customer = row.customer
         /\ row'.status = StatusAfter(log[handler[h].i])
         /\ row'.status # "trial"
<1>1. handler[h] # None /\ ~Upgrading(h) BY DEF InvoiceEvent
<1>2. row # None /\ log[handler[h].i].type \in {"payment_failed", "paid"}
  BY <1>1 DEF DeliveryInv, Upgrading
<1>3. row \in Rows BY <1>2 DEF SubTypeOK
<1>4. row' = [row EXCEPT !.status = StatusAfter(log[handler[h].i])]
      /\ StatusAfter(log[handler[h].i]) \in {"active", "past_due"}
  BY <1>2 DEF InvoiceEvent, StatusAfter
<1>5. handler' = [handler EXCEPT ![h] = None] BY DEF InvoiceEvent
<1>6. /\ handler' \in [Handlers -> Deliveries \cup {None}] /\ handler'[h] = None
      /\ \A k \in Handlers \ {h} : handler'[k] = handler[k]
  BY <1>5, HandlerStep
<1> QED BY <1>1, <1>2, <1>3, <1>4, <1>6, RowFacts, SubscriptionAssumption

\* A subscription's event writes a status, if there is a row.
LEMMA SubscriptionEventFacts ==
  ASSUME SubTypeOK, NEW i \in 1..Len(log), SubscriptionEvent(i)
  PROVE  /\ log[i].type \in {"updated", "deleted"}
         /\ row = None => row' = None
         /\ row # None =>
              /\ row' \in Rows /\ row' # None
              /\ row'.tier = row.tier /\ row'.customer = row.customer
              /\ row'.status = StatusAfter(log[i])
              /\ row'.status # "trial"
<1>1. log[i].type \in {"updated", "deleted"} BY DEF SubscriptionEvent
<1>2. row = None => row' = None BY DEF SubscriptionEvent
<1>3. ASSUME row # None
      PROVE  /\ row' \in Rows /\ row' # None
             /\ row'.tier = row.tier /\ row'.customer = row.customer
             /\ row'.status = StatusAfter(log[i])
             /\ row'.status # "trial"
  <2>1. row \in Rows BY <1>3 DEF SubTypeOK
  <2>2. row' = [row EXCEPT !.status = NewStatus(log[i])] BY <1>3 DEF SubscriptionEvent
  <2>3. NewStatus(log[i]) \in {"active", "past_due", "suspended", "cancelled"}
    BY NewStatusRange
  <2>4. StatusAfter(log[i]) = NewStatus(log[i]) BY <1>1 DEF StatusAfter
  <2> QED BY <2>1, <2>2, <2>3, <2>4, RowFacts, SubscriptionAssumption
<1> QED BY <1>1, <1>2, <1>3

\* A direct plan change either does nothing, or sets the tier directly and keeps
\* the status and customer of a row that was there.
LEMMA UpsertFacts ==
  ASSUME SubTypeOK, RequestInv, UpsertWrite
  PROVE  /\ request' = None
         /\ \/ row' = row /\ direct' = direct
            \/ /\ row' \in Rows /\ row' # None /\ direct' = TRUE
               /\ row = None \/ (row'.status = row.status /\ row'.customer = row.customer)
<1>1. request # None /\ request' = None BY DEF UpsertWrite
<1>2. request.tier \in Tiers BY <1>1 DEF SubTypeOK, PlanChanges
<1>3. CASE request.found
  <2>1. row # None /\ row \in Rows BY <1>1, <1>3 DEF RequestInv, SubTypeOK
  <2>2. row' = [row EXCEPT !.tier = request.tier] /\ direct' = TRUE
    BY <1>3 DEF UpsertWrite
  <2> QED BY <1>1, <1>2, <2>1, <2>2, RowFacts, SubscriptionAssumption
<1>4. CASE ~request.found /\ row = None
  <2>1. row' = [tier |-> request.tier, status |-> "trial", customer |-> None]
        /\ direct' = TRUE
    BY <1>4 DEF UpsertWrite
  <2>2. row' \in Rows BY <1>2, <2>1 DEF Rows
  <2> QED BY <1>1, <1>4, <2>1, <2>2, SubscriptionAssumption
<1>5. CASE ~request.found /\ row # None BY <1>1, <1>5 DEF UpsertWrite
<1> QED BY <1>3, <1>4, <1>5

\* A checkout is for a tier above the one it read; paying keeps its tier.
LEMMA SessionFacts ==
  ASSUME SubTypeOK, NEW s \in Checkouts,
         CheckoutPaid(s) \/ \E t \in Tiers : CreateSubscriptionCheckout(s, t)
  PROVE  /\ sess' \in [Checkouts -> [phase : {"none", "checked", "open", "paid"}, tier : Tiers, base : Tiers]]
         /\ \A x \in Checkouts \ {s} : sess'[x] = sess[x]
         /\ CheckoutPaid(s) => /\ sess[s].phase = "open" /\ sess'[s].phase = "paid"
                               /\ sess'[s].tier = sess[s].tier
         /\ ~CheckoutPaid(s) => /\ sess[s].phase = "none" /\ sess'[s].phase = "checked"
                                /\ sess'[s].tier > org
<1> DEFINE S == [phase : {"none", "checked", "open", "paid"}, tier : Tiers, base : Tiers]
<1>0. sess \in [Checkouts -> S] /\ sess[s] \in S /\ org \in Tiers BY DEF SubTypeOK
<1>1. CASE CheckoutPaid(s)
  <2>1. [sess[s] EXCEPT !.phase = "paid"] \in S
        /\ [sess[s] EXCEPT !.phase = "paid"].phase = "paid"
        /\ [sess[s] EXCEPT !.phase = "paid"].tier = sess[s].tier
    BY <1>0
  <2>2. sess' = [sess EXCEPT ![s] = [sess[s] EXCEPT !.phase = "paid"]]
        /\ sess[s].phase = "open"
    BY <1>0, <1>1 DEF CheckoutPaid
  <2> QED BY <1>0, <1>1, <2>1, <2>2
<1>2. CASE ~CheckoutPaid(s)
  <2>1. PICK t \in Tiers : CreateSubscriptionCheckout(s, t) BY <1>2
  <2>2. sess' = [sess EXCEPT ![s] = [phase |-> "checked", tier |-> t, base |-> org]]
        /\ sess[s].phase = "none" /\ t > org
    BY <2>1 DEF CreateSubscriptionCheckout
  <2>3. [phase |-> "checked", tier |-> t, base |-> org] \in S BY <1>0
  <2> QED BY <1>0, <1>2, <2>2, <2>3
<1> QED BY <1>1, <1>2

\* The session Stripe creates is for the tier that was checked.
LEMMA CreatedFacts ==
  ASSUME SubTypeOK, NEW s \in Checkouts, CheckoutSessionCreated(s)
  PROVE  /\ sess' \in [Checkouts -> [phase : {"none", "checked", "open", "paid"},
                                    tier : Tiers, base : Tiers]]
         /\ \A x \in Checkouts \ {s} : sess'[x] = sess[x]
         /\ sess[s].phase = "checked" /\ sess'[s].phase = "open"
         /\ sess'[s].tier = sess[s].tier
         /\ UNCHANGED <<org, row, request, stripe, log, handler, inOrder, disturbed,
                        direct, overtaken>>
<1> DEFINE S == [phase : {"none", "checked", "open", "paid"}, tier : Tiers, base : Tiers]
<1>1. sess \in [Checkouts -> S] /\ sess[s] \in S BY DEF SubTypeOK
<1>2. [sess[s] EXCEPT !.phase = "open"] \in S
      /\ [sess[s] EXCEPT !.phase = "open"].phase = "open"
      /\ [sess[s] EXCEPT !.phase = "open"].tier = sess[s].tier
  BY <1>1
<1>3. sess' = [sess EXCEPT ![s] = [sess[s] EXCEPT !.phase = "open"]]
      /\ sess[s].phase = "checked"
  BY <1>1 DEF CheckoutSessionCreated
<1> QED BY <1>1, <1>2, <1>3 DEF CheckoutSessionCreated

\* A step keeps the types, the events sent before it, and the row.
LEMMA SubTypeStep ==
  ASSUME SubTypeOK, DeliveryInv, RequestInv, [SubNext]_subVars
  PROVE  SubTypeOK' /\ LogGrows /\ (row # None => row' # None)
<1>0. /\ log \in Seq(Events) /\ Len(log) \in Nat /\ MaxEvents \in Nat
      /\ inOrder \in 0..MaxEvents + 2 /\ Len(log) <= MaxEvents + 1
  BY SubscriptionAssumption DEF SubTypeOK
<1>1. log' = log => LogGrows BY <1>0 DEF LogGrows
<1>2. CASE UNCHANGED subVars BY <1>1, <1>2 DEF subVars, SubTypeOK
<1>3. ASSUME NEW t \in Tiers, UpsertRead(t)
      PROVE  SubTypeOK' /\ LogGrows /\ (row # None => row' # None)
  <2>1. [tier |-> t, found |-> row # None] \in PlanChanges BY DEF PlanChanges
  <2> QED BY <1>1, <1>3, <2>1 DEF UpsertRead, SubTypeOK
<1>4. CASE UpsertWrite
  <2>1. /\ row' \in Rows \cup {None} /\ (row # None => row' # None)
        /\ request' = None /\ direct' \in BOOLEAN
    BY <1>4, UpsertFacts DEF SubTypeOK
  <2>2. UNCHANGED <<org, sess, stripe, log, handler, inOrder, disturbed, overtaken>>
    BY <1>4 DEF UpsertWrite
  <2> QED BY <1>1, <2>1, <2>2 DEF SubTypeOK
<1>5. ASSUME NEW s \in Checkouts, NEW t \in Tiers, CreateSubscriptionCheckout(s, t)
      PROVE  SubTypeOK' /\ LogGrows /\ (row # None => row' # None)
  <2>1. sess' \in [Checkouts -> [phase : {"none", "checked", "open", "paid"}, tier : Tiers, base : Tiers]]
    BY <1>5, SessionFacts
  <2>2. UNCHANGED <<org, row, request, stripe, log, handler, inOrder, disturbed, direct, overtaken>>
    BY <1>5 DEF CreateSubscriptionCheckout
  <2> QED BY <1>1, <2>1, <2>2 DEF SubTypeOK
<1>6. ASSUME NEW s \in Checkouts, CheckoutPaid(s)
      PROVE  SubTypeOK' /\ LogGrows /\ (row # None => row' # None)
  <2>1. sess' \in [Checkouts -> [phase : {"none", "checked", "open", "paid"}, tier : Tiers, base : Tiers]]
    BY <1>6, SessionFacts
  <2>2. UNCHANGED <<org, row, request, handler, inOrder, disturbed, direct, overtaken>>
    BY <1>6 DEF CheckoutPaid
  <2> QED BY <1>6, <2>1, <2>2, PaidFacts DEF SubTypeOK, LogGrows
<1>7. ASSUME NEW s \in Checkouts, StripeChanges(s)
      PROVE  SubTypeOK' /\ LogGrows /\ (row # None => row' # None)
  <2>1. UNCHANGED <<org, row, request, sess, handler, inOrder, disturbed, direct, overtaken>>
    BY <1>7 DEF StripeChanges
  <2> QED BY <1>7, <2>1, ChangeFacts DEF SubTypeOK, LogGrows
<1>8. ASSUME NEW i \in 1..Len(log), Arrives(i) PROVE inOrder' \in 0..MaxEvents + 2
  BY <1>0, <1>8 DEF Arrives
<1>9. ASSUME NEW h \in Handlers, NEW i \in 1..Len(log), WebhookSelect(h, i)
      PROVE  SubTypeOK' /\ LogGrows /\ (row # None => row' # None)
  <2>1. handler' \in [Handlers -> Deliveries \cup {None}] BY <1>9, SelectFacts
  <2>2. inOrder' \in 0..MaxEvents + 2 BY <1>8, <1>9 DEF WebhookSelect
  <2>3. disturbed' \in BOOLEAN BY <1>9 DEF WebhookSelect, SubTypeOK
  <2>4. UNCHANGED <<org, row, request, sess, stripe, log, direct, overtaken>>
    BY <1>9 DEF WebhookSelect
  <2> QED BY <1>1, <2>1, <2>2, <2>3, <2>4 DEF SubTypeOK
<1>10. ASSUME NEW h \in Handlers, UpgradeSubscription(h)
       PROVE  SubTypeOK' /\ LogGrows /\ (row # None => row' # None)
  <2>1. /\ row' \in Rows /\ row' # None
        /\ handler' \in [Handlers -> Deliveries \cup {None}]
    BY <1>10, UpgradeStarts
  <2>2. /\ direct' \in BOOLEAN
        /\ UNCHANGED <<org, request, sess, stripe, log, inOrder, disturbed, overtaken>>
    BY <1>10 DEF UpgradeSubscription
  <2> QED BY <1>1, <2>1, <2>2 DEF SubTypeOK
<1>11. ASSUME NEW h \in Handlers, UpgradeOrg(h)
       PROVE  SubTypeOK' /\ LogGrows /\ (row # None => row' # None)
  <2>1. org' \in Tiers /\ handler' \in [Handlers -> Deliveries \cup {None}]
    BY <1>11, OrgFacts
  <2>2. /\ overtaken' \subseteq Checkouts
        /\ UNCHANGED <<row, request, sess, stripe, log, inOrder, disturbed, direct>>
    BY <1>11 DEF UpgradeOrg, SubTypeOK
  <2> QED BY <1>1, <2>1, <2>2 DEF SubTypeOK
<1>12. ASSUME NEW h \in Handlers, InvoiceEvent(h)
       PROVE  SubTypeOK' /\ LogGrows /\ (row # None => row' # None)
  <2>1. /\ row' \in Rows /\ row' # None
        /\ handler' \in [Handlers -> Deliveries \cup {None}]
    BY <1>12, InvoiceFacts
  <2>2. UNCHANGED <<org, request, sess, stripe, log, inOrder, disturbed, direct, overtaken>>
    BY <1>12 DEF InvoiceEvent
  <2> QED BY <1>1, <2>1, <2>2 DEF SubTypeOK
<1>13. ASSUME NEW h \in Handlers, WebhookFails(h)
       PROVE  SubTypeOK' /\ LogGrows /\ (row # None => row' # None)
  <2>1. handler' \in [Handlers -> Deliveries \cup {None}]
    BY <1>13, HandlerStep DEF WebhookFails
  <2>2. /\ inOrder' = 0 /\ disturbed' = TRUE
        /\ UNCHANGED <<org, row, request, sess, stripe, log, direct, overtaken>>
    BY <1>13 DEF WebhookFails
  <2> QED BY <1>0, <1>1, <2>1, <2>2 DEF SubTypeOK
<1>14. ASSUME NEW i \in 1..Len(log), SubscriptionEvent(i)
       PROVE  SubTypeOK' /\ LogGrows /\ (row # None => row' # None)
  <2>1. row' \in Rows \cup {None} /\ (row # None => row' # None)
    BY <1>14, SubscriptionEventFacts DEF SubTypeOK
  <2>2. inOrder' \in 0..MaxEvents + 2 BY <1>8, <1>14 DEF SubscriptionEvent
  <2>3. UNCHANGED <<org, request, sess, stripe, log, handler, disturbed, direct, overtaken>>
    BY <1>14 DEF SubscriptionEvent
  <2> QED BY <1>1, <2>1, <2>2, <2>3 DEF SubTypeOK
<1>15. ASSUME NEW s \in Checkouts, CheckoutSessionCreated(s)
       PROVE  SubTypeOK' /\ LogGrows /\ (row # None => row' # None)
  BY <1>1, <1>15, CreatedFacts DEF SubTypeOK
<1> QED
  BY <1>2, <1>3, <1>4, <1>5, <1>6, <1>7, <1>9, <1>10, <1>11, <1>12, <1>13, <1>14, <1>15
     DEF SubNext

\* A request that goes on through a step is still about the same event.
LEMMA SameDelivery ==
  ASSUME LogGrows, DeliveryInv, NEW h \in Handlers, handler'[h] = handler[h]
  PROVE  /\ handler[h] # None => log'[handler'[h].i] = log[handler[h].i]
         /\ Upgrading(h)' <=> Upgrading(h)
         /\ Applied(h)' <=> Applied(h)
BY DEF LogGrows, DeliveryInv, Upgrading, Applied

\* DeliveryInv is kept.
LEMMA DeliveryStep ==
  ASSUME SubTypeOK, DeliveryInv, RequestInv, [SubNext]_subVars PROVE DeliveryInv'
<1>0. LogGrows /\ (row # None => row' # None) /\ Len(log) \in Nat
  BY SubTypeStep DEF SubTypeOK
<1>1. ASSUME NEW h \in Handlers, handler'[h] # None, handler'[h] = handler[h]
      PROVE  /\ handler'[h].i \in 1..Len(log')
             /\ log'[handler'[h].i].type \in {"completed", "payment_failed", "paid"}
             /\ Upgrading(h)' \/ (handler'[h].pc = "write" /\ row' # None)
             /\ handler'[h].pc = "org" => row' # None
  <2>1. /\ handler[h].i \in 1..Len(log)
        /\ log[handler[h].i].type \in {"completed", "payment_failed", "paid"}
        /\ Upgrading(h) \/ (handler[h].pc = "write" /\ row # None)
        /\ handler[h].pc = "org" => row # None
    BY <1>1 DEF DeliveryInv
  <2>2. log'[handler'[h].i] = log[handler[h].i] /\ (Upgrading(h)' <=> Upgrading(h))
    BY <1>0, <1>1, SameDelivery
  <2>3. Len(log') \in Nat /\ Len(log') >= Len(log) BY <1>0 DEF LogGrows
  <2> QED BY <1>0, <1>1, <2>1, <2>2, <2>3
<1>2. ASSUME \A h \in Handlers : handler'[h] # None => handler'[h] = handler[h]
      PROVE  DeliveryInv'
  BY <1>1, <1>2 DEF DeliveryInv
<1>3. ASSUME NEW h \in Handlers, NEW i \in 1..Len(log), WebhookSelect(h, i)
      PROVE  DeliveryInv'
  <2>1. /\ \A k \in Handlers \ {h} : handler'[k] = handler[k]
        /\ log[i].type \in {"completed", "payment_failed", "paid"}
        /\ handler'[h] # None =>
              /\ handler'[h].pc = "write" /\ handler'[h].i = i
              /\ log[i].type = "completed" \/ row # None
    BY <1>3, SelectFacts
  <2>2. log' = log /\ row' = row BY <1>3 DEF WebhookSelect
  <2>3. handler'[h] # None =>
          /\ handler'[h].i \in 1..Len(log')
          /\ log'[handler'[h].i].type \in {"completed", "payment_failed", "paid"}
          /\ Upgrading(h)' \/ (handler'[h].pc = "write" /\ row' # None)
          /\ handler'[h].pc # "org"
    BY <2>1, <2>2 DEF Upgrading
  <2> QED BY <1>1, <2>1, <2>3 DEF DeliveryInv
<1>4. ASSUME NEW h \in Handlers, UpgradeSubscription(h) PROVE DeliveryInv'
  <2>1. /\ handler[h] # None /\ handler'[h] # None /\ handler'[h].i = handler[h].i
        /\ \A k \in Handlers \ {h} : handler'[k] = handler[k]
        /\ row' # None
    BY <1>4, UpgradeStarts
  <2>2. Upgrading(h) /\ log' = log BY <1>4 DEF UpgradeSubscription
  <2>3. /\ handler'[h].i \in 1..Len(log')
        /\ log'[handler'[h].i].type \in {"completed", "payment_failed", "paid"}
        /\ Upgrading(h)'
    BY <2>1, <2>2 DEF Upgrading, DeliveryInv
  <2> QED BY <1>1, <2>1, <2>3 DEF DeliveryInv
<1>5. ASSUME NEW h \in Handlers, UpgradeOrg(h) \/ InvoiceEvent(h) \/ WebhookFails(h)
      PROVE  DeliveryInv'
  <2>1. handler' = [handler EXCEPT ![h] = None]
    BY <1>5 DEF UpgradeOrg, InvoiceEvent, WebhookFails
  <2> QED BY <1>2, <2>1, HandlerStep
<1>6. CASE \/ UNCHANGED subVars \/ UpsertWrite \/ \E t \in Tiers : UpsertRead(t)
           \/ \E s \in Checkouts, t \in Tiers : CreateSubscriptionCheckout(s, t)
           \/ \E s \in Checkouts :
                CheckoutSessionCreated(s) \/ CheckoutPaid(s) \/ StripeChanges(s)
           \/ \E i \in 1..Len(log) : SubscriptionEvent(i)
  <2>1. handler' = handler
    BY <1>6 DEF subVars, UpsertWrite, UpsertRead, CreateSubscriptionCheckout,
                CheckoutSessionCreated, CheckoutPaid, StripeChanges, SubscriptionEvent
  <2> QED BY <1>2, <2>1
<1> QED BY <1>3, <1>4, <1>5, <1>6 DEF SubNext

\* A row that a plan change has found is still there when it writes.
LEMMA RequestStep ==
  ASSUME SubTypeOK, DeliveryInv, RequestInv, [SubNext]_subVars PROVE RequestInv'
<1>0. row # None => row' # None BY SubTypeStep
<1>1. ASSUME NEW t \in Tiers, UpsertRead(t) PROVE RequestInv'
  BY <1>1 DEF UpsertRead, RequestInv
<1>2. CASE UpsertWrite BY <1>2, UpsertFacts DEF RequestInv
<1>3. CASE request' = request BY <1>0, <1>3, SMTT(30) DEF RequestInv
<1> QED
  BY <1>1, <1>2, <1>3
     DEF SubNext, subVars, CreateSubscriptionCheckout, CheckoutSessionCreated,
         CheckoutPaid, StripeChanges, WebhookSelect, UpgradeSubscription, UpgradeOrg, InvoiceEvent, WebhookFails,
         SubscriptionEvent

\* A checkout keeps its tier, and what is paid stays paid.
LEMMA SessionStays ==
  ASSUME SubTypeOK, [SubNext]_subVars, NEW x \in Checkouts
  PROVE  /\ sess[x].phase # "none" => sess'[x].phase # "none" /\ sess'[x].tier = sess[x].tier
         /\ sess[x].phase = "paid" => sess'[x].phase = "paid"
<1>1. ASSUME NEW s \in Checkouts, NEW t \in Tiers, CreateSubscriptionCheckout(s, t)
      PROVE  /\ sess[x].phase # "none" => sess'[x] = sess[x]
             /\ sess[x].phase = "paid" => sess'[x].phase = "paid"
  <2>1. sess[s].phase = "none" BY <1>1 DEF CreateSubscriptionCheckout
  <2> QED BY <1>1, <2>1, SessionFacts
<1>2. ASSUME NEW s \in Checkouts, CheckoutPaid(s)
      PROVE  /\ sess[x].phase # "none" => sess'[x].phase # "none" /\ sess'[x].tier = sess[x].tier
             /\ sess[x].phase = "paid" => sess'[x].phase = "paid"
  BY <1>2, SessionFacts
<1>3. ASSUME NEW s \in Checkouts, CheckoutSessionCreated(s)
      PROVE  /\ sess[x].phase # "none" => sess'[x].phase # "none" /\ sess'[x].tier = sess[x].tier
             /\ sess[x].phase = "paid" => sess'[x].phase = "paid"
  BY <1>3, CreatedFacts
<1>4. CASE sess' = sess BY <1>4, SMTT(30)
<1> QED
  BY <1>1, <1>2, <1>3, <1>4
     DEF SubNext, subVars, UpsertRead, UpsertWrite, StripeChanges, WebhookSelect,
         UpgradeSubscription, UpgradeOrg, InvoiceEvent, WebhookFails, SubscriptionEvent

\* LogInv is kept.
LEMMA LogStep ==
  ASSUME SubTypeOK, DeliveryInv, RequestInv, LogInv, [SubNext]_subVars PROVE LogInv'
<1>0. /\ LogGrows /\ Len(log) \in Nat
      /\ \A i \in 1..Len(log) : log[i].s \in Checkouts
  <2>1. LogGrows /\ Len(log) \in Nat BY SubTypeStep DEF SubTypeOK
  <2>2. \A i \in 1..Len(log) : log[i] \in Events BY DEF SubTypeOK
  <2> QED BY <2>1, <2>2 DEF Events
<1>1. \A i \in 1..Len(log) : sess'[log'[i].s].phase = "paid"
  BY <1>0, SessionStays DEF LogInv, LogGrows
<1>2. ASSUME NEW s \in Checkouts, CheckoutPaid(s) PROVE LogInv'
  <2>1. /\ Len(log') = Len(log) + 1 /\ log'[Len(log')].s = s
        /\ \A x \in Checkouts \ {s} : stripe'[x] = stripe[x]
    BY <1>2, PaidFacts
  <2>2. sess'[s].phase = "paid" BY <1>2, SessionFacts
  <2>3. \A i \in 1..Len(log') : i \in 1..Len(log) \/ i = Len(log') BY <1>0, <2>1
  <2>4. \A x \in Checkouts \ {s} : sess'[x] = sess[x] BY <1>2, SessionFacts
  <2> QED BY <1>1, <2>1, <2>2, <2>3, <2>4 DEF LogInv
<1>3. ASSUME NEW s \in Checkouts, StripeChanges(s) PROVE LogInv'
  <2>1. /\ \A i \in Fresh : log'[i].s = s
        /\ \A x \in Checkouts \ {s} : stripe'[x] = stripe[x]
        /\ stripe[s] # "none"
    BY <1>3, ChangeFacts
  <2>2. sess' = sess /\ sess[s].phase = "paid" BY <1>3, <2>1 DEF StripeChanges, LogInv
  <2> QED BY <1>1, <2>1, <2>2 DEF LogInv, Fresh
<1>4. ASSUME NEW s \in Checkouts, NEW t \in Tiers, CreateSubscriptionCheckout(s, t)
      PROVE  LogInv'
  <2>1. log' = log /\ stripe' = stripe /\ sess[s].phase = "none"
    BY <1>4 DEF CreateSubscriptionCheckout
  <2>2. \A x \in Checkouts \ {s} : sess'[x] = sess[x] BY <1>4, SessionFacts
  <2> QED BY <1>1, <2>1, <2>2 DEF LogInv
<1>5. ASSUME NEW s \in Checkouts, CheckoutSessionCreated(s) PROVE LogInv'
  <2>1. \A x \in Checkouts : sess'[x].phase = "paid" <=> sess[x].phase = "paid"
    BY <1>5, CreatedFacts
  <2>2. log' = log /\ stripe' = stripe BY <1>5, CreatedFacts
  <2> QED BY <1>1, <2>1, <2>2 DEF LogInv
<1>6. CASE UNCHANGED <<sess, stripe, log>> BY <1>6 DEF LogInv
<1> QED
  BY <1>2, <1>3, <1>4, <1>5, <1>6
     DEF SubNext, subVars, UpsertRead, UpsertWrite, WebhookSelect, UpgradeSubscription,
         UpgradeOrg, InvoiceEvent, WebhookFails, SubscriptionEvent

\* A checkout not overtaken is for no lower a tier than the organisation has.
LEMMA OvertakenStep ==
  ASSUME SubTypeOK, DeliveryInv, OvertakenInv, [SubNext]_subVars PROVE OvertakenInv'
<1>0. org \in Tiers /\ Tiers \subseteq Nat BY DEF SubTypeOK, Tiers
<1>1. ASSUME NEW s \in Checkouts, NEW t \in Tiers, CreateSubscriptionCheckout(s, t)
      PROVE  OvertakenInv'
  <2>1. /\ sess' \in [Checkouts -> [phase : {"none", "checked", "open", "paid"}, tier : Tiers, base : Tiers]]
        /\ \A x \in Checkouts \ {s} : sess'[x] = sess[x]
    BY <1>1, SessionFacts
  <2>2. org' = org /\ overtaken' = overtaken BY <1>1 DEF CreateSubscriptionCheckout
  <2>3. sess'[s].tier > org /\ sess'[s].tier \in Nat
    BY <1>0, <1>1, <2>1 DEF CreateSubscriptionCheckout, SubTypeOK
  <2>4. \A x \in Checkouts \ {s} :
          sess'[x].phase # "none" /\ x \notin overtaken => org <= sess'[x].tier
    BY <2>1 DEF OvertakenInv
  <2>5. org <= sess'[s].tier BY <1>0, <2>3
  <2> QED BY <2>2, <2>4, <2>5 DEF OvertakenInv
<1>2. ASSUME NEW s \in Checkouts, CheckoutPaid(s) PROVE OvertakenInv'
  <2>1. org' = org /\ overtaken' = overtaken BY <1>2 DEF CheckoutPaid
  <2> QED BY <1>2, <2>1, SessionFacts DEF OvertakenInv
<1>3. ASSUME NEW h \in Handlers, UpgradeOrg(h) PROVE OvertakenInv'
  <2> DEFINE s == log[handler[h].i].s
  <2>1. org' = sess[s].tier /\ org' \in Nat BY <1>0, <1>3, OrgFacts
  <2>2. /\ sess' = sess
        /\ overtaken' = overtaken \cup {x \in Checkouts \ {s} : sess[x].phase # "none"}
    BY <1>3 DEF UpgradeOrg
  <2>3. \A x \in Checkouts : sess'[x].phase # "none" /\ x \notin overtaken' => x = s
    BY <2>2
  <2> QED BY <2>1, <2>2, <2>3 DEF OvertakenInv
<1>4. ASSUME NEW s \in Checkouts, CheckoutSessionCreated(s) PROVE OvertakenInv'
  BY <1>4, CreatedFacts DEF OvertakenInv
<1>5. CASE UNCHANGED <<org, sess, overtaken>> BY <1>5 DEF OvertakenInv
<1> QED
  BY <1>1, <1>2, <1>3, <1>4, <1>5
     DEF SubNext, subVars, UpsertRead, UpsertWrite, WebhookSelect, UpgradeSubscription,
         StripeChanges, InvoiceEvent, WebhookFails, SubscriptionEvent

\* TierInv is kept by a step that leaves the requests, org and the history
\* alone and changes the row's tier, if at all, directly.
LEMMA TierStays ==
  ASSUME SubTypeOK, DeliveryInv, RequestInv, LogInv, TierInv, [SubNext]_subVars,
         UNCHANGED <<org, handler, disturbed>>,
         ~direct' /\ row' # None => ~direct /\ row # None /\ row'.tier = row.tier
  PROVE  TierInv'
<1>1. \A h \in Handlers : /\ Upgrading(h)' <=> Upgrading(h)
                          /\ Applied(h)' <=> Applied(h)
  BY SubTypeStep, SameDelivery
<1>2. ASSUME NEW h \in Handlers, Applied(h)
      PROVE  sess'[log'[handler'[h].i].s].tier = sess[log[handler[h].i].s].tier
  <2>1. /\ handler[h] # None /\ handler[h].i \in 1..Len(log)
        /\ log[handler[h].i].s \in Checkouts
    BY <1>2, DeliveryTypes DEF Applied, Upgrading
  <2>2. log'[handler'[h].i] = log[handler[h].i] BY <2>1, SubTypeStep, SameDelivery
  <2>3. sess[log[handler[h].i].s].phase = "paid" BY <2>1 DEF LogInv
  <2> QED BY <2>1, <2>2, <2>3, SessionStays
<1> QED BY <1>1, <1>2 DEF TierInv

\* TierInv is kept.
LEMMA TierStep ==
  ASSUME SubTypeOK, DeliveryInv, RequestInv, LogInv, TierInv, [SubNext]_subVars
  PROVE  TierInv'
<1>0. \A h \in Handlers : Applied(h) => Upgrading(h) BY DEF Applied
<1>1. CASE \/ UNCHANGED subVars \/ \E t \in Tiers : UpsertRead(t)
           \/ \E s \in Checkouts, t \in Tiers : CreateSubscriptionCheckout(s, t)
           \/ \E s \in Checkouts :
                CheckoutSessionCreated(s) \/ CheckoutPaid(s) \/ StripeChanges(s)
  <2>1. UNCHANGED <<org, handler, disturbed, direct, row>>
    BY <1>1 DEF subVars, UpsertRead, CreateSubscriptionCheckout, CheckoutSessionCreated,
                CheckoutPaid, StripeChanges
  <2> QED BY <2>1, TierStays
<1>2. CASE UpsertWrite
  <2>1. UNCHANGED <<org, handler, disturbed>> BY <1>2 DEF UpsertWrite
  <2>2. (row' = row /\ direct' = direct) \/ direct' = TRUE BY <1>2, UpsertFacts
  <2> QED BY <2>1, <2>2, TierStays
<1>3. ASSUME NEW i \in 1..Len(log), SubscriptionEvent(i) PROVE TierInv'
  <2>1. UNCHANGED <<org, handler, disturbed, direct>> BY <1>3 DEF SubscriptionEvent
  <2>2. row' # None => row # None /\ row'.tier = row.tier
    BY <1>3, SubscriptionEventFacts
  <2> QED BY <2>1, <2>2, TierStays
<1>4. ASSUME NEW h \in Handlers, NEW i \in 1..Len(log), WebhookSelect(h, i)
      PROVE  TierInv'
  <2>1. /\ handler[h] = None
        /\ \A k \in Handlers \ {h} : handler'[k] = handler[k]
        /\ handler'[h] # None => handler'[h].pc = "write" /\ handler'[h].i = i
    BY <1>4, SelectFacts
  <2>2. UNCHANGED <<org, row, sess, log, direct>> BY <1>4 DEF WebhookSelect
  <2>9. ~disturbed' =>
          ~disturbed /\ (log[i].type = "completed" => \A k \in Handlers : ~Upgrading(k))
    <3> HIDE DEF Upgrading
    <3>1. disturbed' = (disturbed \/ (log[i].type = "completed"
                                       /\ \E k \in Handlers : Upgrading(k)))
      BY <1>4 DEF WebhookSelect
    <3> QED BY <3>1, Zenon
  <2>3. \A k \in Handlers \ {h} : /\ Upgrading(k)' <=> Upgrading(k)
                                  /\ Applied(k)' <=> Applied(k)
                                  /\ handler'[k] = handler[k]
    BY <2>1, <2>2 DEF Upgrading, Applied
  <2>4. ~Upgrading(h) /\ ~Applied(h) /\ ~Applied(h)'
    BY <2>1 DEF Upgrading, Applied
  <2>5. Upgrading(h)' => log[i].type = "completed" BY <2>1, <2>2 DEF Upgrading
  <2>6. ~disturbed' => \A j, k \in Handlers : Upgrading(j)' /\ Upgrading(k)' => j = k
    BY <2>3, <2>4, <2>5, <2>9 DEF TierInv
  <2>7. ~disturbed' /\ ~direct' /\ row' # None =>
          /\ \A k \in Handlers : Applied(k)' => row'.tier = sess'[log'[handler'[k].i].s].tier
          /\ (\A k \in Handlers : ~Applied(k)') => row'.tier = org'
    BY <2>2, <2>3, <2>4, <2>9 DEF TierInv
  <2> QED BY <2>6, <2>7 DEF TierInv
<1>5. ASSUME NEW h \in Handlers, UpgradeSubscription(h) PROVE TierInv'
  <2>1. /\ handler[h] # None /\ handler'[h] # None
        /\ handler'[h].pc = "org" /\ handler'[h].i = handler[h].i
        /\ \A k \in Handlers \ {h} : handler'[k] = handler[k]
        /\ row'.tier = sess[log[handler[h].i].s].tier
    BY <1>5, UpgradeStarts
  <2>2. UNCHANGED <<org, sess, log, disturbed>> /\ Upgrading(h)
    BY <1>5 DEF UpgradeSubscription
  <2>3. \A k \in Handlers : Upgrading(k)' <=> Upgrading(k) BY <2>1, <2>2 DEF Upgrading
  <2>4. Applied(h)' BY <2>1, <2>2, <2>3 DEF Applied
  <2>5. ~disturbed' => \A j, k \in Handlers : Upgrading(j)' /\ Upgrading(k)' => j = k
    BY <2>2, <2>3 DEF TierInv
  <2>6. \A k \in Handlers : Applied(k)' => Upgrading(k)' BY DEF Applied
  <2>7. ~disturbed' => \A k \in Handlers : Applied(k)' => k = h
    BY <2>2, <2>3, <2>5, <2>6
  <2> QED BY <2>1, <2>2, <2>4, <2>5, <2>7 DEF TierInv
<1>6. ASSUME NEW h \in Handlers, UpgradeOrg(h) PROVE TierInv'
  <2>1. /\ Applied(h) /\ handler'[h] = None
        /\ \A k \in Handlers \ {h} : handler'[k] = handler[k]
        /\ org' = sess[log[handler[h].i].s].tier
    BY <1>6, OrgFacts
  <2>2. UNCHANGED <<row, sess, log, disturbed, direct>> BY <1>6 DEF UpgradeOrg
  <2>3. ~Upgrading(h)' /\ ~Applied(h)' BY <2>1 DEF Upgrading, Applied
  <2>4. \A k \in Handlers \ {h} : (Upgrading(k)' <=> Upgrading(k)) /\ (Applied(k)' => Upgrading(k))
    BY <2>1, <2>2 DEF Upgrading, Applied
  <2>5. ~disturbed => \A k \in Handlers \ {h} : ~Upgrading(k)
    BY <1>0, <2>1 DEF TierInv
  <2>6. ~disturbed' => \A k \in Handlers : ~Upgrading(k)' /\ ~Applied(k)'
    BY <2>2, <2>3, <2>4, <2>5
  <2> QED BY <2>1, <2>2, <2>6 DEF TierInv
<1>7. ASSUME NEW h \in Handlers, InvoiceEvent(h) PROVE TierInv'
  <2>1. /\ ~Upgrading(h) /\ handler'[h] = None
        /\ \A k \in Handlers \ {h} : handler'[k] = handler[k]
        /\ row # None /\ row'.tier = row.tier
    BY <1>7, InvoiceFacts
  <2>2. UNCHANGED <<org, sess, log, disturbed, direct>> BY <1>7 DEF InvoiceEvent
  <2>3. ~Upgrading(h)' /\ ~Applied(h)' /\ ~Applied(h) BY <2>1 DEF Upgrading, Applied
  <2>4. \A k \in Handlers : (Upgrading(k)' <=> Upgrading(k)) /\ (Applied(k)' <=> Applied(k))
    BY <2>1, <2>2, <2>3 DEF Upgrading, Applied
  <2>5. \A k \in Handlers : Applied(k) => handler'[k] = handler[k] BY <2>1, <2>3
  <2> QED BY <2>1, <2>2, <2>4, <2>5 DEF TierInv
<1>8. ASSUME NEW h \in Handlers, WebhookFails(h) PROVE TierInv'
  BY <1>8 DEF WebhookFails, TierInv
<1> QED BY <1>1, <1>2, <1>3, <1>4, <1>5, <1>6, <1>7, <1>8 DEF SubNext

\* ShapeInv is kept.
LEMMA ShapeStep ==
  ASSUME SubTypeOK, DeliveryInv, RequestInv, LogInv, ShapeInv, [SubNext]_subVars
  PROVE  ShapeInv'
<1>0. /\ LogGrows /\ Len(log) \in Nat
      /\ \A i \in 1..Len(log) : log[i].s \in Checkouts
  <2>1. LogGrows /\ Len(log) \in Nat BY SubTypeStep DEF SubTypeOK
  <2>2. \A i \in 1..Len(log) : log[i] \in Events BY DEF SubTypeOK
  <2> QED BY <2>1, <2>2 DEF Events
<1>1. ASSUME NEW s \in Checkouts, CheckoutPaid(s) PROVE ShapeInv'
  <2>1. /\ Len(log') = Len(log) + 1
        /\ log'[Len(log')].type = "completed"
        /\ stripe'[s] = "active"
    BY <1>1, PaidFacts
  <2>2. /\ sess[s].phase = "open" /\ sess'[s].phase = "paid"
        /\ \A x \in Checkouts \ {s} : sess'[x] = sess[x]
    BY <1>1, SessionFacts
  <2>3. SUFFICES ASSUME NEW x \in Checkouts, OnlyPaid(x)'
                 PROVE  /\ Len(log') > 0 /\ stripe'[x] # "none"
                        /\ StatusAfter(log'[Len(log')]) = Shown(stripe'[x])
                        /\ \A i \in 1..Len(log') : log'[i].type = "completed" <=> i = 1
    BY DEF ShapeInv
  <2>4. x = s /\ \A y \in Checkouts : sess[y].phase # "paid"
    BY <2>2, <2>3 DEF OnlyPaid
  <2>5. Len(log) = 0 /\ Len(log') = 1 BY <1>0, <2>1, <2>4 DEF LogInv
  <2>6. StatusAfter(log'[Len(log')]) = Shown(stripe'[x])
    BY <2>1, <2>4 DEF StatusAfter, Shown, NewStatus
  <2> QED BY <2>1, <2>4, <2>5, <2>6
<1>2. ASSUME NEW s \in Checkouts, StripeChanges(s) PROVE ShapeInv'
  <2>1. /\ Len(log') > Len(log)
        /\ \A i \in Fresh : log'[i].type # "completed"
        /\ stripe[s] # "none" /\ stripe'[s] # "none"
        /\ StatusAfter(log'[Len(log')]) = Shown(stripe'[s])
    BY <1>2, ChangeFacts
  <2>2. sess' = sess /\ sess[s].phase = "paid" BY <1>2, <2>1 DEF StripeChanges, LogInv
  <2>3. SUFFICES ASSUME NEW x \in Checkouts, OnlyPaid(x)
                 PROVE  /\ Len(log') > 0 /\ stripe'[x] # "none"
                        /\ StatusAfter(log'[Len(log')]) = Shown(stripe'[x])
                        /\ \A i \in 1..Len(log') : log'[i].type = "completed" <=> i = 1
    BY <2>2 DEF ShapeInv, OnlyPaid
  <2>4. x = s BY <2>2, <2>3 DEF OnlyPaid
  <2>5. /\ Len(log) > 0
        /\ \A i \in 1..Len(log) : log[i].type = "completed" <=> i = 1
    BY <2>3 DEF ShapeInv
  <2>6. Len(log') \in Nat BY <1>0 DEF LogGrows
  <2>7. ASSUME NEW i \in 1..Len(log') PROVE log'[i].type = "completed" <=> i = 1
    <3>1. CASE i \in 1..Len(log) BY <1>0, <2>5, <3>1 DEF LogGrows
    <3>2. CASE i \notin 1..Len(log) BY <1>0, <2>1, <2>5, <2>6, <3>2 DEF Fresh
    <3> QED BY <3>1, <3>2
  <2> QED BY <1>0, <2>1, <2>4, <2>6, <2>7
<1>3. ASSUME NEW s \in Checkouts, NEW t \in Tiers, CreateSubscriptionCheckout(s, t)
      PROVE  ShapeInv'
  <2>1. log' = log /\ stripe' = stripe /\ sess[s].phase = "none"
    BY <1>3 DEF CreateSubscriptionCheckout
  <2>2. \A x \in Checkouts : sess'[x].phase = "paid" <=> sess[x].phase = "paid"
    <3>1. ~CheckoutPaid(s) BY <2>1 DEF CheckoutPaid
    <3>2. \A x \in Checkouts \ {s} : sess'[x] = sess[x] BY <1>3, SessionFacts
    <3>3. sess'[s].phase = "checked" BY <1>3, <3>1, SessionFacts
    <3> QED BY <2>1, <3>2, <3>3
  <2>3. \A x \in Checkouts : OnlyPaid(x)' <=> OnlyPaid(x) BY <2>2 DEF OnlyPaid
  <2> QED BY <2>1, <2>3 DEF ShapeInv
<1>4. ASSUME NEW s \in Checkouts, CheckoutSessionCreated(s) PROVE ShapeInv'
  <2>1. \A x \in Checkouts : sess'[x].phase = "paid" <=> sess[x].phase = "paid"
    BY <1>4, CreatedFacts
  <2>2. log' = log /\ stripe' = stripe BY <1>4, CreatedFacts
  <2>3. \A x \in Checkouts : OnlyPaid(x)' <=> OnlyPaid(x) BY <2>1 DEF OnlyPaid
  <2> QED BY <2>2, <2>3 DEF ShapeInv
<1>5. CASE UNCHANGED <<sess, stripe, log>> BY <1>5 DEF ShapeInv, OnlyPaid
<1> QED
  BY <1>1, <1>2, <1>3, <1>4, <1>5
     DEF SubNext, subVars, UpsertRead, UpsertWrite, WebhookSelect, UpgradeSubscription,
         UpgradeOrg, InvoiceEvent, WebhookFails, SubscriptionEvent

\* SerialInv is kept.
LEMMA SerialStep ==
  ASSUME SubTypeOK, DeliveryInv, RequestInv, SerialInv, [SubNext]_subVars
  PROVE  SerialInv'
<1>0. /\ LogGrows /\ Len(log) \in Nat /\ Len(log') \in Nat /\ inOrder \in Nat
      /\ Len(log') >= Len(log)
  BY SubTypeStep DEF SubTypeOK, LogGrows
<1>1. CASE UNCHANGED <<handler, inOrder>> BY <1>0, <1>1 DEF SerialInv
<1>2. ASSUME NEW h \in Handlers, NEW i \in 1..Len(log), WebhookSelect(h, i)
      PROVE  SerialInv'
  <2>1. /\ \A k \in Handlers \ {h} : handler'[k] = handler[k]
        /\ handler'[h] # None => handler'[h].i = i
    BY <1>2, SelectFacts
  <2>2. log' = log /\ Arrives(i) BY <1>2 DEF WebhookSelect
  <2>3. CASE NothingInProgress /\ i = inOrder
    <3>1. inOrder' = i + 1 /\ \A k \in Handlers \ {h} : handler'[k] = None
      BY <2>1, <2>2, <2>3 DEF Arrives, NothingInProgress
    <3> QED BY <1>0, <2>1, <2>2, <3>1 DEF SerialInv
  <2>4. CASE ~(NothingInProgress /\ i = inOrder) BY <2>2, <2>4 DEF Arrives, SerialInv
  <2> QED BY <2>3, <2>4
<1>3. ASSUME NEW i \in 1..Len(log), SubscriptionEvent(i) PROVE SerialInv'
  <2>1. log' = log /\ handler' = handler /\ Arrives(i) BY <1>3 DEF SubscriptionEvent
  <2>2. CASE NothingInProgress /\ i = inOrder
    BY <1>0, <2>1, <2>2 DEF Arrives, NothingInProgress, SerialInv
  <2>3. CASE ~(NothingInProgress /\ i = inOrder) BY <2>1, <2>3 DEF Arrives, SerialInv
  <2> QED BY <2>2, <2>3
<1>4. ASSUME NEW h \in Handlers, UpgradeSubscription(h) PROVE SerialInv'
  <2>1. /\ handler[h] # None /\ handler'[h].i = handler[h].i
        /\ \A k \in Handlers \ {h} : handler'[k] = handler[k]
    BY <1>4, UpgradeStarts
  <2>2. log' = log /\ inOrder' = inOrder BY <1>4 DEF UpgradeSubscription
  <2> QED BY <2>1, <2>2 DEF SerialInv
<1>5. ASSUME NEW h \in Handlers, UpgradeOrg(h) \/ InvoiceEvent(h) PROVE SerialInv'
  <2>1. handler'[h] = None /\ \A k \in Handlers \ {h} : handler'[k] = handler[k]
    BY <1>5, OrgFacts, InvoiceFacts
  <2>2. log' = log /\ inOrder' = inOrder BY <1>5 DEF UpgradeOrg, InvoiceEvent
  <2> QED BY <2>1, <2>2 DEF SerialInv
<1>6. ASSUME NEW h \in Handlers, WebhookFails(h) PROVE SerialInv'
  BY <1>6 DEF WebhookFails, SerialInv
<1> QED
  BY <1>1, <1>2, <1>3, <1>4, <1>5, <1>6
     DEF SubNext, subVars, UpsertRead, UpsertWrite, CreateSubscriptionCheckout,
         CheckoutSessionCreated, CheckoutPaid, StripeChanges

\* MirrorInv is kept by a step that leaves the requests and the order alone,
\* pays for nothing and keeps the status and the customer of the row.
LEMMA MirrorStays ==
  ASSUME SubTypeOK, DeliveryInv, RequestInv, SerialInv, MirrorInv, [SubNext]_subVars,
         UNCHANGED <<handler, inOrder>>,
         \A s \in Checkouts : sess'[s].phase = "paid" <=> sess[s].phase = "paid",
         row # None => row' # None /\ row'.status = row.status /\ row'.customer = row.customer
  PROVE  MirrorInv'
<1>0. LogGrows /\ Len(log) \in Nat /\ inOrder \in Nat BY SubTypeStep DEF SubTypeOK
<1>1. \A h \in Handlers : /\ Upgrading(h)' <=> Upgrading(h)
                          /\ Applied(h)' <=> Applied(h)
  BY <1>0, SameDelivery
<1>2. \A s \in Checkouts : OnlyPaid(s)' <=> OnlyPaid(s) BY DEF OnlyPaid
<1>3. inOrder > 1 => inOrder - 1 \in 1..Len(log) BY <1>0 DEF SerialInv
<1>4. inOrder > 1 => \A s \in Checkouts : Shows(s) => Shows(s)'
  BY <1>0, <1>3 DEF Shows, LogGrows
<1>5. NothingInProgress' <=> NothingInProgress BY DEF NothingInProgress
<1> QED BY <1>1, <1>2, <1>4, <1>5 DEF MirrorInv

\* MirrorInv is kept.
LEMMA MirrorStep ==
  ASSUME SubTypeOK, DeliveryInv, RequestInv, LogInv, ShapeInv, SerialInv, MirrorInv,
         [SubNext]_subVars
  PROVE  MirrorInv'
<1>0. LogGrows /\ Len(log) \in Nat /\ inOrder \in Nat BY SubTypeStep DEF SubTypeOK
<1>1. CASE UNCHANGED subVars \/ (\E t \in Tiers : UpsertRead(t))
           \/ (\E s \in Checkouts : StripeChanges(s))
  BY <1>1, MirrorStays DEF subVars, UpsertRead, StripeChanges
<1>2. CASE UpsertWrite
  <2>1. UNCHANGED <<handler, inOrder, sess>> BY <1>2 DEF UpsertWrite
  <2>2. row # None => row' # None /\ row'.status = row.status /\ row'.customer = row.customer
    BY <1>2, UpsertFacts
  <2> QED BY <2>1, <2>2, MirrorStays
<1>3. ASSUME NEW s \in Checkouts, NEW t \in Tiers, CreateSubscriptionCheckout(s, t)
      PROVE  MirrorInv'
  <2>1. UNCHANGED <<handler, inOrder, row>> /\ sess[s].phase = "none"
    BY <1>3 DEF CreateSubscriptionCheckout
  <2>2. ~CheckoutPaid(s) BY <2>1 DEF CheckoutPaid
  <2>3. /\ \A x \in Checkouts \ {s} : sess'[x] = sess[x]
        /\ sess'[s].phase = "checked"
    BY <1>3, <2>2, SessionFacts
  <2>4. \A x \in Checkouts : sess'[x].phase = "paid" <=> sess[x].phase = "paid"
    BY <2>1, <2>3
  <2> QED BY <2>1, <2>4, MirrorStays
<1>4. ASSUME NEW s \in Checkouts, CheckoutPaid(s) PROVE MirrorInv'
  <2>1. /\ sess[s].phase = "open" /\ sess'[s].phase = "paid"
        /\ \A x \in Checkouts \ {s} : sess'[x] = sess[x]
    BY <1>4, SessionFacts
  <2>2. inOrder' = inOrder BY <1>4 DEF CheckoutPaid
  <2>3. SUFFICES ASSUME NEW x \in Checkouts, OnlyPaid(x)', inOrder > 1 PROVE FALSE
    BY <2>2 DEF MirrorInv
  <2>4. \A y \in Checkouts : sess[y].phase # "paid" BY <2>1, <2>3 DEF OnlyPaid
  <2>5. 1 \in 1..Len(log) BY <1>0, <2>3 DEF SerialInv
  <2>6. log[1].s \in Checkouts
    <3>1. log[1] \in Events BY <2>5 DEF SubTypeOK
    <3> QED BY <3>1 DEF Events
  <2> QED BY <2>4, <2>5, <2>6 DEF LogInv
\* From here on no checkout is paid and no event is sent.
<1>5. ASSUME UNCHANGED <<sess, log>>, NEW s \in Checkouts, OnlyPaid(s)
      PROVE  /\ \A i \in 1..Len(log) : log[i].s = s
             /\ \A i \in 1..Len(log) : log[i].type = "completed" <=> i = 1
  <2>1. \A i \in 1..Len(log) : log[i].s \in Checkouts
    <3>1. \A i \in 1..Len(log) : log[i] \in Events BY DEF SubTypeOK
    <3> QED BY <3>1 DEF Events
  <2>2. \A i \in 1..Len(log) : log[i].s = s BY <1>5, <2>1 DEF LogInv, OnlyPaid
  <2> QED BY <1>5, <2>2 DEF ShapeInv
<1>6. ASSUME NEW h \in Handlers, NEW i \in 1..Len(log), WebhookSelect(h, i)
      PROVE  MirrorInv'
  <2>1. /\ \A k \in Handlers \ {h} : handler'[k] = handler[k]
        /\ handler'[h] # None =>
              /\ handler'[h].pc = "write" /\ handler'[h].i = i
              /\ log[i].type = "completed" \/ row # None
        /\ log[i].type = "completed" \/ (row # None /\ row.customer = log[i].s)
              => handler'[h] # None
    BY <1>6, SelectFacts
  <2>2. UNCHANGED <<row, sess, log>> /\ Arrives(i) BY <1>6 DEF WebhookSelect
  <2>3. SUFFICES ASSUME NEW s \in Checkouts, OnlyPaid(s), inOrder' > 1
                 PROVE  /\ NothingInProgress' => Shows(s)'
                        /\ \A k \in Handlers : Applied(k)' => Shows(s)'
                        /\ \A k \in Handlers : handler'[k] # None /\ ~Upgrading(k)' =>
                             row' # None /\ row'.customer = s
    BY <2>2 DEF MirrorInv, OnlyPaid
  <2>4. NothingInProgress /\ i = inOrder /\ inOrder' = i + 1
    BY <2>2, <2>3 DEF Arrives
  <2>5. \A k \in Handlers \ {h} : handler'[k] = None
    BY <2>1, <2>4 DEF NothingInProgress
  <2>6. ~Applied(h)' BY <2>1 DEF Applied, Upgrading
  <2>7. log[i].s = s /\ (log[i].type = "completed" <=> i = 1)
    BY <1>5, <2>2, <2>3
  <2>8. CASE log[i].type = "completed"
    <3>1. handler'[h] # None /\ Upgrading(h)' BY <2>1, <2>2, <2>8 DEF Upgrading
    <3> QED BY <2>5, <2>6, <3>1 DEF NothingInProgress, Applied, Upgrading
  <2>9. CASE log[i].type # "completed"
    <3>1. inOrder > 1 BY <1>0, <2>4, <2>7, <2>9
    <3>2. row # None /\ row.customer = s BY <2>3, <2>4, <3>1 DEF MirrorInv, Shows
    <3>3. handler'[h] # None BY <2>1, <2>7, <3>2
    <3> QED BY <2>2, <2>5, <2>6, <3>2, <3>3 DEF NothingInProgress, Applied, Upgrading
  <2> QED BY <2>8, <2>9
<1>7. ASSUME NEW i \in 1..Len(log), SubscriptionEvent(i) PROVE MirrorInv'
  <2>1. UNCHANGED <<sess, log, handler>> /\ Arrives(i) BY <1>7 DEF SubscriptionEvent
  <2>2. SUFFICES ASSUME NEW s \in Checkouts, OnlyPaid(s), inOrder' > 1
                 PROVE  /\ NothingInProgress' => Shows(s)'
                        /\ \A k \in Handlers : Applied(k)' => Shows(s)'
                        /\ \A k \in Handlers : handler'[k] # None /\ ~Upgrading(k)' =>
                             row' # None /\ row'.customer = s
    BY <2>1 DEF MirrorInv, OnlyPaid
  <2>3. NothingInProgress /\ i = inOrder /\ inOrder' = i + 1
    BY <2>1, <2>2 DEF Arrives
  <2>4. log[i].type # "completed" BY <1>7, SubscriptionEventFacts
  <2>5. inOrder > 1 BY <1>0, <1>5, <2>1, <2>2, <2>3, <2>4
  <2>6. row # None /\ row.customer = s BY <2>2, <2>3, <2>5 DEF MirrorInv, Shows
  <2>7. row' # None /\ row'.customer = s /\ row'.status = StatusAfter(log[i])
    BY <1>7, <2>6, SubscriptionEventFacts
  <2>8. log'[inOrder' - 1] = log[i] BY <2>1, <2>3
  <2> QED BY <2>1, <2>3, <2>7, <2>8 DEF Shows, NothingInProgress, Applied, Upgrading, StatusAfter
<1>8. ASSUME NEW h \in Handlers, UpgradeSubscription(h) PROVE MirrorInv'
  <2>1. /\ handler[h] # None /\ handler'[h] # None
        /\ handler'[h].pc = "org" /\ handler'[h].i = handler[h].i
        /\ row' # None /\ row'.status = "active"
        /\ row'.customer = log[handler[h].i].s
    BY <1>8, UpgradeStarts
  <2>2. UNCHANGED <<sess, log, inOrder>> /\ Upgrading(h) BY <1>8 DEF UpgradeSubscription
  <2>3. SUFFICES ASSUME NEW s \in Checkouts, OnlyPaid(s), inOrder > 1
                 PROVE  Shows(s)'
    BY <2>1, <2>2 DEF MirrorInv, OnlyPaid, NothingInProgress, Shows
  <2>4. handler[h].i = inOrder - 1 /\ inOrder - 1 \in 1..Len(log)
    BY <1>0, <2>1, <2>3 DEF SerialInv
  <2>5. row'.customer = s BY <1>5, <2>1, <2>2, <2>3, <2>4
  <2>6. StatusAfter(log[inOrder - 1]) = "active"
    BY <2>2, <2>4 DEF Upgrading, StatusAfter
  <2>7. log'[inOrder' - 1] = log[inOrder - 1] BY <2>2
  <2> QED BY <2>1, <2>5, <2>6, <2>7 DEF Shows, StatusAfter
<1>9. ASSUME NEW h \in Handlers, UpgradeOrg(h) PROVE MirrorInv'
  <2>1. Applied(h) BY <1>9, OrgFacts
  <2>2. UNCHANGED <<row, sess, log, inOrder>> BY <1>9 DEF UpgradeOrg
  <2>3. \A s \in Checkouts : OnlyPaid(s) /\ inOrder > 1 => Shows(s) BY <2>1 DEF MirrorInv
  <2>4. \A s \in Checkouts : (OnlyPaid(s)' <=> OnlyPaid(s)) /\ (Shows(s)' <=> Shows(s))
    BY <2>2 DEF OnlyPaid, Shows, StatusAfter
  <2> QED BY <2>2, <2>3, <2>4 DEF MirrorInv, Shows
<1>10. ASSUME NEW h \in Handlers, InvoiceEvent(h) PROVE MirrorInv'
  <2>1. /\ handler[h] # None /\ ~Upgrading(h)
        /\ handler'[h] = None /\ \A k \in Handlers \ {h} : handler'[k] = handler[k]
        /\ row' # None /\ row'.customer = row.customer
        /\ row'.status = StatusAfter(log[handler[h].i])
    BY <1>10, InvoiceFacts
  <2>2. UNCHANGED <<sess, log, inOrder>> BY <1>10 DEF InvoiceEvent
  <2>3. SUFFICES ASSUME NEW s \in Checkouts, OnlyPaid(s), inOrder > 1
                 PROVE  Shows(s)'
    BY <2>1, <2>2 DEF MirrorInv, OnlyPaid, Shows
  <2>4. handler[h].i = inOrder - 1 BY <1>0, <2>1, <2>3 DEF SerialInv
  <2>5. row.customer = s BY <2>1, <2>3 DEF MirrorInv
  <2> QED BY <2>1, <2>2, <2>4, <2>5 DEF Shows, StatusAfter
<1>11. ASSUME NEW h \in Handlers, WebhookFails(h) PROVE MirrorInv'
  BY <1>11 DEF WebhookFails, MirrorInv
<1>12. ASSUME NEW s \in Checkouts, CheckoutSessionCreated(s) PROVE MirrorInv'
  <2>1. \A x \in Checkouts : sess'[x].phase = "paid" <=> sess[x].phase = "paid"
    BY <1>12, CreatedFacts
  <2>2. UNCHANGED <<handler, inOrder, row>> BY <1>12, CreatedFacts
  <2> QED BY <2>1, <2>2, MirrorStays
<1> QED
  BY <1>1, <1>2, <1>3, <1>4, <1>6, <1>7, <1>8, <1>9, <1>10, <1>11, <1>12 DEF SubNext

\* The parts together are inductive.
LEMMA SubNextIInv == SubIInv /\ [SubNext]_subVars => SubIInv'
BY SubTypeStep, DeliveryStep, RequestStep, LogStep, TierStep, OvertakenStep, ShapeStep,
   SerialStep, MirrorStep DEF SubIInv

\* They hold in every reachable state.
LEMMA SubInductive == SubSpec => []SubIInv
BY SubInitIInv, SubNextIInv, PTL DEF SubSpec

\* The row, the requests and the events keep their types; a webhook request in
\* progress is always about an event that was sent.
THEOREM SubscriptionTyping == SubSpec => []SubTypeOK
<1>1. SubIInv => SubTypeOK BY DEF SubIInv
<1> QED BY <1>1, SubInductive, PTL

\* Undisturbed upgrades leave the two tiers equal, however many checkouts and
\* events there are.
THEOREM SubscriptionTiersAgree == SubSpec => []TiersAgree
<1>1. SubIInv => TiersAgree BY DEF SubIInv, TierInv, TiersAgree, Applied
<1> QED BY <1>1, SubInductive, PTL

\* Events handled once and in order leave the row with Stripe's status.
THEOREM SubscriptionMirrorsStripe == SubSpec => []RowMirrorsStripe
<1>1. SubIInv => RowMirrorsStripe
  <2> SUFFICES ASSUME SubIInv, NEW s \in Checkouts, inOrder = Len(log) + 1,
                      NothingInProgress, OnlyPaid(s)
               PROVE  row # None /\ row.status = Shown(stripe[s])
    BY DEF RowMirrorsStripe, OnlyPaid, Shown
  <2>1. Len(log) > 0 /\ StatusAfter(log[Len(log)]) = Shown(stripe[s])
    BY DEF SubIInv, ShapeInv
  <2>2. Len(log) \in Nat BY DEF SubIInv, SubTypeOK
  <2>3. inOrder > 1 /\ inOrder - 1 = Len(log) BY <2>1, <2>2
  <2> QED BY <2>1, <2>3 DEF SubIInv, MirrorInv, Shows
<1> QED BY <1>1, SubInductive, PTL

\* No step puts a paid subscription back into its trial.
THEOREM SubscriptionNoTrialAfterPayment == SubSpec => TrialNeverFollowsPayment
<1> DEFINE Keeps == row' # None /\ row'.status = "trial" => row = None \/ row.status = "trial"
<1>1. SubIInv /\ [SubNext]_subVars => [Keeps]_subVars
  <2> SUFFICES ASSUME SubTypeOK, DeliveryInv, RequestInv, SubNext, row' # None,
                      row'.status = "trial", row # None
               PROVE  row.status = "trial"
    BY DEF SubIInv
  <2>1. CASE row' = row BY <2>1
  <2>2. CASE UpsertWrite BY <2>2, UpsertFacts
  <2>3. ASSUME NEW h \in Handlers, UpgradeSubscription(h) \/ InvoiceEvent(h) PROVE FALSE
    BY <2>3, UpgradeStarts, InvoiceFacts
  <2>4. ASSUME NEW i \in 1..Len(log), SubscriptionEvent(i) PROVE FALSE
    BY <2>4, SubscriptionEventFacts
  <2> QED
    BY <2>1, <2>2, <2>3, <2>4
       DEF SubNext, UpsertRead, CreateSubscriptionCheckout, CheckoutSessionCreated,
           CheckoutPaid, StripeChanges, WebhookSelect, UpgradeOrg, WebhookFails
<1> QED BY <1>1, SubInductive, PTL DEF SubSpec, TrialNeverFollowsPayment

\* The organisation's tier drops only by an event of a checkout which another
\* one has overtaken, however late or often the events come.
THEOREM SubscriptionDowngradeNeedsOvertaking == SubSpec => DowngradeNeedsOvertaking
<1> DEFINE Keeps == \A h \in Handlers :
                      UpgradeOrg(h) /\ org' < org => log[handler[h].i].s \in overtaken
<1>1. SubIInv /\ [SubNext]_subVars => [Keeps]_subVars
  <2> SUFFICES ASSUME SubIInv, NEW h \in Handlers, UpgradeOrg(h), org' < org,
                      log[handler[h].i].s \notin overtaken
               PROVE  FALSE
    OBVIOUS
  <2> USE DEF SubIInv
  <2>1. /\ handler[h] # None /\ log[handler[h].i].s \in Checkouts
        /\ org' = sess[log[handler[h].i].s].tier /\ org' \in Tiers
    BY OrgFacts
  <2>2. sess[log[handler[h].i].s].phase = "paid" BY <2>1 DEF DeliveryInv, LogInv
  <2>3. org <= org' BY <2>1, <2>2 DEF OvertakenInv
  <2>4. org \in Nat /\ org' \in Nat BY <2>1 DEF SubTypeOK, Tiers
  <2> QED BY <2>3, <2>4
<1> QED BY <1>1, SubInductive, PTL DEF SubSpec, DowngradeNeedsOvertaking
=============================================================================
