------------------------------- MODULE Billing -------------------------------
(***************************************************************************)
(* DPCO invoices and the payments recorded against them                    *)
(* (server/routers/billing.ts, server/invoiceOverdueScheduler.ts).         *)
(*                                                                         *)
(* Every tRPC mutation and every Stripe webhook delivery is a request that *)
(* runs over one shared PostgreSQL pool.  A statement or a BEGIN..COMMIT   *)
(* block is one step; between the SELECT that opens a request and the      *)
(* write that ends it any other request may run.  The model keeps the rows *)
(* the handlers read and write and drops amounts, texts and timestamps.    *)
(*                                                                         *)
(* Tables are taken as the handlers' own statements name them; the one     *)
(* constraint used is UNIQUE (payment_reference) of                        *)
(* drizzle/0016_billing_tables.sql.                                        *)
(***************************************************************************)
EXTENDS Naturals, Sequences

CONSTANTS
  Invoices,      \* ids an invoice row can get
  Sessions,      \* Stripe checkout session ids
  Requests,      \* request slots: how many requests may be in flight at once
  NoSession,     \* NULL in stripe_session_id; the reference of a manual payment
  MaxPayments    \* bound on the rows of dpco_payments

ASSUME BillingAssumption ==
  /\ NoSession \notin Sessions
  /\ MaxPayments \in Nat

VARIABLES
  status,        \* dpco_invoices.status, "none" before the row exists
  pastDue,       \* due_date < NOW()
  storedSession, \* dpco_invoices.stripe_session_id
  sessionFor,    \* Stripe: the invoice in a session's metadata
  sessionPaid,   \* Stripe: the sessions whose checkout has completed
  payments,      \* rows of dpco_payments by id, each with its revenue split
  paidOut,       \* ids of payments whose split has dpco_paid_out = TRUE
  req,           \* requests between their first read and their last write
  reopened       \* history: the invoice left 'paid' since its last payment

vars == <<status, pastDue, storedSession, sessionFor, sessionPaid,
          payments, paidOut, req, reopened>>

Status == {"draft", "sent", "paid", "overdue", "cancelled"}

PaymentIds == 1..MaxPayments

\* A request in flight: what it is doing, on which invoice, for which session,
\* and what it saw when it read the invoice row.
Pending ==
  [op       : {"pay", "hook", "checkout", "email"},
   inv      : Invoices,
   ses      : Sessions \cup {NoSession},
   draft    : BOOLEAN,    \* the row's status was 'draft'
   again    : BOOLEAN,    \* history: the invoice had a payment already
   reopened : BOOLEAN]    \* history: reopened[inv] at that read

Idle == [op |-> "idle"]

\* A payment row; ref abstracts payment_reference: the session of a
\* "STRIPE-<session>" reference, NoSession for a manual "PAY-<ms>-<org>" one.
Payment ==
  [inv      : Invoices,
   ref      : Sessions \cup {NoSession},
   again    : BOOLEAN,
   reopened : BOOLEAN]

Paid(i) == \E k \in 1..Len(payments) : payments[k].inv = i

TypeOK ==
  /\ status \in [Invoices -> Status \cup {"none"}]
  /\ pastDue \in [Invoices -> BOOLEAN]
  /\ storedSession \in [Invoices -> Sessions \cup {NoSession}]
  /\ sessionFor \in [Sessions -> Invoices \cup {NoSession}]
  /\ sessionPaid \subseteq Sessions
  /\ payments \in Seq(Payment)
  /\ Len(payments) <= MaxPayments
  /\ paidOut \subseteq 1..Len(payments)
  /\ req \in [Requests -> Pending \cup {Idle}]
  /\ reopened \in [Invoices -> BOOLEAN]

Init ==
  /\ status = [i \in Invoices |-> "none"]
  /\ pastDue = [i \in Invoices |-> FALSE]
  /\ storedSession = [i \in Invoices |-> NoSession]
  /\ sessionFor = [s \in Sessions |-> NoSession]
  /\ sessionPaid = {}
  /\ payments = <<>>
  /\ paidOut = {}
  /\ req = [r \in Requests |-> Idle]
  /\ reopened = [i \in Invoices |-> FALSE]

-----------------------------------------------------------------------------
(* Steps shared by the handlers *)

\* The SELECT of the invoice row that opens a request.
ReadInvoice(r, op, i, s) ==
  /\ req[r] = Idle
  /\ status[i] # "none"
  /\ req' = [req EXCEPT ![r] =
       [op |-> op, inv |-> i, ses |-> s, draft |-> status[i] = "draft",
        again |-> Paid(i), reopened |-> reopened[i]]]

Finish(r) == req' = [req EXCEPT ![r] = Idle]

\* The three statements of the payment transaction: insert the payment, insert
\* its revenue split, and mark the invoice paid whatever its status is now.
CommitPayment(r, ref) ==
  LET i == req[r].inv IN
  /\ Len(payments) < MaxPayments
  /\ payments' = Append(payments,
       [inv |-> i, ref |-> ref, again |-> req[r].again, reopened |-> req[r].reopened])
  /\ status' = [status EXCEPT ![i] = "paid"]
  /\ reopened' = [reopened EXCEPT ![i] = FALSE]
  /\ Finish(r)

\* An unconditional UPDATE ... SET status, with the history it leaves.
SetStatus(i, s) ==
  /\ status' = [status EXCEPT ![i] = s]
  /\ reopened' = [reopened EXCEPT ![i] =
                    @ \/ (status[i] = "paid" /\ s # "paid")]

-----------------------------------------------------------------------------
(* tRPC mutations *)

CreateInvoice(i) ==
  /\ status[i] = "none"
  /\ status' = [status EXCEPT ![i] = "draft"]
  /\ UNCHANGED <<pastDue, storedSession, sessionFor, sessionPaid, payments,
                 paidOut, req, reopened>>

\* Any status may be set over any other, without looking at payments.
UpdateInvoiceStatus(i, s) ==
  /\ status[i] # "none"
  /\ SetStatus(i, s)
  /\ UNCHANGED <<pastDue, storedSession, sessionFor, sessionPaid, payments,
                 paidOut, req>>

\* Mutant: the status check of recordPayment is missing.
RecordPaymentReadUnchecked(r, i) ==
  /\ ReadInvoice(r, "pay", i, NoSession)
  /\ UNCHANGED <<status, pastDue, storedSession, sessionFor, sessionPaid,
                 payments, paidOut, reopened>>

\* recordPayment reads the invoice and refuses one that is paid ...
RecordPaymentRead(r, i) ==
  /\ status[i] # "paid"
  /\ ReadInvoice(r, "pay", i, NoSession)
  /\ UNCHANGED <<status, pastDue, storedSession, sessionFor, sessionPaid,
                 payments, paidOut, reopened>>

\* ... and later runs the transaction on another connection.
RecordPaymentCommit(r) ==
  /\ req[r].op = "pay"
  /\ CommitPayment(r, NoSession)
  /\ UNCHANGED <<pastDue, storedSession, sessionFor, sessionPaid, paidOut>>

CheckoutRead(r, i) ==
  /\ status[i] # "paid"
  /\ ReadInvoice(r, "checkout", i, NoSession)
  /\ UNCHANGED <<status, pastDue, storedSession, sessionFor, sessionPaid,
                 payments, paidOut, reopened>>

\* Stripe creates a session that carries the invoice id, and the row's
\* stripe_session_id is overwritten with it.
CheckoutStore(r, s) ==
  /\ req[r].op = "checkout"
  /\ sessionFor[s] = NoSession
  /\ sessionFor' = [sessionFor EXCEPT ![s] = req[r].inv]
  /\ storedSession' = [storedSession EXCEPT ![req[r].inv] = s]
  /\ Finish(r)
  /\ UNCHANGED <<status, pastDue, sessionPaid, payments, paidOut, reopened>>

EmailRead(r, i) ==
  /\ ReadInvoice(r, "email", i, NoSession)
  /\ UNCHANGED <<status, pastDue, storedSession, sessionFor, sessionPaid,
                 payments, paidOut, reopened>>

\* After the PDF and the notification, the status read at the start decides.
EmailSend(r) ==
  /\ req[r].op = "email"
  /\ IF req[r].draft
     THEN SetStatus(req[r].inv, "sent")
     ELSE UNCHANGED <<status, reopened>>
  /\ Finish(r)
  /\ UNCHANGED <<pastDue, storedSession, sessionFor, sessionPaid, payments,
                 paidOut>>

\* Mutant: a payout is noted for ids that have no split row.
MarkDpcoPaidOutUnchecked(ids) ==
  /\ ids # {}
  /\ paidOut' = paidOut \cup ids
  /\ UNCHANGED <<status, pastDue, storedSession, sessionFor, sessionPaid,
                 payments, req, reopened>>

\* Ids without a split row match nothing in the UPDATE.
MarkDpcoPaidOut(ids) ==
  /\ ids # {}
  /\ paidOut' = paidOut \cup (ids \cap 1..Len(payments))
  /\ UNCHANGED <<status, pastDue, storedSession, sessionFor, sessionPaid,
                 payments, req, reopened>>

-----------------------------------------------------------------------------
(* Stripe webhook: checkout.session.completed *)

\* The payer completes a checkout page: from now on Stripe may deliver the
\* event, any number of times and concurrently with itself.
SessionCompletes(s) ==
  /\ sessionFor[s] # NoSession
  /\ sessionPaid' = sessionPaid \cup {s}
  /\ UNCHANGED <<status, pastDue, storedSession, sessionFor, payments,
                 paidOut, req, reopened>>

\* Mutant: sessions that were only opened are handled like completed ones.
WebhookReadAnyEvent(r, s) ==
  /\ sessionFor[s] # NoSession
  /\ status[sessionFor[s]] # "paid"
  /\ ReadInvoice(r, "hook", sessionFor[s], s)
  /\ UNCHANGED <<status, pastDue, storedSession, sessionFor, sessionPaid,
                 payments, paidOut, reopened>>

\* The handler finds the invoice through the session's metadata and goes on
\* only when the row is not paid.
WebhookRead(r, s) ==
  /\ s \in sessionPaid
  /\ status[sessionFor[s]] # "paid"
  /\ ReadInvoice(r, "hook", sessionFor[s], s)
  /\ UNCHANGED <<status, pastDue, storedSession, sessionFor, sessionPaid,
                 payments, paidOut, reopened>>

\* Mutant: the reference is not unique, as with a timestamp in it.
WebhookCommitAgain(r) ==
  /\ req[r].op = "hook"
  /\ CommitPayment(r, req[r].ses)
  /\ UNCHANGED <<pastDue, storedSession, sessionFor, sessionPaid, paidOut>>

\* UNIQUE (payment_reference) lets one row in per session.
WebhookCommit(r) ==
  /\ req[r].op = "hook"
  /\ \A k \in 1..Len(payments) : payments[k].ref # req[r].ses
  /\ CommitPayment(r, req[r].ses)
  /\ UNCHANGED <<pastDue, storedSession, sessionFor, sessionPaid, paidOut>>

\* A request ends without a write: a rolled back transaction (a duplicate
\* reference, a lost connection), a failed Stripe, PDF or notification call,
\* or the death of the server process.
RequestFails(r) ==
  /\ req[r] # Idle
  /\ Finish(r)
  /\ UNCHANGED <<status, pastDue, storedSession, sessionFor, sessionPaid,
                 payments, paidOut, reopened>>

-----------------------------------------------------------------------------
(* Time and the overdue scheduler *)

DueDatePasses(i) ==
  /\ pastDue' = [pastDue EXCEPT ![i] = TRUE]
  /\ UNCHANGED <<status, storedSession, sessionFor, sessionPaid, payments,
                 paidOut, req, reopened>>

Late(i) == status[i] = "sent" /\ pastDue[i]

\* Mutant: the UPDATE looks at the due date alone.
OverdueCheckAnyStatus ==
  /\ \E i \in Invoices : pastDue[i] /\ status[i] \notin {"none", "overdue"}
  /\ status' = [i \in Invoices |->
       IF pastDue[i] /\ status[i] # "none" THEN "overdue" ELSE status[i]]
  /\ UNCHANGED <<pastDue, storedSession, sessionFor, sessionPaid, payments,
                 paidOut, req, reopened>>

\* One guarded UPDATE over all rows.
OverdueCheck ==
  /\ \E i \in Invoices : Late(i)
  /\ status' = [i \in Invoices |-> IF Late(i) THEN "overdue" ELSE status[i]]
  /\ UNCHANGED <<pastDue, storedSession, sessionFor, sessionPaid, payments,
                 paidOut, req, reopened>>

-----------------------------------------------------------------------------
Next ==
  \/ \E i \in Invoices : CreateInvoice(i) \/ DueDatePasses(i)
  \/ \E i \in Invoices, s \in Status : UpdateInvoiceStatus(i, s)
  \/ \E r \in Requests, i \in Invoices :
       RecordPaymentRead(r, i) \/ CheckoutRead(r, i) \/ EmailRead(r, i)
  \/ \E r \in Requests, s \in Sessions : CheckoutStore(r, s) \/ WebhookRead(r, s)
  \/ \E r \in Requests :
       RecordPaymentCommit(r) \/ WebhookCommit(r) \/ EmailSend(r) \/ RequestFails(r)
  \/ \E s \in Sessions : SessionCompletes(s)
  \/ \E ids \in SUBSET PaymentIds : MarkDpcoPaidOut(ids)
  \/ OverdueCheck

Spec == Init /\ [][Next]_vars

-----------------------------------------------------------------------------
(* Properties *)

\* A recorded payment and the status 'paid' never drift apart by themselves:
\* an invoice with a payment row is 'paid' unless an explicit status change or
\* a stale e-mail write took it out of 'paid' after that payment.  The overdue
\* scheduler, the webhooks and checkout never do.
RecordedMeansPaid ==
  \A i \in Invoices :
    Paid(i) /\ ~reopened[i] => status[i] = "paid"

\* recordPayment and the webhook check the status before their transaction, so
\* a second payment can only be recorded by a request that read the invoice
\* before the first one was committed, or after the invoice had been reopened:
\* payments that do not overlap are refused.
SerialPaymentsRefused ==
  \A k \in 1..Len(payments) : payments[k].again => payments[k].reopened

\* Stripe delivers an event at least once and deliveries may overlap; however
\* they interleave, one checkout session yields at most one payment row.
SessionRecordedOnce ==
  \A j, k \in 1..Len(payments) :
    payments[j].ref = payments[k].ref /\ payments[j].ref # NoSession => j = k

\* The reference of a Stripe payment names a session whose checkout completed
\* and was opened for that very invoice.
StripePaymentsAreBacked ==
  \A k \in 1..Len(payments) :
    LET s == payments[k].ref IN
    s # NoSession => s \in sessionPaid /\ sessionFor[s] = payments[k].inv

=============================================================================
