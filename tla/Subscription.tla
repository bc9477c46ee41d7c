---------------------------- MODULE Subscription ----------------------------
(***************************************************************************)
(* The subscription of one DPCO organisation (server/routers/billing.ts):  *)
(* direct plan changes, upgrade checkouts, and Stripe's webhook events,    *)
(* which arrive late, repeated and in any order.  The tier is kept twice,  *)
(* in dpco_subscriptions and in dpco_organisations.  Every statement is a  *)
(* transaction of its own.  A webhook failure is logged and answered 200.  *)
(* The names every specification has are prefixed, so that Billing_proofs  *)
(* can extend this module and Billing.                                     *)
(***************************************************************************)
EXTENDS Naturals, Sequences

CONSTANTS
  Checkouts,  \* upgrade checkouts; each has a Stripe subscription and customer
  Handlers,   \* webhook requests that may be in progress at once
  MaxEvents,  \* bound: events Stripe sends
  None        \* no row, nothing in progress

Tiers == 1..3  \* tierOrder: starter, professional, enterprise

VARIABLES
  org,        \* dpco_organisations.tier
  row,        \* the row of dpco_subscriptions: tier, status, customer
  request,    \* upsertSubscription after its SELECT: tier, found
  sess,       \* sessions: phase, tier, base (the tier read by the guard)
  stripe,     \* status of each session's subscription at Stripe
  log,        \* events Stripe has sent, in order
  handler,    \* webhook requests: pc, index of the event, found
  inOrder,    \* history: events handled in order, 0 after a deviation
  disturbed,  \* history: upgrade handlers have overlapped, or one has failed
  direct,     \* history: row.tier is that of a direct plan change
  overtaken   \* history: checkouts that had read the tier when another set org

subVars == <<org, row, request, sess, stripe, log, handler, inOrder, disturbed,
             direct, overtaken>>

Rows == [tier : Tiers, status : {"trial", "active", "past_due", "suspended", "cancelled"},
         customer : Checkouts \cup {None}]
PlanChanges == [tier : Tiers, found : BOOLEAN]
Events == [type : {"completed", "updated", "payment_failed", "paid", "deleted"},
           s : Checkouts, status : {"active", "past_due", "unpaid", "canceled"}]
Deliveries == [pc : {"write", "org"}, i : 1..MaxEvents + 1, found : BOOLEAN]

ASSUME SubscriptionAssumption ==
  /\ MaxEvents \in Nat
  /\ None \notin Checkouts \cup Rows \cup PlanChanges \cup Deliveries

SubTypeOK ==
  /\ org \in Tiers
  /\ row \in Rows \cup {None}
  /\ request \in PlanChanges \cup {None}
  /\ sess \in [Checkouts -> [phase : {"none", "checked", "open", "paid"},
                             tier : Tiers, base : Tiers]]
  /\ stripe \in [Checkouts -> {"none", "active", "past_due", "unpaid", "canceled"}]
  /\ log \in Seq(Events) /\ Len(log) <= MaxEvents + 1
  /\ handler \in [Handlers -> Deliveries \cup {None}]
  /\ inOrder \in 0..MaxEvents + 2
  /\ disturbed \in BOOLEAN
  /\ direct \in BOOLEAN
  /\ overtaken \subseteq Checkouts

SubInit ==
  /\ org = 1
  /\ row = None
  /\ request = None
  /\ sess = [s \in Checkouts |-> [phase |-> "none", tier |-> 1, base |-> 1]]
  /\ stripe = [s \in Checkouts |-> "none"]
  /\ log = <<>>
  /\ handler = [h \in Handlers |-> None]
  /\ inOrder = 1
  /\ disturbed = FALSE
  /\ direct = FALSE
  /\ overtaken = {}

-----------------------------------------------------------------------------
(* Procedures of the router *)

\* upsertSubscription: SELECT id.
UpsertRead(t) ==
  /\ request = None
  /\ request' = [tier |-> t, found |-> row # None]
  /\ UNCHANGED <<org, row, sess, stripe, log, handler, inOrder, disturbed, direct, overtaken>>

\* Mutant: the INSERT replaces a row that has appeared since the SELECT.
UpsertReplaces ==
  /\ request # None
  /\ row' = IF request.found THEN [row EXCEPT !.tier = request.tier]
            ELSE [tier |-> request.tier, status |-> "trial", customer |-> None]
  /\ direct' = TRUE
  /\ request' = None
  /\ UNCHANGED <<org, sess, stripe, log, handler, inOrder, disturbed, overtaken>>

\* UPDATE leaves the status alone; UNIQUE (dpco_org_id) refuses a second row.
UpsertWrite ==
  /\ request # None
  /\ IF request.found
     THEN row' = [row EXCEPT !.tier = request.tier] /\ direct' = TRUE
     ELSE IF row = None
     THEN /\ row' = [tier |-> request.tier, status |-> "trial", customer |-> None]
          /\ direct' = TRUE
     ELSE UNCHANGED <<row, direct>>
  /\ request' = None
  /\ UNCHANGED <<org, sess, stripe, log, handler, inOrder, disturbed, overtaken>>

\* Mutant: no guard against checkouts of a lower tier.
CheckoutAnyTier(s, t) ==
  /\ sess[s].phase = "none"
  /\ sess' = [sess EXCEPT ![s] = [phase |-> "checked", tier |-> t, base |-> org]]
  /\ UNCHANGED <<org, row, request, stripe, log, handler, inOrder, disturbed, direct, overtaken>>

\* createSubscriptionCheckout: the SELECT of the tier and the guard on it.
CreateSubscriptionCheckout(s, t) ==
  /\ sess[s].phase = "none"
  /\ t > org
  /\ sess' = [sess EXCEPT ![s] = [phase |-> "checked", tier |-> t, base |-> org]]
  /\ UNCHANGED <<org, row, request, stripe, log, handler, inOrder, disturbed, direct, overtaken>>

\* Stripe has created the session, for the tier checked some time ago.  The
\* UPDATE that follows stores stripe_session_id, which is never read.
CheckoutSessionCreated(s) ==
  /\ sess[s].phase = "checked"
  /\ sess' = [sess EXCEPT ![s].phase = "open"]
  /\ UNCHANGED <<org, row, request, stripe, log, handler, inOrder, disturbed, direct, overtaken>>

-----------------------------------------------------------------------------
(* Stripe *)

Event(t, s, st) == [type |-> t, s |-> s, status |-> st]

CheckoutPaid(s) ==
  /\ Len(log) < MaxEvents
  /\ sess[s].phase = "open"
  /\ sess' = [sess EXCEPT ![s].phase = "paid"]
  /\ stripe' = [stripe EXCEPT ![s] = "active"]
  /\ log' = Append(log, Event("completed", s, "active"))
  /\ UNCHANGED <<org, row, request, handler, inOrder, disturbed, direct, overtaken>>

\* A renewal fails, is paid after all or given up, the subscription ends; the
\* invoice's event, where there is one, precedes the subscription's.
StripeChanges(s) ==
  /\ Len(log) < MaxEvents
  /\ \/ /\ stripe[s] = "active"
        /\ stripe' = [stripe EXCEPT ![s] = "past_due"]
        /\ log' = log \o <<Event("payment_failed", s, "past_due"),
                           Event("updated", s, "past_due")>>
     \/ /\ stripe[s] \in {"past_due", "unpaid"}
        /\ stripe' = [stripe EXCEPT ![s] = "active"]
        /\ log' = log \o <<Event("paid", s, "active"), Event("updated", s, "active")>>
     \/ /\ stripe[s] = "past_due"
        /\ stripe' = [stripe EXCEPT ![s] = "unpaid"]
        /\ log' = Append(log, Event("updated", s, "unpaid"))
     \/ /\ stripe[s] \in {"active", "past_due", "unpaid"}
        /\ stripe' = [stripe EXCEPT ![s] = "canceled"]
        /\ log' = Append(log, Event("deleted", s, "canceled"))
  /\ UNCHANGED <<org, row, request, sess, handler, inOrder, disturbed, direct, overtaken>>

-----------------------------------------------------------------------------
(* handleStripeWebhook *)

NothingInProgress == \A h \in Handlers : handler[h] = None

\* An event taken up while nothing is in progress and every earlier one has
\* been handled once keeps the order.
Arrives(i) == inOrder' = IF NothingInProgress /\ i = inOrder THEN i + 1 ELSE 0

Upgrading(h) == handler[h] # None /\ log[handler[h].i].type = "completed"

\* completed, payment_failed and paid: the SELECT, by organisation or customer.
WebhookSelect(h, i) ==
  /\ handler[h] = None
  /\ log[i].type \in {"completed", "payment_failed", "paid"}
  /\ LET found == IF log[i].type = "completed" THEN row # None
                  ELSE row # None /\ row.customer = log[i].s
     IN handler' = [handler EXCEPT ![h] =
          IF found \/ log[i].type = "completed"
          THEN [pc |-> "write", i |-> i, found |-> found] ELSE None]
  /\ Arrives(i)
  /\ disturbed' = (disturbed \/ (log[i].type = "completed" /\ \E k \in Handlers : Upgrading(k)))
  /\ UNCHANGED <<org, row, request, sess, stripe, log, direct, overtaken>>

\* Mutant: an upgrade changes the tier and keeps the old status.
UpgradeKeepsStatus(h) ==
  LET s == log[handler[h].i].s IN
  /\ Upgrading(h) /\ handler[h].pc = "write"
  /\ handler[h].found \/ row = None
  /\ row' = [tier |-> sess[s].tier, status |-> IF row = None THEN "active" ELSE row.status,
             customer |-> s]
  /\ direct' = FALSE
  /\ handler' = [handler EXCEPT ![h].pc = "org"]
  /\ UNCHANGED <<org, request, sess, stripe, log, inOrder, disturbed, overtaken>>

\* checkout.session.completed: UPDATE the row, or INSERT it if none has appeared.
UpgradeSubscription(h) ==
  LET s == log[handler[h].i].s IN
  /\ Upgrading(h) /\ handler[h].pc = "write"
  /\ handler[h].found \/ row = None
  /\ row' = [tier |-> sess[s].tier, status |-> "active", customer |-> s]
  /\ direct' = FALSE
  /\ handler' = [handler EXCEPT ![h].pc = "org"]
  /\ UNCHANGED <<org, request, sess, stripe, log, inOrder, disturbed, overtaken>>

\* Mutant: the organisation gets the tier the guard read.
UpgradeOrgToBase(h) ==
  LET s == log[handler[h].i].s IN
  /\ Upgrading(h) /\ handler[h].pc = "org"
  /\ org' = sess[s].base
  /\ overtaken' = overtaken \cup {x \in Checkouts \ {s} : sess[x].phase # "none"}
  /\ handler' = [handler EXCEPT ![h] = None]
  /\ UNCHANGED <<row, request, sess, stripe, log, inOrder, disturbed, direct>>

\* UPDATE dpco_organisations: a statement of its own.
UpgradeOrg(h) ==
  LET s == log[handler[h].i].s IN
  /\ Upgrading(h) /\ handler[h].pc = "org"
  /\ org' = sess[s].tier
  /\ overtaken' = overtaken \cup {x \in Checkouts \ {s} : sess[x].phase # "none"}
  /\ handler' = [handler EXCEPT ![h] = None]
  /\ UNCHANGED <<row, request, sess, stripe, log, inOrder, disturbed, direct>>

\* invoice.payment_failed and invoice.paid: UPDATE by organisation.
InvoiceEvent(h) ==
  /\ handler[h] # None /\ ~Upgrading(h)
  /\ row' = [row EXCEPT !.status =
       IF log[handler[h].i].type = "paid" THEN "active" ELSE "past_due"]
  /\ handler' = [handler EXCEPT ![h] = None]
  /\ UNCHANGED <<org, request, sess, stripe, log, inOrder, disturbed, direct, overtaken>>

\* A statement fails (the refused INSERT among them): the rest is skipped.
WebhookFails(h) ==
  /\ handler[h] # None
  /\ handler' = [handler EXCEPT ![h] = None]
  /\ inOrder' = 0
  /\ disturbed' = TRUE
  /\ UNCHANGED <<org, row, request, sess, stripe, log, direct, overtaken>>

\* Mutant: Stripe's word for a status is stored as it is.
StatusOfStripe(e) == e.status

NewStatus(e) ==
  IF e.type = "deleted" THEN "cancelled"
  ELSE IF e.status \in {"active", "past_due"} THEN e.status ELSE "suspended"

\* customer.subscription.updated and .deleted: one UPDATE, whatever the row says.
SubscriptionEvent(i) ==
  /\ log[i].type \in {"updated", "deleted"}
  /\ row' = IF row = None THEN None ELSE [row EXCEPT !.status = NewStatus(log[i])]
  /\ Arrives(i)
  /\ UNCHANGED <<org, request, sess, stripe, log, handler, disturbed, direct, overtaken>>

SubNext ==
  \/ \E t \in Tiers : UpsertRead(t)
  \/ UpsertWrite
  \/ \E s \in Checkouts, t \in Tiers : CreateSubscriptionCheckout(s, t)
  \/ \E s \in Checkouts : CheckoutSessionCreated(s)
  \/ \E s \in Checkouts : CheckoutPaid(s)
  \/ \E s \in Checkouts : StripeChanges(s)
  \/ \E h \in Handlers, i \in 1..Len(log) : WebhookSelect(h, i)
  \/ \E h \in Handlers : UpgradeSubscription(h)
  \/ \E h \in Handlers : UpgradeOrg(h)
  \/ \E h \in Handlers : InvoiceEvent(h)
  \/ \E h \in Handlers : WebhookFails(h)
  \/ \E i \in 1..Len(log) : SubscriptionEvent(i)

SubSpec == SubInit /\ [][SubNext]_subVars

-----------------------------------------------------------------------------
(* Properties *)

\* A plan change that found no row never turns a subscription paid meanwhile
\* into a trial: the row is inserted once, whichever of the two comes first.
TrialNeverFollowsPayment ==
  [][row' # None /\ row'.status = "trial" => row = None \/ row.status = "trial"]_subVars

\* createSubscriptionCheckout refuses downgrades by the tier it reads; Stripe's
\* session exists some time after that, may be paid much later, and its event
\* repeated.  The organisation's tier drops only if another upgrade was applied
\* to it since the guard read it (while Stripe was asked included).
DowngradeNeedsOvertaking ==
  [][\A h \in Handlers : UpgradeOrg(h) /\ org' < org => log[handler[h].i].s \in overtaken]_subVars

\* "Also update the org tier column" (billing.ts:1101): the two tiers agree
\* between upgrades as long as no two of them overlap, none fails half-way and
\* no plan has been changed directly since.
TiersAgree ==
  ~disturbed /\ ~direct /\ row # None /\ (\A h \in Handlers : ~Upgrading(h))
    => row.tier = org

\* When the events of one paid checkout have each been handled once and in
\* order, the row shows the status the subscription has at Stripe.
RowMirrorsStripe ==
  \A s \in Checkouts :
    /\ inOrder = Len(log) + 1
    /\ NothingInProgress
    /\ \A x \in Checkouts : sess[x].phase = "paid" <=> x = s
    => row # None /\ row.status = NewStatus([type |->
         IF stripe[s] = "canceled" THEN "deleted" ELSE "updated", status |-> stripe[s]])
=============================================================================
