# Formal models of NGApp (NDSEP)

NGApp is a data-protection compliance platform: a TypeScript server (Express,
tRPC, PostgreSQL) that supervises nearly a hundred Go, Rust and Python worker
processes, a React client, and a set of separately deployed orchestration
services.  This directory holds TLA+ models of the parts in which order,
concurrency and failure decide whether the program is right, the TLC
configurations that check them, and TLAPS proofs of their main invariants.

Every definition is a translation of source code, named line by line in
`PROJECT.json` under `map`.  Paths below are relative to `src/`.

    tlc -config Billing.cfg MCBilling.tla      # a model-checking run
    tlapm Billing_proofs.tla                   # a proof module

## 1. Inventory

### Modelled

| Component | State it keeps | Operations | Talks to |
|---|---|---|---|
| Billing (`server/routers/billing.ts`, `server/invoiceOverdueScheduler.ts`) | tables `dpco_invoices`, `dpco_payments`, `dpco_revenue_splits` | tRPC mutations, the Stripe webhook, a daily scan | PostgreSQL, Stripe, mail |
| Circuit breaker (`server/resilience.ts`) | state, two counters, opening time | `execute`, `reset`, retry loop | every outgoing client |
| Event bus (`server/eventBus.ts`, `server/kafka.ts`) | array of events to retry | `publishEvent`, `processRetryQueue` every 15 s | Kafka REST proxy, Dapr |
| Audit chain worker (`workers/rust/audit_chain`) | list of entries, map of daily roots | append, verify, stats, root, proof | the server, over HTTP |
| Compliance lifecycle (`server/workflows/complianceLifecycle.ts`) | `status` of five kinds of rows, penalties, audit rows | `executeTransition` | PostgreSQL |
| Subscriptions (`server/routers/billing.ts` 619-852, 1039-1204) | `dpco_subscriptions`, `dpco_organisations.tier` | plan change, upgrade checkout, five Stripe events | PostgreSQL, Stripe |
| Accreditation (`server/routers/accreditation.ts`) | applications, organisations and their licences | submit, renew, review, decide, suspend, revoke | PostgreSQL, mail |
| Event store and command buses (`server/eventstore`, `server/cqrs`) | `event_store`, a hash chain an aggregate | `dispatch`, `appendEvent`, `verifyChain` | PostgreSQL |
| NOC escalation worker (`workers/go/cmd/noc_escalation`) | policies, schedules and history behind one RWMutex; `noc_alerts` | scanner every 30 s, rotation every hour, HTTP handlers | PostgreSQL, notification channels |
| Worker supervisor (`server/workerManager.ts`, shutdown in `server/_core/index.ts`) | one `WorkerState` a worker, timers, children | start, exit and error events, restart, stop | the operating system |

What makes each of them hard, and what makes it correct:

* **Billing.** Two statements of one request are separated by awaits, so any
  other request may run between the SELECT whose result is tested and the write
  that relies on it.  Stripe repeats deliveries.  Correct: payments and the
  status `paid` agree, a delivery counts once, a Stripe payment belongs to a
  completed checkout of that invoice, and a paid invoice is not paid again.
* **Circuit breaker.** Calls overlap; the outcome of one arrives in a state
  another has brought about.  Correct: it opens at its threshold, closes only
  on consecutive successes, is left only by probing, closes after recovery.
* **Event bus.** The interval does not wait for its previous run; Kafka may
  fail between two events of a batch, or accept an event and not say so; the
  queue is bounded and in memory.  Correct: an event is in one place, the broker
  gets no copy without cause, nothing is lost while Kafka and server are up.
* **Audit chain.** Index arithmetic on odd levels, and a daily root computed at
  its first request.  Correct: what is appended verifies, what is altered is
  located as far as the digest shows it, proofs verify for their own entry only,
  roots can be recomputed.
* **Compliance lifecycle.** Concurrent transitions of one row, and four
  statements that are not one transaction.  Correct: the status follows its
  table, effects happen once, the audit trail invents nothing.
* **Worker supervisor.** Exit events of old children arrive after new ones are
  installed; three kinds of timers race with restarts and shutdown; a spawn may
  fail.  Correct: a worker shown as running has a process, no start is lost or
  doubled, and a crashed one comes back.
* **Subscriptions.** The tier is kept in two tables, written one after the
  other; Stripe's events are repeated and overtake one another; a checkout is
  guarded by a tier that may be old when Stripe has made the session, and older
  when it is paid.  Correct: the tables agree
  between upgrades, the row shows Stripe's status after events in order, no late
  request turns a paid subscription into a trial.
* **Accreditation.** A decision is a SELECT and three writes, a sanction two
  writes, without a transaction or a guard on the status; a licence number has
  the year in it.  Correct: a link is for good, licence numbers agree, no
  organisation is left over, a sanction reaches the organisation.
* **Event store.** A version is counted, a predecessor read and a row inserted
  in three statements.  Correct: the history of an aggregate is gapless and
  linked, and verification accepts what appending made.
* **NOC escalation.** A goroutine asks for the write lock it holds for reading.
  Correct: requests are served and alerts with a policy are notified.

### Not modelled

| Component | Why |
|---|---|
| Breach timer (`server/breachTimer.ts`) | nothing but its tests starts it |
| Outgoing webhooks (`webhookSystem.ts`, `webhookDelivery.ts`, Go `webhook_delivery`) | the first has no caller; no program inserts the columns the Go worker reads |
| Mojaloop callbacks | one UPDATE that overwrites the state: no second step, guard or count |
| Financial ledger worker (Rust) | its statements name columns no schema file creates, so its effect cannot be stated |
| TigerBeetle ledgers (Rust, Go) | in-memory maps, one lock, one request at a time; the server's client posts to a path the Rust one does not route |
| Offline resilience worker (Rust) | delivery is simulated, the batch is only counted |
| Dead-letter processor (`services/go/dlq-processor`) | nothing feeds its channel |
| Bulk imports (`server/productionGaps.ts`) | independent rows; BEGIN goes to a pool, a fact about one line |
| NOC agent approvals, NIP/RTGS and SLA workers | one mutex or one loop each: every operation is atomic |
| gRPC client, consent audit chain | the breaker and the hash chain again, with no operation the models lack |
| Other schedulers | one statement a scan, or mail |
| Sessions, rate limits, key rotation, encryption | per-request checks; cryptography is outside the method |
| Go orchestration services and gateways | HTTP over PostgreSQL and Kafka, one statement a request |
| Monitoring, analytics and machine-learning workers | numerical code without a protocol |
| Routers with CRUD only, PDF and mail rendering, client, schema, deployment | no interleaving of their own to check |

The bulk of the repository's lines is of the last two kinds: hundreds of routers
that read and write single rows, pages, seeds and generated schemas.  What is
modelled is the part where several actors or several steps meet.

`PROJECT.json` lists all of these under `components`, and under `hazards` the
places where the modelled code can go wrong in a way a test would hardly reach.
Where the code does go wrong there, the hazard names no property and its note
says which case the property next to it leaves out.

### Assumption on the schema

The billing handlers name columns that `drizzle/0016_billing_tables.sql` and
`schema.ts` do not create (`stripe_session_id`, `stripe_subscription_id`,
`stripe_customer_id`, `grace_period_end`), write the status `past_due` that the
enum lacks, and hand a JavaScript array to a jsonb column; some lifecycle tables
are in no schema file.  The models take tables as the handlers' statements name
them, and suppose a schema that accepts each statement.  The constraints they
rely on are declared: `UNIQUE (payment_reference)` and `UNIQUE (dpco_org_id)` in
0016, `UNIQUE (aggregate_type, aggregate_id, version)` and `version INTEGER` in
`eventstore/index.ts`.

## 2. Modules

    Billing               <- MCBilling               Billing_proofs
    Subscription          <- MCSubscription          Billing_proofs
    CircuitBreaker        <- MCCircuitBreaker        CircuitBreaker_proofs
    EventBus              <- MCEventBus              EventBus_proofs
    MerkleTree <- AuditChain <- MCAuditChain         AuditChain_proofs
    LifecycleTables <- Lifecycle (abstract), ComplianceLifecycle
    ComplianceLifecycle   <- MCComplianceLifecycle   ComplianceLifecycle_proofs
    WorkerSupervisor      <- MCWorkerSupervisor      Workers_proofs
    NocEscalation         <- MCNocEscalation         Workers_proofs
    AppendLog (abstract) <- EventStore <- MCEventStore   EventStore_proofs
    Accreditation         <- MCAccreditation         Accreditation_proofs

Two modules of proofs are each about two components.  The names of one of the
two, `Subscription` and `NocEscalation`, begin with `Sub` and `Noc` where both
have a definition of the kind: `SubTypeOK`, `NocSpec`.

An operator named `...Unchecked`, `...KeepsCount` and the like, introduced by
`Mutant:`, is a plausible bug of the definition that follows it.  It is not
part of any specification; replacing the definition by it makes the property
that `PROJECT.json` pairs it with fail.

### Billing

`status`, `storedSession`, `payments`, `paidOut` are the columns and rows;
`sessionFor` and `sessionPaid` are what Stripe knows; `req` holds the requests
between their read and their write.  Each handler is a reading action and a
committing action, because the code reads with the pool, awaits, and then
writes on another connection: `RecordPaymentRead`/`RecordPaymentCommit`,
`CheckoutRead`/`CheckoutStore`, `EmailRead`/`EmailSend`,
`WebhookRead`/`WebhookCommit`.  The statements between BEGIN and COMMIT are one
step, `CommitPayment`, since nothing sees them apart.  `WebhookCommit` is
disabled when the reference exists (UNIQUE), and `RequestFails` is then the
step the handler takes.  `RequestFails` is also a failed call or the death of
the process.  Amounts are dropped: no handler compares them with the total.

`again` and `reopened` are history: what the invoice's past was when the
request read it.  `SerialPaymentsRefused` needs them.

### CircuitBreaker

`Admit` is the synchronous head of `execute`, `Succeed`, `AttemptFails`,
`Retry` and `Fail` are the callbacks of the awaited retry loop, `OnSuccess` and
`OnFailure` the methods of the same names.  Time is one bit, `cooled`: the
reset timeout has passed since the breaker was last opened.  `failures` is
counted up to the threshold, as the code only compares it with that.
`okRun` is history: consecutive successes.

### EventBus

`PublishEvent` starts the first send, `PublishOk` and `PublishFails` settle it,
`StartRetry` is one firing of the interval (it splices a batch off the queue),
`RetryOk` and `RetryFails` settle the send of the batch's head.  Slots in
`Runs` are interval runs that overlap.  `Refused` is `kafkaProduce` answering
false, which after its five-second timeout it also does for events the broker
has taken; `broker` and `unanswered` count both.  `Restart` empties everything
that is in the memory of the server.

### MerkleTree and AuditChain

A digest is the input it was computed from: SHA-256 is taken to be free of
collisions.  What is hashed is another matter.  `compute_entry_hash` joins free
strings with colons that these may contain, so a string is modelled as the
sequence of its parts between colons and `Joined` concatenates, which is all
that is left of the borders between the fields.  The id and the two hexadecimal
digests contain no colon and stay apart.  `actor_id` is a field of the content,
`timestamp` one of the entry, and neither is in the digest.  `MerkleTree` has
the loop of the code (`NextLevel`, `Level`, `compute_merkle_root`), its proofs,
and a reference definition from the root down, all as recursive functions, so
that they can be reasoned about.  In `AuditChain` a handler is one step because
each holds the mutex throughout.  `Breaks`, `BrokenAt` and `verified` are the
answers of the reading handlers.

### LifecycleTables, Lifecycle, ComplianceLifecycle

The five tables are data, one record a row.  `Lifecycle` is the promise: one row
of the table at a time.  `ComplianceLifecycle` is the code: `ReadAndMatch`
(SELECT, and the search for a matching row, with role and condition as inputs),
`Update` or `Conflict` (the optimistic UPDATE), `SideEffect`, `ApprovalAudit`,
`SideEffectFails`, `AuditTrail`, and `RequestDies` for a throw outside the inner
try block.  An audit row is its action and its details: an approval writes two
with the action `approve_registration`, one by the side effect (line 53) and one
by `executeTransition` (line 187), and only their details differ.  `done` is
history, the transitions whose UPDATE took effect.  The module is shown to
implement `Lifecycle` with the identity on `kind` and `status`.

### WorkerSupervisor

One entry of `WORKER_DEFS`.  A child is an index of `children`; `process` is
the handle the supervisor keeps, which need not be the only live child.  Each
action is one event-loop callback: `StartAllWorkers`, `SpawnTimerFires`,
`RestartTimerFires`, `ChildExits`, `RestartWorker`, `StopAllWorkers`,
`ServerExits`.  Any `SpawnWorker` may be a `SpawnFails`: a missing binary or a
lack of permission, processes or descriptors ends in an `error` event on the next
tick, before any other callback, which sets `crashed` and schedules nothing; the
child is then "failed".  Any other error is thrown by `spawn`, reaches
`uncaughtException` and is a `ServerExits`.  Timer delays are not compared.
`Incarnations` counts what has become, or will become, of the starts: children
alive and timers pending.

### Subscription

`row` is the organisation's row of `dpco_subscriptions`, `org` its tier in
`dpco_organisations`; `sess` holds the upgrade checkouts (`Checkouts`), `stripe`
and `log` the status of each paid one's subscription at Stripe and the events it
has sent.  An event may be taken up at
any time and any number of times.  `UpsertRead`/`UpsertWrite` are the direct plan
change, `CreateSubscriptionCheckout` the SELECT of the tier and the guard on it,
`CheckoutSessionCreated` Stripe's answer some time later, `WebhookSelect`,
`UpgradeSubscription`, `UpgradeOrg`, `InvoiceEvent` and `SubscriptionEvent` the
statements of the webhook, `WebhookFails` the catch blocks.  `inOrder`,
`disturbed`, `direct` and `overtaken` are history: they say in which cases the
code's promises are conditional, and are no part of the program.

### NocEscalation

`WriterWaits` and `Unread` are `sync.RWMutex`: a writer waits for all readers,
and keeps new ones out while it does.  `Evaluate` takes the read lock,
`Notify` and `Record` are the first recipient of the matching policy, and
`Record` ends in `phase = "blocked"`: Lock under the own RLock.  No action leads
out of that phase but `Crash`, because in the code none does.  `loaded` says
whether the start-up ping succeeded, without which no policy is seeded.

### AppendLog, EventStore

`AppendLog` is the promise: a log that only grows.  `EventStore` is the code:
`Dispatch` chooses a version (count plus one in `cqrs/index.ts`, the clock in
`commandBus.ts`), `ReadPrevious` and `Insert` are the two statements of
`appendEvent`, `Fails` a statement that fails.  `Broken` is what `verifyChain`
reports, continued over the whole history.  The refinement maps the rows, in the
order of their versions, to the log.  `MaxInteger` is scaled down; all that
matters is that `Now` exceeds it.  `dispatch` of `cqrs/index.ts` has no caller at
this commit, the routers use `commandBus.ts`.

### Accreditation

`app` and `orgs` are the two tables; `req` holds the requests between their
statements, `pc` naming the next one.  `DecisionRead`, `DecisionOrg`,
`DecisionLicence` and `DecisionApp` are the statements of `adminMakeDecision`,
`DecisionNumber` its call of `generateLicenceNumber`, which reads the clock
(`year`, moved by `YearPasses`) when the statement before has answered.
`SanctionApp` and `SanctionOrg` those of `adminSuspend` and `adminRevoke`,
`RequestDies` a statement that fails or a process that ends.  `overlapped` and
`died` are history.  A renewal is an application of its own, so that an approval of
it in a later year leaves the earlier application with a number the organisation
no longer has; `LicencesAgree` promises equal numbers where one application is
about an organisation, and for every application a number made from the id of its
organisation.

## 3. Runs

| Run | Instance | Question and answer |
|---|---|---|
| `Billing` | one invoice, two sessions, two requests at once, two payments | Do status and payments agree, does a session count once, are Stripe payments backed, are non-overlapping second payments refused?  Yes. |
| `CircuitBreaker` | four calls, thresholds 3 and 2, two attempts | Does it close only after consecutive successes, and does it close and stay closed after recovery?  Yes. |
| `EventBus` | four events, two overlapping runs, batches of two, queue of three, one lost answer an event, one restart | One owner an event, copies only for lost answers, every held event sent once Kafka and server stay up?  Yes. |
| `AuditChain` | six entries, two contents and four they may be altered to, two days | Do chains verify, are alterations located exactly when the digest differs, are stored roots the reference tree's root of a prefix, do proofs verify for their entry only?  Yes. |
| `ComplianceLifecycle` | one entity of every kind, two requests, seven transitions | One penalty a violation, one audit row a transition and one more an approval at most, refinement of `Lifecycle`?  Yes. |
| `WorkerSupervisor` | two crashes, two manual restarts, two signals | Running has a process, no start lost or doubled, crashed ones come back, unless a spawn fails?  Yes. |
| `Subscription` | two checkouts, two webhook requests, about four events | Tiers agree between undisturbed upgrades, the row mirrors Stripe after events in order, no trial after a payment, a downgrade only by overtaking?  Yes. |
| `NocEscalation` | three alerts, two with a policy, one request, one restart | At most one notification a life of the process, requests served unless the scanner waits for itself?  Yes. |
| `NocEscalation_stuck` | two alerts with a policy, no restart | Is every alert with a policy notified?  No: finding 1. |
| `EventStore` | four approvals, one command, one failure | Is the history an append-only log, and does verification report the reordered payloads only?  Yes. |
| `EventStore_recorded` | one approval, one command | Are commands recorded?  No: finding 2. |
| `Accreditation` | two applications, two administrators, two organisations, five decisions or sanctions, two years | Links permanent, licences agree, no organisation left over, sanctions reach the organisation?  Yes. |

### Bounds

* *Billing.* A conflict takes two requests; a third only repeats one of them.
  Two sessions let both be paid; two payment rows let a second one appear.
  Invoices share no state but the sequence of payments, so one is enough; the
  proofs do not bound them.
* *CircuitBreaker.* Four overlapping calls against thresholds of three and two
  give failures and successes of several periods; two attempts give one retry.
* *EventBus.* A batch of two has a head and a tail; two runs overlap; four
  events fill the queue of three while another is in a batch.  The code's
  numbers are 50 and 1000.  One lost answer an event gives a duplicate, one
  restart a loss.
* *AuditChain.* Five and six leaves give odd levels at the bottom (5, 3) and
  above it (6, 3).  The two contents differ by their digest; each may be altered to
  the other, to one with the colon in another field, and to one of another actor.
  A root is kept on each of two days.
* *ComplianceLifecycle.* Seven transitions reach every row of every table.  The
  two requests cover the race on one row.
* *WorkerSupervisor.* Two crashes and two manual restarts put three children of
  one worker side by side, and any spawn among them may fail.  Two signals cover a
  second SIGTERM while draining.
* *Subscription.* Two checkouts overtake each other; two webhook requests
  overlap; four events are a payment, a failed renewal with both its events, and
  one more.
* *NocEscalation.* One alert wedges the lock, another is then ignored, the third
  has no policy; the restart repeats the notification.
* *EventStore.* Four approvals that count the same rows give one winner and
  three losers at the UNIQUE constraint; `MaxInteger` is above their number.
* *Accreditation.* Two decisions, or a decision and a sanction, are the races
  there are on one application; a second application can share the organisation.
  Five requests (`MaxBegun`) are two overlapping ones and three that follow on
  either application; the year may turn once, before, within or between them.

Runs with `CHECK_DEADLOCK FALSE` model systems that may stop: the chain is full
and the days are over, a lifecycle ends in a final status, the server exits, the
requests of the event store are each made once.
Symmetry is used only in runs without liveness.

### Fairness

* `CircuitBreaker!FairSpec`: the clock runs; every attempt settles and sleeping
  retries wake; callers keep calling.  The last is an assumption on the
  environment: a breaker nobody calls stays open.
* `EventBus!FairSpec`: `setInterval` keeps firing and each produce call settles,
  since the fetch carries a five-second abort signal.
* `WorkerSupervisor!FairSpec`: timers fire, and a child told to terminate does.
  Nothing forces a crash, a restart, a signal, or a spawn to succeed.
* `NocEscalation!NocFairSpec`: goroutines run, and `sync.RWMutex` is fair: Unlock
  admits the readers that wait before another writer gets in.  That is strong
  fairness for the scanner and for a waiting request, since the rotation may
  disable both again and again.  A process that ended is started again by the
  supervisor.  No fairness for rotations, requests, operators and crashes.

## 4. Proofs

TLAPS checks the theorems below for all values of the constants, under the
named assumptions of the modules (non-empty thresholds, natural bounds,
`NoSession` not a session, `None` no value of a row or a request, `Now` above
`MaxInteger`).  Every safety property of every passing run is one of them.

| Module | Theorem | Inductive invariant, beyond the property |
|---|---|---|
| `Billing_proofs` | `BillingTypeCorrect`, `BillingRecordedMeansPaid`, `BillingSerialPaymentsRefused`, `BillingSessionRecordedOnce`, `BillingStripePaymentsAreBacked` | `SessionsInv`: a completed session was created, and a webhook request carries a completed session of its invoice.  `PendingInv`: a request that read an invoice with a payment read a reopened one, since it had seen a status other than paid. |
| `Billing_proofs` (`Subscription`) | `SubscriptionTyping`, `SubscriptionTiersAgree`, `SubscriptionMirrorsStripe`, `SubscriptionNoTrialAfterPayment`, `SubscriptionDowngradeNeedsOvertaking` | `SubIInv`, explained below. |
| `CircuitBreaker_proofs` | `BreakerTypeCorrect`, `BreakerThresholdsRespected`, `BreakerClosesAfterConsecutiveSuccesses`, `BreakerOpenIsLeftByProbing` | `SuccessesAreRecent`: in HALF_OPEN the success counter does not exceed the run of successes.  `SleepersMayRetry`: a sleeping call has an attempt left. |
| `AuditChain_proofs` | `MerkleRootIsReference`, `MerkleProofVerifies`, `ChainTyping`, `ChainLocatesAlterations`, `ChainKeepsRoots`, `ChainProofsVerify` | `Chained`: every entry is the record `append_entry` makes, numbered and linked to the one before.  An altered entry is recomputed to another digest exactly if `Distinguished`.  The rest is induction over levels, explained below. |
| `ComplianceLifecycle_proofs` | `LifecycleTypeCorrect`, `LifecycleOnePenalty`, `LifecycleAuditIsTrue`, `LifecycleRefinement` | Each request in flight carries a row of its entity's table, and penalties together with the requests about to impose one count the transitions into the fined status.  `AuditInv`: for every audit row, its copies in the trail and the requests that still owe one (`Owed`) are together at most the times its transition took effect (`Balanced`); the difference are requests that failed.  A request between the two statements of the side effect carries an approval (`SecondStatements`). |
| `Workers_proofs` | `SupervisorTypeCorrect`, `SupervisorRunningHasAProcess`, `SupervisorAccountsForStarts` | `HandleIsLast`: a non-null handle is the last child and has not ended.  `NeverForgotten`: a worker that is not stopped has a live child or a timer, or its last spawn failed.  `NeverMultiplied` is a count: children that have not ended, restart timers, start timers and a pending start-up (`Incarnations`) are together at most one more than the manual restarts. |
| `EventBus_proofs` | `BusTyping`, `BusSendsOnce`, `BusDuplicates`, `BusGivesUpForCause` | `SentByOne` is what carries the rest: an event in one place is sent by one call at a time.  `UnpublishedIsUnsent`: an event not yet published has no copy, so its first send cannot be a second.  `AnswersAreCopies`: the broker has a copy for every lost answer, so an accepted call confirms its event. |
| `Workers_proofs` (`NocEscalation`) | `NocTyping`, `NocNotifiesOnce`, `NocWedgeIsFinal` | `NoticeInReserve`: a running worker that is not recording has a start left over to pay for its next notification.  `DownIsAsleep`: a crash happens only while another start is allowed. |
| `EventStore_proofs` | `StoreTyping`, `StoreIsGapless`, `StoreIsLinked`, `StoreReportsReordered`, `StoreImplementsLog` | `ChosenVersions`: a version taken is at most one above the count, so the constraint leaves only the next one.  `NextIsLinked`: a request that holds the next version and a predecessor holds the current last hash, since versions never shrink.  `OneRowPerVersion`. |
| `Accreditation_proofs` | `AccreditationTyping`, `LinksArePermanent`, `LicencesAlwaysAgree`, `NoOrgIsLeftOver`, `SanctionsReachOrgs` | `OneDecider` and `DecidesItsOrg`: without overlap one decision works on an application, and on its organisation.  `Stages`, `OwnLicence`, `Named`: what a request has already made and written, and that every number is made from the id of its organisation.  `Numbered`: where one application is about an organisation, the number the organisation has is the one the decision in progress is about to write to the application, or the last one has written.  `LinkedReads`, `Sanctioned`: a sanction not yet on the organisation is in the hands of a request. |

The argument is the usual one: the invariant holds initially, each action keeps
each conjunct it can disturb, and PTL combines the two.

`StoreImplementsLog` and `LifecycleRefinement` are refinements: initial states
map to initial states, and every step to a step of the abstract module or to a
stutter.

*Subscriptions.*  None of the four properties is inductive.  `SubIInv` adds, for
each, what a request in flight has already done:

* `TierInv`: without a disturbance one upgrade is in progress at most, and
  between its two statements the row is ahead of the organisation, at the tier
  of its checkout.  `TiersAgree` is the case in which there is none.
* `OvertakenInv`: a checkout not overtaken still has a tier no lower than the
  organisation's, which its guard had compared, so its event cannot lower it.
* `ShapeInv`: with one paid checkout the log begins with the payment, has no
  second one, and its last event carries the status Stripe has now.  `SerialInv`:
  while the order is kept, one request is in progress at most, and it handles
  the last event taken up.  `MirrorInv`: the row shows the last event handled.
  Together they are `RowMirrorsStripe` when that event is the last of the log.
* `DeliveryInv`, `RequestInv`, `LogInv`: a delivery is an event of the log, of a
  paid checkout, and a request that found a row finds it still there.

*Merkle trees.*  The library's induction theorems take a predicate as a
parameter, which the provers cannot instantiate.  `SetInduction` states
induction for a set of numbers instead, and `LeastNat` under it rests on the
well-foundedness of inclusion between finite sets, a theorem of the library
without such a parameter.  `Recursion` derives from it that a recursive function
of `MerkleTree` exists and obeys its equation; its cases are given by name, as
`Rule`, because an operator cannot be a parameter here either.  With these,
`LevelWidth` computes how wide every level is and `TopLevel` that the loop ends
after `Height` rounds; the proof of `MerkleRootIsReference` shows level by level
that the nodes of the loop are the reference's subtrees, `SiblingGivesParent`
that a node hashed with its sibling gives its parent, and `ProofFitsOneLeaf`
that a proof leads different leaves to different roots.

Eight theorems state facts that no run checks separately, most because a
checked property contains them: `MerkleRootIsReference` and
`MerkleProofVerifies` (for any leaves, not only those of a chain),
`BreakerThresholdsRespected`, `BreakerOpenIsLeftByProbing`, `NocWedgeIsFinal`,
`BusGivesUpForCause` (the only ways the process loses an unconfirmed event are a
restart, a full queue, and a batch abandoned behind an event that failed), and
`StoreIsGapless` and `StoreIsLinked`, on which the refinement and the
verification theorem rest.

Only model-checked: liveness (`ClosesAfterRecovery`, `HeldEventsAreSent`,
`CrashedWorkersComeBack`, `ServedUnlessWedged`), which is out of TLAPS's reach,
and the two counterexamples.

## 5. Findings

1. *The escalation worker locks itself out* (`noc_escalation/main.go:517`).
   `recordEscalation` asks for the write lock while its caller `evaluateAlert`
   holds the read lock until it returns.  The first alert with a policy is
   notified; after it nothing is, and every request that needs the lock hangs
   until the process is restarted, which notifies the same alert again.  Line 657
   says it "polls DB for unacknowledged alerts needing escalation".
2. *Commands are not recorded* (`cqrs/commandBus.ts:56`).  The version is
   `Date.now()`, the column `INTEGER`; every INSERT is refused and the refusal
   logged at debug level.  Line 51 says "Record the command as a domain event in
   the event store".

Further differences seen while modelling, without a run of their own.  The
properties of the runs say what does hold in their place.

* Two payments of one invoice whose reads overlap are both recorded
  (`billing.ts:296`), although line 299 says "Invoice already paid"; the
  dispatch mail can write `sent` over `paid` (`billing.ts:908`); the webhook does
  not match on the session that line 794 stores for it; a webhook that fails is
  answered 200.
* A retry loop goes on while the circuit is open (`resilience.ts:173`), against
  line 199; HALF_OPEN admits every call although line 9 speaks of one.
* The rest of a batch is dropped when one event of it fails
  (`eventBus.ts:136`), and a restart drops the queue, against line 24.
* A daily root misses the entries after its first request
  (`audit_chain/src/main.rs:273`); the digest leaves out timestamp and actor, and
  a colon moved from one of the joined fields to the next does not change it
  (line 53), so `verify_chain` accepts such an alteration.
* A manual restart ends with two processes of one worker
  (`workerManager.ts:1533`); a start timer that fires while the server drains
  leaves a child nobody terminates; a spawn that fails for want of processes or
  descriptors is not tried again (`workerManager.ts:1508`), although line 1506
  exempts a missing binary only; the delay called exponential at line 1529 is
  linear.
* An audit INSERT that fails leaves a lifecycle transition unlogged, and one
  approval has two rows of the action `approve_registration`
  (`complianceLifecycle.ts:53` and 187).
* A late Stripe event overwrites a newer status, and the tier a checkout was
  guarded by may be old when Stripe has made the session, and when it is paid.
* A JSONB payload comes back with its keys in another order, so `verifyChain`
  reports honest events (`eventstore/index.ts:61`).
* An accreditation that was "permanently revoked" (`accreditation.ts:354`) can
  be approved again; rejecting an approved application leaves its organisation
  active; two overlapping approvals insert two organisations; a renewal approved in
  a later year changes the organisation's licence number (`accreditation.ts:49`)
  and leaves the number of the earlier application as it was.

## 6. Order of the work, and what is left

The core came first (billing, breaker, event bus, audit chain, lifecycle,
supervisor), then the components that the hazard list named: event bus with
lost answers and restarts, subscriptions, NOC escalation, event store,
accreditation.  The proofs followed in the same order; those of subscriptions,
of the audit chain with its trees, and of the lifecycle's audit rows came last.

What could follow:

1. The safety core of `ClosesAfterRecovery` as a theorem, as
   `BusGivesUpForCause` is that of `HeldEventsAreSent`: that a run of successes
   never shrinks while a recovered dependency is probed.
2. The registry's edits of organisations (`routers/dpco.ts`) next to
   `Accreditation`, and the supervisor with more than one worker.
