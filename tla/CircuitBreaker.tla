--------------------------- MODULE CircuitBreaker ---------------------------
(***************************************************************************)
(* One named circuit breaker and the retry loops that run inside it        *)
(* (server/resilience.ts: CircuitBreaker, withRetry, withResilience).      *)
(*                                                                         *)
(* execute() decides on admission synchronously and then awaits the        *)
(* attempts of withRetry; onSuccess or onFailure runs when the last one    *)
(* settles, in whatever state other calls have brought the breaker to.     *)
(* Time is abstracted: cooled says that resetTimeoutMs has passed since    *)
(* lastOpenedAt.  Every error is retryable, as by default.                 *)
(***************************************************************************)
EXTENDS Naturals

CONSTANTS
  Calls,             \* call slots: how many calls may be in flight at once
  FailureThreshold,  \* opts.failureThreshold
  SuccessThreshold,  \* opts.successThreshold
  MaxAttempts        \* maxAttempts of withRetry

ASSUME BreakerAssumption ==
  /\ FailureThreshold \in Nat \ {0}
  /\ SuccessThreshold \in Nat \ {0}
  /\ MaxAttempts \in Nat \ {0}

VARIABLES
  state,      \* "CLOSED", "OPEN", "HALF_OPEN"
  failures,   \* failures, counted up to FailureThreshold
  successes,  \* successes
  cooled,     \* Date.now() - lastOpenedAt >= resetTimeoutMs
  call,       \* the calls between admission and outcome
  healthy,    \* the dependency answers
  okRun       \* history: successful calls since the last failed one or reset,
              \* counted up to SuccessThreshold

vars == <<state, failures, successes, cooled, call, healthy, okRun>>

States == {"CLOSED", "OPEN", "HALF_OPEN"}

\* An admitted call: an attempt is running, or withRetry sleeps before the next.
Active ==
  [phase : {"running", "sleeping"}, attempt : 1..MaxAttempts]

Free == [phase |-> "free"]

TypeOK ==
  /\ state \in States
  /\ failures \in 0..FailureThreshold
  /\ successes \in 0..SuccessThreshold
  /\ cooled \in BOOLEAN
  /\ call \in [Calls -> Active \cup {Free}]
  /\ healthy \in BOOLEAN
  /\ okRun \in 0..SuccessThreshold

Init ==
  /\ state = "CLOSED"
  /\ failures = 0
  /\ successes = 0
  /\ cooled = TRUE
  /\ call = [c \in Calls |-> Free]
  /\ healthy = TRUE
  /\ okRun = 0

UpTo(bound, n) == IF n < bound THEN n ELSE bound

-----------------------------------------------------------------------------
(* The state machine *)

\* Mutant: the success count of an earlier HALF_OPEN period is kept.
AdmissionKeepsCount ==
  \/ /\ state = "OPEN"
     /\ cooled
     /\ state' = "HALF_OPEN"
     /\ UNCHANGED successes
  \/ /\ state # "OPEN"
     /\ UNCHANGED <<state, successes>>

\* Mutant: every admission outside CLOSED restarts the success count.
AdmissionRestartsCount ==
  \/ /\ \/ state = "OPEN" /\ cooled
        \/ state = "HALF_OPEN"
     /\ state' = "HALF_OPEN"
     /\ successes' = 0
  \/ /\ state = "CLOSED"
     /\ UNCHANGED <<state, successes>>

\* The head of execute(): an OPEN breaker that has cooled down starts probing;
\* one that has not throws, which changes nothing.
Admission ==
  \/ /\ state = "OPEN"
     /\ cooled
     /\ state' = "HALF_OPEN"
     /\ successes' = 0
  \/ /\ state # "OPEN"
     /\ UNCHANGED <<state, successes>>

\* Mutant: the success count of HALF_OPEN may run past its threshold.
OnSuccessLate ==
  /\ failures' = 0
  /\ IF state = "HALF_OPEN"
     THEN /\ successes' = successes + 1
          /\ state' = IF successes' > SuccessThreshold THEN "CLOSED" ELSE state
     ELSE UNCHANGED <<state, successes>>
  /\ okRun' = UpTo(SuccessThreshold, okRun + 1)
  /\ UNCHANGED cooled

OnSuccess ==
  /\ failures' = 0
  /\ IF state = "HALF_OPEN"
     THEN /\ successes' = successes + 1
          /\ state' = IF successes' >= SuccessThreshold THEN "CLOSED" ELSE state
     ELSE UNCHANGED <<state, successes>>
  /\ okRun' = UpTo(SuccessThreshold, okRun + 1)
  /\ UNCHANGED cooled

\* An OPEN breaker may be reopened by a late failure: its timeout restarts.
OnFailure ==
  /\ failures' = UpTo(FailureThreshold, failures + 1)
  /\ IF state = "HALF_OPEN" \/ failures' >= FailureThreshold
     THEN state' = "OPEN" /\ cooled' = FALSE
     ELSE UNCHANGED <<state, cooled>>
  /\ okRun' = 0
  /\ UNCHANGED successes

-----------------------------------------------------------------------------
(* Calls *)

Admit(c) ==
  /\ call[c] = Free
  /\ Admission
  /\ call' = [call EXCEPT ![c] = [phase |-> "running", attempt |-> 1]]
  /\ UNCHANGED <<failures, cooled, healthy, okRun>>

\* The running attempt resolves, and with it the call.
Succeed(c) ==
  /\ call[c].phase = "running"
  /\ OnSuccess
  /\ call' = [call EXCEPT ![c] = Free]
  /\ UNCHANGED healthy

\* The attempt rejects and is not the last one: withRetry sleeps.
AttemptFails(c) ==
  /\ call[c].phase = "running"
  /\ ~healthy
  /\ call[c].attempt < MaxAttempts
  /\ call' = [call EXCEPT ![c].phase = "sleeping"]
  /\ UNCHANGED <<state, failures, successes, cooled, healthy, okRun>>

\* The next attempt starts without another look at the breaker.
Retry(c) ==
  /\ call[c].phase = "sleeping"
  /\ call' = [call EXCEPT ![c] =
       [phase |-> "running", attempt |-> call[c].attempt + 1]]
  /\ UNCHANGED <<state, failures, successes, cooled, healthy, okRun>>

\* The last attempt rejects, and with it the call.
Fail(c) ==
  /\ call[c].phase = "running"
  /\ ~healthy
  /\ call[c].attempt = MaxAttempts
  /\ OnFailure
  /\ call' = [call EXCEPT ![c] = Free]
  /\ UNCHANGED healthy

\* reset(): manual intervention.
Reset ==
  /\ state' = "CLOSED"
  /\ failures' = 0
  /\ successes' = 0
  /\ cooled' = TRUE
  /\ okRun' = 0
  /\ UNCHANGED <<call, healthy>>

-----------------------------------------------------------------------------
(* The environment *)

CooldownElapses ==
  /\ ~cooled
  /\ cooled' = TRUE
  /\ UNCHANGED <<state, failures, successes, call, healthy, okRun>>

\* The dependency goes down or comes back.
HealthChanges ==
  /\ healthy' = ~healthy
  /\ UNCHANGED <<state, failures, successes, cooled, call, okRun>>

CallStep(c) ==
  \/ Admit(c)
  \/ Succeed(c)
  \/ AttemptFails(c)
  \/ Retry(c)
  \/ Fail(c)

Next ==
  \/ \E c \in Calls : CallStep(c)
  \/ Reset
  \/ CooldownElapses
  \/ HealthChanges

Spec == Init /\ [][Next]_vars

\* Clock and timers run, every attempt settles (each is bounded by a fetch
\* timeout), and callers keep calling.
FairSpec ==
  /\ Spec
  /\ WF_vars(CooldownElapses)
  /\ \A c \in Calls : WF_vars(CallStep(c))

-----------------------------------------------------------------------------
(* Properties *)

\* However calls overlap, a CLOSED breaker has counted fewer than
\* failureThreshold failures and a HALF_OPEN one fewer than successThreshold
\* successes: no interleaving leaves it in a state its own thresholds forbid.
ThresholdsRespected ==
  /\ state = "CLOSED" => failures < FailureThreshold
  /\ state = "HALF_OPEN" => successes < SuccessThreshold

\* "Number of consecutive successes in HALF_OPEN to close the circuit"
\* (resilience.ts:28): apart from reset() the breaker closes only after
\* successThreshold successes with no failed call between them, whichever
\* probing periods they fell into.
ClosesAfterConsecutiveSuccesses ==
  [][state # "CLOSED" /\ state' = "CLOSED" /\ ~Reset
       => okRun' = SuccessThreshold]_vars

\* A call admitted before the breaker opened may still succeed while it is
\* OPEN; that never closes it.  OPEN is left for HALF_OPEN, by an admission
\* after the timeout, or by reset().
OpenIsLeftByProbing ==
  [][state = "OPEN" /\ state' # "OPEN" /\ ~Reset
       => cooled /\ state' = "HALF_OPEN"]_vars

\* When the dependency has come back for good the breaker closes and stays
\* closed, whatever retries and late results of the outage are still around.
ClosesAfterRecovery == (<>[]healthy) => <>[](state = "CLOSED")

=============================================================================
