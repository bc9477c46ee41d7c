------------------------ MODULE CircuitBreaker_proofs ------------------------
(***************************************************************************)
(* What CircuitBreaker guarantees for every number of overlapping calls    *)
(* and for all thresholds.                                                 *)
(***************************************************************************)
EXTENDS CircuitBreaker, TLAPS

\* In HALF_OPEN every counted success belongs to the current run of successes.
SuccessesAreRecent == state = "HALF_OPEN" => successes <= okRun

\* withRetry sleeps only before an attempt it is still allowed.
SleepersMayRetry ==
  \A c \in Calls : call[c].phase = "sleeping" => call[c].attempt < MaxAttempts

IInv ==
  /\ TypeOK
  /\ ThresholdsRespected
  /\ SuccessesAreRecent
  /\ SleepersMayRetry

\* A new breaker is closed with empty counters.
LEMMA InitIInv == Init => IInv
  BY BreakerAssumption
  DEF Init, IInv, TypeOK, States, ThresholdsRespected, SuccessesAreRecent,
      SleepersMayRetry, Free

\* What the outcome of a call does to the breaker.
LEMMA OutcomeIInv ==
  ASSUME IInv, OnSuccess \/ OnFailure
  PROVE  /\ state' \in States
         /\ failures' \in 0..FailureThreshold
         /\ successes' \in 0..SuccessThreshold
         /\ cooled' \in BOOLEAN
         /\ okRun' \in 0..SuccessThreshold
         /\ ThresholdsRespected'
         /\ SuccessesAreRecent'
<1> USE BreakerAssumption DEF IInv, TypeOK, States, ThresholdsRespected, SuccessesAreRecent
<1>1. CASE OnSuccess
  <2>1. okRun' \in 0..SuccessThreshold /\ (okRun' = okRun + 1 \/ okRun' = SuccessThreshold)
    BY <1>1 DEF OnSuccess, UpTo
  <2>2. CASE state = "HALF_OPEN"
    <3>1. /\ successes' = successes + 1
          /\ successes' \in 0..SuccessThreshold
          /\ successes' <= okRun'
          /\ failures' = 0
          /\ cooled' = cooled
      BY <1>1, <2>1, <2>2 DEF OnSuccess
    <3>2. \/ state' = "CLOSED"
          \/ state' = "HALF_OPEN" /\ successes' < SuccessThreshold
      BY <1>1, <2>2, <3>1 DEF OnSuccess
    <3>3. QED
      BY <2>1, <3>1, <3>2
  <2>3. CASE state # "HALF_OPEN"
    <3>1. state' = state /\ successes' = successes /\ cooled' = cooled /\ failures' = 0
      BY <1>1, <2>3 DEF OnSuccess
    <3>2. QED
      BY <2>1, <2>3, <3>1
  <2>4. QED
    BY <2>2, <2>3
<1>2. CASE OnFailure
  <2>1. failures' \in 0..FailureThreshold
    BY <1>2 DEF OnFailure, UpTo
  <2>2. CASE state = "HALF_OPEN" \/ failures' >= FailureThreshold
    <3>1. state' = "OPEN" /\ cooled' \in BOOLEAN /\ okRun' = 0 /\ successes' = successes
      BY <1>2, <2>2 DEF OnFailure
    <3>2. QED
      BY <2>1, <3>1
  <2>3. CASE ~(state = "HALF_OPEN" \/ failures' >= FailureThreshold)
    <3>1. state' = state /\ cooled' = cooled /\ okRun' = 0 /\ successes' = successes
      BY <1>2, <2>3 DEF OnFailure
    <3>2. QED
      BY <2>1, <2>3, <3>1
  <2>4. QED
    BY <2>2, <2>3
<1>3. QED
  BY <1>1, <1>2


\* What a step of one call does to its slot.
LEMMA SlotType ==
  ASSUME IInv, NEW c \in Calls, NEW x \in Active \cup {Free},
         x.phase = "sleeping" => x.attempt < MaxAttempts,
         call' = [call EXCEPT ![c] = x]
  PROVE  call' \in [Calls -> Active \cup {Free}] /\ SleepersMayRetry'
<1>1. call \in [Calls -> Active \cup {Free}]
  BY DEF IInv, TypeOK
<1>2. QED
  BY <1>1 DEF IInv, SleepersMayRetry

\* Every step of the breaker, its calls and its environment.
LEMMA NextIInv == IInv /\ [Next]_vars => IInv'
<1> SUFFICES ASSUME IInv, [Next]_vars PROVE IInv'
  OBVIOUS
<1> USE BreakerAssumption
<1>1. ASSUME NEW c \in Calls, Admit(c) PROVE IInv'
  <2> DEFINE x == [phase |-> "running", attempt |-> 1]
  <2>1. x \in Active /\ x.phase # "sleeping"
    BY DEF Active
  <2>2. call' = [call EXCEPT ![c] = x]
    BY <1>1 DEF Admit
  <2>3. call' \in [Calls -> Active \cup {Free}] /\ SleepersMayRetry'
    <3> HIDE DEF x
    <3> QED BY <2>1, <2>2, SlotType
  <2>4. CASE state = "OPEN"
    BY <1>1, <2>3, <2>4 DEF Admit, Admission, IInv, TypeOK, States, ThresholdsRespected,
       SuccessesAreRecent
  <2>5. CASE state # "OPEN"
    BY <1>1, <2>3, <2>5 DEF Admit, Admission, IInv, TypeOK, States, ThresholdsRespected,
       SuccessesAreRecent
  <2>6. QED
    BY <2>4, <2>5
<1>2. ASSUME NEW c \in Calls, Succeed(c) \/ Fail(c) PROVE IInv'
  <2>1. call' = [call EXCEPT ![c] = Free] /\ healthy' = healthy
    BY <1>2 DEF Succeed, Fail
  <2>2. call' \in [Calls -> Active \cup {Free}] /\ SleepersMayRetry'
    <3>1. Free.phase # "sleeping"
      BY DEF Free
    <3>2. QED
      BY <2>1, <3>1, SlotType
  <2>3. OnSuccess \/ OnFailure
    BY <1>2 DEF Succeed, Fail
  <2>4. QED
    BY <2>1, <2>2, <2>3, OutcomeIInv DEF IInv, TypeOK
<1>3. ASSUME NEW c \in Calls, AttemptFails(c) \/ Retry(c) PROVE IInv'
  <2>1. call[c] \in Active
    BY <1>3 DEF AttemptFails, Retry, IInv, TypeOK, Free
  <2>2. PICK x \in Active :
          /\ call' = [call EXCEPT ![c] = x]
          /\ x.phase = "sleeping" => x.attempt < MaxAttempts
    <3>1. CASE AttemptFails(c)
      <4> DEFINE y == [call[c] EXCEPT !.phase = "sleeping"]
      <4>1. y \in Active /\ y.attempt = call[c].attempt
        BY <2>1 DEF Active
      <4>2. call' = [call EXCEPT ![c] = y] /\ y.attempt < MaxAttempts
        BY <3>1, <4>1 DEF AttemptFails
      <4>3. QED
        BY <4>1, <4>2
    <3>2. CASE Retry(c)
      <4> DEFINE y == [phase |-> "running", attempt |-> call[c].attempt + 1]
      <4>1. call[c].attempt < MaxAttempts
        BY <3>2 DEF Retry, IInv, SleepersMayRetry
      <4>2. y \in Active /\ y.phase = "running"
        BY <2>1, <4>1 DEF Active
      <4>3. call' = [call EXCEPT ![c] = y]
        BY <3>2 DEF Retry
      <4>4. QED
        BY <4>2, <4>3
    <3>3. QED
      BY <1>3, <3>1, <3>2
  <2>3. call' \in [Calls -> Active \cup {Free}] /\ SleepersMayRetry'
    BY <2>2, SlotType
  <2>4. UNCHANGED <<state, failures, successes, cooled, healthy, okRun>>
    BY <1>3 DEF AttemptFails, Retry
  <2>5. QED
    BY <2>3, <2>4 DEF IInv, TypeOK, ThresholdsRespected, SuccessesAreRecent
<1>4. CASE Reset
  BY <1>4 DEF Reset, IInv, TypeOK, States, ThresholdsRespected, SuccessesAreRecent,
     SleepersMayRetry
<1>5. CASE CooldownElapses \/ HealthChanges
  BY <1>5 DEF CooldownElapses, HealthChanges, IInv, TypeOK, ThresholdsRespected,
     SuccessesAreRecent, SleepersMayRetry
<1>6. CASE UNCHANGED vars
  BY <1>6 DEF vars, IInv, TypeOK, ThresholdsRespected, SuccessesAreRecent,
     SleepersMayRetry
<1>7. QED
  BY <1>1, <1>2, <1>3, <1>4, <1>5, <1>6 DEF Next, CallStep

\* The strengthened invariant, of which the theorems are consequences.
LEMMA BreakerInductive == Spec => []IInv
  BY InitIInv, NextIInv, PTL DEF Spec

\* The breaker and its calls hold well-formed values.
THEOREM BreakerTypeCorrect == Spec => []TypeOK
  BY BreakerInductive, PTL DEF IInv

\* No interleaving of admissions and late results leaves the breaker in a state
\* that its counters forbid.
THEOREM BreakerThresholdsRespected == Spec => []ThresholdsRespected
  BY BreakerInductive, PTL DEF IInv

\* The breaker closes by itself only after enough consecutive successes.
THEOREM BreakerClosesAfterConsecutiveSuccesses == Spec => ClosesAfterConsecutiveSuccesses
<1> DEFINE Closes == state # "CLOSED" /\ state' = "CLOSED" /\ ~Reset
                     => okRun' = SuccessThreshold
<1>1. IInv /\ [Next]_vars => [Closes]_vars
  <2> SUFFICES ASSUME IInv, Next, state # "CLOSED", state' = "CLOSED", ~Reset
               PROVE  okRun' = SuccessThreshold
    OBVIOUS
  <2>1. PICK c \in Calls : Succeed(c)
    BY DEF Next, CallStep, Admit, Admission, AttemptFails, Retry, Fail, OnFailure,
       CooldownElapses, HealthChanges, IInv, TypeOK, States
  <2>2. state = "HALF_OPEN" /\ successes + 1 >= SuccessThreshold
    BY <2>1 DEF Succeed, OnSuccess
  <2>3. QED
    BY <2>1, <2>2, BreakerAssumption
    DEF Succeed, OnSuccess, UpTo, IInv, TypeOK, SuccessesAreRecent
<1>2. QED
  BY <1>1, BreakerInductive, PTL DEF Spec, ClosesAfterConsecutiveSuccesses

\* Late results of earlier calls never take the breaker out of OPEN.
THEOREM BreakerOpenIsLeftByProbing == Spec => OpenIsLeftByProbing
<1> DEFINE Leaves == state = "OPEN" /\ state' # "OPEN" /\ ~Reset
                     => cooled /\ state' = "HALF_OPEN"
<1>1. [Next]_vars => [Leaves]_vars
  <2> SUFFICES ASSUME Next, state = "OPEN", state' # "OPEN", ~Reset
               PROVE  cooled /\ state' = "HALF_OPEN"
    OBVIOUS
  <2>1. PICK c \in Calls : Admit(c)
    BY DEF Next, CallStep, Succeed, OnSuccess, AttemptFails, Retry, Fail, OnFailure,
       CooldownElapses, HealthChanges
  <2>2. QED
    BY <2>1 DEF Admit, Admission
<1>2. QED
  BY <1>1, PTL DEF Spec, OpenIsLeftByProbing
=============================================================================
