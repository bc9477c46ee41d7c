------------------------------ MODULE EventBus ------------------------------
(***************************************************************************)
(* Publication of domain events with an in-memory retry queue              *)
(* (server/eventBus.ts over server/kafka.ts kafkaProduce).                 *)
(*                                                                         *)
(* publishEvent awaits Kafka and queues the event when that fails; a 15 s  *)
(* interval takes a batch off the queue and sends it one event at a time.  *)
(* The interval does not wait for its previous run, so runs overlap when   *)
(* Kafka is slow.  A call that fails, by its 5 s timeout for one, may have *)
(* reached the broker.  Everything the process holds is in memory: a       *)
(* restart forgets it.  The secondary Dapr publication never influences    *)
(* the outcome and is left out.                                            *)
(***************************************************************************)
EXTENDS Naturals, FiniteSets, SequencesExt

CONSTANTS
  Events,        \* domain events, each published once
  Runs,          \* run slots: how many retry runs may overlap
  BatchSize,     \* 50
  MaxRetryQueue, \* MAX_RETRY_QUEUE
  MaxUnanswered, \* bound: failed calls that reach the broker
  MaxRestarts    \* bound: restarts of the server

ASSUME EventBusAssumption ==
  /\ BatchSize \in Nat \ {0}
  /\ MaxRetryQueue \in Nat \ {0}
  /\ MaxUnanswered \in Nat
  /\ MaxRestarts \in Nat

VARIABLES
  kafkaUp,     \* kafkaProduce answers true, else it answers false
  published,   \* events publishEvent has been called for
  sending,     \* those whose first kafkaProduce is under way
  retryQueue,  \* retryQueue
  batch,       \* per run, the rest of its batch; the head is being sent
  broker,      \* copies of each event the broker has accepted
  unanswered,  \* those of them kafkaProduce has answered false for
  restarts     \* restarts so far

vars == <<kafkaUp, published, sending, retryQueue, batch, broker, unanswered, restarts>>

TypeOK ==
  /\ kafkaUp \in BOOLEAN
  /\ published \subseteq Events
  /\ sending \subseteq published
  /\ retryQueue \in Seq(published)
  /\ Len(retryQueue) <= MaxRetryQueue
  /\ batch \in [Runs -> Seq(published)]
  /\ \A r \in Runs : Len(batch[r]) <= BatchSize
  /\ broker \in [Events -> Nat]
  /\ unanswered \in [Events -> 0..MaxUnanswered]
  /\ restarts \in 0..MaxRestarts

Init ==
  /\ kafkaUp = TRUE
  /\ published = {}
  /\ sending = {}
  /\ retryQueue = <<>>
  /\ batch = [r \in Runs |-> <<>>]
  /\ broker = [e \in Events |-> 0]
  /\ unanswered = [e \in Events |-> 0]
  /\ restarts = 0

-----------------------------------------------------------------------------
\* Mutant: the capacity is not checked.
EnqueueAlways(e) == retryQueue' = Append(retryQueue, e)

\* A failed event goes to the back of the queue if it fits, else it is dropped.
Enqueue(e) ==
  retryQueue' = IF Len(retryQueue) < MaxRetryQueue
                THEN Append(retryQueue, e)
                ELSE retryQueue

\* kafkaProduce answers true.
Accepted(e) ==
  /\ kafkaUp
  /\ broker' = [broker EXCEPT ![e] = @ + 1]
  /\ UNCHANGED unanswered

\* kafkaProduce answers false; the broker may have the event all the same.
Refused(e) ==
  /\ ~kafkaUp
  /\ \/ UNCHANGED <<broker, unanswered>>
     \/ /\ unanswered[e] < MaxUnanswered
        /\ broker' = [broker EXCEPT ![e] = @ + 1]
        /\ unanswered' = [unanswered EXCEPT ![e] = @ + 1]

PublishEvent(e) ==
  /\ e \notin published
  /\ published' = published \cup {e}
  /\ sending' = sending \cup {e}
  /\ UNCHANGED <<kafkaUp, retryQueue, batch, broker, unanswered, restarts>>

PublishOk(e) ==
  /\ e \in sending
  /\ Accepted(e)
  /\ sending' = sending \ {e}
  /\ UNCHANGED <<kafkaUp, published, retryQueue, batch, restarts>>

PublishFails(e) ==
  /\ e \in sending
  /\ Refused(e)
  /\ sending' = sending \ {e}
  /\ Enqueue(e)
  /\ UNCHANGED <<kafkaUp, published, batch, restarts>>

Taken == IF Len(retryQueue) < BatchSize THEN Len(retryQueue) ELSE BatchSize

\* Mutant: the batch is copied from the queue, which keeps it until it is sent.
StartRetryCopies(r) ==
  /\ batch[r] = <<>>
  /\ retryQueue # <<>>
  /\ batch' = [batch EXCEPT ![r] = SubSeq(retryQueue, 1, Taken)]
  /\ UNCHANGED <<kafkaUp, published, sending, retryQueue, broker, unanswered, restarts>>

\* processRetryQueue takes up to BatchSize events off the queue.
StartRetry(r) ==
  /\ batch[r] = <<>>
  /\ retryQueue # <<>>
  /\ batch' = [batch EXCEPT ![r] = SubSeq(retryQueue, 1, Taken)]
  /\ retryQueue' = SubSeq(retryQueue, Taken + 1, Len(retryQueue))
  /\ UNCHANGED <<kafkaUp, published, sending, broker, unanswered, restarts>>

\* Mutant: a run sends one event and forgets the others.
RetryOkOnce(r) ==
  /\ batch[r] # <<>>
  /\ Accepted(Head(batch[r]))
  /\ batch' = [batch EXCEPT ![r] = <<>>]
  /\ UNCHANGED <<kafkaUp, published, sending, retryQueue, restarts>>

RetryOk(r) ==
  /\ batch[r] # <<>>
  /\ Accepted(Head(batch[r]))
  /\ batch' = [batch EXCEPT ![r] = Tail(batch[r])]
  /\ UNCHANGED <<kafkaUp, published, sending, retryQueue, restarts>>

\* The failed event is put back; break abandons the ones behind it.
RetryFails(r) ==
  /\ batch[r] # <<>>
  /\ Refused(Head(batch[r]))
  /\ Enqueue(Head(batch[r]))
  /\ batch' = [batch EXCEPT ![r] = <<>>]
  /\ UNCHANGED <<kafkaUp, published, sending, restarts>>

KafkaChanges ==
  /\ kafkaUp' = ~kafkaUp
  /\ UNCHANGED <<published, sending, retryQueue, batch, broker, unanswered, restarts>>

\* The server restarts; calls under way end with it.
Restart ==
  /\ restarts < MaxRestarts
  /\ restarts' = restarts + 1
  /\ sending' = {}
  /\ retryQueue' = <<>>
  /\ batch' = [r \in Runs |-> <<>>]
  /\ UNCHANGED <<kafkaUp, published, broker, unanswered>>

Answer(e) == PublishOk(e) \/ PublishFails(e)

Answered(r) == RetryOk(r) \/ RetryFails(r)

Next ==
  \/ \E e \in Events : PublishEvent(e) \/ Answer(e)
  \/ \E r \in Runs : StartRetry(r) \/ Answered(r)
  \/ KafkaChanges
  \/ Restart

Spec == Init /\ [][Next]_vars

\* The interval keeps firing and every produce call settles: fetch carries a
\* 5 s AbortSignal.
FairSpec ==
  /\ Spec
  /\ \A e \in Events : WF_vars(Answer(e))
  /\ \A r \in Runs : WF_vars(StartRetry(r)) /\ WF_vars(Answered(r))

-----------------------------------------------------------------------------
(* Properties *)

Queued(e) == Contains(retryQueue, e)
InRun(e, r) == Contains(batch[r], e)

\* kafkaProduce has answered true.
Confirmed(e) == broker[e] > unanswered[e]

\* Where the process still holds an event.
Held(e) == e \in sending \/ Queued(e) \/ \E r \in Runs : InRun(e, r)

\* The process gives up an event only because Kafka has confirmed it or the server
\* restarts, or in a run or a publication that fails: the event found the queue
\* full, or it was behind the one that failed (eventBus.ts:136).  StartRetry, in
\* particular, moves events and loses none.
GivenUpForCause ==
  [][\A e \in Events : Held(e) /\ ~Held(e)' =>
       \/ Confirmed(e)'
       \/ restarts' # restarts
       \/ ~kafkaUp /\ Len(retryQueue) = MaxRetryQueue
       \/ ~kafkaUp /\ \E r \in Runs : InRun(e, r) /\ Head(batch[r]) # e]_vars

\* Overlapping runs and publications never hold the same event twice, and none
\* holds one that Kafka has confirmed: a confirmed event is not sent again.
SentByOne ==
  /\ IsInjective(retryQueue)
  /\ \A r \in Runs : IsInjective(batch[r])
  /\ \A e \in Events :
       /\ Confirmed(e) => ~Held(e)
       /\ e \in sending => ~Queued(e)
       /\ \A r \in Runs : InRun(e, r) =>
            /\ e \notin sending /\ ~Queued(e)
            /\ \A q \in Runs : InRun(e, q) => q = r

\* The broker has a second copy of an event only if an earlier call for it
\* failed after it had reached the broker: neither runs that overlap nor a
\* restart send anything twice.
DuplicatesNeedLostAnswers == \A e \in Events : broker[e] <= unanswered[e] + 1

\* An event that is queued, being sent or in the batch of a run when Kafka has
\* come back for good is sent, unless the server restarts.
HeldEventsAreSent ==
  \A e \in Events :
    []((Held(e) /\ [](kafkaUp /\ restarts = MaxRestarts)) => <>Confirmed(e))
=============================================================================
