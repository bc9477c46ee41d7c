--------------------------- MODULE EventBus_proofs ---------------------------
(***************************************************************************)
(* Theorems about the retry queue, for any events, any number of runs that *)
(* overlap, any capacity and batch size.                                   *)
(*                                                                         *)
(* DuplicatesNeedLostAnswers is not inductive.  It holds because an event  *)
(* that anything still holds is unconfirmed, and it stays unconfirmed      *)
(* because nothing else holds it: SentByOne is the missing part, together  *)
(* with the fact that an unpublished event is unknown to the broker.       *)
(***************************************************************************)
EXTENDS EventBus, SequenceTheorems, TLAPS

UnpublishedIsUnsent ==
  \A e \in Events \ published : broker[e] = 0 /\ unanswered[e] = 0

AnswersAreCopies == \A e \in Events : unanswered[e] <= broker[e]

IInv ==
  /\ TypeOK
  /\ SentByOne
  /\ UnpublishedIsUnsent
  /\ DuplicatesNeedLostAnswers

-----------------------------------------------------------------------------
(* Sequences without duplicates *)

LEMMA SeqMonotone ==
  ASSUME NEW S, NEW T, S \subseteq T, NEW s \in Seq(S) PROVE s \in Seq(T)
<1>1. Len(s) \in Nat /\ s \in [1..Len(s) -> S] BY LenProperties
<1>2. s \in [1..Len(s) -> T] BY <1>1
<1> QED BY <1>1, <1>2

LEMMA AppendInjects ==
  ASSUME NEW S, NEW s \in Seq(S), NEW e \in S, IsInjective(s), ~Contains(s, e)
  PROVE  /\ IsInjective(Append(s, e))
         /\ \A x : Contains(Append(s, e), x) => Contains(s, x) \/ x = e
<1> DEFINE t == Append(s, e)
<1>1. /\ t \in Seq(S) /\ Len(t) = Len(s) + 1 /\ t[Len(s) + 1] = e
      /\ \A i \in 1..Len(s) : t[i] = s[i]
  BY AppendProperties
<1>2. /\ Len(s) \in Nat /\ DOMAIN s = 1..Len(s) /\ DOMAIN t = 1..Len(s) + 1
  BY <1>1, LenProperties
<1> HIDE DEF t
<1>3. \A i \in 1..Len(s) + 1 : i \in 1..Len(s) \/ i = Len(s) + 1 BY <1>2
<1>4. IsInjective(t) BY <1>1, <1>2, <1>3 DEF IsInjective, Contains
<1>5. \A x : Contains(t, x) => Contains(s, x) \/ x = e
  BY <1>1, <1>2, <1>3 DEF Contains
<1> QED BY <1>4, <1>5 DEF t

LEMMA TailInjects ==
  ASSUME NEW S, NEW s \in Seq(S), s # <<>>, IsInjective(s)
  PROVE  /\ Head(s) \in S /\ Contains(s, Head(s))
         /\ Tail(s) \in Seq(S) /\ Len(Tail(s)) <= Len(s)
         /\ IsInjective(Tail(s))
         /\ \A x : Contains(Tail(s), x) => Contains(s, x) /\ x # Head(s)
<1> DEFINE t == Tail(s)
<1>0. Len(s) \in Nat \ {0} /\ DOMAIN s = 1..Len(s) /\ Head(s) = s[1]
  BY LenProperties, EmptySeq
<1>1. /\ Head(s) \in S /\ t \in Seq(S) /\ Len(t) = Len(s) - 1
      /\ \A i \in 1..Len(t) : t[i] = s[i + 1]
  BY HeadTailProperties
<1>2. DOMAIN t = 1..Len(s) - 1 BY <1>1, LenProperties
<1> HIDE DEF t
<1>3. \A i \in 1..Len(s) - 1 : i + 1 \in 1..Len(s) /\ i + 1 # 1 /\ t[i] = s[i + 1]
  BY <1>0, <1>1
<1>4. IsInjective(t)
  <2> SUFFICES ASSUME NEW i \in 1..Len(s) - 1, NEW j \in 1..Len(s) - 1, t[i] = t[j]
               PROVE  i = j
    BY <1>2 DEF IsInjective
  <2>1. i + 1 = j + 1 BY <1>0, <1>3 DEF IsInjective
  <2> QED BY <2>1
<1>5. ASSUME NEW x, Contains(t, x) PROVE Contains(s, x) /\ x # Head(s)
  <2>1. PICK i \in 1..Len(s) - 1 : t[i] = x BY <1>1, <1>5 DEF Contains
  <2>2. i + 1 \in 1..Len(s) /\ i + 1 # 1 /\ s[i + 1] = x BY <1>3, <2>1
  <2>3. 1 \in 1..Len(s) BY <1>0
  <2>4. x # s[1] BY <1>0, <2>2, <2>3 DEF IsInjective
  <2> QED BY <1>0, <2>2, <2>4 DEF Contains
<1>6. Contains(s, Head(s)) BY <1>0 DEF Contains
<1> QED BY <1>0, <1>1, <1>4, <1>5, <1>6 DEF t

LEMMA SplitInjects ==
  ASSUME NEW S, NEW s \in Seq(S), NEW n \in 0..Len(s), IsInjective(s)
  PROVE  /\ SubSeq(s, 1, n) \in Seq(S) /\ Len(SubSeq(s, 1, n)) = n
         /\ SubSeq(s, n + 1, Len(s)) \in Seq(S)
         /\ Len(SubSeq(s, n + 1, Len(s))) <= Len(s)
         /\ IsInjective(SubSeq(s, 1, n)) /\ IsInjective(SubSeq(s, n + 1, Len(s)))
         /\ \A x : Contains(SubSeq(s, 1, n), x) =>
              Contains(s, x) /\ ~Contains(SubSeq(s, n + 1, Len(s)), x)
         /\ \A x : Contains(SubSeq(s, n + 1, Len(s)), x) => Contains(s, x)
<1> DEFINE a == SubSeq(s, 1, n)
           b == SubSeq(s, n + 1, Len(s))
           m == Len(s)
<1>0. m \in Nat /\ DOMAIN s = 1..m /\ \A i \in 1..m : s[i] \in S BY LenProperties
<1>1. /\ a \in Seq(S) /\ Len(a) = n
      /\ \A i \in 1..n : a[i] = s[i]
  BY <1>0, SubSeqProperties
<1>2. /\ b \in Seq(S) /\ Len(b) = m - n
      /\ \A i \in 1..m - n : b[i] = s[n + i]
  <2>1. /\ b \in Seq(S)
        /\ Len(b) = IF n + 1 <= m THEN m - (n + 1) + 1 ELSE 0
        /\ \A i \in 1..m - (n + 1) + 1 : b[i] = s[n + 1 + i - 1]
    BY <1>0, SubSeqProperties
  <2> HIDE DEF b, m
  <2>2. m - (n + 1) + 1 = m - n /\ (n + 1 <= m \/ m - n = 0) BY <1>0
  <2>3. \A i \in 1..m - n : n + 1 + i - 1 = n + i BY <1>0
  <2> QED BY <2>1, <2>2, <2>3
<1>3. DOMAIN a = 1..n /\ DOMAIN b = 1..m - n BY <1>1, <1>2, LenProperties
<1> HIDE DEF a, b, m
<1>4. \A i \in 1..n : i \in 1..m BY <1>0
<1>5. \A i \in 1..m - n : n + i \in 1..m BY <1>0
<1>6. IsInjective(a) BY <1>0, <1>1, <1>3, <1>4 DEF IsInjective
<1>7. IsInjective(b)
  <2> SUFFICES ASSUME NEW i \in 1..m - n, NEW j \in 1..m - n, b[i] = b[j]
               PROVE  i = j
    BY <1>3 DEF IsInjective
  <2>1. n + i = n + j BY <1>0, <1>2, <1>5 DEF IsInjective
  <2> QED BY <2>1
<1>8. \A x : Contains(a, x) => Contains(s, x) BY <1>1, <1>4 DEF Contains, m
<1>9. \A x : Contains(b, x) => Contains(s, x) BY <1>2, <1>5 DEF Contains, m
<1>10. ASSUME NEW x, Contains(a, x), Contains(b, x) PROVE FALSE
  <2>1. PICK i \in 1..n : s[i] = x BY <1>1, <1>10 DEF Contains
  <2>2. PICK j \in 1..m - n : s[n + j] = x BY <1>2, <1>10 DEF Contains
  <2>3. i = n + j BY <1>0, <1>4, <1>5, <2>1, <2>2 DEF IsInjective
  <2> QED BY <2>3
<1>11. m - n <= m BY <1>0
<1> QED BY <1>0, <1>1, <1>2, <1>6, <1>7, <1>8, <1>9, <1>10, <1>11 DEF a, b, m

LEMMA ContainsMember ==
  ASSUME NEW S, NEW s \in Seq(S), NEW x, Contains(s, x) PROVE x \in S
<1>1. \A i \in 1..Len(s) : s[i] \in S BY LenProperties
<1> QED BY <1>1 DEF Contains

LEMMA EmptyHoldsNothing ==
  /\ IsInjective(<<>>)
  /\ \A x : ~Contains(<<>>, x)
BY DEF IsInjective, Contains

-----------------------------------------------------------------------------
(* The broker and the queue *)

\* The heart of the argument: only an event that was held may be delivered.
LEMMA AcceptedSound ==
  ASSUME IInv, NEW e \in published, Held(e), Accepted(e)
  PROVE  /\ broker' \in [Events -> Nat] /\ unanswered' = unanswered
         /\ \A x \in Events : Confirmed(x)' => Confirmed(x) \/ x = e
         /\ \A x \in Events \ {e} : broker'[x] = broker[x]
         /\ DuplicatesNeedLostAnswers'
<1>0. e \in Events /\ broker \in [Events -> Nat] /\ unanswered \in [Events -> Nat]
  BY EventBusAssumption DEF IInv, TypeOK
<1>1. broker[e] <= unanswered[e] BY <1>0 DEF IInv, SentByOne, Confirmed
<1>2. /\ broker' \in [Events -> Nat] /\ unanswered' = unanswered
      /\ broker'[e] = broker[e] + 1
      /\ \A x \in Events \ {e} : broker'[x] = broker[x]
  BY <1>0 DEF Accepted
<1>3. DuplicatesNeedLostAnswers'
  BY <1>0, <1>1, <1>2 DEF IInv, DuplicatesNeedLostAnswers
<1> QED BY <1>2, <1>3 DEF Confirmed

\* A failed call confirms nothing, whether or not it reached the broker.
LEMMA RefusedSound ==
  ASSUME IInv, NEW e \in published, Refused(e)
  PROVE  /\ broker' \in [Events -> Nat]
         /\ unanswered' \in [Events -> 0..MaxUnanswered]
         /\ \A x \in Events : Confirmed(x)' => Confirmed(x)
         /\ \A x \in Events \ {e} : broker'[x] = broker[x] /\ unanswered'[x] = unanswered[x]
         /\ DuplicatesNeedLostAnswers'
<1>0. /\ e \in Events /\ broker \in [Events -> Nat]
      /\ unanswered \in [Events -> 0..MaxUnanswered] /\ MaxUnanswered \in Nat
  BY EventBusAssumption DEF IInv, TypeOK
<1>1. CASE UNCHANGED <<broker, unanswered>>
  BY <1>0, <1>1 DEF Confirmed, IInv, DuplicatesNeedLostAnswers
<1>2. CASE /\ unanswered[e] < MaxUnanswered
           /\ broker' = [broker EXCEPT ![e] = @ + 1]
           /\ unanswered' = [unanswered EXCEPT ![e] = @ + 1]
  <2>1. /\ broker'[e] = broker[e] + 1 /\ unanswered'[e] = unanswered[e] + 1
        /\ \A x \in Events \ {e} :
             broker'[x] = broker[x] /\ unanswered'[x] = unanswered[x]
    BY <1>0, <1>2
  <2>2. /\ broker' \in [Events -> Nat]
        /\ unanswered' \in [Events -> 0..MaxUnanswered]
    BY <1>0, <1>2
  <2>3. DuplicatesNeedLostAnswers'
    BY <1>0, <2>1 DEF IInv, DuplicatesNeedLostAnswers
  <2>4. \A x \in Events : Confirmed(x)' => Confirmed(x) BY <1>0, <2>1 DEF Confirmed
  <2> QED BY <2>1, <2>2, <2>3, <2>4
<1> QED BY <1>1, <1>2 DEF Refused

\* The queue takes an event it does not hold yet, or drops it.
LEMMA EnqueueSound ==
  ASSUME IInv, NEW e \in published, ~Queued(e), Enqueue(e)
  PROVE  /\ retryQueue' \in Seq(published) /\ Len(retryQueue') <= MaxRetryQueue
         /\ IsInjective(retryQueue)'
         /\ \A x : Queued(x)' => Queued(x) \/ x = e
<1>0. retryQueue \in Seq(published) /\ IsInjective(retryQueue)
      /\ Len(retryQueue) <= MaxRetryQueue
  BY DEF IInv, TypeOK, SentByOne
<1>1. CASE retryQueue' = retryQueue BY <1>0, <1>1 DEF Queued
<1>2. CASE retryQueue' = Append(retryQueue, e) /\ Len(retryQueue) < MaxRetryQueue
  <2>1. IsInjective(retryQueue')
        /\ \A x : Contains(retryQueue', x) => Contains(retryQueue, x) \/ x = e
    BY <1>0, <1>2, AppendInjects DEF Queued
  <2>2. retryQueue' \in Seq(published) /\ Len(retryQueue') <= MaxRetryQueue
    BY <1>0, <1>2, AppendProperties, LenProperties, EventBusAssumption
  <2> QED BY <2>1, <2>2 DEF Queued
<1> QED BY <1>1, <1>2 DEF Enqueue

-----------------------------------------------------------------------------
(* The steps *)

LEMMA InitIInv == Init => IInv
<1> SUFFICES ASSUME Init PROVE IInv OBVIOUS
<1>1. <<>> \in Seq(published) /\ Len(<<>>) = 0 BY EmptySeq
<1>2. TypeOK BY <1>1, EventBusAssumption DEF Init, TypeOK
<1>3. SentByOne
  BY EmptyHoldsNothing DEF Init, SentByOne, Confirmed, Queued, InRun, Held
<1> QED BY <1>2, <1>3 DEF Init, IInv, UnpublishedIsUnsent, DuplicatesNeedLostAnswers

LEMMA PublishEventKeeps ==
  ASSUME IInv, NEW e \in Events, PublishEvent(e) PROVE IInv'
<1>0. TypeOK /\ SentByOne /\ UnpublishedIsUnsent BY DEF IInv
<1>1. \A s \in Seq(published) : s \in Seq(published') BY SeqMonotone DEF PublishEvent
<1>2. TypeOK' BY <1>0, <1>1 DEF TypeOK, PublishEvent
<1>3. ~Queued(e) /\ \A r \in Runs : ~InRun(e, r)
  BY <1>0, ContainsMember DEF TypeOK, PublishEvent, Queued, InRun
<1>4. ~Confirmed(e) BY <1>0 DEF UnpublishedIsUnsent, PublishEvent, Confirmed
<1>5. /\ retryQueue' = retryQueue /\ batch' = batch /\ sending' = sending \cup {e}
      /\ broker' = broker /\ unanswered' = unanswered
  BY DEF PublishEvent
<1>6. SentByOne'
  <2>1. \A x \in Events : (Confirmed(x)' <=> Confirmed(x)) /\ (Queued(x)' <=> Queued(x))
    BY <1>5 DEF Confirmed, Queued
  <2>2. \A x \in Events, r \in Runs : InRun(x, r)' <=> InRun(x, r) BY <1>5 DEF InRun
  <2>3. IsInjective(retryQueue)' /\ \A r \in Runs : IsInjective(batch[r])'
    BY <1>0, <1>5 DEF SentByOne
  <2>4. \A x \in Events : Held(x)' => Held(x) \/ x = e
    BY <1>5, <2>1, <2>2 DEF Held
  <2> QED BY <1>0, <1>3, <1>4, <1>5, <2>1, <2>2, <2>3, <2>4 DEF SentByOne
<1>7. UnpublishedIsUnsent' /\ DuplicatesNeedLostAnswers'
  BY <1>5 DEF IInv, UnpublishedIsUnsent, DuplicatesNeedLostAnswers, PublishEvent
<1> QED BY <1>2, <1>6, <1>7 DEF IInv

\* An answer to publishEvent's own call: the event leaves `sending`.
LEMMA PublishOkKeeps ==
  ASSUME IInv, NEW e \in Events, PublishOk(e) PROVE IInv'
<1>0. TypeOK /\ SentByOne /\ UnpublishedIsUnsent BY DEF IInv
<1>1. e \in published /\ e \in sending /\ Held(e) BY <1>0 DEF TypeOK, PublishOk, Held
<1>2. /\ retryQueue' = retryQueue /\ batch' = batch /\ sending' = sending \ {e}
      /\ published' = published /\ restarts' = restarts /\ kafkaUp' = kafkaUp
  BY DEF PublishOk
<1>3. /\ broker' \in [Events -> Nat] /\ unanswered' = unanswered
      /\ \A x \in Events : Confirmed(x)' => Confirmed(x) \/ x = e
      /\ \A x \in Events \ {e} : broker'[x] = broker[x]
      /\ DuplicatesNeedLostAnswers'
  BY <1>1, AcceptedSound DEF PublishOk
<1>4. TypeOK' BY <1>0, <1>2, <1>3 DEF TypeOK
<1>5. ~Queued(e) /\ \A r \in Runs : ~InRun(e, r) BY <1>0, <1>1 DEF SentByOne
<1>6. SentByOne'
  <2>1. \A x \in Events : Queued(x)' <=> Queued(x) BY <1>2 DEF Queued
  <2>2. \A x \in Events, r \in Runs : InRun(x, r)' <=> InRun(x, r) BY <1>2 DEF InRun
  <2>3. IsInjective(retryQueue)' /\ \A r \in Runs : IsInjective(batch[r])'
    BY <1>0, <1>2 DEF SentByOne
  <2>4. \A x \in Events : Held(x)' => Held(x) /\ x # e
    BY <1>2, <1>5, <2>1, <2>2 DEF Held
  <2> QED BY <1>0, <1>2, <1>3, <2>1, <2>2, <2>3, <2>4 DEF SentByOne
<1>7. UnpublishedIsUnsent' BY <1>0, <1>1, <1>2, <1>3 DEF UnpublishedIsUnsent
<1> QED BY <1>3, <1>4, <1>6, <1>7 DEF IInv

LEMMA PublishFailsKeeps ==
  ASSUME IInv, NEW e \in Events, PublishFails(e) PROVE IInv'
<1>0. TypeOK /\ SentByOne /\ UnpublishedIsUnsent BY DEF IInv
<1>1. e \in published /\ e \in sending /\ Held(e) BY <1>0 DEF TypeOK, PublishFails, Held
<1>2. /\ batch' = batch /\ sending' = sending \ {e}
      /\ published' = published /\ restarts' = restarts /\ kafkaUp' = kafkaUp
  BY DEF PublishFails
<1>3. /\ broker' \in [Events -> Nat] /\ unanswered' \in [Events -> 0..MaxUnanswered]
      /\ \A x \in Events : Confirmed(x)' => Confirmed(x)
      /\ \A x \in Events \ {e} : broker'[x] = broker[x] /\ unanswered'[x] = unanswered[x]
      /\ DuplicatesNeedLostAnswers'
  BY <1>1, RefusedSound DEF PublishFails
<1>5. ~Queued(e) /\ \A r \in Runs : ~InRun(e, r) BY <1>0, <1>1 DEF SentByOne
<1>6. /\ retryQueue' \in Seq(published) /\ Len(retryQueue') <= MaxRetryQueue
      /\ IsInjective(retryQueue)'
      /\ \A x : Queued(x)' => Queued(x) \/ x = e
  BY <1>1, <1>5, EnqueueSound DEF PublishFails
<1>4. TypeOK' BY <1>0, <1>2, <1>3, <1>6 DEF TypeOK
<1>7. SentByOne'
  <2>2. \A x \in Events, r \in Runs : InRun(x, r)' <=> InRun(x, r) BY <1>2 DEF InRun
  <2>3. \A r \in Runs : IsInjective(batch[r])' BY <1>0, <1>2 DEF SentByOne
  <2>4. \A x \in Events : Held(x)' => Held(x)
    BY <1>1, <1>2, <1>6, <2>2 DEF Held
  <2>5. \A x \in Events : Confirmed(x)' => ~Held(x)' BY <1>0, <1>3, <2>4 DEF SentByOne
  <2>6. \A x \in Events : x \in sending' => ~Queued(x)'
    BY <1>0, <1>2, <1>6 DEF SentByOne
  <2>7. \A x \in Events, r \in Runs : InRun(x, r)' =>
          /\ x \notin sending' /\ ~Queued(x)'
          /\ \A q \in Runs : InRun(x, q)' => q = r
    BY <1>0, <1>2, <1>5, <1>6, <2>2 DEF SentByOne
  <2> QED BY <1>6, <2>3, <2>5, <2>6, <2>7 DEF SentByOne
<1>8. UnpublishedIsUnsent' BY <1>0, <1>1, <1>2, <1>3 DEF UnpublishedIsUnsent
<1> QED BY <1>3, <1>4, <1>7, <1>8 DEF IInv

\* A run takes the front of the queue; what it takes is in the queue no more.
LEMMA StartRetryKeeps ==
  ASSUME IInv, NEW r \in Runs, StartRetry(r) PROVE IInv'
<1>0. TypeOK /\ SentByOne BY DEF IInv
<1>1. /\ published' = published /\ restarts' = restarts /\ kafkaUp' = kafkaUp
      /\ sending' = sending /\ broker' = broker /\ unanswered' = unanswered
  BY DEF StartRetry
<1>2. retryQueue \in Seq(published) /\ IsInjective(retryQueue)
  BY <1>0 DEF TypeOK, SentByOne
<1>3. Taken \in 0..Len(retryQueue) /\ Taken <= BatchSize
  BY <1>2, LenProperties, EventBusAssumption DEF Taken
<1>4. /\ batch'[r] = SubSeq(retryQueue, 1, Taken)
      /\ \A q \in Runs \ {r} : batch'[q] = batch[q]
      /\ retryQueue' = SubSeq(retryQueue, Taken + 1, Len(retryQueue))
  BY <1>0 DEF StartRetry, TypeOK
<1>5. /\ batch'[r] \in Seq(published) /\ Len(batch'[r]) <= BatchSize
      /\ retryQueue' \in Seq(published) /\ Len(retryQueue') <= Len(retryQueue)
      /\ IsInjective(batch'[r]) /\ IsInjective(retryQueue')
      /\ \A x : Contains(batch'[r], x) => Contains(retryQueue, x) /\ ~Contains(retryQueue', x)
      /\ \A x : Contains(retryQueue', x) => Contains(retryQueue, x)
  BY <1>2, <1>3, <1>4, SplitInjects
<1>6. TypeOK'
  <2>1. batch' \in [Runs -> Seq(published)] BY <1>0, <1>5 DEF StartRetry, TypeOK
  <2>2. \A q \in Runs : Len(batch'[q]) <= BatchSize BY <1>0, <1>4, <1>5 DEF TypeOK
  <2>3. Len(retryQueue') <= MaxRetryQueue
    <3>1. Len(retryQueue) \in Nat /\ Len(retryQueue') \in Nat BY <1>2, <1>5, LenProperties
    <3> QED BY <1>0, <1>5, <3>1, EventBusAssumption DEF TypeOK
  <2> QED BY <1>0, <1>1, <1>5, <2>1, <2>2, <2>3 DEF TypeOK
<1>7. SentByOne'
  <2>1. \A x \in Events : Queued(x)' => Queued(x) BY <1>5 DEF Queued
  <2>2. \A x \in Events : InRun(x, r)' => Queued(x) /\ ~Queued(x)'
    BY <1>5 DEF Queued, InRun
  <2>3. \A x \in Events, q \in Runs \ {r} : InRun(x, q)' <=> InRun(x, q)
    BY <1>4 DEF InRun
  <2>4. IsInjective(retryQueue)' /\ \A q \in Runs : IsInjective(batch[q])'
    BY <1>0, <1>4, <1>5 DEF SentByOne
  <2>5. \A x \in Events : Held(x)' => Held(x) BY <1>1, <2>1, <2>2, <2>3 DEF Held
  <2>6. \A x \in Events : Confirmed(x)' <=> Confirmed(x) BY <1>1 DEF Confirmed
  <2>7. \A x \in Events, q \in Runs : InRun(x, q)' =>
          /\ x \notin sending' /\ ~Queued(x)'
          /\ \A p \in Runs : InRun(x, p)' => p = q
    BY <1>0, <1>1, <2>1, <2>2, <2>3 DEF SentByOne
  <2> QED BY <1>0, <1>1, <2>1, <2>4, <2>5, <2>6, <2>7 DEF SentByOne
<1>8. UnpublishedIsUnsent' /\ DuplicatesNeedLostAnswers'
  BY <1>1 DEF IInv, UnpublishedIsUnsent, DuplicatesNeedLostAnswers
<1> QED BY <1>6, <1>7, <1>8 DEF IInv

\* What the head of a run's batch is to the rest of the system.
LEMMA HeadIsHeld ==
  ASSUME IInv, NEW r \in Runs, batch[r] # <<>>
  PROVE  LET e == Head(batch[r]) IN
         /\ e \in published /\ e \in Events /\ InRun(e, r) /\ Held(e)
         /\ e \notin sending /\ ~Queued(e)
         /\ \A q \in Runs \ {r} : ~InRun(e, q)
         /\ Tail(batch[r]) \in Seq(published) /\ Len(Tail(batch[r])) <= BatchSize
         /\ IsInjective(Tail(batch[r]))
         /\ \A x : Contains(Tail(batch[r]), x) => InRun(x, r) /\ x # e
<1> DEFINE s == batch[r]
<1>1. s \in Seq(published) /\ IsInjective(s) /\ Len(s) <= BatchSize
  BY DEF IInv, TypeOK, SentByOne
<1>2. /\ Head(s) \in published /\ Contains(s, Head(s))
      /\ Tail(s) \in Seq(published) /\ Len(Tail(s)) <= Len(s)
      /\ IsInjective(Tail(s))
      /\ \A x : Contains(Tail(s), x) => Contains(s, x) /\ x # Head(s)
  BY <1>1, TailInjects
<1>3. Len(s) \in Nat /\ Len(Tail(s)) \in Nat BY <1>1, <1>2, LenProperties
<1>4. Len(Tail(s)) <= BatchSize BY <1>1, <1>2, <1>3, EventBusAssumption
<1>5. Head(s) \in Events /\ InRun(Head(s), r) BY <1>2 DEF IInv, TypeOK, InRun
<1>6. Held(Head(s)) BY <1>5 DEF Held
<1>7. /\ Head(s) \notin sending /\ ~Queued(Head(s))
      /\ \A q \in Runs \ {r} : ~InRun(Head(s), q)
  BY <1>5 DEF IInv, SentByOne
<1>8. \A x : Contains(Tail(s), x) => InRun(x, r) /\ x # Head(s) BY <1>2 DEF InRun
<1> QED BY <1>2, <1>4, <1>5, <1>6, <1>7, <1>8

LEMMA RetryOkKeeps ==
  ASSUME IInv, NEW r \in Runs, RetryOk(r) PROVE IInv'
<1> DEFINE e == Head(batch[r])
<1>0. TypeOK /\ SentByOne /\ UnpublishedIsUnsent BY DEF IInv
<1>1. /\ e \in published /\ e \in Events /\ InRun(e, r) /\ Held(e)
      /\ e \notin sending /\ ~Queued(e)
      /\ \A q \in Runs \ {r} : ~InRun(e, q)
      /\ Tail(batch[r]) \in Seq(published) /\ Len(Tail(batch[r])) <= BatchSize
      /\ IsInjective(Tail(batch[r]))
      /\ \A x : Contains(Tail(batch[r]), x) => InRun(x, r) /\ x # e
  BY HeadIsHeld DEF RetryOk
<1>2. /\ retryQueue' = retryQueue /\ sending' = sending /\ published' = published
      /\ restarts' = restarts /\ kafkaUp' = kafkaUp /\ Accepted(e)
      /\ batch'[r] = Tail(batch[r]) /\ \A q \in Runs \ {r} : batch'[q] = batch[q]
      /\ batch' \in [Runs -> Seq(published)]
  BY <1>0, <1>1 DEF RetryOk, TypeOK
<1> HIDE DEF e
<1>3. /\ broker' \in [Events -> Nat] /\ unanswered' = unanswered
      /\ \A x \in Events : Confirmed(x)' => Confirmed(x) \/ x = e
      /\ \A x \in Events \ {e} : broker'[x] = broker[x]
      /\ DuplicatesNeedLostAnswers'
  BY <1>1, <1>2, AcceptedSound
<1>4. TypeOK'
  <2>1. \A q \in Runs : Len(batch'[q]) <= BatchSize BY <1>0, <1>1, <1>2 DEF TypeOK
  <2> QED BY <1>0, <1>2, <1>3, <2>1 DEF TypeOK
<1>6. SentByOne'
  <2>1. \A x \in Events : Queued(x)' <=> Queued(x) BY <1>2 DEF Queued
  <2>2. \A x \in Events, q \in Runs : InRun(x, q)' => InRun(x, q) /\ x # e
    BY <1>1, <1>2 DEF InRun
  <2>3. IsInjective(retryQueue)' /\ \A q \in Runs : IsInjective(batch[q])'
    BY <1>0, <1>1, <1>2 DEF SentByOne
  <2>4. \A x \in Events : Held(x)' => Held(x) /\ x # e
    BY <1>1, <1>2, <2>1, <2>2 DEF Held
  <2> QED BY <1>0, <1>2, <1>3, <2>1, <2>2, <2>3, <2>4 DEF SentByOne
<1>7. UnpublishedIsUnsent' BY <1>0, <1>1, <1>2, <1>3 DEF UnpublishedIsUnsent
<1> QED BY <1>3, <1>4, <1>6, <1>7 DEF IInv

LEMMA RetryFailsKeeps ==
  ASSUME IInv, NEW r \in Runs, RetryFails(r) PROVE IInv'
<1> DEFINE e == Head(batch[r])
<1>0. TypeOK /\ SentByOne /\ UnpublishedIsUnsent BY DEF IInv
<1>1. /\ e \in published /\ e \in Events /\ InRun(e, r) /\ Held(e)
      /\ e \notin sending /\ ~Queued(e)
      /\ \A q \in Runs \ {r} : ~InRun(e, q)
  BY HeadIsHeld DEF RetryFails
<1>2. /\ sending' = sending /\ published' = published
      /\ restarts' = restarts /\ kafkaUp' = kafkaUp /\ Refused(e) /\ Enqueue(e)
      /\ batch'[r] = <<>> /\ \A q \in Runs \ {r} : batch'[q] = batch[q]
      /\ batch' \in [Runs -> Seq(published)]
  BY <1>0, EmptySeq DEF RetryFails, TypeOK
<1> HIDE DEF e
<1>3. /\ broker' \in [Events -> Nat] /\ unanswered' \in [Events -> 0..MaxUnanswered]
      /\ \A x \in Events : Confirmed(x)' => Confirmed(x)
      /\ \A x \in Events \ {e} : broker'[x] = broker[x] /\ unanswered'[x] = unanswered[x]
      /\ DuplicatesNeedLostAnswers'
  BY <1>1, <1>2, RefusedSound
<1>4. /\ retryQueue' \in Seq(published) /\ Len(retryQueue') <= MaxRetryQueue
      /\ IsInjective(retryQueue)'
      /\ \A x : Queued(x)' => Queued(x) \/ x = e
  BY <1>1, <1>2, EnqueueSound
<1>5. TypeOK'
  <2>0. Len(<<>>) <= BatchSize
    <3>1. Len(<<>>) = 0 BY EmptySeq
    <3> QED BY <3>1, EventBusAssumption
  <2>1. \A q \in Runs : Len(batch'[q]) <= BatchSize BY <1>0, <1>2, <2>0 DEF TypeOK
  <2> QED BY <1>0, <1>2, <1>3, <1>4, <2>1 DEF TypeOK
<1>6. SentByOne'
  <2>1. \A x \in Events, q \in Runs : InRun(x, q)' => InRun(x, q) /\ q # r
    BY <1>2, EmptyHoldsNothing DEF InRun
  <2>2. \A q \in Runs : IsInjective(batch[q])'
    BY <1>0, <1>2, EmptyHoldsNothing DEF SentByOne
  <2>3. \A x \in Events : Held(x)' => Held(x) BY <1>1, <1>2, <1>4, <2>1 DEF Held
  <2>4. \A x \in Events : Confirmed(x)' => ~Held(x)' BY <1>0, <1>3, <2>3 DEF SentByOne
  <2>5. \A x \in Events : x \in sending' => ~Queued(x)'
    BY <1>0, <1>1, <1>2, <1>4 DEF SentByOne
  <2>6. \A x \in Events, q \in Runs : InRun(x, q)' =>
          /\ x \notin sending' /\ ~Queued(x)'
          /\ \A p \in Runs : InRun(x, p)' => p = q
    BY <1>0, <1>1, <1>2, <1>4, <2>1 DEF SentByOne
  <2> QED BY <1>4, <2>2, <2>4, <2>5, <2>6 DEF SentByOne
<1>7. UnpublishedIsUnsent' BY <1>0, <1>1, <1>2, <1>3 DEF UnpublishedIsUnsent
<1> QED BY <1>3, <1>5, <1>6, <1>7 DEF IInv

\* A restart empties everything that could hold an event.
LEMMA RestartKeeps ==
  ASSUME IInv, Restart PROVE IInv'
<1>0. TypeOK /\ UnpublishedIsUnsent /\ DuplicatesNeedLostAnswers BY DEF IInv
<1>1. /\ published' = published /\ kafkaUp' = kafkaUp
      /\ broker' = broker /\ unanswered' = unanswered
      /\ sending' = {} /\ retryQueue' = <<>>
      /\ batch' \in [Runs -> Seq(published)] /\ \A r \in Runs : batch'[r] = <<>>
  BY EmptySeq DEF Restart
<1>2. TypeOK' BY <1>0, <1>1, EmptySeq, EventBusAssumption DEF TypeOK, Restart
<1>3. \A x \in Events : ~Queued(x)' BY <1>1, EmptyHoldsNothing DEF Queued
<1>4. SentByOne'
  <2>1. \A x \in Events, r \in Runs : ~InRun(x, r)' BY <1>1, EmptyHoldsNothing DEF InRun
  <2>2. \A x \in Events : ~Held(x)' BY <1>1, <1>3, <2>1 DEF Held
  <2>3. IsInjective(retryQueue)' /\ \A r \in Runs : IsInjective(batch[r])'
    BY <1>1, EmptyHoldsNothing
  <2> QED BY <1>1, <1>3, <2>1, <2>2, <2>3 DEF SentByOne
<1> QED BY <1>0, <1>1, <1>2, <1>4 DEF IInv, UnpublishedIsUnsent, DuplicatesNeedLostAnswers

LEMMA SameKeeps ==
  ASSUME IInv, kafkaUp' \in BOOLEAN,
         UNCHANGED <<published, sending, retryQueue, batch, broker, unanswered, restarts>>
  PROVE  IInv'
<1>1. TypeOK' BY DEF IInv, TypeOK
<1>2. SentByOne' BY DEF IInv, SentByOne, Confirmed, Held, Queued, InRun
<1> QED BY <1>1, <1>2 DEF IInv, UnpublishedIsUnsent, DuplicatesNeedLostAnswers

LEMMA NextKeepsIInv == IInv /\ [Next]_vars => IInv'
<1> SUFFICES ASSUME IInv, [Next]_vars PROVE IInv' OBVIOUS
<1>1. CASE KafkaChanges BY <1>1, SameKeeps DEF KafkaChanges
<1>2. CASE UNCHANGED vars BY <1>2, SameKeeps DEF vars, IInv, TypeOK
<1> QED
  BY <1>1, <1>2, PublishEventKeeps, PublishOkKeeps, PublishFailsKeeps, StartRetryKeeps,
     RetryOkKeeps, RetryFailsKeeps, RestartKeeps
  DEF Next, Answer, Answered

LEMMA BusInductive == Spec => []IInv
BY InitIInv, NextKeepsIInv, PTL DEF Spec

-----------------------------------------------------------------------------
(* The theorems *)

\* The queue stays within its capacity and every batch within its size.
THEOREM BusTyping == Spec => []TypeOK
<1>1. IInv => TypeOK BY DEF IInv
<1> QED BY <1>1, BusInductive, PTL

\* However many runs overlap, one place holds an event, and none holds one that
\* Kafka has confirmed.
THEOREM BusSendsOnce == Spec => []SentByOne
<1>1. IInv => SentByOne BY DEF IInv
<1> QED BY <1>1, BusInductive, PTL

\* Second copies at the broker come from calls that failed after reaching it.
THEOREM BusDuplicates == Spec => []DuplicatesNeedLostAnswers
<1>1. IInv => DuplicatesNeedLostAnswers BY DEF IInv
<1> QED BY <1>1, BusInductive, PTL

-----------------------------------------------------------------------------
(* What the process loses *)

LEMMA AppendKeepsElements ==
  ASSUME NEW S, NEW s \in Seq(S), NEW e \in S
  PROVE  Contains(Append(s, e), e) /\ \A x : Contains(s, x) => Contains(Append(s, e), x)
<1> DEFINE t == Append(s, e)
<1>1. /\ Len(t) = Len(s) + 1 /\ t[Len(s) + 1] = e
      /\ \A i \in 1..Len(s) : t[i] = s[i]
  BY AppendProperties
<1> HIDE DEF t
<1>2. Len(s) \in Nat BY LenProperties
<1>3. Len(s) + 1 \in 1..Len(t) /\ \A i \in 1..Len(s) : i \in 1..Len(t) BY <1>1, <1>2
<1>4. Contains(t, e) BY <1>1, <1>3 DEF Contains
<1>5. \A x : Contains(s, x) => Contains(t, x) BY <1>1, <1>3 DEF Contains
<1> QED BY <1>4, <1>5 DEF t

LEMMA HeadOrTail ==
  ASSUME NEW S, NEW s \in Seq(S), s # <<>>, NEW x, Contains(s, x)
  PROVE  x = Head(s) \/ Contains(Tail(s), x)
<1>1. PICK i \in 1..Len(s) : s[i] = x BY DEF Contains
<1>2. /\ Len(s) \in Nat /\ Head(s) = s[1] /\ Len(Tail(s)) = Len(s) - 1
      /\ \A j \in 1..Len(Tail(s)) : Tail(s)[j] = s[j + 1]
  BY LenProperties, HeadTailProperties
<1>3. CASE i = 1 BY <1>1, <1>2, <1>3
<1>4. CASE i # 1
  <2>1. i - 1 \in 1..Len(Tail(s)) /\ (i - 1) + 1 = i BY <1>1, <1>2, <1>4
  <2>2. Tail(s)[i - 1] = x BY <1>1, <1>2, <2>1
  <2> QED BY <2>1, <2>2 DEF Contains
<1> QED BY <1>3, <1>4

LEMMA SplitKeepsElements ==
  ASSUME NEW S, NEW s \in Seq(S), NEW n \in 0..Len(s), NEW x, Contains(s, x)
  PROVE  Contains(SubSeq(s, 1, n), x) \/ Contains(SubSeq(s, n + 1, Len(s)), x)
<1> DEFINE a == SubSeq(s, 1, n)
           b == SubSeq(s, n + 1, Len(s))
           m == Len(s)
<1>0. m \in Nat /\ \A i \in 1..m : s[i] \in S BY LenProperties
<1>1. PICK i \in 1..m : s[i] = x BY DEF Contains
<1>2. CASE i <= n
  <2>1. Len(a) = n /\ \A j \in 1..n : a[j] = s[j] BY <1>0, SubSeqProperties
  <2> HIDE DEF a, m
  <2>2. i \in 1..n BY <1>0, <1>1, <1>2
  <2>3. i \in 1..Len(a) /\ a[i] = x BY <1>1, <2>1, <2>2
  <2>4. Contains(a, x) BY <2>3 DEF Contains
  <2> QED BY <2>4 DEF a
<1>3. CASE ~(i <= n)
  <2>1. /\ Len(b) = IF n + 1 <= m THEN m - (n + 1) + 1 ELSE 0
        /\ \A j \in 1..m - (n + 1) + 1 : b[j] = s[n + 1 + j - 1]
    BY <1>0, SubSeqProperties
  <2>0. n \in Nat BY <1>0
  <2> HIDE DEF b, m
  <2>2. /\ i - n \in 1..m - (n + 1) + 1 /\ n + 1 + (i - n) - 1 = i /\ n + 1 <= m
    BY <1>0, <1>1, <1>3, <2>0
  <2>3. b[i - n] = s[n + 1 + (i - n) - 1] BY <2>1, <2>2
  <2>4. i - n \in 1..Len(b) /\ b[i - n] = x BY <1>1, <2>1, <2>2, <2>3
  <2>5. Contains(b, x) BY <2>4 DEF Contains
  <2> QED BY <2>5 DEF b, m
<1> QED BY <1>2, <1>3

LEMMA AnswersStayCopies ==
  ASSUME IInv, AnswersAreCopies, [Next]_vars PROVE AnswersAreCopies'
<1>0. broker \in [Events -> Nat] /\ unanswered \in [Events -> Nat]
  BY EventBusAssumption DEF IInv, TypeOK
<1>1. ASSUME NEW e \in Events, Accepted(e) PROVE AnswersAreCopies'
  BY <1>0, <1>1 DEF Accepted, AnswersAreCopies
<1>2. ASSUME NEW e \in Events, Refused(e) PROVE AnswersAreCopies'
  <2>1. CASE UNCHANGED <<broker, unanswered>> BY <2>1 DEF AnswersAreCopies
  <2>2. CASE /\ unanswered[e] < MaxUnanswered
             /\ broker' = [broker EXCEPT ![e] = @ + 1]
             /\ unanswered' = [unanswered EXCEPT ![e] = @ + 1]
    BY <1>0, <2>2 DEF AnswersAreCopies
  <2> QED BY <1>2, <2>1, <2>2 DEF Refused
<1>3. CASE UNCHANGED <<broker, unanswered>> BY <1>3 DEF AnswersAreCopies
<1>4. ASSUME NEW r \in Runs, Answered(r) PROVE AnswersAreCopies'
  <2>1. batch[r] # <<>> BY <1>4 DEF Answered, RetryOk, RetryFails
  <2>2. Head(batch[r]) \in Events BY <2>1, HeadIsHeld
  <2> QED BY <1>1, <1>2, <1>4, <2>2 DEF Answered, RetryOk, RetryFails
<1>5. ASSUME NEW e \in Events, Answer(e) PROVE AnswersAreCopies'
  BY <1>1, <1>2, <1>5 DEF Answer, PublishOk, PublishFails
<1> QED
  BY <1>3, <1>4, <1>5 DEF Next, PublishEvent, StartRetry, KafkaChanges, Restart, vars

\* An accepted call confirms its event.
LEMMA AcceptedConfirms ==
  ASSUME IInv, AnswersAreCopies, NEW e \in Events, Accepted(e) PROVE Confirmed(e)'
BY EventBusAssumption DEF IInv, TypeOK, AnswersAreCopies, Accepted, Confirmed

\* What a failed call does to the queue: nothing leaves it, and the event is in it
\* unless it was full.
LEMMA EnqueueKeeps ==
  ASSUME IInv, NEW e \in published, Enqueue(e)
  PROVE  /\ \A x \in Events : Queued(x) => Queued(x)'
         /\ Queued(e)' \/ Len(retryQueue) = MaxRetryQueue
<1>0. retryQueue \in Seq(published) /\ Len(retryQueue) <= MaxRetryQueue
  BY DEF IInv, TypeOK
<1>1. CASE Len(retryQueue) < MaxRetryQueue
  <2>1. retryQueue' = Append(retryQueue, e) BY <1>1 DEF Enqueue
  <2> QED BY <1>0, <2>1, AppendKeepsElements DEF Queued
<1>2. CASE ~(Len(retryQueue) < MaxRetryQueue)
  <2>1. retryQueue' = retryQueue BY <1>2 DEF Enqueue
  <2>2. Len(retryQueue) \in Nat BY <1>0, LenProperties
  <2>3. Len(retryQueue) = MaxRetryQueue BY <1>0, <1>2, <2>2, EventBusAssumption
  <2> QED BY <2>1, <2>3 DEF Queued
<1> QED BY <1>1, <1>2

\* Why a step stops holding an event, one case per action.
Cause(e) ==
  \/ Confirmed(e)'
  \/ restarts' # restarts
  \/ ~kafkaUp /\ Len(retryQueue) = MaxRetryQueue
  \/ ~kafkaUp /\ \E r \in Runs : InRun(e, r) /\ Head(batch[r]) # e

LEMMA PublicationsGiveUp ==
  ASSUME IInv, AnswersAreCopies, NEW e \in Events, Answer(e),
         NEW x \in Events, Held(x), ~Held(x)'
  PROVE  Cause(x)
<1>1. e \in published BY DEF IInv, TypeOK, Answer, PublishOk, PublishFails
<1>2. /\ sending' = sending \ {e} /\ batch' = batch
  BY DEF Answer, PublishOk, PublishFails
<1>3. \A r \in Runs : ~InRun(x, r)
  <2>1. \A r \in Runs : InRun(x, r)' <=> InRun(x, r) BY <1>2 DEF InRun
  <2> QED BY <2>1 DEF Held
<1>4. CASE PublishOk(e)
  <2>1. Queued(x)' <=> Queued(x) BY <1>4 DEF PublishOk, Queued
  <2>2. x = e BY <1>2, <1>3, <2>1 DEF Held
  <2>3. Confirmed(e)' BY <1>4, AcceptedConfirms DEF PublishOk
  <2> QED BY <2>2, <2>3 DEF Cause
<1>5. CASE PublishFails(e)
  <2>1. /\ \A y \in Events : Queued(y) => Queued(y)'
        /\ Queued(e)' \/ Len(retryQueue) = MaxRetryQueue
        /\ ~kafkaUp
    BY <1>1, <1>5, EnqueueKeeps DEF PublishFails, Refused
  <2>2. x = e BY <1>2, <1>3, <2>1 DEF Held
  <2>3. ~Queued(x)' BY DEF Held
  <2> QED BY <2>1, <2>2, <2>3 DEF Cause
<1> QED BY <1>4, <1>5 DEF Answer

LEMMA TakingGivesNothingUp ==
  ASSUME IInv, NEW r \in Runs, StartRetry(r), NEW x \in Events, Held(x)
  PROVE  Held(x)'
<1>0. /\ retryQueue \in Seq(published) /\ batch \in [Runs -> Seq(published)]
      /\ sending' = sending /\ batch[r] = <<>>
  BY DEF IInv, TypeOK, StartRetry
<1>1. Taken \in 0..Len(retryQueue)
  BY <1>0, LenProperties, EventBusAssumption DEF Taken
<1>2. /\ batch'[r] = SubSeq(retryQueue, 1, Taken)
      /\ \A q \in Runs \ {r} : batch'[q] = batch[q]
      /\ retryQueue' = SubSeq(retryQueue, Taken + 1, Len(retryQueue))
  BY <1>0 DEF StartRetry
<1>3. CASE x \in sending BY <1>0, <1>3 DEF Held
<1>4. CASE Queued(x)
  <2>1. InRun(x, r)' \/ Queued(x)'
    BY <1>0, <1>1, <1>2, <1>4, SplitKeepsElements DEF Queued, InRun
  <2> QED BY <2>1 DEF Held
<1>5. ASSUME NEW q \in Runs, InRun(x, q) PROVE Held(x)'
  <2>1. q # r BY <1>0, <1>5, EmptyHoldsNothing DEF InRun
  <2>2. InRun(x, q)' BY <1>2, <1>5, <2>1 DEF InRun
  <2> QED BY <2>2 DEF Held
<1> QED BY <1>3, <1>4, <1>5 DEF Held

LEMMA RunsGiveUp ==
  ASSUME IInv, AnswersAreCopies, NEW r \in Runs, Answered(r),
         NEW x \in Events, Held(x), ~Held(x)'
  PROVE  Cause(x)
<1>0. batch[r] # <<>> BY DEF Answered, RetryOk, RetryFails
<1>1. PICK e \in published : e = Head(batch[r])
  BY <1>0, HeadIsHeld
<1>7. e \in Events /\ batch \in [Runs -> Seq(published)] BY DEF IInv, TypeOK
<1>2. /\ sending' = sending /\ \A q \in Runs \ {r} : batch'[q] = batch[q]
  BY <1>7 DEF Answered, RetryOk, RetryFails
<1>3. \A q \in Runs \ {r} : ~InRun(x, q)
  <2>1. \A q \in Runs \ {r} : InRun(x, q)' <=> InRun(x, q) BY <1>2 DEF InRun
  <2> QED BY <2>1 DEF Held
<1>4. x \notin sending /\ ~Queued(x)' /\ ~InRun(x, r)' BY <1>2 DEF Held
<1>5. CASE RetryOk(r)
  <2>1. Accepted(e) /\ retryQueue' = retryQueue /\ batch'[r] = Tail(batch[r])
    BY <1>1, <1>5, <1>7 DEF RetryOk
  <2>2. InRun(x, r) BY <1>3, <1>4, <2>1 DEF Held, Queued
  <2>3. x = Head(batch[r]) \/ Contains(Tail(batch[r]), x)
    BY <1>0, <1>7, <2>2, HeadOrTail DEF InRun
  <2>4. x = e BY <1>1, <1>4, <2>1, <2>3 DEF InRun
  <2>5. Confirmed(e)' BY <1>7, <2>1, AcceptedConfirms
  <2> QED BY <2>4, <2>5 DEF Cause
<1>6. CASE RetryFails(r)
  <2>1. ~kafkaUp /\ Enqueue(e) BY <1>1, <1>6 DEF RetryFails, Refused
  <2>2. /\ \A y \in Events : Queued(y) => Queued(y)'
        /\ Queued(e)' \/ Len(retryQueue) = MaxRetryQueue
    BY <1>1, <2>1, EnqueueKeeps
  <2>3. InRun(x, r) BY <1>3, <1>4, <2>2 DEF Held
  <2>4. CASE x = e BY <1>4, <2>1, <2>2, <2>4 DEF Cause
  <2>5. CASE x # e BY <1>1, <2>1, <2>3, <2>5 DEF Cause
  <2> QED BY <2>4, <2>5
<1> QED BY <1>5, <1>6 DEF Answered

LEMMA StepsGiveUpForCause ==
  ASSUME IInv, AnswersAreCopies, [Next]_vars,
         NEW x \in Events, Held(x), ~Held(x)'
  PROVE  Cause(x)
<1>1. CASE sending \subseteq sending' /\ UNCHANGED <<retryQueue, batch>>
  BY <1>1 DEF Held, Queued, InRun
<1>2. CASE Restart
  <2>1. restarts' = restarts + 1 /\ restarts \in Nat
    BY <1>2, EventBusAssumption DEF Restart, IInv, TypeOK
  <2>2. restarts' # restarts BY <2>1
  <2> QED BY <2>2 DEF Cause
<1>3. CASE \E e \in Events : PublishEvent(e) BY <1>1, <1>3 DEF PublishEvent
<1>4. CASE KafkaChanges BY <1>1, <1>4 DEF KafkaChanges
<1>5. CASE UNCHANGED vars BY <1>1, <1>5 DEF vars
<1>6. CASE \E r \in Runs : StartRetry(r) BY <1>6, TakingGivesNothingUp
<1>7. CASE \E e \in Events : Answer(e) BY <1>7, PublicationsGiveUp
<1>8. CASE \E r \in Runs : Answered(r) BY <1>8, RunsGiveUp
<1> QED BY <1>2, <1>3, <1>4, <1>5, <1>6, <1>7, <1>8 DEF Next

\* An event is given up only when confirmed, at a restart, by a full queue, or
\* behind an event that failed: nothing else loses one.
THEOREM BusGivesUpForCause == Spec => GivenUpForCause
<1>1. Init => AnswersAreCopies BY DEF Init, AnswersAreCopies
<1>2. IInv /\ AnswersAreCopies /\ [Next]_vars => AnswersAreCopies'
  BY AnswersStayCopies
<1>3. IInv /\ AnswersAreCopies /\ [Next]_vars =>
        [\A e \in Events : Held(e) /\ ~Held(e)' =>
           \/ Confirmed(e)'
           \/ restarts' # restarts
           \/ ~kafkaUp /\ Len(retryQueue) = MaxRetryQueue
           \/ ~kafkaUp /\ \E r \in Runs : InRun(e, r) /\ Head(batch[r]) # e]_vars
  BY StepsGiveUpForCause DEF Cause
<1> QED BY <1>1, <1>2, <1>3, BusInductive, PTL DEF Spec, GivenUpForCause
=============================================================================
