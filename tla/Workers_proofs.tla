--------------------------- MODULE Workers_proofs ---------------------------
(***************************************************************************)
(* Theorems about the processes that are started, die and are started      *)
(* again: WorkerSupervisor, for any number of crashes, restarts and        *)
(* signals, and NocEscalation, for any alerts, requests and starts.        *)
(***************************************************************************)
EXTENDS WorkerSupervisor, NocEscalation, FiniteSetTheorems, TLAPS

-----------------------------------------------------------------------------
(* Facts about the two helpers that change `children`. *)

\* spawnWorker adds one child behind those there are, and the handle refers to
\* it unless the spawn failed.
LEMMA SpawnFacts ==
    ASSUME TypeOK, NEW count \in Nat, SpawnWorker(count)
    PROVE  /\ children' \in Seq(Child)
           /\ Len(children') = Len(children) + 1
           /\ \A c \in DOMAIN children : children'[c] = children[c]
           /\ \/ /\ children'[Len(children) + 1].phase = "alive"
                 /\ status' = "running"
                 /\ process' = Len(children) + 1
              \/ /\ children'[Len(children) + 1].phase = "failed"
                 /\ status' = "crashed"
                 /\ process' = 0
           /\ status' \in Statuses
           /\ process' \in {0} \cup DOMAIN children'
           /\ restarts' = count
<1>1. children \in Seq(Child)
  BY DEF TypeOK
<1>2. ASSUME NEW p \in ChildPhases,
             children' = Append(children, [phase |-> p, restartCount |-> count])
      PROVE  /\ children' \in Seq(Child)
             /\ Len(children') = Len(children) + 1
             /\ DOMAIN children' = 1..(Len(children) + 1)
             /\ \A c \in DOMAIN children : children'[c] = children[c]
             /\ children'[Len(children) + 1].phase = p
  <2> DEFINE new == [phase |-> p, restartCount |-> count]
  <2>1. new \in Child /\ new.phase = p
    BY DEF Child
  <2>2. children' = Append(children, new)
    BY <1>2
  <2>3. /\ children' \in Seq(Child)
        /\ Len(children') = Len(children) + 1
        /\ \A c \in DOMAIN children : children'[c] = children[c]
        /\ children'[Len(children) + 1] = new
    <3> HIDE DEF new
    <3> QED BY <1>1, <2>1, <2>2
  <2>4. DOMAIN children' = 1..(Len(children) + 1)
    BY <1>1, <2>3
  <2> QED BY <2>1, <2>3, <2>4
<1>3. CASE SpawnSucceeds(count)
  <2>1. "alive" \in ChildPhases
    BY DEF ChildPhases
  <2> QED BY <1>1, <1>2, <1>3, <2>1 DEF SpawnSucceeds, SpawnWorker, Statuses
<1>4. CASE SpawnFails(count)
  <2>1. "failed" \in ChildPhases
    BY DEF ChildPhases
  <2> QED BY <1>1, <1>2, <1>4, <2>1 DEF SpawnFails, SpawnWorker, Statuses
<1> QED BY <1>3, <1>4 DEF SpawnWorker

\* Changing the phase of one child leaves the others alone.
LEMMA PhaseFacts ==
    ASSUME TypeOK, NEW c \in DOMAIN children, NEW p \in ChildPhases,
           children' = [children EXCEPT ![c].phase = p]
    PROVE  /\ children' \in Seq(Child)
           /\ Len(children') = Len(children)
           /\ DOMAIN children' = DOMAIN children
           /\ children'[c].phase = p
           /\ \A d \in DOMAIN children \ {c} : children'[d] = children[d]
           /\ \A d \in DOMAIN children :
                children'[d].restartCount = children[d].restartCount
<1>1. children \in Seq(Child)
  BY DEF TypeOK
<1>2. children[c] \in Child
  BY <1>1
<1>3. [children[c] EXCEPT !.phase = p] \in Child
  BY <1>2 DEF Child
<1>4. [children[c] EXCEPT !.phase = p].phase = p
  BY <1>2 DEF Child
<1> QED BY <1>1, <1>2, <1>3, <1>4 DEF Child

\* kill() ends no child and turns at most the current child from alive to terminating.
LEMMA KilledFacts ==
    ASSUME TypeOK, children' = Killed
    PROVE  /\ children' \in Seq(Child)
           /\ Len(children') = Len(children)
           /\ DOMAIN children' = DOMAIN children
           /\ Live' = Live
<1>0. ASSUME DOMAIN children' = DOMAIN children,
             \A d \in DOMAIN children :
                children'[d].phase \in {"alive", "terminating"}
                  <=> children[d].phase \in {"alive", "terminating"}
      PROVE  Live' = Live
  BY <1>0 DEF Live
<1>1. CASE process \in Live
  <2>1. process \in DOMAIN children
    BY <1>1 DEF Live
  <2>2. children' = [children EXCEPT ![process].phase = "terminating"]
    BY <1>1 DEF Killed
  <2>3. "terminating" \in ChildPhases
    BY DEF ChildPhases
  <2>4. /\ children' \in Seq(Child)
        /\ Len(children') = Len(children)
        /\ DOMAIN children' = DOMAIN children
        /\ children'[process].phase = "terminating"
        /\ \A d \in DOMAIN children \ {process} : children'[d] = children[d]
    BY <2>1, <2>2, <2>3, PhaseFacts
  <2>5. children[process].phase \in {"alive", "terminating"}
    BY <1>1 DEF Live
  <2>6. Live' = Live
    BY <1>0, <2>4, <2>5
  <2> QED BY <2>1, <2>4, <2>6
<1>2. CASE process \notin Live
  <2>1. children' = children
    BY <1>2 DEF Killed
  <2> QED BY <2>1 DEF TypeOK, Live
<1> QED BY <1>1, <1>2

-----------------------------------------------------------------------------
(* Type correctness. *)

LEMMA TypeInit == Init => TypeOK
BY SupervisorAssumption DEF Init, TypeOK, Statuses

LEMMA TypeStep ==
    ASSUME TypeOK, [Next]_vars
    PROVE  TypeOK'
<1>0. /\ server \in {"serving", "draining", "exited"}
      /\ startup \in BOOLEAN /\ status \in Statuses
      /\ children \in Seq(Child) /\ process \in {0} \cup DOMAIN children
      /\ restarts \in Nat /\ spawnTimers \in Nat
      /\ restartTimers \subseteq DOMAIN children
      /\ crashes \in 0..MaxCrashes /\ manual \in 0..MaxManual
      /\ signals \in 0..MaxSignals
      /\ Len(children) \in Nat /\ DOMAIN children = 1..Len(children)
  BY DEF TypeOK
<1>1. CASE StartAllWorkers
  <2>1. /\ startup' = FALSE /\ status' = "starting" /\ process' = 0
        /\ restarts' = 0 /\ spawnTimers' = spawnTimers + 1
        /\ UNCHANGED <<server, children, restartTimers, crashes, manual, signals>>
    BY <1>1 DEF StartAllWorkers
  <2>2. startup' \in BOOLEAN
    BY <2>1
  <2> QED BY <1>0, <2>1, <2>2 DEF TypeOK, Statuses
<1>2. CASE SpawnTimerFires
  <2>1. SpawnWorker(0) /\ spawnTimers' = spawnTimers - 1 /\ spawnTimers > 0
        /\ UNCHANGED <<server, startup, restartTimers, crashes, manual, signals>>
    BY <1>2 DEF SpawnTimerFires
  <2>2. /\ children' \in Seq(Child) /\ Len(children') = Len(children) + 1
        /\ status' \in Statuses /\ process' \in {0} \cup DOMAIN children' /\ restarts' = 0
    BY <2>1, SpawnFacts
  <2>3. DOMAIN children \subseteq DOMAIN children'
    BY <1>0, <2>2
  <2> QED BY <1>0, <2>1, <2>2, <2>3 DEF TypeOK
<1>3. CASE RestartTimerFires
  <2>1. PICK c \in restartTimers : restartTimers' = restartTimers \ {c} /\ AutoRestart(c)
    BY <1>3 DEF RestartTimerFires
  <2>2. UNCHANGED <<server, startup, spawnTimers, crashes, manual, signals>>
    BY <1>3 DEF RestartTimerFires
  <2>3. CASE status # "stopped"
    <3>1. children[c].restartCount + 1 \in Nat
      <4>1. children[c] \in Child
        BY <1>0, <2>1
      <4> QED BY <4>1 DEF Child
    <3>2. SpawnWorker(children[c].restartCount + 1)
      BY <2>1, <2>3 DEF AutoRestart
    <3>3. /\ children' \in Seq(Child) /\ Len(children') = Len(children) + 1
          /\ status' \in Statuses /\ process' \in {0} \cup DOMAIN children'
          /\ restarts' = children[c].restartCount + 1
      BY <3>1, <3>2, SpawnFacts
    <3>4. DOMAIN children \subseteq DOMAIN children'
      BY <1>0, <3>3
    <3> QED BY <1>0, <2>1, <2>2, <3>1, <3>3, <3>4 DEF TypeOK
  <2>4. CASE status = "stopped"
    BY <1>0, <2>1, <2>2, <2>4 DEF TypeOK, AutoRestart
  <2> QED BY <2>3, <2>4
<1>4. ASSUME NEW c \in DOMAIN children, ChildExits(c) PROVE TypeOK'
  <2>1. children' = [children EXCEPT ![c].phase = "gone"] /\ "gone" \in ChildPhases
    BY <1>4 DEF ChildExits, ChildPhases
  <2>2. children' \in Seq(Child) /\ DOMAIN children' = DOMAIN children
    BY <2>1, PhaseFacts
  <2>3. crashes' \in 0..MaxCrashes
    BY <1>0, <1>4, SupervisorAssumption DEF ChildExits
  <2>4. /\ status' \in Statuses /\ process' \in {0} \cup DOMAIN children
        /\ restartTimers' \subseteq DOMAIN children
    BY <1>0, <1>4 DEF ChildExits, OnExit, Statuses
  <2> QED BY <1>0, <1>4, <2>2, <2>3, <2>4 DEF TypeOK, ChildExits
<1>5. CASE RestartWorker
  <2>1. children' \in Seq(Child) /\ DOMAIN children' = DOMAIN children
    BY <1>5, KilledFacts DEF RestartWorker
  <2> QED BY <1>0, <1>5, <2>1, SupervisorAssumption DEF RestartWorker, TypeOK, Statuses
<1>6. CASE StopAllWorkers
  <2>1. children' \in Seq(Child) /\ DOMAIN children' = DOMAIN children
    <3>1. CASE status = "absent"
      BY <1>0, <1>6, <3>1 DEF StopAllWorkers
    <3>2. CASE status # "absent"
      BY <1>6, <3>2, KilledFacts DEF StopAllWorkers
    <3> QED BY <3>1, <3>2
  <2>2. status' \in Statuses
    BY <1>0, <1>6 DEF StopAllWorkers, Statuses
  <2> QED BY <1>0, <1>6, <2>1, <2>2, SupervisorAssumption DEF StopAllWorkers, TypeOK
<1>7. CASE ServerExits
  BY <1>0, <1>7 DEF ServerExits, TypeOK
<1>8. CASE UNCHANGED vars
  BY <1>8 DEF TypeOK, vars
<1> QED BY <1>1, <1>2, <1>3, <1>4, <1>5, <1>6, <1>7, <1>8 DEF Next

\* The supervisor's state keeps its shape, whatever ends, fires or is called.
THEOREM SupervisorTypeCorrect == Spec => []TypeOK
<1>1. Init => TypeOK
  BY TypeInit
<1>2. TypeOK /\ [Next]_vars => TypeOK'
  BY TypeStep
<1> QED BY <1>1, <1>2, PTL DEF Spec

-----------------------------------------------------------------------------
(* The invariant behind the two safety properties. *)

\* While the server lives, the handle is null or refers to the child spawned
\* last, whose end it has not seen yet.
HandleIsLast ==
    server # "exited" =>
        /\ process # 0 => process = Len(children) /\ process \in Live
        /\ status = "running" => process # 0

IInv == TypeOK /\ HandleIsLast /\ NeverForgotten

LEMMA IInvInit == Init => IInv
BY TypeInit DEF Init, IInv, HandleIsLast, NeverForgotten

\* A spawn establishes both parts at once: the child lives, or it is the last
\* one and failed.
LEMMA SpawnKeepsIInv ==
    ASSUME IInv, NEW count \in Nat, SpawnWorker(count), UNCHANGED server
    PROVE  HandleIsLast' /\ NeverForgotten'
<1>0. TypeOK /\ children \in Seq(Child) /\ Len(children) \in Nat
  BY DEF IInv, TypeOK
<1>1. /\ children' \in Seq(Child)
      /\ Len(children') = Len(children) + 1
      /\ \/ /\ children'[Len(children) + 1].phase = "alive"
            /\ status' = "running"
            /\ process' = Len(children) + 1
         \/ /\ children'[Len(children) + 1].phase = "failed"
            /\ status' = "crashed"
            /\ process' = 0
  BY <1>0, SpawnFacts
<1>2. DOMAIN children' = 1..(Len(children) + 1)
  BY <1>0, <1>1
<1>3. CASE process' # 0
  <2>1. Len(children) + 1 \in Live'
    BY <1>0, <1>1, <1>2, <1>3 DEF Live
  <2> QED BY <1>1, <1>3, <2>1 DEF HandleIsLast, NeverForgotten
<1>4. CASE process' = 0
  <2>1. children'[Len(children')].phase = "failed" /\ status' = "crashed"
    BY <1>0, <1>1, <1>4
  <2>2. children' # <<>>
    BY <1>0, <1>1
  <2>3. LastSpawnFailed'
    BY <2>1, <2>2 DEF LastSpawnFailed
  <2> QED BY <1>4, <2>1, <2>3 DEF HandleIsLast, NeverForgotten
<1> QED BY <1>3, <1>4

LEMMA IInvStep ==
    ASSUME IInv, [Next]_vars
    PROVE  IInv'
<1>0. TypeOK /\ TypeOK' /\ HandleIsLast /\ NeverForgotten
  BY TypeStep DEF IInv
<1>t. /\ children \in Seq(Child) /\ Len(children) \in Nat
      /\ restartTimers \subseteq DOMAIN children
      /\ spawnTimers \in Nat
  BY <1>0 DEF TypeOK
<1> SUFFICES HandleIsLast' /\ NeverForgotten'
  BY <1>0 DEF IInv
<1>1. CASE StartAllWorkers
  <2>1. status' = "starting" /\ process' = 0 /\ spawnTimers' = spawnTimers + 1
    BY <1>1 DEF StartAllWorkers
  <2> QED BY <1>t, <2>1 DEF HandleIsLast, NeverForgotten
<1>2. CASE SpawnTimerFires
  <2>1. SpawnWorker(0) /\ UNCHANGED server
    BY <1>2 DEF SpawnTimerFires
  <2> QED BY <2>1, SpawnKeepsIInv
<1>3. CASE RestartTimerFires
  <2>1. PICK c \in restartTimers : AutoRestart(c)
    BY <1>3 DEF RestartTimerFires
  <2>2. UNCHANGED <<server, spawnTimers>>
    BY <1>3 DEF RestartTimerFires
  <2>3. CASE status # "stopped"
    <3>1. children[c] \in Child
      BY <1>t, <2>1
    <3>2. children[c].restartCount + 1 \in Nat
      BY <3>1 DEF Child
    <3>3. SpawnWorker(children[c].restartCount + 1)
      BY <2>1, <2>3 DEF AutoRestart
    <3> QED BY <2>2, <3>2, <3>3, SpawnKeepsIInv
  <2>4. CASE status = "stopped"
    <3>1. UNCHANGED <<children, status, process>> /\ Live' = Live
      BY <2>1, <2>4 DEF AutoRestart, Live
    <3> QED BY <1>0, <2>2, <2>4, <3>1 DEF HandleIsLast, NeverForgotten
  <2> QED BY <2>3, <2>4
<1>4. ASSUME NEW c \in DOMAIN children, ChildExits(c)
      PROVE  HandleIsLast' /\ NeverForgotten'
  <2>1. UNCHANGED server
    BY <1>4 DEF ChildExits
  <2>2. server # "exited" => /\ status' = "crashed" /\ process' = 0
                             /\ restartTimers' # {}
    BY <1>4 DEF ChildExits, OnExit
  <2> QED BY <2>1, <2>2 DEF HandleIsLast, NeverForgotten
<1>5. CASE RestartWorker
  <2>1. children' = Killed /\ status' = "starting" /\ spawnTimers' = spawnTimers + 1
        /\ UNCHANGED <<server, process>>
    BY <1>5 DEF RestartWorker
  <2>2. Len(children') = Len(children) /\ Live' = Live
    BY <1>0, <2>1, KilledFacts
  <2>3. HandleIsLast'
    BY <1>0, <2>1, <2>2 DEF HandleIsLast
  <2>4. NeverForgotten'
    BY <1>t, <2>1 DEF NeverForgotten
  <2> QED BY <2>3, <2>4
<1>6. CASE StopAllWorkers
  <2>1. UNCHANGED process /\ server # "exited"
    BY <1>6 DEF StopAllWorkers
  <2>2. CASE status = "absent"
    <3>1. UNCHANGED <<status, children>> /\ Live' = Live
      BY <1>6, <2>2 DEF StopAllWorkers, Live
    <3> QED BY <1>0, <2>1, <2>2, <3>1 DEF HandleIsLast, NeverForgotten
  <2>3. CASE status # "absent"
    <3>1. status' = "stopped" /\ children' = Killed
      BY <1>6, <2>3 DEF StopAllWorkers
    <3>2. Len(children') = Len(children) /\ Live' = Live
      BY <1>0, <3>1, KilledFacts
    <3> QED BY <1>0, <2>1, <3>1, <3>2 DEF HandleIsLast, NeverForgotten
  <2> QED BY <2>2, <2>3
<1>7. CASE ServerExits
  BY <1>7 DEF ServerExits, HandleIsLast, NeverForgotten
<1>8. CASE UNCHANGED vars
  BY <1>0, <1>8 DEF vars, HandleIsLast, NeverForgotten, Live, LastSpawnFailed
<1> QED BY <1>1, <1>2, <1>3, <1>4, <1>5, <1>6, <1>7, <1>8 DEF Next

\* A worker the dashboard shows as running has a process: however exits of
\* replaced children and restarts interleave, the handle is the last child.
THEOREM SupervisorRunningHasAProcess == Spec => []RunningHasAProcess
<1>1. IInv => RunningHasAProcess
  BY DEF IInv, HandleIsLast, RunningHasAProcess
<1>2. IInv /\ [Next]_vars => IInv'
  BY IInvStep
<1> QED BY <1>1, <1>2, IInvInit, PTL DEF Spec

-----------------------------------------------------------------------------
(* Counting the starts.  NeverMultiplied is inductive: a callback turns at  *)
(* most one timer into one child, or one child into one timer, and only a   *)
(* manual restart adds a timer of its own.                                  *)

LEMMA Countable ==
    ASSUME NEW n \in Nat, NEW S, S \subseteq 1..n
    PROVE  IsFiniteSet(S) /\ Cardinality(S) \in Nat
<1>1. IsFiniteSet(1..n) BY FS_Interval
<1>2. IsFiniteSet(S) BY <1>1, FS_Subset
<1> QED BY <1>2, FS_CardinalityType

LEMMA CountsAreFinite ==
    ASSUME TypeOK
    PROVE  /\ IsFiniteSet(Live) /\ Cardinality(Live) \in Nat
           /\ IsFiniteSet(restartTimers) /\ Cardinality(restartTimers) \in Nat
<1>1. Len(children) \in Nat /\ DOMAIN children = 1..Len(children)
  BY DEF TypeOK
<1>2. Live \subseteq DOMAIN children /\ restartTimers \subseteq DOMAIN children
  BY DEF Live, TypeOK
<1> QED BY <1>1, <1>2, Countable

\* A spawn adds at most one child that lives.
LEMMA SpawnCounts ==
    ASSUME TypeOK, NEW count \in Nat, SpawnWorker(count)
    PROVE  Cardinality(Live') <= Cardinality(Live) + 1
<1>1. /\ children \in Seq(Child) /\ children' \in Seq(Child)
      /\ Len(children') = Len(children) + 1
      /\ \A c \in DOMAIN children : children'[c] = children[c]
  BY SpawnFacts DEF TypeOK
<1>2. /\ Len(children) \in Nat /\ DOMAIN children = 1..Len(children)
      /\ DOMAIN children' = 1..(Len(children) + 1)
  BY <1>1
<1>3. Len(children) + 1 \notin Live
  BY <1>2 DEF Live
<1>4. Live' = Live \/ Live' = Live \cup {Len(children) + 1}
  BY <1>1, <1>2 DEF Live
<1>5. Cardinality(Live \cup {Len(children) + 1}) = Cardinality(Live) + 1
  BY <1>3, CountsAreFinite, FS_AddElement
<1>6. \/ Cardinality(Live') = Cardinality(Live)
      \/ Cardinality(Live') = Cardinality(Live) + 1
  BY <1>4, <1>5, Zenon
<1> QED BY <1>6, CountsAreFinite

\* The end of a child takes one away.
LEMMA EndCounts ==
    ASSUME TypeOK, NEW c \in Live, children' = [children EXCEPT ![c].phase = "gone"]
    PROVE  Cardinality(Live') = Cardinality(Live) - 1
<1>1. c \in DOMAIN children /\ "gone" \in ChildPhases
  BY DEF Live, ChildPhases
<1>2. /\ DOMAIN children' = DOMAIN children
      /\ children'[c].phase = "gone"
      /\ \A d \in DOMAIN children \ {c} : children'[d] = children[d]
  BY <1>1, PhaseFacts
<1>3. Live' = Live \ {c}
  BY <1>1, <1>2 DEF Live
<1> QED BY <1>3, CountsAreFinite, FS_RemoveElement

\* kill() ends nothing by itself.
LEMMA KillCounts ==
    ASSUME TypeOK, children' = Killed
    PROVE  Live' = Live
BY KilledFacts

LEMMA CountsOfIncarnations ==
    /\ Incarnations = Cardinality(Live) + Cardinality(restartTimers) + spawnTimers
                        + (IF startup THEN 1 ELSE 0)
    /\ Incarnations' = Cardinality(Live') + Cardinality(restartTimers') + spawnTimers'
                         + (IF startup' THEN 1 ELSE 0)
BY DEF Incarnations

LEMMA NeverMultipliedInit == Init => NeverMultiplied
<1> SUFFICES ASSUME Init PROVE NeverMultiplied
  OBVIOUS
<1>1. Live = {} /\ restartTimers = {} /\ spawnTimers = 0 /\ startup = TRUE /\ manual = 0
  BY DEF Init, Live
<1>2. Cardinality(Live) = 0 /\ Cardinality(restartTimers) = 0
  BY <1>1, FS_EmptySet
<1> QED BY <1>1, <1>2, CountsOfIncarnations DEF NeverMultiplied

LEMMA NeverMultipliedStep ==
    ASSUME TypeOK, NeverMultiplied, [Next]_vars
    PROVE  NeverMultiplied'
<1>0. /\ TypeOK' /\ spawnTimers \in Nat /\ spawnTimers' \in Nat
      /\ startup \in BOOLEAN /\ manual \in Nat
  BY TypeStep, SupervisorAssumption DEF TypeOK
<1>n. /\ Cardinality(Live) \in Nat /\ Cardinality(restartTimers) \in Nat
      /\ Cardinality(Live') \in Nat /\ Cardinality(restartTimers') \in Nat
      /\ IsFiniteSet(restartTimers) /\ IsFiniteSet(restartTimers')
  <2>1. /\ Cardinality(Live) \in Nat /\ Cardinality(restartTimers) \in Nat
        /\ IsFiniteSet(restartTimers)
    BY CountsAreFinite
  <2>2. /\ Cardinality(Live') \in Nat /\ Cardinality(restartTimers') \in Nat
        /\ IsFiniteSet(restartTimers')
    <3>1. Len(children') \in Nat /\ DOMAIN children' = 1..Len(children')
      BY <1>0 DEF TypeOK
    <3>2. Live' \subseteq DOMAIN children' /\ restartTimers' \subseteq DOMAIN children'
      BY <1>0 DEF Live, TypeOK
    <3> QED BY <3>1, <3>2, Countable
  <2> QED BY <2>1, <2>2
<1>m. Cardinality(Live) + Cardinality(restartTimers) + spawnTimers
        + (IF startup THEN 1 ELSE 0) <= manual + 1
  BY CountsOfIncarnations DEF NeverMultiplied
<1> SUFFICES Cardinality(Live') + Cardinality(restartTimers') + spawnTimers'
               + (IF startup' THEN 1 ELSE 0) <= manual' + 1
  BY CountsOfIncarnations DEF NeverMultiplied
<1>1. CASE StartAllWorkers
  <2>1. Live' = Live
    BY <1>1 DEF StartAllWorkers, Live
  <2> QED BY <1>0, <1>n, <1>m, <1>1, <2>1 DEF StartAllWorkers
<1>2. CASE SpawnTimerFires
  <2>1. Cardinality(Live') <= Cardinality(Live) + 1
    BY <1>2, SpawnCounts DEF SpawnTimerFires
  <2> QED BY <1>0, <1>n, <1>m, <1>2, <2>1 DEF SpawnTimerFires
<1>3. CASE RestartTimerFires
  <2>1. PICK c \in restartTimers : restartTimers' = restartTimers \ {c} /\ AutoRestart(c)
    BY <1>3 DEF RestartTimerFires
  <2>2. Cardinality(restartTimers') = Cardinality(restartTimers) - 1
    BY <1>n, <2>1, FS_RemoveElement
  <2>3. Cardinality(Live') <= Cardinality(Live) + 1
    <3>1. CASE status # "stopped"
      <4>1. children[c] \in Child
        BY <2>1 DEF TypeOK
      <4>2. children[c].restartCount + 1 \in Nat
        BY <4>1 DEF Child
      <4> QED BY <1>n, <2>1, <3>1, <4>2, SpawnCounts DEF AutoRestart
    <3>2. CASE status = "stopped"
      BY <1>n, <2>1, <3>2 DEF AutoRestart, Live
    <3> QED BY <3>1, <3>2
  <2> QED BY <1>0, <1>n, <1>m, <1>3, <2>2, <2>3 DEF RestartTimerFires
<1>4. ASSUME NEW c \in DOMAIN children, ChildExits(c)
      PROVE  Cardinality(Live') + Cardinality(restartTimers') + spawnTimers'
               + (IF startup' THEN 1 ELSE 0) <= manual' + 1
  <2>1. c \in Live /\ children' = [children EXCEPT ![c].phase = "gone"]
    BY <1>4 DEF ChildExits
  <2>2. Cardinality(Live') = Cardinality(Live) - 1
    BY <2>1, EndCounts
  <2>3. restartTimers' = restartTimers \/ restartTimers' = restartTimers \cup {c}
    BY <1>4 DEF ChildExits, OnExit
  <2>4. Cardinality(restartTimers') <= Cardinality(restartTimers) + 1
    <3>1. Cardinality(restartTimers \cup {c})
            = IF c \in restartTimers THEN Cardinality(restartTimers)
              ELSE Cardinality(restartTimers) + 1
      BY <1>n, FS_AddElement
    <3>2. \/ Cardinality(restartTimers') = Cardinality(restartTimers)
          \/ Cardinality(restartTimers') = Cardinality(restartTimers) + 1
      BY <2>3, <3>1, Zenon
    <3> QED BY <1>n, <3>2
  <2>5. UNCHANGED <<startup, spawnTimers, manual>>
    BY <1>4 DEF ChildExits
  <2> QED BY <1>0, <1>n, <1>m, <2>2, <2>4, <2>5
<1>5. CASE RestartWorker
  <2>1. Live' = Live
    BY <1>5, KillCounts DEF RestartWorker
  <2> QED BY <1>0, <1>n, <1>m, <1>5, <2>1 DEF RestartWorker
<1>6. CASE StopAllWorkers
  <2>1. Live' = Live
    BY <1>6, KillCounts DEF StopAllWorkers, Live
  <2> QED BY <1>0, <1>n, <1>m, <1>6, <2>1 DEF StopAllWorkers
<1>7. CASE ServerExits
  <2>1. Live' = Live /\ Cardinality(restartTimers') = 0
    BY <1>7, FS_EmptySet DEF ServerExits, Live
  <2> QED BY <1>0, <1>n, <1>m, <1>7, <2>1 DEF ServerExits
<1>8. CASE UNCHANGED vars
  <2>1. Live' = Live
    BY <1>8 DEF vars, Live
  <2> QED BY <1>m, <1>8, <2>1 DEF vars
<1> QED BY <1>1, <1>2, <1>3, <1>4, <1>5, <1>6, <1>7, <1>8 DEF Next

\* A worker that was not stopped always has a child or a timer that will
\* spawn one, unless its last spawn failed, and never more of them than manual
\* restarts and one, for any number of crashes, failures, restarts and signals.
THEOREM SupervisorAccountsForStarts == Spec => []StartsAreAccountedFor
<1>1. IInv /\ NeverMultiplied => StartsAreAccountedFor
  BY DEF IInv, StartsAreAccountedFor
<1>2. Init => IInv /\ NeverMultiplied
  BY IInvInit, NeverMultipliedInit
<1>3. IInv /\ NeverMultiplied /\ [Next]_vars => (IInv /\ NeverMultiplied)'
  BY IInvStep, NeverMultipliedStep DEF IInv
<1> QED BY <1>1, <1>2, <1>3, PTL DEF Spec

-----------------------------------------------------------------------------
(* NocEscalation.  OneNotificationPerLife is not inductive: what makes it  *)
(* so is that a life of the process that has not reached recordEscalation  *)
(* has sent no notification of its own, and that a process that is down    *)
(* evaluates nothing and may still be started.                             *)

DownIsAsleep == ~up => phase = "asleep" /\ boots < MaxBoots

NoticeInReserve ==
  up /\ phase \notin {"recording", "blocked"} => notices < boots

NocIInv ==
  /\ NocTypeOK
  /\ DownIsAsleep
  /\ NoticeInReserve
  /\ OneNotificationPerLife

\* The worker starts without a notification.
LEMMA NocInitIInv == NocInit => NocIInv
BY NocAssumption
   DEF NocInit, NocIInv, NocTypeOK, ScannerReads, Pending, DownIsAsleep, NoticeInReserve,
       OneNotificationPerLife

\* The rotation, the requests and the alerts table do not bear on NocIInv: it
\* is kept by a step that touches neither the process nor the scanner.
LEMMA OthersKeepIInv ==
  ASSUME NocIInv,
         UNCHANGED <<up, boots, loaded, phase, batch, cur, notified, notices>>,
         alertStatus' \in [Alerts -> Pending \cup {"none", "resolved"}],
         rotator' \in {"idle", "waiting"},
         handler' \in [Handlers -> {"idle", "waiting", "reading"}]
  PROVE  NocIInv'
BY DEF NocIInv, NocTypeOK, ScannerReads, Pending, DownIsAsleep, NoticeInReserve,
       OneNotificationPerLife

\* The scanner sends a notification only in a life that had none.
LEMMA ScannerKeepsIInv ==
  ASSUME NocIInv, Scanner PROVE NocIInv'
<1> USE DEF NocIInv, NocTypeOK, ScannerReads, Pending, DownIsAsleep, NoticeInReserve,
            OneNotificationPerLife
<1>1. CASE Scan BY <1>1 DEF Scan
<1>2. ASSUME NEW a \in Alerts, Evaluate(a) PROVE NocIInv'
  BY <1>2 DEF Evaluate
<1>3. CASE ScanEnds BY <1>3 DEF ScanEnds
<1>4. CASE NoPolicy BY <1>4 DEF NoPolicy
<1>5. CASE Notify
  <2>1. up /\ notices < boots BY <1>5 DEF Notify
  <2>2. notices' \in Nat /\ notices' <= boots' BY <1>5, <2>1 DEF Notify
  <2>3. cur' \in Alerts /\ phase' = "recording" BY <1>5 DEF Notify
  <2> QED BY <1>5, <2>1, <2>2, <2>3 DEF Notify
<1>6. CASE Record BY <1>6 DEF Record
<1> QED BY <1>1, <1>2, <1>3, <1>4, <1>5, <1>6 DEF Scanner

\* A new life begins with one notification in reserve.
LEMMA ProcessKeepsIInv ==
  ASSUME NocIInv, Crash \/ Restart PROVE NocIInv'
<1> USE NocAssumption
    DEF NocIInv, NocTypeOK, ScannerReads, Pending, DownIsAsleep, NoticeInReserve,
        OneNotificationPerLife
<1>1. CASE Crash BY <1>1 DEF Crash
<1>2. CASE Restart BY <1>2 DEF Restart
<1> QED BY <1>1, <1>2

LEMMA NocNextKeepsIInv == NocIInv /\ [NocNext]_nocVars => NocIInv'
<1> SUFFICES ASSUME NocIInv, [NocNext]_nocVars PROVE NocIInv' OBVIOUS
<1>0. /\ alertStatus \in [Alerts -> Pending \cup {"none", "resolved"}]
      /\ rotator \in {"idle", "waiting"}
      /\ handler \in [Handlers -> {"idle", "waiting", "reading"}]
  BY DEF NocIInv, NocTypeOK
<1>1. CASE Scanner BY <1>1, ScannerKeepsIInv
<1>2. CASE RotationDue BY <1>0, <1>2, OthersKeepIInv DEF RotationDue
<1>3. CASE Rotate BY <1>0, <1>3, OthersKeepIInv DEF Rotate
<1>4. ASSUME NEW h \in Handlers, Arrive(h) \/ Admit(h) \/ Answer(h) PROVE NocIInv'
  BY <1>0, <1>4, OthersKeepIInv DEF Arrive, Admit, Answer
<1>5. ASSUME NEW a \in Alerts, AlertRaised(a) \/ Acknowledge(a) \/ Resolve(a)
      PROVE  NocIInv'
  BY <1>0, <1>5, OthersKeepIInv DEF AlertRaised, Acknowledge, Resolve, Pending
<1>6. CASE Crash \/ Restart BY <1>6, ProcessKeepsIInv
<1>7. CASE UNCHANGED nocVars BY <1>0, <1>7, OthersKeepIInv DEF nocVars
<1> QED BY <1>1, <1>2, <1>3, <1>4, <1>5, <1>6, <1>7 DEF NocNext

LEMMA NocInductive == NocSpec => []NocIInv
BY NocInitIInv, NocNextKeepsIInv, PTL DEF NocSpec

\* The state stays within its types; in particular an alert is under
\* evaluation exactly while the scanner holds the read lock.
THEOREM NocTyping == NocSpec => []NocTypeOK
<1>1. NocIInv => NocTypeOK BY DEF NocIInv
<1> QED BY <1>1, NocInductive, PTL

\* However many alerts match, a life of the process notifies once at most.
THEOREM NocNotifiesOnce == NocSpec => []OneNotificationPerLife
<1>1. NocIInv => OneNotificationPerLife BY DEF NocIInv
<1> QED BY <1>1, NocInductive, PTL

\* Once the scanner waits for its own read lock nothing but the end of the
\* process changes that: no reader enters, no notification leaves.
THEOREM NocWedgeIsFinal == NocSpec => NothingPassesAWedgedLock
<1> DEFINE Passes ==
      phase = "blocked" /\ up' =>
        /\ phase' = "blocked"
        /\ notices' = notices
        /\ \A h \in Handlers : handler'[h] = "reading" => handler[h] = "reading"
<1>1. NocIInv /\ [NocNext]_nocVars => [Passes]_nocVars
  <2> SUFFICES ASSUME NocIInv, [NocNext]_nocVars, phase = "blocked", up'
               PROVE  /\ phase' = "blocked"
                      /\ notices' = notices
                      /\ \A h \in Handlers :
                           handler'[h] = "reading" => handler[h] = "reading"
    OBVIOUS
  <2>1. up BY DEF NocIInv, DownIsAsleep
  <2>2. ~Scanner
    BY DEF Scanner, Scan, Evaluate, ScanEnds, NoPolicy, Notify, Record
  <2>3. \A h \in Handlers : ~Admit(h) BY DEF Admit, WriterWaits
  <2>4. ~Crash /\ ~Restart BY <2>1 DEF Crash, Restart
  <2>5. CASE RotationDue \/ Rotate BY <2>5 DEF RotationDue, Rotate
  <2>6. ASSUME NEW h \in Handlers, Arrive(h) \/ Answer(h)
        PROVE  /\ phase' = "blocked" /\ notices' = notices
               /\ \A g \in Handlers : handler'[g] = "reading" => handler[g] = "reading"
    BY <2>6 DEF Arrive, Answer, NocIInv, NocTypeOK
  <2>7. ASSUME NEW a \in Alerts, AlertRaised(a) \/ Acknowledge(a) \/ Resolve(a)
        PROVE  phase' = phase /\ notices' = notices /\ handler' = handler
    BY <2>7 DEF AlertRaised, Acknowledge, Resolve
  <2>8. CASE UNCHANGED nocVars BY <2>8 DEF nocVars
  <2> QED BY <2>2, <2>3, <2>4, <2>5, <2>6, <2>7, <2>8 DEF NocNext
<1> QED BY <1>1, NocInductive, PTL DEF NocSpec, NothingPassesAWedgedLock
=============================================================================
