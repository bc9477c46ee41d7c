-------------------------- MODULE WorkerSupervisor --------------------------
(***************************************************************************)
(* The process supervisor of server/workerManager.ts for one entry of       *)
(* WORKER_DEFS (the entries share nothing but the caller), together with    *)
(* the two places that drive it: the 3 s start-up timer and                 *)
(* gracefulShutdown of server/_core/index.ts, and the workers.restart       *)
(* procedure of server/routers.ts.                                          *)
(*                                                                         *)
(* A child process is an index of `children`.  The event loop runs one      *)
(* callback at a time, so each action is one callback; timers and the       *)
(* events of child processes interleave in any order (delays are not        *)
(* modelled: 2 s steps of the staggered start, 1 s of a manual restart and   *)
(* 5-30 s of an automatic one overlap in every order for some choice of     *)
(* the moments of the calls).                                               *)
(***************************************************************************)
EXTENDS Naturals, FiniteSets, Sequences

CONSTANTS
    MaxCrashes,   \* bound on the exits of a child that nobody asked for
    MaxManual,    \* bound on the calls of workers.restart
    MaxSignals    \* bound on the SIGTERM and SIGINT the server gets

ASSUME SupervisorAssumption ==
    MaxCrashes \in Nat /\ MaxManual \in Nat /\ MaxSignals \in Nat

VARIABLES
    server,         \* "serving", "draining" (gracefulShutdown awaits), "exited"
    startup,        \* is the setTimeout(startAllWorkers, 3000) pending?
    status,         \* WorkerState.status; "absent": not in workerStates yet
    process,        \* WorkerState.process: a child, or 0 for null
    restarts,       \* WorkerState.restarts
    children,       \* the child processes spawned, in order
    spawnTimers,    \* pending timers that spawn whatever the status is
    restartTimers,  \* the children whose exit has a pending restart timer
    crashes, manual, signals   \* the bounded inputs used up

vars == <<server, startup, status, process, restarts, children,
          spawnTimers, restartTimers, crashes, manual, signals>>

Statuses == {"absent", "starting", "running", "crashed", "stopped"}

\* What became of a child: a "failed" one was never a process, its spawn ended
\* in an 'error' event.
ChildPhases == {"alive", "terminating", "failed", "gone"}
Child == [phase: ChildPhases, restartCount: Nat]

Live == {c \in DOMAIN children : children[c].phase \in {"alive", "terminating"}}

\* The 'error' handler was the last word on the worker's spawns.
LastSpawnFailed ==
    children # <<>> /\ children[Len(children)].phase = "failed"

Init ==
    /\ server = "serving"
    /\ startup = TRUE
    /\ status = "absent"
    /\ process = 0
    /\ restarts = 0
    /\ children = <<>>
    /\ spawnTimers = 0
    /\ restartTimers = {}
    /\ crashes = 0
    /\ manual = 0
    /\ signals = 0

(***************************************************************************)
(* Starting.                                                                *)
(***************************************************************************)
StartAllWorkers ==
    /\ server # "exited"
    /\ startup
    /\ startup' = FALSE
    /\ status' = "starting"
    /\ process' = 0
    /\ restarts' = 0
    /\ spawnTimers' = spawnTimers + 1
    /\ UNCHANGED <<server, children, restartTimers, crashes, manual, signals>>

\* Mutant: no 'error' handler, a failed spawn leaves a state that refers to a
\* child which is not there.
SpawnWorkerUnchecked(count) ==
    /\ children' \in {children, Append(children, [phase |-> "alive",
                                                 restartCount |-> count])}
    /\ status' = "running"
    /\ process' = Len(children) + 1
    /\ restarts' = count

\* The new child replaces whatever the state referred to.
SpawnSucceeds(count) ==
    /\ children' = Append(children, [phase |-> "alive", restartCount |-> count])
    /\ status' = "running"
    /\ process' = Len(children) + 1

\* spawn reports a missing binary and a lack of permission, processes or file
\* descriptors (ENOENT, EACCES, EAGAIN, EMFILE, ENFILE) by an 'error' event
\* on the next tick, before any other callback, and no 'exit' follows.  The
\* handler logs ENOENT in other words and schedules a restart for none.
SpawnFails(count) ==
    /\ children' = Append(children, [phase |-> "failed", restartCount |-> count])
    /\ status' = "crashed"
    /\ process' = 0

\* spawnWorker(def, count).
SpawnWorker(count) ==
    /\ SpawnSucceeds(count) \/ SpawnFails(count)
    /\ restarts' = count

\* The timers of startAllWorkers and restartWorker call spawnWorker(def, 0)
\* without a look at the status.
SpawnTimerFires ==
    /\ server # "exited"
    /\ spawnTimers > 0
    /\ spawnTimers' = spawnTimers - 1
    /\ SpawnWorker(0)
    /\ UNCHANGED <<server, startup, restartTimers, crashes, manual, signals>>

\* The timer an exit leaves behind does look.
AutoRestart(c) ==
    IF status # "stopped"
    THEN SpawnWorker(children[c].restartCount + 1)
    ELSE UNCHANGED <<children, status, process, restarts>>

\* Mutant: the timer an exit leaves behind is an interval.
RestartTimerRepeats ==
    /\ server # "exited"
    /\ \E c \in restartTimers : AutoRestart(c)
    /\ UNCHANGED <<server, startup, spawnTimers, restartTimers, crashes,
                   manual, signals>>

RestartTimerFires ==
    /\ server # "exited"
    /\ \E c \in restartTimers :
        /\ restartTimers' = restartTimers \ {c}
        /\ AutoRestart(c)
    /\ UNCHANGED <<server, startup, spawnTimers, crashes, manual, signals>>

(***************************************************************************)
(* The children.  While the server lives each end is an event; the handlers *)
(* touch the one WorkerState of the definition, whichever child ended.      *)
(***************************************************************************)
\* Mutant: the exit handler keeps the status of a worker that was restarted.
OnExitQuietly(c) ==
    /\ status' = IF status = "running" THEN status ELSE "crashed"
    /\ process' = 0
    /\ restartTimers' = restartTimers \cup {c}

\* Mutant: the exit of a child that is no longer the current one schedules
\* no restart, though it marks the worker as crashed all the same.
OnExitOfCurrentOnly(c) ==
    /\ status' = "crashed"
    /\ process' = 0
    /\ restartTimers' = IF process = c THEN restartTimers \cup {c}
                                       ELSE restartTimers

OnExit(c) ==
    /\ status' = "crashed"
    /\ process' = 0
    /\ restartTimers' = restartTimers \cup {c}

ChildExits(c) ==
    /\ c \in Live
    /\ IF children[c].phase = "terminating"
       THEN UNCHANGED crashes
       ELSE /\ crashes < MaxCrashes
            /\ crashes' = crashes + 1
    /\ children' = [children EXCEPT ![c].phase = "gone"]
    /\ IF server = "exited"
       THEN UNCHANGED <<status, process, restartTimers>>
       ELSE OnExit(c)
    /\ UNCHANGED <<server, startup, restarts, spawnTimers, manual,
                   signals>>

\* state.process?.kill("SIGTERM").
Killed ==
    IF process \in Live
    THEN [children EXCEPT ![process].phase = "terminating"]
    ELSE children

(***************************************************************************)
(* The callers.                                                             *)
(***************************************************************************)
RestartWorker ==
    /\ server # "exited"
    /\ status # "absent"
    /\ manual < MaxManual
    /\ manual' = manual + 1
    /\ children' = Killed
    /\ status' = "starting"
    /\ spawnTimers' = spawnTimers + 1
    /\ UNCHANGED <<server, startup, process, restarts,
                   restartTimers, crashes, signals>>

\* gracefulShutdown up to its first await: stopAllWorkers.  A second signal
\* runs it again.
StopAllWorkers ==
    /\ server # "exited"
    /\ signals < MaxSignals
    /\ signals' = signals + 1
    /\ server' = "draining"
    /\ IF status = "absent"
       THEN UNCHANGED <<status, children>>
       ELSE /\ status' = "stopped"
            /\ children' = Killed
    /\ UNCHANGED <<startup, process, restarts, spawnTimers,
                   restartTimers, crashes, manual>>

\* process.exit at the end of gracefulShutdown, or at once on an uncaught
\* exception (any other error of spawn is one): the timers die with the
\* server, child processes (detached: false, but not killed) do not.
ServerExits ==
    /\ server # "exited"
    /\ server' = "exited"
    /\ startup' = FALSE
    /\ spawnTimers' = 0
    /\ restartTimers' = {}
    /\ UNCHANGED <<status, process, restarts, children, crashes,
                   manual, signals>>

Next ==
    \/ StartAllWorkers
    \/ SpawnTimerFires
    \/ RestartTimerFires
    \/ \E c \in DOMAIN children : ChildExits(c)
    \/ RestartWorker
    \/ StopAllWorkers
    \/ ServerExits

Spec == Init /\ [][Next]_vars

\* Timers fire and a SIGTERM is obeyed; nothing makes a child crash, a user
\* restart a worker, or the server stop.
ObeysSigterm == \E c \in DOMAIN children :
                    children[c].phase = "terminating" /\ ChildExits(c)
Fairness ==
    /\ WF_vars(StartAllWorkers)
    /\ WF_vars(SpawnTimerFires)
    /\ WF_vars(RestartTimerFires)
    /\ WF_vars(ObeysSigterm)

FairSpec == Spec /\ Fairness

-----------------------------------------------------------------------------
(***************************************************************************)
(* Properties.                                                              *)
(***************************************************************************)

\* The shape of the state.
TypeOK ==
    /\ server \in {"serving", "draining", "exited"}
    /\ startup \in BOOLEAN
    /\ status \in Statuses
    /\ children \in Seq(Child)
    /\ process \in {0} \cup DOMAIN children
    /\ restarts \in Nat
    /\ spawnTimers \in Nat
    /\ restartTimers \subseteq DOMAIN children
    /\ crashes \in 0..MaxCrashes
    /\ manual \in 0..MaxManual
    /\ signals \in 0..MaxSignals

\* A worker reported as running (getWorkerStatuses, getWorkerMetrics) has a
\* process that has not ended: the most recently spawned one, however the
\* exits of earlier children and the manual restarts interleaved.
RunningHasAProcess ==
    (server # "exited" /\ status = "running") =>
        process = Len(children) /\ process \in Live

\* A worker that is not stopped is only forgotten by a spawn that failed, which
\* nothing retries: in every other case a child lives or a timer will spawn one.
NeverForgotten ==
    (server # "exited" /\ status \notin {"absent", "stopped"}) =>
        Live # {} \/ spawnTimers > 0 \/ restartTimers # {} \/ LastSpawnFailed

\* What has become, or will become, of the starts of the worker: children that
\* have not ended, and the timers that will spawn one.
Incarnations ==
    Cardinality(Live) + Cardinality(restartTimers) + spawnTimers
      + (IF startup THEN 1 ELSE 0)

\* Exits, errors and timers never multiply a worker: only a manual restart adds
\* one, since it spawns without cancelling the restart the exit of the child it
\* kills schedules, and each call adds no more than one.
NeverMultiplied == Incarnations <= manual + 1

\* Every start is accounted for: none is lost except to a spawn error and none
\* begets two.
StartsAreAccountedFor == NeverForgotten /\ NeverMultiplied

\* "Is auto-restarted on crash", as far as the code does so: a worker that
\* crashed runs again unless it is stopped, the server exits, or the spawn of
\* the restart fails.
CrashedWorkersComeBack ==
    (status = "crashed" /\ ~LastSpawnFailed) ~>
        (status \in {"running", "stopped"} \/ server = "exited" \/ LastSpawnFailed)

=============================================================================
