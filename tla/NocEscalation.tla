--------------------------- MODULE NocEscalation ---------------------------
(***************************************************************************)
(* The NOC escalation worker (workers/go/cmd/noc_escalation/main.go): the  *)
(* alert scanner, the hourly on-call rotation and the HTTP handlers share  *)
(* one sync.RWMutex.  evaluateAlert holds it for reading when it calls     *)
(* recordEscalation, which locks it for writing: the scanner waits for     *)
(* itself from its first notification on, and what follows that call       *)
(* (updateAlertEscalation, the runbook) is never reached, so it is not     *)
(* modelled, and escalation_level stays 0.  /health takes no lock.         *)
(* The names every specification has are prefixed, so that Workers_proofs  *)
(* can extend this module and WorkerSupervisor.                            *)
(***************************************************************************)
EXTENDS Naturals

CONSTANTS
  Alerts,    \* critical and high alerts of the last 24 hours
  Matching,  \* those for which an active policy has severity and source
  Handlers,  \* concurrent HTTP requests that read the worker's tables
  MaxBoots,  \* bound: starts of the process
  None       \* no alert is being evaluated

ASSUME NocAssumption == Matching \subseteq Alerts /\ MaxBoots \in Nat \ {0}

VARIABLES
  alertStatus, \* noc_alerts.status
  up,          \* the process runs
  boots,       \* history: starts of the process so far
  loaded,      \* the policies were seeded: the database answered at the start
  phase,       \* where the scanner is
  batch,       \* alerts of the last SELECT still to be evaluated
  cur,         \* the alert under evaluation
  rotator,     \* the rotation: "idle", or "waiting" for the write lock
  handler,     \* requests: "idle", "waiting" for the read lock, "reading"
  notified,    \* history: the alerts that have been notified
  notices      \* history: notifications sent

nocVars == <<alertStatus, up, boots, loaded, phase, batch, cur, rotator, handler,
             notified, notices>>

\* sync.RWMutex: a waiting writer keeps new readers out.
WriterWaits == rotator = "waiting" \/ phase = "blocked"

ScannerReads == phase \in {"evaluating", "recording", "blocked"}

Unread == ~ScannerReads /\ \A h \in Handlers : handler[h] # "reading"

Pending == {"open", "acknowledged"}

NocTypeOK ==
  /\ alertStatus \in [Alerts -> Pending \cup {"none", "resolved"}]
  /\ up \in BOOLEAN
  /\ boots \in 1..MaxBoots
  /\ loaded \in BOOLEAN
  /\ phase \in {"asleep", "next", "evaluating", "recording", "blocked"}
  /\ batch \subseteq Alerts
  /\ cur \in IF ScannerReads THEN Alerts ELSE {None}
  /\ rotator \in {"idle", "waiting"}
  /\ handler \in [Handlers -> {"idle", "waiting", "reading"}]
  /\ notified \subseteq Alerts
  /\ notices \in Nat

NocInit ==
  /\ alertStatus = [a \in Alerts |-> "none"]
  /\ up = TRUE
  /\ boots = 1
  /\ loaded \in BOOLEAN
  /\ phase = "asleep"
  /\ batch = {}
  /\ cur = None
  /\ rotator = "idle"
  /\ handler = [h \in Handlers |-> "idle"]
  /\ notified = {}
  /\ notices = 0

-----------------------------------------------------------------------------
(* The scanner *)

Scan ==
  /\ up /\ phase = "asleep"
  /\ batch' = {a \in Alerts : alertStatus[a] \in Pending}
  /\ phase' = "next"
  /\ UNCHANGED <<alertStatus, up, boots, loaded, cur, rotator, handler, notified, notices>>

\* The next alert, in whatever state it is by now: RLock of evaluateAlert.
Evaluate(a) ==
  /\ up /\ phase = "next" /\ a \in batch
  /\ ~WriterWaits
  /\ batch' = batch \ {a}
  /\ cur' = a
  /\ phase' = "evaluating"
  /\ UNCHANGED <<alertStatus, up, boots, loaded, rotator, handler, notified, notices>>

ScanEnds ==
  /\ up /\ phase = "next" /\ batch = {}
  /\ phase' = "asleep"
  /\ UNCHANGED <<alertStatus, up, boots, loaded, batch, cur, rotator, handler, notified, notices>>

\* Mutant: returning without a match does not release the lock.
NoPolicyKeepsLock ==
  /\ phase = "evaluating" /\ (cur \notin Matching \/ ~loaded)
  /\ UNCHANGED nocVars

\* Mutant: the alert stays under evaluation.
NoPolicyKeepsAlert ==
  /\ phase = "evaluating" /\ (cur \notin Matching \/ ~loaded)
  /\ phase' = "next"
  /\ UNCHANGED <<alertStatus, up, boots, loaded, batch, cur, rotator, handler, notified, notices>>

\* No policy matches: the deferred RUnlock.
NoPolicy ==
  /\ phase = "evaluating" /\ (cur \notin Matching \/ ~loaded)
  /\ cur' = None
  /\ phase' = "next"
  /\ UNCHANGED <<alertStatus, up, boots, loaded, batch, rotator, handler, notified, notices>>

\* sendNotification of the first recipient (every level has one).
Notify ==
  /\ phase = "evaluating" /\ cur \in Matching /\ loaded
  /\ notified' = notified \cup {cur}
  /\ notices' = notices + 1
  /\ phase' = "recording"
  /\ UNCHANGED <<alertStatus, up, boots, loaded, batch, cur, rotator, handler>>

\* Mutant: the history entry is appended without the lock.
RecordWithoutLock ==
  /\ phase = "recording"
  /\ phase' = "next"
  /\ cur' = None
  /\ UNCHANGED <<alertStatus, up, boots, loaded, batch, rotator, handler, notified, notices>>

\* recordEscalation: the INSERT, then Lock under the caller's RLock.
Record ==
  /\ phase = "recording"
  /\ phase' = "blocked"
  /\ UNCHANGED <<alertStatus, up, boots, loaded, batch, cur, rotator, handler, notified, notices>>

-----------------------------------------------------------------------------
(* The rotation and the HTTP handlers *)

RotationDue ==
  /\ up /\ rotator = "idle"
  /\ rotator' = "waiting"
  /\ UNCHANGED <<alertStatus, up, boots, loaded, phase, batch, cur, handler, notified, notices>>

\* rotateOnCall: Lock, the update of every schedule, Unlock.
Rotate ==
  /\ rotator = "waiting" /\ Unread
  /\ rotator' = "idle"
  /\ UNCHANGED <<alertStatus, up, boots, loaded, phase, batch, cur, handler, notified, notices>>

Arrive(h) ==
  /\ up /\ handler[h] = "idle"
  /\ handler' = [handler EXCEPT ![h] = "waiting"]
  /\ UNCHANGED <<alertStatus, up, boots, loaded, phase, batch, cur, rotator, notified, notices>>

Admit(h) ==
  /\ handler[h] = "waiting" /\ ~WriterWaits
  /\ handler' = [handler EXCEPT ![h] = "reading"]
  /\ UNCHANGED <<alertStatus, up, boots, loaded, phase, batch, cur, rotator, notified, notices>>

Answer(h) ==
  /\ handler[h] = "reading"
  /\ handler' = [handler EXCEPT ![h] = "idle"]
  /\ UNCHANGED <<alertStatus, up, boots, loaded, phase, batch, cur, rotator, notified, notices>>

AlertRaised(a) ==
  /\ alertStatus[a] = "none"
  /\ alertStatus' = [alertStatus EXCEPT ![a] = "open"]
  /\ UNCHANGED <<up, boots, loaded, phase, batch, cur, rotator, handler, notified, notices>>

\* acknowledgeHandler and resolveHandler take no lock.
Acknowledge(a) ==
  /\ up /\ alertStatus[a] = "open"
  /\ alertStatus' = [alertStatus EXCEPT ![a] = "acknowledged"]
  /\ UNCHANGED <<up, boots, loaded, phase, batch, cur, rotator, handler, notified, notices>>

Resolve(a) ==
  /\ up /\ alertStatus[a] # "none"
  /\ alertStatus' = [alertStatus EXCEPT ![a] = "resolved"]
  /\ UNCHANGED <<up, boots, loaded, phase, batch, cur, rotator, handler, notified, notices>>

-----------------------------------------------------------------------------
(* The process *)

Crash ==
  /\ up /\ boots < MaxBoots
  /\ up' = FALSE
  /\ phase' = "asleep" /\ batch' = {} /\ cur' = None
  /\ rotator' = "idle"
  /\ handler' = [h \in Handlers |-> "idle"]
  /\ UNCHANGED <<alertStatus, boots, loaded, notified, notices>>

Restart ==
  /\ ~up
  /\ up' = TRUE
  /\ boots' = boots + 1
  /\ loaded' \in BOOLEAN
  /\ UNCHANGED <<alertStatus, phase, batch, cur, rotator, handler, notified, notices>>

Scanner ==
  \/ Scan
  \/ \E a \in Alerts : Evaluate(a)
  \/ ScanEnds
  \/ NoPolicy
  \/ Notify
  \/ Record

NocNext ==
  \/ Scanner
  \/ RotationDue
  \/ Rotate
  \/ \E h \in Handlers : Arrive(h)
  \/ \E h \in Handlers : Admit(h)
  \/ \E h \in Handlers : Answer(h)
  \/ \E a \in Alerts : AlertRaised(a)
  \/ \E a \in Alerts : Acknowledge(a)
  \/ \E a \in Alerts : Resolve(a)
  \/ Crash
  \/ Restart

NocSpec == NocInit /\ [][NocNext]_nocVars

\* Goroutines run; Unlock admits the readers that wait before another writer
\* (sync.RWMutex), so the scanner and the requests get the lock in their turn.
NocFairSpec ==
  /\ NocSpec
  /\ SF_nocVars(Scanner)
  /\ WF_nocVars(Rotate)
  /\ WF_nocVars(Restart)
  /\ \A h \in Handlers : SF_nocVars(Admit(h)) /\ WF_nocVars(Answer(h))

-----------------------------------------------------------------------------
(* Properties *)

\* Nothing records in the database that an alert was notified, so every start
\* of the worker repeats it, but no life of the process sends more than one
\* notification, whichever alerts there are.
OneNotificationPerLife == notices <= boots

\* From the moment the scanner waits for its own read lock until the process
\* ends no request is let in and no notification leaves.
NothingPassesAWedgedLock ==
  [][phase = "blocked" /\ up' =>
       /\ phase' = "blocked"
       /\ notices' = notices
       /\ \A h \in Handlers : handler'[h] = "reading" => handler[h] = "reading"]_nocVars

\* Scanner, rotation and requests never block one another in any other way: a
\* request that waits is let in unless the scanner waits for itself.
ServedUnlessWedged ==
  \A h \in Handlers : handler[h] = "waiting" ~> handler[h] # "waiting" \/ phase = "blocked"

\* "polls DB for unacknowledged alerts needing escalation" (main.go:657): an
\* alert for which there is a policy is notified unless it gets resolved.
MatchingAlertsAreNotified ==
  \A a \in Matching : alertStatus[a] = "open" /\ loaded
    ~> a \in notified \/ alertStatus[a] = "resolved" \/ ~loaded
=============================================================================
