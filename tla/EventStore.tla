----------------------------- MODULE EventStore -----------------------------
(***************************************************************************)
(* The events of one aggregate in the hash-chained event store             *)
(* (server/eventstore/index.ts), written by two command buses:             *)
(* server/cqrs/index.ts takes the number of events plus one as version,    *)
(* server/cqrs/commandBus.ts, the one the routers call, takes Date.now().  *)
(* Every SELECT and INSERT is a step of its own.  The version column is a  *)
(* 32-bit INTEGER; the payload column is JSONB, which orders keys its own  *)
(* way.  Digests are injective: a hash is what it was computed from.       *)
(***************************************************************************)
EXTENDS Integers, FiniteSets

CONSTANTS
  Approvals,    \* commands sent through cqrs/index.ts (transfer.approve)
  Commands,     \* commands sent through commandBus.ts
  MaxInteger,   \* largest INTEGER: 2^31 - 1, scaled down
  Now,          \* Date.now(): milliseconds since 1970
  MaxFailures,  \* bound: statements that fail for reasons of their own
  Null

Requests == Approvals \cup Commands

ASSUME StoreAssumption ==
  /\ MaxInteger \in Nat /\ Now \in Nat /\ MaxFailures \in Nat
  /\ Approvals \cap Commands = {}
  /\ Now > MaxInteger               \* the epoch passed 2^31 ms in January 1970

VARIABLES
  rows,     \* event_store, the rows of this aggregate
  req,      \* the requests
  failures  \* statements that have failed so far

vars == <<rows, req, failures>>

\* A payload as its sender serialises it, its keys in JSONB's order or not.
Payloads == [by : Requests, ordered : BOOLEAN]

\* The payload read back from a JSONB column.
FromJsonb(p) == [p EXCEPT !.ordered = TRUE]

\* computeHash.
computeHash(v, p, prev) == <<v, p, prev>>

Versions == {r.version : r \in rows}

\* SELECT hash ... ORDER BY version DESC LIMIT 1.
LastHash ==
  IF rows = {} THEN Null
  ELSE (CHOOSE r \in rows : \A o \in rows : o.version <= r.version).hash

Phases == {"new", "versioned", "linked", "stored", "failed"}

TypeOK ==
  /\ \A r \in rows : /\ r.version \in 1..MaxInteger
                     /\ r.payload \in Payloads
                     /\ r.hash = computeHash(r.version, r.payload, r.prev)
  /\ DOMAIN req = Requests
  /\ \A q \in Requests : /\ req[q].phase \in Phases
                         /\ req[q].version \in 0..Now
                         /\ req[q].ordered \in BOOLEAN
  /\ failures \in 0..MaxFailures

Init ==
  /\ rows = {}
  /\ req \in [Requests -> {[phase |-> "new", version |-> 0, prev |-> Null, ordered |-> o]
                           : o \in BOOLEAN}]
  /\ failures = 0

-----------------------------------------------------------------------------

\* Mutant: versions start at 0.
VersionIsCount(q) == IF q \in Commands THEN Now ELSE Cardinality(rows)

\* nextVersion, events.length + 1; the command bus takes the clock.
NextVersion(q) == IF q \in Commands THEN Now ELSE Cardinality(rows) + 1

\* The command's handler has run and given its event a version.
Dispatch(q) ==
  /\ req[q].phase = "new"
  /\ req' = [req EXCEPT ![q].phase = "versioned", ![q].version = NextVersion(q)]
  /\ UNCHANGED <<rows, failures>>

\* Mutant: no event has a predecessor.
NoPredecessor(q) ==
  /\ req[q].phase = "versioned"
  /\ req' = [req EXCEPT ![q].phase = "linked", ![q].prev = Null]
  /\ UNCHANGED <<rows, failures>>

\* appendEvent: SELECT the previous hash.
ReadPrevious(q) ==
  /\ req[q].phase = "versioned"
  /\ req' = [req EXCEPT ![q].phase = "linked", ![q].prev = LastHash]
  /\ UNCHANGED <<rows, failures>>

EventRow(q) ==
  LET p == [by |-> q, ordered |-> req[q].ordered] IN
  [version |-> req[q].version, payload |-> p, prev |-> req[q].prev,
   hash |-> computeHash(req[q].version, p, req[q].prev)]

\* Mutant: a second event of the same version replaces the first.
InsertOrReplace(q) ==
  /\ req[q].phase = "linked"
  /\ IF req[q].version <= MaxInteger
     THEN /\ rows' = {r \in rows : r.version # req[q].version} \cup {EventRow(q)}
          /\ req' = [req EXCEPT ![q].phase = "stored"]
     ELSE /\ req' = [req EXCEPT ![q].phase = "failed"]
          /\ UNCHANGED rows
  /\ UNCHANGED failures

\* INSERT: refused if the version is no INTEGER or, by the UNIQUE constraint,
\* not a new one.  The error reaches the caller of cqrs/index.ts; the command
\* bus logs it and has reported success already.
Insert(q) ==
  /\ req[q].phase = "linked"
  /\ IF req[q].version <= MaxInteger /\ req[q].version \notin Versions
     THEN /\ rows' = rows \cup {EventRow(q)}
          /\ req' = [req EXCEPT ![q].phase = "stored"]
     ELSE /\ req' = [req EXCEPT ![q].phase = "failed"]
          /\ UNCHANGED rows
  /\ UNCHANGED failures

\* A statement fails, or the process ends, before the INSERT has committed.
Fails(q) ==
  /\ failures < MaxFailures
  /\ req[q].phase \in {"versioned", "linked"}
  /\ req' = [req EXCEPT ![q].phase = "failed"]
  /\ failures' = failures + 1
  /\ UNCHANGED rows

Next ==
  \E q \in Requests : Dispatch(q) \/ ReadPrevious(q) \/ Insert(q) \/ Fails(q)

Spec == Init /\ [][Next]_vars

-----------------------------------------------------------------------------
(* verifyChain *)

Row(v) == CHOOSE r \in rows : r.version = v

\* The chain is recomputed from the columns, the payload as JSONB gives it
\* back, and from the stored hash of the event before.
HashMatches(v) ==
  Row(v).hash = computeHash(v, FromJsonb(Row(v).payload), IF v = 1 THEN Null ELSE Row(v - 1).hash)

Broken == {v \in Versions : ~HashMatches(v)}

-----------------------------------------------------------------------------
(* Properties *)

\* However approvals of one aggregate overlap, its versions run from 1 without
\* a gap: counting first and inserting under the UNIQUE constraint later makes
\* the loser fail instead of forking the history.
GaplessHistory == Versions = 1..Cardinality(rows)

\* Every event links to the hash of the version before it, although the link
\* was read in a statement before the INSERT and after the version was chosen.
LinkedHistory ==
  \A r \in rows : r.prev = IF r.version = 1 THEN Null ELSE Row(r.version - 1).hash

\* "Verify Chain Integrity" (eventstore/index.ts:225): of an untouched history
\* verifyChain reports exactly the events whose payload JSONB has reordered; no
\* interleaving makes it report another one.
OnlyReorderedPayloadsReported == Broken = {r.version : r \in {x \in rows : ~x.payload.ordered}}

\* The rows implement a log that only grows.
Log == INSTANCE AppendLog WITH
  Events <- Payloads,
  log <- [v \in 1..Cardinality(rows) |-> Row(v).payload]

ImplementsLog == Log!Spec

\* "Record the command as a domain event in the event store"
\* (cqrs/commandBus.ts:51): a command whose append has ended is recorded.
CommandsAreRecorded == \A c \in Commands : req[c].phase # "failed"
=============================================================================
