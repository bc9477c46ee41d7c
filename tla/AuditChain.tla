----------------------------- MODULE AuditChain -----------------------------
(***************************************************************************)
(* The audit chain worker (workers/rust/audit_chain/src/main.rs) between   *)
(* two restarts: a hash chain of entries and one cached Merkle root a day. *)
(*                                                                         *)
(* Every handler holds the lock on AppState from its first line to its     *)
(* last, so a handler is one step.  A digest is its input: SHA-256 has no  *)
(* collisions, but what compute_entry_hash feeds it may: it joins free     *)
(* strings with colons they may themselves contain.  A string is therefore *)
(* the sequence of its parts between colons, and joining is concatenation. *)
(***************************************************************************)
EXTENDS MerkleTree

CONSTANTS
  Parts,       \* strings without a colon
  Contents,    \* what append_entry is called with; the payload by its digest
  Alterations, \* what a stored entry may have been altered to
  MaxEntries,  \* bound on the length of the chain
  MaxDays      \* bound on the calendar days that pass

ASSUME AuditChainAssumption ==
  /\ MaxEntries \in Nat
  /\ MaxDays \in Nat \ {0}
  /\ Contents \subseteq Alterations
  /\ \A c \in Alterations :
       {c.aggregate_type, c.aggregate_id, c.event_type} \subseteq Seq(Parts) \ {<<>>}

VARIABLES
  entries,       \* AppState.entries
  merkle_roots,  \* AppState.merkle_roots: the days that have one, and theirs
  today          \* the current UTC date

vars == <<entries, merkle_roots, today>>

Days == 1..MaxDays

Genesis == <<>>   \* sha256_hex("genesis")

TypeOK ==
  /\ Len(entries) <= MaxEntries
  /\ \A k \in 1..Len(entries) :
       /\ entries[k].id = k
       /\ entries[k].content \in Contents
       /\ entries[k].timestamp \in 1..today
  /\ today \in Days
  /\ DOMAIN merkle_roots \subseteq 1..today
  /\ \A d \in DOMAIN merkle_roots : merkle_roots[d].entry_count \in 0..Len(entries)

Init ==
  /\ entries = <<>>
  /\ merkle_roots = <<>>
  /\ today = 1

-----------------------------------------------------------------------------
\* The free strings as compute_entry_hash joins them.
Joined(c) == c.aggregate_type \o c.aggregate_id \o c.event_type

\* An id and two hexadecimal digests contain no colon, so the joined string
\* determines them and what stands between them; neither the timestamp nor
\* actor_id is part of it.
compute_entry_hash(e) ==
  <<e.id, Joined(e.content), e.content.payload_hash, e.prev_hash>>

Hashes == [k \in 1..Len(entries) |-> entries[k].hash]

\* append_entry; next_id is one more than the number of entries.
append_entry(c) ==
  /\ Len(entries) < MaxEntries
  /\ LET prev == IF entries = <<>> THEN Genesis ELSE Last(entries).hash
         e == [id |-> Len(entries) + 1, content |-> c, timestamp |-> today, prev_hash |-> prev]
     IN  entries' = Append(entries,
           [id |-> e.id, content |-> c, timestamp |-> today, prev_hash |-> prev,
            hash |-> compute_entry_hash(e)])
  /\ UNCHANGED <<merkle_roots, today>>

\* Mutant: the root leaves out the newest entry.
get_merkle_root_short ==
  /\ today \notin DOMAIN merkle_roots
  /\ merkle_roots' = [d \in DOMAIN merkle_roots \cup {today} |->
       IF d = today
       THEN [root_hash   |-> compute_merkle_root(
                               SubSeq(Hashes, 1, IF entries = <<>> THEN 0 ELSE Len(entries) - 1)),
             entry_count |-> Len(entries)]
       ELSE merkle_roots[d]]
  /\ UNCHANGED <<entries, today>>

\* Mutant: the count of covered entries is taken from next_id.
get_merkle_root_next_id ==
  /\ today \notin DOMAIN merkle_roots
  /\ merkle_roots' = [d \in DOMAIN merkle_roots \cup {today} |->
       IF d = today
       THEN [root_hash |-> compute_merkle_root(Hashes), entry_count |-> Len(entries) + 1]
       ELSE merkle_roots[d]]
  /\ UNCHANGED <<entries, today>>

\* get_merkle_root computes the root of the day once; later calls of that day
\* return it and change nothing.
get_merkle_root ==
  /\ today \notin DOMAIN merkle_roots
  /\ merkle_roots' = [d \in DOMAIN merkle_roots \cup {today} |->
       IF d = today
       THEN [root_hash |-> compute_merkle_root(Hashes), entry_count |-> Len(entries)]
       ELSE merkle_roots[d]]
  /\ UNCHANGED <<entries, today>>

\* Midnight.
DayPasses ==
  /\ today < MaxDays
  /\ today' = today + 1
  /\ UNCHANGED <<entries, merkle_roots>>

Next ==
  \/ \E c \in Contents : append_entry(c)
  \/ get_merkle_root
  \/ DayPasses

Spec == Init /\ [][Next]_vars

-----------------------------------------------------------------------------
(* The answers of the reading handlers *)

\* Mutant: the stored digest is compared with the link only.
BreaksLinksOnly(es) ==
  {k \in 1..Len(es) :
     es[k].prev_hash # IF k = 1 THEN Genesis ELSE es[k - 1].hash}

\* The entries at which the loop of verify_chain, and of get_stats, stops.
Breaks(es) ==
  {k \in 1..Len(es) :
     \/ es[k].prev_hash # IF k = 1 THEN Genesis ELSE es[k - 1].hash
     \/ compute_entry_hash(es[k]) # es[k].hash}

chain_valid(es) == Breaks(es) = {}

\* broken_at: the id of the first of them.
BrokenAt(es) == es[Min(Breaks(es))].id

\* The verified flag get_proof answers for the k-th entry.
verified(k) ==
  RootFromProof(Hashes[k], compute_merkle_proof(Hashes, k - 1)) = compute_merkle_root(Hashes)

-----------------------------------------------------------------------------
(* Properties *)

\* Two contents that the digest of an entry tells apart.
Distinguished(c, d) == Joined(c) # Joined(d) \/ c.payload_hash # d.payload_hash

\* verify_chain accepts every chain append_entry builds.  If the content of one
\* stored entry is altered it points at that entry exactly when the digest tells
\* the two contents apart; a colon moved from one field to the next, another
\* actor or another timestamp go unnoticed.  If an entry that is not the last
\* goes missing it points at the one that followed it.
AlterationsAreLocated ==
  /\ chain_valid(entries)
  /\ \A k \in 1..Len(entries) :
       /\ \A c \in Alterations, t \in Days :
            LET altered == [entries EXCEPT ![k].content = c, ![k].timestamp = t] IN
            IF Distinguished(c, entries[k].content)
            THEN ~chain_valid(altered) /\ BrokenAt(altered) = k
            ELSE chain_valid(altered)
       /\ k < Len(entries) =>
            LET shorter == RemoveAt(entries, k) IN
            ~chain_valid(shorter) /\ BrokenAt(shorter) = k + 1

\* The root kept for a day stays the root of the first entry_count entries,
\* however many are appended later; and the level-by-level loop that made it has
\* built the tree which the definition from the root down describes.
RootsCoverPrefixes ==
  \A d \in DOMAIN merkle_roots :
    merkle_roots[d].root_hash =
      ReferenceRoot(SubSeq(Hashes, 1, merkle_roots[d].entry_count))

\* For a chain of any length get_proof answers verified for every entry, and
\* its proof fits no other entry.
ProofsVerify ==
  \A k \in 1..Len(entries) :
    /\ verified(k)
    /\ \A j \in 1..Len(entries) \ {k} :
         RootFromProof(Hashes[j], compute_merkle_proof(Hashes, k - 1))
           # compute_merkle_root(Hashes)

=============================================================================
