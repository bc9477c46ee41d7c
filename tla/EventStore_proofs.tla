-------------------------- MODULE EventStore_proofs --------------------------
(***************************************************************************)
(* Theorems about the event store, for any number of approvals and         *)
(* commands and any size of the version column.                            *)
(*                                                                         *)
(* GaplessHistory and LinkedHistory are not inductive.  What carries them: *)
(* a version chosen by counting is never more than one above the count,    *)
(* so the UNIQUE constraint lets in only the next one; and a request whose *)
(* version is still the next one when it inserts has read the hash of the  *)
(* row that is still the last, since versions never become free again.     *)
(***************************************************************************)
EXTENDS EventStore, FiniteSetTheorems, SequenceTheorems, TLAPS

Count == Cardinality(rows)

OneRowPerVersion == \A r, o \in rows : r.version = o.version => r = o

RequestShape ==
  \A q \in Requests :
    req[q] = [phase |-> req[q].phase, version |-> req[q].version,
              prev |-> req[q].prev, ordered |-> req[q].ordered]

ChosenVersions ==
  \A q \in Requests : req[q].phase \in {"versioned", "linked"} =>
    IF q \in Commands THEN req[q].version = Now ELSE req[q].version \in 1..Count + 1

NextIsLinked ==
  \A q \in Approvals :
    req[q].phase = "linked" /\ req[q].version = Count + 1 => req[q].prev = LastHash

\* The part of the invariant that is about the rows alone.
RowsInv ==
  /\ IsFiniteSet(rows)
  /\ \A r \in rows : /\ r.version \in 1..MaxInteger
                     /\ r.payload \in Payloads
                     /\ r.hash = computeHash(r.version, r.payload, r.prev)
  /\ GaplessHistory
  /\ OneRowPerVersion
  /\ LinkedHistory

IInv ==
  /\ TypeOK
  /\ RowsInv
  /\ RequestShape
  /\ ChosenVersions
  /\ NextIsLinked

-----------------------------------------------------------------------------
(* The rows *)

\* The number of rows is a natural number that fits the version column.
LEMMA CountType ==
  ASSUME RowsInv PROVE Count \in 0..MaxInteger
<1>1. Count \in Nat BY FS_CardinalityType DEF RowsInv, Count
<1>2. CASE Count = 0 BY <1>2, StoreAssumption
<1>3. CASE Count > 0
  <2>1. Count \in Versions BY <1>1, <1>3 DEF RowsInv, GaplessHistory, Count
  <2> QED BY <2>1, <1>1 DEF Versions, RowsInv
<1> QED BY <1>1, <1>2, <1>3

\* Row(v) is the only row of version v.
LEMMA RowOf ==
  ASSUME RowsInv, NEW v \in Versions
  PROVE  /\ Row(v) \in rows
         /\ Row(v).version = v
         /\ \A r \in rows : r.version = v => r = Row(v)
<1>1. PICK r \in rows : r.version = v BY DEF Versions
<1>2. Row(v) \in rows /\ Row(v).version = v BY <1>1 DEF Row
<1> QED BY <1>2 DEF RowsInv, OneRowPerVersion

\* What appendEvent reads is the hash of the row whose version is the count.
LEMMA LastIsCount ==
  ASSUME RowsInv
  PROVE  LastHash = IF Count = 0 THEN Null ELSE Row(Count).hash
<1> DEFINE Top(r) == \A o \in rows : o.version <= r.version
<1>0. Count \in Nat /\ (Count = 0 <=> rows = {})
  BY CountType, FS_EmptySet DEF Count, RowsInv
<1>1. CASE rows = {} BY <1>0, <1>1 DEF LastHash
<1>2. CASE rows # {}
  <2>1. Count \in Versions BY <1>0, <1>2 DEF RowsInv, GaplessHistory, Count
  <2>2. \A o \in rows : o.version \in 1..Count
    BY DEF RowsInv, GaplessHistory, Count, Versions
  <2>3. Row(Count) \in rows /\ Row(Count).version = Count BY <2>1, RowOf
  <2>4. Top(Row(Count)) BY <1>0, <2>2, <2>3
  <2>5. \A r \in rows : Top(r) => r = Row(Count)
    <3> SUFFICES ASSUME NEW r \in rows, Top(r) PROVE r = Row(Count) OBVIOUS
    <3>1. Count <= r.version BY <2>3
    <3>2. r.version = Count BY <1>0, <2>2, <3>1
    <3> QED BY <3>2, <2>1, RowOf
  <2> DEFINE last == CHOOSE r \in rows : Top(r)
  <2>6. last = Row(Count)
    <3> HIDE DEF Top
    <3> QED BY <2>3, <2>4, <2>5
  <2>7. LastHash = last.hash BY <1>2 DEF LastHash
  <2> HIDE DEF last
  <2> QED BY <1>0, <1>2, <2>6, <2>7
<1> QED BY <1>1, <1>2

\* A step that leaves the rows alone leaves what is read from them alone.
LEMMA SameRows ==
  ASSUME RowsInv, UNCHANGED rows
  PROVE  RowsInv' /\ Count' = Count /\ LastHash' = LastHash
<1>1. Count' = Count BY DEF Count
<1>2. Versions' = Versions BY DEF Versions
<1>3. LastHash' = LastHash BY DEF LastHash
<1>4. LinkedHistory' BY DEF RowsInv, LinkedHistory, Row
<1>5. GaplessHistory' BY <1>1, <1>2 DEF RowsInv, GaplessHistory, Count
<1> QED BY <1>1, <1>3, <1>4, <1>5 DEF RowsInv, OneRowPerVersion

\* A row with the next version and the right link extends the history.
LEMMA AddRow ==
  ASSUME RowsInv, NEW e, rows' = rows \cup {e},
         e.version = Count + 1, Count + 1 <= MaxInteger,
         e.payload \in Payloads,
         e.hash = computeHash(e.version, e.payload, e.prev),
         e.prev = LastHash
  PROVE  /\ RowsInv'
         /\ Count' = Count + 1
         /\ \A v \in 1..Count + 1 : Row(v)' = IF v = Count + 1 THEN e ELSE Row(v)
<1>0. Count \in Nat BY CountType
<1>1. \A r \in rows : r.version \in 1..Count
  BY DEF RowsInv, GaplessHistory, Count, Versions
<1>2. e \notin rows BY <1>0, <1>1
<1>3. IsFiniteSet(rows') /\ Count' = Count + 1
  BY <1>2, FS_AddElement DEF RowsInv, Count
<1>4. \A r \in rows' : /\ r.version \in 1..MaxInteger
                       /\ r.payload \in Payloads
                       /\ r.hash = computeHash(r.version, r.payload, r.prev)
  BY <1>0, StoreAssumption DEF RowsInv
<1>5. Versions' = 1..Count + 1
  <2>1. Versions' = Versions \cup {Count + 1} BY DEF Versions
  <2>2. Versions = 1..Count BY DEF RowsInv, GaplessHistory, Count
  <2> QED BY <1>0, <2>1, <2>2
<1>6. GaplessHistory' BY <1>3, <1>5 DEF GaplessHistory, Count
<1>7. OneRowPerVersion'
  BY <1>0, <1>1 DEF RowsInv, OneRowPerVersion
<1>8. ASSUME NEW v \in 1..Count + 1
      PROVE  Row(v)' = IF v = Count + 1 THEN e ELSE Row(v)
  <2>1. CASE v = Count + 1
    <3>1. \A r \in rows' : r.version = v => r = e BY <1>0, <1>1, <2>1
    <3>2. (CHOOSE r \in rows' : r.version = v) = e BY <2>1, <3>1
    <3>3. Row(v)' = CHOOSE r \in rows' : r.version = v BY DEF Row
    <3> QED BY <2>1, <3>2, <3>3
  <2>2. CASE v \in 1..Count
    <3>1. v \in Versions BY <2>2 DEF RowsInv, GaplessHistory, Count
    <3>2. Row(v) \in rows' /\ Row(v).version = v BY <3>1, RowOf
    <3>3. \A r \in rows' : r.version = v => r = Row(v) BY <1>0, <2>2, <3>1, RowOf
    <3>4. (CHOOSE r \in rows' : r.version = v) = Row(v) BY <3>2, <3>3
    <3>5. Row(v)' = CHOOSE r \in rows' : r.version = v BY DEF Row
    <3>6. v # Count + 1 BY <1>0, <2>2
    <3> QED BY <3>4, <3>5, <3>6
  <2> QED BY <1>0, <2>1, <2>2
<1>10. LinkedHistory'
  <2> SUFFICES ASSUME NEW r \in rows'
               PROVE  r.prev = IF r.version = 1 THEN Null ELSE Row(r.version - 1)'.hash
    BY DEF LinkedHistory
  <2>1. CASE r \in rows
    <3>1. r.prev = IF r.version = 1 THEN Null ELSE Row(r.version - 1).hash
      BY <2>1 DEF RowsInv, LinkedHistory
    <3>2. CASE r.version = 1 BY <3>1, <3>2
    <3>3. CASE r.version # 1
      <4> DEFINE v == r.version - 1
      <4>1. v \in 1..Count + 1 /\ v # Count + 1 BY <1>0, <1>1, <2>1, <3>3
      <4> HIDE DEF v
      <4>2. Row(v)' = Row(v) BY <4>1, <1>8
      <4> QED BY <3>1, <3>3, <4>2 DEF v
    <3> QED BY <3>2, <3>3
  <2>2. CASE r = e
    <3>1. e.prev = IF Count = 0 THEN Null ELSE Row(Count).hash BY LastIsCount
    <3>2. CASE Count = 0 BY <1>0, <2>2, <3>1, <3>2
    <3>3. CASE Count # 0
      <4>1. ASSUME NEW v \in 1..Count, v = Count PROVE Row(v)' = Row(v)
        BY <1>0, <1>8, <4>1
      <4>2. r.version - 1 \in 1..Count /\ r.version - 1 = Count /\ r.version # 1
        BY <1>0, <2>2, <3>3
      <4> QED BY <2>2, <3>1, <3>3, <4>1, <4>2
    <3> QED BY <3>2, <3>3
  <2> QED BY <2>1, <2>2
<1> QED BY <1>3, <1>4, <1>6, <1>7, <1>8, <1>10 DEF RowsInv

-----------------------------------------------------------------------------
(* The steps *)

LEMMA InitIInv == Init => IInv
<1> SUFFICES ASSUME Init PROVE IInv OBVIOUS
<1>1. IsFiniteSet(rows) /\ Count = 0 BY FS_EmptySet DEF Init, Count
<1>2. Versions = 1..Count BY <1>1 DEF Init, Versions
<1>3. RowsInv
  BY <1>1, <1>2 DEF Init, RowsInv, GaplessHistory, Count, OneRowPerVersion, LinkedHistory
<1>4. \A q \in Requests : \E o \in BOOLEAN :
        req[q] = [phase |-> "new", version |-> 0, prev |-> Null, ordered |-> o]
  BY DEF Init
<1>5. ASSUME NEW q \in Requests
      PROVE  /\ req[q] = [phase |-> req[q].phase, version |-> req[q].version,
                          prev |-> req[q].prev, ordered |-> req[q].ordered]
             /\ req[q].phase = "new" /\ req[q].version = 0 /\ req[q].ordered \in BOOLEAN
  <2>1. PICK o \in BOOLEAN :
          req[q] = [phase |-> "new", version |-> 0, prev |-> Null, ordered |-> o]
    BY <1>4
  <2> QED BY <2>1
<1>6. TypeOK BY <1>5, StoreAssumption DEF Init, TypeOK, Phases
<1>7. RequestShape BY <1>5 DEF RequestShape
<1>8. ChosenVersions /\ NextIsLinked
  BY <1>5 DEF ChosenVersions, NextIsLinked, Requests
<1> QED BY <1>3, <1>6, <1>7, <1>8 DEF IInv

\* A version chosen now is the next one, or the clock.
LEMMA DispatchKeeps ==
  ASSUME IInv, NEW q \in Requests, Dispatch(q) PROVE IInv'
<1>0. Count \in 0..MaxInteger BY CountType DEF IInv
<1>1. rows' = rows /\ failures' = failures BY DEF Dispatch
<1>2. RowsInv' /\ Count' = Count /\ LastHash' = LastHash
  BY <1>1, SameRows DEF IInv
<1>3. NextVersion(q) \in 0..Now
      /\ NextVersion(q) = IF q \in Commands THEN Now ELSE Count + 1
  BY <1>0, StoreAssumption DEF NextVersion, Count
<1>4. req'[q] = [phase |-> "versioned", version |-> NextVersion(q),
                 prev |-> req[q].prev, ordered |-> req[q].ordered]
  <2>1. q \in DOMAIN req BY DEF IInv, TypeOK
  <2>2. req[q] = [phase |-> req[q].phase, version |-> req[q].version,
                  prev |-> req[q].prev, ordered |-> req[q].ordered]
    BY DEF IInv, RequestShape
  <2> QED BY <2>1, <2>2 DEF Dispatch
<1>5. \A p \in Requests \ {q} : req'[p] = req[p] BY DEF Dispatch, IInv, TypeOK
<1>6. TypeOK' BY <1>1, <1>3, <1>4, <1>5 DEF IInv, TypeOK, Phases, Dispatch
<1>7. RequestShape' BY <1>4, <1>5 DEF IInv, RequestShape
<1>8. ChosenVersions' BY <1>0, <1>2, <1>3, <1>4, <1>5 DEF IInv, ChosenVersions
<1>9. NextIsLinked' BY <1>2, <1>4, <1>5 DEF IInv, NextIsLinked, Requests
<1> QED BY <1>2, <1>6, <1>7, <1>8, <1>9 DEF IInv

\* The hash read now is that of the last row.
LEMMA ReadPreviousKeeps ==
  ASSUME IInv, NEW q \in Requests, ReadPrevious(q) PROVE IInv'
<1>1. rows' = rows /\ failures' = failures BY DEF ReadPrevious
<1>2. RowsInv' /\ Count' = Count /\ LastHash' = LastHash
  BY <1>1, SameRows DEF IInv
<1>4. req'[q] = [phase |-> "linked", version |-> req[q].version,
                 prev |-> LastHash, ordered |-> req[q].ordered]
  <2>1. q \in DOMAIN req BY DEF IInv, TypeOK
  <2>2. req[q] = [phase |-> req[q].phase, version |-> req[q].version,
                  prev |-> req[q].prev, ordered |-> req[q].ordered]
    BY DEF IInv, RequestShape
  <2> QED BY <2>1, <2>2 DEF ReadPrevious
<1>5. \A p \in Requests \ {q} : req'[p] = req[p] BY DEF ReadPrevious, IInv, TypeOK
<1>6. TypeOK' BY <1>1, <1>4, <1>5 DEF IInv, TypeOK, Phases, ReadPrevious
<1>7. RequestShape' BY <1>4, <1>5 DEF IInv, RequestShape
<1>8. ChosenVersions'
  <2>1. req[q].phase = "versioned" BY DEF ReadPrevious
  <2> QED BY <2>1, <1>2, <1>4, <1>5 DEF IInv, ChosenVersions
<1>9. NextIsLinked' BY <1>2, <1>4, <1>5 DEF IInv, NextIsLinked, Requests
<1> QED BY <1>2, <1>6, <1>7, <1>8, <1>9 DEF IInv

\* A request that ends without an INSERT leaves the rows alone.
LEMMA EndsKeeps ==
  ASSUME IInv, NEW q \in Requests, UNCHANGED rows,
         req' = [req EXCEPT ![q].phase = "failed"], failures' \in 0..MaxFailures
  PROVE  IInv'
<1>2. RowsInv' /\ Count' = Count /\ LastHash' = LastHash
  BY SameRows DEF IInv
<1>4. req'[q] = [phase |-> "failed", version |-> req[q].version,
                 prev |-> req[q].prev, ordered |-> req[q].ordered]
  BY DEF IInv, RequestShape, TypeOK
<1>5. \A p \in Requests \ {q} : req'[p] = req[p] BY DEF IInv, TypeOK
<1>6. TypeOK' BY <1>4, <1>5 DEF IInv, TypeOK, Phases
<1>7. RequestShape' BY <1>4, <1>5 DEF IInv, RequestShape
<1>8. ChosenVersions' BY <1>2, <1>4, <1>5 DEF IInv, ChosenVersions
<1>9. NextIsLinked' BY <1>2, <1>4, <1>5 DEF IInv, NextIsLinked, Requests
<1> QED BY <1>2, <1>6, <1>7, <1>8, <1>9 DEF IInv

\* An INSERT that the table accepts is of an approval that has the next version
\* and the link to the last row.
LEMMA InsertStores ==
  ASSUME IInv, NEW q \in Requests, Insert(q),
         req[q].version <= MaxInteger, req[q].version \notin Versions
  PROVE  /\ req[q].version = Count + 1
         /\ RowsInv'
         /\ Count' = Count + 1
         /\ \A v \in 1..Count + 1 : Row(v)' = IF v = Count + 1 THEN EventRow(q) ELSE Row(v)
<1>0. Count \in 0..MaxInteger BY CountType DEF IInv
<1>1. q \in Approvals /\ req[q].version = Count + 1
  <2>1. q \in Approvals BY StoreAssumption DEF Insert, IInv, ChosenVersions, Requests
  <2>2. req[q].version \in 1..Count + 1
    BY <2>1, StoreAssumption DEF Insert, IInv, ChosenVersions
  <2>3. req[q].version = Count + 1
    BY <1>0, <2>2 DEF IInv, RowsInv, GaplessHistory, Count
  <2> QED BY <2>1, <2>3
<1>2. req[q].prev = LastHash BY <1>1 DEF Insert, IInv, NextIsLinked
<1>3. rows' = rows \cup {EventRow(q)} BY DEF Insert
<1>4. [by |-> q, ordered |-> req[q].ordered] \in Payloads
  BY DEF Payloads, IInv, TypeOK
<1>5. /\ EventRow(q).version = Count + 1
      /\ EventRow(q).payload \in Payloads
      /\ EventRow(q).hash = computeHash(EventRow(q).version, EventRow(q).payload, EventRow(q).prev)
      /\ EventRow(q).prev = LastHash
  BY <1>1, <1>2, <1>4 DEF EventRow
<1>6. RowsInv /\ Count + 1 <= MaxInteger BY <1>1 DEF IInv
<1> QED BY <1>1, <1>3, <1>5, <1>6, AddRow

LEMMA InsertKeeps ==
  ASSUME IInv, NEW q \in Requests, Insert(q) PROVE IInv'
<1>0. Count \in 0..MaxInteger BY CountType DEF IInv
<1>1. CASE req[q].version <= MaxInteger /\ req[q].version \notin Versions
  <2>2. RowsInv' /\ Count' = Count + 1 BY <1>1, InsertStores
  <2>4. req'[q] = [phase |-> "stored", version |-> req[q].version,
                   prev |-> req[q].prev, ordered |-> req[q].ordered]
    BY <1>1 DEF Insert, IInv, RequestShape, TypeOK
  <2>5. \A p \in Requests \ {q} : req'[p] = req[p] BY <1>1 DEF Insert, IInv, TypeOK
  <2>6. TypeOK'
    <3>1. \A r \in rows' : /\ r.version \in 1..MaxInteger
                           /\ r.payload \in Payloads
                           /\ r.hash = computeHash(r.version, r.payload, r.prev)
      BY <2>2 DEF RowsInv
    <3>2. failures' \in 0..MaxFailures BY DEF Insert, IInv, TypeOK
    <3>3. DOMAIN req' = Requests BY <1>1 DEF Insert, IInv, TypeOK
    <3>4. \A p \in Requests : /\ req'[p].phase \in Phases
                              /\ req'[p].version \in 0..Now
                              /\ req'[p].ordered \in BOOLEAN
      BY <2>4, <2>5 DEF IInv, TypeOK, Phases
    <3> QED BY <3>1, <3>2, <3>3, <3>4 DEF TypeOK
  <2>7. RequestShape' BY <2>4, <2>5 DEF IInv, RequestShape
  <2>8. ChosenVersions'
    BY <1>0, <2>2, <2>4, <2>5 DEF IInv, ChosenVersions
  <2>9. NextIsLinked'
    <3> SUFFICES ASSUME NEW p \in Approvals, req'[p].phase = "linked"
                 PROVE  req'[p].version # Count + 2
      BY <1>0, <2>2 DEF NextIsLinked
    <3>1. p \in Requests \ Commands BY StoreAssumption DEF Requests
    <3>2. p # q /\ req'[p] = req[p] BY <2>4, <2>5, <3>1
    <3>3. req[p].version \in 1..Count + 1 BY <3>1, <3>2 DEF IInv, ChosenVersions
    <3> QED BY <1>0, <3>2, <3>3
  <2> QED BY <2>2, <2>6, <2>7, <2>8, <2>9 DEF IInv
<1>2. CASE ~(req[q].version <= MaxInteger /\ req[q].version \notin Versions)
  <2>1. UNCHANGED rows /\ req' = [req EXCEPT ![q].phase = "failed"]
    BY <1>2 DEF Insert
  <2>2. failures' \in 0..MaxFailures BY DEF Insert, IInv, TypeOK
  <2> QED BY <2>1, <2>2, EndsKeeps
<1> QED BY <1>1, <1>2

LEMMA NextKeepsIInv == IInv /\ [Next]_vars => IInv'
<1> SUFFICES ASSUME IInv, [Next]_vars PROVE IInv' OBVIOUS
<1>1. ASSUME NEW q \in Requests, Fails(q) PROVE IInv'
  <2>1. failures' \in 0..MaxFailures BY <1>1, StoreAssumption DEF Fails, IInv, TypeOK
  <2> QED BY <1>1, <2>1, EndsKeeps DEF Fails
<1>2. CASE UNCHANGED vars
  <2>1. UNCHANGED <<rows, req, failures>> BY <1>2 DEF vars
  <2>2. RowsInv' /\ Count' = Count /\ LastHash' = LastHash BY <2>1, SameRows DEF IInv
  <2>3. TypeOK' BY <2>1 DEF IInv, TypeOK
  <2>4. RequestShape' BY <2>1 DEF IInv, RequestShape
  <2>5. ChosenVersions' BY <2>1, <2>2 DEF IInv, ChosenVersions
  <2>6. NextIsLinked' BY <2>1, <2>2 DEF IInv, NextIsLinked
  <2> QED BY <2>2, <2>3, <2>4, <2>5, <2>6 DEF IInv
<1> QED BY <1>1, <1>2, DispatchKeeps, ReadPreviousKeeps, InsertKeeps DEF Next

LEMMA StoreInductive == Spec => []IInv
BY InitIInv, NextKeepsIInv, PTL DEF Spec

\* Sequences of one length that agree at each position are equal.
LEMMA SameElements ==
  ASSUME NEW S, NEW s \in Seq(S), NEW t \in Seq(S), Len(s) = Len(t),
         \A i \in 1..Len(s) : s[i] = t[i]
  PROVE  s = t
<1>1. s \in [1..Len(s) -> S] /\ t \in [1..Len(s) -> S] BY LenProperties
<1> QED BY <1>1

-----------------------------------------------------------------------------
(* The theorems *)

\* Rows, requests and the failure bound stay within their types.
THEOREM StoreTyping == Spec => []TypeOK
<1>1. IInv => TypeOK BY DEF IInv
<1> QED BY <1>1, StoreInductive, PTL

\* The versions of an aggregate run from 1 without a gap, however many
\* approvals and commands append at once.
THEOREM StoreIsGapless == Spec => []GaplessHistory
<1>1. IInv => GaplessHistory BY DEF IInv, RowsInv
<1> QED BY <1>1, StoreInductive, PTL

\* Every event links to the one before it.
THEOREM StoreIsLinked == Spec => []LinkedHistory
<1>1. IInv => LinkedHistory BY DEF IInv, RowsInv
<1> QED BY <1>1, StoreInductive, PTL

\* verifyChain reports the reordered payloads and nothing else.
THEOREM StoreReportsReordered == Spec => []OnlyReorderedPayloadsReported
<1>1. IInv => OnlyReorderedPayloadsReported
  <2> SUFFICES ASSUME IInv PROVE OnlyReorderedPayloadsReported OBVIOUS
  <2>0. RowsInv BY DEF IInv
  <2>1. ASSUME NEW r \in rows
        PROVE  HashMatches(r.version) <=> r.payload.ordered
    <3>1. r.version \in Versions BY DEF Versions
    <3>2. Row(r.version) = r BY <2>0, <3>1, RowOf
    <3>3. r.prev = IF r.version = 1 THEN Null ELSE Row(r.version - 1).hash
      BY <2>0 DEF RowsInv, LinkedHistory
    <3>4. r.hash = <<r.version, r.payload, r.prev>> BY <2>0 DEF RowsInv, computeHash
    <3>5. HashMatches(r.version) <=> r.payload = FromJsonb(r.payload)
      BY <3>2, <3>3, <3>4 DEF HashMatches, computeHash
    <3>6. r.payload \in Payloads BY <2>0 DEF RowsInv
    <3> QED BY <3>5, <3>6 DEF Payloads, FromJsonb
  <2> QED BY <2>1 DEF OnlyReorderedPayloadsReported, Broken, Versions
<1> QED BY <1>1, StoreInductive, PTL

\* The rows, read in the order of their versions, are a log that only grows:
\* an accepted INSERT appends its payload, everything else stutters.
THEOREM StoreImplementsLog == Spec => ImplementsLog
<1> DEFINE log == [v \in 1..Cardinality(rows) |-> Row(v).payload]
<1>1. Init => Log!Init
  BY FS_EmptySet DEF Init, Log!Init
<1>2. IInv /\ [Next]_vars => [Log!Next]_log
  <2> SUFFICES ASSUME IInv, [Next]_vars PROVE Log!Next \/ log' = log OBVIOUS
  <2>1. CASE UNCHANGED rows BY <2>1 DEF Row
  <2>2. ASSUME NEW q \in Requests, Insert(q),
               req[q].version <= MaxInteger /\ req[q].version \notin Versions
        PROVE  Log!Next
    <3>0. Count \in Nat BY CountType DEF IInv
    <3>1. /\ Count' = Count + 1
          /\ \A v \in 1..Count + 1 :
               Row(v)' = IF v = Count + 1 THEN EventRow(q) ELSE Row(v)
      BY <2>2, InsertStores
    <3>2. EventRow(q).payload \in Payloads
      BY DEF EventRow, Payloads, IInv, TypeOK
    <3>3. \A v \in 1..Count : Row(v).payload \in Payloads
      BY RowOf DEF IInv, RowsInv, GaplessHistory, Count
    <3>4. log \in Seq(Payloads) /\ Len(log) = Count BY <3>0, <3>3 DEF Count
    <3>5. log' = [v \in 1..Count + 1 |-> Row(v)'.payload] BY <3>1 DEF Count
    <3>6. log' = Append(log, EventRow(q).payload)
      <4> DEFINE e == EventRow(q).payload
                 f == [v \in 1..Count + 1 |-> Row(v)'.payload]
                 g == Append(log, e)
      <4>1. /\ g \in Seq(Payloads) /\ Len(g) = Count + 1 /\ g[Count + 1] = e
            /\ \A v \in 1..Count : g[v] = log[v]
        <5>1. e \in Payloads BY <3>2
        <5> HIDE DEF log, e
        <5> QED BY <3>0, <3>4, <5>1, AppendProperties
      <4>2. ASSUME NEW v \in 1..Count + 1
            PROVE  f[v] \in Payloads /\ f[v] = g[v]
        <5>1. CASE v = Count + 1
          <6>1. Row(v)' = EventRow(q) BY <3>1, <5>1
          <6>2. f[v] = e BY <6>1
          <6> HIDE DEF f, g
          <6> QED BY <3>2, <4>1, <5>1, <6>2
        <5>2. CASE v \in 1..Count
          <6>1. v # Count + 1 BY <3>0, <5>2
          <6>2. Row(v)' = Row(v) BY <3>1, <6>1
          <6>3. log[v] = Row(v).payload BY <5>2 DEF Count
          <6>4. f[v] = Row(v).payload BY <6>2
          <6> HIDE DEF f, g
          <6> QED BY <3>3, <4>1, <5>2, <6>3, <6>4
        <5> HIDE DEF f, g
        <5> QED BY <3>0, <5>1, <5>2
      <4>3. f \in Seq(Payloads) /\ Len(f) = Count + 1
        <5>1. \A v \in 1..Count + 1 : f[v] \in Payloads BY <4>2
        <5>2. f \in [1..Count + 1 -> Payloads] BY <5>1
        <5> HIDE DEF f
        <5> QED BY <3>0, <5>2
      <4> HIDE DEF f, g
      <4>4. f = g BY <3>0, <4>1, <4>2, <4>3, SameElements
      <4> QED BY <3>5, <4>4 DEF f, g
    <3> QED BY <3>2, <3>6 DEF Log!Next
  <2> QED BY <2>1, <2>2 DEF Next, vars, Dispatch, ReadPrevious, Insert, Fails
<1> QED BY <1>1, <1>2, StoreInductive, PTL DEF Spec, ImplementsLog, Log!Spec
=============================================================================
