------------------------ MODULE Accreditation_proofs ------------------------
(***************************************************************************)
(* Theorems about accreditation, for any applications, any number of       *)
(* concurrent administrators and any number of organisations.              *)
(*                                                                         *)
(* None of the safety properties is inductive.  The invariant adds what    *)
(* the requests in flight know: an application under decision has been     *)
(* submitted; without overlap it has one decision, which works on the      *)
(* organisation it is linked to, if any; a request that has read a link    *)
(* still agrees with it, because links are permanent; the organisation     *)
(* carries the number of the decision that wrote to it last, which is the  *)
(* application's unless its own write is to come; and an application with  *)
(* a sanction has an active organisation only while some request for it is *)
(* under way.                                                              *)
(***************************************************************************)
EXTENDS Accreditation, SequenceTheorems, TLAPS

OrgRows == [status : {"active"} \cup Sanctions, licence : Licences \cup {Null}, by : Apps]

Statuses == Sanctions \cup {"none", "submitted", "in_review", "approved", "rejected"}

Started == \A d \in Admins : req[d] # Null => app[req[d].a].status # "none"

Fresh ==
  \A a \in Apps : app[a].status = "none" => app[a].org = Null /\ app[a].licence = Null

Inserted == \A o \in Orgs : app[orgs[o].by].status # "none"

OneDecider ==
  \A a \in Apps \ overlapped : \A d, e \in Deciding(a) : d = e

DecidesItsOrg ==
  \A d \in Admins :
    /\ req[d] # Null
    /\ req[d].a \notin overlapped
    /\ app[req[d].a].org # Null
    => req[d].org = app[req[d].a].org

LinkedReads ==
  \A d \in Admins :
    /\ req[d] # Null
    /\ req[d].pc = "sanction" \/ (req[d].pc = "read" /\ req[d].org # Null)
    => req[d].org # Null /\ app[req[d].a].org = req[d].org

\* A request works on an organisation that its application is linked to or
\* that was inserted for it.
Targets ==
  \A d \in Admins : req[d] # Null /\ req[d].org # Null =>
    app[req[d].a].org = req[d].org \/ orgs[req[d].org].by = req[d].a

Stages ==
  \A d \in Admins : req[d] # Null =>
    /\ req[d].pc = "sanction" <=> req[d].to \in Sanctions
    /\ req[d].pc \in {"read", "number", "licence"} => req[d].to = "approved"
    /\ req[d].pc \in {"number", "licence"} => req[d].org # Null
    /\ req[d].pc = "licence" => req[d].licence # Null
    /\ req[d].pc = "write" /\ req[d].to = "approved" =>
         req[d].org # Null /\ orgs[req[d].org].licence # Null
    /\ req[d].licence # Null => req[d].licence.id = req[d].org /\ req[d].to = "approved"

OwnLicence == \A o \in Orgs : orgs[o].licence # Null => orgs[o].licence.id = o

Named ==
  \A a \in Apps \ overlapped : app[a].licence # Null =>
    app[a].licence.id = app[a].org /\ orgs[app[a].org].licence # Null

\* An approval that has written to the organisation and not to the application.
Writing(d) == req[d] # Null /\ req[d].pc = "write" /\ req[d].to = "approved"

\* No application but a is about organisation o.
Sole(a, o) == \A b \in Apps \ {a} : app[b].org # o /\ orgs[o].by # b

Numbered ==
  \A a \in Apps \ (overlapped \cup died) :
    /\ \A d \in Admins : Writing(d) /\ req[d].a = a /\ Sole(a, req[d].org) =>
         orgs[req[d].org].licence = req[d].licence
    /\ app[a].licence # Null /\ Sole(a, app[a].org)
       /\ (\A d \in Admins : Writing(d) => req[d].a # a) =>
         orgs[app[a].org].licence = app[a].licence

Alone(a) == \A b \in Apps \ {a} : app[b].org # app[a].org

Sanctioned ==
  \A a \in Apps \ died :
    app[a].status \in Sanctions /\ app[a].org # Null /\ Alone(a)
    => \/ orgs[app[a].org].status \in Sanctions
       \/ \E d \in Admins : req[d] # Null /\ req[d].a = a

IInv ==
  /\ TypeOK
  /\ Started /\ Fresh /\ Inserted
  /\ OneDecider /\ DecidesItsOrg /\ LinkedReads /\ Targets /\ Stages
  /\ OwnLicence /\ Named /\ Numbered
  /\ OrgsAreAccountedFor
  /\ Sanctioned

\* What LinkIsPermanent says of one step.
LinksKept == \A a \in Apps : app[a].org # Null => app'[a].org = app[a].org

-----------------------------------------------------------------------------
LEMMA InitIInv == Init => IInv
<1> SUFFICES ASSUME Init PROVE IInv OBVIOUS
<1>1. <<>> \in Seq(OrgRows) /\ Len(<<>>) = 0 /\ Orgs = {}
  BY EmptySeq DEF Init, Orgs
<1>2. \A a \in Apps : app[a] = [status |-> "none", org |-> Null, licence |-> Null]
  BY DEF Init
<1>3. \A d \in Admins : req[d] = Null BY DEF Init
<1>4. TypeOK
  BY <1>1, <1>2, <1>3, AccreditationAssumption
     DEF Init, TypeOK, OrgRows, Orgs, OrgOrNull, NumberOrNull
<1>5. Started /\ OneDecider /\ DecidesItsOrg /\ LinkedReads /\ Targets /\ Stages
  BY <1>3 DEF Started, OneDecider, Deciding, DecidesItsOrg, LinkedReads, Targets, Stages
<1>6. Inserted /\ OwnLicence /\ OrgsAreAccountedFor
  BY <1>1 DEF Inserted, OwnLicence, OrgsAreAccountedFor
<1>7. Fresh /\ Named /\ Numbered /\ Sanctioned
  BY <1>2, <1>3 DEF Fresh, Named, Numbered, Writing, Sanctioned, Sanctions
<1> QED BY <1>4, <1>5, <1>6, <1>7 DEF IInv

\* The types, unfolded for the steps below.
LEMMA Types ==
  ASSUME IInv
  PROVE  /\ DOMAIN app = Apps
         /\ \A a \in Apps : /\ app[a] = [status |-> app[a].status, org |-> app[a].org,
                                         licence |-> app[a].licence]
                            /\ app[a].status \in Statuses
                            /\ app[a].org \in OrgOrNull /\ app[a].licence \in NumberOrNull
         /\ Len(orgs) \in Nat /\ DOMAIN orgs = Orgs /\ Null \notin Orgs
         /\ \A o \in Orgs : orgs[o] \in OrgRows /\ orgs[o].licence \in NumberOrNull
         /\ DOMAIN req = Admins
         /\ \A d \in Admins : req[d] # Null =>
              /\ req[d] \in Requests /\ req[d].org \in OrgOrNull /\ req[d].a \in Apps
              /\ req[d].licence \in NumberOrNull
         /\ year \in Nat \ {0}
         /\ \A n \in NumberOrNull : n # Null => n \in Licences /\ n.id \in Orgs
<1>1. orgs \in Seq(OrgRows) BY DEF IInv, TypeOK, OrgRows
<1>2. Len(orgs) \in Nat /\ DOMAIN orgs = Orgs /\ \A o \in Orgs : orgs[o] \in OrgRows
  BY <1>1, LenProperties DEF Orgs
<1>3. Null \notin Orgs BY AccreditationAssumption DEF Orgs
<1>4. DOMAIN app = Apps /\ DOMAIN req = Admins BY DEF IInv, TypeOK
<1>5. ASSUME NEW a \in Apps
      PROVE  /\ app[a] = [status |-> app[a].status, org |-> app[a].org,
                          licence |-> app[a].licence]
             /\ app[a].status \in Statuses
             /\ app[a].org \in OrgOrNull /\ app[a].licence \in NumberOrNull
  BY DEF IInv, TypeOK, Statuses
<1>6. ASSUME NEW d \in Admins, req[d] # Null
      PROVE  /\ req[d] \in Requests /\ req[d].org \in OrgOrNull /\ req[d].a \in Apps
             /\ req[d].licence \in NumberOrNull
  BY <1>6 DEF IInv, TypeOK, Requests
<1>7. year \in Nat \ {0} BY DEF IInv, TypeOK
<1>8. \A n \in NumberOrNull : n # Null => n \in Licences /\ n.id \in Orgs
  BY <1>2, <1>7 DEF NumberOrNull, Orgs, Licences
<1> QED BY <1>2, <1>3, <1>4, <1>5, <1>6, <1>7, <1>8 DEF IInv, TypeOK

\* What an application is linked to and what it is numbered by are organisations.
LEMMA Links ==
  ASSUME IInv
  PROVE  /\ \A a \in Apps : app[a].org # Null => app[a].org \in Orgs
         /\ \A a \in Apps \ overlapped : app[a].licence # Null => app[a].org \in Orgs
         /\ \A d \in Admins : req[d] # Null /\ req[d].org # Null => req[d].org \in Orgs
<1>1. \A a \in Apps : app[a].org # Null => app[a].org \in Orgs BY Types DEF OrgOrNull
<1>2. \A a \in Apps \ overlapped : app[a].licence # Null => app[a].org \in Orgs
  BY Types DEF IInv, Named
<1>3. \A d \in Admins : req[d] # Null /\ req[d].org # Null => req[d].org \in Orgs
  BY Types DEF OrgOrNull
<1> QED BY <1>1, <1>2, <1>3

\* An application that is the only one about an organisation was so before.
LEMMA SoleBefore ==
  ASSUME IInv, LinksKept, NEW a \in Apps, NEW o \in Orgs, orgs'[o].by = orgs[o].by,
         Sole(a, o)'
  PROVE  Sole(a, o)
BY Types DEF LinksKept, Sole

\* A step that changes no organisation's number keeps Numbered when no approval
\* gets to its last write, and one that has is still there or noted as ended,
\* and no application gets another number.
LEMMA NumbersKept ==
  ASSUME IInv, LinksKept, overlapped \subseteq overlapped', died \subseteq died',
         \A o \in Orgs : orgs'[o].licence = orgs[o].licence /\ orgs'[o].by = orgs[o].by,
         \A d \in Admins : Writing(d)' => Writing(d) /\ req'[d] = req[d],
         \A d \in Admins : Writing(d) => req'[d] = req[d] \/ req[d].a \in died',
         \A a \in Apps : app'[a].licence # Null => app'[a] = app[a] \/
           (app'[a].licence = app[a].licence /\ app'[a].org = app[a].org)
  PROVE  Numbered'
<1> SUFFICES ASSUME NEW a \in Apps, a \notin overlapped', a \notin died'
             PROVE
    /\ \A d \in Admins : Writing(d)' /\ req'[d].a = a /\ Sole(a, req[d].org)' =>
         orgs'[req'[d].org].licence = req'[d].licence
    /\ app'[a].licence # Null /\ Sole(a, app[a].org)'
       /\ (\A d \in Admins : Writing(d)' => req'[d].a # a) =>
         orgs'[app'[a].org].licence = app'[a].licence
  BY DEF Numbered, Writing, Sole
<1>0. a \notin overlapped /\ a \notin died OBVIOUS
<1>1. ASSUME NEW d \in Admins, Writing(d)', req'[d].a = a, Sole(a, req[d].org)'
      PROVE  orgs'[req'[d].org].licence = req'[d].licence
  <2>1. Writing(d) /\ req'[d] = req[d] BY <1>1
  <2>2. PICK o \in Orgs : o = req[d].org
    BY <2>1, Links DEF IInv, Stages, Writing
  <2>3. Sole(a, o)' BY <1>1, <2>1, <2>2
  <2>4. Sole(a, o) BY <2>3, SoleBefore
  <2>5. orgs[o].licence = req[d].licence
    BY <1>0, <1>1, <2>1, <2>2, <2>4 DEF IInv, Numbered
  <2> QED BY <2>1, <2>2, <2>5
<1>2. ASSUME app'[a].licence # Null, Sole(a, app[a].org)',
             \A d \in Admins : Writing(d)' => req'[d].a # a
      PROVE  orgs'[app'[a].org].licence = app'[a].licence
  <2>1. app'[a].licence = app[a].licence /\ app'[a].org = app[a].org BY <1>2
  <2>2. PICK o \in Orgs : o = app[a].org BY <1>0, <1>2, <2>1, Links
  <2>3. Sole(a, o)' BY <1>2, <2>1, <2>2
  <2>4. Sole(a, o) BY <2>3, SoleBefore
  <2>5. ASSUME NEW d \in Admins, Writing(d), req[d].a = a PROVE FALSE
    <3>1. req'[d] = req[d] BY <2>5
    <3>2. Writing(d)' BY <2>5, <3>1 DEF Writing
    <3> QED BY <1>2, <2>5, <3>1, <3>2
  <2>6. orgs[o].licence = app[a].licence
    BY <1>0, <1>2, <2>1, <2>2, <2>4, <2>5 DEF IInv, Numbered
  <2> QED BY <2>1, <2>2, <2>6
<1> QED BY <1>1, <1>2

-----------------------------------------------------------------------------
(* Steps on the application alone *)

\* A change of one application by which its status leaves the sanctions, its
\* licence stays or goes and its organisation stays or, if it was fresh, comes.
LEMMA AppAloneKeeps ==
  ASSUME IInv, NEW a \in Apps, UNCHANGED <<orgs, req, begun, year, overlapped, died>>,
         NEW st \in {"submitted", "in_review"}, NEW o \in OrgOrNull, NEW l,
         l \in {Null, app[a].licence},
         (o = app[a].org /\ app[a].status # "none") \/ app[a].status = "none",
         app' = [app EXCEPT ![a] = [status |-> st, org |-> o, licence |-> l]]
  PROVE  IInv' /\ LinksKept
<1>0. /\ app'[a] = [status |-> st, org |-> o, licence |-> l]
      /\ \A x \in Apps \ {a} : app'[x] = app[x]
      /\ orgs' = orgs /\ req' = req /\ Orgs' = Orgs /\ OrgOrNull' = OrgOrNull
      /\ NumberOrNull' = NumberOrNull
      /\ \A x : Deciding(x)' = Deciding(x)
  BY Types DEF Orgs, OrgOrNull, NumberOrNull, Deciding
<1>1. LinksKept BY <1>0, Types DEF LinksKept, IInv, Fresh
<1>2. TypeOK'
  <2>1. app' \in [Apps -> [status : Statuses, org : OrgOrNull, licence : NumberOrNull]]
    <3>1. [status |-> st, org |-> o, licence |-> l]
            \in [status : Statuses, org : OrgOrNull, licence : NumberOrNull]
      <4>1. l \in NumberOrNull BY Types DEF NumberOrNull
      <4>2. st \in Statuses BY DEF Statuses
      <4> QED BY <4>1, <4>2
    <3>2. app \in [Apps -> [status : Statuses, org : OrgOrNull, licence : NumberOrNull]]
      BY DEF IInv, TypeOK, Statuses
    <3> QED BY <3>1, <3>2
  <2> QED BY <1>0, <2>1 DEF IInv, TypeOK, Statuses
<1>3. Started' /\ Fresh' BY <1>0, Types DEF IInv, Started, Fresh
<1>4. Inserted' BY <1>0, Types DEF IInv, Inserted, OrgRows
<1>5. OneDecider' /\ Stages' /\ OwnLicence'
  BY <1>0 DEF IInv, OneDecider, Stages, OwnLicence
<1>6. \A d \in Admins : req[d] # Null => app'[req[d].a].org = app[req[d].a].org
  BY <1>0, Types DEF IInv, Started
<1>7. DecidesItsOrg' /\ LinkedReads' /\ Targets'
  BY <1>0, <1>6 DEF IInv, DecidesItsOrg, LinkedReads, Targets
<1>8. Named'
  BY <1>0, Types DEF IInv, Named, Fresh
<1>11. Numbered'
  <2>1. \A x \in Apps : app'[x].licence # Null => app'[x] = app[x] \/
          (app'[x].licence = app[x].licence /\ app'[x].org = app[x].org)
    BY <1>0 DEF IInv, Fresh
  <2>2. \A e \in Admins : Writing(e)' <=> Writing(e) BY <1>0 DEF Writing
  <2> QED BY <1>0, <1>1, <2>1, <2>2, NumbersKept
<1>9. OrgsAreAccountedFor'
  <2>1. \A q \in Orgs : orgs[q].by \in Apps BY Types DEF OrgRows
  <2>2. \A q \in Orgs : app'[orgs[q].by].org = app[orgs[q].by].org
    BY <1>0, <2>1 DEF IInv, Inserted
  <2> QED BY <1>0, <2>2 DEF IInv, OrgsAreAccountedFor
<1>10. Sanctioned'
  <2> SUFFICES ASSUME NEW x \in Apps \ died, app'[x].status \in Sanctions,
                      app'[x].org # Null, Alone(x)'
               PROVE  \/ orgs[app'[x].org].status \in Sanctions
                      \/ \E d \in Admins : req[d] # Null /\ req[d].a = x
    BY <1>0 DEF Sanctioned
  <2>1. x # a /\ app'[x] = app[x] BY <1>0 DEF Sanctions
  <2>2. Alone(x) BY <1>0, <1>1, <2>1 DEF Alone, LinksKept
  <2> QED BY <2>1, <2>2 DEF IInv, Sanctioned
<1> QED BY <1>1, <1>2, <1>3, <1>4, <1>5, <1>7, <1>8, <1>9, <1>10, <1>11 DEF IInv

LEMMA SubmitKeeps ==
  ASSUME IInv, NEW a \in Apps, NEW o \in OrgOrNull, SubmitApplication(a, o)
  PROVE  IInv' /\ LinksKept
BY AppAloneKeeps DEF SubmitApplication

LEMMA ReviewKeeps ==
  ASSUME IInv, NEW a \in Apps, Review(a) PROVE IInv' /\ LinksKept
<1>1. app' = [app EXCEPT ![a] = [status |-> "in_review", org |-> app[a].org,
                                 licence |-> app[a].licence]]
  <2>1. app[a] = [status |-> app[a].status, org |-> app[a].org,
                  licence |-> app[a].licence]
    BY Types
  <2>2. [app[a] EXCEPT !.status = "in_review"]
          = [status |-> "in_review", org |-> app[a].org, licence |-> app[a].licence]
    BY <2>1
  <2>3. app' = [app EXCEPT ![a] = [app[a] EXCEPT !.status = "in_review"]]
    BY DEF Review
  <2> QED BY <2>2, <2>3
<1>2. app[a].org \in OrgOrNull BY Types
<1> QED BY <1>1, <1>2, AppAloneKeeps DEF Review

-----------------------------------------------------------------------------
(* Decisions *)

\* The first decision on an application knows what it is linked to; a second
\* one marks it as overlapped.
LEMMA DecisionReadKeeps ==
  ASSUME IInv, NEW d \in Admins, NEW a \in Apps, NEW decision \in {"approved", "rejected"},
         DecisionRead(d, a, decision)
  PROVE  IInv' /\ LinksKept
<1> DEFINE r == [pc |-> IF decision = "approved" THEN "read" ELSE "write",
                 a |-> a, to |-> decision, org |-> app[a].org, licence |-> Null]
<1>0. /\ app' = app /\ orgs' = orgs /\ died' = died /\ Orgs' = Orgs /\ OrgOrNull' = OrgOrNull
      /\ year' = year /\ begun' = begun + 1 /\ NumberOrNull' = NumberOrNull
      /\ req[d] = Null /\ app[a].status # "none"
  BY DEF DecisionRead, Orgs, OrgOrNull, NumberOrNull
<1>1. /\ req' = [req EXCEPT ![d] = r] /\ req'[d] = r
      /\ \A e \in Admins \ {d} : req'[e] = req[e]
  BY Types DEF DecisionRead
<1>2. /\ r.a = a /\ r.org = app[a].org /\ r.to = decision /\ r.pc # "sanction"
      /\ r.pc \in {"read", "write"} /\ (r.pc = "read" <=> decision = "approved")
      /\ r.licence = Null
  OBVIOUS
<1>3. r \in Requests /\ r # Null /\ r.org \in OrgOrNull
  <2>1. app[a].org \in OrgOrNull /\ app[a].org \in Nat \cup {Null}
    BY Types DEF OrgOrNull, Orgs
  <2> QED BY <2>1, AccreditationAssumption DEF Requests
<1> HIDE DEF r
<1>4. LinksKept BY <1>0 DEF LinksKept
<1>5. overlapped' = IF Deciding(a) = {} THEN overlapped ELSE overlapped \cup {a}
  BY DEF DecisionRead
<1>6. /\ Deciding(a)' = Deciding(a) \cup {d}
      /\ \A x \in Apps \ {a} : Deciding(x)' = Deciding(x)
  BY <1>0, <1>1, <1>2, <1>3 DEF Deciding
<1>7. TypeOK'
  <2>1. req' \in [Admins -> Requests \cup {Null}] BY <1>1, <1>3 DEF IInv, TypeOK
  <2>2. \A e \in Admins : req'[e] # Null =>
          req'[e].org \in OrgOrNull /\ req'[e].licence \in NumberOrNull
    BY <1>1, <1>2, <1>3, Types DEF NumberOrNull
  <2>3. begun' \in Nat BY <1>0 DEF IInv, TypeOK
  <2> QED BY <1>0, <1>5, <2>1, <2>2, <2>3 DEF IInv, TypeOK
<1>8. Started' /\ Fresh' /\ Inserted' /\ OwnLicence'
  BY <1>0, <1>1, <1>2 DEF IInv, Started, Fresh, Inserted, OwnLicence
<1>9. OneDecider'
  <2>1. a \notin overlapped' => Deciding(a)' = {d} BY <1>5, <1>6
  <2> QED BY <1>5, <1>6, <2>1 DEF IInv, OneDecider
<1>10. DecidesItsOrg' /\ LinkedReads' /\ Targets' /\ Stages'
  <2>1. DecidesItsOrg' /\ LinkedReads' /\ Targets'
    BY <1>0, <1>1, <1>2, <1>5 DEF IInv, DecidesItsOrg, LinkedReads, Targets
  <2>2. Stages' BY <1>0, <1>1, <1>2 DEF IInv, Stages, Sanctions
  <2> QED BY <2>1, <2>2
<1>11. Named' BY <1>0, <1>5 DEF IInv, Named
<1>14. Numbered'
  <2>1. \A e \in Admins : Writing(e)' => Writing(e) /\ req'[e] = req[e]
    BY <1>1, <1>2 DEF Writing
  <2>2. \A e \in Admins : Writing(e) => req'[e] = req[e] BY <1>0, <1>1 DEF Writing
  <2> QED BY <1>0, <1>4, <1>5, <2>1, <2>2, NumbersKept
<1>12. OrgsAreAccountedFor'
  <2>1. \A x \in Apps : Deciding(x) \subseteq Deciding(x)' BY <1>6
  <2>2. \A x \in Apps : \A e \in Deciding(x) : req'[e].org = req[e].org
    BY <1>0, <1>1 DEF Deciding
  <2>3. \A q \in Orgs : orgs[q].by \in Apps BY Types DEF OrgRows
  <2> QED BY <1>0, <1>5, <2>1, <2>2, <2>3 DEF IInv, OrgsAreAccountedFor
<1>13. Sanctioned'
  <2>1. \A e \in Admins : req[e] # Null => req'[e] # Null /\ req'[e].a = req[e].a
    BY <1>0, <1>1
  <2> QED BY <1>0, <2>1 DEF IInv, Sanctioned, Alone
<1> QED BY <1>4, <1>7, <1>8, <1>9, <1>10, <1>11, <1>12, <1>13, <1>14 DEF IInv

\* A step of an approval from its organisation's statement to the application's:
\* the organisation becomes active, the number is made, the organisation gets it.
OrgStep(d, pc, n, st, l) ==
  /\ req[d] # Null /\ req[d].org # Null
  /\ \/ /\ req[d].pc = "read" /\ pc = "number" /\ n = req[d].licence
        /\ st = "active" /\ l = orgs[req[d].org].licence
     \/ /\ req[d].pc = "number" /\ pc = "licence" /\ n = [year |-> year, id |-> req[d].org]
        /\ st = orgs[req[d].org].status /\ l = orgs[req[d].org].licence
     \/ /\ req[d].pc = "licence" /\ pc = "write" /\ n = req[d].licence
        /\ st = orgs[req[d].org].status /\ l = req[d].licence
  /\ UNCHANGED <<app, begun, year, overlapped, died>>
  /\ req' = [req EXCEPT ![d] = [pc |-> pc, a |-> req[d].a, to |-> req[d].to,
                                org |-> req[d].org, licence |-> n]]
  /\ orgs' = [orgs EXCEPT ![req[d].org] =
                [status |-> st, licence |-> l, by |-> orgs[req[d].org].by]]

LEMMA OrgStepKeeps ==
  ASSUME IInv, NEW d \in Admins, NEW pc, NEW n, NEW st, NEW l, OrgStep(d, pc, n, st, l)
  PROVE  IInv' /\ LinksKept
<1> DEFINE o == req[d].org
           a == req[d].a
<1>0. /\ o \in Orgs /\ a \in Apps /\ req[d] \in Requests /\ Len(orgs) \in Nat
      /\ orgs \in Seq(OrgRows) /\ orgs[o] \in OrgRows /\ req[d] # Null /\ o # Null
      /\ req[d].pc \in {"read", "number", "licence"}
      /\ UNCHANGED <<app, begun, year, overlapped, died>>
  BY Links, Types DEF OrgStep, IInv, TypeOK, OrgRows
<1>1. /\ req[d].to = "approved" /\ (req[d].pc = "licence" => req[d].licence # Null)
      /\ (req[d].licence # Null => req[d].licence.id = o)
  BY <1>0 DEF IInv, Stages
<1>2. /\ pc \in {"number", "licence", "write"}
      /\ st \in {"active"} \cup Sanctions /\ (st # orgs[o].status => req[d].pc = "read")
      /\ n \in NumberOrNull /\ (n # Null => n.id = o)
      /\ (pc = "licence" => n # Null)
      /\ (pc = "write" => l = n /\ n # Null) /\ (pc # "write" => l = orgs[o].licence)
  <2>1. [year |-> year, id |-> o] \in NumberOrNull /\ [year |-> year, id |-> o] # Null
    <3>1. year \in 1..year BY Types
    <3>2. [year |-> year, id |-> o] \in Licences BY <1>0, Types DEF Licences, Orgs
    <3> QED BY <1>0, <3>1, <3>2, AccreditationAssumption DEF NumberOrNull
  <2>2. req[d].licence \in NumberOrNull BY <1>0, Types
  <2>3. orgs[o].status \in {"active"} \cup Sanctions BY <1>0 DEF OrgRows
  <2>4. CASE req[d].pc = "read" BY <1>1, <2>2, <2>4 DEF OrgStep
  <2>5. CASE req[d].pc = "number" BY <1>0, <2>1, <2>3, <2>5 DEF OrgStep
  <2>6. CASE req[d].pc = "licence" BY <1>1, <2>2, <2>3, <2>6 DEF OrgStep
  <2> QED BY <1>0, <2>4, <2>5, <2>6
<1>3. l \in NumberOrNull /\ (l # Null => l.id = o)
  BY <1>0, <1>2, Types DEF IInv, OwnLicence
<1> DEFINE r == [pc |-> pc, a |-> a, to |-> req[d].to, org |-> o, licence |-> n]
           row == [status |-> st, licence |-> l, by |-> orgs[o].by]
<1>4. req' = [req EXCEPT ![d] = r] /\ orgs' = [orgs EXCEPT ![o] = row] BY DEF OrgStep
<1>5. /\ r.pc = pc /\ r.a = a /\ r.to = req[d].to /\ r.org = o /\ r.licence = n
      /\ row.status = st /\ row.licence = l /\ row.by = orgs[o].by
  OBVIOUS
<1>6. r \in Requests /\ r # Null
  <2>1. n \in Licences \cup {Null} BY <1>2, Types
  <2>2. o \in Nat BY <1>0 DEF Orgs
  <2>3. req[d].to \in Sanctions \cup {"approved", "rejected"} BY <1>0 DEF Requests
  <2>4. pc \in {"read", "number", "licence", "write", "sanction"} BY <1>2
  <2>5. r \in Requests BY <1>0, <2>1, <2>2, <2>3, <2>4 DEF Requests
  <2> QED BY <2>5, AccreditationAssumption
<1>7. row \in OrgRows
  <2>1. orgs[o].by \in Apps BY <1>0 DEF OrgRows
  <2>2. l \in Licences \cup {Null} BY <1>3, Types
  <2> QED BY <1>2, <2>1, <2>2 DEF OrgRows
<1> HIDE DEF r, row, o, a
<1>8. req'[d] = r /\ \A e \in Admins \ {d} : req'[e] = req[e] BY <1>4, Types
<1>9. /\ orgs' \in Seq(OrgRows) /\ Len(orgs') = Len(orgs)
      /\ orgs'[o] = row /\ \A q \in Orgs \ {o} : orgs'[q] = orgs[q]
  <2>1. o \in 1..Len(orgs) BY <1>0 DEF Orgs
  <2>2. orgs' \in Seq(OrgRows) /\ Len(orgs') = Len(orgs) BY <1>0, <1>4, <1>7, <2>1, ExceptSeq
  <2>3. o \in DOMAIN orgs /\ DOMAIN orgs = Orgs BY <1>0, Types
  <2> QED BY <1>4, <2>2, <2>3
<1>10. Orgs' = Orgs /\ OrgOrNull' = OrgOrNull /\ NumberOrNull' = NumberOrNull
  BY <1>0, <1>9 DEF Orgs, OrgOrNull, NumberOrNull
<1>11. \A q \in Orgs : orgs'[q].by = orgs[q].by BY <1>5, <1>9
<1>12. \A e \in Admins : /\ (req'[e] # Null <=> req[e] # Null)
                         /\ req[e] # Null => /\ req'[e].a = req[e].a /\ req'[e].org = req[e].org
                                             /\ req'[e].to = req[e].to
                                             /\ (req'[e].pc = "sanction" <=> req[e].pc = "sanction")
  BY <1>0, <1>2, <1>5, <1>6, <1>8 DEF a, o
<1>13. \A x \in Apps : Deciding(x)' = Deciding(x) BY <1>12 DEF Deciding
<1>14. LinksKept BY <1>0 DEF LinksKept
<1>15. TypeOK'
  <2>1. req' \in [Admins -> Requests \cup {Null}] BY <1>4, <1>6 DEF IInv, TypeOK
  <2>2. \A e \in Admins : req'[e] # Null =>
          req'[e].org \in OrgOrNull /\ req'[e].licence \in NumberOrNull
    BY <1>2, <1>5, <1>8, <1>12, Types
  <2>3. \A q \in Orgs : orgs'[q].licence \in NumberOrNull BY <1>3, <1>5, <1>9, Types
  <2> QED BY <1>0, <1>9, <1>10, <2>1, <2>2, <2>3 DEF IInv, TypeOK, OrgRows
<1>16. Started' /\ Fresh' BY <1>0, <1>12 DEF IInv, Started, Fresh
<1>17. Inserted' BY <1>0, <1>10, <1>11 DEF IInv, Inserted
<1>18. OneDecider' BY <1>0, <1>13 DEF IInv, OneDecider
<1>19. DecidesItsOrg' BY <1>0, <1>12 DEF IInv, DecidesItsOrg
<1>20. LinkedReads'
  <2>1. \A e \in Admins : req'[e] # Null /\ req'[e].pc = "read" => req'[e] = req[e]
    BY <1>2, <1>5, <1>8
  <2> QED BY <1>0, <1>12, <2>1 DEF IInv, LinkedReads
<1>21. Targets'
  <2> SUFFICES ASSUME NEW e \in Admins, req'[e] # Null, req'[e].org # Null
               PROVE  app[req'[e].a].org = req'[e].org \/ orgs'[req'[e].org].by = req'[e].a
    BY <1>0 DEF Targets
  <2>1. req[e] # Null /\ req'[e].a = req[e].a /\ req'[e].org = req[e].org BY <1>12
  <2>2. req[e].org \in Orgs BY <2>1, Links
  <2> QED BY <1>11, <2>1, <2>2 DEF IInv, Targets
<1>22. OwnLicence' BY <1>3, <1>5, <1>9, <1>10 DEF IInv, OwnLicence
<1>23. \A q \in Orgs : orgs[q].licence # Null => orgs'[q].licence # Null
  BY <1>2, <1>5, <1>9
<1>24. Stages'
  <2> SUFFICES ASSUME NEW e \in Admins, req'[e] # Null
               PROVE  /\ req'[e].pc = "sanction" <=> req'[e].to \in Sanctions
                      /\ req'[e].pc \in {"read", "number", "licence"} => req'[e].to = "approved"
                      /\ req'[e].pc \in {"number", "licence"} => req'[e].org # Null
                      /\ req'[e].pc = "licence" => req'[e].licence # Null
                      /\ req'[e].pc = "write" /\ req'[e].to = "approved" =>
                           req'[e].org # Null /\ orgs'[req'[e].org].licence # Null
                      /\ req'[e].licence # Null =>
                           req'[e].licence.id = req'[e].org /\ req'[e].to = "approved"
    BY DEF Stages
  <2>1. CASE e = d
    <3>1. "approved" \notin Sanctions BY DEF Sanctions
    <3> QED BY <1>0, <1>1, <1>2, <1>5, <1>8, <1>9, <2>1, <3>1
  <2>2. CASE e # d
    <3>1. req'[e] = req[e] /\ req[e] # Null BY <1>8, <2>2
    <3>2. req[e].org # Null => req[e].org \in Orgs BY <3>1, Links
    <3> QED BY <1>23, <3>1, <3>2 DEF IInv, Stages
  <2> QED BY <2>1, <2>2
<1>25. Named' BY <1>0, <1>23, Links DEF IInv, Named
<1>26. Numbered'
  <2>1. CASE pc # "write"
    <3>1. \A q \in Orgs : orgs'[q].licence = orgs[q].licence BY <1>2, <1>5, <1>9, <2>1
    <3>2. \A e \in Admins : Writing(e)' => Writing(e) /\ req'[e] = req[e]
      BY <1>5, <1>8, <2>1 DEF Writing
    <3>3. \A e \in Admins : Writing(e) => req'[e] = req[e] BY <1>0, <1>8 DEF Writing
    <3> QED BY <1>0, <1>11, <1>14, <3>1, <3>2, <3>3, NumbersKept
  <2>2. CASE pc = "write"
    <3> SUFFICES ASSUME NEW x \in Apps, x \notin overlapped, x \notin died
                 PROVE
        /\ \A e \in Admins : Writing(e)' /\ req'[e].a = x /\ Sole(x, req[e].org)' =>
             orgs'[req'[e].org].licence = req'[e].licence
        /\ app'[x].licence # Null /\ Sole(x, app[x].org)'
           /\ (\A e \in Admins : Writing(e)' => req'[e].a # x) =>
             orgs'[app'[x].org].licence = app'[x].licence
      BY <1>0 DEF Numbered, Writing, Sole
    <3>1. orgs'[o].licence = n BY <1>2, <1>5, <1>9, <2>2
    <3>2. Writing(d)' /\ req'[d].a = a BY <1>1, <1>5, <1>6, <1>8, <2>2 DEF Writing
    <3>3. Sole(x, o) => x = a
      <4>1. app[a].org = o \/ orgs[o].by = a BY <1>0 DEF IInv, Targets, a, o
      <4> QED BY <1>0, <4>1 DEF Sole
    <3>4. \A e \in Admins \ {d} : Writing(e)' <=> Writing(e) BY <1>8 DEF Writing
    <3>5. ASSUME NEW e \in Admins, Writing(e)', req'[e].a = x, Sole(x, req[e].org)'
          PROVE  orgs'[req'[e].org].licence = req'[e].licence
      <4>1. CASE e = d BY <1>5, <1>8, <3>1, <4>1
      <4>2. CASE e # d
        <5>1. req'[e] = req[e] /\ Writing(e) BY <1>8, <3>4, <3>5, <4>2
        <5>2. PICK p \in Orgs : p = req[e].org BY <5>1, Links DEF IInv, Stages, Writing
        <5>3. Sole(x, p)' BY <3>5, <5>1, <5>2
        <5>4. Sole(x, p) BY <1>11, <1>14, <5>3, SoleBefore
        <5>5. p # o
          <6> SUFFICES ASSUME p = o PROVE FALSE OBVIOUS
          <6>1. x = a BY <3>3, <5>4
          <6>2. e \in Deciding(x) BY <3>5, <5>1 DEF Deciding, Writing
          <6>3. d \in Deciding(x) BY <1>0, <6>1 DEF Deciding, a
          <6> QED BY <4>2, <6>2, <6>3 DEF IInv, OneDecider
        <5>6. orgs'[p] = orgs[p] BY <1>9, <5>5
        <5>7. orgs[p].licence = req[e].licence
          BY <3>5, <5>1, <5>2, <5>4 DEF IInv, Numbered
        <5> QED BY <5>1, <5>2, <5>6, <5>7
      <4> QED BY <4>1, <4>2
    <3>6. ASSUME app'[x].licence # Null, Sole(x, app[x].org)',
                 \A e \in Admins : Writing(e)' => req'[e].a # x
          PROVE  orgs'[app'[x].org].licence = app'[x].licence
      <4>1. app'[x] = app[x] /\ x # a BY <1>0, <3>2, <3>6
      <4>2. PICK p \in Orgs : p = app[x].org BY <3>6, <4>1, Links
      <4>3. Sole(x, p)' BY <3>6, <4>1, <4>2
      <4>4. Sole(x, p) BY <1>11, <1>14, <4>3, SoleBefore
      <4>5. p # o BY <3>3, <4>1, <4>4
      <4>6. orgs'[p] = orgs[p] BY <1>9, <4>5
      <4>7. \A e \in Admins : Writing(e) => req[e].a # x
        BY <1>8, <3>2, <3>4, <3>6, <4>1 DEF a
      <4>8. orgs[p].licence = app[x].licence
        BY <3>6, <4>1, <4>2, <4>4, <4>7 DEF IInv, Numbered
      <4> QED BY <4>1, <4>2, <4>6, <4>8
    <3> QED BY <3>5, <3>6
  <2> QED BY <2>1, <2>2
<1>27. OrgsAreAccountedFor'
  <2>1. \A q \in Orgs : orgs'[q].by = orgs[q].by /\ orgs[q].by \in Apps
    BY <1>11, Types DEF OrgRows
  <2>2. \A x \in Apps : \A e \in Deciding(x) : req'[e].org = req[e].org
    BY <1>12 DEF Deciding
  <2> QED BY <1>0, <1>10, <1>13, <2>1, <2>2 DEF IInv, OrgsAreAccountedFor
<1>28. Sanctioned'
  <2> SUFFICES ASSUME NEW x \in Apps \ died, app[x].status \in Sanctions,
                      app[x].org # Null, Alone(x)
               PROVE  \/ orgs'[app[x].org].status \in Sanctions
                      \/ \E e \in Admins : req'[e] # Null /\ req'[e].a = x
    BY <1>0 DEF Sanctioned, Alone
  <2>1. \/ orgs[app[x].org].status \in Sanctions
        \/ \E e \in Admins : req[e] # Null /\ req[e].a = x
    BY DEF IInv, Sanctioned
  <2>2. app[x].org \in Orgs BY Types DEF OrgOrNull
  <2>3. CASE x = a BY <1>5, <1>6, <1>8, <2>3
  <2>4. CASE x # a /\ req[d].pc = "read"
    <3>1. app[a].org = o BY <1>0, <2>4 DEF IInv, LinkedReads, a, o
    <3>2. app[x].org # o BY <1>0, <2>4, <3>1 DEF Alone
    <3> QED BY <1>9, <1>12, <2>1, <2>2, <3>2
  <2>5. CASE req[d].pc # "read"
    <3>1. \A q \in Orgs : orgs'[q].status = orgs[q].status BY <1>2, <1>5, <1>9, <2>5
    <3> QED BY <1>12, <2>1, <2>2, <3>1
  <2> QED BY <2>3, <2>4, <2>5
<1> QED BY <1>14, <1>15, <1>16, <1>17, <1>18, <1>19, <1>20, <1>21, <1>22, <1>24, <1>25,
           <1>26, <1>27, <1>28 DEF IInv

\* An approval that finds no link inserts an organisation of its own.
LEMMA InsertKeeps ==
  ASSUME IInv, NEW d \in Admins, req[d] # Null, req[d].pc = "read", req[d].org = Null,
         DecisionOrg(d)
  PROVE  IInv' /\ LinksKept
<1> DEFINE a == req[d].a
           o == Len(orgs) + 1
           row == [status |-> "active", licence |-> Null, by |-> a]
<1>0. /\ a \in Apps /\ req[d] \in Requests /\ Len(orgs) \in Nat
      /\ orgs \in Seq(OrgRows)
  BY Types DEF IInv, TypeOK, OrgRows
<1>1. /\ app' = app /\ overlapped' = overlapped /\ died' = died
      /\ orgs' = Append(orgs, row) /\ Len(orgs) < MaxOrgs
      /\ req' = [req EXCEPT ![d].pc = "number", ![d].org = Len(orgs')]
      /\ year' = year /\ begun' = begun
  BY DEF DecisionOrg
<1>2. row \in OrgRows BY <1>0 DEF OrgRows
<1>3. /\ orgs' \in Seq(OrgRows) /\ Len(orgs') = o /\ orgs'[o] = row
      /\ \A q \in Orgs : orgs'[q] = orgs[q]
  <2> HIDE DEF row
  <2> QED BY <1>0, <1>1, <1>2, AppendProperties DEF Orgs
<1>4. /\ o \in Nat /\ Orgs' = Orgs \cup {o} /\ o \notin Orgs
      /\ OrgOrNull' = OrgOrNull \cup {o} /\ NumberOrNull \subseteq NumberOrNull'
  BY <1>0, <1>1, <1>3 DEF Orgs, OrgOrNull, NumberOrNull
<1>5. /\ req'[d] \in Requests /\ req'[d] # Null /\ req'[d].a = a /\ req'[d].org = o
      /\ req'[d].to = req[d].to /\ req'[d].pc = "number" /\ req'[d].licence = Null
      /\ \A e \in Admins \ {d} : req'[e] = req[e]
  <2> HIDE DEF o
  <2>1. req'[d] = [req[d] EXCEPT !.pc = "number", !.org = o] BY <1>1, <1>3, Types
  <2>2. req'[d] \in Requests BY <1>0, <1>4, <2>1 DEF Requests
  <2>3. req'[d].a = a /\ req'[d].org = o /\ req'[d].to = req[d].to /\ req'[d].pc = "number"
        /\ req'[d].licence = req[d].licence
    BY <1>0, <2>1 DEF Requests
  <2>5. req[d].licence = Null
    <3>1. req[d].licence \in NumberOrNull BY Types
    <3> QED BY <3>1, Types DEF IInv, Stages
  <2>4. \A e \in Admins \ {d} : req'[e] = req[e] BY <1>1, Types
  <2> QED BY <2>2, <2>3, <2>4, <2>5, AccreditationAssumption
<1>6. row.status = "active" /\ row.licence = Null /\ row.by = a OBVIOUS
<1> HIDE DEF o, a, row
<1>7. \A x \in Apps : Deciding(x)' = Deciding(x)
  <2>1. \A e \in Admins : /\ (req'[e] # Null <=> req[e] # Null)
                          /\ req[e] # Null => /\ req'[e].a = req[e].a
                                              /\ (req'[e].pc = "sanction" <=> req[e].pc = "sanction")
    BY <1>5 DEF a
  <2> QED BY <2>1 DEF Deciding
<1>8. \A e \in Admins : /\ (req'[e] # Null <=> req[e] # Null)
                        /\ req[e] # Null => req'[e].a = req[e].a /\ req'[e].to = req[e].to
                        /\ e # d => req'[e] = req[e]
  BY <1>5 DEF a
<1>9. LinksKept BY <1>1 DEF LinksKept
<1>10. TypeOK'
  <2>1. req' \in [Admins -> Requests \cup {Null}]
    <3>1. DOMAIN req' = Admins BY <1>1, Types
    <3>2. \A e \in Admins : req'[e] \in Requests \cup {Null} BY <1>5 DEF IInv, TypeOK
    <3>3. req' = [e \in Admins |-> req'[e]] BY <1>1, <3>1 DEF IInv, TypeOK
    <3> QED BY <3>2, <3>3
  <2>2. \A e \in Admins : req'[e] # Null =>
          req'[e].org \in OrgOrNull' /\ req'[e].licence \in NumberOrNull'
    <3>1. Null \in NumberOrNull BY DEF NumberOrNull
    <3> QED BY <1>4, <1>5, <1>8, <3>1 DEF IInv, TypeOK
  <2>3. \A q \in Orgs' : orgs'[q].licence \in NumberOrNull'
    <3>1. Null \in NumberOrNull BY DEF NumberOrNull
    <3> QED BY <1>3, <1>4, <1>6, <3>1, Types
  <2>4. app' \in [Apps -> [status : Statuses, org : OrgOrNull', licence : NumberOrNull']]
    BY <1>1, <1>4 DEF IInv, TypeOK, Statuses
  <2>5. Len(orgs') <= MaxOrgs
    BY <1>0, <1>1, <1>3, AccreditationAssumption DEF o
  <2> QED BY <1>1, <1>3, <2>1, <2>2, <2>3, <2>4, <2>5
          DEF IInv, TypeOK, OrgRows, Statuses
<1>11. Started' /\ Fresh' BY <1>1, <1>8 DEF IInv, Started, Fresh
<1>12. Inserted'
  <2>1. app[a].status # "none" BY DEF IInv, Started, a
  <2> QED BY <1>1, <1>3, <1>4, <1>6, <2>1 DEF IInv, Inserted
<1>13. OneDecider' BY <1>1, <1>7 DEF IInv, OneDecider
<1>14. DecidesItsOrg'
  <2>1. a \notin overlapped => app[a].org = Null
    BY DEF IInv, DecidesItsOrg, a
  <2> SUFFICES ASSUME NEW e \in Admins, req'[e] # Null, req'[e].a \notin overlapped,
                      app[req'[e].a].org # Null
               PROVE  req'[e].org = app[req'[e].a].org
    BY <1>1 DEF DecidesItsOrg
  <2>2. e # d BY <1>5, <2>1
  <2>3. req'[e] = req[e] BY <1>8, <2>2
  <2> QED BY <2>3 DEF IInv, DecidesItsOrg
<1>15. LinkedReads'
  <2> SUFFICES ASSUME NEW e \in Admins, req'[e] # Null,
                      req'[e].pc = "sanction" \/ (req'[e].pc = "read" /\ req'[e].org # Null)
               PROVE  req'[e].org # Null /\ app[req'[e].a].org = req'[e].org
    BY <1>1 DEF LinkedReads
  <2>1. e # d BY <1>5
  <2>2. req'[e] = req[e] BY <1>8, <2>1
  <2> QED BY <2>2 DEF IInv, LinkedReads
<1>22. Targets'
  <2> SUFFICES ASSUME NEW e \in Admins, req'[e] # Null, req'[e].org # Null
               PROVE  app[req'[e].a].org = req'[e].org \/ orgs'[req'[e].org].by = req'[e].a
    BY <1>1 DEF Targets
  <2>1. CASE e = d BY <1>3, <1>5, <1>6, <2>1
  <2>2. CASE e # d
    <3>1. req'[e] = req[e] BY <1>8, <2>2
    <3>2. req[e].org \in Orgs BY <3>1, Links
    <3> QED BY <1>3, <3>1, <3>2 DEF IInv, Targets
  <2> QED BY <2>1, <2>2
<1>16. OwnLicence' BY <1>3, <1>4, <1>6 DEF IInv, OwnLicence
<1>17. Stages'
  <2> SUFFICES ASSUME NEW e \in Admins, req'[e] # Null
               PROVE  /\ req'[e].pc = "sanction" <=> req'[e].to \in Sanctions
                      /\ req'[e].pc \in {"read", "number", "licence"} => req'[e].to = "approved"
                      /\ req'[e].pc \in {"number", "licence"} => req'[e].org # Null
                      /\ req'[e].pc = "licence" => req'[e].licence # Null
                      /\ req'[e].pc = "write" /\ req'[e].to = "approved" =>
                           req'[e].org # Null /\ orgs'[req'[e].org].licence # Null
                      /\ req'[e].licence # Null =>
                           req'[e].licence.id = req'[e].org /\ req'[e].to = "approved"
    BY DEF Stages
  <2>1. CASE e = d
    <3>1. req[d].to = "approved" BY DEF IInv, Stages
    <3>2. o # Null BY <1>4, AccreditationAssumption
    <3>3. "approved" \notin Sanctions BY DEF Sanctions
    <3>4. /\ req'[e].pc = "number" /\ req'[e].to = "approved" /\ req'[e].org # Null
          /\ req'[e].licence = Null
      BY <1>5, <2>1, <3>1, <3>2
    <3> QED BY <3>3, <3>4
  <2>2. CASE e # d
    <3>1. req'[e] = req[e] /\ req[e] # Null BY <1>5, <2>2
    <3>2. req[e].org # Null => req[e].org \in Orgs BY <3>1, Types DEF OrgOrNull
    <3> QED BY <1>3, <3>1, <3>2 DEF IInv, Stages
  <2> QED BY <2>1, <2>2
<1>18. \A x \in Apps : app[x].org # Null => app[x].org \in Orgs BY Types DEF OrgOrNull
<1>19. Named' BY <1>1, <1>3, Links DEF IInv, Named
<1>23. Numbered'
  <2>1. \A e \in Admins : Writing(e)' => Writing(e) /\ req'[e] = req[e]
    BY <1>5, <1>8 DEF Writing
  <2>2. \A e \in Admins : Writing(e) => req'[e] = req[e] BY <1>8 DEF Writing
  <2> QED BY <1>1, <1>3, <1>9, <2>1, <2>2, NumbersKept
<1>20. OrgsAreAccountedFor'
  <2>1. \A q \in Orgs' : orgs'[q].by \in Apps BY <1>0, <1>3, <1>4, <1>6, Types DEF OrgRows
  <2> SUFFICES ASSUME NEW q \in Orgs', NEW x \in Apps, x = orgs'[q].by
               PROVE  \/ app[x].org = q
                      \/ \E e \in Deciding(x)' : req'[e].org = q
                      \/ x \in overlapped \cup died
    BY <1>1, <2>1 DEF OrgsAreAccountedFor
  <2>2. CASE q = o
    <3>1. x = a BY <1>3, <1>6, <2>2
    <3>2. d \in Deciding(x)' BY <1>5, <3>1 DEF Deciding
    <3> QED BY <1>5, <2>2, <3>2
  <2>3. CASE q \in Orgs
    <3>1. x = orgs[q].by BY <1>3, <2>3
    <3>2. req[d].org # q BY <2>3, Types
    <3>3. \A e \in Deciding(x) : req[e].org = q => req'[e].org = q
      BY <1>5, <3>2 DEF Deciding
    <3> QED BY <1>7, <2>3, <3>1, <3>3 DEF IInv, OrgsAreAccountedFor
  <2> QED BY <1>4, <2>2, <2>3
<1>21. Sanctioned'
  <2> SUFFICES ASSUME NEW x \in Apps \ died, app[x].status \in Sanctions,
                      app[x].org # Null, Alone(x)
               PROVE  \/ orgs'[app[x].org].status \in Sanctions
                      \/ \E e \in Admins : req'[e] # Null /\ req'[e].a = x
    BY <1>1 DEF Sanctioned, Alone
  <2>1. \/ orgs[app[x].org].status \in Sanctions
        \/ \E e \in Admins : req[e] # Null /\ req[e].a = x
    BY DEF IInv, Sanctioned
  <2>2. orgs'[app[x].org] = orgs[app[x].org] BY <1>3, <1>18
  <2> QED BY <1>8, <2>1, <2>2
<1> QED BY <1>9, <1>10, <1>11, <1>12, <1>13, <1>14, <1>15, <1>16, <1>17, <1>19, <1>20,
           <1>21, <1>22, <1>23 DEF IInv

LEMMA DecisionOrgKeeps ==
  ASSUME IInv, NEW d \in Admins, DecisionOrg(d) PROVE IInv' /\ LinksKept
<1>0. req[d] # Null /\ req[d].pc = "read" BY DEF DecisionOrg
<1>1. CASE req[d].org = Null BY <1>0, <1>1, InsertKeeps
<1>2. CASE req[d].org # Null
  <2> DEFINE o == req[d].org
  <2>1. o \in Orgs /\ DOMAIN orgs = Orgs /\ orgs[o] \in OrgRows
    BY <1>0, <1>2, Types DEF OrgOrNull
  <2>2. [orgs[o] EXCEPT !.status = "active"]
          = [status |-> "active", licence |-> orgs[o].licence, by |-> orgs[o].by]
    BY <2>1 DEF OrgRows
  <2>3. [req[d] EXCEPT !.pc = "number"]
          = [pc |-> "number", a |-> req[d].a, to |-> req[d].to, org |-> req[d].org,
             licence |-> req[d].licence]
    <3>1. req[d] \in Requests BY <1>0, Types
    <3> QED BY <3>1 DEF Requests
  <2>4. orgs' = [orgs EXCEPT ![o] = [orgs[o] EXCEPT !.status = "active"]]
        /\ req' = [req EXCEPT ![d] = [req[d] EXCEPT !.pc = "number"]]
        /\ UNCHANGED <<app, begun, year, overlapped, died>>
    BY <1>2 DEF DecisionOrg
  <2>5. OrgStep(d, "number", req[d].licence, "active", orgs[o].licence)
    BY <1>0, <1>2, <2>2, <2>3, <2>4 DEF OrgStep
  <2> QED BY <2>5, OrgStepKeeps
<1> QED BY <1>1, <1>2

LEMMA DecisionNumberKeeps ==
  ASSUME IInv, NEW d \in Admins, DecisionNumber(d) PROVE IInv' /\ LinksKept
<1> DEFINE o == req[d].org
           n == [year |-> year, id |-> req[d].org]
<1>0. req[d] # Null /\ req[d].pc = "number" /\ o # Null
  BY DEF DecisionNumber, IInv, Stages
<1>1. o \in Orgs /\ DOMAIN orgs = Orgs /\ orgs[o] \in OrgRows
  BY <1>0, Types DEF OrgOrNull
<1>2. orgs[o] = [status |-> orgs[o].status, licence |-> orgs[o].licence, by |-> orgs[o].by]
  BY <1>1 DEF OrgRows
<1>3. orgs = [orgs EXCEPT ![o] = orgs[o]]
  <2>1. orgs \in [Orgs -> OrgRows] BY <1>1, Types DEF IInv, TypeOK, Orgs, OrgRows
  <2> QED BY <2>1
<1>4. orgs' = orgs /\ UNCHANGED <<app, begun, year, overlapped, died>>
      /\ req' = [req EXCEPT ![d] = [req[d] EXCEPT !.pc = "licence", !.licence = n]]
  BY DEF DecisionNumber
<1>5. [req[d] EXCEPT !.pc = "licence", !.licence = n]
        = [pc |-> "licence", a |-> req[d].a, to |-> req[d].to, org |-> req[d].org,
           licence |-> n]
  <2>1. req[d] \in Requests BY <1>0, Types
  <2>2. PICK m : m = n OBVIOUS
  <2> HIDE DEF n
  <2>3. ASSUME NEW r \in Requests
        PROVE [r EXCEPT !.pc = "licence", !.licence = m]
                = [pc |-> "licence", a |-> r.a, to |-> r.to, org |-> r.org, licence |-> m]
    <3> DEFINE x == [r EXCEPT !.pc = "licence"]
    <3>1. x = [pc |-> "licence", a |-> r.a, to |-> r.to, org |-> r.org,
               licence |-> r.licence]
      BY DEF Requests
    <3>2. [x EXCEPT !.licence = m]
            = [pc |-> "licence", a |-> r.a, to |-> r.to, org |-> r.org, licence |-> m]
      <4> HIDE DEF x
      <4> QED BY <3>1
    <3>3. [r EXCEPT !.pc = "licence", !.licence = m] = [x EXCEPT !.licence = m] OBVIOUS
    <3> QED BY <3>2, <3>3
  <2>4. [req[d] EXCEPT !.pc = "licence", !.licence = m]
          = [pc |-> "licence", a |-> req[d].a, to |-> req[d].to, org |-> req[d].org,
             licence |-> m]
    BY <2>1, <2>3
  <2> QED BY <2>2, <2>4
<1>6. orgs' = [orgs EXCEPT ![o] = [status |-> orgs[o].status, licence |-> orgs[o].licence,
                                   by |-> orgs[o].by]]
  BY <1>2, <1>3, <1>4
<1>7. OrgStep(d, "licence", n, orgs[o].status, orgs[o].licence)
  BY <1>0, <1>4, <1>5, <1>6 DEF OrgStep
<1> QED BY <1>7, OrgStepKeeps

LEMMA DecisionLicenceKeeps ==
  ASSUME IInv, NEW d \in Admins, DecisionLicence(d) PROVE IInv' /\ LinksKept
<1> DEFINE o == req[d].org
<1>0. req[d] # Null /\ req[d].pc = "licence" /\ o # Null
  BY DEF DecisionLicence, IInv, Stages
<1>1. o \in Orgs /\ DOMAIN orgs = Orgs /\ orgs[o] \in OrgRows
  BY <1>0, Types DEF OrgOrNull
<1>2. [orgs[o] EXCEPT !.licence = req[d].licence]
        = [status |-> orgs[o].status, licence |-> req[d].licence, by |-> orgs[o].by]
  BY <1>1 DEF OrgRows
<1>3. [req[d] EXCEPT !.pc = "write"]
        = [pc |-> "write", a |-> req[d].a, to |-> req[d].to, org |-> req[d].org,
           licence |-> req[d].licence]
  <2>1. req[d] \in Requests BY <1>0, Types
  <2> QED BY <2>1 DEF Requests
<1>4. orgs' = [orgs EXCEPT ![o] = [orgs[o] EXCEPT !.licence = req[d].licence]]
      /\ req' = [req EXCEPT ![d] = [req[d] EXCEPT !.pc = "write"]]
      /\ UNCHANGED <<app, begun, year, overlapped, died>>
  BY DEF DecisionLicence
<1>5. OrgStep(d, "write", req[d].licence, orgs[o].status, req[d].licence)
  BY <1>0, <1>2, <1>3, <1>4 DEF OrgStep
<1> QED BY <1>5, OrgStepKeeps

\* A request that ends leaves everything that is about the others.
LEMMA Ended ==
  ASSUME IInv, NEW d \in Admins, req' = [req EXCEPT ![d] = Null]
  PROVE  /\ req' \in [Admins -> Requests \cup {Null}] /\ req'[d] = Null
         /\ \A e \in Admins \ {d} : req'[e] = req[e]
         /\ \A x \in Apps : Deciding(x)' = Deciding(x) \ {d}
         /\ \A x \in Apps : \A e \in Deciding(x) \ {d} : req'[e].org = req[e].org
<1>1. req' \in [Admins -> Requests \cup {Null}] BY DEF IInv, TypeOK
<1>2. req'[d] = Null /\ \A e \in Admins \ {d} : req'[e] = req[e] BY Types
<1>3. \A x \in Apps : Deciding(x)' = Deciding(x) \ {d} BY <1>2 DEF Deciding
<1>4. \A x \in Apps : \A e \in Deciding(x) \ {d} : req'[e].org = req[e].org
  BY <1>2 DEF Deciding
<1> QED BY <1>1, <1>2, <1>3, <1>4

\* The decision reaches the application; COALESCE keeps the link it has.
LEMMA DecisionAppKeeps ==
  ASSUME IInv, NEW d \in Admins, DecisionApp(d) PROVE IInv' /\ LinksKept
<1> DEFINE a == req[d].a
           o == IF app[a].org # Null THEN app[a].org ELSE req[d].org
           l == req[d].licence
           row == [status |-> req[d].to, org |-> o, licence |-> l]
<1>0. req[d] # Null /\ req[d].pc = "write" /\ req' = [req EXCEPT ![d] = Null]
      /\ orgs' = orgs /\ overlapped' = overlapped /\ died' = died
      /\ year' = year /\ begun' = begun
      /\ app' = [app EXCEPT ![a] = row]
  BY DEF DecisionApp
<1>1. /\ a \in Apps /\ req[d] \in Requests /\ req[d].org \in OrgOrNull
      /\ app[a].org \in OrgOrNull
  BY <1>0, Types
<1>2. req[d].to \in {"approved", "rejected"} /\ req[d].to \notin Sanctions
  BY <1>0, <1>1 DEF IInv, Stages, Requests
<1>3. o \in OrgOrNull /\ l \in NumberOrNull BY <1>0, <1>1, Types DEF OrgOrNull
<1>4. /\ app'[a] = row /\ row.status = req[d].to /\ row.org = o /\ row.licence = l
      /\ \A x \in Apps \ {a} : app'[x] = app[x]
  BY <1>0, <1>1, Types
<1>5. /\ app[a].org # Null => o = app[a].org
      /\ app[a].org = Null => o = req[d].org
      /\ l = req[d].licence
  OBVIOUS
<1>6. row \in [status : Statuses, org : OrgOrNull, licence : NumberOrNull]
  BY <1>2, <1>3 DEF Statuses
<1>7. /\ req' \in [Admins -> Requests \cup {Null}] /\ req'[d] = Null
      /\ \A e \in Admins \ {d} : req'[e] = req[e]
      /\ \A x \in Apps : Deciding(x)' = Deciding(x) \ {d}
      /\ \A x \in Apps : \A e \in Deciding(x) \ {d} : req'[e].org = req[e].org
  BY <1>0, Ended
<1>8. Orgs' = Orgs /\ OrgOrNull' = OrgOrNull /\ NumberOrNull' = NumberOrNull
  BY <1>0 DEF Orgs, OrgOrNull, NumberOrNull
<1>9. \A e \in Admins : req'[e] # Null => req'[e] = req[e] /\ e # d BY <1>7
<1> HIDE DEF row, o, l
<1>10. LinksKept BY <1>4, <1>5 DEF LinksKept
<1>11. TypeOK'
  <2>1. app' \in [Apps -> [status : Statuses, org : OrgOrNull, licence : NumberOrNull]]
    BY <1>0, <1>6 DEF IInv, TypeOK, Statuses
  <2>2. \A e \in Admins : req'[e] # Null =>
          req'[e].org \in OrgOrNull /\ req'[e].licence \in NumberOrNull
    BY <1>9 DEF IInv, TypeOK
  <2> QED BY <1>0, <1>7, <1>8, <2>1, <2>2 DEF IInv, TypeOK, Statuses
<1>12. \A x \in Apps : app[x].status # "none" => app'[x].status # "none"
  BY <1>2, <1>4
<1>13. Started'
  <2> SUFFICES ASSUME NEW e \in Admins, req'[e] # Null
               PROVE  app'[req'[e].a].status # "none"
    BY DEF Started
  <2>1. req'[e] = req[e] /\ req[e].a \in Apps BY <1>9, Types
  <2> QED BY <1>12, <2>1 DEF IInv, Started
<1>14. Fresh' BY <1>2, <1>4 DEF IInv, Fresh
<1>15. Inserted'
  <2>1. \A q \in Orgs : orgs[q].by \in Apps BY Types DEF OrgRows
  <2> QED BY <1>0, <1>8, <1>12, <2>1 DEF IInv, Inserted
<1>16. OneDecider' BY <1>0, <1>7 DEF IInv, OneDecider
<1>17. a \notin overlapped => Deciding(a) = {d}
  <2>1. d \in Deciding(a) BY <1>0 DEF Deciding
  <2> QED BY <1>1, <2>1 DEF IInv, OneDecider
<1>18. DecidesItsOrg'
  <2> SUFFICES ASSUME NEW e \in Admins, req'[e] # Null, req'[e].a \notin overlapped,
                      app'[req'[e].a].org # Null
               PROVE  req'[e].org = app'[req'[e].a].org
    BY <1>0 DEF DecidesItsOrg
  <2>1. req'[e] = req[e] /\ req[e].a \in Apps /\ e # d BY <1>9, Types
  <2>2. CASE req[e].a # a BY <1>4, <2>1, <2>2 DEF IInv, DecidesItsOrg
  <2>3. CASE req[e].a = a
    <3>1. req[e].pc = "sanction" BY <1>17, <2>1, <2>3 DEF Deciding
    <3>2. app[a].org = req[e].org /\ req[e].org # Null
      BY <2>1, <2>3, <3>1 DEF IInv, LinkedReads
    <3> QED BY <1>4, <1>5, <2>1, <2>3, <3>2
  <2> QED BY <2>2, <2>3
<1>19. LinkedReads'
  <2> SUFFICES ASSUME NEW e \in Admins, req'[e] # Null,
                      req'[e].pc = "sanction" \/ (req'[e].pc = "read" /\ req'[e].org # Null)
               PROVE  req'[e].org # Null /\ app'[req'[e].a].org = req'[e].org
    BY DEF LinkedReads
  <2>1. req'[e] = req[e] /\ req[e].a \in Apps BY <1>9, Types
  <2>2. req[e].org # Null /\ app[req[e].a].org = req[e].org
    BY <2>1 DEF IInv, LinkedReads
  <2> QED BY <1>10, <2>1, <2>2 DEF LinksKept
<1>20. Stages' BY <1>0, <1>9 DEF IInv, Stages
<1>21. OwnLicence' BY <1>0, <1>8 DEF IInv, OwnLicence
<1>25. Targets'
  <2> SUFFICES ASSUME NEW e \in Admins, req'[e] # Null, req'[e].org # Null
               PROVE  app'[req'[e].a].org = req'[e].org \/ orgs[req'[e].org].by = req'[e].a
    BY <1>0 DEF Targets
  <2>1. req'[e] = req[e] /\ req[e].a \in Apps BY <1>9, Types
  <2> QED BY <1>10, <2>1 DEF IInv, Targets, LinksKept
<1>26. l # Null => req[d].to = "approved" BY <1>0, <1>5 DEF IInv, Stages
<1>27. a \notin overlapped /\ l # Null => o = req[d].org /\ req[d].org \in Orgs
  <2>1. l # Null => req[d].org \in Orgs BY <1>0, <1>5, Types DEF IInv, Stages
  <2>2. a \notin overlapped => o = req[d].org BY <1>0, <1>5 DEF IInv, DecidesItsOrg
  <2> QED BY <2>1, <2>2
<1>22. Named'
  <2> SUFFICES ASSUME NEW x \in Apps \ overlapped, app'[x].licence # Null
               PROVE  /\ app'[x].licence.id = app'[x].org
                      /\ orgs[app'[x].org].licence # Null
    BY <1>0 DEF Named
  <2>1. CASE x # a BY <1>4, <2>1 DEF IInv, Named
  <2>2. CASE x = a
    <3>1. l # Null /\ o = req[d].org BY <1>4, <1>27, <2>2
    <3>2. l.id = req[d].org /\ orgs[req[d].org].licence # Null
      BY <1>0, <1>5, <1>26, <3>1 DEF IInv, Stages
    <3> QED BY <1>4, <2>2, <3>1, <3>2
  <2> QED BY <2>1, <2>2
<1>28. Numbered'
  <2> SUFFICES ASSUME NEW x \in Apps, x \notin overlapped, x \notin died
               PROVE
      /\ \A e \in Admins : Writing(e)' /\ req'[e].a = x /\ Sole(x, req[e].org)' =>
           orgs[req'[e].org].licence = req'[e].licence
      /\ app'[x].licence # Null /\ Sole(x, app[x].org)'
         /\ (\A e \in Admins : Writing(e)' => req'[e].a # x) =>
           orgs[app'[x].org].licence = app'[x].licence
    BY <1>0 DEF Numbered, Writing, Sole
  <2>1. ASSUME NEW e \in Admins, Writing(e)', req'[e].a = x, Sole(x, req[e].org)'
        PROVE  orgs[req'[e].org].licence = req'[e].licence
    <3>1. req'[e] = req[e] /\ Writing(e) BY <1>9, <2>1 DEF Writing
    <3>2. PICK p \in Orgs : p = req[e].org BY <3>1, Links DEF IInv, Stages, Writing
    <3>3. Sole(x, p)' BY <2>1, <3>1, <3>2
    <3>4. Sole(x, p) BY <1>0, <1>10, <3>3, SoleBefore
    <3> QED BY <2>1, <3>1, <3>2, <3>4 DEF IInv, Numbered
  <2>2. ASSUME x # a, app'[x].licence # Null, Sole(x, app[x].org)',
               \A e \in Admins : Writing(e)' => req'[e].a # x
        PROVE  orgs[app'[x].org].licence = app'[x].licence
    <3>1. app'[x] = app[x] BY <1>4, <2>2
    <3>2. PICK p \in Orgs : p = app[x].org BY <2>2, <3>1, Links
    <3>3. Sole(x, p)' BY <2>2, <3>1, <3>2
    <3>4. Sole(x, p) BY <1>0, <1>10, <3>3, SoleBefore
    <3>5. ASSUME NEW e \in Admins, Writing(e), req[e].a = x PROVE FALSE
      <4>1. req'[e] = req[e] BY <1>7, <2>2, <3>5
      <4>2. Writing(e)' BY <3>5, <4>1 DEF Writing
      <4> QED BY <2>2, <3>5, <4>1, <4>2
    <3> QED BY <2>2, <3>1, <3>2, <3>4, <3>5 DEF IInv, Numbered
  <2>3. ASSUME x = a, app'[x].licence # Null, Sole(x, app[x].org)'
        PROVE  orgs[app'[x].org].licence = app'[x].licence
    <3>1. l # Null /\ app'[x].licence = l /\ app'[x].org = o BY <1>4, <2>3
    <3>2. PICK p \in Orgs : p = req[d].org /\ p = o BY <1>27, <2>3, <3>1
    <3>3. Sole(x, p)' BY <2>3, <3>1, <3>2
    <3>4. Sole(x, p) BY <1>0, <1>10, <3>3, SoleBefore
    <3>5. Writing(d) /\ req[d].a = x BY <1>0, <1>26, <2>3, <3>1 DEF Writing
    <3>6. orgs[p].licence = req[d].licence BY <3>2, <3>4, <3>5 DEF IInv, Numbered
    <3> QED BY <1>5, <3>1, <3>2, <3>6
  <2> QED BY <2>1, <2>2, <2>3
<1>23. OrgsAreAccountedFor'
  <2> SUFFICES ASSUME NEW q \in Orgs, NEW x \in Apps, x = orgs[q].by
               PROVE  \/ app'[x].org = q
                      \/ \E e \in Deciding(x)' : req'[e].org = q
                      \/ x \in overlapped \cup died
    BY <1>0, <1>8, Types DEF OrgsAreAccountedFor, OrgRows
  <2>0. q # Null BY Types
  <2>1. \/ app[x].org = q
        \/ \E e \in Deciding(x) : req[e].org = q
        \/ x \in overlapped \cup died
    BY DEF IInv, OrgsAreAccountedFor
  <2>2. CASE app[x].org = q BY <1>10, <2>0, <2>2 DEF LinksKept
  <2>3. ASSUME NEW e \in Deciding(x), req[e].org = q, e # d
        PROVE  \E f \in Deciding(x)' : req'[f].org = q
    BY <1>7, <2>3
  <2>4. CASE d \in Deciding(x) /\ req[d].org = q /\ x \notin overlapped
    <3>1. x = a BY <2>4 DEF Deciding
    <3>2. o = q BY <1>0, <1>5, <2>4, <3>1 DEF IInv, DecidesItsOrg
    <3> QED BY <1>4, <3>1, <3>2
  <2> QED BY <2>1, <2>2, <2>3, <2>4
<1>24. Sanctioned'
  <2> SUFFICES ASSUME NEW x \in Apps \ died, app'[x].status \in Sanctions,
                      app'[x].org # Null, Alone(x)'
               PROVE  \/ orgs[app'[x].org].status \in Sanctions
                      \/ \E e \in Admins : req'[e] # Null /\ req'[e].a = x
    BY <1>0 DEF Sanctioned
  <2>1. x # a /\ app'[x] = app[x] BY <1>2, <1>4
  <2>2. Alone(x) BY <1>10, <2>1 DEF Alone, LinksKept
  <2>3. \/ orgs[app[x].org].status \in Sanctions
        \/ \E e \in Admins : req[e] # Null /\ req[e].a = x
    BY <2>1, <2>2 DEF IInv, Sanctioned
  <2>4. \A e \in Admins : req[e] # Null /\ req[e].a = x => req'[e] = req[e]
    BY <1>7, <2>1
  <2> QED BY <2>1, <2>3, <2>4
<1> QED BY <1>10, <1>11, <1>13, <1>14, <1>15, <1>16, <1>18, <1>19, <1>20, <1>21, <1>22,
           <1>23, <1>24, <1>25, <1>28 DEF IInv

\* A request that ends without touching the application leaves the invariant,
\* if it leaves the organisation sanctioned or has been noted as ended.
LEMMA EndKeeps ==
  ASSUME IInv, NEW d \in Admins, req[d] # Null, req' = [req EXCEPT ![d] = Null],
         UNCHANGED <<app, begun, year, overlapped>>,
         orgs' \in Seq(OrgRows), Len(orgs') = Len(orgs),
         \A q \in Orgs : orgs'[q].by = orgs[q].by /\ orgs'[q].licence = orgs[q].licence,
         \A q \in Orgs : orgs[q].status \in Sanctions => orgs'[q].status \in Sanctions,
         died' \subseteq Apps, died \subseteq died',
         \/ req[d].a \in died'
         \/ req[d].pc = "sanction" /\ orgs'[req[d].org].status \in Sanctions
  PROVE  IInv' /\ LinksKept
<1>1. /\ req' \in [Admins -> Requests \cup {Null}] /\ req'[d] = Null
      /\ \A e \in Admins \ {d} : req'[e] = req[e]
      /\ \A x \in Apps : Deciding(x)' = Deciding(x) \ {d}
      /\ \A x \in Apps : \A e \in Deciding(x) \ {d} : req'[e].org = req[e].org
  BY Ended
<1>2. \A e \in Admins : req'[e] # Null => req'[e] = req[e] /\ e # d BY <1>1
<1>3. Orgs' = Orgs /\ OrgOrNull' = OrgOrNull /\ NumberOrNull' = NumberOrNull
  BY DEF Orgs, OrgOrNull, NumberOrNull
<1>4. LinksKept BY DEF LinksKept
<1>5. TypeOK'
  <2>1. \A e \in Admins : req'[e] # Null =>
          req'[e].org \in OrgOrNull /\ req'[e].licence \in NumberOrNull
    BY <1>2 DEF IInv, TypeOK
  <2>2. \A q \in Orgs : orgs'[q].licence \in NumberOrNull BY Types
  <2> QED BY <1>1, <1>3, <2>1, <2>2 DEF IInv, TypeOK, OrgRows
<1>6. Started' /\ Fresh' BY <1>2 DEF IInv, Started, Fresh
<1>7. Inserted' BY <1>3 DEF IInv, Inserted
<1>8. OneDecider' BY <1>1 DEF IInv, OneDecider
<1>9. DecidesItsOrg' BY <1>2 DEF IInv, DecidesItsOrg
<1>10. LinkedReads' BY <1>2 DEF IInv, LinkedReads
<1>11. Stages'
  <2> SUFFICES ASSUME NEW e \in Admins, req'[e] # Null
               PROVE  /\ req'[e].pc = "sanction" <=> req'[e].to \in Sanctions
                      /\ req'[e].pc \in {"read", "number", "licence"} => req'[e].to = "approved"
                      /\ req'[e].pc \in {"number", "licence"} => req'[e].org # Null
                      /\ req'[e].pc = "licence" => req'[e].licence # Null
                      /\ req'[e].pc = "write" /\ req'[e].to = "approved" =>
                           req'[e].org # Null /\ orgs'[req'[e].org].licence # Null
                      /\ req'[e].licence # Null =>
                           req'[e].licence.id = req'[e].org /\ req'[e].to = "approved"
    BY DEF Stages
  <2>1. req'[e] = req[e] BY <1>2
  <2>2. req[e].org # Null => req[e].org \in Orgs BY <2>1, Types DEF OrgOrNull
  <2> QED BY <2>1, <2>2 DEF IInv, Stages
<1>12. OwnLicence' BY <1>3 DEF IInv, OwnLicence
<1>13. \A x \in Apps : app[x].org # Null => app[x].org \in Orgs BY Types DEF OrgOrNull
<1>14. Named' BY Links DEF IInv, Named
<1>17. Targets'
  <2> SUFFICES ASSUME NEW e \in Admins, req'[e] # Null, req'[e].org # Null
               PROVE  app[req'[e].a].org = req'[e].org \/ orgs'[req'[e].org].by = req'[e].a
    BY DEF Targets
  <2>1. req'[e] = req[e] BY <1>2
  <2>2. req[e].org \in Orgs BY <2>1, Links
  <2> QED BY <2>1, <2>2 DEF IInv, Targets
<1>18. Numbered'
  <2>1. \A e \in Admins : Writing(e)' => Writing(e) /\ req'[e] = req[e]
    BY <1>2 DEF Writing
  <2>2. \A e \in Admins : Writing(e) => req'[e] = req[e] \/ req[e].a \in died'
    BY <1>1 DEF Writing
  <2> QED BY <1>4, <2>1, <2>2, NumbersKept
<1>15. OrgsAreAccountedFor'
  <2> SUFFICES ASSUME NEW q \in Orgs, NEW x \in Apps, x = orgs[q].by
               PROVE  \/ app[x].org = q
                      \/ \E e \in Deciding(x)' : req'[e].org = q
                      \/ x \in overlapped \cup died'
    BY <1>3, Types DEF OrgsAreAccountedFor, OrgRows
  <2>1. \/ app[x].org = q
        \/ \E e \in Deciding(x) : req[e].org = q
        \/ x \in overlapped \cup died
    BY DEF IInv, OrgsAreAccountedFor
  <2>2. ASSUME NEW e \in Deciding(x), req[e].org = q, e # d
        PROVE  \E f \in Deciding(x)' : req'[f].org = q
    BY <1>1, <2>2
  <2>3. d \in Deciding(x) => x \in died' BY DEF Deciding
  <2> QED BY <2>1, <2>2, <2>3
<1>16. Sanctioned'
  <2> SUFFICES ASSUME NEW x \in Apps \ died', app[x].status \in Sanctions,
                      app[x].org # Null, Alone(x)
               PROVE  \/ orgs'[app[x].org].status \in Sanctions
                      \/ \E e \in Admins : req'[e] # Null /\ req'[e].a = x
    BY DEF Sanctioned, Alone
  <2>1. \/ orgs[app[x].org].status \in Sanctions
        \/ \E e \in Admins : req[e] # Null /\ req[e].a = x
    BY DEF IInv, Sanctioned
  <2>2. CASE orgs[app[x].org].status \in Sanctions BY <1>13, <2>2
  <2>3. ASSUME NEW e \in Admins, req[e] # Null, req[e].a = x, e # d
        PROVE  req'[e] # Null /\ req'[e].a = x
    BY <1>1, <2>3
  <2>4. CASE req[d].a = x
    <3>1. req[d].pc = "sanction" /\ orgs'[req[d].org].status \in Sanctions BY <2>4
    <3>2. app[x].org = req[d].org BY <2>4, <3>1 DEF IInv, LinkedReads
    <3> QED BY <3>1, <3>2
  <2> QED BY <2>1, <2>2, <2>3, <2>4
<1> QED BY <1>4, <1>5, <1>6, <1>7, <1>8, <1>9, <1>10, <1>11, <1>12, <1>14, <1>15,
           <1>16, <1>17, <1>18 DEF IInv

LEMMA SanctionOrgKeeps ==
  ASSUME IInv, NEW d \in Admins, SanctionOrg(d) PROVE IInv' /\ LinksKept
<1> DEFINE o == req[d].org
           row == [status |-> req[d].to, licence |-> orgs[o].licence, by |-> orgs[o].by]
<1>0. req[d] # Null /\ req[d].pc = "sanction" /\ req' = [req EXCEPT ![d] = Null]
      /\ app' = app /\ overlapped' = overlapped /\ died' = died
      /\ year' = year /\ begun' = begun
      /\ orgs' = [orgs EXCEPT ![o].status = req[d].to]
  BY DEF SanctionOrg
<1>1. o \in Orgs /\ DOMAIN orgs = Orgs /\ orgs[o] \in OrgRows /\ req[d].to \in Sanctions
  BY <1>0, Types DEF IInv, LinkedReads, Stages, OrgOrNull
<1>2. orgs' = [orgs EXCEPT ![o] = row]
  <2>1. [orgs[o] EXCEPT !.status = req[d].to] = row BY <1>1 DEF OrgRows
  <2>2. orgs' = [orgs EXCEPT ![o] = [orgs[o] EXCEPT !.status = req[d].to]] BY <1>0
  <2> QED BY <2>1, <2>2
<1>3. row \in OrgRows /\ row.status = req[d].to /\ row.licence = orgs[o].licence
      /\ row.by = orgs[o].by
  BY <1>1 DEF OrgRows
<1>4. orgs \in Seq(OrgRows) /\ o \in 1..Len(orgs) BY <1>1 DEF IInv, TypeOK, OrgRows, Orgs
<1> HIDE DEF row, o
<1>5. orgs' \in Seq(OrgRows) /\ Len(orgs') = Len(orgs) BY <1>2, <1>3, <1>4, ExceptSeq
<1>6. orgs'[o] = row /\ \A q \in Orgs \ {o} : orgs'[q] = orgs[q] BY <1>1, <1>2
<1>7. died \subseteq Apps BY DEF IInv, TypeOK
<1>8. orgs'[req[d].org].status \in Sanctions BY <1>1, <1>3, <1>6 DEF o
<1>9. \A q \in Orgs :
        /\ orgs'[q].by = orgs[q].by /\ orgs'[q].licence = orgs[q].licence
        /\ orgs[q].status \in Sanctions => orgs'[q].status \in Sanctions
  BY <1>1, <1>3, <1>6
<1> QED BY <1>0, <1>5, <1>7, <1>8, <1>9, EndKeeps

LEMMA RequestDiesKeeps ==
  ASSUME IInv, NEW d \in Admins, RequestDies(d) PROVE IInv' /\ LinksKept
<1>1. req[d] # Null /\ req[d].a \in Apps BY Types DEF RequestDies
<1>2. orgs \in Seq(OrgRows) /\ died \subseteq Apps BY DEF IInv, TypeOK, OrgRows
<1> QED BY <1>1, <1>2, EndKeeps DEF RequestDies

-----------------------------------------------------------------------------
(* Sanctions *)

\* A sanction that finds a link stays under way until the organisation has it.
LEMMA SanctionAppKeeps ==
  ASSUME IInv, NEW d \in Admins, NEW a \in Apps, NEW st \in Sanctions,
         SanctionApp(d, a, st)
  PROVE  IInv' /\ LinksKept
<1> DEFINE r == [pc |-> "sanction", a |-> a, to |-> st, org |-> app[a].org,
                 licence |-> Null]
           row == [status |-> st, org |-> app[a].org, licence |-> app[a].licence]
<1>0. /\ req[d] = Null /\ app[a].status # "none"
      /\ orgs' = orgs /\ overlapped' = overlapped /\ died' = died
      /\ app[a].org = Null => req' = req
      /\ app[a].org # Null => req' = [req EXCEPT ![d] = r]
      /\ Orgs' = Orgs /\ OrgOrNull' = OrgOrNull /\ NumberOrNull' = NumberOrNull
      /\ year' = year /\ begun' = begun + 1
  BY DEF SanctionApp, Orgs, OrgOrNull, NumberOrNull
<1>1. app' = [app EXCEPT ![a] = row]
  <2>1. app[a] = [status |-> app[a].status, org |-> app[a].org, licence |-> app[a].licence]
    BY Types
  <2>2. [app[a] EXCEPT !.status = st] = row BY <2>1
  <2>3. app' = [app EXCEPT ![a] = [app[a] EXCEPT !.status = st]] BY DEF SanctionApp
  <2> QED BY <2>2, <2>3
<1>2. r \in Requests /\ r # Null /\ r.org \in OrgOrNull /\ r.pc = "sanction" /\ r.a = a
      /\ r.to = st /\ r.org = app[a].org /\ r.licence = Null
  <2>1. app[a].org \in OrgOrNull /\ app[a].org \in Nat \cup {Null}
    BY Types DEF OrgOrNull, Orgs
  <2> QED BY <2>1, AccreditationAssumption DEF Requests
<1>3. row \in [status : Statuses, org : OrgOrNull, licence : NumberOrNull]
      /\ row.status = st /\ row.org = app[a].org /\ row.licence = app[a].licence
  BY Types DEF Statuses
<1> HIDE DEF r, row
<1>4. app'[a] = row /\ \A x \in Apps \ {a} : app'[x] = app[x] BY <1>1, Types
<1>5. \A x \in Apps : /\ app'[x].org = app[x].org /\ app'[x].licence = app[x].licence
                      /\ app[x].status # "none" <=> app'[x].status # "none"
  BY <1>0, <1>3, <1>4 DEF Sanctions
<1>6. \A e \in Admins : req[e] # Null => req'[e] = req[e] BY <1>0, Types
<1>7. \A e \in Admins : req'[e] # Null =>
        req'[e] = req[e] \/ (e = d /\ req'[e] = r /\ app[a].org # Null)
  BY <1>0, Types
<1>8. \A x \in Apps : Deciding(x)' = Deciding(x)
  <2> SUFFICES ASSUME NEW x \in Apps, NEW e \in Admins
               PROVE  (req'[e] # Null /\ req'[e].a = x /\ req'[e].pc # "sanction")
                      <=> (req[e] # Null /\ req[e].a = x /\ req[e].pc # "sanction")
    BY DEF Deciding
  <2> QED BY <1>2, <1>6, <1>7
<1>9. LinksKept BY <1>5 DEF LinksKept
<1>10. TypeOK'
  <2>1. app' \in [Apps -> [status : Statuses, org : OrgOrNull, licence : NumberOrNull]]
    BY <1>1, <1>3 DEF IInv, TypeOK, Statuses
  <2>2. req' \in [Admins -> Requests \cup {Null}] BY <1>0, <1>2 DEF IInv, TypeOK
  <2>3. \A e \in Admins : req'[e] # Null =>
          req'[e].org \in OrgOrNull /\ req'[e].licence \in NumberOrNull
    BY <1>2, <1>7 DEF IInv, TypeOK, NumberOrNull
  <2>4. begun' \in Nat BY <1>0 DEF IInv, TypeOK
  <2> QED BY <1>0, <2>1, <2>2, <2>3, <2>4 DEF IInv, TypeOK, Statuses
<1>11. \A e \in Admins : req'[e] # Null => req'[e].a \in Apps BY <1>2, <1>7, Types
<1>12. Started' BY <1>0, <1>2, <1>5, <1>7, <1>11 DEF IInv, Started
<1>13. Fresh' BY <1>5 DEF IInv, Fresh
<1>14. Inserted'
  <2>1. \A q \in Orgs : orgs[q].by \in Apps BY Types DEF OrgRows
  <2> QED BY <1>0, <1>5, <2>1 DEF IInv, Inserted
<1>15. OneDecider' BY <1>0, <1>8 DEF IInv, OneDecider
<1>16. DecidesItsOrg' BY <1>0, <1>2, <1>5, <1>7, <1>11 DEF IInv, DecidesItsOrg
<1>17. LinkedReads' BY <1>2, <1>5, <1>7, <1>11 DEF IInv, LinkedReads
<1>18. Stages' BY <1>0, <1>2, <1>7 DEF IInv, Stages
<1>19. OwnLicence' BY <1>0 DEF IInv, OwnLicence
<1>20. Named' BY <1>0, <1>5 DEF IInv, Named
<1>23. Targets' BY <1>0, <1>2, <1>5, <1>7, <1>11 DEF IInv, Targets
<1>24. Numbered'
  <2>1. \A e \in Admins : Writing(e)' => Writing(e) /\ req'[e] = req[e]
    BY <1>2, <1>7 DEF Writing
  <2>2. \A e \in Admins : Writing(e) => req'[e] = req[e] BY <1>6 DEF Writing
  <2> QED BY <1>0, <1>5, <1>9, <2>1, <2>2, NumbersKept
<1>21. OrgsAreAccountedFor'
  <2>1. \A x \in Apps : \A e \in Deciding(x) : req'[e].org = req[e].org
    BY <1>6 DEF Deciding
  <2>2. \A q \in Orgs : orgs[q].by \in Apps BY Types DEF OrgRows
  <2> QED BY <1>0, <1>5, <1>8, <2>1, <2>2 DEF IInv, OrgsAreAccountedFor
<1>22. Sanctioned'
  <2> SUFFICES ASSUME NEW x \in Apps \ died, app'[x].status \in Sanctions,
                      app'[x].org # Null, Alone(x)'
               PROVE  \/ orgs[app'[x].org].status \in Sanctions
                      \/ \E e \in Admins : req'[e] # Null /\ req'[e].a = x
    BY <1>0 DEF Sanctioned
  <2>1. CASE x = a
    <3>1. app[a].org # Null BY <1>5, <2>1
    <3>2. req'[d] = r BY <1>0, <3>1, Types
    <3> QED BY <1>2, <2>1, <3>2
  <2>2. CASE x # a
    <3>1. Alone(x) BY <1>5 DEF Alone
    <3>2. \/ orgs[app[x].org].status \in Sanctions
          \/ \E e \in Admins : req[e] # Null /\ req[e].a = x
      BY <1>4, <2>2, <3>1 DEF IInv, Sanctioned
    <3> QED BY <1>5, <1>6, <3>2
  <2> QED BY <2>1, <2>2
<1> QED BY <1>9, <1>10, <1>12, <1>13, <1>14, <1>15, <1>16, <1>17, <1>18, <1>19, <1>20,
           <1>21, <1>22, <1>23, <1>24 DEF IInv

-----------------------------------------------------------------------------
(* The theorems *)

LEMMA NextKeepsIInv == IInv /\ [Next]_vars => IInv' /\ LinksKept
<1> SUFFICES ASSUME IInv, [Next]_vars PROVE IInv' /\ LinksKept OBVIOUS
<1>1. CASE UNCHANGED vars \/ YearPasses
  <2>0. /\ UNCHANGED <<app, orgs, req, begun, overlapped, died>>
        /\ year' = year \/ year' = year + 1
    BY <1>1 DEF vars, YearPasses
  <2>1. UNCHANGED <<app, orgs, req, overlapped, died>> BY <2>0
  <2>2. /\ Orgs' = Orgs /\ OrgOrNull' = OrgOrNull
        /\ \A x : Deciding(x)' = Deciding(x)
    BY <2>1 DEF Orgs, OrgOrNull, Deciding
  <2>3. TypeOK'
    <3>1. year' \in Nat \ {0} /\ NumberOrNull \subseteq NumberOrNull'
      BY <2>0, <2>2, Types DEF NumberOrNull
    <3>2. app' \in [Apps -> [status : Statuses, org : OrgOrNull, licence : NumberOrNull']]
      <4>1. app \in [Apps -> [status : Statuses, org : OrgOrNull, licence : NumberOrNull]]
        BY DEF IInv, TypeOK, Statuses
      <4>2. [status : Statuses, org : OrgOrNull, licence : NumberOrNull]
              \subseteq [status : Statuses, org : OrgOrNull, licence : NumberOrNull']
        BY <3>1
      <4> QED BY <2>1, <4>1, <4>2
    <3> QED BY <2>0, <2>2, <3>1, <3>2 DEF IInv, TypeOK, Statuses
  <2>4. Started' /\ Fresh' /\ Inserted' /\ OneDecider' /\ DecidesItsOrg' /\ LinkedReads'
    BY <2>1, <2>2
       DEF IInv, Started, Fresh, Inserted, OneDecider, DecidesItsOrg, LinkedReads
  <2>5. Targets' /\ Stages' /\ OwnLicence' /\ Named' /\ Numbered' /\ OrgsAreAccountedFor'
    BY <2>1, <2>2 DEF IInv, Targets, Stages, OwnLicence, Named, Numbered, Writing, Sole,
                      OrgsAreAccountedFor
  <2>6. Sanctioned' BY <2>1 DEF IInv, Sanctioned, Alone
  <2>7. LinksKept BY <2>1 DEF LinksKept
  <2> QED BY <2>3, <2>4, <2>5, <2>6, <2>7 DEF IInv
<1>2. ASSUME NEW a \in Apps, NEW b \in Apps, SubmitRenewal(a, b)
      PROVE  IInv' /\ LinksKept
  BY <1>2, SubmitKeeps, Types DEF SubmitRenewal
<1> QED
  BY <1>1, <1>2, SubmitKeeps, ReviewKeeps, DecisionReadKeeps, DecisionOrgKeeps,
     DecisionNumberKeeps, DecisionLicenceKeeps, DecisionAppKeeps, SanctionAppKeeps, SanctionOrgKeeps,
     RequestDiesKeeps
  DEF Next

LEMMA AccreditationInductive == Spec => []IInv
BY InitIInv, NextKeepsIInv, PTL DEF Spec

\* Applications, organisations and requests stay within their types; in
\* particular every link and every licence number names an organisation.
THEOREM AccreditationTyping == Spec => []TypeOK
<1>1. IInv => TypeOK BY DEF IInv
<1> QED BY <1>1, AccreditationInductive, PTL

\* The link of an application to its organisation, once written, is for good,
\* however many decisions, renewals and sanctions are in flight.
THEOREM LinksArePermanent == Spec => LinkIsPermanent
<1>1. IInv /\ [Next]_vars
        => [\A a \in Apps : app[a].org # Null => app'[a].org = app[a].org]_vars
  BY NextKeepsIInv DEF LinksKept
<1> QED BY <1>1, AccreditationInductive, PTL DEF Spec, LinkIsPermanent

\* Without overlapping decisions the application's licence is of its organisation,
\* and the same as the organisation's unless another application is about it.
THEOREM LicencesAlwaysAgree == Spec => []LicencesAgree
<1>1. IInv => LicencesAgree
  <2> SUFFICES ASSUME IInv, NEW a \in Apps \ overlapped, app[a].licence # Null,
                      NEW o, o = app[a].org
               PROVE  /\ app[a].licence.id = o
                      /\ orgs[o].licence # Null /\ orgs[o].licence.id = o
                      /\ (/\ a \notin died /\ Deciding(a) = {}
                          /\ \A b \in Apps \ {a} : app[b].org # o /\ orgs[o].by # b)
                         => orgs[o].licence = app[a].licence
    BY DEF LicencesAgree
  <2>1. o \in Orgs BY Links
  <2>2. app[a].licence.id = o /\ orgs[o].licence # Null BY DEF IInv, Named
  <2>3. orgs[o].licence.id = o BY <2>1, <2>2 DEF IInv, OwnLicence
  <2>4. ASSUME a \notin died, Deciding(a) = {},
               \A b \in Apps \ {a} : app[b].org # o /\ orgs[o].by # b
        PROVE  orgs[o].licence = app[a].licence
    <3>1. Sole(a, o) BY <2>4 DEF Sole
    <3>2. \A d \in Admins : Writing(d) => req[d].a # a BY <2>4 DEF Writing, Deciding
    <3> QED BY <2>4, <3>1, <3>2 DEF IInv, Numbered
  <2> QED BY <2>2, <2>3, <2>4
<1> QED BY <1>1, AccreditationInductive, PTL

\* No organisation is left over, unless decisions overlapped or a request died.
THEOREM NoOrgIsLeftOver == Spec => []OrgsAreAccountedFor
<1>1. IInv => OrgsAreAccountedFor BY DEF IInv
<1> QED BY <1>1, AccreditationInductive, PTL

\* A sanction reaches the organisation.
THEOREM SanctionsReachOrgs == Spec => []SanctionReachesOrg
<1>1. IInv => SanctionReachesOrg
  BY DEF IInv, Sanctioned, Alone, SanctionReachesOrg
<1> QED BY <1>1, AccreditationInductive, PTL
=============================================================================
