--------------------------- MODULE Accreditation ---------------------------
(***************************************************************************)
(* The accreditation of DPCO organisations                                 *)
(* (server/routers/accreditation.ts).  No procedure looks at the status it *)
(* replaces; a decision is up to three writes after a SELECT, a sanction   *)
(* two, none of them in a transaction, so that requests interleave between *)
(* them and may end between them.  "approved" stands for the conditional   *)
(* approval too; a licence number is the year it is made in and the id of  *)
(* the organisation.  The registry's own edits (routers/dpco.ts) are left  *)
(* out.                                                                    *)
(***************************************************************************)
EXTENDS Naturals, Sequences

CONSTANTS
  Apps,     \* applications, each submitted at most once
  Admins,   \* decisions and sanctions that may be in progress at once
  MaxOrgs,  \* bound: organisations
  MaxYear,  \* bound: calendar years
  MaxBegun, \* bound: decisions and sanctions begun
  Null

Sanctions == {"suspended", "revoked"}

Licences == [year : Nat, id : Nat]

\* A request under way: its next step, application, outcome, organisation and
\* the licence number it has made.
Requests == [pc : {"read", "number", "licence", "write", "sanction"}, a : Apps,
             to : Sanctions \cup {"approved", "rejected"}, org : Nat \cup {Null},
             licence : Licences \cup {Null}]

ASSUME AccreditationAssumption ==
  /\ MaxOrgs \in Nat /\ MaxYear \in Nat /\ MaxBegun \in Nat
  /\ Null \notin Nat \cup Licences \cup Requests

VARIABLES
  app,        \* dpco_accreditation_applications: status, org, licence
  orgs,       \* dpco_organisations by id: status, licence, by (the applicant)
  req,        \* requests between their statements
  begun,      \* how many requests have begun
  year,       \* what the server's clock says
  overlapped, \* history: applications two decisions of which have overlapped
  died        \* history: applications a request for which ended half-way

vars == <<app, orgs, req, begun, year, overlapped, died>>

Orgs == 1..Len(orgs)
OrgOrNull == Orgs \cup {Null}

\* The numbers that can have been made so far.
NumberOrNull == [year : 1..year, id : Orgs] \cup {Null}

TypeOK ==
  /\ app \in [Apps -> [status : Sanctions \cup
                         {"none", "submitted", "in_review", "approved", "rejected"},
                       org : OrgOrNull, licence : NumberOrNull]]
  /\ orgs \in Seq([status : {"active"} \cup Sanctions, licence : Licences \cup {Null},
                   by : Apps])
  /\ \A o \in Orgs : orgs[o].licence \in NumberOrNull
  /\ Len(orgs) <= MaxOrgs
  /\ req \in [Admins -> Requests \cup {Null}]
  /\ \A d \in Admins : req[d] # Null =>
       req[d].org \in OrgOrNull /\ req[d].licence \in NumberOrNull
  /\ begun \in Nat
  /\ year \in Nat \ {0}
  /\ overlapped \subseteq Apps
  /\ died \subseteq Apps

Init ==
  /\ app = [a \in Apps |-> [status |-> "none", org |-> Null, licence |-> Null]]
  /\ orgs = <<>>
  /\ req = [d \in Admins |-> Null]
  /\ begun = 0
  /\ year = 1
  /\ overlapped = {}
  /\ died = {}

-----------------------------------------------------------------------------
(* Applications *)

\* submitApplication, for a new organisation or one the applicant names.
SubmitApplication(a, o) ==
  /\ app[a].status = "none"
  /\ app' = [app EXCEPT ![a] = [status |-> "submitted", org |-> o, licence |-> Null]]
  /\ UNCHANGED <<orgs, req, begun, year, overlapped, died>>

\* submitRenewal, for the organisation of an approved application.
SubmitRenewal(a, b) ==
  /\ app[b].status = "approved"
  /\ SubmitApplication(a, app[b].org)

\* adminStartReview, adminRequestInfo, adminScheduleCompetency: three statuses
\* that nothing tells apart.
Review(a) ==
  /\ app[a].status # "none"
  /\ app' = [app EXCEPT ![a].status = "in_review"]
  /\ UNCHANGED <<orgs, req, begun, year, overlapped, died>>

-----------------------------------------------------------------------------
(* adminMakeDecision *)

Deciding(a) == {d \in Admins : req[d] # Null /\ req[d].a = a /\ req[d].pc # "sanction"}

\* The SELECT; a rejection has nothing to write but the application.
DecisionRead(d, a, decision) ==
  /\ req[d] = Null
  /\ begun < MaxBegun
  /\ app[a].status # "none"
  /\ begun' = begun + 1
  /\ req' = [req EXCEPT ![d] =
       [pc |-> IF decision = "approved" THEN "read" ELSE "write",
        a |-> a, to |-> decision, org |-> app[a].org, licence |-> Null]]
  /\ overlapped' = IF Deciding(a) = {} THEN overlapped ELSE overlapped \cup {a}
  /\ UNCHANGED <<app, orgs, year, died>>

\* Approval: UPDATE the organisation of the application, or INSERT one.
DecisionOrg(d) ==
  /\ req[d] # Null /\ req[d].pc = "read"
  /\ IF req[d].org # Null
     THEN /\ orgs' = [orgs EXCEPT ![req[d].org].status = "active"]
          /\ req' = [req EXCEPT ![d].pc = "number"]
     ELSE /\ Len(orgs) < MaxOrgs
          /\ orgs' = Append(orgs, [status |-> "active", licence |-> Null, by |-> req[d].a])
          /\ req' = [req EXCEPT ![d].pc = "number", ![d].org = Len(orgs')]
  /\ UNCHANGED <<app, begun, year, overlapped, died>>

\* Mutant: licence numbers count the organisations, this one not included.
NumberCounts(d) ==
  /\ req[d] # Null /\ req[d].pc = "number"
  /\ req' = [req EXCEPT ![d].pc = "licence",
                        ![d].licence = [year |-> year, id |-> Len(orgs) - 1]]
  /\ UNCHANGED <<app, orgs, begun, year, overlapped, died>>

\* generateLicenceNumber, when the organisation's statement has answered.
DecisionNumber(d) ==
  /\ req[d] # Null /\ req[d].pc = "number"
  /\ req' = [req EXCEPT ![d].pc = "licence",
                        ![d].licence = [year |-> year, id |-> req[d].org]]
  /\ UNCHANGED <<app, orgs, begun, year, overlapped, died>>

DecisionLicence(d) ==
  /\ req[d] # Null /\ req[d].pc = "licence"
  /\ orgs' = [orgs EXCEPT ![req[d].org].licence = req[d].licence]
  /\ req' = [req EXCEPT ![d].pc = "write"]
  /\ UNCHANGED <<app, begun, year, overlapped, died>>

\* Mutant: the link of an earlier decision is replaced.
DecisionAppRelinks(d) ==
  /\ req[d] # Null /\ req[d].pc = "write"
  /\ app' = [app EXCEPT ![req[d].a] =
       [status |-> req[d].to, org |-> req[d].org, licence |-> req[d].licence]]
  /\ req' = [req EXCEPT ![d] = Null]
  /\ UNCHANGED <<orgs, begun, year, overlapped, died>>

\* Mutant: the application is never linked to the organisation made for it.
DecisionAppUnlinked(d) ==
  /\ req[d] # Null /\ req[d].pc = "write"
  /\ app' = [app EXCEPT ![req[d].a].status = req[d].to,
                        ![req[d].a].licence = req[d].licence]
  /\ req' = [req EXCEPT ![d] = Null]
  /\ UNCHANGED <<orgs, begun, year, overlapped, died>>

\* Mutant: the number is made again for the application.
DecisionAppRenumbers(d) ==
  /\ req[d] # Null /\ req[d].pc = "write"
  /\ app' = [app EXCEPT ![req[d].a] =
       [status |-> req[d].to,
        org |-> IF app[req[d].a].org # Null THEN app[req[d].a].org ELSE req[d].org,
        licence |-> IF req[d].licence = Null THEN Null ELSE [year |-> year, id |-> req[d].org]]]
  /\ req' = [req EXCEPT ![d] = Null]
  /\ UNCHANGED <<orgs, begun, year, overlapped, died>>

\* The application: COALESCE keeps an organisation it is linked to.
DecisionApp(d) ==
  /\ req[d] # Null /\ req[d].pc = "write"
  /\ app' = [app EXCEPT ![req[d].a] =
       [status |-> req[d].to,
        org |-> IF app[req[d].a].org # Null THEN app[req[d].a].org ELSE req[d].org,
        licence |-> req[d].licence]]
  /\ req' = [req EXCEPT ![d] = Null]
  /\ UNCHANGED <<orgs, begun, year, overlapped, died>>

-----------------------------------------------------------------------------
(* adminSuspend, adminRevoke *)

\* The application, and what RETURNING says it is linked to.
SanctionApp(d, a, st) ==
  /\ req[d] = Null
  /\ begun < MaxBegun
  /\ app[a].status # "none"
  /\ begun' = begun + 1
  /\ app' = [app EXCEPT ![a].status = st]
  /\ req' = IF app[a].org = Null THEN req
            ELSE [req EXCEPT ![d] = [pc |-> "sanction", a |-> a, to |-> st, org |-> app[a].org,
                                     licence |-> Null]]
  /\ UNCHANGED <<orgs, year, overlapped, died>>

\* Mutant: a sanction does not reach the organisation.
SanctionForgetsOrg(d) ==
  /\ req[d] # Null /\ req[d].pc = "sanction"
  /\ req' = [req EXCEPT ![d] = Null]
  /\ UNCHANGED <<app, orgs, begun, year, overlapped, died>>

SanctionOrg(d) ==
  /\ req[d] # Null /\ req[d].pc = "sanction"
  /\ orgs' = [orgs EXCEPT ![req[d].org].status = req[d].to]
  /\ req' = [req EXCEPT ![d] = Null]
  /\ UNCHANGED <<app, begun, year, overlapped, died>>

\* A statement fails, or the process ends: nothing of the request is undone.
RequestDies(d) ==
  /\ req[d] # Null
  /\ req' = [req EXCEPT ![d] = Null]
  /\ died' = died \cup {req[d].a}
  /\ UNCHANGED <<app, orgs, begun, year, overlapped>>

YearPasses ==
  /\ year < MaxYear
  /\ year' = year + 1
  /\ UNCHANGED <<app, orgs, req, begun, overlapped, died>>

Next ==
  \/ \E a \in Apps, o \in OrgOrNull : SubmitApplication(a, o)
  \/ \E a, b \in Apps : SubmitRenewal(a, b)
  \/ \E a \in Apps : Review(a)
  \/ \E d \in Admins, a \in Apps, decision \in {"approved", "rejected"} :
       DecisionRead(d, a, decision)
  \/ \E d \in Admins : DecisionOrg(d)
  \/ \E d \in Admins : DecisionNumber(d)
  \/ \E d \in Admins : DecisionLicence(d)
  \/ \E d \in Admins : DecisionApp(d)
  \/ \E d \in Admins, a \in Apps, st \in Sanctions : SanctionApp(d, a, st)
  \/ \E d \in Admins : SanctionOrg(d)
  \/ \E d \in Admins : RequestDies(d)
  \/ YearPasses

Spec == Init /\ [][Next]_vars

-----------------------------------------------------------------------------
(* Properties *)

\* Two administrators may approve one application at once and insert an
\* organisation each; the link, once written, is for good.
LinkIsPermanent ==
  [][\A a \in Apps : app[a].org # Null => app'[a].org = app[a].org]_vars

\* Unless two decisions on it have overlapped, the licence number an application
\* shows is one of its organisation, and that carries a number of its own.  It is
\* the same number when the application alone is about the organisation, no
\* decision is in progress and none ended half-way, whatever years have passed
\* within and between its decisions.  A renewal is another application: approved
\* in a later year it leaves the earlier one with a number of its own.
LicencesAgree ==
  \A a \in Apps \ overlapped : app[a].licence # Null =>
    LET o == app[a].org IN
    /\ app[a].licence.id = o
    /\ orgs[o].licence # Null /\ orgs[o].licence.id = o
    /\ (/\ a \notin died /\ Deciding(a) = {}
        /\ \A b \in Apps \ {a} : app[b].org # o /\ orgs[o].by # b)
       => orgs[o].licence = app[a].licence

\* Every organisation an approval has inserted belongs to the application it
\* was inserted for or is about to, unless decisions on that one have
\* overlapped or a request for it ended half-way.
OrgsAreAccountedFor ==
  \A o \in Orgs : LET a == orgs[o].by IN
    \/ app[a].org = o
    \/ \E d \in Deciding(a) : req[d].org = o
    \/ a \in overlapped \cup died

\* "The DPCO cannot file new CARs until the suspension is lifted" (328): when
\* no request for it is in progress or has ended half-way, an application that
\* shows a sanction has no active organisation, however decisions and sanctions
\* have raced; an approval writes the organisation first and a sanction last.
\* Another application for the same organisation may have activated it.
SanctionReachesOrg ==
  \A a \in Apps :
    /\ app[a].status \in Sanctions
    /\ app[a].org # Null
    /\ \A d \in Admins : req[d] # Null => req[d].a # a
    /\ a \notin died
    /\ \A b \in Apps \ {a} : app[b].org # app[a].org
    => orgs[app[a].org].status \in Sanctions
=============================================================================
