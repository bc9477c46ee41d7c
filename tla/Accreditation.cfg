CONSTANTS
  Apps = {p1, p2}
  Admins = {d1, d2}
  MaxOrgs = 2
  MaxYear = 2
  MaxBegun = 5
  Null = Null
SPECIFICATION Spec
SYMMETRY Symmetry
INVARIANTS
  TypeOK
  LicencesAgree
  OrgsAreAccountedFor
  SanctionReachesOrg
PROPERTIES
  LinkIsPermanent
