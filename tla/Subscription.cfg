CONSTANTS
  Checkouts = {s1, s2}
  Handlers = {h1, h2}
  MaxEvents = 4
  None = None
SPECIFICATION SubSpec
SYMMETRY Symmetry
INVARIANTS
  SubTypeOK
  TiersAgree
  RowMirrorsStripe
PROPERTIES
  TrialNeverFollowsPayment
  DowngradeNeedsOvertaking
