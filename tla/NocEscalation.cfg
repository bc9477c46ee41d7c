CONSTANTS
  Alerts = {a1, a2, a3}
  Matching = {a1, a2}
  Handlers = {h1}
  MaxBoots = 2
  None = None
SPECIFICATION NocFairSpec
INVARIANTS
  NocTypeOK
  OneNotificationPerLife
PROPERTIES
  ServedUnlessWedged
