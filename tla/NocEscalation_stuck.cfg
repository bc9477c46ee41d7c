CONSTANTS
  Alerts = {a1, a2}
  Matching = {a1, a2}
  Handlers = {h1}
  MaxBoots = 1
  None = None
SPECIFICATION NocFairSpec
PROPERTIES
  MatchingAlertsAreNotified
