CONSTANTS
  Entities = {e1}
  Requests = {r1, r2}
  MaxCommits = 7
SPECIFICATION Spec
SYMMETRY Symmetry
CHECK_DEADLOCK FALSE
INVARIANTS
  TypeOK
  OnePenaltyPerViolation
  AuditRowsAreTrue
PROPERTY ImplementsLifecycle
