CONSTANTS
  Approvals = {a1, a2, a3, a4}
  Commands = {c1}
  MaxInteger = 6
  Now = 7
  MaxFailures = 1
  Null = Null
SPECIFICATION Spec
SYMMETRY Symmetry
INVARIANTS
  TypeOK
  OnlyReorderedPayloadsReported
PROPERTIES
  ImplementsLog
CHECK_DEADLOCK FALSE
