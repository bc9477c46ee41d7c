CONSTANTS
  Approvals = {a1}
  Commands = {c1}
  MaxInteger = 6
  Now = 7
  MaxFailures = 0
  Null = Null
SPECIFICATION Spec
INVARIANTS
  CommandsAreRecorded
CHECK_DEADLOCK FALSE
