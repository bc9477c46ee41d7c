CONSTANTS
  Parts = {"a", "b"}
  Contents <- MCContents
  Alterations <- MCAlterations
  MaxEntries = 6
  MaxDays = 2
SPECIFICATION Spec
CHECK_DEADLOCK FALSE
INVARIANTS
  TypeOK
  AlterationsAreLocated
  RootsCoverPrefixes
  ProofsVerify
