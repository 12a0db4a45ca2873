SPECIFICATION FairSpec
CONSTANTS
  Process = {"app", "ext"}
  Extension = {"ext"}
  Record = {"r1", "r2"}
  Owner <- MCOwner
  Before <- MCBefore
  MaxAways = 2
CHECK_DEADLOCK FALSE
INVARIANTS
  TypeOK
  TakenOverOnlyAfterAbsence
PROPERTIES
  LeftRecordsServed
