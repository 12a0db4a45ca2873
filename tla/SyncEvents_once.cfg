SPECIFICATION FairSpec
CONSTANTS
  Event = {"failed", "uploaded", "updated"}
  Record = {"upload", "update"}
  EventRecord <- MCEventRecord
  Final = {"uploaded", "updated"}
  Process = {"app"}
  Owner <- MCOwner
  UsedMax = 3
  MaxYields = 1
  MaxCrashes = 2
CHECK_DEADLOCK FALSE
INVARIANTS
  TypeOK
  AtMostOnce
PROPERTIES
  ImplementsDelivery
  EventsSettle
