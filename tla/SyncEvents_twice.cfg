SPECIFICATION Spec
CONSTANTS
  Event = {"failed", "updated"}
  Record = {"upload", "update"}
  EventRecord <- MCEventRecord
  Final = {"updated"}
  Process = {"app", "ext"}
  Owner <- MCOwner
  UsedMax = 2
  MaxYields = 0
  MaxCrashes = 0
CHECK_DEADLOCK FALSE
INVARIANT AtMostOnce
