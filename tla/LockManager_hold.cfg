SPECIFICATION FairSpec
CONSTANTS
  Process = {"app", "ext"}
  Request = {"a1", "e1", "e2"}
  Owner <- MCOwner
  TryRequest = {"e2"}
  Interval = 2
  Suspendable = {"app"}
  MaxSleeps = 1
  Killable = {"ext"}
  MaxCrashes = 1
INVARIANTS
  TypeOK
  HeldUnlessSuspended
  NoAbandonedLock
PROPERTIES
  ClientsAreTold
CHECK_DEADLOCK FALSE
