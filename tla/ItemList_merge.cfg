SPECIFICATION FairSpec
CONSTANTS
  Process = {"app", "ext"}
  Task <- MCTask
  Scanner = {"app", "ext"}
  Killable = {"ext"}
  Opened <- MCOpened
  MaxRev = 2
  MaxEvents = 1
INVARIANTS
  TypeOK
  RootETagVouches
PROPERTIES
  LocalWorkKept
  CatchesUp
CHECK_DEADLOCK FALSE
