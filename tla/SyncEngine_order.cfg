SPECIFICATION Spec
CONSTANTS
  Action = {"Update", "Move", "Delete"}
  LocalAction = {}
  RootTag = "/"
  Tag <- MCTag
  Related <- MCRelated
  LaneTags <- MCLaneTags
  Category = {"all", "upload", "actions"}
  Categories <- MCCategories
  Budget <- MCBudget
  MaxRecords = 3
  MaxFailures = 1
  MaxCancels = 1
  MaxYields = 1
  MaxCrashes = 1
CHECK_DEADLOCK FALSE
INVARIANTS
  TypeOK
  NoConflictingActivity
  OvertakesOnlyFromOlderLane
  NothingLost
  DuplicateRequestsAfterCrashOnly
  Inductive
  RequestInv
