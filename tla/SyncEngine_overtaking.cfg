SPECIFICATION Spec
CONSTANTS
  Action = {"Update", "Move", "Delete"}
  LocalAction = {}
  RootTag = "/"
  Tag <- MCTag
  Related <- MCRelated
  LaneTags <- MCLaneTags
  Category = {"all", "upload", "actions"}
  Categories <- MCCategories
  Budget <- MCBudget
  MaxRecords = 3
  MaxFailures = 0
  MaxCancels = 0
  MaxYields = 0
  MaxCrashes = 0
CHECK_DEADLOCK FALSE
INVARIANT NoOvertaking
