SPECIFICATION Spec
CONSTANTS
  Action = {"Upload", "UploadNew"}
  LocalAction = {}
  RootTag = "/"
  Tag <- MCTag
  Related <- MCRelated
  LaneTags <- MCLaneTags
  Category = {"all", "upload", "actions"}
  Categories <- MCCategories
  Budget <- MCBudget
  MaxRecords = 2
  MaxFailures = 1
  MaxCancels = 0
  MaxYields = 0
  MaxCrashes = 0
CHECK_DEADLOCK FALSE
INVARIANT BudgetRespected
