SPECIFICATION FairSpec
CONSTANTS
  Action = {"Upload", "UploadNew", "Update", "LocalCopyDelete"}
  LocalAction = {"LocalCopyDelete"}
  RootTag = "/"
  Tag <- MCTag
  Related <- MCRelated
  LaneTags <- MCLaneTags
  Category = {"all", "upload", "actions"}
  Categories <- MCCategories
  Budget <- MCBudget
  MaxRecords = 2
  MaxFailures = 1
  MaxCancels = 1
  MaxYields = 0
  MaxCrashes = 1
CHECK_DEADLOCK FALSE
INVARIANT LoadInv
PROPERTIES
  ReadyLanesStayInBudget
  RecordsSettle
  EmptyLanesDropped
