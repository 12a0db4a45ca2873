SPECIFICATION FairSpec
CONSTANTS
  Process = {"app", "ext"}
  Origin = "app"
  Request = {1, 2}
  MaxFailures = 1
  MaxCrashes = 1
INVARIANTS
  TypeOK
  OverlapOnlyAfterInterference
  CopyKeptUntilUploaded
PROPERTIES
  ReuploadOnlyAfterTermination
  UploadSettles
CHECK_DEADLOCK FALSE
