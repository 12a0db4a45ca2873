SPECIFICATION FairSpec
CONSTANTS
  Work <- MCWork
  QueryWork <- MCQueryWork
  MaxUploads = 2
  MaxWork = 2
  MaxImports = 1
  MaxOutages = 1
  MaxBlocks = 2
CHECK_DEADLOCK FALSE
INVARIANTS
  TypeOK
  NoLostWakeUp
PROPERTIES
  UploadsScheduled
