SPECIFICATION BusySpec
CONSTANTS
  Work <- MCWork
  QueryWork <- MCQueryWork
  MaxUploads = 1
  MaxWork = 2
  MaxImports = 0
  MaxOutages = 0
  MaxBlocks = 2
CHECK_DEADLOCK FALSE
PROPERTY DeferralBounded
