SPECIFICATION FairSpec
CONSTANTS
  MaxBatches = 2
  MaxSize = 2
  MaxSingles = 2
INVARIANTS
  TypeOK
  CountsNearlyAgree
  CleanBatchIsHonest
PROPERTY BulkReturns
CHECK_DEADLOCK FALSE
