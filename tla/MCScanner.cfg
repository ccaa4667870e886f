SPECIFICATION FairSpec
CONSTANTS
  MaxU64 = 7
  MaxBlockRange = 3
  MaxRetries = 3
INVARIANTS
  TypeOK
  RangeScannedOnce
PROPERTIES
  ScanReturns
CHECK_DEADLOCK FALSE
