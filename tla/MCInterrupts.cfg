CONSTANTS
  MaxKeys = 3
  EarlyKeys = FALSE
SPECIFICATION FairSpec
INVARIANT NothingLeftInService
PROPERTIES
  BytesAreRead
  EnableReturns
CHECK_DEADLOCK FALSE
