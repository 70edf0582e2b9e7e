CONSTANTS
  MaxKeys = 2
  EarlyKeys = TRUE
SPECIFICATION FairSpec
PROPERTY BytesAreRead
CHECK_DEADLOCK FALSE
