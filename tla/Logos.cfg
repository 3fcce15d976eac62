SPECIFICATION FairSpec
CONSTANTS
  Bucket <- Buckets
  Mandatory = {1, 2}
  max_bytes <- Limits
  fill_rate <- Rates
  Second = 1
  Backoff = 1
  MaxBackoff = 3
  MAX_LINE_LENGTH = 1
  Expansion = 2
  Overhead = 1
  Warning = 1
  Long = 4
  MaxDebt = 1
  Watched = 1
INVARIANTS Inv RateBounded
PROPERTY GetsThrough
CHECK_DEADLOCK FALSE
