SPECIFICATION FairSpec
CONSTANTS
  MaxFetches = 2
  NChunks = 2
  ReplyLen = 3
  SegMax = 2
  Window = 2
  Limits = {2, 4}
  MaxFaults = 1
  Resets = TRUE
CONSTRAINT MCBound
CHECK_DEADLOCK FALSE
INVARIANTS
  AckedIsHere
PROPERTIES
  InOrderBytes
  Completes
