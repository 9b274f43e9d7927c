SPECIFICATION FairSpec
CONSTANTS
  s1 = s1
  s2 = s2
  s3 = s3
  Capacity = 2
  Subs <- MCSubs
  Panics = TRUE
  MaxSeq = 6
CHECK_DEADLOCK FALSE
INVARIANTS NoAliasing UnprocessedRetained
PROPERTY EverythingPublished
