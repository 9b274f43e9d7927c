SPECIFICATION Spec
CONSTANTS
  s1 = s1
  w1 = w1
  w2 = w2
  Capacity = 2
  Subs <- MCOneSub
  Words <- MCWords
  Bounded = FALSE
  Watermark = 0
  MaxSeq = 4
  MaxReceived = 8
  Calls = {"subscribe", "try_recv", "latest"}

PROPERTY LatestNoneOnlyBeforeFirst
