SPECIFICATION FairConSpec
CONSTANTS
  s1 = s1
  w1 = w1
  Con = s1
  Capacity = 3
  Subs <- MCSubs
  Words <- MCWords
  Bounded = TRUE
  Watermark = 0
  MaxSeq = 7
  MaxReceived = 7
  Calls = {"subscribe", "subscribe_lossy", "try_recv", "drop"}
  Policies = {"Drain", "Immediate"}
CHECK_DEADLOCK FALSE
INVARIANTS DrainLosesNothing BatchEndIsFlagged
PROPERTIES ShutdownEnds PanicReleases
