SPECIFICATION FairSpec
CONSTANTS
  u1 = u1
  u2 = u2
  d = d
  Ring = "ring"
  Rings = {"ring"}
  Readers <- MCReaders
  Ups <- MCUps
  Down = d
  Depth = 2
  MaxHead = 3
CHECK_DEADLOCK FALSE
INVARIANTS NeverAheadOfUpstreams NothingUpstreamsLost
PROPERTY GateOpens
