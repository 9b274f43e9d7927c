SPECIFICATION FairSpec
CONSTANTS
  Topics = {"prices"}
  Types = {"f64", "u32"}
  Rings = {"r1", "r2"}
  Readers = {"a", "s"}
  Watched = "a"
  Budgets = {0, 1}
  MaxBuf = 2
  Depth = 2
  MaxHead = 4
CHECK_DEADLOCK FALSE
INVARIANTS OnePublisherPerRing TopicIsOneRing SnapshotFits NothingLeftBehind
PROPERTIES DeltasAddUp AwaitReturns
