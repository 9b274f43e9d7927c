SPECIFICATION FairSpec
CONSTANTS
  Source = "in"
  StageRings <- MCStageRings
  BranchB = "b"
  Rings <- MCRings
  Readers <- MCReaders
  Depth = 2
  MaxHead = 3
CHECK_DEADLOCK FALSE
INVARIANTS ResultsInOrder ReportIsExact
PROPERTIES ShutdownEndsStages EverythingGoesThrough
