SPECIFICATION Spec
CONSTANTS
  t1 = t1
  t2 = t2
  t3 = t3
  Targets = {t1, t2, t3}
  Chunks <- OneChunk
  Order <- DetectToPersist
  Concurrency = 2
  BreakerLimit = 1
  DryRun = FALSE
SYMMETRY TargetSymmetry
INVARIANTS TypeOK Overshoot SummaryAgrees
PROPERTY ImplementsReports
CHECK_DEADLOCK FALSE
