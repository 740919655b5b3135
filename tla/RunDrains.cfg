SPECIFICATION FairSpec
CONSTANTS
  t1 = t1
  t2 = t2
  t3 = t3
  Targets = {t1, t2, t3}
  Chunks <- TwoChunks
  Order <- AcquirePersist
  Concurrency = 2
  BreakerLimit = 1
  DryRun = FALSE
PROPERTIES CallbacksEnd RunEnds TripEndsRun
CHECK_DEADLOCK FALSE
