SPECIFICATION Spec
CONSTANTS
  Submissions = {s1}
  Refresh = {}
  Workers = {w1, w2}
  CronWorkers = {w1, w2}
  CliWorkers = {}
  NoWorker = NoWorker
  AdminOps = {"cancel"}
  OutcomeKinds = {"succeeded", "failed"}
  DryRuns = {FALSE}
  RetryAttempts = 1
  BreakerLimit = 1
  MaxSlots = 2
  MaxRequests = 0
  MaxJobs = 2
  MaxCrashes = 0
SYMMETRY CronSymmetry
INVARIANTS
  TypeOK
  OneJobPerSlot
PROPERTIES
  ImplementsQueue
  KeepsContract
