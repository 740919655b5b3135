SPECIFICATION Spec
CONSTANTS
  Submissions = {s1}
  Refresh = {}
  Workers = {w1, w2}
  CronWorkers = {w1}
  CliWorkers = {w2}
  NoWorker = NoWorker
  AdminOps = {"enqueue", "dispatch", "rerun", "resume", "phase", "cancel"}
  OutcomeKinds = {"succeeded", "nochannel"}
  DryRuns = {TRUE, FALSE}
  RetryAttempts = 1
  BreakerLimit = 1
  MaxSlots = 1
  MaxRequests = 1
  MaxJobs = 2
  MaxCrashes = 0
INVARIANTS
  OneLease ExclusiveRun EndedIsSettled VerdictJustified
PROPERTIES
  FrozenTargets
