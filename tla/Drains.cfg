SPECIFICATION FairSpec
CONSTANTS
  Submissions = {s1}
  Refresh = {}
  Workers = {w1}
  CronWorkers = {w1}
  CliWorkers = {}
  NoWorker = NoWorker
  AdminOps = {"dispatch", "cancel", "reject"}
  OutcomeKinds = {"succeeded", "failed"}
  DryRuns = {FALSE}
  RetryAttempts = 2
  BreakerLimit = 2
  MaxSlots = 1
  MaxRequests = 0
  MaxJobs = 2
  MaxCrashes = 1
PROPERTIES
  FailuresRetried
  QueueDrains
