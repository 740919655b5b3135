SPECIFICATION Spec
CONSTANTS
  Submissions = {s1}
  Refresh = {}
  Workers = {w1}
  CronWorkers = {w1}
  CliWorkers = {}
  NoWorker = NoWorker
  AdminOps = {"cancel"}
  OutcomeKinds = {"succeeded", "failed", "skipped", "noop", "nochannel"}
  DryRuns = {FALSE}
  RetryAttempts = 1
  BreakerLimit = 1
  MaxSlots = 1
  MaxRequests = 0
  MaxJobs = 1
  MaxCrashes = 0
PROPERTIES
  NoVerdictAfterCancel
