SPECIFICATION Spec
CONSTANTS
  Submissions = {s1, s2}
  Refresh = {s2}
  Workers = {w1}
  CronWorkers = {w1}
  CliWorkers = {}
  NoWorker = NoWorker
  AdminOps = {"cancel", "approve"}
  OutcomeKinds = {"succeeded", "failed", "skipped", "noop", "nochannel"}
  DryRuns = {FALSE}
  RetryAttempts = 2
  BreakerLimit = 1
  MaxSlots = 1
  MaxRequests = 0
  MaxJobs = 2
  MaxCrashes = 0
INVARIANTS
  RetryContinues CountsMatch
PROPERTIES
  ResultsAreFenced
  OutcomeIsFinal
