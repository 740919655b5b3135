SPECIFICATION FairSpec
CONSTANTS
  Requests = {r1, r2}
  SystemBots = {r2}
  Clicks = {c1, c2}
  Agents = {}
  Nobody = Nobody
  Kinds = {"brand", "workflow"}
  Faults = {"lost"}
  DailyCap = 2
  MaxTime = 2
  SweepAge = 1
  ConfirmWindow = 1
  PendingLease = 2
  RunningLease = 3
  StaleCheck = 1
PROPERTIES RunningEnds ConfirmedEnds
CHECK_DEADLOCK FALSE
