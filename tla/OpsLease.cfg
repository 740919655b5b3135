SPECIFICATION Spec
CONSTANTS
  Requests = {r1}
  SystemBots = {}
  Clicks = {c1}
  Agents = {a1}
  Nobody = Nobody
  Kinds = {"workflow"}
  Faults = {}
  DailyCap = 1
  MaxTime = 20
  SweepAge = 2
  ConfirmWindow = 4
  PendingLease = 4
  RunningLease = 16
  StaleCheck = 2
INVARIANTS LeaseIsSeen
CHECK_DEADLOCK FALSE
