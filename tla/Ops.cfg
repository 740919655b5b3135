SPECIFICATION Spec
CONSTANTS
  Requests = {r1, r2}
  SystemBots = {}
  Clicks = {c1, c2}
  Agents = {a1, a2}
  Nobody = Nobody
  Kinds = {"brand", "workflow"}
  Faults = {"db", "lost", "restart"}
  DailyCap = 1
  MaxTime = 2
  SweepAge = 1
  ConfirmWindow = 1
  PendingLease = 2
  RunningLease = 3
  StaleCheck = 1
SYMMETRY PressSymmetry
INVARIANTS TypeOK ActsOnce NoMeansNo CapHolds OneOwner NoticeIsTrue
CHECK_DEADLOCK FALSE
