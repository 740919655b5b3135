SPECIFICATION Spec
CONSTANTS
  Phases = {"acquire", "descriptions"}
  Actions = {"root", "rerun", "resume", "phase"}
  Results = {"succeeded", "failed"}
  MaxPending = 1
  MaxLate = 1
  MaxJobs = 3
INVARIANTS TypeOK RpcAgrees OneVersion
PROPERTIES MovesForward NothingLost
CHECK_DEADLOCK FALSE
