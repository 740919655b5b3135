SPECIFICATION Spec
CONSTANTS
  Runs = {w1, w2}
  Findings = {t1, a1}
  TicketRoute = {t1}
  AutoFix = {a1}
  Nobody = Nobody
  Faults = {"db", "linear", "slack", "crash"}
  FollowUp = 1
  MaxDay = 2
  MaxRows = 3
SYMMETRY RunSymmetry
INVARIANTS TypeOK OneRunPerDay TicketsApart NoneForgotten
PROPERTY LinkKept
CHECK_DEADLOCK FALSE
