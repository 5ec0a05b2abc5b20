SPECIFICATION Spec
CONSTANTS
  r1 = r1
  r2 = r2
  k1 = k1
  k2 = k2
  Requests <- TwoRequests
  Keys <- TwoKeys
  MonthsOf <- TwoMonths
  MaxToday = 1
  Reported = {"completed", "deleted"}
  None = None
SYMMETRY Symmetry
INVARIANTS PlanAgrees NudgeStands
PROPERTIES OnlyStaleUndoKeepsPaid
CHECK_DEADLOCK FALSE
