SPECIFICATION Spec
CONSTANTS
  r1 = r1  r2 = r2  c1 = c1  None = None
  Requests <- MCRequests
  Checks <- MCChecks
  Delayed <- MCDelayed
  MaxSessions = 2
SYMMETRY MCSymmetry
INVARIANTS PaidMeansCounted WrittenOffIsClosed PaidTwiceIsReported AcknowledgedIsBooked
PROPERTIES OpenedOnlyWhileAccepted
CHECK_DEADLOCK FALSE
