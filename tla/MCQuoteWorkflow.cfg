SPECIFICATION Spec
CONSTANTS
  m1 = m1  m2 = m2  m3 = m3  w1 = w1  w2 = w2  None = None
  Messages <- MCMessages
  Texts <- MCTexts
  Wording <- MCWording
  Readings <- MCReadings
  Workers <- MCWorkers
  MaxAttempts = 2
  MaxFaults = 1
SYMMETRY MCSymmetry
INVARIANTS CustomerGetsApprovedDraft ApprovedIsBeingDelivered
PROPERTIES DecisionIsFinal
CHECK_DEADLOCK FALSE
