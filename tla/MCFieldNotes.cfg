CONSTANTS
  t1 = t1
  a1 = a1
  r1 = r1
  x = x
  e1 = e1
  w1 = w1
  w2 = w2
  None = None
  Messages <- MCMessages
  Audio <- MCAudio
  Replies <- MCReplies
  Origin = t1
  Items = {x}
  Covers <- MCCovers
  Evidence = {e1}
  Workers = {w1, w2}
  MaxApprovals = 1
  MaxFaults = 1
SPECIFICATION Spec
SYMMETRY Symmetry
INVARIANTS ReportCoversChecklist PublishedWasApproved
PROPERTY ImplementsLeasedCall
CHECK_DEADLOCK FALSE
