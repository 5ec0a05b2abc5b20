SPECIFICATION Spec
CONSTANTS
  c1 = c1  c2 = c2  w1 = w1  w2 = w2  replica = replica  None = None
  Commands <- MCCommands
  Workers <- MCWorkers
  Identity <- MCIdentity
  Silent <- MCSilent
  Delays <- MCDelays
  MaxAttempts = 2
  BatchSize = 2
  LeaseTtl = 1
  RetryIn = 1
  MaxCrashes = 1
  MaxStalls = 1
INVARIANTS ExclusiveLease RowReportsNewestClaim OneNoticePerDeadCommand
PROPERTY ImplementsQueue
CHECK_DEADLOCK FALSE
