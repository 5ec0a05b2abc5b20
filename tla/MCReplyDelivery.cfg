SPECIFICATION DeliverySpec
CONSTANTS
  r1 = r1  w1 = w1  w2 = w2  replica = replica  None = None
  Commands <- MCCommands
  Workers <- MCWorkers
  Identity <- MCIdentity
  Silent <- MCCommands
  Delays <- MCDelays
  MaxAttempts = 3
  BatchSize = 1
  LeaseTtl = 1
  RetryIn = 1
  MaxCrashes = 2
  MaxStalls = 2
INVARIANTS RepeatsOnlyInTheGap DeliveredIsRecorded
CHECK_DEADLOCK FALSE
