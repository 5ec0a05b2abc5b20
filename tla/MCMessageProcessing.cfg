SPECIFICATION ProcessingSpec
CONSTANTS
  m1 = m1  r1 = r1  w1 = w1  w2 = w2  replica = replica  None = None
  Commands <- MCCommands
  Replies <- MCReplies
  ReplyTo <- MCReplyTo
  Workers <- MCTwoWorkers
  Identity <- MCIdentity
  Silent <- MCSilent
  Delays <- MCDelays
  MaxAttempts = 2
  BatchSize = 2
  LeaseTtl = 1
  RetryIn = 1
  MaxCrashes = 1
  MaxStalls = 1
INVARIANTS RepliesOfOneRun 
PROPERTIES EveryMessageAnswered
CHECK_DEADLOCK FALSE
