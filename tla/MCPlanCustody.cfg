CONSTANTS
  f1 = f1
  f2 = f2
  x = x
  w1 = w1
  w2 = w2
  c1 = c1
  None = None
  Files = {f1, f2}
  Cases = {c1}
  Contents = {x}
  Content <- SameContent
  Workers = {w1, w2}
  MaxAttempts = 2
  MaxFaults = 1
SPECIFICATION FairSpec
INVARIANT CustodyIsReal
PROPERTIES ImplementsLeasedCall DrawingsEnd
CHECK_DEADLOCK FALSE
