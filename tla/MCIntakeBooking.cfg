SPECIFICATION IntakeSpec
CONSTANTS
  web = web  portal = portal  s1 = s1  s2 = s2  w1 = w1  Nothing = Nothing
  Conversations <- MCConversations
  Portal <- MCPortal
  Slots <- MCSlots
  Workers <- MCWorkers
  MaxRequests = 2
  MaxEvents = 1
  MaxFaults = 1
SYMMETRY MCSymmetry
INVARIANT BookedWasApproved
PROPERTIES LinkDecidesWhatItSaid CustodyLastsUntilDecision RetryBooksOnce
CHECK_DEADLOCK FALSE
