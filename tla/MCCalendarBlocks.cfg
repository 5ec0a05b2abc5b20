\* One worker, two days of two slots.  The owner may stop at any time.
SPECIFICATION BlocksSpec
CONSTANTS
  Workers = {w1}
  Slots = {s1, s2}
  Ranges = {{s1}, {s2}}
  MaxDays = 2
  MaxMessages = 3
  MaxBlocks = 3
  MaxFaults = 2
  Nothing = Nothing
INVARIANTS
  CalendarAgrees

  
CHECK_DEADLOCK FALSE
