CONSTANTS
  m1 = m1
  m2 = m2
  t1 = t1
  t2 = t2
  w1 = w1
  w2 = w2
  r1 = r1
  r2 = r2
  None = None
  Messages = {m1, m2}
  Threads = {t1, t2}
  Texts = {"yes", "more", "other"}
  Workers = {w1, w2}
  Routes = {r1, r2}
  MaxCommands = 2
  MaxDays = 1
  MaxFaults = 1
SPECIFICATION Spec
SYMMETRY Symmetry
INVARIANTS RepliesAreTrue 
PROPERTIES ImplementsConfirmation SentOnceAsDated
CHECK_DEADLOCK FALSE
