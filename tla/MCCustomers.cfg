SPECIFICATION Spec
CONSTANTS
  t1 = t1
  t2 = t2
  q1 = q1
  e1 = e1
  e2 = e2
  p1 = p1
  ch1 = ch1
  None = None
  Tasks <- TwoTasks
  Quotes <- OneQuote
  EmailOf <- ToFirst
  PhoneOf <- WithPhone
  Emails <- TwoEmails
  OwnerEmails <- Second
  Phones <- OnePhone
  Chats <- OneChat
  MaxCustomers = 2
  MaxLinks = 1
  MaxPlans = 1
  MaxNow = 2
SYMMETRY Symmetry
INVARIANTS QuoteFollowsItsEmail OneSessionPerLink SessionsBelongToReaders 
CHECK_DEADLOCK FALSE
