SPECIFICATION FairSpec
CONSTANTS
  Events = {e1, e2}
  Subs = {s1}
  None = None
  SecondLength = 2
  MaxTime = 2
  Threshold = 2
  MaxHistory = 2
  InOrder = TRUE
  MaxFaults = 1
INVARIANTS SentWhenDue
  
CHECK_DEADLOCK FALSE
